---------------------------- MODULE CompileShards ----------------------------
(* Stage 2 of the text-to-speech data pipeline (tts/data/compile.py): worker  *)
(* processes turn each tokenized shard into one temporary part per split, the *)
(* driver marks the shard in its manifest, and when every shard is done the   *)
(* parts of a split are sorted, cut into output shards and removed.  A run    *)
(* may be killed anywhere and started again.                                  *)
EXTENDS Integers, FiniteSets, FiniteSetsExt

CONSTANTS
    Names,        \* names of input shards, numbers in the order sorted() gives
    Rows,         \* rows
    Splits,       \* the split directories, or {Top} when nothing is split
    Top,          \* the output directory itself
    SplitOf,      \* _relative_split_dir of a row
    Length,       \* tokens of a row's sequence
    Rejected,     \* rows build_sequence rejects
    ShardSize,    \* ROWS_PER_SHARD
    MayFail,      \* BOOLEAN: a worker may raise
    CompileRuns,  \* bound: runs of the command
    NoFile

VARIABLES
    input,        \* the tokenized shards: rows, or NoFile
    entries,      \* compile_manifest.json: a status by path, or NoFile
    temp,         \* .compile_tmp: whether it is there, and its parts by split and id
    rejects,      \* compile_failed/shard_NNNNN.jsonl by id
    out,          \* output shards by split and number: rows with their part's id
    cPc,          \* "down", "pool", or a step of the finalization
    results,      \* what the workers returned: by name "run", "ok" or "raised"
    unwritten,    \* splits a worker has still to write, by name
    splitsLeft,   \* splits the finalization has still to rewrite
    cRuns,        \* runs so far
    sameInput,    \* history: every run saw the shards the first one saw
    tempRemains   \* history: part of .compile_tmp outlived its removal

cVars == <<entries, temp, rejects, out, cPc, results, unwritten, splitsLeft,
           cRuns, sameInput, tempRemains>>

Present == {n \in Names : input[n] # NoFile}

(* The id of an input shard is its place in the sorted list.                  *)
IdOf(n, names) == Cardinality({m \in names : m < n})

Nothing == [x \in {} |-> 0]
EmptyTemp == [there |-> FALSE,
              parts |-> [sp \in Splits |-> [i \in Names |-> NoFile]]]
NoShards == [k \in Names |-> NoFile]

CInit ==
    /\ entries = NoFile
    /\ temp = EmptyTemp
    /\ rejects = [i \in Names |-> {}]
    /\ out = [sp \in Splits |-> NoShards]
    /\ cPc = "down"
    /\ results = Nothing /\ unwritten = Nothing
    /\ splitsLeft = {}
    /\ cRuns = 0
    /\ sameInput = TRUE /\ tempRemains = FALSE

(* main, per dataset: statuses are taken over by path.                        *)
Resumed ==
    [n \in Present |-> IF entries # NoFile /\ n \in DOMAIN entries
                         THEN entries[n] ELSE "pending"]

AllDone(m) == \A n \in DOMAIN m : m[n] = "done"

(* _iter_temp_dataset_dirs: the split directories that hold a part.           *)
SplitsWithParts == {sp \in Splits : \E i \in Names : temp.parts[sp][i] # NoFile}

(* What follows the pool: nothing while a shard is failed, or when there is   *)
(* no temporary directory.                                                    *)
AfterPool(m, tempThere) == IF AllDone(m) /\ tempThere THEN "clear" ELSE "down"

SplitsOf(n) == {SplitOf[r] : r \in input[n] \ Rejected}

CompileStart ==
    /\ cPc = "down" /\ cRuns < CompileRuns
    /\ cRuns' = cRuns + 1
    /\ IF Present = {}
         THEN UNCHANGED <<entries, results, unwritten, cPc, sameInput>>
         ELSE LET m == Resumed
                  pending == {n \in DOMAIN m : m[n] # "done"}
              IN  /\ entries' = m
                  /\ sameInput' = (sameInput /\
                        (entries # NoFile => DOMAIN entries = Present))
                  /\ results' = [n \in pending |-> "run"]
                  /\ unwritten' = [n \in pending |-> SplitsOf(n)]
                  /\ cPc' = IF pending # {} THEN "pool"
                            ELSE AfterPool(m, temp.there)
    /\ UNCHANGED <<temp, rejects, out, splitsLeft, tempRemains>>

(* _write_rows_atomic: a worker puts the part of one split in place, named by *)
(* the id of its shard.                                                       *)
PartIdByCount(n) ==
    Cardinality({i \in Names : \E sp \in Splits : temp.parts[sp][i] # NoFile})

PartId(n) == IdOf(n, DOMAIN entries)

WritePart(n, sp) ==
    /\ cPc = "pool" /\ n \in DOMAIN results /\ results[n] = "run"
    /\ sp \in unwritten[n]
    /\ temp' = [temp EXCEPT !.there = TRUE,
                  !.parts[sp][PartId(n)] =
                      {r \in input[n] \ Rejected : SplitOf[r] = sp}]
    /\ unwritten' = [unwritten EXCEPT ![n] = @ \ {sp}]
    /\ UNCHANGED <<entries, rejects, out, cPc, results, splitsLeft, cRuns,
                   sameInput, tempRemains>>

(* The end of _process_shard_to_temp: rejected rows replace the shard's file  *)
(* in compile_failed; a shard without any leaves the file alone.              *)
WorkerReturns(n) ==
    /\ cPc = "pool" /\ n \in DOMAIN results /\ results[n] = "run"
    /\ unwritten[n] = {}
    /\ rejects' = IF input[n] \cap Rejected = {} THEN rejects
                  ELSE [rejects EXCEPT ![PartId(n)] = input[n] \cap Rejected]
    /\ results' = [results EXCEPT ![n] = "ok"]
    /\ UNCHANGED <<entries, temp, out, cPc, unwritten, splitsLeft, cRuns,
                   sameInput, tempRemains>>

WorkerRaises(n) ==
    /\ MayFail
    /\ cPc = "pool" /\ n \in DOMAIN results /\ results[n] = "run"
    /\ results' = [results EXCEPT ![n] = "raised"]
    /\ UNCHANGED <<entries, temp, rejects, out, cPc, unwritten, splitsLeft,
                   cRuns, sameInput, tempRemains>>

(* One turn of the as_completed loop, and what follows the last.              *)
StatusAfter(result) == IF result = "ok" THEN "done" ELSE "failed"

Collect(n) ==
    /\ cPc = "pool" /\ n \in DOMAIN results /\ results[n] # "run"
    /\ LET m == [entries EXCEPT ![n] = StatusAfter(results[n])]
           rest == DOMAIN results \ {n}
       IN  /\ entries' = m
           /\ results' = [x \in rest |-> results[x]]
           /\ unwritten' = [x \in rest |-> unwritten[x]]
           /\ cPc' = IF rest # {} THEN "pool" ELSE AfterPool(m, temp.there)
    /\ UNCHANGED <<temp, rejects, out, splitsLeft, cRuns, sameInput, tempRemains>>

(* _clear_output_shards of the output directory.                              *)
ClearTop ==
    /\ cPc = "clear"
    /\ out' = IF Top \in Splits THEN [out EXCEPT ![Top] = NoShards] ELSE out
    /\ splitsLeft' = SplitsWithParts
    /\ cPc' = IF SplitsWithParts = {} THEN "rmtree" ELSE "rewrite"
    /\ UNCHANGED <<entries, temp, rejects, results, unwritten, cRuns, sameInput,
                   tempRemains>>

(* _rewrite_sorted_dataset: the parts of a split in one table, the longest    *)
(* rows first, cut into shards.                                               *)
Table(sp) == UNION {{<<i, r>> : r \in temp.parts[sp][i]} :
                       i \in {j \in Names : temp.parts[sp][j] # NoFile}}
Before(x, y) == \/ Length[x[2]] > Length[y[2]]
                \/ Length[x[2]] = Length[y[2]] /\ x[1] < y[1]
                \/ Length[x[2]] = Length[y[2]] /\ x[1] = y[1] /\ x[2] < y[2]
Sliced(table) ==
    [k \in Names |->
        LET slice == {x \in table :
                        Cardinality({y \in table : Before(y, x)}) \div ShardSize = k}
        IN  IF slice = {} THEN NoFile ELSE slice]

RewriteSplit(sp) ==
    /\ cPc = "rewrite" /\ sp \in splitsLeft
    /\ out' = [out EXCEPT ![sp] = Sliced(Table(sp))]
    /\ splitsLeft' = splitsLeft \ {sp}
    /\ cPc' = IF splitsLeft = {sp} THEN "rmtree" ELSE "rewrite"
    /\ UNCHANGED <<entries, temp, rejects, results, unwritten, cRuns, sameInput,
                   tempRemains>>

RemoveTemp ==
    /\ cPc = "rmtree"
    /\ temp' = EmptyTemp
    /\ cPc' = "down"
    /\ UNCHANGED <<entries, rejects, out, results, unwritten, splitsLeft, cRuns,
                   sameInput, tempRemains>>

(* What rmtree leaves when it is cut, or meets an error it ignores: some of   *)
(* the parts, or only the directory.                                          *)
Leftovers ==
    {[there |-> TRUE,
      parts |-> [sp \in Splits |-> [i \in Names |->
                    IF sp \in kept THEN temp.parts[sp][i] ELSE NoFile]]] :
        kept \in SUBSET SplitsWithParts}

RemoveTempPartly ==
    /\ MayFail /\ cPc = "rmtree"
    /\ temp' \in Leftovers
    /\ tempRemains' = TRUE
    /\ cPc' = "down"
    /\ UNCHANGED <<entries, rejects, out, results, unwritten, splitsLeft, cRuns,
                   sameInput>>

(* A kill, of the driver and its workers.  Within the rewriting of a split it *)
(* leaves the first shards only.                                              *)
CutRewrite ==
    {[out EXCEPT ![sp] = [k \in Names |->
          IF k < n THEN Sliced(Table(sp))[k] ELSE NoFile]] :
        sp \in splitsLeft, n \in Names}

CompileKill ==
    /\ cPc # "down"
    /\ cPc' = "down"
    /\ out' \in {out} \cup (IF cPc = "rewrite" THEN CutRewrite ELSE {})
    /\ results' = Nothing /\ unwritten' = Nothing /\ splitsLeft' = {}
    /\ UNCHANGED <<entries, temp, rejects, cRuns, sameInput, tempRemains>>

CompileWork ==
    \/ \E n \in Names : WorkerReturns(n) \/ Collect(n)
    \/ \E n \in Names, sp \in Splits : WritePart(n, sp)
    \/ ClearTop
    \/ \E sp \in Splits : RewriteSplit(sp)
    \/ RemoveTemp

CompileStep ==
    \/ CompileStart \/ CompileWork \/ CompileKill \/ RemoveTempPartly
    \/ \E n \in Names : WorkerRaises(n)

Finished == /\ cPc = "down" /\ entries # NoFile
            /\ AllDone(entries) /\ ~temp.there

OutShards == {s \in Splits \X Names : out[s[1]][s[2]] # NoFile}
RowsOut == UNION {{x[2] : x \in out[s[1]][s[2]]} : s \in OutShards}

(* No row is twice in the output, in one shard or in two, while the input     *)
(* stays what it was: a shard compiled again after a kill replaces its parts. *)
NoRowTwice ==
    sameInput =>
      \A s, t \in OutShards : \A x \in out[s[1]][s[2]], y \in out[t[1]][t[2]] :
         x[2] = y[2] => s = t /\ x = y

Complete ==
    UNION {input[n] : n \in DOMAIN entries}
       \subseteq RowsOut \cup UNION {rejects[i] : i \in Names}

(* When every shard is done and nothing temporary is left, each row of the    *)
(* input is in the output or among the rejected ones, whatever was killed or  *)
(* failed before, while the input stays what it was and .compile_tmp was      *)
(* removed whole.                                                             *)
OutputComplete == Finished /\ sameInput /\ ~tempRemains => Complete

CompiledOnce == NoRowTwice /\ OutputComplete
=============================================================================
