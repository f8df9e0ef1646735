---------------------------- MODULE DataPipeline ----------------------------
(* The text-to-speech data pipeline: tokenize, then compile.  Stage 1         *)
(* (tts/data/tokenize.py) is stated here, stage 2 in CompileShards, and the   *)
(* two are composed at the end.                                               *)
(*                                                                            *)
(* The driver of stage 1 cuts the rows of a source into shards by position,   *)
(* an actor encodes a shard, and the driver writes each result in the order   *)
(* they come back: a Parquet file, the rows that gave no token appended to    *)
(* failed.jsonl, the shard's entry of the manifest.  A run may be killed      *)
(* between any two of these, or in the middle of the append, and started      *)
(* again, after the source has grown or with another rows_per_shard.          *)
EXTENDS Integers, Sequences, FiniteSets, FiniteSetsExt

CONSTANTS
    MaxRows,      \* bound: rows the source ever has
    FirstRows,    \* rows of the source at first
    Sizes,        \* the rows_per_shard a run may be configured with
    Silent,       \* rows whose audio cannot be loaded or is empty
    Flaky,        \* rows whose encoding may fail in one run and not in another
    MaxRuns,      \* bound: runs of the command
    NoFile        \* a file that does not exist

ASSUME TokenizeAssumption ==
    /\ MaxRows \in Nat /\ FirstRows \in 1 .. MaxRows
    /\ Sizes \subseteq Nat \ {0} /\ Sizes # {}
    /\ Silent \subseteq 1 .. MaxRows /\ Flaky \subseteq 1 .. MaxRows
    /\ MaxRuns \in Nat
    /\ \A rows \in SUBSET (1 .. MaxRows) : rows # NoFile
    /\ \A n \in 0 .. MaxRows :
         \A m \in [size : Sizes, shards : [1 .. n -> {"pending", "done"}]] : m # NoFile

VARIABLES
    total,        \* rows in the source
    rps,          \* rows_per_shard of the run
    manifest,     \* tokenize_manifest.json
    files,        \* shard_NNNNN.parquet: the rows it holds, or NoFile
    failedLog,    \* failed.jsonl: the rows that can be read from it, and whether
                  \* it ends inside a line
    tokPc,        \* "down", or what the driver does next
    status,       \* the driver's manifest: one status per shard
    todo,         \* shards submitted and not yet returned
    cur,          \* the result in the driver's hands
    tokRuns,      \* runs so far
    given,        \* history: the rows a shard was submitted with, last
    cutShort      \* history: shards whose file was written but whose failed rows
                  \* may not be in the log

tokVars == <<total, rps, manifest, files, failedLog, tokPc, status, todo, cur,
             tokRuns, given, cutShort>>

Ids == 0 .. MaxRows - 1

CeilDiv(n, d) == (n + d - 1) \div d

(* _shard_rows and _iter_hf_shards: the rows at positions id * size and on.   *)
ShardCount(n, size) == CeilDiv(n, size)
ShardRows(id, n, size) == {r \in 1 .. n : (r - 1) \div size = id}

NoResult == [id |-> 0, ok |-> {}, bad |-> {}]

TokInit ==
    /\ total = FirstRows
    /\ rps \in Sizes
    /\ manifest = NoFile
    /\ files = [s \in Ids |-> NoFile]
    /\ failedLog = [rows |-> {}, torn |-> FALSE]
    /\ tokPc = "down"
    /\ status = <<>>
    /\ todo = {}
    /\ cur = NoResult
    /\ tokRuns = 0
    /\ given = [s \in Ids |-> {}]
    /\ cutShort = {}

(* Rows are added to the source between two runs.                             *)
SourceGrows ==
    /\ tokPc = "down" /\ total < MaxRows
    /\ total' = total + 1
    /\ UNCHANGED <<rps, manifest, files, failedLog, tokPc, status, todo, cur,
                   tokRuns, given, cutShort>>

(* _check_rows_per_shard: a manifest written with another size is refused.    *)
SizeAccepted(size) == manifest = NoFile \/ manifest.size = size

(* _sync_manifest: entries are taken over by position, new ones are pending;  *)
(* a first run has them all pending.                                          *)
Synced(size) ==
    [i \in 1 .. ShardCount(total, size) |->
        IF manifest # NoFile /\ i <= Len(manifest.shards)
            THEN manifest.shards[i] ELSE "pending"]

(* _process_jsonl_dataset and _process_hf_dataset up to the submission of the *)
(* shards that are not done; nothing runs when all are.                       *)
TokStart ==
    /\ tokPc = "down" /\ tokRuns < MaxRuns
    /\ tokRuns' = tokRuns + 1
    /\ \E size \in Sizes :
        /\ rps' = size
        /\ IF ~SizeAccepted(size)
             THEN UNCHANGED <<manifest, status, todo, given, tokPc>>
             ELSE LET s == Synced(size)
                      p == {i \in 0 .. Len(s) - 1 : s[i + 1] # "done"}
                  IN  /\ manifest' = [size |-> size, shards |-> s]
                      /\ status' = s
                      /\ todo' = p
                      /\ given' = [i \in Ids |-> IF i \in p
                                    THEN ShardRows(i, total, size) ELSE given[i]]
                      /\ tokPc' = IF p = {} THEN "down" ELSE "next"
    /\ UNCHANGED <<total, files, failedLog, cur, cutShort>>

(* _row_waveform: what loads as an empty waveform.                            *)
Mute(rows) == rows \cap Silent

(* process_rows with _encode_waveforms: silent rows give no token, others do, *)
(* except that any flaky row may fail: a long one by itself, a short one in   *)
(* the one-by-one fallback after its batch ran out of memory.  A row without  *)
(* tokens is returned among the failed ones.  ActorPool.map_unordered hands   *)
(* over the shards in any order.                                              *)
EncodedForgetsSilent(id) ==
    LET rows == given[id]
    IN  {[id |-> id, ok |-> (rows \ Mute(rows)) \ lost, bad |-> lost] :
             lost \in SUBSET ((rows \cap Flaky) \ Mute(rows))}

Encoded(id) ==
    LET rows == given[id]
    IN  {[id |-> id, ok |-> (rows \ Mute(rows)) \ lost,
          bad |-> Mute(rows) \cup lost] :
             lost \in SUBSET ((rows \cap Flaky) \ Mute(rows))}

Receive ==
    /\ tokPc = "next" /\ todo # {}
    /\ \E id \in todo :
        /\ cur' \in Encoded(id)
        /\ todo' = todo \ {id}
    /\ tokPc' = "write"
    /\ UNCHANGED <<total, rps, manifest, files, failedLog, status, tokRuns,
                   given, cutShort>>

(* Any other exception of a batch leaves process_rows, comes out of the       *)
(* iterator and ends the run.                                                 *)
TokRaises ==
    /\ tokPc = "next" /\ \E id \in todo : given[id] \cap Flaky # {}
    /\ tokPc' = "down" /\ todo' = {} /\ status' = <<>>
    /\ UNCHANGED <<total, rps, manifest, files, failedLog, cur, tokRuns, given,
                   cutShort>>

(* _write_shard_atomic, called only with rows: it leaves a file alone that    *)
(* exists.                                                                    *)
AfterWrite(id, rows) == IF rows # {} /\ files[id] = NoFile
                          THEN [files EXCEPT ![id] = rows] ELSE files

WriteShard ==
    /\ tokPc = "write"
    /\ files' = AfterWrite(cur.id, cur.ok)
    /\ tokPc' = "log"
    /\ UNCHANGED <<total, rps, manifest, failedLog, status, todo, cur, tokRuns,
                   given, cutShort>>

(* _append_failed_rows: the first line goes onto the end of a line that was   *)
(* cut, if there is one, and neither can be read back.                        *)
Appended(log, rows) ==
    IF rows = {} THEN log
    ELSE [rows |-> log.rows \cup (IF log.torn THEN rows \ {Min(rows)} ELSE rows),
          torn |-> FALSE]

LogFailed ==
    /\ tokPc = "log"
    /\ failedLog' = Appended(failedLog, cur.bad)
    /\ tokPc' = "mark"
    /\ cutShort' = cutShort \cup
         (IF failedLog.torn /\ cur.bad # {} THEN {cur.id} ELSE {})
    /\ UNCHANGED <<total, rps, manifest, files, status, todo, cur, tokRuns,
                   given>>

(* The iterator ends when every submitted shard has come back.                *)
NextResult == IF todo = {} THEN "down" ELSE "next"

(* The end of the loop's body: the entry is done, and the manifest replaced.  *)
MarkDone ==
    /\ tokPc = "mark"
    /\ LET s == [status EXCEPT ![cur.id + 1] = "done"]
       IN  /\ status' = s
           /\ manifest' = [size |-> rps, shards |-> s]
    /\ tokPc' = NextResult
    /\ UNCHANGED <<total, rps, files, failedLog, todo, cur, tokRuns, given,
                   cutShort>>

(* A kill.  In the middle of the append it leaves some of the lines, the last *)
(* of them cut or not.                                                        *)
TokKill ==
    /\ tokPc # "down"
    /\ tokPc' = "down" /\ todo' = {} /\ status' = <<>>
    /\ failedLog' \in {failedLog} \cup
         (IF tokPc = "log" /\ cur.bad # {}
            THEN {[Appended(failedLog, {r \in cur.bad : r <= k}) EXCEPT !.torn = t] :
                     k \in cur.bad \ {Max(cur.bad)}, t \in BOOLEAN}
                 \cup {[failedLog EXCEPT !.torn = TRUE]}
            ELSE {})
    /\ cutShort' = cutShort \cup
         (IF tokPc \in {"log", "mark"} /\ files[cur.id] # NoFile
            THEN {cur.id} ELSE {})
    /\ UNCHANGED <<total, rps, manifest, files, cur, tokRuns, given>>

Done(id) == manifest # NoFile /\ id + 1 \in 1 .. Len(manifest.shards)
            /\ manifest.shards[id + 1] = "done"

TokWork == Receive \/ WriteShard \/ LogFailed \/ MarkDone

TokStep == SourceGrows \/ TokStart \/ TokRaises \/ TokKill \/ TokWork

(* Every row a finished shard was given is in its file or can be read from    *)
(* failed.jsonl, as the docstring of _append_failed_rows says, if no run was  *)
(* killed between the shard's file and its manifest entry, and its first      *)
(* failed row did not go onto a cut line.                                     *)
RowsKept ==
    \A id \in Ids : Done(id) /\ id \notin cutShort
        => given[id] \subseteq
             failedLog.rows \cup (IF files[id] = NoFile THEN {} ELSE files[id])

-----------------------------------------------------------------------------
(* The two stages over one directory: the files the tokenizer writes are the  *)
(* input the compiler lists when a run starts.  The commands are run one at a *)
(* time; a run that listed the files while the tokenizer was writing them     *)
(* would see what one sees after the tokenizer was killed.  Nobody has to     *)
(* start a command, and one that runs may be killed: nothing is promised to   *)
(* happen.                                                                    *)
CONSTANTS Splits, Top, SplitOf, Length, Rejected, ShardSize, MayFail, CompileRuns

ASSUME CompileAssumption ==
    /\ Rejected \subseteq 1 .. MaxRows /\ ShardSize \in Nat \ {0}
    /\ MayFail \in BOOLEAN /\ CompileRuns \in Nat
    /\ SplitOf \in [1 .. MaxRows -> Splits] /\ Length \in [1 .. MaxRows -> Nat]
    /\ \A names \in SUBSET Ids :
         \A m \in [names -> {"pending", "failed", "done"}] : m # NoFile
    /\ \A shard \in SUBSET (Ids \X (1 .. MaxRows)) : shard # NoFile

VARIABLES entries, temp, rejects, out, cPc, results, unwritten, splitsLeft,
          cRuns, sameInput, tempRemains

C == INSTANCE CompileShards
       WITH Names <- Ids, Rows <- 1 .. MaxRows, input <- files

compVars == <<entries, temp, rejects, out, cPc, results, unwritten, splitsLeft,
              cRuns, sameInput, tempRemains>>

pipelineVars == <<tokVars, compVars>>

PipelineInit == TokInit /\ C!CInit

PipelineNext == \/ cPc = "down" /\ TokStep /\ UNCHANGED compVars
                \/ tokPc = "down" /\ C!CompileStep /\ UNCHANGED tokVars

(* A compiled data set has every row once: no row is trained on twice, and    *)
(* none is missing once all is done.  See CompiledOnce of CompileShards; here *)
(* the input is what the tokenizer left, so that the two stages together keep *)
(* a row of the source apart from itself.                                     *)
CompiledOnce == C!CompiledOnce
=============================================================================
