--------------------------- MODULE TranscribeShard ---------------------------
(***************************************************************************)
(* One shard of the batch transcription command                            *)
(* (asr/inference/transcribe.py): rows of a manifest become lines of a     *)
(* JSONL file, a killed run is resumed by running the command again, and   *)
(* the resume reads which rows are done out of the same file.              *)
(*                                                                         *)
(* Writes go through a buffer, and a kill may leave any prefix of its      *)
(* bytes in the file.  The bytes of a line are four pieces: "head" ends    *)
(* within a character of the hypothesis, "char" completes the character,   *)
(* "rest" completes the record, and "nl" ends the line.  Whether a record  *)
(* holds a text or an error is left out: a resume treats both alike.       *)
(***************************************************************************)
EXTENDS Naturals, Sequences, SequencesExt, FiniteSetsExt

CONSTANTS
    Rows,         \* the rows of this shard, in manifest order
    FlushEvery,   \* out_f.flush() after this many rows: 200
    MaxItems,     \* --max-items; 0 is no limit
    PerBatch,     \* --batch-size
    Long,         \* rows above --chunk-above
    NoLang,       \* rows without a language, in a run without --lid
    MaxKills,     \* bound of the model: kills
    MaxRuns       \* bound of the model: runs of the command

ASSUME ShardAssumption ==
    /\ Rows \subseteq Nat /\ Long \subseteq Rows /\ NoLang \subseteq Rows
    /\ FlushEvery \in Nat \ {0} /\ PerBatch \in Nat \ {0}
    /\ MaxItems \in Nat /\ MaxKills \in Nat /\ MaxRuns \in Nat

VARIABLES
    file,         \* the pieces in hyp_shard<N>.jsonl
    buffer,       \* out_f's buffer
    phase,        \* where the run is
    pending,      \* rows this run took on
    unprobed,     \* rows whose audio has not been probed
    good,         \* rows probed and not yet transcribed
    batch,        \* rows of the current batch not yet emitted
    count,        \* state["ok"] + state["fail"]
    finished,     \* history: runs finished since the last kill
    kills, runs

vars == <<file, buffer, phase, pending, unprobed, good, batch, count,
          finished, kills, runs>>
work == <<pending, unprobed, good, batch, count>>
tally == <<finished, kills, runs>>

Phases == {"off", "probe", "short", "long", "engine", "finished", "raised", "undecodable"}

Init ==
    /\ file = <<>> /\ buffer = <<>> /\ phase = "off"
    /\ pending = {} /\ unprobed = {} /\ good = {} /\ batch = {}
    /\ count = 0
    /\ finished = 0 /\ kills = 0 /\ runs = 0

-----------------------------------------------------------------------------
(* The file.                                                               *)

Bytes(part, i) == [part |-> part, row |-> i]

\* Mutant: lines are joined, not terminated.
RecordUnterminated(i) == <<Bytes("head", i), Bytes("char", i), Bytes("rest", i)>>
Record(i) == <<Bytes("head", i), Bytes("char", i), Bytes("rest", i), Bytes("nl", i)>>

(* The places where a line holds one whole record; the last line need not  *)
(* be terminated.                                                          *)
Lines(f) ==
    {k \in DOMAIN f :
        /\ k = 1 \/ f[k - 1].part = "nl"
        /\ k + 2 <= Len(f)
        /\ \A j \in 0 .. 2 : f[k + j] = Record(f[k].row)[j + 1]
        /\ k + 2 = Len(f) \/ f[k + 3].part = "nl"}

Recorded(f) == {f[k].row : k \in Lines(f)}

(* Text that ends, or goes on, in the middle of a character.               *)
Undecodable(f) ==
    \E k \in DOMAIN f : f[k].part = "head" /\ (k = Len(f) \/ f[k + 1].part # "char")

-----------------------------------------------------------------------------
(* Resuming.                                                               *)

Done(f) == Recorded(f)

Limited(S) ==
    IF MaxItems = 0 THEN S
    ELSE {i \in S : Cardinality({j \in S : j < i}) < MaxItems}

CountAtStart == 0

Start ==
    /\ phase \in {"off", "finished", "raised", "undecodable"}
    /\ runs < MaxRuns
    /\ runs' = runs + 1
    /\ IF Undecodable(file)
         THEN phase' = "undecodable" /\ UNCHANGED work
         ELSE LET todo == Limited(Rows \ Done(file)) IN
              /\ phase' = IF todo = {} THEN "finished" ELSE "probe"
              /\ pending' = todo /\ unprobed' = todo
              /\ good' = {} /\ batch' = {}
              /\ count' = CountAtStart
    /\ UNCHANGED <<file, buffer, finished, kills>>

-----------------------------------------------------------------------------
(* Emitting.                                                               *)

FlushDue(n) == n % FlushEvery = 0

Emit(i) ==
    /\ count' = count + 1
    /\ IF FlushDue(count')
         THEN file' = file \o buffer \o Record(i) /\ buffer' = <<>>
         ELSE file' = file /\ buffer' = buffer \o Record(i)

(* The buffer reaches the file in pieces of its own choosing when full.    *)
Spill ==
    /\ \E n \in 1 .. Len(buffer) :
         /\ file' = file \o SubSeq(buffer, 1, n)
         /\ buffer' = SubSeq(buffer, n + 1, Len(buffer))
    /\ UNCHANGED <<phase, work, tally>>

Closed == buffer

(* The with block closes the file, also when an exception leaves it.       *)
Leave(how) ==
    /\ phase' = how
    /\ file' = file \o Closed /\ buffer' = <<>>
    /\ finished' = finished + IF how = "finished" THEN 1 ELSE 0
    /\ UNCHANGED <<work, kills, runs>>

-----------------------------------------------------------------------------
(* A run.                                                                  *)

(* An unreadable row is reported at once, the others are kept.             *)
Probe ==
    /\ phase = "probe" /\ unprobed # {}
    /\ LET i == Min(unprobed) IN
       /\ unprobed' = unprobed \ {i}
       /\ \/ Emit(i) /\ UNCHANGED good
          \/ good' = good \cup {i} /\ UNCHANGED <<file, buffer, count>>
    /\ UNCHANGED <<phase, pending, batch, tally>>

(* The model is loaded; the language of every row is needed before the     *)
(* first batch, except for long rows of the generate backend.  lang_of     *)
(* raises for a row without one.                                           *)
LangOf(rows) == NoLang \cap rows = {}
Prepare(backend) ==
    /\ phase = "probe" /\ unprobed = {}
    /\ IF LangOf(IF backend = "short" THEN good \ Long ELSE good)
         THEN phase' = backend /\ UNCHANGED <<file, buffer, work, tally>>
         ELSE Leave("raised")
LoadFails == phase = "probe" /\ unprobed = {} /\ Leave("raised")

(* --backend engine: on_result in any order, once per row; run() may raise. *)
EngineResult(i) ==
    /\ phase = "engine" /\ i \in good
    /\ good' = good \ {i}
    /\ Emit(i)
    /\ UNCHANGED <<phase, pending, unprobed, batch, tally>>
EngineReturns == phase = "engine" /\ good = {} /\ Leave("finished")
EngineRaises == phase = "engine" /\ Leave("raised")

(* --backend generate: batches of short rows, then the long rows one by    *)
(* one.  A batch that raises and one that succeeds emit the same rows.     *)
TakeBatch(rows) ==
    /\ phase = "short" /\ batch = {}
    /\ rows # {} /\ Cardinality(rows) <= PerBatch
    /\ batch' = rows /\ good' = good \ rows
    /\ UNCHANGED <<file, buffer, phase, pending, unprobed, count, tally>>
BatchResult(i) ==
    /\ phase = "short" /\ i \in batch
    /\ batch' = batch \ {i}
    /\ Emit(i)
    /\ UNCHANGED <<phase, pending, unprobed, good, tally>>
ShortDone ==
    /\ phase = "short" /\ batch = {} /\ good \subseteq Long
    /\ phase' = "long"
    /\ UNCHANGED <<file, buffer, work, tally>>
LongResult(i) ==
    /\ phase = "long" /\ i \in good
    /\ good' = good \ {i}
    /\ Emit(i)
    /\ UNCHANGED <<phase, pending, unprobed, batch, tally>>
LongDone == phase = "long" /\ good = {} /\ Leave("finished")

(* The process is killed; what is in the buffer is lost.                   *)
Kill ==
    /\ phase \notin {"off", "finished", "raised", "undecodable"}
    /\ kills < MaxKills
    /\ kills' = kills + 1 /\ finished' = 0
    /\ phase' = "off" /\ buffer' = <<>>
    /\ UNCHANGED <<file, work, runs>>

Next ==
    \/ Start \/ Spill \/ Probe \/ LoadFails
    \/ \E backend \in {"short", "engine"} : Prepare(backend)
    \/ \E i \in Rows : EngineResult(i) \/ BatchResult(i) \/ LongResult(i)
    \/ EngineReturns \/ EngineRaises
    \/ \E rows \in SUBSET (good \ Long) : TakeBatch(rows)
    \/ ShortDone \/ LongDone
    \/ Kill

Spec == Init /\ [][Next]_vars

-----------------------------------------------------------------------------
(* Properties                                                              *)

(* Whatever is killed and resumed, no row has two records in the results;  *)
(* and after a kill the second run to finish has every row: the first may  *)
(* have lost a row to the torn line, which the second finds missing.       *)
HealsInTwo ==
    /\ \A k, m \in Lines(file) : file[k].row = file[m].row => k = m
    /\ phase = "finished" /\ finished >= 2 /\ MaxItems = 0 => Recorded(file) = Rows

(* "A torn final line from a killed run just gets re-transcribed": a kill  *)
(* never stops the next run from reading the file.                         *)
ResumeReads == phase # "undecodable"
=============================================================================
