------------------------------ MODULE ChunkedTts ------------------------------
(***************************************************************************)
(* Long-form streaming: the chunks of a text are synthesized ahead of      *)
(* playback by one producer task each, and one consumer emits them in      *)
(* order with a gap of silence between them (_stream_chunk_jobs in         *)
(* tts/engine/chunked.py).  Everything runs on one event loop: an action   *)
(* is what a task does between two awaits, except that the consumer's live *)
(* loop takes one frame per action.                                        *)
(*                                                                         *)
(* A frame is voiced (TRUE) or silent (FALSE); its samples are left out.   *)
(* In the output a frame is its chunk and its place there, and place 0 is  *)
(* the gap before the chunk.                                               *)
(***************************************************************************)
EXTENDS Integers, Sequences, SequencesExt, FiniteSetsExt

CONSTANTS
    N,            \* number of chunks
    Prefetch,     \* prefetch
    Group,        \* frames_per_message
    Normalize,    \* normalize
    Gap,          \* TRUE: gap_ms gives at least one sample
    MaxFrames     \* bound of the model: frames of a chunk

ASSUME ChunkedAssumption ==
    /\ N \in Nat \ {0} /\ Prefetch \in Nat /\ Group \in Nat \ {0}
    /\ Normalize \in BOOLEAN /\ Gap \in BOOLEAN
    /\ MaxFrames \in Nat

Chunks == 1 .. N

VARIABLES
    tasks,        \* producers created so far
    frames,       \* what each chunk's producer has appended
    done,         \* done events
    errors,       \* chunks whose producer raised
    evt,          \* data_evt events
    buffers,      \* chunks whose frames are still held
    cur,          \* the chunk being emitted
    pc,           \* where the consumer is
    idx,          \* frames of it taken by the live loop
    buf, held,    \* buf and pending_silence: places in the chunk
    sent,         \* sent_first
    out,          \* what the client was sent
    ending        \* how the stream ends

vars == <<tasks, frames, done, errors, evt, buffers, cur, pc, idx, buf, held,
          sent, out, ending>>
production == <<tasks, frames, done, errors, evt>>
live == <<idx, buf, held, sent>>

Upto(k) == Min({N, k + Prefetch})

Init ==
    /\ tasks = Upto(1)
    /\ frames = [k \in Chunks |-> <<>>]
    /\ done = [k \in Chunks |-> FALSE]
    /\ errors = {}
    /\ evt = [k \in Chunks |-> FALSE]
    /\ buffers = Chunks
    /\ cur = 1 /\ pc = "boundary"
    /\ idx = 0 /\ buf = <<>> /\ held = <<>> /\ sent = FALSE
    /\ out = <<>> /\ ending = "none"

-----------------------------------------------------------------------------
(* Producers.                                                              *)

Running(k) == k <= tasks /\ ~done[k]

ProduceFrame(k) ==
    /\ Running(k) /\ pc # "cleanup"
    /\ Len(frames[k]) < MaxFrames
    /\ \E voiced \in BOOLEAN : frames' = [frames EXCEPT ![k] = Append(@, voiced)]
    /\ evt' = [evt EXCEPT ![k] = TRUE]
    /\ UNCHANGED <<tasks, done, errors, buffers, cur, pc, live, out, ending>>

\* Mutant: the end of a chunk does not wake the consumer.
WakeNobody(k) == evt
WakeAtEnd(k) == [evt EXCEPT ![k] = TRUE]

(* The generator ends, raises, or is cancelled by the consumer's clean-up; *)
(* a cancellation is caught and recorded like an error.                    *)
ProducerEnds(k, failed) ==
    /\ Running(k)
    /\ pc = "cleanup" => failed
    /\ done' = [done EXCEPT ![k] = TRUE]
    /\ errors' = IF failed THEN errors \cup {k} ELSE errors
    /\ evt' = WakeAtEnd(k)
    /\ UNCHANGED <<tasks, frames, buffers, cur, pc, live, out, ending>>

-----------------------------------------------------------------------------
(* The consumer.                                                           *)

Leave(how) ==
    /\ ending' = how
    /\ pc' = "cleanup"

(* Back from sleep(0): a failure already known comes before the gap.       *)
Boundary ==
    /\ pc = "boundary"
    /\ IF done[cur] /\ cur \in errors
         THEN Leave("error") /\ UNCHANGED out
         ELSE /\ pc' = "choose"
              /\ out' = IF cur > 1 /\ Gap THEN Append(out, <<cur, 0>>) ELSE out
              /\ UNCHANGED ending
    /\ UNCHANGED <<production, buffers, cur, live>>

\* Mutant: a chunk is taken to be whole although its producer runs.
ExactAlways(k) == k \notin errors /\ Normalize
Exact(k) == done[k] /\ k \notin errors /\ Normalize

ChoosePath ==
    /\ pc = "choose"
    /\ pc' = IF Exact(cur) THEN "exact" ELSE "live"
    /\ idx' = 0 /\ buf' = <<>> /\ held' = <<>> /\ sent' = FALSE
    /\ UNCHANGED <<production, buffers, cur, out, ending>>

Voiced(f) == {i \in DOMAIN f : f[i]}

Interval(a, b) == [i \in 1 .. b - a + 1 |-> a + i - 1]

(* trim_silence never leaves nothing: a silent chunk is kept whole.        *)
Trimmed(f) ==
    IF Voiced(f) = {} THEN Interval(1, Len(f)) ELSE Interval(Min(Voiced(f)), Max(Voiced(f)))

Frames(k, places) == [i \in DOMAIN places |-> <<k, places[i]>>]

(* The whole chunk is processed in an executor, then emitted.              *)
EmitExact ==
    /\ pc = "exact"
    /\ out' = out \o Frames(cur, Trimmed(frames[cur]))
    /\ pc' = "emitted"
    /\ UNCHANGED <<production, buffers, cur, live, ending>>

Kept(i) == buf \o held \o <<i>>

(* Leading silence is dropped, later silence held until speech follows.    *)
TakeSilence ==
    /\ pc = "live" /\ idx < Len(frames[cur])
    /\ Normalize /\ ~frames[cur][idx + 1]
    /\ idx' = idx + 1
    /\ held' = IF Voiced(SubSeq(frames[cur], 1, idx)) = {} THEN held ELSE Append(held, idx + 1)
    /\ UNCHANGED <<production, buffers, cur, pc, buf, sent, out, ending>>

TakeFrame ==
    /\ pc = "live" /\ idx < Len(frames[cur])
    /\ Normalize => frames[cur][idx + 1]
    /\ idx' = idx + 1 /\ held' = <<>>
    /\ LET kept == Kept(idx + 1) IN
       IF ~sent \/ Len(kept) >= Group
         THEN out' = out \o Frames(cur, kept) /\ buf' = <<>> /\ sent' = TRUE
         ELSE buf' = kept /\ UNCHANGED <<out, sent>>
    /\ UNCHANGED <<production, buffers, cur, pc, ending>>

Wait ==
    /\ pc = "live" /\ idx = Len(frames[cur]) /\ ~done[cur]
    /\ evt' = [evt EXCEPT ![cur] = FALSE]
    /\ pc' = "wait"
    /\ UNCHANGED <<tasks, frames, done, errors, buffers, cur, live, out, ending>>

(* Woken by the event, or by its 0.25 s timeout.                           *)
Woken ==
    /\ pc = "wait" /\ evt[cur]
    /\ pc' = "live"
    /\ UNCHANGED <<production, buffers, cur, live, out, ending>>
Timeout ==
    /\ pc = "wait" /\ ~evt[cur]
    /\ pc' = "live"
    /\ UNCHANGED <<production, buffers, cur, live, out, ending>>

(* The chunk is over: held silence is trailing and is dropped.             *)
EmitRest ==
    /\ pc = "live" /\ idx = Len(frames[cur]) /\ done[cur]
    /\ out' = out \o Frames(cur, buf) /\ buf' = <<>>
    /\ pc' = "emitted"
    /\ UNCHANGED <<production, buffers, cur, idx, held, sent, ending>>

NextChunk ==
    /\ pc = "emitted"
    /\ IF cur \in errors
         THEN Leave("error") /\ UNCHANGED <<buffers, cur, tasks>>
         ELSE /\ buffers' = buffers \ {cur}
              /\ IF cur = N
                   THEN Leave("clean") /\ UNCHANGED <<cur, tasks>>
                   ELSE /\ cur' = cur + 1
                        /\ tasks' = Max({tasks, Upto(cur + 1)})
                        /\ pc' = "boundary"
                        /\ UNCHANGED ending
    /\ UNCHANGED <<frames, done, errors, evt, live, out>>

(* The client leaves: the generator is closed where it is suspended.       *)
Disconnect ==
    /\ pc \in {"boundary", "choose", "exact", "live", "wait", "emitted"}
    /\ Leave("left")
    /\ UNCHANGED <<production, buffers, cur, live, out>>

(* The finally block has cancelled the producers and waits for them.       *)
CleanedUp ==
    /\ pc = "cleanup"
    /\ \A k \in Chunks : ~Running(k)
    /\ pc' = "end"
    /\ UNCHANGED <<production, buffers, cur, live, out, ending>>

Consumer ==
    \/ Boundary \/ ChoosePath \/ EmitExact \/ TakeSilence \/ TakeFrame
    \/ Wait \/ Woken \/ EmitRest \/ NextChunk \/ CleanedUp

Producer(k) == ProduceFrame(k) \/ \E failed \in BOOLEAN : ProducerEnds(k, failed)

Next ==
    \/ Consumer \/ Timeout \/ Disconnect
    \/ \E k \in Chunks : Producer(k)

(* The event loop runs every task that is ready; a timeout is not counted  *)
(* on.                                                                     *)
Spec ==
    /\ Init /\ [][Next]_vars
    /\ WF_vars(Consumer)
    /\ \A k \in Chunks : WF_vars(Producer(k))

-----------------------------------------------------------------------------
(* Properties                                                              *)

Before(p, q) == p[1] < q[1] \/ (p[1] = q[1] /\ p[2] < q[2])

Heard(k) == {p[2] : p \in {out[i] : i \in {j \in DOMAIN out : out[j][1] = k}}}

Wanted(k) ==
    LET body == IF ~Normalize THEN {DOMAIN frames[k]}
                ELSE IF Voiced(frames[k]) = {} THEN {{}, DOMAIN frames[k]}
                ELSE {Min(Voiced(frames[k])) .. Max(Voiced(frames[k]))}
    IN IF k > 1 /\ Gap THEN {places \cup {0} : places \in body} ELSE body

(* Chunks are heard in the order of the text, each frame once and in its   *)
(* place, however producers overtake.  A chunk that is over did not fail   *)
(* and was heard in full but for its silent edges, on the exact path and   *)
(* on the live path alike, with one gap before it; a stream that ends      *)
(* cleanly is whole in this way.                                           *)
ChunksWhole ==
    /\ \A i \in 1 .. Len(out) - 1 : Before(out[i], out[i + 1])
    /\ \A k \in Chunks :
        k < cur \/ ending = "clean" =>
            done[k] /\ k \notin errors /\ Heard(k) \in Wanted(k)

(* Every stream ends, with all its producers finished.                     *)
StreamEnds == <>[](pc = "end" /\ \A k \in Chunks : ~Running(k))
=============================================================================
