------------------------------ MODULE TtsStream ------------------------------
(***************************************************************************)
(* The streaming text-to-speech pipeline of one replica: per request, a    *)
(* drive task turns language-model output into window jobs and a consumer  *)
(* yields audio to the client (tts/engine/streaming.py); one batcher task  *)
(* shared by all requests decodes the jobs and scatters the frames into    *)
(* bounded per-request queues (tts/serving/snac_streamer.py).              *)
(*                                                                         *)
(* All of it runs on one event loop, so an action is what happens between  *)
(* two suspensions.  A frame is represented by its emit index.             *)
(***************************************************************************)
EXTENDS Integers, Sequences, FiniteSets, SequencesExt

CONSTANTS
    Streams,      \* request ids
    MaxFrames,    \* bound of the model: frames of each utterance
    Lag,          \* frames the windower holds back: window_frames - 2
    QMax,         \* per_request_queue_max
    Group,        \* frames_per_message
    Batch,        \* the decoder's batch size
    MaxFail,      \* max_consecutive_decode_failures
    MayFail,      \* bound of the model: requests whose generation may raise
    MayLeave      \* bound of the model: requests whose client may go away

ASSUME TtsAssumption ==
    /\ MaxFrames \in [Streams -> Nat] /\ Lag \in Nat
    /\ QMax \in Nat \ {0} /\ Group \in Nat \ {0}
    /\ Batch \in Nat \ {0} /\ MaxFail \in Nat \ {0}
    /\ MayFail \subseteq Streams /\ MayLeave \subseteq Streams

END == -1           \* the sentinel after the last frame
Unknown == -1       \* _total before the request is finalized

VARIABLES
    drive,          \* the drive task of each request
    frames,         \* complete frames its windower has collected
    dispatched,     \* _dispatched: windows submitted
    cons,           \* its consumer, the async generator
    outq,           \* its bounded queue of frames
    cbuf,           \* frames the consumer has grouped but not yielded
    got,            \* frames the client has received
    inq,            \* _in: jobs, finalizations and STOP of all requests
    reg,            \* keys of _out, _next, _buf, _total and _overflow
    nextIdx, decoded, total,    \* _next, _buf and _total
    failed,         \* the failed set
    harmed,         \* history: requests a failure or an overflow cut short
    batPc,          \* the batcher task
    live, finals, stopping,     \* the pass it is working on
    failures,       \* _decode_failures
    engineDead      \* _engine_dead

request  == <<drive, frames, dispatched>>
consumer == <<cons, cbuf, got>>
registry == <<reg, nextIdx, decoded, total>>
pass     == <<live, finals, stopping>>
vars     == <<request, consumer, outq, inq, registry, failed, harmed, batPc, pass,
              failures, engineDead>>

Init ==
    /\ drive = [r \in Streams |-> "off"]
    /\ frames = [r \in Streams |-> 0]
    /\ dispatched = [r \in Streams |-> 0]
    /\ cons = [r \in Streams |-> "off"]
    /\ outq = [r \in Streams |-> <<>>]
    /\ cbuf = [r \in Streams |-> <<>>]
    /\ got = [r \in Streams |-> <<>>]
    /\ inq = <<>>
    /\ reg = {}
    /\ nextIdx = [r \in Streams |-> 0]
    /\ decoded = [r \in Streams |-> {}]
    /\ total = [r \in Streams |-> Unknown]
    /\ failed = {} /\ harmed = {}
    /\ batPc = "collect"
    /\ live = {} /\ finals = {} /\ stopping = FALSE
    /\ failures = 0
    /\ engineDead = FALSE

Job(r, i)   == [kind |-> "job", r |-> r, i |-> i]
Final(r, n) == [kind |-> "final", r |-> r, i |-> n]
STOP        == [kind |-> "stop"]

\* Jobs of r with emit indices a .. b-1, in order.
Jobs(r, a, b) == [k \in 1 .. b - a |-> Job(r, a + k - 1)]

-----------------------------------------------------------------------------
(* Opening a request: a fresh queue is registered and its drive started.   *)

OpenRefused(r) ==
    /\ cons[r] = "off" /\ engineDead
    /\ cons' = [cons EXCEPT ![r] = "error"]
    /\ UNCHANGED <<request, cbuf, got, outq, inq, registry, failed, harmed, batPc, pass,
                   failures, engineDead>>

Open(r) ==
    /\ cons[r] = "off" /\ ~engineDead
    /\ cons' = [cons EXCEPT ![r] = "get"]
    /\ drive' = [drive EXCEPT ![r] = "running"]
    /\ reg' = reg \cup {r}
    /\ UNCHANGED <<frames, dispatched, cbuf, got, outq, inq, nextIdx, decoded, total,
                   failed, harmed, batPc, pass, failures, engineDead>>

-----------------------------------------------------------------------------
(* The drive task.  _in is unbounded, so its puts never suspend.           *)

\* push(): the windows with full right context, all but the last Lag frames.
Ready(n) == IF n > Lag THEN n - Lag ELSE 0

DriveOutput(r) ==
    /\ drive[r] = "running" /\ frames[r] < MaxFrames[r]
    /\ LET n == frames[r] + 1 IN
         /\ frames' = [frames EXCEPT ![r] = n]
         /\ dispatched' = [dispatched EXCEPT ![r] = Ready(n)]
         /\ inq' = inq \o Jobs(r, dispatched[r], Ready(n))
    /\ UNCHANGED <<drive, consumer, outq, registry, failed, harmed, batPc, pass, failures,
                   engineDead>>

TailAndFinal(r) == Jobs(r, dispatched[r], frames[r]) \o <<Final(r, frames[r])>>

Flush(r) ==
    /\ dispatched' = [dispatched EXCEPT ![r] = frames[r]]
    /\ inq' = inq \o TailAndFinal(r)
    /\ drive' = [drive EXCEPT ![r] = "done"]

DriveFinish(r) ==
    /\ drive[r] = "running"
    /\ Flush(r)
    /\ UNCHANGED <<frames, consumer, outq, registry, failed, harmed, batPc, pass, failures,
                   engineDead>>

\* Mutant: a failed generation is finalized without being marked.
FailureUnmarked(r) == failed
FailureMarked(r) == failed \cup {r}

(* Generation raised, perhaps because the engine process died.             *)
DriveFail(r) ==
    /\ drive[r] = "running" /\ r \in MayFail
    /\ failed' = FailureMarked(r)
    /\ harmed' = harmed \cup {r}
    /\ Flush(r)
    /\ engineDead' \in {engineDead, TRUE}
    /\ UNCHANGED <<frames, consumer, outq, registry, batPc, pass, failures>>

-----------------------------------------------------------------------------
(* The batcher task.  A pass ends in _drain_out for every request whose    *)
(* jobs were decoded or that is finalized: the contiguous run of decoded   *)
(* frames goes out; a frame that does not fit aborts the request; one with *)
(* all its frames out gets END, if that fits, and is closed.               *)

\* The end of the contiguous run of buf that begins at from.
FirstGap(from, most, buf) ==
    CHOOSE n \in from .. most : n \notin buf /\ \A k \in from .. n - 1 : k \in buf

\* Frames from .. to - 1, the last of them all if this ends the request; what is put
\* while there is room.
Delivery(from, to, ends) ==
    [k \in 1 .. to - from |-> from + k - 1] \o (IF ends THEN <<END>> ELSE <<>>)
Fitting(q, room) == SubSeq(q, 1, Min({room, Len(q)}))

(* drops are the requests the pass fails, jobs the windows it decoded,     *)
(* fins the finalizations it collected.                                    *)
Pass(drops, jobs, fins) ==
    LET open == reg \ drops
        buf == [r \in Streams |-> IF r \in open
                  THEN decoded[r] \cup {x.i : x \in {j \in jobs : j.r = r}} ELSE {}]
        tot == [r \in Streams |->
                  IF r \notin open THEN Unknown
                  ELSE IF \E f \in fins : f.r = r THEN (CHOOSE f \in fins : f.r = r).i
                  ELSE total[r]]
        upto == [r \in Streams |-> FirstGap(nextIdx[r], MaxFrames[r], buf[r])]
        room(r) == QMax - Len(outq[r])
        over == {r \in open : upto[r] - nextIdx[r] > room(r)}
        complete == {r \in open \ over : tot[r] # Unknown /\ upto[r] >= tot[r]}
        out(r) == Delivery(nextIdx[r], upto[r], r \in complete)
        gone == drops \cup over \cup complete
    IN
    /\ outq' = [r \in Streams |-> IF r \notin open THEN outq[r]
                  ELSE outq[r] \o Fitting(out(r), room(r))]
    /\ failed' = failed \cup drops \cup over
    /\ harmed' = harmed \cup drops \cup over
    /\ reg' = reg \ gone
    /\ nextIdx' = [r \in Streams |-> IF r \in gone THEN 0 ELSE upto[r]]
    /\ decoded' = [r \in Streams |-> IF r \in gone THEN {} ELSE buf[r] \ (0 .. upto[r])]
    /\ total' = [r \in Streams |-> IF r \in gone THEN Unknown ELSE tot[r]]

After(last) == IF last THEN "stopped" ELSE "collect"

(* Only the batcher takes from _in, so collecting items one by one until a *)
(* deadline is the same as taking a prefix at its end: at least one item,  *)
(* nothing behind a STOP or behind a full batch.                           *)
JobsAhead(k) == Len(SelectSeq(SubSeq(inq, 1, k - 1), LAMBDA x : x.kind = "job"))
StopAhead(k) == STOP \in ToSet(SubSeq(inq, 1, k - 1))

Collectable(k) == JobsAhead(k) < Batch /\ ~StopAhead(k)

Collect ==
    /\ batPc = "collect"
    /\ \E k \in 1 .. Len(inq) :
         LET items == ToSet(SubSeq(inq, 1, k))
             jobs == {x \in items : x.kind = "job" /\ x.r \in reg}
             fins == {x \in items : x.kind = "final"}
         IN
         /\ Collectable(k)
         /\ inq' = SubSeq(inq, k + 1, Len(inq))
         /\ IF jobs = {}
              THEN /\ Pass({}, {}, fins)
                   /\ batPc' = After(STOP \in items)
                   /\ UNCHANGED pass
              ELSE /\ live' = jobs /\ finals' = fins /\ stopping' = (STOP \in items)
                   /\ batPc' = "decode"
                   /\ UNCHANGED <<outq, failed, harmed, registry>>
    /\ UNCHANGED <<request, consumer, failures, engineDead>>

EndPass == live' = {} /\ finals' = {} /\ stopping' = FALSE

DecodeOk ==
    /\ batPc = "decode"
    /\ Pass({}, live, finals)
    /\ EndPass
    /\ batPc' = After(stopping)
    /\ failures' = 0
    /\ UNCHANGED <<request, consumer, inq, engineDead>>

Dropped == {x.r : x \in live}

(* The decode raised.  Its requests fail; the rest of the pass goes on,    *)
(* unless this was one failure too many and the task dies.                 *)
DecodeFail ==
    /\ batPc = "decode"
    /\ LET fatal == failures + 1 >= MaxFail IN
         /\ Pass(Dropped, {}, IF fatal THEN {} ELSE finals)
         /\ batPc' = IF fatal THEN "dead" ELSE After(stopping)
    /\ EndPass
    /\ failures' = failures + 1
    /\ UNCHANGED <<request, consumer, inq, engineDead>>

(* shutdown() sends STOP behind whatever is queued.                        *)
Shutdown ==
    /\ batPc \notin {"stopped", "dead"} /\ ~stopping /\ STOP \notin ToSet(inq)
    /\ inq' = Append(inq, STOP)
    /\ UNCHANGED <<request, consumer, outq, registry, failed, harmed, batPc, pass, failures,
                   engineDead>>

-----------------------------------------------------------------------------
(* The consumer: an async generator reading the queue with a timeout.      *)

Live(r) == cons[r] \in {"get", "timedout"}

(* Leaving the generator: the failed mark is taken off and a drive that    *)
(* still runs is cancelled.                                                *)
Leave(r, how) ==
    /\ cons' = [cons EXCEPT ![r] = how]
    /\ failed' = failed \ {r}
    /\ drive' = [drive EXCEPT ![r] = IF @ = "running" THEN "cancelled" ELSE @]

EndOf(r) == IF r \in failed THEN "error" ELSE "clean"

\* Mutant: the group is yielded without the frame that completes it.
YieldedWithout(r, group) == cbuf[r]
Yielded(r, group) == group

(* The first frame goes to the client alone, the others in groups.         *)
TakeFrame(r) ==
    /\ cons[r] = "get" /\ outq[r] # <<>> /\ Head(outq[r]) # END
    /\ outq' = [outq EXCEPT ![r] = Tail(@)]
    /\ LET group == Append(cbuf[r], Head(outq[r])) IN
         IF got[r] = <<>> \/ Len(group) >= Group
           THEN /\ got' = [got EXCEPT ![r] = @ \o Yielded(r, group)]
                /\ cbuf' = [cbuf EXCEPT ![r] = <<>>]
           ELSE /\ cbuf' = [cbuf EXCEPT ![r] = group]
                /\ UNCHANGED got
    /\ UNCHANGED <<request, cons, inq, registry, failed, harmed, batPc, pass, failures,
                   engineDead>>

TakeEnd(r) ==
    /\ cons[r] = "get" /\ outq[r] # <<>> /\ Head(outq[r]) = END
    /\ outq' = [outq EXCEPT ![r] = Tail(@)]
    /\ got' = [got EXCEPT ![r] = @ \o cbuf[r]]
    /\ cbuf' = [cbuf EXCEPT ![r] = <<>>]
    /\ Leave(r, EndOf(r))
    /\ UNCHANGED <<frames, dispatched, inq, registry, harmed, batPc, pass, failures,
                   engineDead>>

(* wait_for's timer fires on an empty queue; the consumer resumes one turn *)
(* of the event loop later, and the batcher may run in between.            *)
Timeout(r) ==
    /\ cons[r] = "get" /\ outq[r] = <<>>
    /\ cons' = [cons EXCEPT ![r] = "timedout"]
    /\ UNCHANGED <<request, cbuf, got, outq, inq, registry, failed, harmed, batPc, pass,
                   failures, engineDead>>

\* Mutant: no escape through is_closed.
NeverClosed(r) == FALSE
IsClosed(r) == r \notin reg

AfterTimeout(r) ==
    /\ cons[r] = "timedout"
    /\ IF IsClosed(r)
         THEN Leave(r, EndOf(r)) /\ UNCHANGED <<frames, dispatched>>
         ELSE cons' = [cons EXCEPT ![r] = "get"] /\ UNCHANGED <<request, failed>>
    /\ UNCHANGED <<cbuf, got, outq, inq, registry, harmed, batPc, pass, failures, engineDead>>

(* The client went away: the generator is closed or cancelled.             *)
Disconnect(r) ==
    /\ Live(r) /\ r \in MayLeave
    /\ Leave(r, "gone")
    /\ UNCHANGED <<frames, dispatched, cbuf, got, outq, inq, registry, harmed, batPc, pass,
                   failures, engineDead>>

-----------------------------------------------------------------------------
Drive(r)    == DriveOutput(r) \/ DriveFinish(r) \/ DriveFail(r)
Batcher     == Collect \/ DecodeOk \/ DecodeFail
Consumer(r) == TakeFrame(r) \/ TakeEnd(r) \/ Timeout(r) \/ AfterTimeout(r)

Next ==
    \/ \E r \in Streams :
         OpenRefused(r) \/ Open(r) \/ Drive(r) \/ Consumer(r) \/ Disconnect(r)
    \/ Batcher
    \/ Shutdown

(* The tasks of a running event loop are scheduled, a generation is finite *)
(* and a client that has not gone away keeps reading.                      *)
Spec ==
    /\ Init /\ [][Next]_vars
    /\ WF_vars(Batcher)
    /\ \A r \in Streams : WF_vars(Drive(r)) /\ WF_vars(Consumer(r))

-----------------------------------------------------------------------------
(* Properties                                                              *)

\* What of r's audio has left the batcher, in the order a client hears it.
Frames(q) == IF q # <<>> /\ Last(q) = END THEN Front(q) ELSE q
Heard(r) == got[r] \o cbuf[r] \o Frames(outq[r])

(* A client that is listening has the first frames of its own utterance,   *)
(* each once and in order, and misses none the batcher has moved past.     *)
InOrder ==
    \A r \in Streams :
        /\ \A k \in DOMAIN Heard(r) : Heard(r)[k] = k - 1
        /\ Live(r) /\ r \in reg => Len(Heard(r)) = nextIdx[r]

(* "consumer must report an error frame, not a clean end": a request whose *)
(* generation or decode failed, or whose queue overflowed, never ends      *)
(* clean, and one that ends clean had every one of its frames decoded and  *)
(* released: at worst its tail is left in the queue or in a partial group. *)
FailureNeverClean ==
    \A r \in Streams :
        cons[r] = "clean" =>
            r \notin harmed /\ drive[r] = "done" /\ Len(Heard(r)) = frames[r]

(* While the batcher runs every open stream ends, whatever fails: with END *)
(* dropped on a full queue the consumer still escapes through is_closed.   *)
EveryStreamEnds ==
    \A r \in Streams :
        cons[r] = "get" ~> ~Live(r) \/ batPc \in {"stopped", "dead"}

(* The comment on the failed set, "the WS handler can send an error frame  *)
(* instead of a silent success", read as a promise: a stream that ends     *)
(* clean has delivered every frame of the utterance.                       *)
CleanEndIsComplete ==
    \A r \in Streams : cons[r] = "clean" => Len(got[r]) = frames[r]
=============================================================================
