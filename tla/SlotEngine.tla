----------------------------- MODULE SlotEngine -----------------------------
(***************************************************************************)
(* StreamingSlotEngine (asr/serving/slot_engine.py): sessions submit       *)
(* buffers from their own threads and block on a Future; an optional       *)
(* producer thread encodes queued requests ahead of time; one scheduler    *)
(* thread admits encoded requests into a static pool of slots, steps the   *)
(* whole pool and evicts the slots that have finished.  close() stops both *)
(* threads, and either thread may die of an exception in its GPU work.     *)
(*                                                                         *)
(* Data abstracted: audio, keys, values and text are represented by the    *)
(* request they belong to; a delivered transcript is the set of requests   *)
(* whose audio or prompt went into it.                                     *)
(***************************************************************************)
EXTENDS DecodePool, Sequences, FiniteSets, SequencesExt

CONSTANTS
    Reqs,         \* the buffers sessions may submit, each at most once
    NoReq,        \* an empty slot
    Slots,        \* the pool
    AdmitBatch,   \* requests drained and encoded in one pass
    EvictEvery,   \* steps between two evictions
    EncLen,       \* encoder length of each request
    TEncMax,      \* encoder length of the fixed window
    TooLong,      \* buffers longer than the window
    BadPrompt,    \* requests in a language the tokenizer cannot prompt
    MayDie        \* threads whose GPU work may raise

ASSUME EngineAssumption ==
    /\ NoReq \notin Reqs
    /\ Slots # {} /\ IsFiniteSet(Slots)
    /\ AdmitBatch \in Nat \ {0}
    /\ EvictEvery \in Nat \ {0}
    /\ EncLen \in [Reqs -> Nat]
    /\ TEncMax \in Nat
    \* the window bounds the samples of a submitted buffer, hence its encoder
    \* length: the length check of _encode_batch "cannot happen" to fail
    /\ \A r \in Reqs \ TooLong : EncLen[r] <= TEncMax
    /\ TooLong \subseteq Reqs /\ BadPrompt \subseteq Reqs
    /\ MayDie \subseteq {"producer", "scheduler"}
    \* the prompt and its first token fit under every length cap
    /\ \A r \in Reqs : PromptLen + 1 < CapTotal(EncLen[r])

VARIABLES
    call,         \* where each session is in submit()
    fut,          \* its Future
    text,         \* what a delivered transcript was decoded from
    queue,        \* _q
    staged,       \* _staged: encoded, waiting for a slot
    prodPc, prodHand,      \* producer thread: where it is, what it drained
    schedPc, schedHand,    \* scheduler thread, likewise
    slotReq,      \* _slots[s].req
    slotAudio,    \* whose cross-attention keys and values the slot holds
    slotPrompt,   \* whose prompt the slot's token row starts with
    slotCap,      \* _slot_cap
    alive,        \* _alive, _alive_l: decoding slots, on the device
    finished,     \* _finished: latched on the device
    slotPos,      \* _slot_pos, on the device
    aliveSet,     \* _alive_set: the scheduler's host-side copy of alive
    posMirror,    \* _pos_mirror: its host-side copy of slotPos
    sinceEvict,   \* stats.steps % evict_every
    overlap,      \* overlap_encode: whether a producer thread encodes
    stop,         \* _stop
    err           \* _err is not empty

callers   == <<call, fut, text>>
producer  == <<prodPc, prodHand>>
sched     == <<schedPc, schedHand>>
device    == <<slotAudio, slotPrompt, slotCap, alive, finished, slotPos>>
host      == <<slotReq, aliveSet, posMirror, sinceEvict>>
pool      == <<device, host>>
flags     == <<overlap, stop, err>>
vars      == <<callers, queue, staged, producer, sched, pool, flags>>

(* Mutant: the allocation forgets the column of the final token.           *)
LAllocShort == Lesser(MaxPos, TEncMax + Delta)
LAlloc == Lesser(MaxPos, TEncMax + Delta) + 1

Free == {s \in Slots : slotReq[s] = NoReq}

Init ==
    /\ call = [r \in Reqs |-> "idle"]
    /\ fut = [r \in Reqs |-> "none"]
    /\ text = [r \in Reqs |-> {}]
    /\ queue = <<>> /\ staged = <<>>
    /\ prodPc = "off" /\ prodHand = <<>>
    /\ schedPc = "start" /\ schedHand = <<>>
    /\ slotReq = [s \in Slots |-> NoReq]
    /\ slotAudio = [s \in Slots |-> NoReq]
    /\ slotPrompt = [s \in Slots |-> NoReq]
    /\ slotCap = [s \in Slots |-> MaxPos]
    /\ alive = {} /\ finished = {} /\ aliveSet = {}
    /\ slotPos = [s \in Slots |-> 0]
    /\ posMirror = [s \in Slots |-> 0]
    /\ sinceEvict = 0
    /\ overlap \in BOOLEAN
    /\ stop = FALSE /\ err = FALSE

-----------------------------------------------------------------------------
(* Sessions.  submit() tests _err and only later puts into the queue: the  *)
(* engine may die in between.                                              *)

SubmitRefused(r) ==
    /\ call[r] = "idle"
    /\ err \/ r \in TooLong
    /\ fut' = [fut EXCEPT ![r] = "error"]
    /\ call' = [call EXCEPT ![r] = "returned"]
    /\ UNCHANGED <<text, queue, staged, producer, sched, pool, flags>>

SubmitChecked(r) ==
    /\ call[r] = "idle"
    /\ ~err /\ r \notin TooLong
    /\ fut' = [fut EXCEPT ![r] = "pending"]
    /\ call' = [call EXCEPT ![r] = "checked"]
    /\ UNCHANGED <<text, queue, staged, producer, sched, pool, flags>>

SubmitPut(r) ==
    /\ call[r] = "checked"
    /\ queue' = Append(queue, r)
    /\ call' = [call EXCEPT ![r] = "returned"]
    /\ UNCHANGED <<fut, text, staged, producer, sched, pool, flags>>

Close ==
    /\ ~stop /\ schedPc # "start"      \* start() returned before close()
    /\ stop' = TRUE
    /\ UNCHANGED <<callers, queue, staged, producer, sched, pool, overlap, err>>

-----------------------------------------------------------------------------
(* _drain and _encode_batch, used by whichever thread owns the encoder.    *)
(* No caller of this repository cancels a Future, so _drain drops nothing. *)

Drained(n) == SubSeq(queue, 1, Lesser(n, Len(queue)))
\* Mutant: the last drained request stays in the queue.
RemainingOverlaps(n) == SubSeq(queue, Greater(1, Lesser(n, Len(queue))), Len(queue))
Remaining(n) == SubSeq(queue, Lesser(n, Len(queue)) + 1, Len(queue))

\* Mutant: the batch replaces what was staged instead of extending it.
StagedReplacing(batch) == batch
StagedWith(batch) == staged \o batch

-----------------------------------------------------------------------------
(* Producer thread.                                                        *)

ProducerStop ==
    /\ prodPc = "poll" /\ stop
    /\ prodPc' = "exited"
    /\ UNCHANGED <<callers, queue, staged, prodHand, sched, pool, flags>>

\* Mutant: off by one in the backlog test.
BacklogTooDeep == Len(staged) <= 2 * AdmitBatch
BacklogShallow == Len(staged) < 2 * AdmitBatch

(* The backlog is read under the lock and the queue drained after it.      *)
ProducerCheckBacklog ==
    /\ prodPc = "poll" /\ ~stop
    /\ BacklogShallow
    /\ prodPc' = "drain"
    /\ UNCHANGED <<callers, queue, staged, prodHand, sched, pool, flags>>

ProducerDrain ==
    /\ prodPc = "drain"
    /\ prodHand' = Drained(AdmitBatch)
    /\ queue' = Remaining(AdmitBatch)
    /\ prodPc' = IF queue = <<>> THEN "poll" ELSE "encode"
    /\ UNCHANGED <<callers, staged, sched, pool, flags>>

ProducerEncode ==
    /\ prodPc = "encode"
    /\ staged' = StagedWith(prodHand)
    /\ prodHand' = <<>>
    /\ prodPc' = "poll"
    /\ UNCHANGED <<callers, queue, sched, pool, flags>>

(* The exception ends the thread; what it had drained is gone with it.     *)
ProducerDies ==
    /\ prodPc = "encode" /\ "producer" \in MayDie
    /\ prodPc' = "dead"
    /\ err' = TRUE
    /\ UNCHANGED <<callers, queue, staged, prodHand, sched, pool, overlap, stop>>

-----------------------------------------------------------------------------
(* Scheduler thread.                                                       *)

SchedStart ==
    /\ schedPc = "start"
    /\ prodPc' = IF overlap THEN "poll" ELSE prodPc
    /\ schedPc' = "loop"
    /\ UNCHANGED <<callers, queue, staged, prodHand, schedHand, pool, flags>>

\* Mutant: the loop does not test _stop.
RunForever == TRUE
Running == ~stop

SchedLoop ==
    /\ schedPc = "loop" /\ Running
    /\ schedPc' = IF Free = {} THEN "decide" ELSE IF overlap THEN "admit" ELSE "drain"
    /\ UNCHANGED <<callers, queue, staged, producer, schedHand, pool, flags>>

(* Leaving the loop fails what is in the slots, and only that.             *)
SchedShutdown ==
    /\ schedPc = "loop" /\ ~Running
    /\ fut' = [r \in Reqs |->
                 IF fut[r] = "pending" /\ \E s \in Slots : slotReq[s] = r
                 THEN "error" ELSE fut[r]]
    /\ schedPc' = "exited"
    /\ UNCHANGED <<call, text, queue, staged, producer, schedHand, pool, flags>>

InlineDrain ==
    /\ schedPc = "drain"
    /\ LET n == Lesser(Cardinality(Free), AdmitBatch) IN
         /\ schedHand' = Drained(n)
         /\ queue' = Remaining(n)
    /\ schedPc' = IF queue = <<>> THEN "admit" ELSE "encode"
    /\ UNCHANGED <<callers, staged, producer, pool, flags>>

InlineEncode ==
    /\ schedPc = "encode"
    /\ staged' = StagedWith(schedHand)
    /\ schedHand' = <<>>
    /\ schedPc' = "admit"
    /\ UNCHANGED <<callers, queue, producer, pool, flags>>

(* As many staged requests as there are free slots go to distinct free     *)
(* slots; which one goes where does not matter.                            *)
Placements(taken) ==
    {put \in [Free -> ToSet(taken) \cup {NoReq}] :
        /\ \A r \in ToSet(taken) : \E s \in Free : put[s] = r
        /\ \A s, t \in Free : put[s] = put[t] /\ put[s] # NoReq => s = t}

NTake == Lesser(Cardinality(Free), Len(staged))

(* _admit, first half: a slot takes the request's keys and values, and its *)
(* prompt row is built.  A row whose prompt cannot be built fails its own  *)
(* future and gives its slot back.                                         *)
Started(put) == {s \in Free : put[s] # NoReq /\ put[s] \notin BadPrompt}

\* Mutant: a batch with a row that cannot be prompted gets no prompt rows at
\* all, so its other slots decode under whatever prompt they held before.
PromptRowsIfAll(put) == IF \E s \in Free : put[s] \in BadPrompt THEN {} ELSE Started(put)
PromptRows(put) == Started(put)

Filled(put) == {s \in Free : put[s] # NoReq}

Copy(put) ==
    /\ slotAudio' = [s \in Slots |-> IF s \in Filled(put) THEN put[s] ELSE slotAudio[s]]
    /\ slotCap' = [s \in Slots |->
                     IF s \in Filled(put) THEN CapTotal(EncLen[put[s]]) ELSE slotCap[s]]

Place(put) ==
    /\ Copy(put)
    /\ staged' = SubSeq(staged, NTake + 1, Len(staged))
    /\ slotReq' = [s \in Slots |-> IF s \in Started(put) THEN put[s] ELSE slotReq[s]]
    /\ slotPrompt' = [s \in Slots |->
                        IF s \in PromptRows(put) THEN put[s] ELSE slotPrompt[s]]
    /\ fut' = [r \in Reqs |->
                 IF r \in BadPrompt /\ fut[r] = "pending" /\ \E s \in Free : put[s] = r
                 THEN "error" ELSE fut[r]]

(* Second half: the prompts are prefilled and the slots start decoding.    *)
Prefill(started) ==
    /\ slotPos' = [s \in Slots |-> IF s \in started THEN PromptLen ELSE slotPos[s]]
    /\ posMirror' = [s \in Slots |-> IF s \in started THEN PromptLen ELSE posMirror[s]]
    /\ alive' = alive \cup started
    /\ aliveSet' = aliveSet \cup started

Admit ==
    /\ schedPc = "admit"
    /\ \E put \in Placements(SubSeq(staged, 1, NTake)) :
         Place(put) /\ Prefill(Started(put))
    /\ schedPc' = "decide"
    /\ UNCHANGED <<call, text, queue, producer, schedHand, finished, sinceEvict, flags>>

(* With nothing alive the loop waits: with a producer it sleeps, without   *)
(* one it takes a request off the queue and puts it back at the tail.      *)
Idle ==
    /\ schedPc = "decide" /\ aliveSet = {}
    /\ schedPc' = IF overlap \/ queue = <<>> THEN "loop" ELSE "reput"
    /\ IF overlap \/ queue = <<>>
         THEN UNCHANGED <<queue, schedHand>>
         ELSE /\ schedHand' = <<Head(queue)>>
              /\ queue' = Tail(queue)
    /\ UNCHANGED <<callers, staged, producer, pool, flags>>

QueueAfterPutBack == queue \o schedHand

IdlePutBack ==
    /\ schedPc = "reput"
    /\ queue' = QueueAfterPutBack
    /\ schedHand' = <<>>
    /\ schedPc' = "loop"
    /\ UNCHANGED <<callers, staged, producer, pool, flags>>

StepsSinceEvict == (sinceEvict + 1) % EvictEvery

(* One step of the whole pool; ends is the set of slots whose next token   *)
(* is EOS or PAD.                                                          *)
Step(ends) ==
    LET moving == alive \ finished
        newPos(s) == Advance(slotPos[s], s \in moving, LAlloc)
    IN
    /\ slotPos' = [s \in Slots |-> newPos(s)]
    /\ finished' = finished \cup
                     {s \in moving : Hits(newPos(s), s \in ends, slotCap[s])}
    /\ posMirror' = [s \in Slots |->
                       IF s \in aliveSet THEN posMirror[s] + 1 ELSE posMirror[s]]
    /\ sinceEvict' = StepsSinceEvict

Decode ==
    /\ schedPc = "decide" /\ aliveSet # {}
    /\ \E ends \in SUBSET (alive \ finished) : Step(ends)
    /\ schedPc' = IF sinceEvict' = 0 THEN "evict" ELSE "loop"
    /\ UNCHANGED <<callers, queue, staged, producer, schedHand, slotReq, slotAudio,
                   slotPrompt, slotCap, alive, aliveSet, flags>>

\* Mutant: the finished latch of an evicted slot is not cleared.
LatchKept(done) == finished
LatchAfter(done) == finished \ done

(* _evict collects every finished slot; a row that fails to decode (bad)   *)
(* fails its own future only.  The device is reset after the last row.     *)
CollectRows(done, bad) ==
    /\ fut' = [r \in Reqs |->
                 IF fut[r] = "pending" /\ \E s \in done : slotReq[s] = r
                 THEN IF \E s \in bad : slotReq[s] = r THEN "error" ELSE "text"
                 ELSE fut[r]]
    /\ text' = [r \in Reqs |->
                  IF fut[r] = "pending" /\ \E s \in done \ bad : slotReq[s] = r
                  THEN UNION {{slotAudio[s], slotPrompt[s]} :
                                s \in {d \in done \ bad : slotReq[d] = r}}
                  ELSE text[r]]
    /\ slotReq' = [s \in Slots |-> IF s \in done THEN NoReq ELSE slotReq[s]]
    /\ posMirror' = [s \in Slots |-> IF s \in done THEN 0 ELSE posMirror[s]]
    /\ aliveSet' = aliveSet \ done

Collect(done, bad) ==
    /\ CollectRows(done, bad)
    /\ slotPos' = [s \in Slots |-> IF s \in done THEN 0 ELSE slotPos[s]]
    /\ slotCap' = [s \in Slots |-> IF s \in done THEN MaxPos ELSE slotCap[s]]
    /\ alive' = alive \ done
    /\ finished' = LatchAfter(done)

Evict ==
    /\ schedPc = "evict"
    /\ LET done == alive \cap finished IN \E bad \in SUBSET done : Collect(done, bad)
    /\ schedPc' = "loop"
    /\ UNCHANGED <<call, queue, staged, producer, schedHand, slotAudio, slotPrompt,
                   sinceEvict, flags>>

(* The copy loop of _admit raises: it has taken NTake requests off the     *)
(* staged list and put the first n of them into slots; the rest are in its *)
(* local list only.  What it was writing on the device no step reads.      *)
CopyRaises ==
    /\ schedPc = "admit" /\ NTake > 0
    /\ \E n \in 0 .. NTake : \E put \in Placements(SubSeq(staged, 1, n)) :
         /\ Copy(put)
         /\ schedHand' = SubSeq(staged, n + 1, NTake)
         /\ slotReq' = [s \in Slots |-> IF s \in Filled(put) THEN put[s] ELSE slotReq[s]]
    /\ staged' = SubSeq(staged, NTake + 1, Len(staged))
    /\ UNCHANGED <<callers, slotPrompt, alive, finished, slotPos, aliveSet, posMirror,
                   sinceEvict>>

(* Prefilling the prompts raises: every promptable request is in a slot.   *)
PrefillRaises ==
    /\ schedPc = "admit" /\ NTake > 0
    /\ \E put \in Placements(SubSeq(staged, 1, NTake)) : Place(put) /\ Started(put) # {}
    /\ UNCHANGED <<call, text, schedHand, alive, finished, slotPos, aliveSet, posMirror,
                   sinceEvict>>

(* Resetting the device raises, after the rows have been delivered.        *)
ResetRaises ==
    /\ schedPc = "evict"
    /\ LET done == alive \cap finished IN
         done # {} /\ \E bad \in SUBSET done : CollectRows(done, bad)
    /\ UNCHANGED <<call, staged, schedHand, device, sinceEvict>>

(* An exception in the GPU work of the loop: in an admission, in encoding  *)
(* inline, in a step, or in an eviction before its first row or after its  *)
(* last.                                                                   *)
SchedRaises ==
    /\ "scheduler" \in MayDie
    /\ \/ /\ schedPc \in {"encode", "evict"} \/ (schedPc = "decide" /\ aliveSet # {})
          /\ UNCHANGED <<callers, staged, schedHand, pool>>
       \/ CopyRaises \/ PrefillRaises \/ ResetRaises
    /\ err' = TRUE
    /\ schedPc' = "dying"
    /\ UNCHANGED <<queue, producer, overlap, stop>>

(* The handler fails what is in the queue, one request at a time.          *)
DyingFailQueued ==
    /\ schedPc = "dying" /\ queue # <<>>
    /\ fut' = [fut EXCEPT ![Head(queue)] = IF @ = "pending" THEN "error" ELSE @]
    /\ queue' = Tail(queue)
    /\ UNCHANGED <<call, text, staged, producer, sched, pool, flags>>

DyingDone ==
    /\ schedPc = "dying" /\ queue = <<>>
    /\ schedPc' = "dead"
    /\ UNCHANGED <<callers, queue, staged, producer, schedHand, pool, flags>>

-----------------------------------------------------------------------------
Session(r) == SubmitRefused(r) \/ SubmitChecked(r) \/ SubmitPut(r)

Producer ==
    \/ ProducerStop \/ ProducerCheckBacklog \/ ProducerDrain
    \/ ProducerEncode \/ ProducerDies

Scheduler ==
    \/ SchedStart \/ SchedLoop \/ SchedShutdown
    \/ InlineDrain \/ InlineEncode \/ Admit \/ Idle \/ IdlePutBack
    \/ Decode \/ Evict
    \/ SchedRaises \/ DyingFailQueued \/ DyingDone

Next == (\E r \in Reqs : Session(r)) \/ Close \/ Producer \/ Scheduler

(* Each thread keeps running until it returns, and a session that passed   *)
(* the checks reaches its put().  Nobody has to call submit() or close().  *)
Spec ==
    /\ Init /\ [][Next]_vars
    /\ WF_vars(Producer) /\ WF_vars(Scheduler)
    /\ \A r \in Reqs : WF_vars(SubmitPut(r))

-----------------------------------------------------------------------------
(* Properties                                                              *)

FutureStates == {"none", "pending", "text", "error"}

TypeCallers ==
    /\ call \in [Reqs -> {"idle", "checked", "returned"}]
    /\ fut \in [Reqs -> FutureStates]
    /\ text \in [Reqs -> SUBSET (Reqs \cup {NoReq})]

TypeQueues ==
    /\ queue \in Seq(Reqs) /\ staged \in Seq(Reqs)
    /\ prodHand \in Seq(Reqs) /\ schedHand \in Seq(Reqs)

TypeThreads ==
    /\ prodPc \in {"off", "poll", "drain", "encode", "exited", "dead"}
    /\ schedPc \in {"start", "loop", "drain", "encode", "admit", "decide", "reput",
                    "evict", "exited", "dying", "dead"}
    /\ overlap \in BOOLEAN /\ stop \in BOOLEAN /\ err \in BOOLEAN

TypePool ==
    /\ slotReq \in [Slots -> Reqs \cup {NoReq}]
    /\ slotAudio \in [Slots -> Reqs \cup {NoReq}]
    /\ slotPrompt \in [Slots -> Reqs \cup {NoReq}]
    /\ slotCap \in [Slots -> Nat]
    /\ alive \subseteq Slots /\ finished \subseteq Slots /\ aliveSet \subseteq Slots
    /\ slotPos \in [Slots -> Nat]
    /\ posMirror \in [Slots -> Nat]
    /\ sinceEvict \in 0 .. EvictEvery - 1

TypeOK == TypeCallers /\ TypeQueues /\ TypeThreads /\ TypePool

InSlots == {slotReq[s] : s \in Slots} \ {NoReq}
ProducerLives == prodPc # "dead"
SchedulerLives == schedPc \notin {"dying", "dead"}

(* What the engine holds, and what a thread took with it when it died.     *)
Held ==
    ToSet(queue) \cup ToSet(staged) \cup InSlots
      \cup (IF ProducerLives THEN ToSet(prodHand) ELSE {})
      \cup (IF SchedulerLives THEN ToSet(schedHand) ELSE {})

Lost ==
    (IF ProducerLives THEN {} ELSE ToSet(prodHand))
      \cup (IF SchedulerLives THEN {} ELSE ToSet(schedHand))

(* A request is never in two places at once: not twice in one list, not in *)
(* two of the queue, a thread's hands, the staged list and the pool, and   *)
(* not in two slots.  Four actors move it, two of them concurrently.       *)
OnePlace ==
    /\ \A q \in {queue, prodHand, schedHand, staged} : IsInjective(q)
    /\ \A s, t \in Slots : slotReq[s] = slotReq[t] /\ slotReq[s] # NoReq => s = t
    /\ LET at == <<ToSet(queue), ToSet(prodHand), ToSet(schedHand), ToSet(staged),
                   InSlots>>
       IN \A i, j \in DOMAIN at : i # j => at[i] \cap at[j] = {}

(* No request is dropped on the way: a submitted request whose Future is   *)
(* unresolved is somewhere in the engine, and one that is resolved is      *)
(* nowhere (the shutdown drain alone leaves what it failed in the slots).  *)
(* Only a death loses requests, and what is lost then is at most the batch *)
(* its thread was encoding or the pool it was filling: the handler does    *)
(* not see them, and their Futures are never resolved.                     *)
Accounted ==
    /\ \A r \in Reqs :
         /\ call[r] = "returned" /\ fut[r] = "pending" => r \in Held \cup Lost
         /\ r \in Held \cup Lost =>
              call[r] = "returned" /\ (fut[r] = "pending" \/ schedPc = "exited")
    /\ Held \cap Lost = {}
    /\ Lost # {} => err
    /\ Len(prodHand) <= AdmitBatch
    /\ Len(schedHand) <= Greater(AdmitBatch, Cardinality(Slots))

(* Staged keys and values are real memory: the producer's check-then-drain *)
(* never lets more than three admission batches less one accumulate.       *)
BoundedStaging == Len(staged) + Len(prodHand) <= 3 * AdmitBatch - 1

(* Between two iterations of the loop the scheduler's host-side view of    *)
(* the pool is the device's: the same slots run, each holds a request, the *)
(* position mirror leads only by the steps since the last eviction, and a  *)
(* running slot decodes its own request's audio under its own prompt.      *)
HostMatchesDevice ==
    schedPc \in {"loop", "drain", "admit", "decide", "exited"} =>
        /\ aliveSet = alive /\ finished \subseteq alive
        /\ alive = {s \in Slots : slotReq[s] # NoReq}
        /\ \A s \in alive :
             /\ slotAudio[s] = slotReq[s] /\ slotPrompt[s] = slotReq[s]
             /\ slotPos[s] <= posMirror[s] /\ posMirror[s] <= slotPos[s] + sinceEvict

(* "no request can ever exceed them": in the served configuration, which   *)
(* evicts after every step, a step embeds only positions of the position   *)
(* table, writes only allocated columns and reads no scratch column.       *)
StepFitsPool ==
    EvictEvery = 1 /\ schedPc = "decide" =>
        \A s \in aliveSet :
            /\ slotPos[s] < MaxPos
            /\ slotPos[s] + 1 < slotCap[s] /\ slotCap[s] <= LAlloc
            /\ KeyLen(posMirror[s] + 1, LAlloc) <= LAlloc

(* The engine keeps the promise of Outcomes: each Future resolves at most  *)
(* once, with an error or with the text of its own audio and prompt.       *)
OutcomeOf(r) ==
    CASE fut[r] = "none"    -> "new"
      [] fut[r] = "pending" -> "open"
      [] fut[r] = "error"   -> "failed"
      [] fut[r] = "text"    -> IF text[r] = {r} THEN "answered" ELSE "garbled"

Promise == INSTANCE Outcomes WITH Jobs <- Reqs,
                                  outcome <- [r \in Reqs |-> OutcomeOf(r)]
SettlesOnce == Promise!Spec

(* While both threads live and nobody calls close(), every submitted       *)
(* request is answered: no session blocks forever on result().             *)
EveryRequestSettles ==
    \A r \in Reqs :
        call[r] = "returned" /\ fut[r] = "pending" ~> fut[r] # "pending" \/ stop \/ err

(* close() can join both threads: each leaves its loop once _stop is set.  *)
CloseStopsThreads ==
    stop ~> /\ schedPc \in {"exited", "dead"}
            /\ prodPc \in {"off", "exited", "dead"}

(* Nobody waits for ever: no session on its result, and no close() on a    *)
(* thread.                                                                 *)
EveryWaitEnds == EveryRequestSettles /\ CloseStopsThreads

(* The shutdown comment, "fail anything still in flight so no caller hangs *)
(* on shutdown": once close() has stopped both threads, every Future that  *)
(* was accepted before is resolved.                                        *)
NoCallerHangs ==
    schedPc = "exited" /\ prodPc \in {"off", "exited"} =>
        \A r \in Reqs : call[r] = "returned" => fut[r] # "pending"
=============================================================================
