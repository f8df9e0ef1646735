----------------------------- MODULE OfflineRun -----------------------------
(***************************************************************************)
(* IndicTranscribeEngine.run (asr/engine/continuous_batching.py): a fixed  *)
(* list of utterances, sorted by claimed duration, is loaded, encoded and  *)
(* decoded by continuous batching.  A producer thread may encode ahead of  *)
(* the main loop, which admits encoded utterances into slots, steps the    *)
(* whole pool, and evicts finished slots every few steps.  The pool is     *)
(* sized by the first encoded batch.                                       *)
(*                                                                         *)
(* Data abstracted: a token, a key or a value is the utterance it was      *)
(* computed for; NoUtt stands for one that belongs to no utterance.        *)
(***************************************************************************)
EXTENDS DecodePool, Sequences, FiniteSets, SequencesExt

CONSTANTS
    Utts, NoUtt,
    Inputs,        \* the lists run() may be given, longest claimed duration first
    PreErrored,    \* utterances that arrive with an error set
    LoadFails,     \* utterances whose audio cannot be read
    BadPrompt,     \* utterances whose prompt cannot be built
    EncLen,        \* true encoder length of each utterance
    Slots,         \* 1 .. n_slots
    EncoderBatch, AdmitBatch, EvictEvery,
    MayRaise       \* TRUE: encoding a batch may raise

ASSUME RunAssumption ==
    /\ NoUtt \notin Utts
    /\ \A l \in Inputs : l \in Seq(Utts) /\ IsInjective(l)
    /\ EncLen \in [Utts -> Nat]
    /\ IsFiniteSet(Slots) /\ Slots \subseteq Nat /\ Slots # {}
    /\ EncoderBatch \in Nat \ {0}
    /\ AdmitBatch \in Nat \ {0}
    /\ EvictEvery \in Nat \ {0}
    /\ \A u \in Utts : PromptLen + 1 < CapTotal(EncLen[u])

VARIABLES
    utterances,    \* the argument of run()
    overlap,       \* overlap_prefill: whether a producer thread encodes
    mainPc, prodPc,
    source,        \* futures and submit_iter: not yet loaded
    hand,          \* loaded, being encoded
    before,        \* the producer's len(ready) from before it pulled
    ready,         \* encoded, waiting for a slot
    tEncMax, lAlloc,   \* pool sizes, 0 until the first batch
    slotUtt,       \* slot_utt
    buf,           \* the device tensors of the pool
    posMirror, aliveSet,   \* host-side copies
    exhausted, sinceEvict,
    calls,         \* how often on_result was called for each utterance
    answer         \* whose tokens the ids (or no ids: an error) came from

prod  == <<prodPc, before>>
pool  == <<slotUtt, buf, posMirror, aliveSet>>
sizes == <<tEncMax, lAlloc>>
told  == <<calls, answer>>
input == <<utterances, overlap>>
vars  == <<input, mainPc, prod, source, hand, ready, sizes, pool, exhausted,
           sinceEvict, told>>

Columns == 0 .. MaxPos + 1     \* at most L_alloc + 2

\* The k-th smallest of a set of numbers, and the entries of a list that are not in drop.
Nth(S, k) == CHOOSE n \in S : Cardinality({m \in S : m < n}) = k - 1
Without(q, drop) ==
    LET kept == {i \in DOMAIN q : q[i] \notin drop} IN
    [k \in 1 .. Cardinality(kept) |-> q[Nth(kept, k)]]

(* The idle pool; rows and key columns are refilled at admission.          *)
EmptyBuf ==
    [pos   |-> [s \in Slots |-> 0],
     cap   |-> [s \in Slots |-> 0],
     row   |-> [s \in Slots |-> [c \in Columns |-> NoUtt]],
     keys  |-> [s \in Slots |-> [c \in Columns |-> NoUtt]],
     last  |-> [s \in Slots |-> NoUtt],
     alive |-> {}, fin |-> {}]

Init ==
    /\ utterances \in Inputs
    /\ overlap \in BOOLEAN
    /\ mainPc = "start" /\ prodPc = "off"
    /\ source = <<>> /\ hand = <<>> /\ before = 0 /\ ready = <<>>
    /\ tEncMax = 0 /\ lAlloc = 0
    /\ slotUtt = [s \in Slots |-> NoUtt]
    /\ buf = EmptyBuf
    /\ posMirror = [s \in Slots |-> 0] /\ aliveSet = {}
    /\ exhausted = FALSE /\ sinceEvict = 0
    /\ calls = [u \in Utts |-> 0]
    /\ answer = [u \in Utts |-> {}]

Free   == {s \in Slots : slotUtt[s] = NoUtt}
NAlive == Cardinality(aliveSet)

(* on_result(utt) with utt.error set, for every utterance of a set.        *)
Report(failed) ==
    calls' = [u \in Utts |-> IF u \in failed THEN calls[u] + 1 ELSE calls[u]]

Start ==
    /\ mainPc = "start"
    /\ Report(ToSet(utterances) \cap PreErrored)
    /\ source' = Without(utterances, PreErrored)
    /\ prodPc' = IF overlap THEN "poll" ELSE "off"
    /\ mainPc' = "top"
    /\ UNCHANGED <<input, hand, before, ready, sizes, pool, exhausted, sinceEvict,
                   answer>>

-----------------------------------------------------------------------------
(* pull_and_prefill, on the producer thread or inline.                     *)

(* How much of the source one pull consumes: up to encoder_batch readable  *)
(* utterances, and the unreadable ones before them.                        *)
Readable(k) == Cardinality({i \in 1..k : source[i] \notin LoadFails})
NPull == CHOOSE k \in 0 .. Len(source) :
            /\ Readable(k) = EncoderBatch \/ k = Len(source)
            /\ \A j \in 0 .. k - 1 : Readable(j) < EncoderBatch

LoadBatch ==
    LET pulled == SubSeq(source, 1, NPull) IN
    /\ Report(ToSet(pulled) \cap LoadFails)
    /\ hand' = Without(pulled, LoadFails)
    /\ source' = SubSeq(source, NPull + 1, Len(source))

LongestOf(batch) == CHOOSE t \in {EncLen[u] : u \in ToSet(batch)} :
                        \A u \in ToSet(batch) : EncLen[u] <= t

(* The first batch sizes the pool, before anything is published.           *)
Publish ==
    /\ ready' = ready \o hand
    /\ hand' = <<>>
    /\ IF lAlloc = 0 /\ hand # <<>>
         THEN /\ tEncMax' = LongestOf(hand)
              /\ lAlloc' = Lesser(MaxPos, CapTotal(LongestOf(hand)) + 1)
         ELSE UNCHANGED sizes

-----------------------------------------------------------------------------
(* Producer thread.                                                        *)

BacklogShallow == Len(ready) < 2 * AdmitBatch + EncoderBatch

(* producer_stop needs no guard: run() sets it as it returns, and in this  *)
(* mode it returns only after the producer has left its loop.              *)
ProducerPull ==
    /\ prodPc = "poll" /\ BacklogShallow
    /\ before' = Len(ready)
    /\ LoadBatch
    /\ prodPc' = "encode"
    /\ UNCHANGED <<input, mainPc, ready, sizes, pool, exhausted, sinceEvict, answer>>

ProducerPublish ==
    /\ prodPc = "encode"
    /\ Publish
    /\ prodPc' = "check"
    /\ UNCHANGED <<input, mainPc, before, source, pool, exhausted, sinceEvict, told>>

(* The source has drained when a pull added nothing and nothing is loading.*)
SourceDrained == Len(ready) = before /\ source = <<>>

ProducerCheck ==
    /\ prodPc = "check"
    /\ prodPc' = IF SourceDrained THEN "done" ELSE "poll"
    /\ UNCHANGED <<input, mainPc, before, source, hand, ready, sizes, pool, exhausted,
                   sinceEvict, told>>

ProducerRaises ==
    /\ MayRaise /\ prodPc = "encode" /\ hand # <<>>
    /\ prodPc' = "failed"
    /\ UNCHANGED <<input, mainPc, before, source, hand, ready, sizes, pool, exhausted,
                   sinceEvict, told>>

ProducerDone == prodPc \in {"done", "failed"}

-----------------------------------------------------------------------------
(* Main loop.                                                              *)

CheckProducer ==
    /\ mainPc = "top"
    /\ mainPc' = IF prodPc = "failed" THEN "raised" ELSE "stock"
    /\ UNCHANGED <<input, prod, source, hand, ready, sizes, pool, exhausted, sinceEvict,
                   told>>

(* Keep ready stocked: with a producer only notice that the source has     *)
(* drained; without one, pull when there is room.                          *)
WantsPull == ~exhausted /\ Free # {}
             /\ Len(ready) < Lesser(AdmitBatch, Cardinality(Free))

Stock ==
    /\ mainPc = "stock"
    /\ IF overlap
         THEN /\ exhausted' = (exhausted \/ (ProducerDone /\ ready = <<>>))
              /\ mainPc' = "admit"
              /\ UNCHANGED <<source, hand, before, calls>>
         ELSE IF WantsPull
           THEN /\ LoadBatch
                /\ before' = Len(ready)
                /\ mainPc' = "encode"
                /\ UNCHANGED exhausted
           ELSE mainPc' = "admit" /\ UNCHANGED <<source, hand, before, calls, exhausted>>
    /\ UNCHANGED <<input, prodPc, ready, sizes, pool, sinceEvict, answer>>

InlineEncode ==
    /\ mainPc = "encode"
    /\ Publish
    /\ exhausted' = (hand = <<>> /\ source = <<>>)
    /\ mainPc' = "admit"
    /\ UNCHANGED <<input, prod, source, pool, sinceEvict, told>>

InlineRaises ==
    /\ MayRaise /\ mainPc = "encode" /\ hand # <<>>
    /\ mainPc' = "raised"
    /\ UNCHANGED <<input, prod, source, hand, ready, sizes, pool, exhausted, sinceEvict,
                   told>>

\* Mutant: only full batches are admitted.
ShouldAdmitFull ==
    ready # <<>> /\ Lesser(Len(ready), Cardinality(Free)) >= AdmitBatch

(* Admit in batches, but never stall.                                      *)
ShouldAdmit ==
    /\ ready # <<>>
    /\ \/ Lesser(Len(ready), Cardinality(Free)) >= AdmitBatch
       \/ exhausted
       \/ aliveSet = {}

FitsPool(u) == EncLen[u] <= tEncMax /\ CapTotal(EncLen[u]) <= lAlloc + 1

(* Each free slot takes the next ready utterance; one that outgrows the    *)
(* pool is failed and its slot stays free.                                 *)
NTake == Lesser(Cardinality(Free), Len(ready))

Placed ==
    {<<Nth(Free, i), ready[i]>> : i \in {j \in 1 .. NTake : FitsPool(ready[j])}}

(* The prompt is written and prefilled, and its first token appended.      *)
PrefillRow(u) == [c \in Columns |-> IF c <= PromptLen THEN u ELSE NoUtt]
PrefillKeys(keys, u) == [c \in Columns |-> IF c < PromptLen THEN u ELSE keys[c]]

Fill(placed) ==
    LET into == {p[1] : p \in placed}
        utt(s) == (CHOOSE p \in placed : p[1] = s)[2]
    IN
    /\ buf' = [buf EXCEPT
                 !.pos = [s \in Slots |-> IF s \in into THEN PromptLen ELSE @[s]],
                 !.cap = [s \in Slots |->
                            IF s \in into THEN CapTotal(EncLen[utt(s)]) ELSE @[s]],
                 !.row = [s \in Slots |-> IF s \in into THEN PrefillRow(utt(s)) ELSE @[s]],
                 !.keys = [s \in Slots |->
                             IF s \in into THEN PrefillKeys(@[s], utt(s)) ELSE @[s]],
                 !.last = [s \in Slots |-> IF s \in into THEN utt(s) ELSE @[s]],
                 !.alive = @ \cup into]
    /\ posMirror' = [s \in Slots |-> IF s \in into THEN PromptLen ELSE posMirror[s]]
    /\ aliveSet' = aliveSet \cup into

ReadyAfterPop == SubSeq(ready, NTake + 1, Len(ready))

AdmitReady ==
    /\ ready' = ReadyAfterPop
    /\ Report({ready[i] : i \in {j \in 1 .. NTake : ~FitsPool(ready[j])}})
    /\ slotUtt' = [s \in Slots |->
                     IF \E p \in Placed : p[1] = s
                     THEN (CHOOSE p \in Placed : p[1] = s)[2] ELSE slotUtt[s]]

Admit ==
    /\ mainPc = "admit"
    /\ IF ShouldAdmit
         THEN /\ AdmitReady
              /\ IF \E p \in Placed : p[2] \in BadPrompt
                   THEN mainPc' = "raised" /\ UNCHANGED <<buf, posMirror, aliveSet>>
                   ELSE mainPc' = "next" /\ Fill(Placed)
         ELSE mainPc' = "next" /\ UNCHANGED <<ready, calls, pool>>
    /\ UNCHANGED <<input, prod, source, hand, sizes, exhausted, sinceEvict, answer>>

\* Mutant: a producer that failed as the loop ended goes unnoticed.
LeaveWithUnchecked == "returned"
LeaveWith == IF prodPc = "failed" THEN "raised" ELSE "returned"

Finish ==
    /\ mainPc = "next" /\ aliveSet = {} /\ exhausted /\ ready = <<>>
    /\ mainPc' = LeaveWith
    /\ UNCHANGED <<input, prod, source, hand, ready, sizes, pool, exhausted, sinceEvict,
                   told>>

(* Nothing alive: go round.  Only the inline mode may also conclude here   *)
(* that no work is left.                                                   *)
Again ==
    /\ mainPc = "next" /\ aliveSet = {} /\ ~(exhausted /\ ready = <<>>)
    /\ exhausted' = (exhausted \/ (~overlap /\ ready = <<>> /\ source = <<>>))
    /\ mainPc' = "top"
    /\ UNCHANGED <<input, prod, source, hand, ready, sizes, pool, sinceEvict, told>>

-----------------------------------------------------------------------------
(* The decode step over all slots.  ends: slots whose next token is EOS or *)
(* PAD.  A finished slot is frozen: it does not advance and writes its     *)
(* token and its keys to the scratch columns.                              *)

\* Mutant: a frozen slot keeps writing at its position.
TokenColumnUnfrozen(b, s) == Advance(b.pos[s], s \in b.alive \ b.fin, lAlloc)
TokenColumn(b, s) == IF s \in b.fin THEN lAlloc + 1
                     ELSE Advance(b.pos[s], s \in b.alive, lAlloc)
Tenant(b, s) == IF s \in b.alive \ b.fin THEN slotUtt[s] ELSE NoUtt

StepBody(b, ends) ==
    LET moving == b.alive \ b.fin
        newPos == [s \in Slots |-> Advance(b.pos[s], s \in moving, lAlloc)]
    IN [b EXCEPT
          !.keys = [s \in Slots |->
                      [@[s] EXCEPT ![IF s \in b.fin THEN lAlloc ELSE b.pos[s]] =
                         IF s \in moving THEN b.last[s] ELSE NoUtt]],
          !.row = [s \in Slots |-> [@[s] EXCEPT ![TokenColumn(b, s)] = Tenant(b, s)]],
          !.last = [s \in Slots |-> Tenant(b, s)],
          !.pos = newPos,
          !.fin = @ \cup {s \in moving : Hits(newPos[s], s \in ends, b.cap[s])}]

(* A shape not seen before is captured first: the body runs three times as *)
(* a warm-up with every slot held still, then what it changed is put back. *)
Warm(b) == StepBody(StepBody(StepBody([b EXCEPT !.alive = {}], {}), {}), {})

\* Mutant: the token each slot feeds to the next step is not put back.
WarmUpKeepsToken(b) ==
    [Warm(b) EXCEPT !.alive = b.alive, !.pos = b.pos, !.row = b.row]
WarmUp(b) ==
    [Warm(b) EXCEPT !.alive = b.alive, !.pos = b.pos, !.row = b.row, !.last = b.last]

Decode ==
    /\ mainPc = "next" /\ aliveSet # {}
    /\ \E capture \in BOOLEAN, ends \in SUBSET (buf.alive \ buf.fin) :
         buf' = StepBody(IF capture THEN WarmUp(buf) ELSE buf, ends)
    /\ posMirror' = [s \in Slots |->
                       IF s \in aliveSet THEN posMirror[s] + 1 ELSE posMirror[s]]
    /\ sinceEvict' = (sinceEvict + 1) % EvictEvery
    /\ mainPc' = "evict"
    /\ UNCHANGED <<input, prod, source, hand, ready, sizes, slotUtt, aliveSet,
                   exhausted, told>>

NeedSlots == ready # <<>> /\ NAlive >= Cardinality(Slots) - AdmitBatch
ShouldEvict == sinceEvict = 0 \/ NeedSlots \/ (exhausted /\ ready = <<>>)

LatchAfter(done) == buf.fin \ done

(* on_result(utt) with the tokens 0..slot_pos of the slot's row.           *)
Collect(done) ==
    /\ calls' = [u \in Utts |->
                   IF \E s \in done : slotUtt[s] = u THEN calls[u] + 1 ELSE calls[u]]
    /\ answer' = [u \in Utts |->
                    answer[u] \cup
                    UNION {{buf.row[s][c] : c \in 0 .. buf.pos[s]} :
                             s \in {d \in done : slotUtt[d] = u}}]
    /\ slotUtt' = [s \in Slots |-> IF s \in done THEN NoUtt ELSE slotUtt[s]]
    /\ buf' = [buf EXCEPT !.alive = @ \ done, !.fin = LatchAfter(done),
                          !.last = [s \in Slots |-> IF s \in done THEN NoUtt ELSE @[s]],
                          !.pos = [s \in Slots |-> IF s \in done THEN 0 ELSE @[s]],
                          !.cap = [s \in Slots |-> IF s \in done THEN MaxPos ELSE @[s]]]
    /\ posMirror' = [s \in Slots |-> IF s \in done THEN 0 ELSE posMirror[s]]
    /\ aliveSet' = aliveSet \ done

Evict ==
    /\ mainPc = "evict"
    /\ IF ShouldEvict THEN Collect(buf.alive \cap buf.fin) ELSE UNCHANGED <<pool, told>>
    /\ mainPc' = "top"
    /\ UNCHANGED <<input, prod, source, hand, ready, sizes, exhausted, sinceEvict>>

-----------------------------------------------------------------------------
Producer == ProducerPull \/ ProducerPublish \/ ProducerCheck \/ ProducerRaises
Main == \/ Start \/ CheckProducer \/ Stock \/ InlineEncode \/ InlineRaises \/ Admit
        \/ Finish \/ Again \/ Decode \/ Evict
Next == Producer \/ Main

(* Both threads run whenever they can: a busy loop and a thread.           *)
Spec == Init /\ [][Next]_vars /\ WF_vars(Producer) /\ WF_vars(Main)

-----------------------------------------------------------------------------
(* Properties                                                              *)

Held == ToSet(source) \cup ToSet(hand) \cup ToSet(ready)
          \cup ({slotUtt[s] : s \in Slots} \ {NoUtt})

(* While the run lasts an utterance of the list is either still in exactly *)
(* one stage (source, encoder, ready, slot) or on_result was called for it *)
(* once, and when run() returns normally it was called for all of them:    *)
(* batching, rejection and the two threads lose and repeat nothing, and a  *)
(* producer failure on the last lap is not mistaken for exhaustion.        *)
ReturnsComplete ==
    mainPc # "start" =>
        /\ IsInjective(source \o hand \o ready)
        /\ \A s, t \in Slots : slotUtt[s] = slotUtt[t] /\ slotUtt[s] # NoUtt => s = t
        /\ \A s \in Slots : slotUtt[s] \notin ToSet(source \o hand \o ready)
        /\ \A u \in ToSet(utterances) :
              /\ u \in Held <=> calls[u] = 0
              /\ mainPc = "returned" => calls[u] = 1

(* "Token-identical: each slot's tokens depend only on its own KV": every  *)
(* column a running slot's next step reads, and every token eviction will  *)
(* collect, was written for the slot's own utterance, whatever freezing,   *)
(* graph warm-ups and earlier tenants wrote; and the step of a slot that   *)
(* still moves embeds a row of the position table and writes inside the    *)
(* allocation, whatever durations the caller claimed.                      *)
CachesIntact ==
    \A s \in buf.alive :
        /\ \A c \in 0 .. buf.pos[s] : buf.row[s][c] = slotUtt[s]
        /\ \A c \in 0 .. buf.pos[s] - 1 : buf.keys[s][c] = slotUtt[s]
        /\ s \notin buf.fin =>
              /\ buf.last[s] = slotUtt[s]
              /\ buf.pos[s] < MaxPos /\ buf.pos[s] < lAlloc
              /\ buf.pos[s] + 1 < buf.cap[s] /\ buf.cap[s] <= lAlloc + 1

(* Each utterance is answered at most once, from its own tokens or with an *)
(* error.                                                                  *)
OutcomeOf(u) ==
    IF u \notin ToSet(utterances) \/ mainPc = "start" THEN "new"
    ELSE CASE calls[u] = 0 -> "open"
           [] calls[u] = 1 -> IF answer[u] = {u} THEN "answered"
                              ELSE IF answer[u] = {} THEN "failed" ELSE "garbled"
           [] OTHER -> "garbled"

Promise == INSTANCE Outcomes WITH Jobs <- Utts,
                                  outcome <- [u \in Utts |-> OutcomeOf(u)]
AnsweredOnce == Promise!Spec

(* The run ends: no partial batch waits below the admission threshold for  *)
(* ever, and exhaustion is always noticed.                                 *)
RunEnds == <>(mainPc \in {"returned", "raised"})
=============================================================================
