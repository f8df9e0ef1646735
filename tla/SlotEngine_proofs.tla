------------------------- MODULE SlotEngine_proofs -------------------------
(***************************************************************************)
(* Proofs about SlotEngine, for any number of requests and slots and any   *)
(* geometry of the pool.  The invariants are proved one upon the other:    *)
(* TypeInv (types), PoolInv (the host's view of the device), PlaceInv      *)
(* (where every request is) and StagingInv (how much is staged).           *)
(***************************************************************************)
EXTENDS SlotEngine, SequenceFacts, FiniteSetTheorems

USE EngineAssumption, PoolAssumption

(* What submit() lets through.                                             *)
Admitted == Reqs \ TooLong

-----------------------------------------------------------------------------
(* Lemmas about the helpers of the model.                                  *)

(* The length cap of an admitted request: the prompt fits under it, and    *)
(* every column below it is allocated.                                     *)
LEMMA CapFacts ==
  /\ LAlloc \in Nat /\ LAlloc <= MaxPos + 1
  /\ \A r \in Reqs : /\ CapTotal(EncLen[r]) \in Nat
                     /\ CapTotal(EncLen[r]) <= MaxPos + 1
                     /\ PromptLen + 1 < CapTotal(EncLen[r])
  /\ \A r \in Admitted : CapTotal(EncLen[r]) <= LAlloc
  <1>1. LAlloc \in Nat /\ LAlloc <= MaxPos + 1
    BY DEF LAlloc, Lesser
  <1>2. ASSUME NEW r \in Reqs
        PROVE  /\ CapTotal(EncLen[r]) \in Nat
               /\ CapTotal(EncLen[r]) <= MaxPos + 1
               /\ PromptLen + 1 < CapTotal(EncLen[r])
    <2>1. EncLen[r] \in Nat
      BY <1>2
    <2> QED  BY <2>1 DEF CapTotal, Lesser
  <1>3. ASSUME NEW r \in Admitted PROVE CapTotal(EncLen[r]) <= LAlloc
    <2>1. EncLen[r] \in Nat /\ EncLen[r] <= TEncMax
      BY <1>3 DEF Admitted
    <2> QED  BY <2>1 DEF CapTotal, LAlloc, Lesser
  <1> QED  BY <1>1, <1>2, <1>3

(* _drain cuts the queue in two.                                           *)
LEMMA DrainFacts ==
  ASSUME NEW S, queue \in Seq(S), NEW n \in Nat
  PROVE  /\ Drained(n) \in Seq(S) /\ Remaining(n) \in Seq(S)
         /\ Len(Drained(n)) <= n
         /\ ToSet(Drained(n)) \cup ToSet(Remaining(n)) = ToSet(queue)
         /\ IsInjective(queue) => /\ IsInjective(Drained(n)) /\ IsInjective(Remaining(n))
                                  /\ ToSet(Drained(n)) \cap ToSet(Remaining(n)) = {}
  <1>1. Lesser(n, Len(queue)) \in 0 .. Len(queue) /\ Lesser(n, Len(queue)) <= n
    BY DEF Lesser
  <1> QED  BY <1>1, SplitFacts DEF Drained, Remaining

(* _admit cuts the staged list in two.                                     *)
Taken == SubSeq(staged, 1, NTake)
Kept  == SubSeq(staged, NTake + 1, Len(staged))

LEMMA TakeFacts ==
  ASSUME NEW S, staged \in Seq(S)
  PROVE  /\ NTake \in 0 .. Len(staged) /\ Cardinality(Free) \in Nat
         /\ Taken \in Seq(S) /\ Kept \in Seq(S)
         /\ Len(Kept) = Len(staged) - NTake
         /\ ToSet(Taken) \cup ToSet(Kept) = ToSet(staged)
         /\ IsInjective(staged) => /\ IsInjective(Kept)
                                   /\ ToSet(Taken) \cap ToSet(Kept) = {}
  <1>1. IsFiniteSet(Free)
    BY FS_Subset DEF Free
  <1>2. Cardinality(Free) \in Nat
    BY <1>1, FS_CardinalityType
  <1>3. NTake \in 0 .. Len(staged)
    BY <1>2 DEF NTake, Lesser
  <1> QED  BY <1>2, <1>3, SplitFacts DEF Taken, Kept

LEMMA PlacementFacts ==
  ASSUME NEW S, staged \in Seq(S), NEW put \in Placements(Taken)
  PROVE  /\ put \in [Free -> S \cup {NoReq}]
         /\ \A s \in Free : put[s] # NoReq => put[s] \in ToSet(Taken) /\ put[s] \in S
         /\ \A r \in ToSet(Taken) : \E s \in Free : put[s] = r
         /\ \A s, t \in Free : put[s] = put[t] /\ put[s] # NoReq => s = t
         /\ Started(put) \subseteq Free /\ Free \subseteq Slots
         /\ \A s \in Started(put) : put[s] \in ToSet(Taken) /\ put[s] \in S
  <1>1. ToSet(Taken) \subseteq S
    BY TakeFacts, ToSetType
  <1> QED  BY <1>1 DEF Placements, Started, Free

(* The requests an admission took, cut where its copy loop raised.         *)
LEMMA SubSeqOfTaken ==
  ASSUME NEW S, NEW q \in Seq(S), NEW m \in 0 .. Len(q), NEW n \in 0 .. m
  PROVE  /\ SubSeq(SubSeq(q, 1, m), 1, n) = SubSeq(q, 1, n)
         /\ SubSeq(SubSeq(q, 1, m), n + 1, m) = SubSeq(q, n + 1, m)
  OBVIOUS

-----------------------------------------------------------------------------
(* Type correctness, with the fact that only admitted requests get in.     *)

TypeAdmitted ==
    /\ queue \in Seq(Admitted) /\ staged \in Seq(Admitted)
    /\ prodHand \in Seq(Admitted) /\ schedHand \in Seq(Admitted)
    /\ slotReq \in [Slots -> Admitted \cup {NoReq}]
    /\ \A r \in Reqs : call[r] = "checked" => r \in Admitted

TypeInv == TypeCallers /\ TypeThreads /\ TypePool /\ TypeAdmitted

LEMMA TypeInit == Init => TypeInv
  <1> SUFFICES ASSUME Init PROVE TypeInv
    OBVIOUS
  <1>1. TypeCallers
    BY DEF Init, TypeCallers, FutureStates
  <1>2. TypeThreads
    BY DEF Init, TypeThreads
  <1>3. TypePool
    BY DEF Init, TypePool
  <1>4. TypeAdmitted
    BY DEF Init, TypeAdmitted
  <1> QED  BY <1>1, <1>2, <1>3, <1>4 DEF TypeInv

(* The first half of an admission, shared by Admit and SchedRaises.        *)
LEMMA PlaceType ==
  ASSUME TypeInv, NEW put \in Placements(Taken), Place(put),
         UNCHANGED <<call, text, queue, prodHand, schedHand>>
  PROVE  /\ TypeCallers' /\ TypeAdmitted'
         /\ slotAudio' \in [Slots -> Reqs \cup {NoReq}]
         /\ slotPrompt' \in [Slots -> Reqs \cup {NoReq}]
         /\ slotCap' \in [Slots -> Nat]
  <1> USE DEF TypeInv
  <1>1. /\ \A s \in Filled(put) : put[s] \in Admitted
        /\ \A s \in Started(put) : s \in Slots /\ put[s] \in Admitted
    BY PlacementFacts DEF TypeAdmitted, Filled
  <1>2. TypeCallers'
    BY DEF Place, TypeCallers, FutureStates
  <1>3. TypeAdmitted'
    <2>1. Kept \in Seq(Admitted)
      BY TakeFacts DEF TypeAdmitted
    <2> QED  BY <1>1, <2>1 DEF Place, TypeAdmitted, Kept
  <1>4. /\ slotAudio' \in [Slots -> Reqs \cup {NoReq}]
        /\ slotPrompt' \in [Slots -> Reqs \cup {NoReq}]
    BY <1>1 DEF Place, Copy, TypePool, PromptRows, Admitted
  <1>5. slotCap' \in [Slots -> Nat]
    BY <1>1, CapFacts DEF Place, Copy, TypePool, Admitted
  <1> QED  BY <1>2, <1>3, <1>4, <1>5

(* An admission cut short in its copy loop.                                *)
LEMMA CopyType ==
  ASSUME TypeInv, CopyRaises, UNCHANGED <<queue, prodHand>>
  PROVE  TypeCallers' /\ TypePool' /\ TypeAdmitted'
  <1> USE DEF TypeInv
  <1>1. PICK n \in 0 .. NTake : \E put \in Placements(SubSeq(staged, 1, n)) :
          /\ Copy(put)
          /\ schedHand' = SubSeq(staged, n + 1, NTake)
          /\ slotReq' = [s \in Slots |-> IF s \in Filled(put) THEN put[s] ELSE slotReq[s]]
    BY DEF CopyRaises
  <1>2. PICK put \in Placements(SubSeq(staged, 1, n)) :
          /\ Copy(put)
          /\ schedHand' = SubSeq(staged, n + 1, NTake)
          /\ slotReq' = [s \in Slots |-> IF s \in Filled(put) THEN put[s] ELSE slotReq[s]]
    BY <1>1
  <1>3. staged' = Kept /\ UNCHANGED <<callers, slotPrompt, alive, finished, slotPos, aliveSet,
                                      posMirror, sinceEvict>>
    BY DEF CopyRaises, Kept
  <1>4. Kept \in Seq(Admitted) /\ n \in 0 .. Len(staged) /\ NTake \in 0 .. Len(staged)
        /\ staged \in Seq(Admitted)
    BY TakeFacts DEF TypeAdmitted
  <1>5. \A s \in Filled(put) : put[s] \in Admitted
    <2>1. ToSet(SubSeq(staged, 1, n)) \subseteq Admitted
      BY <1>4, SplitFacts, ToSetType
    <2> QED  BY <1>2, <2>1 DEF Placements, Filled
  <1>6. SubSeq(staged, n + 1, NTake) \in Seq(Admitted)
    BY <1>4
  <1>7. slotAudio' \in [Slots -> Reqs \cup {NoReq}] /\ slotCap' \in [Slots -> Nat]
    BY <1>2, <1>5, CapFacts DEF Copy, TypePool, Admitted
  <1>8. slotReq' \in [Slots -> Admitted \cup {NoReq}]
    BY <1>2, <1>5 DEF TypeAdmitted
  <1>9. TypeCallers'
    BY <1>3 DEF TypeCallers, callers
  <1>10. TypePool'
    BY <1>3, <1>7, <1>8 DEF TypePool, Admitted
  <1>11. TypeAdmitted'
    BY <1>2, <1>3, <1>4, <1>6, <1>8 DEF TypeAdmitted, callers
  <1> QED  BY <1>9, <1>10, <1>11

(* The rows of an eviction, shared by Evict and SchedRaises.               *)
LEMMA RowsType ==
  ASSUME TypeInv, NEW bad \in SUBSET (alive \cap finished),
         CollectRows(alive \cap finished, bad), UNCHANGED call
  PROVE  /\ TypeCallers' /\ slotReq' \in [Slots -> Admitted \cup {NoReq}]
         /\ posMirror' \in [Slots -> Nat] /\ aliveSet' \subseteq Slots
  <1> USE DEF TypeInv
  <1>1. /\ \A d \in Slots : slotAudio[d] \in Reqs \cup {NoReq}
                             /\ slotPrompt[d] \in Reqs \cup {NoReq}
        /\ alive \cap finished \subseteq Slots
    BY DEF TypePool
  <1>2. text' \in [Reqs -> SUBSET (Reqs \cup {NoReq})]
    BY <1>1 DEF CollectRows, TypeCallers
  <1>3. TypeCallers'
    BY <1>2 DEF CollectRows, TypeCallers, FutureStates
  <1>4. slotReq' \in [Slots -> Admitted \cup {NoReq}]
    BY DEF CollectRows, TypeAdmitted
  <1>5. posMirror' \in [Slots -> Nat] /\ aliveSet' \subseteq Slots
    BY DEF CollectRows, TypePool
  <1> QED  BY <1>3, <1>4, <1>5

LEMMA TypeStep == TypeInv /\ [Next]_vars => TypeInv'
  <1> SUFFICES ASSUME TypeInv, [Next]_vars PROVE TypeInv'
    OBVIOUS
  <1> USE DEF TypeInv
  <1>1. ASSUME NEW r \in Reqs, SubmitRefused(r) PROVE TypeInv'
    <2>1. TypeCallers'
      BY <1>1 DEF SubmitRefused, TypeCallers, FutureStates
    <2>2. TypeThreads' /\ TypePool'
      BY <1>1 DEF SubmitRefused, TypeThreads, TypePool, sched, producer, flags, pool,
                  device, host
    <2>3. TypeAdmitted'
      BY <1>1 DEF SubmitRefused, TypeAdmitted, TypeCallers, sched, producer, pool, host
    <2> QED  BY <2>1, <2>2, <2>3
  <1>2. ASSUME NEW r \in Reqs, SubmitChecked(r) PROVE TypeInv'
    <2>1. TypeCallers'
      BY <1>2 DEF SubmitChecked, TypeCallers, FutureStates
    <2>2. TypeThreads' /\ TypePool'
      BY <1>2 DEF SubmitChecked, TypeThreads, TypePool, sched, producer, flags, pool,
                  device, host
    <2>3. TypeAdmitted'
      BY <1>2 DEF SubmitChecked, TypeAdmitted, TypeCallers, Admitted, sched, producer,
                  pool, host
    <2> QED  BY <2>1, <2>2, <2>3
  <1>3. ASSUME NEW r \in Reqs, SubmitPut(r) PROVE TypeInv'
    <2>1. TypeCallers'
      BY <1>3 DEF SubmitPut, TypeCallers
    <2>2. TypeThreads' /\ TypePool'
      BY <1>3 DEF SubmitPut, TypeThreads, TypePool, sched, producer, flags, pool,
                  device, host
    <2>3. TypeAdmitted'
      <3>1. r \in Admitted /\ queue' \in Seq(Admitted)
        BY <1>3, AppendFacts DEF SubmitPut, TypeAdmitted
      <3> QED  BY <1>3, <3>1 DEF SubmitPut, TypeAdmitted, TypeCallers, sched, producer,
                                 pool, host
    <2> QED  BY <2>1, <2>2, <2>3
  <1>4. ASSUME Close PROVE TypeInv'
    BY <1>4 DEF Close, TypeCallers, TypeThreads, TypePool, TypeAdmitted, callers, sched,
                producer, pool, device, host
  <1>5. ASSUME Producer PROVE TypeInv'
    <2>1. CASE ProducerStop \/ ProducerCheckBacklog \/ ProducerDies
      <3>1. TypeCallers' /\ TypePool' /\ TypeAdmitted'
        BY <2>1 DEF ProducerStop, ProducerCheckBacklog, ProducerDies, TypeCallers,
                    TypePool, TypeAdmitted, callers, sched, pool, device, host
      <3>2. TypeThreads'
        BY <2>1 DEF ProducerStop, ProducerCheckBacklog, ProducerDies, TypeThreads, sched,
                    flags
      <3> QED  BY <3>1, <3>2
    <2>2. CASE ProducerDrain
      <3>1. TypeCallers' /\ TypePool' /\ TypeThreads'
        BY <2>2 DEF ProducerDrain, TypeCallers, TypePool, TypeThreads, callers, sched,
                    pool, device, host, flags
      <3>2. prodHand' \in Seq(Admitted) /\ queue' \in Seq(Admitted)
        BY <2>2, DrainFacts DEF ProducerDrain, TypeAdmitted
      <3> QED  BY <2>2, <3>1, <3>2 DEF ProducerDrain, TypeAdmitted, callers, sched, pool,
                                       host
    <2>3. CASE ProducerEncode
      <3>1. TypeCallers' /\ TypePool' /\ TypeThreads'
        BY <2>3 DEF ProducerEncode, TypeCallers, TypePool, TypeThreads, callers, sched,
                    pool, device, host, flags
      <3>2. staged' \in Seq(Admitted)
        BY <2>3, ConcatFacts DEF ProducerEncode, StagedWith, TypeAdmitted
      <3> QED  BY <2>3, <3>1, <3>2 DEF ProducerEncode, TypeAdmitted, callers, sched, pool,
                                       host
    <2> QED  BY <1>5, <2>1, <2>2, <2>3 DEF Producer
  <1>6. ASSUME Scheduler PROVE TypeInv'
    <2>1. CASE SchedStart \/ SchedLoop \/ DyingDone
      <3>1. TypeCallers' /\ TypePool' /\ TypeAdmitted'
        BY <2>1 DEF SchedStart, SchedLoop, DyingDone, TypeCallers, TypePool, TypeAdmitted,
                    callers, producer, pool, device, host
      <3>2. TypeThreads'
        BY <2>1 DEF SchedStart, SchedLoop, DyingDone, TypeThreads, producer, flags
      <3> QED  BY <3>1, <3>2
    <2>2. CASE SchedShutdown
      <3>1. TypeCallers'
        BY <2>2 DEF SchedShutdown, TypeCallers, FutureStates
      <3>2. TypePool' /\ TypeThreads' /\ TypeAdmitted'
        BY <2>2 DEF SchedShutdown, TypePool, TypeThreads, TypeAdmitted, producer, pool,
                    device, host, flags
      <3> QED  BY <3>1, <3>2
    <2>3. CASE InlineDrain
      <3>1. TypeCallers' /\ TypePool' /\ TypeThreads'
        BY <2>3 DEF InlineDrain, TypeCallers, TypePool, TypeThreads, callers, producer,
                    pool, device, host, flags
      <3>2. Lesser(Cardinality(Free), AdmitBatch) \in Nat
        BY TakeFacts DEF Lesser, TypeAdmitted
      <3>3. schedHand' \in Seq(Admitted) /\ queue' \in Seq(Admitted)
        BY <2>3, <3>2, DrainFacts DEF InlineDrain, TypeAdmitted
      <3> QED  BY <2>3, <3>1, <3>3 DEF InlineDrain, TypeAdmitted, callers, producer, pool,
                                       host
    <2>4. CASE InlineEncode
      <3>1. TypeCallers' /\ TypePool' /\ TypeThreads'
        BY <2>4 DEF InlineEncode, TypeCallers, TypePool, TypeThreads, callers, producer,
                    pool, device, host, flags
      <3>2. staged' \in Seq(Admitted)
        BY <2>4, ConcatFacts DEF InlineEncode, StagedWith, TypeAdmitted
      <3> QED  BY <2>4, <3>1, <3>2 DEF InlineEncode, TypeAdmitted, callers, producer, pool,
                                       host
    <2>5. CASE Admit
      <3>1. PICK put \in Placements(Taken) : Place(put) /\ Prefill(Started(put))
        BY <2>5 DEF Admit, Taken
      <3>2. TypeCallers' /\ TypeAdmitted' /\ slotAudio' \in [Slots -> Reqs \cup {NoReq}]
            /\ slotPrompt' \in [Slots -> Reqs \cup {NoReq}] /\ slotCap' \in [Slots -> Nat]
        BY <2>5, <3>1, PlaceType DEF Admit, producer
      <3>3. TypePool'
        <4>1. Started(put) \subseteq Slots
          BY <3>1, PlacementFacts DEF TypeAdmitted
        <4> QED  BY <2>5, <3>1, <3>2, <4>1 DEF Admit, Prefill, TypePool, TypeAdmitted,
                                               Admitted
      <3>4. TypeThreads'
        BY <2>5 DEF Admit, TypeThreads, producer, flags
      <3> QED  BY <3>2, <3>3, <3>4
    <2>6. CASE Idle
      <3>1. TypeCallers' /\ TypePool' /\ TypeThreads'
        BY <2>6 DEF Idle, TypeCallers, TypePool, TypeThreads, callers, producer, pool,
                    device, host, flags
      <3>2. queue' \in Seq(Admitted) /\ schedHand' \in Seq(Admitted)
        <4>1. CASE overlap \/ queue = <<>>
          BY <2>6, <4>1 DEF Idle, TypeAdmitted
        <4>2. CASE ~(overlap \/ queue = <<>>)
          <5>1. Head(queue) \in Admitted /\ Tail(queue) \in Seq(Admitted)
            BY <4>2, HeadTailFacts DEF TypeAdmitted
          <5>2. <<Head(queue)>> \in Seq(Admitted)
            BY <5>1
          <5> QED  BY <2>6, <4>2, <5>1, <5>2 DEF Idle
        <4> QED  BY <4>1, <4>2
      <3> QED  BY <2>6, <3>1, <3>2 DEF Idle, TypeAdmitted, callers, producer, pool, host
    <2>7. CASE IdlePutBack
      <3>1. TypeCallers' /\ TypePool' /\ TypeThreads'
        BY <2>7 DEF IdlePutBack, TypeCallers, TypePool, TypeThreads, callers, producer,
                    pool, device, host, flags
      <3>2. queue' \in Seq(Admitted)
        BY <2>7, ConcatFacts DEF IdlePutBack, QueueAfterPutBack, TypeAdmitted
      <3> QED  BY <2>7, <3>1, <3>2 DEF IdlePutBack, TypeAdmitted, callers, producer, pool,
                                       host
    <2>8. CASE Decode
      <3>1. TypeCallers' /\ TypeThreads' /\ TypeAdmitted'
        BY <2>8 DEF Decode, TypeCallers, TypeThreads, TypeAdmitted, callers, producer, flags
      <3>2. PICK ends \in SUBSET (alive \ finished) : Step(ends)
        BY <2>8 DEF Decode
      <3>3. sinceEvict' \in 0 .. EvictEvery - 1
        BY <3>2 DEF Step, StepsSinceEvict, TypePool
      <3>4. \A s \in Slots : Advance(slotPos[s], s \in alive \ finished, LAlloc) \in Nat
        BY CapFacts DEF Advance, Lesser, TypePool
      <3>5. slotPos' \in [Slots -> Nat] /\ posMirror' \in [Slots -> Nat]
        BY <3>2, <3>4 DEF Step, TypePool
      <3>6. finished' \subseteq Slots
        BY <3>2 DEF Step, TypePool
      <3> QED  BY <2>8, <3>1, <3>3, <3>5, <3>6 DEF Decode, TypePool
    <2>9. CASE Evict
      <3>1. PICK bad \in SUBSET (alive \cap finished) : Collect(alive \cap finished, bad)
        BY <2>9 DEF Evict
      <3>2. UNCHANGED <<call, queue, staged, prodHand, prodPc, schedHand>>
        BY <2>9 DEF Evict, producer
      <3>3. /\ TypeCallers' /\ slotReq' \in [Slots -> Admitted \cup {NoReq}]
            /\ posMirror' \in [Slots -> Nat] /\ aliveSet' \subseteq Slots
        BY <3>1, <3>2, RowsType DEF Collect
      <3>4. TypePool'
        BY <2>9, <3>1, <3>3 DEF Evict, Collect, LatchAfter, TypePool, Admitted
      <3>5. TypeThreads' /\ TypeAdmitted'
        BY <2>9, <3>2, <3>3 DEF Evict, TypeThreads, TypeAdmitted, flags
      <3> QED  BY <3>3, <3>4, <3>5
    <2>10. CASE SchedRaises
      <3>1. TypeThreads' /\ UNCHANGED <<queue, prodHand>>
        BY <2>10 DEF SchedRaises, TypeThreads, producer
      <3>2. CASE UNCHANGED <<callers, staged, schedHand, pool>>
        BY <2>10, <3>1, <3>2 DEF TypeCallers, TypePool, TypeAdmitted, callers, pool, device,
                                 host
      <3>3. CASE CopyRaises
        BY <3>1, <3>3, CopyType
      <3>4. CASE PrefillRaises
        <4>1. PICK put \in Placements(Taken) : Place(put)
          BY <3>4 DEF PrefillRaises, Taken
        <4>2. UNCHANGED <<call, text, schedHand, alive, finished, slotPos, aliveSet, posMirror,
                          sinceEvict>>
          BY <3>4 DEF PrefillRaises
        <4>3. TypeCallers' /\ TypeAdmitted' /\ slotAudio' \in [Slots -> Reqs \cup {NoReq}]
              /\ slotPrompt' \in [Slots -> Reqs \cup {NoReq}] /\ slotCap' \in [Slots -> Nat]
          BY <3>1, <4>1, <4>2, PlaceType
        <4>4. TypePool'
          BY <4>2, <4>3 DEF TypePool, TypeAdmitted, Admitted
        <4> QED  BY <3>1, <4>3, <4>4
      <3>5. CASE ResetRaises
        <4>1. PICK bad \in SUBSET (alive \cap finished) :
                CollectRows(alive \cap finished, bad)
          BY <3>5 DEF ResetRaises
        <4>2. UNCHANGED <<call, staged, schedHand, device, sinceEvict>>
          BY <3>5 DEF ResetRaises
        <4> QED  BY <3>1, <4>1, <4>2, RowsType DEF TypePool, TypeAdmitted, Admitted, device
      <3> QED  BY <2>10, <3>1, <3>2, <3>3, <3>4, <3>5 DEF SchedRaises
    <2>11. CASE DyingFailQueued
      <3>1. Head(queue) \in Admitted /\ Tail(queue) \in Seq(Admitted)
        BY <2>11, HeadTailFacts DEF DyingFailQueued, TypeAdmitted
      <3>2. TypeCallers'
        BY <2>11, <3>1 DEF DyingFailQueued, TypeCallers, FutureStates
      <3>3. TypePool' /\ TypeThreads'
        BY <2>11 DEF DyingFailQueued, TypePool, TypeThreads, producer, sched, pool, device,
                     host, flags
      <3>4. TypeAdmitted'
        BY <2>11, <3>1 DEF DyingFailQueued, TypeAdmitted, producer, sched, pool, host
      <3> QED  BY <3>2, <3>3, <3>4
    <2> QED  BY <1>6, <2>1, <2>2, <2>3, <2>4, <2>5, <2>6, <2>7, <2>8, <2>9, <2>10, <2>11
             DEF Scheduler
  <1>7. CASE UNCHANGED vars
    BY <1>7 DEF vars, TypeCallers, TypeThreads, TypePool, TypeAdmitted, callers, producer,
                sched, pool, device, host, flags
  <1> QED  BY <1>1, <1>2, <1>3, <1>4, <1>5, <1>6, <1>7 DEF Next, Session

(* Type correctness of every reachable state.                              *)
THEOREM TypeCorrect == Spec => []TypeOK
  <1>1. TypeInv => TypeOK
    <2>1. Seq(Admitted) \subseteq Seq(Reqs)
      BY DEF Admitted
    <2> QED  BY <2>1 DEF TypeInv, TypeOK, TypeQueues, TypeAdmitted
  <1> QED  BY <1>1, TypeInit, TypeStep, PTL DEF Spec
-----------------------------------------------------------------------------
(* The pool.  HostMatchesDevice is not inductive: that a running slot's    *)
(* mirror is exact until the slot finishes needs its position to be below  *)
(* its cap, and the cap to be that of the request in the slot.             *)

\* Steps taken since the last eviction, counting the one about to evict.
Lag == IF schedPc = "evict" THEN EvictEvery ELSE sinceEvict

SlotInv(s) ==
    /\ slotReq[s] \in Admitted
    /\ slotAudio[s] = slotReq[s] /\ slotPrompt[s] = slotReq[s]
    /\ slotCap[s] = CapTotal(EncLen[slotReq[s]])
    /\ s \notin finished =>
         slotPos[s] + 1 < slotCap[s] /\ posMirror[s] = slotPos[s]
    /\ s \in finished =>
         /\ slotPos[s] <= LAlloc
         /\ slotPos[s] <= posMirror[s] /\ posMirror[s] <= slotPos[s] + Lag

PoolInv ==
    schedPc \notin {"dying", "dead"} =>
        /\ aliveSet = alive /\ finished \subseteq alive
        /\ alive = {s \in Slots : slotReq[s] # NoReq}
        /\ \A s \in alive : SlotInv(s)
        /\ sinceEvict = 0 /\ schedPc # "evict" => finished = {}

LEMMA PoolInit == Init => PoolInv
  BY DEF Init, PoolInv

(* Steps that do not touch the pool keep PoolInv; the eviction point may   *)
(* only be left through Evict and entered through Decode.                  *)
LEMMA PoolUntouched ==
  ASSUME PoolInv, UNCHANGED pool,
         schedPc' \in {"dying", "dead"} \/
           (schedPc \notin {"dying", "dead"} /\ (schedPc = "evict" <=> schedPc' = "evict"))
  PROVE  PoolInv'
  BY DEF PoolInv, SlotInv, Lag, pool, device, host

LEMMA AdmitPool ==
  ASSUME TypeInv, TypeInv', PoolInv, Admit PROVE PoolInv'
  <1>1. PICK put \in Placements(Taken) : Place(put) /\ Prefill(Started(put))
    BY DEF Admit, Taken
  <1>2. /\ schedPc = "admit" /\ schedPc' = "decide"
        /\ UNCHANGED <<finished, sinceEvict>>
    BY DEF Admit
  <1>3. /\ Started(put) \subseteq Free /\ Free \subseteq Slots
        /\ \A s \in Started(put) : put[s] \in Admitted /\ put[s] # NoReq
    BY PlacementFacts DEF TypeInv, TypeAdmitted, Started
  <1>4. /\ aliveSet = alive /\ finished \subseteq alive
        /\ alive = {s \in Slots : slotReq[s] # NoReq}
        /\ \A s \in alive : SlotInv(s)
        /\ sinceEvict = 0 => finished = {}
    BY <1>2 DEF PoolInv
  <1>5. /\ alive' = alive \cup Started(put) /\ aliveSet' = alive'
        /\ alive' = {s \in Slots : slotReq'[s] # NoReq}
    BY <1>1, <1>3, <1>4 DEF Place, Prefill, Free, TypeInv, TypePool
  <1>6. ASSUME NEW s \in Started(put) PROVE SlotInv(s)'
    <2>1. /\ slotReq'[s] = put[s] /\ slotAudio'[s] = put[s] /\ slotPrompt'[s] = put[s]
          /\ slotCap'[s] = CapTotal(EncLen[put[s]])
          /\ slotPos'[s] = PromptLen /\ posMirror'[s] = PromptLen
          /\ s \notin finished'
      <3>1. s \in Slots /\ s \in Free /\ s \in Filled(put) /\ s \notin finished
        BY <1>3, <1>4, <1>6 DEF Filled, Free
      <3> QED  BY <1>1, <1>2, <1>6, <3>1 DEF Place, Copy, Prefill, PromptRows
    <2>2. put[s] \in Admitted /\ put[s] \in Reqs
      BY <1>3, <1>6 DEF Admitted
    <2> QED  BY <2>1, <2>2, CapFacts DEF SlotInv
  <1>7. ASSUME NEW s \in alive PROVE SlotInv(s)'
    <2>1. s \in Slots /\ s \notin Free
      BY <1>4, <1>7 DEF Free
    <2>2. s \notin Started(put)
      BY <1>3, <2>1
    <2>3. /\ slotReq'[s] = slotReq[s] /\ slotAudio'[s] = slotAudio[s]
          /\ slotPrompt'[s] = slotPrompt[s] /\ slotCap'[s] = slotCap[s]
      BY <1>1, <2>1, <2>2 DEF Place, Copy, Filled, PromptRows, TypeInv, TypePool
    <2>4. slotPos'[s] = slotPos[s] /\ posMirror'[s] = posMirror[s]
      BY <1>1, <2>1, <2>2 DEF Prefill, TypeInv, TypePool
    <2> QED  BY <1>2, <1>4, <1>7, <2>3, <2>4 DEF SlotInv, Lag
  <1> QED  BY <1>2, <1>4, <1>5, <1>6, <1>7 DEF PoolInv

LEMMA DecodePoolStep ==
  ASSUME TypeInv, TypeInv', PoolInv, Decode PROVE PoolInv'
  <1>1. PICK ends \in SUBSET (alive \ finished) : Step(ends)
    BY DEF Decode
  <1>2. /\ schedPc = "decide" /\ schedPc' = IF sinceEvict' = 0 THEN "evict" ELSE "loop"
        /\ UNCHANGED <<slotReq, slotAudio, slotPrompt, slotCap, alive, aliveSet>>
    BY DEF Decode
  <1>3. /\ aliveSet = alive /\ finished \subseteq alive /\ alive \subseteq Slots
        /\ alive = {s \in Slots : slotReq[s] # NoReq}
        /\ \A s \in alive : SlotInv(s)
    BY <1>2 DEF PoolInv, TypeInv, TypePool
  <1>4. Lag = sinceEvict /\ Lag' = sinceEvict + 1 /\ Lag' \in Nat
    <2>1. sinceEvict \in 0 .. EvictEvery - 1 /\ EvictEvery \in Nat \ {0}
      BY DEF TypeInv, TypePool
    <2>2. sinceEvict' = (sinceEvict + 1) % EvictEvery
      BY <1>1 DEF Step, StepsSinceEvict
    <2>3. sinceEvict' = IF sinceEvict + 1 = EvictEvery THEN 0 ELSE sinceEvict + 1
      BY <2>1, <2>2
    <2> QED  BY <1>2, <2>1, <2>3 DEF Lag
  <1>5. finished' \subseteq alive'
    BY <1>1, <1>2, <1>3 DEF Step
  <1>6. ASSUME NEW s \in alive PROVE SlotInv(s)'
    <2>1. /\ slotPos'[s] = IF s \in finished THEN Lesser(slotPos[s], LAlloc)
                                              ELSE Lesser(slotPos[s] + 1, LAlloc)
          /\ posMirror'[s] = posMirror[s] + 1
          /\ s \in finished => s \in finished'
          /\ s \notin finished' => ~(Lesser(slotPos[s] + 1, LAlloc) + 1 >= slotCap[s])
      <3>1. s \in Slots /\ s \in aliveSet
        BY <1>3, <1>6
      <3>2. posMirror'[s] = posMirror[s] + 1
        BY <1>1, <3>1 DEF Step
      <3>3. slotPos'[s] = IF s \in finished THEN Lesser(slotPos[s], LAlloc)
                                            ELSE Lesser(slotPos[s] + 1, LAlloc)
        BY <1>1, <1>6, <3>1 DEF Step, Advance
      <3>4. finished' = finished \cup
              {t \in alive \ finished :
                 \/ t \in ends
                 \/ (IF t \in alive \ finished THEN Lesser(slotPos[t] + 1, LAlloc)
                                              ELSE Lesser(slotPos[t], LAlloc)) + 1 >= slotCap[t]}
        BY <1>1 DEF Step, Advance, Hits
      <3> QED  BY <1>6, <3>2, <3>3, <3>4
    <2>2. /\ slotPos[s] \in Nat /\ posMirror[s] \in Nat /\ slotCap[s] \in Nat
          /\ LAlloc \in Nat /\ slotCap[s] <= LAlloc /\ sinceEvict \in Nat
          /\ slotReq[s] \in Admitted
      BY <1>3, <1>6, CapFacts DEF SlotInv, TypeInv, TypePool, Admitted
    <2>3. CASE s \in finished
      <3>1. slotPos[s] <= LAlloc
        BY <1>3, <1>6, <2>3 DEF SlotInv
      <3>2. s \in finished' /\ slotPos'[s] = slotPos[s] /\ posMirror'[s] = posMirror[s] + 1
        BY <2>1, <2>2, <2>3, <3>1 DEF Lesser
      <3>3. SlotInv(s)
        BY <1>3, <1>6
      <3>4. /\ slotPos[s] <= LAlloc /\ slotPos[s] <= posMirror[s]
            /\ posMirror[s] <= slotPos[s] + sinceEvict
        BY <1>4, <2>3, <3>3 DEF SlotInv
      <3>5. /\ slotPos'[s] <= LAlloc /\ slotPos'[s] <= posMirror'[s]
            /\ posMirror'[s] <= slotPos'[s] + Lag'
        BY <1>4, <2>2, <3>2, <3>4
      <3> QED  BY <1>2, <3>2, <3>3, <3>5 DEF SlotInv
    <2>4. CASE s \notin finished
      <3>1. slotPos[s] + 1 < slotCap[s] /\ posMirror[s] = slotPos[s]
        BY <1>3, <1>6, <2>4 DEF SlotInv
      <3>2. Lesser(slotPos[s] + 1, LAlloc) = slotPos[s] + 1
        BY <2>2, <3>1 DEF Lesser
      <3>3. slotPos'[s] = slotPos[s] + 1 /\ posMirror'[s] = slotPos'[s]
        BY <2>1, <2>4, <3>1, <3>2
      <3>4. s \notin finished' => slotPos'[s] + 1 < slotCap[s]
        BY <2>1, <2>2, <3>2, <3>3
      <3> QED  BY <1>2, <1>3, <1>4, <1>6, <2>1, <2>2, <3>1, <3>2, <3>3, <3>4 DEF SlotInv
    <2> QED  BY <2>3, <2>4
  <1> QED  BY <1>2, <1>3, <1>5, <1>6 DEF PoolInv

LEMMA EvictPool ==
  ASSUME TypeInv, TypeInv', PoolInv, Evict PROVE PoolInv'
  <1>1. PICK bad \in SUBSET (alive \cap finished) : Collect(alive \cap finished, bad)
    BY DEF Evict
  <1>2. /\ schedPc = "evict" /\ schedPc' = "loop"
        /\ UNCHANGED <<slotAudio, slotPrompt, sinceEvict>>
    BY DEF Evict
  <1>3. /\ aliveSet = alive /\ finished \subseteq alive /\ alive \subseteq Slots
        /\ alive = {s \in Slots : slotReq[s] # NoReq}
        /\ \A s \in alive : SlotInv(s)
    BY <1>2 DEF PoolInv, TypeInv, TypePool
  <1>4. /\ alive' = alive \ finished /\ finished' = {} /\ aliveSet' = alive'
        /\ alive' = {s \in Slots : slotReq'[s] # NoReq}
    BY <1>1, <1>3 DEF Collect, CollectRows, LatchAfter, TypeInv, TypePool
  <1>5. ASSUME NEW s \in alive' PROVE SlotInv(s)'
    <2>1. s \in alive /\ s \notin finished /\ s \in Slots
      BY <1>3, <1>4, <1>5
    <2>2. /\ slotReq'[s] = slotReq[s] /\ slotCap'[s] = slotCap[s]
          /\ slotPos'[s] = slotPos[s] /\ posMirror'[s] = posMirror[s]
      BY <1>1, <2>1 DEF Collect, CollectRows, TypeInv, TypePool
    <2> QED  BY <1>2, <1>3, <1>4, <2>1, <2>2 DEF SlotInv
  <1> QED  BY <1>4, <1>5 DEF PoolInv

LEMMA PoolStep == TypeInv /\ TypeInv' /\ PoolInv /\ [Next]_vars => PoolInv'
  <1> SUFFICES ASSUME TypeInv, TypeInv', PoolInv, [Next]_vars PROVE PoolInv'
    OBVIOUS
  <1>1. ASSUME NEW r \in Reqs, Session(r) PROVE PoolInv'
    BY <1>1, PoolUntouched DEF Session, SubmitRefused, SubmitChecked, SubmitPut, sched, PoolInv
  <1>2. CASE Close
    BY <1>2, PoolUntouched DEF Close, sched, PoolInv
  <1>3. CASE Producer
    BY <1>3, PoolUntouched DEF Producer, ProducerStop, ProducerCheckBacklog,
       ProducerDrain, ProducerEncode, ProducerDies, sched, PoolInv
  <1>4. CASE SchedStart \/ SchedLoop \/ SchedShutdown \/ InlineDrain \/ InlineEncode
             \/ Idle \/ IdlePutBack \/ DyingFailQueued \/ DyingDone
    <2>1. UNCHANGED pool
      BY <1>4 DEF SchedStart, SchedLoop, SchedShutdown, InlineDrain, InlineEncode, Idle,
                  IdlePutBack, DyingFailQueued, DyingDone
    <2>2. schedPc' \in {"dying", "dead"} \/
            (schedPc \notin {"dying", "dead"} /\ schedPc # "evict" /\ schedPc' # "evict")
      BY <1>4 DEF SchedStart, SchedLoop, SchedShutdown, InlineDrain, InlineEncode, Idle,
                  IdlePutBack, DyingFailQueued, DyingDone, sched
    <2> QED  BY <2>1, <2>2, PoolUntouched
  <1>5. CASE Admit
    BY <1>5, AdmitPool
  <1>6. CASE Decode
    BY <1>6, DecodePoolStep
  <1>7. CASE Evict
    BY <1>7, EvictPool
  <1>8. CASE SchedRaises
    BY <1>8 DEF SchedRaises, PoolInv
  <1>9. CASE UNCHANGED vars
    <2>1. UNCHANGED pool /\ UNCHANGED schedPc
      BY <1>9 DEF vars, sched
    <2> QED  BY <2>1 DEF PoolInv, SlotInv, Lag, pool, device, host
  <1> QED  BY <1>1, <1>2, <1>3, <1>4, <1>5, <1>6, <1>7, <1>8, <1>9 DEF Next, Scheduler

LEMMA PoolAlways == Spec => [](TypeInv /\ PoolInv)
  BY TypeInit, TypeStep, PoolInit, PoolStep, PTL DEF Spec

(* Whatever the pool's size and eviction period, the scheduler's host-side *)
(* bookkeeping between two iterations agrees with the device.              *)
THEOREM HostView == Spec => []HostMatchesDevice
  <1>1. TypeInv /\ PoolInv => HostMatchesDevice
    <2> SUFFICES ASSUME TypeInv, PoolInv,
                        schedPc \in {"loop", "drain", "admit", "decide", "exited"}
                 PROVE  /\ aliveSet = alive /\ finished \subseteq alive
                        /\ alive = {s \in Slots : slotReq[s] # NoReq}
                        /\ \A s \in alive :
                             /\ slotAudio[s] = slotReq[s] /\ slotPrompt[s] = slotReq[s]
                             /\ slotPos[s] <= posMirror[s]
                             /\ posMirror[s] <= slotPos[s] + sinceEvict
      BY DEF HostMatchesDevice
    <2>1. Lag = sinceEvict /\ sinceEvict \in Nat
      BY DEF Lag, TypeInv, TypePool
    <2>2. \A s \in alive : slotPos[s] \in Nat /\ posMirror[s] \in Nat /\ SlotInv(s)
      BY DEF PoolInv, TypeInv, TypePool
    <2> QED  BY <2>1, <2>2 DEF PoolInv, SlotInv
  <1> QED  BY <1>1, PoolAlways, PTL

(* With eviction after every step, no step of any pool leaves the position *)
(* table or the allocated columns: the source's "no request can ever       *)
(* exceed them".                                                           *)
THEOREM StepsFit == Spec => []StepFitsPool
  <1>1. TypeInv /\ PoolInv => StepFitsPool
    <2> SUFFICES ASSUME TypeInv, PoolInv, EvictEvery = 1, schedPc = "decide",
                        NEW s \in aliveSet
                 PROVE  /\ slotPos[s] < MaxPos
                        /\ slotPos[s] + 1 < slotCap[s] /\ slotCap[s] <= LAlloc
                        /\ KeyLen(posMirror[s] + 1, LAlloc) <= LAlloc
      BY DEF StepFitsPool
    <2>1. sinceEvict = 0
      BY DEF TypeInv, TypePool
    <2>2. s \in Slots /\ SlotInv(s) /\ s \notin finished
      BY <2>1 DEF PoolInv, TypeInv, TypePool
    <2>3. /\ slotPos[s] \in Nat /\ slotPos[s] + 1 < slotCap[s]
          /\ posMirror[s] = slotPos[s] /\ slotReq[s] \in Reqs
          /\ slotCap[s] = CapTotal(EncLen[slotReq[s]])
      BY <2>2 DEF SlotInv, TypeInv, TypePool, Admitted
    <2>4. /\ slotCap[s] \in Nat /\ slotCap[s] <= MaxPos + 1 /\ slotCap[s] <= LAlloc
          /\ LAlloc \in Nat
      BY <2>2, <2>3, CapFacts DEF SlotInv
    <2>5. RoundUp(posMirror[s] + 1) \in Int
      BY <2>3 DEF RoundUp
    <2>6. KeyLen(posMirror[s] + 1, LAlloc) <= LAlloc
      BY <2>3, <2>4, <2>5 DEF KeyLen, Greater, Lesser
    <2> QED  BY <2>3, <2>4, <2>6
  <1> QED  BY <1>1, PoolAlways, PTL
-----------------------------------------------------------------------------
(* Where every request is.  Somewhere and OnePlace need each other (a      *)
(* request that was only checked is nowhere yet, so put() cannot           *)
(* duplicate it), and both need a thread's hands to be empty whenever it   *)
(* is about to fill them.                                                  *)

Distinct ==
    /\ IsInjective(queue) /\ IsInjective(prodHand)
    /\ IsInjective(schedHand) /\ IsInjective(staged)
    /\ \A s, t \in Slots : slotReq[s] = slotReq[t] /\ slotReq[s] # NoReq => s = t

Apart ==
    /\ ToSet(queue) \cap ToSet(prodHand) = {}
    /\ ToSet(queue) \cap ToSet(schedHand) = {}
    /\ ToSet(queue) \cap ToSet(staged) = {}
    /\ ToSet(queue) \cap InSlots = {}
    /\ ToSet(prodHand) \cap ToSet(schedHand) = {}
    /\ ToSet(prodHand) \cap ToSet(staged) = {}
    /\ ToSet(prodHand) \cap InSlots = {}
    /\ ToSet(schedHand) \cap ToSet(staged) = {}
    /\ ToSet(schedHand) \cap InSlots = {}
    /\ ToSet(staged) \cap InSlots = {}

Calls ==
    \A r \in Reqs :
        /\ call[r] = "idle" => fut[r] = "none"
        /\ call[r] = "checked" => fut[r] = "pending"

Hands ==
    /\ prodPc \notin {"encode", "dead"} => prodHand = <<>>
    /\ schedPc \notin {"encode", "reput", "dying", "dead"} => schedHand = <<>>
    /\ schedPc = "start" => prodPc = "off"

Anywhere ==
    ToSet(queue) \cup ToSet(prodHand) \cup ToSet(schedHand) \cup ToSet(staged)
      \cup InSlots

Somewhere ==
    \A r \in Reqs :
        /\ call[r] = "returned" /\ fut[r] = "pending" => r \in Anywhere
        /\ r \in Anywhere =>
             call[r] = "returned" /\ (fut[r] = "pending" \/ schedPc = "exited")

PlaceInv == Distinct /\ Apart /\ Somewhere /\ Calls /\ Hands

LEMMA PlaceInit == Init => PlaceInv
  <1> SUFFICES ASSUME Init PROVE PlaceInv
    OBVIOUS
  <1>1. InSlots = {} /\ ToSet(<<>>) = {} /\ IsInjective(<<>>)
    BY ShortSeqFacts DEF Init, InSlots
  <1>2. Distinct /\ Apart
    BY <1>1 DEF Init, Distinct, Apart
  <1>3. Somewhere /\ Calls /\ Hands
    BY <1>1 DEF Init, Somewhere, Anywhere, Calls, Hands
  <1> QED  BY <1>2, <1>3 DEF PlaceInv

(* Steps that move no request and resolve no Future.                       *)
LEMMA PlaceUnmoved ==
  ASSUME PlaceInv, Hands', UNCHANGED <<call, fut, queue, staged, prodHand, schedHand, slotReq>>,
         schedPc = "exited" => schedPc' = "exited"
  PROVE  PlaceInv'
  BY DEF PlaceInv, Distinct, Apart, Somewhere, Anywhere, InSlots, Calls

(* Nothing is in the engine before put().                                  *)
LEMMA NotYetHeld ==
  ASSUME PlaceInv, NEW r \in Reqs, call[r] # "returned" PROVE r \notin Anywhere
  BY DEF PlaceInv, Somewhere

LEMMA SessionPlace ==
  ASSUME TypeInv, PlaceInv, NEW r \in Reqs, Session(r) PROVE PlaceInv'
  <1> USE DEF PlaceInv
  <1>1. CASE SubmitRefused(r) \/ SubmitChecked(r)
    <2>1. /\ call[r] = "idle"
          /\ UNCHANGED <<queue, staged, prodHand, schedHand, slotReq, prodPc, schedPc>>
      BY <1>1 DEF SubmitRefused, SubmitChecked, producer, sched, pool, host
    <2>2. Distinct' /\ Apart' /\ Hands' /\ Anywhere' = Anywhere
      BY <2>1 DEF Distinct, Apart, Hands, Anywhere, InSlots
    <2>3. r \notin Anywhere
      BY <2>1, NotYetHeld
    <2>4. /\ \A q \in Reqs : q # r => call'[q] = call[q] /\ fut'[q] = fut[q]
          /\ \/ call'[r] = "returned" /\ fut'[r] = "error"
             \/ call'[r] = "checked" /\ fut'[r] = "pending"
      BY <1>1 DEF SubmitRefused, SubmitChecked, TypeInv, TypeCallers
    <2>5. Somewhere' /\ Calls'
      BY <2>1, <2>2, <2>3, <2>4 DEF Somewhere, Calls
    <2> QED  BY <2>2, <2>5
  <1>2. CASE SubmitPut(r)
    <2>1. /\ call[r] = "checked" /\ queue' = Append(queue, r)
          /\ UNCHANGED <<fut, staged, prodHand, schedHand, slotReq, prodPc, schedPc>>
      BY <1>2 DEF SubmitPut, producer, sched, pool, host
    <2>2. r \notin Anywhere /\ r \in Admitted
      BY <2>1, NotYetHeld DEF TypeInv, TypeAdmitted
    <2>3. /\ ToSet(queue') = ToSet(queue) \cup {r}
          /\ IsInjective(queue) /\ r \notin ToSet(queue) => IsInjective(queue')
      BY <2>1, <2>2, AppendFacts DEF TypeInv, TypeAdmitted
    <2>4. Distinct'
      BY <2>1, <2>2, <2>3 DEF Distinct, Anywhere
    <2>5. Apart' /\ Anywhere' = Anywhere \cup {r}
      BY <2>1, <2>2, <2>3 DEF Apart, Anywhere, InSlots
    <2>6. /\ \A q \in Reqs : q # r => call'[q] = call[q]
          /\ call'[r] = "returned" /\ fut[r] = "pending"
      BY <1>2, <2>1 DEF SubmitPut, TypeInv, TypeCallers, Calls
    <2>7. Somewhere' /\ Calls'
      BY <2>1, <2>5, <2>6 DEF Somewhere, Calls
    <2>8. Hands'
      BY <2>1 DEF Hands
    <2> QED  BY <2>4, <2>5, <2>7, <2>8
  <1> QED  BY <1>1, <1>2 DEF Session

(* Steps that only move requests, keeping Anywhere and every Future.           *)
LEMMA PlaceMoved ==
  ASSUME PlaceInv, Distinct', Apart', Hands', Anywhere' = Anywhere, UNCHANGED <<call, fut>>,
         schedPc = "exited" => schedPc' = "exited"
  PROVE  PlaceInv'
  BY DEF PlaceInv, Somewhere, Calls

LEMMA ProducerPlace ==
  ASSUME TypeInv, PlaceInv, Producer PROVE PlaceInv'
  <1> USE DEF PlaceInv
  <1>1. CASE ProducerStop \/ ProducerCheckBacklog \/ ProducerDies
    <2>1. /\ UNCHANGED <<call, fut, queue, staged, prodHand, schedHand, slotReq, schedPc>>
          /\ Hands'
      BY <1>1 DEF ProducerStop, ProducerCheckBacklog, ProducerDies, callers, sched, pool,
                  host, Hands
    <2> QED  BY <2>1, PlaceUnmoved
  <1>2. CASE ProducerDrain
    <2>1. /\ prodPc = "drain" /\ prodHand = <<>>
          /\ prodHand' = Drained(AdmitBatch) /\ queue' = Remaining(AdmitBatch)
          /\ prodPc' = IF queue = <<>> THEN "poll" ELSE "encode"
          /\ UNCHANGED <<call, fut, staged, schedHand, slotReq, schedPc>>
      BY <1>2 DEF ProducerDrain, callers, sched, pool, host, Hands
    <2>2. /\ ToSet(prodHand') \cup ToSet(queue') = ToSet(queue)
          /\ IsInjective(prodHand') /\ IsInjective(queue')
          /\ ToSet(prodHand') \cap ToSet(queue') = {}
      BY <2>1, DrainFacts DEF TypeInv, TypeAdmitted, Distinct
    <2>3. ToSet(prodHand) = {}
      BY <2>1, ShortSeqFacts
    <2>4. Distinct' /\ Apart' /\ Anywhere' = Anywhere
      BY <2>1, <2>2, <2>3 DEF Distinct, Apart, Anywhere, InSlots
    <2>5. queue = <<>> => prodHand' = <<>>
      BY <2>1 DEF Drained, Lesser
    <2>6. Hands'
      BY <2>1, <2>5 DEF Hands
    <2> QED  BY <2>1, <2>4, <2>6, PlaceMoved
  <1>3. CASE ProducerEncode
    <2>1. /\ staged' = staged \o prodHand /\ prodHand' = <<>>
          /\ prodPc = "encode" /\ prodPc' = "poll"
          /\ UNCHANGED <<call, fut, queue, schedHand, slotReq, schedPc>>
      BY <1>3 DEF ProducerEncode, StagedWith, callers, sched, pool, host
    <2>2. /\ ToSet(staged') = ToSet(staged) \cup ToSet(prodHand)
          /\ IsInjective(staged')
      BY <2>1, ConcatFacts DEF TypeInv, TypeAdmitted, Distinct, Apart
    <2>3. ToSet(prodHand') = {} /\ IsInjective(prodHand')
      BY <2>1, ShortSeqFacts
    <2>4. Distinct' /\ Apart' /\ Anywhere' = Anywhere
      BY <2>1, <2>2, <2>3 DEF Distinct, Apart, Anywhere, InSlots
    <2>5. Hands'
      BY <2>1 DEF Hands
    <2> QED  BY <2>1, <2>4, <2>5, PlaceMoved
  <1> QED  BY <1>1, <1>2, <1>3 DEF Producer
LEMMA SchedulerMoves ==
  ASSUME TypeInv, PlaceInv, InlineDrain \/ InlineEncode \/ Idle \/ IdlePutBack
  PROVE  PlaceInv'
  <1> USE DEF PlaceInv
  <1>1. CASE InlineDrain
    <2> DEFINE n == Lesser(Cardinality(Free), AdmitBatch)
    <2>1. /\ schedPc = "drain" /\ schedHand = <<>>
          /\ schedHand' = Drained(n) /\ queue' = Remaining(n)
          /\ schedPc' = IF queue = <<>> THEN "admit" ELSE "encode"
          /\ UNCHANGED <<call, fut, staged, prodHand, slotReq, prodPc>>
      BY <1>1 DEF InlineDrain, callers, producer, pool, host, Hands
    <2>2. n \in Nat
      BY TakeFacts DEF Lesser, TypeInv, TypeAdmitted
    <2>3. /\ ToSet(schedHand') \cup ToSet(queue') = ToSet(queue)
          /\ IsInjective(schedHand') /\ IsInjective(queue')
          /\ ToSet(schedHand') \cap ToSet(queue') = {}
      BY <2>1, <2>2, DrainFacts DEF TypeInv, TypeAdmitted, Distinct
    <2>4. ToSet(schedHand) = {}
      BY <2>1, ShortSeqFacts
    <2>5. Distinct' /\ Apart' /\ Anywhere' = Anywhere
      BY <2>1, <2>3, <2>4 DEF Distinct, Apart, Anywhere, InSlots
    <2>6. queue = <<>> => schedHand' = <<>>
      BY <2>1, <2>2 DEF Drained, Lesser
    <2>7. Hands'
      BY <2>1, <2>6 DEF Hands
    <2> QED  BY <2>1, <2>5, <2>7, PlaceMoved
  <1>2. CASE InlineEncode
    <2>1. /\ staged' = staged \o schedHand /\ schedHand' = <<>>
          /\ schedPc = "encode" /\ schedPc' = "admit"
          /\ UNCHANGED <<call, fut, queue, prodHand, slotReq, prodPc>>
      BY <1>2 DEF InlineEncode, StagedWith, callers, producer, pool, host
    <2>2. ToSet(staged') = ToSet(staged) \cup ToSet(schedHand) /\ IsInjective(staged')
      BY <2>1, ConcatFacts DEF TypeInv, TypeAdmitted, Distinct, Apart
    <2>3. ToSet(schedHand') = {} /\ IsInjective(schedHand')
      BY <2>1, ShortSeqFacts
    <2>4. Distinct' /\ Apart' /\ Anywhere' = Anywhere
      BY <2>1, <2>2, <2>3 DEF Distinct, Apart, Anywhere, InSlots
    <2>5. Hands'
      BY <2>1 DEF Hands
    <2> QED  BY <2>1, <2>4, <2>5, PlaceMoved
  <1>3. CASE Idle
    <2>1. /\ schedPc = "decide" /\ schedHand = <<>>
          /\ schedPc' = IF overlap \/ queue = <<>> THEN "loop" ELSE "reput"
          /\ UNCHANGED <<call, fut, staged, prodHand, slotReq, prodPc>>
      BY <1>3 DEF Idle, callers, producer, pool, host, Hands
    <2>2. CASE overlap \/ queue = <<>>
      <3>1. UNCHANGED <<queue, schedHand>> /\ schedPc' = "loop"
        BY <1>3, <2>2 DEF Idle
      <3>2. Hands'
        BY <2>1, <3>1 DEF Hands
      <3> QED  BY <2>1, <3>1, <3>2, PlaceUnmoved
    <2>3. CASE ~(overlap \/ queue = <<>>)
      <3>1. /\ queue # <<>> /\ schedHand' = <<Head(queue)>> /\ queue' = Tail(queue)
            /\ schedPc' = "reput"
        BY <1>3, <2>3 DEF Idle
      <3>2. /\ ToSet(queue) = {Head(queue)} \cup ToSet(queue')
            /\ IsInjective(queue') /\ Head(queue) \notin ToSet(queue')
        BY <3>1, HeadTailFacts DEF TypeInv, TypeAdmitted, Distinct
      <3>3. ToSet(schedHand') = {Head(queue)} /\ IsInjective(schedHand')
            /\ ToSet(schedHand) = {}
        BY <2>1, <3>1, ShortSeqFacts
      <3>4. Distinct' /\ Apart' /\ Anywhere' = Anywhere
        BY <2>1, <3>2, <3>3 DEF Distinct, Apart, Anywhere, InSlots
      <3>5. Hands'
        BY <2>1, <3>1 DEF Hands
      <3> QED  BY <2>1, <3>4, <3>5, PlaceMoved
    <2> QED  BY <2>2, <2>3
  <1>4. CASE IdlePutBack
    <2>1. /\ queue' = queue \o schedHand /\ schedHand' = <<>>
          /\ schedPc = "reput" /\ schedPc' = "loop"
          /\ UNCHANGED <<call, fut, staged, prodHand, slotReq, prodPc>>
      BY <1>4 DEF IdlePutBack, QueueAfterPutBack, callers, producer, pool, host
    <2>2. ToSet(queue') = ToSet(queue) \cup ToSet(schedHand) /\ IsInjective(queue')
      BY <2>1, ConcatFacts DEF TypeInv, TypeAdmitted, Distinct, Apart
    <2>3. ToSet(schedHand') = {} /\ IsInjective(schedHand')
      BY <2>1, ShortSeqFacts
    <2>4. Distinct' /\ Apart' /\ Anywhere' = Anywhere
      BY <2>1, <2>2, <2>3 DEF Distinct, Apart, Anywhere, InSlots
    <2>5. Hands'
      BY <2>1 DEF Hands
    <2> QED  BY <2>1, <2>4, <2>5, PlaceMoved
  <1> QED  BY <1>1, <1>2, <1>3, <1>4

(* An admission takes requests off the staged list: each one lands in one  *)
(* slot or fails with its prompt.                                          *)
LEMMA PlacePlace ==
  ASSUME TypeInv, PlaceInv, schedPc = "admit", NEW put \in Placements(Taken), Place(put),
         UNCHANGED <<call, queue, prodHand, schedHand>>, Hands'
  PROVE  PlaceInv'
  <1> USE DEF PlaceInv
  <1> DEFINE placed == {put[s] : s \in Started(put)}
  <1>1. /\ ToSet(Taken) \cup ToSet(Kept) = ToSet(staged)
        /\ ToSet(Taken) \cap ToSet(Kept) = {}
        /\ staged' = Kept /\ IsInjective(staged')
    BY TakeFacts DEF Place, Kept, TypeInv, TypeAdmitted, Distinct
  <1>2. /\ Started(put) \subseteq Free /\ Free \subseteq Slots
        /\ \A s \in Free : put[s] # NoReq => put[s] \in ToSet(Taken) /\ put[s] \in Admitted
        /\ \A r \in ToSet(Taken) : \E s \in Free : put[s] = r
        /\ \A s, t \in Free : put[s] = put[t] /\ put[s] # NoReq => s = t
    BY PlacementFacts DEF TypeInv, TypeAdmitted
  <1>3. /\ \A s \in Started(put) :
              /\ s \in Slots /\ s \in Free /\ put[s] # NoReq /\ put[s] \in ToSet(Taken)
              /\ slotReq[s] = NoReq /\ slotReq'[s] = put[s]
        /\ \A s \in Slots \ Started(put) : slotReq'[s] = slotReq[s]
    BY <1>2 DEF Place, Free, Started
  <1>4. InSlots' = InSlots \cup placed
    <2>1. ASSUME NEW s \in Slots, slotReq'[s] # NoReq
          PROVE  slotReq'[s] \in InSlots \cup placed
      <3>1. CASE s \in Started(put)
        BY <1>3, <3>1
      <3>2. CASE s \notin Started(put)
        BY <1>3, <2>1, <3>2 DEF InSlots
      <3> QED  BY <3>1, <3>2
    <2>2. ASSUME NEW s \in Slots, slotReq[s] # NoReq
          PROVE  slotReq[s] \in InSlots'
      <3>1. s \notin Started(put)
        BY <1>3, <2>2
      <3> QED  BY <1>3, <2>2, <3>1 DEF InSlots
    <2>3. ASSUME NEW s \in Started(put) PROVE put[s] \in InSlots'
      BY <1>3 DEF InSlots
    <2> QED  BY <2>1, <2>2, <2>3 DEF InSlots
  <1>5. placed \subseteq ToSet(Taken) /\ ToSet(Taken) \subseteq ToSet(staged)
    BY <1>1, <1>3
  <1>6. ToSet(Taken) \subseteq Reqs /\ NoReq \notin ToSet(Taken)
    <2>1. ToSet(staged) \subseteq Admitted
      BY ToSetType DEF TypeInv, TypeAdmitted
    <2> QED  BY <1>5, <2>1 DEF Admitted
  <1>7. \A r \in ToSet(Taken) : r \in placed \/ r \in BadPrompt
    BY <1>2, <1>6 DEF Started
  <1>8. \A r \in placed : r \notin BadPrompt
    BY DEF Started
  <1>9. Distinct'
    <2>1. ASSUME NEW s \in Slots, NEW t \in Slots,
                 slotReq'[s] = slotReq'[t], slotReq'[s] # NoReq
          PROVE  s = t
      <3>1. CASE s \in Started(put) /\ t \in Started(put)
        <4>1. put[s] = put[t] /\ put[s] # NoReq /\ s \in Free /\ t \in Free
          BY <1>3, <2>1, <3>1
        <4> QED  BY <1>2, <4>1
      <3>2. CASE s \notin Started(put) /\ t \notin Started(put)
        BY <1>3, <2>1, <3>2 DEF Distinct
      <3>3. ASSUME NEW x \in Started(put), NEW y \in Slots \ Started(put),
                   slotReq'[x] = slotReq'[y]
            PROVE  FALSE
        <4>1. put[x] \in placed /\ put[x] = slotReq[y] /\ put[x] # NoReq
          BY <1>3, <3>3
        <4>2. slotReq[y] \in InSlots
          BY <4>1, <3>3 DEF InSlots
        <4> QED  BY <1>5, <4>1, <4>2 DEF Apart
      <3> QED  BY <2>1, <3>1, <3>2, <3>3
    <2> QED  BY <1>1, <2>1 DEF Distinct
  <1>10. Apart'
    BY <1>1, <1>4, <1>5 DEF Apart
  <1>11. \A r \in Reqs :
           /\ r \in ToSet(Taken) /\ r \in BadPrompt => fut'[r] # "pending"
           /\ r \notin ToSet(Taken) \/ r \notin BadPrompt => fut'[r] = fut[r]
    BY <1>2, <1>6 DEF Place
  <1>12. Somewhere'
    <2> SUFFICES ASSUME NEW r \in Reqs
                 PROVE  /\ call[r] = "returned" /\ fut'[r] = "pending" => r \in Anywhere'
                        /\ r \in Anywhere' => call[r] = "returned" /\ fut'[r] = "pending"
      BY DEF Somewhere
    <2>1. /\ call[r] = "returned" /\ fut[r] = "pending" => r \in Anywhere
          /\ r \in Anywhere => call[r] = "returned" /\ fut[r] = "pending"
      BY DEF Somewhere
    <2>2. Anywhere' = ToSet(queue) \cup ToSet(prodHand) \cup ToSet(schedHand) \cup ToSet(Kept)
                    \cup InSlots \cup placed
      BY <1>1, <1>4 DEF Anywhere
    <2>3. CASE r \in ToSet(Taken) /\ r \in BadPrompt
      <3>1. r \notin placed /\ r \notin ToSet(Kept)
        BY <1>1, <1>8, <2>3
      <3>2. r \notin Anywhere'
        BY <1>5, <2>2, <2>3, <3>1 DEF Apart
      <3> QED  BY <1>11, <2>3, <3>2
    <2>4. CASE ~(r \in ToSet(Taken) /\ r \in BadPrompt)
      <3>1. fut'[r] = fut[r]
        BY <1>11, <2>4
      <3>2. r \in Anywhere <=> r \in Anywhere'
        BY <1>1, <1>5, <1>7, <2>2, <2>4 DEF Anywhere
      <3> QED  BY <2>1, <3>1, <3>2
    <2> QED  BY <2>3, <2>4
  <1>13. Calls'
    <2>1. ASSUME NEW r \in Reqs, call[r] # "returned" PROVE fut'[r] = fut[r]
      <3>1. r \notin Anywhere
        BY <2>1, NotYetHeld
      <3>2. r \notin ToSet(Taken)
        BY <1>5, <3>1 DEF Anywhere
      <3> QED  BY <1>11, <3>2
    <2> QED  BY <2>1 DEF Calls
  <1> QED  BY <1>9, <1>10, <1>12, <1>13

(* An eviction takes its requests out of the engine and settles each, even *)
(* one that raises after its last row.                                     *)
LEMMA EvictPlace ==
  ASSUME TypeInv, PlaceInv, schedPc = "evict", schedPc' \in {"loop", "dying"},
         NEW bad \in SUBSET (alive \cap finished), CollectRows(alive \cap finished, bad),
         UNCHANGED <<call, queue, staged, prodHand, prodPc, schedHand>>
  PROVE  PlaceInv'
  <1> USE DEF PlaceInv
  <1> DEFINE done == alive \cap finished
             leaving == {slotReq[s] : s \in done}
  <1>1. CollectRows(done, bad)
    OBVIOUS
  <1>2. done \subseteq Slots
    BY DEF TypeInv, TypePool
  <1>3. \A s \in Slots : slotReq'[s] = IF s \in done THEN NoReq ELSE slotReq[s]
    BY <1>1 DEF CollectRows
  <1>4. \A r \in Reqs :
          /\ r \in leaving /\ fut[r] = "pending" => fut'[r] # "pending"
          /\ r \notin leaving => fut'[r] = fut[r]
          /\ fut[r] # "pending" => fut'[r] = fut[r]
    BY <1>1 DEF CollectRows
  <1> HIDE DEF done
  <1>5. InSlots' = InSlots \ leaving
    <2>1. ASSUME NEW s \in Slots, slotReq'[s] # NoReq
          PROVE  slotReq'[s] \in InSlots \ leaving
      <3>1. s \notin done /\ slotReq'[s] = slotReq[s]
        BY <1>3, <2>1
      <3>2. \A d \in done : slotReq[d] # slotReq[s]
        BY <1>2, <2>1, <3>1 DEF Distinct
      <3> QED  BY <2>1, <3>1, <3>2 DEF InSlots
    <2>2. ASSUME NEW s \in Slots, slotReq[s] # NoReq, slotReq[s] \notin leaving
          PROVE  slotReq[s] \in InSlots'
      <3>1. slotReq'[s] = slotReq[s]
        BY <1>3, <2>2
      <3> QED  BY <2>2, <3>1 DEF InSlots
    <2> QED  BY <2>1, <2>2 DEF InSlots
  <1>6. Distinct'
    BY <1>2, <1>3 DEF Distinct
  <1>7. Apart' /\ Hands'
    BY <1>2, <1>5 DEF Apart, Hands
  <1>8. Somewhere'
    <2> SUFFICES ASSUME NEW r \in Reqs
                 PROVE  /\ call[r] = "returned" /\ fut'[r] = "pending" => r \in Anywhere'
                        /\ r \in Anywhere' => call[r] = "returned" /\ fut'[r] = "pending"
      BY <1>2 DEF Somewhere
    <2>1. /\ call[r] = "returned" /\ fut[r] = "pending" => r \in Anywhere
          /\ r \in Anywhere => call[r] = "returned" /\ fut[r] = "pending"
      BY <1>2 DEF Somewhere
    <2>2. r \in leaving => r \in InSlots
      BY <1>2 DEF InSlots
    <2>3. r \in Anywhere' <=> r \in Anywhere /\ r \notin leaving
      BY <1>2, <1>5, <2>2 DEF Anywhere, Apart
    <2> QED  BY <1>4, <2>1, <2>3
  <1>9. Calls'
    <2>1. ASSUME NEW r \in Reqs, call[r] # "returned" PROVE fut'[r] = fut[r]
      <3>1. r \notin InSlots
        BY <2>1, NotYetHeld DEF Anywhere
      <3>2. r \notin leaving
        BY <1>2, <3>1 DEF InSlots
      <3> QED  BY <1>4, <3>2
    <2> QED  BY <1>2, <2>1 DEF Calls
  <1> QED  BY <1>6, <1>7, <1>8, <1>9

(* A copy loop that raises leaves each request it took in one slot or in   *)
(* its local list.                                                         *)
LEMMA CopyPlace ==
  ASSUME TypeInv, PlaceInv, CopyRaises, UNCHANGED <<queue, prodHand>>, Hands'
  PROVE  PlaceInv'
  <1> USE DEF PlaceInv
  <1>1. PICK n \in 0 .. NTake : \E put \in Placements(SubSeq(staged, 1, n)) :
          /\ schedHand' = SubSeq(staged, n + 1, NTake)
          /\ slotReq' = [s \in Slots |-> IF s \in Filled(put) THEN put[s] ELSE slotReq[s]]
    BY DEF CopyRaises
  <1>2. PICK put \in Placements(SubSeq(staged, 1, n)) :
          /\ schedHand' = SubSeq(staged, n + 1, NTake)
          /\ slotReq' = [s \in Slots |-> IF s \in Filled(put) THEN put[s] ELSE slotReq[s]]
    BY <1>1
  <1>3. /\ schedPc = "admit" /\ schedHand = <<>> /\ staged' = Kept
        /\ UNCHANGED <<call, fut>>
    BY DEF CopyRaises, Kept, callers, Hands
  <1> DEFINE first == SubSeq(staged, 1, n)
             rest == SubSeq(staged, n + 1, NTake)
             placed == {put[s] : s \in Filled(put)}
  <1>4. /\ staged \in Seq(Admitted) /\ NTake \in 0 .. Len(staged) /\ n \in 0 .. NTake
        /\ ToSet(Taken) \cup ToSet(Kept) = ToSet(staged)
        /\ ToSet(Taken) \cap ToSet(Kept) = {} /\ IsInjective(Kept)
    BY <1>1, TakeFacts DEF TypeInv, TypeAdmitted, Distinct
  <1>5. /\ ToSet(first) \cup ToSet(rest) = ToSet(Taken)
        /\ ToSet(first) \cap ToSet(rest) = {} /\ IsInjective(rest)
        /\ ToSet(first) \subseteq Admitted
    <2>1. /\ Taken \in Seq(Admitted) /\ Len(Taken) = NTake /\ IsInjective(Taken)
      BY <1>4, SplitFacts DEF Taken, Distinct
    <2>2. first = SubSeq(Taken, 1, n) /\ rest = SubSeq(Taken, n + 1, Len(Taken))
      BY <1>4, <2>1, SubSeqOfTaken DEF Taken
    <2> HIDE DEF first, rest
    <2>3. first \in Seq(Admitted)
      BY <1>4, <2>1, <2>2, SplitFacts
    <2> QED  BY <1>4, <2>1, <2>2, <2>3, SplitFacts, ToSetType
  <1> HIDE DEF first, rest
  <1>6. /\ \A s \in Filled(put) :
              /\ s \in Slots /\ slotReq[s] = NoReq /\ put[s] # NoReq
              /\ put[s] \in ToSet(first) /\ slotReq'[s] = put[s]
        /\ \A s \in Slots \ Filled(put) : slotReq'[s] = slotReq[s]
        /\ \A r \in ToSet(first) : \E s \in Filled(put) : put[s] = r
        /\ \A s, t \in Filled(put) : put[s] = put[t] => s = t
    <2>1. NoReq \notin ToSet(first)
      BY <1>5 DEF Admitted
    <2> QED  BY <1>2, <2>1 DEF Placements, Filled, Free, first
  <1>7. placed = ToSet(first)
    BY <1>6
  <1>8. InSlots' = InSlots \cup placed
    <2>1. ASSUME NEW s \in Slots, slotReq'[s] # NoReq
          PROVE  slotReq'[s] \in InSlots \cup placed
      BY <1>6, <2>1 DEF InSlots
    <2>2. ASSUME NEW s \in Slots, slotReq[s] # NoReq PROVE slotReq[s] \in InSlots'
      <3>1. s \notin Filled(put)
        BY <1>6, <2>2
      <3> QED  BY <1>6, <2>2, <3>1 DEF InSlots
    <2>3. ASSUME NEW s \in Filled(put) PROVE put[s] \in InSlots'
      BY <1>6 DEF InSlots
    <2> QED  BY <2>1, <2>2, <2>3 DEF InSlots
  <1> HIDE DEF placed
  <1>9. schedHand' = rest /\ ToSet(schedHand) = {}
    BY <1>2, <1>3, ShortSeqFacts DEF rest
  <1>10. Distinct'
    <2>1. ASSUME NEW s \in Slots, NEW t \in Slots,
                 slotReq'[s] = slotReq'[t], slotReq'[s] # NoReq
          PROVE  s = t
      <3>1. CASE s \in Filled(put) /\ t \in Filled(put)
        BY <1>6, <2>1, <3>1
      <3>2. CASE s \notin Filled(put) /\ t \notin Filled(put)
        BY <1>6, <2>1, <3>2 DEF Distinct
      <3>3. ASSUME NEW x \in Filled(put), NEW y \in Slots \ Filled(put),
                   slotReq'[x] = slotReq'[y]
            PROVE  FALSE
        <4>1. put[x] \in ToSet(staged) /\ put[x] = slotReq[y] /\ put[x] # NoReq
          BY <1>4, <1>5, <1>6, <3>3
        <4>2. slotReq[y] \in InSlots
          BY <4>1, <3>3 DEF InSlots
        <4> QED  BY <4>1, <4>2 DEF Apart
      <3> QED  BY <2>1, <3>1, <3>2, <3>3
    <2> QED  BY <1>3, <1>4, <1>5, <1>9, <2>1 DEF Distinct
  <1>11. Apart' /\ Anywhere' = Anywhere
    BY <1>3, <1>4, <1>5, <1>7, <1>8, <1>9 DEF Apart, Anywhere
  <1> QED  BY <1>3, <1>10, <1>11, PlaceMoved

(* The last steps of the scheduler resolve Futures where they are.         *)
LEMMA EndingPlace ==
  ASSUME TypeInv, PlaceInv, SchedShutdown \/ DyingFailQueued PROVE PlaceInv'
  <1> USE DEF PlaceInv
  <1>1. CASE SchedShutdown
    <2>1. /\ schedPc = "loop" /\ schedPc' = "exited"
          /\ UNCHANGED <<call, queue, staged, prodHand, prodPc, schedHand, slotReq>>
      BY <1>1 DEF SchedShutdown, producer, pool, host
    <2>2. Distinct' /\ Apart' /\ Anywhere' = Anywhere
      BY <2>1 DEF Distinct, Apart, Anywhere, InSlots
    <2>3. \A r \in Reqs :
            /\ fut'[r] = "pending" => fut[r] = "pending"
            /\ r \notin InSlots => fut'[r] = fut[r]
      BY <1>1 DEF SchedShutdown, InSlots
    <2>4. Somewhere'
      BY <2>1, <2>2, <2>3 DEF Somewhere
    <2>5. Calls' /\ Hands'
      BY <2>1, <2>3, NotYetHeld DEF Calls, Hands, Anywhere
    <2> QED  BY <2>2, <2>4, <2>5
  <1>2. CASE DyingFailQueued
    <2>1. /\ schedPc = "dying" /\ queue # <<>> /\ queue' = Tail(queue)
          /\ UNCHANGED <<call, staged, prodHand, prodPc, schedPc, schedHand, slotReq>>
      BY <1>2 DEF DyingFailQueued, producer, sched, pool, host
    <2>2. /\ ToSet(queue) = {Head(queue)} \cup ToSet(queue') /\ Head(queue) \in Reqs
          /\ IsInjective(queue') /\ Head(queue) \notin ToSet(queue')
      BY <2>1, HeadTailFacts DEF TypeInv, TypeAdmitted, Distinct, Admitted
    <2>3. Distinct' /\ Apart' /\ Anywhere' = Anywhere \ {Head(queue)}
      BY <2>1, <2>2 DEF Distinct, Apart, Anywhere, InSlots
    <2>4. fut' = [fut EXCEPT ![Head(queue)] = IF @ = "pending" THEN "error" ELSE @]
      BY <1>2 DEF DyingFailQueued
    <2>5. fut'[Head(queue)] # "pending" /\ \A r \in Reqs \ {Head(queue)} : fut'[r] = fut[r]
      BY <2>2, <2>4 DEF TypeInv, TypeCallers
    <2>6. Somewhere'
      BY <2>1, <2>3, <2>5 DEF Somewhere
    <2>7. call[Head(queue)] = "returned"
      BY <2>1, <2>2 DEF Somewhere, Anywhere
    <2>8. Calls' /\ Hands'
      BY <2>1, <2>5, <2>7 DEF Calls, Hands
    <2> QED  BY <2>3, <2>6, <2>8
  <1> QED  BY <1>1, <1>2

LEMMA PlaceStep == TypeInv /\ PlaceInv /\ [Next]_vars => PlaceInv'
  <1> SUFFICES ASSUME TypeInv, PlaceInv, [Next]_vars PROVE PlaceInv'
    OBVIOUS
  <1>1. ASSUME NEW r \in Reqs, Session(r) PROVE PlaceInv'
    BY <1>1, SessionPlace
  <1>2. CASE Close
    BY <1>2, PlaceUnmoved DEF Close, callers, sched, producer, pool, host, PlaceInv, Hands
  <1>3. CASE Producer
    BY <1>3, ProducerPlace
  <1>4. CASE SchedStart \/ SchedLoop \/ DyingDone
    <2>1. /\ UNCHANGED <<call, fut, queue, staged, prodHand, schedHand, slotReq>>
          /\ schedPc # "exited" /\ Hands'
      BY <1>4 DEF SchedStart, SchedLoop, DyingDone, callers, producer, pool, host, PlaceInv,
                  Hands
    <2> QED  BY <2>1, PlaceUnmoved
  <1>5. CASE SchedShutdown \/ DyingFailQueued
    BY <1>5, EndingPlace
  <1>6. CASE InlineDrain \/ InlineEncode \/ Idle \/ IdlePutBack
    BY <1>6, SchedulerMoves
  <1>7. CASE Admit
    <2>1. PICK put \in Placements(Taken) : Place(put)
      BY <1>7 DEF Admit, Taken
    <2>2. /\ schedPc = "admit" /\ Hands' /\ UNCHANGED <<call, queue, prodHand, schedHand>>
      BY <1>7 DEF Admit, producer, PlaceInv, Hands
    <2> QED  BY <2>1, <2>2, PlacePlace
  <1>8. CASE Decode
    <2>1. /\ UNCHANGED <<call, fut, queue, staged, prodHand, schedHand, slotReq>>
          /\ schedPc # "exited" /\ Hands'
      BY <1>8 DEF Decode, callers, producer, PlaceInv, Hands
    <2> QED  BY <2>1, PlaceUnmoved
  <1>9. CASE Evict
    <2>1. PICK bad \in SUBSET (alive \cap finished) : CollectRows(alive \cap finished, bad)
      BY <1>9 DEF Evict, Collect
    <2> QED  BY <1>9, <2>1, EvictPlace DEF Evict, producer
  <1>10. CASE SchedRaises
    <2>1. /\ UNCHANGED <<queue, prodHand, prodPc>> /\ schedPc' = "dying"
          /\ schedPc # "exited" /\ Hands'
      BY <1>10 DEF SchedRaises, CopyRaises, PrefillRaises, ResetRaises, producer, PlaceInv,
                   Hands
    <2>2. CASE UNCHANGED <<callers, staged, schedHand, pool>>
      BY <2>1, <2>2, PlaceUnmoved DEF callers, pool, host
    <2>3. CASE CopyRaises
      BY <2>1, <2>3, CopyPlace
    <2>4. CASE PrefillRaises
      <3>1. PICK put \in Placements(Taken) : Place(put)
        BY <2>4 DEF PrefillRaises, Taken
      <3> QED  BY <2>1, <2>4, <3>1, PlacePlace DEF PrefillRaises
    <2>5. CASE ResetRaises
      <3>1. PICK bad \in SUBSET (alive \cap finished) : CollectRows(alive \cap finished, bad)
        BY <2>5 DEF ResetRaises
      <3> QED  BY <2>1, <2>5, <3>1, EvictPlace DEF ResetRaises
    <2> QED  BY <1>10, <2>2, <2>3, <2>4, <2>5 DEF SchedRaises
  <1>11. CASE UNCHANGED vars
    BY <1>11, PlaceUnmoved DEF vars, callers, producer, sched, pool, host, PlaceInv, Hands
  <1> QED  BY <1>1, <1>2, <1>3, <1>4, <1>5, <1>6, <1>7, <1>8, <1>9, <1>10, <1>11
           DEF Next, Scheduler

LEMMA PlaceAlways == Spec => []PlaceInv
  BY TypeInit, TypeStep, PlaceInit, PlaceStep, PTL DEF Spec

(* No request is ever in two places, whoever moves it when.                *)
THEOREM NeverTwice == Spec => []OnePlace
  <1>1. PlaceInv => OnePlace
    BY DEF PlaceInv, Distinct, Apart, OnePlace
  <1> QED  BY <1>1, PlaceAlways, PTL

(* What a thread has in its hands, and that a thread dies only with the    *)
(* engine marked as failed.                                                *)
HandInv ==
    /\ ~ProducerLives \/ ~SchedulerLives => err
    /\ Len(prodHand) <= AdmitBatch
    /\ Len(schedHand) <= Greater(AdmitBatch, Cardinality(Slots))

LEMMA HandInit == Init => HandInv
  <1>1. Cardinality(Slots) \in Nat
    BY FS_CardinalityType
  <1> QED  BY <1>1 DEF Init, HandInv, ProducerLives, SchedulerLives, Greater

(* Steps that fill no hand and revive no thread.                           *)
LEMMA HandKept ==
  ASSUME HandInv, UNCHANGED <<prodHand, schedHand>>, err' = TRUE \/ err' = err,
         (prodPc' = "dead" => prodPc = "dead" \/ err'),
         (schedPc' \in {"dying", "dead"} => schedPc \in {"dying", "dead"} \/ err')
  PROVE  HandInv'
  BY DEF HandInv, ProducerLives, SchedulerLives

LEMMA HandStep == TypeInv /\ HandInv /\ [Next]_vars => HandInv'
  <1> SUFFICES ASSUME TypeInv, HandInv, [Next]_vars PROVE HandInv'
    OBVIOUS
  <1> DEFINE most == Greater(AdmitBatch, Cardinality(Slots))
  <1>m. /\ Cardinality(Slots) \in Nat /\ Cardinality(Free) \in Nat
        /\ Cardinality(Free) <= Cardinality(Slots)
        /\ most \in Nat /\ AdmitBatch <= most /\ Cardinality(Free) <= most /\ 1 <= most
    <2>1. Cardinality(Slots) \in Nat
      BY FS_CardinalityType
    <2>2. Cardinality(Free) \in Nat /\ Cardinality(Free) <= Cardinality(Slots)
      BY FS_Subset, FS_CardinalityType DEF Free
    <2> QED  BY <2>1, <2>2 DEF Greater
  <1>1. ASSUME NEW r \in Reqs, Session(r) PROVE HandInv'
    BY <1>1, HandKept DEF Session, SubmitRefused, SubmitChecked, SubmitPut, producer, sched,
                          flags
  <1>2. CASE Close \/ UNCHANGED vars
    BY <1>2, HandKept DEF Close, vars, producer, sched, flags
  <1>3. CASE ProducerStop \/ ProducerCheckBacklog \/ ProducerDies
    BY <1>3, HandKept DEF ProducerStop, ProducerCheckBacklog, ProducerDies, sched, flags
  <1>4. CASE ProducerDrain
    <2>1. Len(prodHand') <= AdmitBatch
      BY <1>4, DrainFacts DEF ProducerDrain, TypeInv, TypeAdmitted
    <2>2. UNCHANGED <<schedPc, schedHand, err>> /\ prodPc' # "dead"
      BY <1>4 DEF ProducerDrain, sched, flags
    <2> QED  BY <2>1, <2>2 DEF HandInv, ProducerLives, SchedulerLives
  <1>5. CASE ProducerEncode
    <2>1. UNCHANGED <<schedPc, schedHand, err>> /\ prodPc' # "dead" /\ prodHand' = <<>>
      BY <1>5 DEF ProducerEncode, sched, flags
    <2> QED  BY <2>1 DEF HandInv, ProducerLives, SchedulerLives
  <1>6. CASE SchedStart \/ SchedLoop \/ SchedShutdown \/ Admit \/ Decode \/ Evict
             \/ DyingFailQueued \/ DyingDone
    BY <1>6, HandKept DEF SchedStart, SchedLoop, SchedShutdown, Admit, Decode, Evict,
       DyingFailQueued, DyingDone, producer, sched, flags
  <1>7. CASE InlineDrain \/ InlineEncode \/ Idle \/ IdlePutBack
    <2>1. UNCHANGED <<prodPc, prodHand, err>> /\ schedPc' \notin {"dying", "dead"}
      BY <1>7 DEF InlineDrain, InlineEncode, Idle, IdlePutBack, producer, flags
    <2>2. Len(schedHand') <= most
      <3>1. CASE InlineDrain
        <4> DEFINE n == Lesser(Cardinality(Free), AdmitBatch)
        <4>1. n \in Nat /\ n <= AdmitBatch
          BY <1>m DEF Lesser
        <4>2. schedHand' = Drained(n) /\ queue \in Seq(Admitted)
          BY <3>1 DEF InlineDrain, TypeInv, TypeAdmitted
        <4> HIDE DEF n, most
        <4>3. Len(Drained(n)) <= n /\ Len(Drained(n)) \in Nat
          BY <4>1, <4>2, DrainFacts
        <4> QED  BY <4>1, <4>2, <4>3, <1>m
      <3>2. CASE InlineEncode \/ IdlePutBack
        BY <3>2, <1>m DEF InlineEncode, IdlePutBack
      <3>3. CASE Idle
        <4>1. schedHand' = schedHand \/ schedHand' = <<Head(queue)>>
          BY <3>3 DEF Idle
        <4> QED  BY <4>1, <1>m DEF HandInv
      <3> QED  BY <1>7, <3>1, <3>2, <3>3
    <2> QED  BY <2>1, <2>2 DEF HandInv, ProducerLives, SchedulerLives
  <1>8. CASE SchedRaises
    <2>1. UNCHANGED <<prodPc, prodHand>> /\ err' = TRUE
      BY <1>8 DEF SchedRaises, producer
    <2>2. Len(schedHand') <= most
      <3>1. CASE UNCHANGED schedHand
        BY <3>1 DEF HandInv
      <3>2. CASE CopyRaises
        <4>1. PICK n \in 0 .. NTake : schedHand' = SubSeq(staged, n + 1, NTake)
          BY <3>2 DEF CopyRaises
        <4>2. /\ NTake \in 0 .. Len(staged) /\ staged \in Seq(Admitted)
              /\ NTake <= Cardinality(Free)
          BY TakeFacts DEF TypeInv, TypeAdmitted, NTake, Lesser
        <4>3. Len(schedHand') <= NTake /\ Len(schedHand') \in Nat
          BY <4>1, <4>2
        <4> HIDE DEF most
        <4> QED  BY <4>2, <4>3, <1>m
      <3> QED  BY <1>8, <3>1, <3>2 DEF SchedRaises, PrefillRaises, ResetRaises
    <2> QED  BY <2>1, <2>2 DEF HandInv
  <1> QED  BY <1>1, <1>2, <1>3, <1>4, <1>5, <1>6, <1>7, <1>8
           DEF Next, Producer, Scheduler

(* No submitted request is lost while its thread lives, none is kept once  *)
(* it is resolved, and a death takes no more with it than one batch or one *)
(* pool of requests.                                                       *)
THEOREM NeverLost == Spec => []Accounted
  <1>1. PlaceInv /\ HandInv => Accounted
    <2> SUFFICES ASSUME PlaceInv, HandInv PROVE Accounted
      OBVIOUS
    <2>1. Held \cup Lost = Anywhere
      BY DEF Held, Lost, Anywhere
    <2>2. Held \cap Lost = {}
      BY DEF Held, Lost, PlaceInv, Apart
    <2>3. Lost # {} => err
      BY DEF Lost, HandInv
    <2> QED  BY <2>1, <2>2, <2>3 DEF Accounted, PlaceInv, Somewhere, HandInv
  <1> QED  BY <1>1, PlaceAlways, HandInit, TypeInit, TypeStep, HandStep, PTL DEF Spec
-----------------------------------------------------------------------------
(* Staged memory.  The bound is not inductive: the producer tests the      *)
(* backlog in one step and adds to it two steps later, so what the test    *)
(* saw must still hold then, and without a producer the scheduler must     *)
(* admit all that it encoded before it encodes again.                      *)

StagedByProducer ==
    /\ schedPc \notin {"drain", "encode"}
    /\ prodPc \in {"drain", "encode", "dead"} => Len(staged) <= 2 * AdmitBatch - 1

StagedByScheduler ==
    /\ prodPc = "off"
    /\ IF schedPc = "admit" THEN Len(staged) <= Cardinality(Free) ELSE staged = <<>>
    /\ schedPc = "encode" =>
         Len(schedHand) <= Cardinality(Free) /\ Len(schedHand) <= AdmitBatch

StagingInv ==
    /\ Len(prodHand) <= AdmitBatch
    /\ Len(staged) <= 3 * AdmitBatch - 1
    /\ IF overlap THEN StagedByProducer ELSE StagedByScheduler

LEMMA StagingInit == Init => StagingInv
  BY DEF Init, StagingInv, StagedByProducer, StagedByScheduler

(* Steps that stage nothing and take nothing off the staged list.          *)
LEMMA StagingUntouched ==
  ASSUME TypeInv, StagingInv, UNCHANGED <<staged, overlap, slotReq, prodHand, prodPc>>,
         \/ UNCHANGED <<schedPc, schedHand>>
         \/ /\ schedPc' # "encode" /\ (schedPc' = "drain" => ~overlap)
            /\ schedPc # "admit"
  PROVE  StagingInv'
  <1>1. Len(staged) \in Nat /\ Cardinality(Free) \in Nat /\ Free' = Free
    BY TakeFacts DEF TypeInv, TypeAdmitted, Free
  <1>2. overlap' = overlap /\ staged' = staged /\ prodHand' = prodHand
        /\ prodPc' = prodPc
    OBVIOUS
  <1>3. CASE overlap
    <2>1. StagedByProducer'
      BY <1>2, <1>3 DEF StagingInv, StagedByProducer
    <2> QED  BY <1>2, <1>3, <2>1 DEF StagingInv
  <1>4. CASE ~overlap
    <2>1. StagedByScheduler'
      <3>1. CASE UNCHANGED <<schedPc, schedHand>>
        BY <1>1, <1>2, <1>4, <3>1 DEF StagingInv, StagedByScheduler
      <3>2. CASE schedPc' # "encode" /\ schedPc # "admit"
        <4>1. staged = <<>> /\ prodPc = "off"
          BY <1>4, <3>2 DEF StagingInv, StagedByScheduler
        <4> QED  BY <1>1, <1>2, <3>2, <4>1 DEF StagedByScheduler
      <3> QED  BY <3>1, <3>2
    <2> QED  BY <1>2, <1>4, <2>1 DEF StagingInv
  <1> QED  BY <1>3, <1>4

(* An admission takes the staged list down, to nothing when the scheduler  *)
(* is the one who filled it.                                               *)
LEMMA StagingTaken ==
  ASSUME TypeInv, StagingInv, schedPc = "admit", staged' = Kept,
         UNCHANGED <<prodPc, prodHand, overlap>>, schedPc' \in {"decide", "dying"}
  PROVE  StagingInv'
  <1>1. /\ NTake \in 0 .. Len(staged) /\ Cardinality(Free) \in Nat
        /\ Kept \in Seq(Admitted) /\ Len(Kept) = Len(staged) - NTake
        /\ Len(staged) \in Nat
    BY TakeFacts DEF TypeInv, TypeAdmitted
  <1>2. CASE overlap
    BY <1>1, <1>2 DEF StagingInv, StagedByProducer
  <1>3. CASE ~overlap
    <2>1. NTake = Len(staged)
      BY <1>1, <1>3 DEF StagingInv, StagedByScheduler, NTake, Lesser
    <2>2. Len(staged') = 0 /\ staged' = <<>>
      BY <1>1, <2>1
    <2> QED  BY <1>3, <2>2 DEF StagingInv, StagedByScheduler
  <1> QED  BY <1>2, <1>3

LEMMA StagingStep == TypeInv /\ PlaceInv /\ StagingInv /\ [Next]_vars => StagingInv'
  <1> SUFFICES ASSUME TypeInv, PlaceInv, StagingInv, [Next]_vars PROVE StagingInv'
    OBVIOUS
  <1>1. ASSUME NEW r \in Reqs, Session(r) PROVE StagingInv'
    <2>1. UNCHANGED <<staged, producer, sched, pool, flags>>
      BY <1>1 DEF Session, SubmitRefused, SubmitChecked, SubmitPut
    <2> QED  BY <2>1, StagingUntouched DEF producer, sched, pool, host, flags
  <1>2. CASE Close \/ UNCHANGED vars
    <2>1. UNCHANGED <<staged, overlap, slotReq, prodHand, prodPc, schedPc, schedHand>>
      BY <1>2 DEF Close, vars, producer, sched, pool, host, flags
    <2> QED  BY <2>1, StagingUntouched
  <1>3. CASE ProducerStop \/ ProducerCheckBacklog \/ ProducerDies
    <2>1. overlap
      BY <1>3 DEF ProducerStop, ProducerCheckBacklog, ProducerDies, StagingInv,
                  StagedByScheduler
    <2>2. Len(staged) \in Nat
      BY DEF TypeInv, TypeAdmitted
    <2>3. /\ UNCHANGED <<staged, overlap, prodHand, schedPc>>
          /\ prodPc' = "exited" \/ (prodPc' = "drain" /\ BacklogShallow)
               \/ (prodPc' = "dead" /\ prodPc = "encode")
      BY <1>3 DEF ProducerStop, ProducerCheckBacklog, ProducerDies, sched, flags
    <2>4. StagedByProducer'
      BY <2>1, <2>2, <2>3 DEF StagingInv, StagedByProducer, BacklogShallow
    <2> QED  BY <2>1, <2>3, <2>4 DEF StagingInv
  <1>4. CASE ProducerDrain
    <2>1. overlap
      BY <1>4 DEF ProducerDrain, StagingInv, StagedByScheduler
    <2>2. Len(prodHand') <= AdmitBatch
      BY <1>4, DrainFacts DEF ProducerDrain, TypeInv, TypeAdmitted
    <2> QED  BY <1>4, <2>1, <2>2 DEF ProducerDrain, sched, flags, StagingInv, StagedByProducer
  <1>5. CASE ProducerEncode
    <2>1. overlap
      BY <1>5 DEF ProducerEncode, StagingInv, StagedByScheduler
    <2>2. Len(staged') = Len(staged) + Len(prodHand) /\ Len(staged) \in Nat
          /\ Len(prodHand) \in Nat
      BY <1>5, ConcatFacts DEF ProducerEncode, StagedWith, TypeInv, TypeAdmitted
    <2> QED  BY <1>5, <2>1, <2>2 DEF ProducerEncode, sched, flags, StagingInv,
                                     StagedByProducer
  <1>6. CASE SchedStart
    <2>1. prodPc = "off" /\ prodHand = <<>> /\ schedPc = "start" /\ schedPc' = "loop"
          /\ UNCHANGED <<staged, overlap, slotReq, prodHand>>
          /\ prodPc' = IF overlap THEN "poll" ELSE prodPc
      BY <1>6 DEF SchedStart, PlaceInv, Hands, pool, host, flags
    <2>2. CASE overlap
      BY <2>1, <2>2 DEF StagingInv, StagedByProducer
    <2>3. CASE ~overlap
      BY <2>1, <2>3, StagingUntouched
    <2> QED  BY <2>2, <2>3
  <1>7. CASE SchedLoop \/ SchedShutdown \/ Idle \/ IdlePutBack \/ Decode
             \/ DyingFailQueued \/ DyingDone
    <2>1. /\ UNCHANGED <<staged, overlap, slotReq, prodHand, prodPc>>
          /\ schedPc \notin {"admit", "encode"} /\ schedPc' # "encode"
          /\ schedPc' = "drain" => ~overlap
      BY <1>7 DEF SchedLoop, SchedShutdown, Idle, IdlePutBack, Decode, DyingFailQueued,
                  DyingDone, producer, sched, pool, host, flags
    <2> QED  BY <2>1, StagingUntouched
  <1>8. CASE InlineDrain
    <2> DEFINE n == Lesser(Cardinality(Free), AdmitBatch)
    <2>1. /\ ~overlap /\ schedPc' \in {"admit", "encode"} /\ staged = <<>>
          /\ schedHand' = Drained(n)
          /\ UNCHANGED <<staged, overlap, slotReq, prodHand, prodPc>>
      BY <1>8 DEF InlineDrain, producer, pool, host, flags, StagingInv, StagedByProducer,
                  StagedByScheduler
    <2>2. /\ Cardinality(Free) \in Nat /\ Free' = Free /\ n \in Nat
          /\ n <= Cardinality(Free) /\ n <= AdmitBatch
      BY <2>1, TakeFacts DEF Lesser, TypeInv, TypeAdmitted, Free
    <2>3. schedHand' = Drained(n)
      BY <2>1
    <2> HIDE DEF n
    <2>4. queue \in Seq(Admitted)
      BY DEF TypeInv, TypeAdmitted
    <2>5. Len(Drained(n)) <= n /\ Drained(n) \in Seq(Admitted)
      BY <2>2, <2>4, DrainFacts
    <2>6. Len(schedHand') <= n /\ Len(schedHand') \in Nat
      BY <2>3, <2>5
    <2> QED  BY <2>1, <2>2, <2>6 DEF StagingInv, StagedByScheduler
  <1>9. CASE InlineEncode
    <2>1. /\ ~overlap /\ schedPc = "encode" /\ schedPc' = "admit" /\ staged = <<>>
          /\ staged' = staged \o schedHand
          /\ UNCHANGED <<overlap, slotReq, prodHand, prodPc>>
      BY <1>9 DEF InlineEncode, StagedWith, producer, pool, host, flags, StagingInv,
                  StagedByProducer, StagedByScheduler
    <2>2. Len(staged') = Len(schedHand) /\ Len(schedHand) \in Nat /\ Free' = Free
      BY <2>1, ConcatFacts DEF TypeInv, TypeAdmitted, Free
    <2> QED  BY <2>1, <2>2 DEF StagingInv, StagedByScheduler
  <1>10. CASE Admit
    BY <1>10, StagingTaken DEF Admit, Place, Kept, producer, flags
  <1>11. CASE Evict
    <2>1. /\ UNCHANGED <<staged, overlap, prodHand, prodPc>>
          /\ schedPc = "evict" /\ schedPc' = "loop"
      BY <1>11 DEF Evict, producer, flags
    <2> QED  BY <2>1 DEF StagingInv, StagedByProducer, StagedByScheduler
  <1>12. CASE SchedRaises
    <2>1. UNCHANGED <<overlap, prodHand, prodPc>> /\ schedPc' = "dying"
      BY <1>12 DEF SchedRaises, producer
    <2>2. CASE schedPc \in {"encode", "decide", "evict"} /\ UNCHANGED <<staged, pool>>
      BY <2>1, <2>2, StagingUntouched DEF pool, host
    <2>3. CASE schedPc = "admit" /\ staged' = Kept
      BY <2>1, <2>3, StagingTaken
    <2>4. CASE ResetRaises
      BY <2>1, <2>4 DEF ResetRaises, StagingInv, StagedByProducer, StagedByScheduler
    <2> QED  BY <1>12, <2>2, <2>3, <2>4 DEF SchedRaises, CopyRaises, PrefillRaises, Place, Kept
  <1> QED  BY <1>1, <1>2, <1>3, <1>4, <1>5, <1>6, <1>7, <1>8, <1>9, <1>10, <1>11, <1>12
           DEF Next, Producer, Scheduler

(* Staged keys and values, with those in the producer's hands, never       *)
(* exceed three admission batches less one, whichever thread encodes.      *)
THEOREM StagingBounded == Spec => []BoundedStaging
  <1>1. TypeInv /\ PlaceInv /\ StagingInv => BoundedStaging
    <2> SUFFICES ASSUME TypeInv, PlaceInv, StagingInv PROVE BoundedStaging
      OBVIOUS
    <2>1. Len(staged) \in Nat /\ Len(prodHand) \in Nat
      BY DEF TypeInv, TypeAdmitted
    <2>2. CASE prodHand = <<>>
      BY <2>1, <2>2 DEF StagingInv, BoundedStaging
    <2>3. CASE prodHand # <<>>
      <3>1. overlap /\ prodPc \in {"encode", "dead"}
        BY <2>3 DEF PlaceInv, Hands, StagingInv, StagedByScheduler
      <3> QED  BY <2>1, <3>1 DEF StagingInv, StagedByProducer, BoundedStaging
    <2> QED  BY <2>2, <2>3
  <1> QED  BY <1>1, TypeInit, TypeStep, PlaceAlways, StagingInit, StagingStep, PTL DEF Spec
-----------------------------------------------------------------------------
(* The promise of Outcomes.                                                *)

AnswerInv == \A r \in Reqs : fut[r] = "text" => text[r] = {r}

(* What one step may do to one Future.                                     *)
Moves(r) ==
    \/ fut'[r] = fut[r] /\ text'[r] = text[r]
    \/ fut[r] \in {"none", "pending"} /\ fut'[r] = "error"
    \/ fut[r] = "none" /\ fut'[r] = "pending"
    \/ fut[r] = "pending" /\ fut'[r] = "text" /\ text'[r] = {r}

LEMMA EvictMoves ==
  ASSUME TypeInv, PoolInv, schedPc = "evict", NEW bad \in SUBSET (alive \cap finished),
         CollectRows(alive \cap finished, bad), NEW r \in Reqs
  PROVE  Moves(r)
  <1> DEFINE done == alive \cap finished
  <1>1. CollectRows(done, bad)
    OBVIOUS
  <1>2. \A s \in done : SlotInv(s) /\ s \in Slots
    BY DEF PoolInv, TypeInv, TypePool
  <1>3. CASE fut[r] = "pending" /\ \E s \in done \ bad : slotReq[s] = r
    <2> DEFINE mine == {d \in done \ bad : slotReq[d] = r}
    <2>1. text'[r] = UNION {{slotAudio[s], slotPrompt[s]} : s \in mine}
      BY <1>1, <1>3 DEF CollectRows
    <2>2. \A s \in mine : slotAudio[s] = r /\ slotPrompt[s] = r
      BY <1>2 DEF SlotInv
    <2>3. mine # {}
      BY <1>3
    <2> HIDE DEF mine
    <2>4. text'[r] = {r}
      BY <2>1, <2>2, <2>3
    <2>5. fut'[r] \in {"error", "text"}
      BY <1>1, <1>3 DEF CollectRows
    <2> QED  BY <1>3, <2>4, <2>5 DEF Moves
  <1>4. CASE ~(fut[r] = "pending" /\ \E s \in done \ bad : slotReq[s] = r)
    <2>1. text'[r] = text[r]
      BY <1>1, <1>4 DEF CollectRows
    <2>2. fut'[r] = fut[r] \/ (fut[r] = "pending" /\ fut'[r] = "error")
      BY <1>1, <1>4 DEF CollectRows
    <2> QED  BY <2>1, <2>2 DEF Moves
  <1> QED  BY <1>3, <1>4

LEMMA FutureMoves ==
  ASSUME TypeInv, PoolInv, PlaceInv, [Next]_vars, NEW r \in Reqs PROVE Moves(r)
  <1>1. ASSUME NEW q \in Reqs, Session(q) PROVE Moves(r)
    BY <1>1 DEF Session, SubmitRefused, SubmitChecked, SubmitPut, Moves, PlaceInv, Calls,
                TypeInv, TypeCallers
  <1>2. CASE Close \/ Producer
    BY <1>2 DEF Close, Producer, ProducerStop, ProducerCheckBacklog, ProducerDrain,
                ProducerEncode, ProducerDies, callers, Moves
  <1>3. CASE SchedStart \/ SchedLoop \/ InlineDrain \/ InlineEncode \/ Idle \/ IdlePutBack
             \/ Decode \/ DyingDone
    BY <1>3 DEF SchedStart, SchedLoop, InlineDrain, InlineEncode, Idle, IdlePutBack, Decode,
                DyingDone, callers, Moves
  <1>4. CASE SchedShutdown
    BY <1>4 DEF SchedShutdown, Moves
  <1>5. ASSUME NEW put, Place(put), UNCHANGED text PROVE Moves(r)
    BY <1>5 DEF Place, Moves
  <1>6. CASE Admit
    BY <1>5, <1>6 DEF Admit
  <1>7. CASE SchedRaises
    <2>1. CASE UNCHANGED callers
      BY <2>1 DEF callers, Moves
    <2>2. CASE PrefillRaises
      BY <1>5, <2>2 DEF PrefillRaises
    <2>3. CASE ResetRaises
      BY <2>3, EvictMoves DEF ResetRaises
    <2> QED  BY <1>7, <2>1, <2>2, <2>3 DEF SchedRaises, CopyRaises
  <1>8. CASE Evict
    BY <1>8, EvictMoves DEF Evict, Collect
  <1>9. CASE DyingFailQueued
    <2>1. Head(queue) \in Reqs
      BY <1>9, HeadTailFacts DEF DyingFailQueued, TypeInv, TypeAdmitted, Admitted
    <2> QED  BY <1>9, <2>1 DEF DyingFailQueued, Moves, TypeInv, TypeCallers
  <1>10. CASE UNCHANGED vars
    BY <1>10 DEF vars, callers, Moves
  <1> QED  BY <1>1, <1>2, <1>3, <1>4, <1>6, <1>7, <1>8, <1>9, <1>10 DEF Next, Scheduler

LEMMA OutcomeStep ==
  ASSUME TypeInv, TypeInv', PoolInv, PlaceInv, AnswerInv, [Next]_vars
  PROVE  AnswerInv' /\ [Promise!Next]_([r \in Reqs |-> OutcomeOf(r)])
  <1>1. \A r \in Reqs : Moves(r)
    BY FutureMoves
  <1>2. AnswerInv'
    BY <1>1 DEF Moves, AnswerInv
  <1>3. \A r \in Reqs : fut[r] \in FutureStates /\ fut'[r] \in FutureStates
    BY DEF TypeInv, TypeCallers
  <1>4. ASSUME NEW r \in Reqs
        PROVE  /\ OutcomeOf(r)' \in Promise!Outcome
               /\ OutcomeOf(r)' = OutcomeOf(r)
                    \/ <<OutcomeOf(r), OutcomeOf(r)'>> \in Promise!LegalMoves
    <2>1. /\ fut[r] = "text" => text[r] = {r}
          /\ fut'[r] = "text" => text'[r] = {r}
          /\ fut[r] \in FutureStates /\ fut'[r] \in FutureStates /\ Moves(r)
      BY <1>1, <1>2, <1>3 DEF AnswerInv
    <2> QED  BY <2>1 DEF Moves, OutcomeOf, FutureStates, Promise!Outcome, Promise!LegalMoves
  <1> DEFINE J == {r \in Reqs : OutcomeOf(r)' # OutcomeOf(r)}
             after == [r \in Reqs |-> OutcomeOf(r)]'
             before == [r \in Reqs |-> OutcomeOf(r)]
  <1>5. \A r \in Reqs : after[r] = OutcomeOf(r)' /\ before[r] = OutcomeOf(r)
    OBVIOUS
  <1>6. after \in [Reqs -> Promise!Outcome]
    BY <1>4
  <1>7. Promise!Settle(J)
    BY <1>4, <1>5, <1>6 DEF Promise!Settle
  <1>8. J \in SUBSET Reqs
    OBVIOUS
  <1> QED  BY <1>2, <1>7, <1>8 DEF Promise!Next

(* The engine implements the abstract promise: every Future resolves at    *)
(* most once, with an error or with the text of its own audio and prompt.  *)
THEOREM KeepsPromise == Spec => SettlesOnce
  <1>1. Init => AnswerInv /\ Promise!Init
    BY DEF Init, AnswerInv, Promise!Init, OutcomeOf
  <1>2. TypeInv /\ TypeInv' /\ PoolInv /\ PlaceInv /\ AnswerInv /\ [Next]_vars
          => AnswerInv' /\ [Promise!Next]_([r \in Reqs |-> OutcomeOf(r)])
    BY OutcomeStep
  <1> QED  BY <1>1, <1>2, PoolAlways, PlaceAlways, PTL DEF Spec, SettlesOnce, Promise!Spec
=============================================================================
