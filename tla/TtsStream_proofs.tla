-------------------------- MODULE TtsStream_proofs --------------------------
(***************************************************************************)
(* Proofs about TtsStream, for any number of requests and frames, any      *)
(* queue, group and batch size, and whatever fails.                        *)
(***************************************************************************)
EXTENDS TtsStream, SequenceFacts

USE TtsAssumption DEF END

DrivePcs == {"off", "running", "done", "cancelled"}
ConsumerPcs == {"off", "get", "timedout", "error", "clean", "gone"}
BatcherPcs == {"collect", "decode", "stopped", "dead"}
JobItem == [kind : {"job"}, r : Streams, i : Nat]
FinalItem == [kind : {"final"}, r : Streams, i : Nat]
Item == JobItem \cup FinalItem \cup {STOP}

(* The types of the variables.                                             *)
TypeRequest ==
    /\ drive \in [Streams -> DrivePcs]
    /\ frames \in [Streams -> Nat] /\ dispatched \in [Streams -> Nat]
    /\ cons \in [Streams -> ConsumerPcs]
    /\ cbuf \in [Streams -> Seq(Int)] /\ got \in [Streams -> Seq(Int)]
TypeRegistry ==
    /\ outq \in [Streams -> Seq(Int)]
    /\ reg \subseteq Streams
    /\ nextIdx \in [Streams -> Nat]
    /\ decoded \in [Streams -> SUBSET Nat]
    /\ total \in [Streams -> Nat \cup {Unknown}]
    /\ failed \subseteq Streams /\ harmed \subseteq Streams
TypeBatcher ==
    /\ inq \in Seq(Item)
    /\ batPc \in BatcherPcs
    /\ live \subseteq JobItem /\ finals \subseteq FinalItem /\ stopping \in BOOLEAN
    /\ failures \in Nat /\ engineDead \in BOOLEAN
TypeInv == TypeRequest /\ TypeRegistry /\ TypeBatcher

(* A request is finalized with the frames it has, and none is decoded that *)
(* it does not have; what is not registered has no bookkeeping left.       *)
FramesAt(r) ==
    /\ frames[r] <= MaxFrames[r]
    /\ drive[r] \in {"off", "running"} => dispatched[r] = Ready(frames[r])
    /\ cons[r] = "off" => drive[r] = "off" /\ r \notin reg /\ r \notin harmed
    /\ decoded[r] \subseteq 0 .. frames[r] - 1
    /\ nextIdx[r] <= frames[r]
    /\ total[r] # Unknown => total[r] = frames[r] /\ drive[r] = "done"
    /\ r \notin reg => nextIdx[r] = 0 /\ decoded[r] = {} /\ total[r] = Unknown
FramesInv == \A r \in Streams : FramesAt(r)

(* Work on its way: windows of frames that are there, finalizations of     *)
(* drives that are done, and a pass that decodes for registered requests.  *)
SoundJobs(S) == \A x \in S : x \in JobItem => x.i < frames[x.r]
SoundFinals(S) ==
    \A x \in S : x \in FinalItem => x.i = frames[x.r] /\ drive[x.r] = "done"
WorkInv ==
    /\ SoundJobs(ToSet(inq)) /\ SoundFinals(ToSet(inq))
    /\ SoundJobs(live) /\ SoundFinals(finals)
    /\ \A x \in live : x.r \in reg
    /\ batPc # "decode" => live = {} /\ finals = {}

(* Frames that count up from a; the same, with END perhaps behind them.    *)
Counts(q, a) == \A k \in DOMAIN q : q[k] = a + k - 1
Waiting(q, a) ==
    \A k \in DOMAIN q : \/ q[k] = a + k - 1
                        \/ k = Len(q) /\ q[k] = END

(* What has left a request's queue; what waits in it goes on from there,   *)
(* up to where the batcher stands.                                         *)
Past(r) == Len(got[r]) + Len(cbuf[r])
QueueAt(r) ==
    /\ Counts(got[r], 0)
    /\ Counts(cbuf[r], Len(got[r]))
    /\ Waiting(outq[r], Past(r))
    /\ Len(outq[r]) <= QMax
    /\ r \in reg => Counts(outq[r], Past(r)) /\ Past(r) + Len(outq[r]) = nextIdx[r]
    /\ cons[r] = "off" => Past(r) = 0 /\ outq[r] = <<>>
QueueInv == \A r \in Streams : QueueAt(r)

(* All of a request's frames have left the batcher.                        *)
Whole(r) == drive[r] = "done" /\ Past(r) + Len(Frames(outq[r])) = frames[r]

(* The mark of a failed request is there until its consumer has left, and  *)
(* a request that was closed without one is whole.                         *)
FailAt(r) ==
    /\ Live(r) /\ r \in harmed => r \in failed
    /\ Live(r) /\ r \notin reg /\ r \notin failed => Whole(r)
    /\ cons[r] = "clean" => r \notin reg /\ r \notin harmed /\ Whole(r)
FailInv == \A r \in Streams : FailAt(r)

StreamInv == TypeInv /\ FramesInv /\ WorkInv /\ QueueInv /\ FailInv

-----------------------------------------------------------------------------
(* Lemmas about queues of frames.                                          *)

(* A queue is its frames, with or without END behind them.                 *)
LEMMA FramesFacts ==
  ASSUME NEW q \in Seq(Int), NEW a \in Nat, Waiting(q, a)
  PROVE  /\ Frames(q) \in Seq(Int) /\ Counts(Frames(q), a)
         /\ Len(Frames(q)) \in {Len(q), Len(q) - 1}
         /\ Counts(q, a) => Frames(q) = q
  <1>1. Len(q) \in Nat /\ DOMAIN q = 1 .. Len(q)
    OBVIOUS
  <1>4. Len(q) \in Nat /\ (q # <<>> => Len(q) # 0)
    OBVIOUS
  <1>2. CASE q = <<>> \/ q[Len(q)] # END
    <2>1. Frames(q) = q
      BY <1>2 DEF Frames, Last
    <2>2. \A k \in DOMAIN q : q[k] = a + k - 1
      BY <1>1, <1>2 DEF Waiting
    <2> QED  BY <2>1, <2>2 DEF Counts
  <1>3. CASE q # <<>> /\ q[Len(q)] = END
    <2> DEFINE n == Len(q) - 1
    <2>1. Frames(q) = SubSeq(q, 1, n)
      BY <1>3 DEF Frames, Last, Front
    <2>8. q # <<>>
      BY <1>3
    <2>2. n \in Nat /\ (\A i \in 1 .. n : i \in 1 .. Len(q) /\ i # Len(q))
      BY <1>4, <2>8, SMTT(40)
    <2>7. \A i \in 1 .. n : i \in DOMAIN q /\ i # Len(q)
      BY <1>1, <2>2
    <2>0. \A i \in 1 .. n : q[i] \in Int
      BY <2>7
    <2> HIDE DEF n
    <2>3. /\ Frames(q) \in Seq(Int) /\ Len(Frames(q)) = n
          /\ \A i \in 1 .. n : Frames(q)[i] = q[i]
      BY <2>0, <2>1, <2>2, SubSeqProperties
    <2>4. \A i \in 1 .. n : q[i] = a + i - 1
      BY <2>7 DEF Waiting
    <2>9. DOMAIN Frames(q) = 1 .. n
      BY <2>3
    <2>5. Counts(Frames(q), a)
      BY <2>3, <2>4, <2>9 DEF Counts
    <2>6. ~Counts(q, a)
      BY <1>1, <1>3 DEF Counts, END
    <2> QED  BY <2>3, <2>5, <2>6 DEF n
  <1> QED  BY <1>2, <1>3

(* get() of a frame: the rest of the queue goes on behind it.              *)
LEMMA TakeFacts ==
  ASSUME NEW q \in Seq(Int), NEW a \in Nat, Waiting(q, a), q # <<>>, Head(q) # END
  PROVE  /\ Head(q) = a /\ Tail(q) \in Seq(Int)
         /\ Waiting(Tail(q), a + 1) /\ Len(Tail(q)) = Len(q) - 1
         /\ Counts(q, a) => Counts(Tail(q), a + 1)
         /\ Len(Frames(Tail(q))) = Len(Frames(q)) - 1
  <1> DEFINE t == Tail(q)
             n == Len(q)
  <1>1. /\ n \in Nat \ {0} /\ DOMAIN q = 1 .. n /\ q[1] = Head(q)
        /\ t \in Seq(Int) /\ Len(t) = n - 1 /\ DOMAIN t = 1 .. n - 1
        /\ \A k \in 1 .. n - 1 : t[k] = q[k + 1] /\ k + 1 \in 1 .. n /\ k + 1 # 1
        /\ \A k \in 1 .. n : q[k] \in Int
    BY SMTT(40)
  <1>0. \A k \in 1 .. n : q[k] = a + k - 1 \/ (k = n /\ q[k] = END)
    BY <1>1 DEF Waiting
  <1> HIDE DEF t, n
  <1>2. q[1] = a
    <2>1. 1 \in 1 .. n /\ q[1] # END
      BY <1>1
    <2> QED  BY <1>0, <2>1
  <1>3. Waiting(t, a + 1)
    <2>1. ASSUME NEW k \in 1 .. n - 1
          PROVE  t[k] = (a + 1) + k - 1 \/ (k = n - 1 /\ t[k] = END)
      <3>1. q[k + 1] = a + (k + 1) - 1 \/ (k + 1 = n /\ q[k + 1] = END)
        BY <1>0, <1>1
      <3> QED  BY <1>1, <3>1
    <2> QED  BY <1>1, <2>1 DEF Waiting
  <1>4. ASSUME Counts(q, a) PROVE Counts(t, a + 1)
    <2>1. \A k \in 1 .. n : q[k] = a + k - 1
      BY <1>1, <1>4 DEF Counts
    <2>2. ASSUME NEW k \in 1 .. n - 1 PROVE t[k] = (a + 1) + k - 1
      BY <1>1, <2>1
    <2> QED  BY <1>1, <2>2 DEF Counts
  <1>5. Len(Frames(t)) = Len(Frames(q)) - 1
    <2>1. CASE n = 1
      <3>1. q[Len(q)] # END /\ t = <<>>
        BY <1>1, <2>1 DEF n
      <3>2. Frames(q) = q /\ Frames(t) = t
        BY <3>1 DEF Frames, Last
      <3> QED  BY <1>1, <3>2 DEF n
    <2>2. CASE n # 1
      <3>1. t # <<>> /\ t[Len(t)] = q[Len(q)] /\ n - 1 \in 1 .. n - 1
        BY <1>1, <2>2, SMTT(40) DEF n
      <3>2. CASE q[Len(q)] # END
        <4>1. Frames(q) = q /\ Frames(t) = t
          BY <3>1, <3>2 DEF Frames, Last
        <4> QED  BY <1>1, <4>1 DEF n
      <3>3. CASE q[Len(q)] = END
        <4>1. Frames(q) = SubSeq(q, 1, n - 1) /\ Frames(t) = SubSeq(t, 1, n - 2)
          BY <1>1, <3>1, <3>3 DEF Frames, Last, Front, n
        <4>2. \A i \in 1 .. n - 1 : q[i] \in Int
          BY <1>1
        <4>3. Len(SubSeq(q, 1, n - 1)) = n - 1
          BY <1>1, <2>2, <4>2, SubSeqProperties
        <4>4. \A i \in 1 .. n - 2 : t[i] \in Int
          BY <1>1
        <4>5. Len(SubSeq(t, 1, n - 2)) = n - 2
          BY <1>1, <2>2, <4>4, SubSeqProperties
        <4> QED  BY <1>1, <4>1, <4>3, <4>5
      <3> QED  BY <3>2, <3>3
    <2> QED  BY <2>1, <2>2
  <1> QED  BY <1>1, <1>2, <1>3, <1>4, <1>5 DEF t, n

(* END is the last in a queue.                                             *)
LEMMA EndFacts ==
  ASSUME NEW q \in Seq(Int), NEW a \in Nat, Waiting(q, a), q # <<>>, Head(q) = END
  PROVE  /\ Tail(q) = <<>> /\ Len(Frames(q)) = 0 /\ ~Counts(q, a)
         /\ Len(Frames(<<>>)) = 0
  <1>1. Len(q) \in Nat \ {0} /\ DOMAIN q = 1 .. Len(q) /\ q[1] = END
    OBVIOUS
  <1>2. Len(q) = 1 /\ ~Counts(q, a)
    BY <1>1 DEF Waiting, Counts, END
  <1>3. Tail(q) = <<>> /\ q[Len(q)] = END /\ Len(q) - 1 = 0
    <2>1. Tail(q) \in Seq(Int) /\ Len(Tail(q)) = 0
      BY <1>2, HeadTailProperties
    <2>2. Tail(q) = <<>>
      BY <2>1, EmptySeq
    <2> QED  BY <1>1, <1>2, <2>2
  <1>6. Frames(q) = SubSeq(q, 1, 0)
    BY <1>3 DEF Frames, Last, Front
  <1>4. SubSeq(q, 1, 0) = <<>>
    BY SubSeqEmpty
  <1>5. Frames(<<>>) = <<>>
    BY DEF Frames
  <1> QED  BY <1>2, <1>3, <1>4, <1>5, <1>6

(* Frames put behind frames.                                               *)
LEMMA JoinFacts ==
  ASSUME NEW p \in Seq(Int), NEW q \in Seq(Int), NEW a \in Nat,
         Counts(p, a), Waiting(q, a + Len(p))
  PROVE  /\ p \o q \in Seq(Int) /\ Len(p \o q) = Len(p) + Len(q)
         /\ Waiting(p \o q, a)
         /\ Counts(q, a + Len(p)) => Counts(p \o q, a)
         /\ Len(Frames(p \o q)) = Len(p) + Len(Frames(q))
  <1> DEFINE c == p \o q
             m == Len(p)
             n == Len(q)
  <1>1. /\ c \in Seq(Int) /\ Len(c) = m + n
        /\ \A i \in 1 .. m + n : c[i] = IF i <= m THEN p[i] ELSE q[i - m]
    BY ConcatProperties
  <1>2. /\ DOMAIN p = 1 .. m /\ DOMAIN q = 1 .. n /\ DOMAIN c = 1 .. m + n
        /\ m \in Nat /\ n \in Nat
        /\ \A i \in 1 .. n : q[i] \in Int
    BY <1>1
  <1>3. Counts(p, a) /\ Waiting(q, a + m)
    OBVIOUS
  <1>4. /\ q = <<>> <=> n = 0
        /\ c = <<>> <=> m + n = 0
        /\ p = <<>> <=> m = 0
    BY <1>1, <1>2
  <1>5. n = Len(q) /\ m = Len(p)
    OBVIOUS
  <1> HIDE DEF c, m, n
  <1>6. \A i \in 1 .. m : c[i] = a + i - 1
    <2>1. \A i \in 1 .. m : p[i] = a + i - 1
      BY <1>2, <1>3 DEF Counts
    <2> QED  BY <1>1, <1>2, <2>1
  <1>7. \A i \in 1 .. m + n : i \notin 1 .. m => i - m \in 1 .. n /\ c[i] = q[i - m]
    BY <1>1, <1>2
  <1>8. \A i \in 1 .. n : q[i] = (a + m) + i - 1 \/ (i = n /\ q[i] = END)
    BY <1>2, <1>3, <1>5 DEF Waiting
  <1>9. Waiting(c, a)
    <2>1. ASSUME NEW i \in 1 .. m + n PROVE c[i] = a + i - 1 \/ (i = m + n /\ c[i] = END)
      <3>1. CASE i \in 1 .. m
        BY <1>6, <3>1
      <3>2. CASE i \notin 1 .. m
        BY <1>2, <1>7, <1>8, <3>2
      <3> QED  BY <3>1, <3>2
    <2> QED  BY <1>1, <1>2, <2>1 DEF Waiting
  <1>10. ASSUME Counts(q, a + m) PROVE Counts(c, a)
    <2>1. \A i \in 1 .. n : q[i] = (a + m) + i - 1
      BY <1>2, <1>10 DEF Counts
    <2>2. ASSUME NEW i \in 1 .. m + n PROVE c[i] = a + i - 1
      <3>1. CASE i \in 1 .. m
        BY <1>6, <3>1
      <3>2. CASE i \notin 1 .. m
        BY <1>2, <1>7, <2>1, <3>2
      <3> QED  BY <3>1, <3>2
    <2> QED  BY <1>2, <2>2 DEF Counts
  <1>11. Len(Frames(c)) = m + Len(Frames(q))
    <2>1. CASE n = 0
      <3>1. Frames(q) = q
        BY <1>4, <2>1 DEF Frames
      <3>2. c # <<>> => c[Len(c)] # END
        <4>1. c # <<>> => m \in 1 .. m /\ Len(c) = m
          BY <1>1, <1>2, <1>4, <2>1
        <4> QED  BY <1>2, <1>6, <4>1 DEF END
      <3>3. Frames(c) = c
        BY <3>2 DEF Frames, Last
      <3> QED  BY <1>1, <1>2, <1>5, <2>1, <3>1, <3>3
    <2>2. CASE n # 0
      <3>1. /\ q # <<>> /\ c # <<>> /\ m + n \in 1 .. m + n /\ m + n \notin 1 .. m
            /\ c[Len(c)] = q[Len(q)]
        <4>1. m + n \in 1 .. m + n /\ m + n \notin 1 .. m /\ (m + n) - m = n
          BY <1>2, <2>2
        <4>2. c[m + n] = q[n]
          BY <1>7, <4>1
        <4> QED  BY <1>1, <1>2, <1>4, <1>5, <2>2, <4>1, <4>2
      <3>2. CASE q[Len(q)] # END
        <4>1. Frames(q) = q /\ Frames(c) = c
          BY <3>1, <3>2 DEF Frames, Last
        <4> QED  BY <1>1, <1>5, <4>1
      <3>3. CASE q[Len(q)] = END
        <4>1. Frames(q) = SubSeq(q, 1, n - 1) /\ Frames(c) = SubSeq(c, 1, m + n - 1)
          BY <1>1, <1>5, <3>1, <3>3 DEF Frames, Last, Front
        <4>2. \A i \in 1 .. n - 1 : q[i] \in Int
          BY <1>2
        <4>3. Len(SubSeq(q, 1, n - 1)) = n - 1
          BY <1>2, <2>2, <4>2, SubSeqProperties
        <4>4. \A i \in 1 .. m + n - 1 : c[i] \in Int
          BY <1>1, <1>2
        <4>5. Len(SubSeq(c, 1, m + n - 1)) = m + n - 1
          BY <1>2, <2>2, <4>4, SubSeqProperties
        <4> QED  BY <1>2, <4>1, <4>3, <4>5
      <3> QED  BY <3>2, <3>3
    <2> QED  BY <2>1, <2>2
  <1> QED  BY <1>1, <1>9, <1>10, <1>11 DEF c, m, n

(* A run of frames, and END behind it or not.                              *)
LEMMA DeliveryFacts ==
  ASSUME NEW a \in Nat, NEW b \in Nat, a <= b, NEW ends \in BOOLEAN
  PROVE  /\ Delivery(a, b, ends) \in Seq(Int)
         /\ Waiting(Delivery(a, b, ends), a)
         /\ Len(Frames(Delivery(a, b, ends))) = b - a
         /\ ~ends => Counts(Delivery(a, b, ends), a) /\ Len(Delivery(a, b, ends)) = b - a
  <1> DEFINE p == [k \in 1 .. b - a |-> a + k - 1]
             q == IF ends THEN <<END>> ELSE <<>>
  <1>1. /\ p \in Seq(Int) /\ Len(p) = b - a /\ DOMAIN p = 1 .. b - a
        /\ \A k \in 1 .. b - a : p[k] = a + k - 1
    <2>1. b - a \in Nat /\ \A k \in 1 .. b - a : a + k - 1 \in Int
      OBVIOUS
    <2>2. p \in [1 .. b - a -> Int]
      BY <2>1
    <2> QED  BY <2>1, <2>2
  <1>2. Delivery(a, b, ends) = p \o q
    BY DEF Delivery
  <1>3. ends => q = <<END>>
    OBVIOUS
  <1>4. ~ends => q = <<>>
    OBVIOUS
  <1> HIDE DEF p, q
  <1>5. Counts(p, a) /\ a + Len(p) \in Nat /\ Len(p) = b - a
    BY <1>1 DEF Counts
  <1>6. q \in Seq(Int) /\ Waiting(q, a + Len(p)) /\ Len(Frames(q)) = 0
    <2>1. CASE ends
      <3> DEFINE s == <<END>>
      <3>1. s \in Seq(Int) /\ s # <<>> /\ Len(s) = 1 /\ DOMAIN s = 1 .. 1 /\ s[1] = END
            /\ Head(s) = END
        OBVIOUS
      <3>2. q = s
        BY <1>3, <2>1
      <3> HIDE DEF s
      <3>3. Waiting(s, a + Len(p))
        BY <3>1 DEF Waiting
      <3>4. Len(Frames(s)) = 0
        BY <1>5, <3>1, <3>3, EndFacts
      <3> QED  BY <3>1, <3>2, <3>3, <3>4
    <2>2. CASE ~ends
      <3>1. DOMAIN <<>> = {} /\ Len(<<>>) = 0 /\ <<>> \in Seq(Int)
        OBVIOUS
      <3>2. Frames(<<>>) = <<>> /\ Waiting(<<>>, a + Len(p))
        BY <3>1 DEF Frames, Waiting
      <3>3. q = <<>>
        BY <1>4, <2>2
      <3> QED  BY <3>1, <3>2, <3>3
    <2> QED  BY <2>1, <2>2
  <1>7. /\ p \o q \in Seq(Int) /\ Waiting(p \o q, a)
        /\ Len(Frames(p \o q)) = Len(p) + Len(Frames(q))
    BY <1>1, <1>5, <1>6, JoinFacts
  <1>8. ~ends => p \o q = p
    BY <1>1, <1>4
  <1>9. Len(Frames(p \o q)) = b - a
    BY <1>5, <1>6, <1>7
  <1>10. ~ends => Counts(p \o q, a) /\ Len(p \o q) = b - a
    BY <1>5, <1>8
  <1> QED  BY <1>2, <1>7, <1>9, <1>10

(* The smaller of two numbers.                                             *)
LEMMA MinOfTwo ==
  ASSUME NEW m \in Int, NEW n \in Int
  PROVE  Min({m, n}) = IF m <= n THEN m ELSE n
  BY DEF Min

(* What fits into the room of a queue: END is what is left out first.      *)
LEMMA FittingFacts ==
  ASSUME NEW q \in Seq(Int), NEW a \in Nat, NEW room \in Nat, Waiting(q, a)
  PROVE  /\ Fitting(q, room) \in Seq(Int) /\ Len(Fitting(q, room)) <= room
         /\ Waiting(Fitting(q, room), a)
         /\ Counts(q, a) => Counts(Fitting(q, room), a)
         /\ Len(Frames(q)) <= room => Len(Frames(Fitting(q, room))) = Len(Frames(q))
         /\ Len(q) <= room => Fitting(q, room) = q
  <1>1. DOMAIN q = 1 .. Len(q) /\ (\A k \in 1 .. Len(q) : q[k] \in Int)
    OBVIOUS
  <1>5. Len(q) \in Nat
    OBVIOUS
  <1>2. Fitting(q, room) = SubSeq(q, 1, IF room <= Len(q) THEN room ELSE Len(q))
    <2>1. Min({room, Len(q)}) = IF room <= Len(q) THEN room ELSE Len(q)
      BY <1>5, MinOfTwo
    <2> QED  BY <2>1 DEF Fitting
  <1>3. CASE Len(q) <= room
    <2>1. (IF room <= Len(q) THEN room ELSE Len(q)) = Len(q)
      BY <1>5, <1>3
    <2>2. Fitting(q, room) = q
      BY <1>2, <2>1, SubSeqFull
    <2> QED  BY <1>3, <2>2
  <1>4. CASE ~(Len(q) <= room)
    <2> DEFINE e == Fitting(q, room)
    <2>1. e = SubSeq(q, 1, room)
      <3>1. (IF room <= Len(q) THEN room ELSE Len(q)) = room
        BY <1>5, <1>4
      <3> QED  BY <1>2, <3>1
    <2>2. \A i \in 1 .. room : i \in 1 .. Len(q) /\ i # Len(q)
      BY <1>5, <1>4, SMTT(40)
    <2>3. \A i \in 1 .. room : q[i] \in Int
      BY <1>1, <2>2
    <2> HIDE DEF e
    <2>4. e \in Seq(Int) /\ Len(e) = room /\ \A i \in 1 .. room : e[i] = q[i]
      BY <2>1, <2>3, SubSeqProperties, SMTT(40)
    <2>5. \A i \in 1 .. room : q[i] = a + i - 1
      BY <1>1, <2>2 DEF Waiting
    <2>6. DOMAIN e = 1 .. room
      BY <2>4
    <2>7. Counts(e, a)
      BY <2>4, <2>5, <2>6 DEF Counts
    <2>8. Waiting(e, a)
      BY <2>7 DEF Counts, Waiting
    <2>9. Frames(e) = e
      BY <2>4, <2>7, <2>8, FramesFacts
    <2>10. Len(Frames(q)) \in {Len(q), Len(q) - 1}
      BY FramesFacts
    <2>11. Len(Frames(q)) <= room => Len(Frames(q)) = room
      BY <1>5, <1>4, <2>10
    <2> QED  BY <1>4, <2>4, <2>7, <2>8, <2>9, <2>11 DEF e
  <1> QED  BY <1>3, <1>4

(* There is a first frame that has not been decoded.                       *)
LEMMA GapFacts ==
  ASSUME NEW from \in Nat, NEW most \in Nat, from <= most,
         NEW buf \in SUBSET Nat, most \notin buf
  PROVE  /\ FirstGap(from, most, buf) \in from .. most
         /\ FirstGap(from, most, buf) \notin buf
         /\ \A k \in from .. FirstGap(from, most, buf) - 1 : k \in buf
  <1> DEFINE T == {n \in Nat : from <= n /\ n \notin buf}
  <1>1. T \subseteq Nat /\ most \in T
    OBVIOUS
  <1>2. PICK n \in T : \A m \in T : n <= m
    BY <1>1, LeastNat
  <1>3. n \in from .. most /\ n \notin buf
    BY <1>1, <1>2
  <1>4. \A k \in from .. n - 1 : k \in buf
    BY <1>2
  <1>5. \E m \in from .. most : m \notin buf /\ \A k \in from .. m - 1 : k \in buf
    BY <1>3, <1>4
  <1> QED  BY <1>5 DEF FirstGap

-----------------------------------------------------------------------------
(* What a pass of the batcher does to a request.                           *)

Cleared(r) == nextIdx'[r] = 0 /\ decoded'[r] = {} /\ total'[r] = Unknown /\ r \notin reg'
SameMarks(r) == (r \in failed' <=> r \in failed) /\ (r \in harmed' <=> r \in harmed)
Receives(r, e) ==
    /\ e \in Seq(Int) /\ outq'[r] = outq[r] \o e
    /\ Waiting(e, nextIdx[r]) /\ Len(outq[r]) + Len(e) <= QMax

\* It has none, or it is closed.
Untouched(r) == r \notin reg /\ outq'[r] = outq[r] /\ Cleared(r) /\ SameMarks(r)

\* It fails: its decode raised, or a frame did not fit.
Broken(r) ==
    /\ r \in reg /\ Cleared(r) /\ r \in failed' /\ r \in harmed'
    /\ \E e : Receives(r, e)

\* It is not at its end yet.
Advanced(r) ==
    /\ r \in reg /\ r \in reg' /\ SameMarks(r)
    /\ nextIdx'[r] \in Nat /\ nextIdx'[r] <= frames[r]
    /\ decoded'[r] \subseteq 0 .. frames[r] - 1
    /\ total'[r] # Unknown => total'[r] = frames[r] /\ drive[r] = "done"
    /\ \E e : /\ Receives(r, e) /\ Counts(e, nextIdx[r])
              /\ Len(e) = nextIdx'[r] - nextIdx[r]

\* It has all its frames.
Completed(r) ==
    /\ r \in reg /\ Cleared(r) /\ SameMarks(r) /\ drive[r] = "done"
    /\ \E e : Receives(r, e) /\ Len(Frames(e)) = frames[r] - nextIdx[r]

(* Each request is untouched, broken, advanced or completed by a pass.     *)
LEMMA PassFacts ==
  ASSUME TypeRequest, TypeRegistry, FramesInv,
         \A r \in Streams : Len(outq[r]) <= QMax,
         NEW D \in SUBSET reg, NEW J \in SUBSET JobItem, NEW F \in SUBSET FinalItem,
         SoundJobs(J), SoundFinals(F), Pass(D, J, F)
  PROVE  /\ \A r \in Streams : Untouched(r) \/ Broken(r) \/ Advanced(r) \/ Completed(r)
         /\ \A r \in Streams : outq'[r] \in Seq(Int)
         /\ TypeRegistry'
  <1> DEFINE open == reg \ D
             buf == [r \in Streams |-> IF r \in open
                       THEN decoded[r] \cup {x.i : x \in {j \in J : j.r = r}} ELSE {}]
             tot == [r \in Streams |->
                       IF r \notin open THEN Unknown
                       ELSE IF \E f \in F : f.r = r THEN (CHOOSE f \in F : f.r = r).i
                       ELSE total[r]]
             upto == [r \in Streams |-> FirstGap(nextIdx[r], MaxFrames[r], buf[r])]
             room(r) == QMax - Len(outq[r])
             over == {r \in open : upto[r] - nextIdx[r] > room(r)}
             complete == {r \in open \ over : tot[r] # Unknown /\ upto[r] >= tot[r]}
             out(r) == Delivery(nextIdx[r], upto[r], r \in complete)
             gone == D \cup over \cup complete
  <1>1. /\ outq' = [r \in Streams |-> IF r \notin open THEN outq[r]
                      ELSE outq[r] \o Fitting(out(r), room(r))]
        /\ failed' = (failed \cup D) \cup over
        /\ harmed' = (harmed \cup D) \cup over
        /\ reg' = reg \ gone
        /\ nextIdx' = [r \in Streams |-> IF r \in gone THEN 0 ELSE upto[r]]
        /\ decoded' = [r \in Streams |-> IF r \in gone THEN {} ELSE buf[r] \ (0 .. upto[r])]
        /\ total' = [r \in Streams |-> IF r \in gone THEN Unknown ELSE tot[r]]
    BY DEF Pass
  <1>2. /\ reg \subseteq Streams /\ open \subseteq reg /\ over \subseteq open
        /\ complete \subseteq open /\ over \cap complete = {}
        /\ \A r \in open \ over : ~(upto[r] - nextIdx[r] > room(r))
        /\ \A r \in complete : tot[r] # Unknown /\ upto[r] >= tot[r]
    BY DEF TypeRegistry
  <1>3. ASSUME NEW r \in Streams
        PROVE  /\ buf[r] \subseteq 0 .. frames[r] - 1
               /\ r \notin open => buf[r] = {} /\ tot[r] = Unknown
    <2>1. decoded[r] \subseteq 0 .. frames[r] - 1 /\ frames[r] \in Nat
      BY DEF FramesInv, FramesAt, TypeRequest
    <2>2. ASSUME NEW x \in J, x.r = r PROVE x.i \in 0 .. frames[r] - 1
      <3>1. x.i < frames[r] /\ x.i \in Nat
        BY <2>2 DEF SoundJobs, JobItem
      <3> QED  BY <2>1, <3>1
    <2> QED  BY <2>1, <2>2
  <1>4. ASSUME NEW r \in Streams, tot[r] # Unknown
        PROVE  tot[r] = frames[r] /\ drive[r] = "done"
    <2>1. CASE \E f \in F : f.r = r
      <3>1. PICK f \in F : f = (CHOOSE g \in F : g.r = r) /\ f.r = r
        BY <2>1
      <3>2. f.i = frames[r] /\ drive[r] = "done"
        BY <3>1 DEF SoundFinals
      <3> QED  BY <1>4, <2>1, <3>1, <3>2
    <2>2. CASE ~ \E f \in F : f.r = r
      <3>1. tot[r] = total[r]
        BY <1>4, <2>2
      <3> QED  BY <1>4, <3>1 DEF FramesInv, FramesAt
    <2> QED  BY <2>1, <2>2
  <1>5. \A r \in Streams : upto[r] = FirstGap(nextIdx[r], MaxFrames[r], buf[r])
    OBVIOUS
  <1> HIDE DEF open, buf, tot, upto, over, complete
  <1>6. ASSUME NEW r \in Streams
        PROVE  /\ upto[r] \in Nat /\ nextIdx[r] \in Nat /\ frames[r] \in Nat
               /\ nextIdx[r] <= upto[r] /\ upto[r] <= frames[r]
    <2>1. /\ nextIdx[r] \in Nat /\ frames[r] \in Nat /\ MaxFrames[r] \in Nat
          /\ nextIdx[r] <= frames[r] /\ frames[r] <= MaxFrames[r]
      BY DEF FramesInv, FramesAt, TypeRequest, TypeRegistry
    <2>2. buf[r] \in SUBSET Nat /\ MaxFrames[r] \notin buf[r] /\ nextIdx[r] <= MaxFrames[r]
          /\ frames[r] \notin buf[r]
      BY <1>3, <2>1
    <2>3. /\ upto[r] \in nextIdx[r] .. MaxFrames[r]
          /\ \A k \in nextIdx[r] .. upto[r] - 1 : k \in buf[r]
      <3> DEFINE from == nextIdx[r]
                 most == MaxFrames[r]
                 b == buf[r]
      <3>1. from \in Nat /\ most \in Nat /\ from <= most /\ b \in SUBSET Nat /\ most \notin b
            /\ upto[r] = FirstGap(from, most, b)
        BY <1>5, <2>1, <2>2
      <3> HIDE DEF from, most, b
      <3>2. /\ FirstGap(from, most, b) \in from .. most
            /\ \A k \in from .. FirstGap(from, most, b) - 1 : k \in b
        BY <3>1, GapFacts
      <3>3. upto[r] \in from .. most /\ \A k \in from .. upto[r] - 1 : k \in b
        BY <3>1, <3>2
      <3> QED  BY <3>3 DEF from, most, b
    <2>4. ~(frames[r] < upto[r])
      BY <2>1, <2>2, <2>3
    <2> QED  BY <2>1, <2>3, <2>4
  <1>7. ASSUME NEW r \in Streams
        PROVE  /\ outq[r] \in Seq(Int) /\ Len(outq[r]) \in Nat
               /\ room(r) \in Nat /\ Len(outq[r]) + room(r) = QMax
    <2>1. outq[r] \in Seq(Int) /\ Len(outq[r]) \in Nat /\ QMax \in Nat
      BY DEF TypeRegistry
    <2>2. Len(outq[r]) <= QMax
      OBVIOUS
    <2> QED  BY <2>1, <2>2
  <1>8. ASSUME NEW r \in Streams, r \notin open PROVE Untouched(r) \/ Broken(r)
    <2>1. CASE r \in D
      <3>1. Cleared(r) /\ r \in reg /\ r \in failed' /\ r \in harmed' /\ outq'[r] = outq[r]
        BY <1>1, <1>8, <2>1 DEF Cleared
      <3>2. outq[r] \o <<>> = outq[r] /\ <<>> \in Seq(Int) /\ Len(<<>>) = 0
        BY <1>7, ConcatEmptySeq, EmptySeq
      <3>3. Waiting(<<>>, nextIdx[r])
        <4>1. DOMAIN <<>> = {}
          OBVIOUS
        <4> QED  BY <4>1 DEF Waiting
      <3>4. Receives(r, <<>>)
        BY <1>7, <3>1, <3>2, <3>3 DEF Receives
      <3> QED  BY <3>1, <3>4 DEF Broken
    <2>2. CASE r \notin D
      <3>1. r \notin reg /\ r \notin gone
        BY <1>2, <1>8, <2>2 DEF open
      <3>2. nextIdx[r] = 0 /\ buf[r] = {} /\ tot[r] = Unknown
        BY <1>3, <1>8, <3>1 DEF FramesInv, FramesAt
      <3>3. upto[r] = 0
        <4>1. MaxFrames[r] \in Nat /\ 0 <= MaxFrames[r]
          OBVIOUS
        <4>2. /\ upto[r] \in 0 .. MaxFrames[r]
              /\ \A k \in 0 .. upto[r] - 1 : k \in {}
          BY <1>5, <3>2, <4>1, GapFacts
        <4>3. ~(0 \in 0 .. upto[r] - 1)
          BY <4>2
        <4> QED  BY <4>2, <4>3
      <3>4. Cleared(r) /\ outq'[r] = outq[r]
        BY <1>1, <1>8, <3>1, <3>2, <3>3 DEF Cleared
      <3>5. SameMarks(r)
        BY <1>1, <1>2, <1>8, <2>2 DEF SameMarks
      <3> QED  BY <3>1, <3>4, <3>5 DEF Untouched
    <2> QED  BY <2>1, <2>2
  <1>9. ASSUME NEW r \in open PROVE Broken(r) \/ Advanced(r) \/ Completed(r)
    <2> DEFINE d == out(r)
               e == Fitting(d, room(r))
    <2>1. r \in Streams /\ r \in reg /\ r \notin D
      BY <1>2 DEF open
    <2>2. /\ d \in Seq(Int) /\ Waiting(d, nextIdx[r])
          /\ Len(Frames(d)) = upto[r] - nextIdx[r]
          /\ r \notin complete => Counts(d, nextIdx[r]) /\ Len(d) = upto[r] - nextIdx[r]
      <3>1. (r \in complete) \in BOOLEAN
        OBVIOUS
      <3> QED  BY <1>6, <2>1, <3>1, DeliveryFacts
    <2>3. outq'[r] = outq[r] \o e
      BY <1>1, <2>1
    <2> HIDE DEF d
    <2>4. /\ e \in Seq(Int) /\ Len(e) <= room(r)
          /\ Waiting(e, nextIdx[r])
          /\ Counts(d, nextIdx[r]) => Counts(e, nextIdx[r])
          /\ Len(Frames(d)) <= room(r) => Len(Frames(e)) = Len(Frames(d))
          /\ Len(d) <= room(r) => e = d
      <3> DEFINE a == nextIdx[r]
                 m == room(r)
      <3>1. a \in Nat /\ m \in Nat /\ Waiting(d, a) /\ d \in Seq(Int)
        BY <1>6, <1>7, <2>1, <2>2
      <3> HIDE DEF a, m
      <3>2. /\ Fitting(d, m) \in Seq(Int) /\ Len(Fitting(d, m)) <= m
            /\ Waiting(Fitting(d, m), a)
            /\ Counts(d, a) => Counts(Fitting(d, m), a)
            /\ Len(Frames(d)) <= m => Len(Frames(Fitting(d, m))) = Len(Frames(d))
            /\ Len(d) <= m => Fitting(d, m) = d
        BY <3>1, FittingFacts
      <3> QED  BY <3>2 DEF a, m
    <2> HIDE DEF e
    <2>5. Receives(r, e)
      <3>1. Len(e) \in Nat /\ Len(outq[r]) + Len(e) <= QMax
        BY <1>7, <2>1, <2>4
      <3> QED  BY <2>3, <2>4, <3>1 DEF Receives
    <2>6. CASE r \in over
      <3>1. Cleared(r) /\ r \in failed' /\ r \in harmed'
        BY <1>1, <2>1, <2>6 DEF Cleared
      <3> QED  BY <2>1, <2>5, <3>1 DEF Broken
    <2>7. CASE r \in complete
      <3>1. Cleared(r) /\ SameMarks(r)
        BY <1>1, <1>2, <2>1, <2>7 DEF Cleared, SameMarks
      <3>2. tot[r] = frames[r] /\ drive[r] = "done" /\ upto[r] >= tot[r]
        BY <1>2, <1>4, <2>1, <2>7
      <3>3. upto[r] = frames[r]
        BY <1>6, <2>1, <3>2
      <3>4. r \notin over
        BY <1>2, <2>7
      <3>5. upto[r] - nextIdx[r] <= room(r)
        BY <1>2, <1>6, <1>7, <2>1, <3>4
      <3>6. Len(Frames(e)) = frames[r] - nextIdx[r]
        BY <2>2, <2>4, <3>3, <3>5
      <3> QED  BY <2>1, <2>5, <3>1, <3>2, <3>6 DEF Completed
    <2>8. CASE r \notin over /\ r \notin complete
      <3>1. /\ r \in reg' /\ SameMarks(r) /\ nextIdx'[r] = upto[r]
            /\ decoded'[r] = buf[r] \ (0 .. upto[r]) /\ total'[r] = tot[r]
        BY <1>1, <2>1, <2>8 DEF SameMarks
      <3>2. upto[r] - nextIdx[r] <= room(r)
        BY <1>2, <1>6, <1>7, <2>1, <2>8
      <3>3. Counts(e, nextIdx[r]) /\ Len(e) = nextIdx'[r] - nextIdx[r]
        BY <2>2, <2>4, <2>8, <3>1, <3>2
      <3>4. nextIdx'[r] \in Nat /\ nextIdx'[r] <= frames[r]
        BY <1>6, <2>1, <3>1
      <3>5. decoded'[r] \subseteq 0 .. frames[r] - 1
        BY <1>3, <2>1, <3>1
      <3>6. total'[r] # Unknown => total'[r] = frames[r] /\ drive[r] = "done"
        BY <1>4, <2>1, <3>1
      <3> QED  BY <2>1, <2>5, <3>1, <3>3, <3>4, <3>5, <3>6 DEF Advanced
    <2> QED  BY <2>6, <2>7, <2>8
  <1>10. \A r \in Streams : Untouched(r) \/ Broken(r) \/ Advanced(r) \/ Completed(r)
    BY <1>8, <1>9
  <1>11. ASSUME NEW r \in Streams
         PROVE  /\ outq'[r] \in Seq(Int) /\ nextIdx'[r] \in Nat /\ decoded'[r] \in SUBSET Nat
                /\ total'[r] \in Nat \cup {Unknown}
    <2>1. outq[r] \in Seq(Int) /\ frames[r] \in Nat
      BY <1>6, <1>7
    <2>2. \A e : Receives(r, e) => outq'[r] \in Seq(Int)
      BY <2>1, ConcatProperties DEF Receives
    <2>3. CASE Untouched(r)
      BY <2>1, <2>3 DEF Untouched, Cleared
    <2>4. CASE Broken(r) \/ Completed(r)
      BY <2>2, <2>4 DEF Broken, Completed, Cleared
    <2>5. CASE Advanced(r)
      <3>1. /\ nextIdx'[r] \in Nat /\ decoded'[r] \subseteq 0 .. frames[r] - 1
            /\ total'[r] = Unknown \/ total'[r] = frames[r]
            /\ \E e : Receives(r, e)
        BY <2>5 DEF Advanced
      <3>2. 0 .. frames[r] - 1 \subseteq Nat
        BY <2>1
      <3> QED  BY <2>1, <2>2, <3>1, <3>2
    <2> QED  BY <1>10, <2>3, <2>4, <2>5
  <1>12. /\ outq' = [r \in Streams |-> outq'[r]] /\ nextIdx' = [r \in Streams |-> nextIdx'[r]]
         /\ decoded' = [r \in Streams |-> decoded'[r]]
         /\ total' = [r \in Streams |-> total'[r]]
    BY <1>1
  <1>13. reg' \subseteq Streams /\ failed' \subseteq Streams /\ harmed' \subseteq Streams
    BY <1>1, <1>2 DEF TypeRegistry
  <1>14. TypeRegistry'
    BY <1>11, <1>12, <1>13 DEF TypeRegistry
  <1> QED  BY <1>10, <1>11, <1>14

(* The number of frames past the queue.                                    *)
LEMMA PastType ==
  ASSUME TypeRequest, NEW r \in Streams
  PROVE  Past(r) \in Nat
  <1>1. got[r] \in Seq(Int) /\ cbuf[r] \in Seq(Int)
    BY DEF TypeRequest
  <1>2. Len(got[r]) \in Nat /\ Len(cbuf[r]) \in Nat
    BY <1>1
  <1>3. \A m, n \in Nat : m + n \in Nat
    OBVIOUS
  <1>4. Len(got[r]) + Len(cbuf[r]) \in Nat
    BY <1>2, <1>3
  <1> QED  BY <1>4 DEF Past

(* A pass keeps what the invariant says of every request.                  *)
LEMMA PassKeeps ==
  ASSUME StreamInv,
         NEW D \in SUBSET reg, NEW J \in SUBSET JobItem, NEW F \in SUBSET FinalItem,
         SoundJobs(J), SoundFinals(F), Pass(D, J, F), UNCHANGED <<request, consumer>>
  PROVE  TypeRequest' /\ TypeRegistry' /\ FramesInv' /\ QueueInv' /\ FailInv'
  <1>1. TypeRequest /\ TypeRegistry /\ FramesInv /\ QueueInv /\ FailInv
    BY DEF StreamInv, TypeInv
  <1>2. /\ drive' = drive /\ frames' = frames /\ dispatched' = dispatched
        /\ cons' = cons /\ cbuf' = cbuf /\ got' = got
    BY DEF request, consumer
  <1>3. /\ \A r \in Streams : Untouched(r) \/ Broken(r) \/ Advanced(r) \/ Completed(r)
        /\ \A r \in Streams : outq'[r] \in Seq(Int)
        /\ TypeRegistry'
    <2>1. \A r \in Streams : Len(outq[r]) <= QMax
      BY <1>1 DEF QueueInv, QueueAt
    <2> QED  BY <1>1, <2>1, PassFacts
  <1>4. TypeRequest'
    BY <1>1, <1>2 DEF TypeRequest
  <1>5. ASSUME NEW r \in Streams PROVE FramesAt(r)' /\ QueueAt(r)' /\ FailAt(r)'
    <2>1. FramesAt(r) /\ QueueAt(r) /\ FailAt(r)
      BY <1>1 DEF FramesInv, QueueInv, FailInv
    <2>2. /\ frames[r] \in Nat /\ outq[r] \in Seq(Int) /\ Len(outq[r]) \in Nat
          /\ Past(r) \in Nat /\ Past(r)' = Past(r)
      <3>2. frames[r] \in Nat /\ outq[r] \in Seq(Int)
        BY <1>1 DEF TypeRequest, TypeRegistry
      <3>3. Len(outq[r]) \in Nat
        BY <3>2
      <3>4. Past(r) \in Nat
        BY <1>1, PastType
      <3>5. Past(r)' = Past(r)
        BY <1>2 DEF Past
      <3> QED  BY <3>2, <3>3, <3>4, <3>5
    <2>3. Live(r)' <=> Live(r)
      BY <1>2 DEF Live
    <2>4. r \in reg => cons[r] # "off" /\ cons[r] # "clean"
      BY <2>1 DEF FramesAt, FailAt
    <2>5. FramesAt(r)'
      <3>1. CASE Untouched(r)
        BY <1>2, <2>1, <2>2, <3>1 DEF Untouched, Cleared, SameMarks, FramesAt
      <3>2. CASE Broken(r) \/ Completed(r)
        BY <1>2, <2>1, <2>2, <2>4, <3>2 DEF Broken, Completed, Cleared, FramesAt
      <3>3. CASE Advanced(r)
        BY <1>2, <2>1, <2>2, <2>4, <3>3 DEF Advanced, FramesAt
      <3> QED  BY <1>3, <3>1, <3>2, <3>3
    <2>6. ASSUME NEW e, Receives(r, e), r \in reg
          PROVE  /\ Waiting(outq'[r], Past(r)) /\ Len(outq'[r]) = Len(outq[r]) + Len(e)
                 /\ Len(outq'[r]) <= QMax
                 /\ Counts(e, nextIdx[r]) => Counts(outq'[r], Past(r))
                 /\ Len(Frames(outq'[r])) = Len(outq[r]) + Len(Frames(e))
      <3> DEFINE p == outq[r]
                 a == Past(r)
      <3>1. /\ p \in Seq(Int) /\ e \in Seq(Int) /\ a \in Nat /\ outq'[r] = p \o e
            /\ Counts(p, a) /\ Waiting(e, a + Len(p)) /\ a + Len(p) = nextIdx[r]
            /\ Len(p) + Len(e) <= QMax
        BY <2>1, <2>2, <2>6 DEF Receives, QueueAt
      <3> HIDE DEF p, a
      <3>2. /\ Len(p \o e) = Len(p) + Len(e) /\ Waiting(p \o e, a)
            /\ Counts(e, a + Len(p)) => Counts(p \o e, a)
            /\ Len(Frames(p \o e)) = Len(p) + Len(Frames(e))
        BY <3>1, JoinFacts
      <3>3. /\ Waiting(outq'[r], a) /\ Len(outq'[r]) = Len(p) + Len(e)
            /\ Len(outq'[r]) <= QMax
            /\ Counts(e, nextIdx[r]) => Counts(outq'[r], a)
            /\ Len(Frames(outq'[r])) = Len(p) + Len(Frames(e))
        BY <3>1, <3>2
      <3> QED  BY <3>3 DEF p, a
    <2>7. QueueAt(r)' /\ FailAt(r)'
      <3>1. CASE Untouched(r)
        <4>1. outq'[r] = outq[r] /\ r \notin reg' /\ r \notin reg
          BY <3>1 DEF Untouched, Cleared
        <4>2. QueueAt(r)'
          BY <1>2, <2>1, <2>2, <4>1 DEF QueueAt
        <4>3. Whole(r)' <=> Whole(r)
          BY <1>2, <2>2, <4>1 DEF Whole
        <4>4. FailAt(r)'
          BY <1>2, <2>1, <2>3, <3>1, <4>1, <4>3 DEF Untouched, SameMarks, FailAt
        <4> QED  BY <4>2, <4>4
      <3>2. CASE Broken(r)
        <4>1. PICK e : Receives(r, e)
          BY <3>2 DEF Broken
        <4>2. r \in reg /\ r \notin reg' /\ r \in failed'
          BY <3>2 DEF Broken, Cleared
        <4>3. Waiting(outq'[r], Past(r)) /\ Len(outq'[r]) <= QMax
          BY <2>6, <4>1, <4>2
        <4>4. QueueAt(r)'
          BY <1>2, <2>1, <2>2, <2>4, <4>2, <4>3 DEF QueueAt
        <4>5. FailAt(r)'
          BY <1>2, <2>3, <2>4, <4>2 DEF FailAt
        <4> QED  BY <4>4, <4>5
      <3>3. CASE Completed(r)
        <4>1. PICK e : Receives(r, e) /\ Len(Frames(e)) = frames[r] - nextIdx[r]
          BY <3>3 DEF Completed
        <4>2. r \in reg /\ r \notin reg' /\ SameMarks(r) /\ drive[r] = "done"
          BY <3>3 DEF Completed, Cleared
        <4>3. /\ Waiting(outq'[r], Past(r)) /\ Len(outq'[r]) <= QMax
              /\ Len(Frames(outq'[r])) = Len(outq[r]) + Len(Frames(e))
          BY <2>6, <4>1, <4>2
        <4>4. QueueAt(r)'
          BY <1>2, <2>1, <2>2, <2>4, <4>2, <4>3 DEF QueueAt
        <4>5. Whole(r)'
          <5>1. Past(r) + Len(outq[r]) = nextIdx[r] /\ nextIdx[r] <= frames[r]
            BY <2>1, <4>2 DEF QueueAt, FramesAt
          <5>2. Past(r) + Len(Frames(outq'[r])) = frames[r]
            BY <2>2, <4>1, <4>3, <5>1, SMTT(40)
          <5> QED  BY <1>2, <2>2, <4>2, <5>2 DEF Whole
        <4>6. FailAt(r)'
          BY <1>2, <2>1, <2>3, <2>4, <4>2, <4>5 DEF FailAt, SameMarks
        <4> QED  BY <4>4, <4>6
      <3>4. CASE Advanced(r)
        <4>1. PICK e : /\ Receives(r, e) /\ Counts(e, nextIdx[r])
                       /\ Len(e) = nextIdx'[r] - nextIdx[r]
          BY <3>4 DEF Advanced
        <4>2. r \in reg /\ r \in reg' /\ SameMarks(r) /\ nextIdx'[r] \in Nat
          BY <3>4 DEF Advanced
        <4>3. /\ Waiting(outq'[r], Past(r)) /\ Len(outq'[r]) <= QMax
              /\ Counts(outq'[r], Past(r)) /\ Len(outq'[r]) = Len(outq[r]) + Len(e)
          BY <2>6, <4>1, <4>2
        <4>4. Past(r) + Len(outq'[r]) = nextIdx'[r]
          <5>1. Past(r) + Len(outq[r]) = nextIdx[r] /\ nextIdx[r] \in Nat
            BY <1>1, <2>1, <4>2 DEF QueueAt, TypeRegistry
          <5>2. Len(e) = nextIdx'[r] - nextIdx[r] /\ Len(outq'[r]) = Len(outq[r]) + Len(e)
            BY <4>1, <4>3
          <5>3. nextIdx'[r] \in Nat /\ Past(r) \in Nat /\ Len(outq[r]) \in Nat
            BY <2>2, <4>2
          <5> QED  BY <5>1, <5>2, <5>3
        <4>5. QueueAt(r)'
          BY <1>2, <2>1, <2>2, <2>4, <4>2, <4>3, <4>4 DEF QueueAt
        <4>6. FailAt(r)'
          BY <1>2, <2>1, <2>3, <2>4, <4>2 DEF FailAt, SameMarks
        <4> QED  BY <4>5, <4>6
      <3> QED  BY <1>3, <3>1, <3>2, <3>3, <3>4
    <2> QED  BY <2>5, <2>7
  <1> QED  BY <1>3, <1>4, <1>5 DEF FramesInv, QueueInv, FailInv

-----------------------------------------------------------------------------
(* Lemmas about the work that waits for the batcher.                       *)

(* An item is a window job, a finalization or STOP.                        *)
LEMMA ItemFacts ==
  ASSUME NEW x \in Item
  PROVE  /\ x.kind = "job" => x \in JobItem
         /\ x.kind = "final" => x \in FinalItem
         /\ x \in JobItem => x \notin FinalItem /\ x.r \in Streams /\ x.i \in Nat
         /\ x \in FinalItem => x \notin JobItem /\ x.r \in Streams /\ x.i \in Nat
         /\ x = STOP => x \notin JobItem /\ x \notin FinalItem
  BY DEF Item, JobItem, FinalItem, STOP

(* The windows a drive submits.                                            *)
LEMMA JobsFacts ==
  ASSUME NEW r \in Streams, NEW a \in Nat, NEW b \in Nat, a <= b
  PROVE  /\ Jobs(r, a, b) \in Seq(Item)
         /\ \A x \in ToSet(Jobs(r, a, b)) : x \in JobItem /\ x.r = r /\ x.i < b
  <1> DEFINE q == Jobs(r, a, b)
  <1>1. b - a \in Nat /\ q = [k \in 1 .. b - a |-> Job(r, a + k - 1)]
    BY DEF Jobs
  <1>2. ASSUME NEW k \in 1 .. b - a
        PROVE  Job(r, a + k - 1) \in JobItem /\ Job(r, a + k - 1).r = r
               /\ Job(r, a + k - 1).i < b
    <2>1. a + k - 1 \in Nat /\ a + k - 1 < b
      BY <1>1
    <2> QED  BY <2>1 DEF Job, JobItem
  <1> HIDE DEF q
  <1>3. q \in [1 .. b - a -> Item]
    BY <1>1, <1>2 DEF Item
  <1>4. q \in Seq(Item) /\ DOMAIN q = 1 .. b - a
    BY <1>1, <1>3, FunctionSeq
  <1>5. \A x \in ToSet(q) : x \in JobItem /\ x.r = r /\ x.i < b
    BY <1>1, <1>2, <1>4 DEF ToSet
  <1> QED  BY <1>4, <1>5 DEF q

(* What the end of a drive puts into the batcher's queue.                  *)
LEMMA FlushFacts ==
  ASSUME TypeInv, NEW r \in Streams, dispatched[r] <= frames[r], Flush(r)
  PROVE  /\ inq' \in Seq(Item)
         /\ \A x \in ToSet(inq') :
               \/ x \in ToSet(inq)
               \/ x \in JobItem /\ x.r = r /\ x.i < frames[r]
               \/ x \in FinalItem /\ x.r = r /\ x.i = frames[r]
         /\ drive' = [drive EXCEPT ![r] = "done"]
         /\ dispatched' = [dispatched EXCEPT ![r] = frames[r]]
  <1> DEFINE p == Jobs(r, dispatched[r], frames[r])
             f == <<Final(r, frames[r])>>
  <1>1. inq \in Seq(Item) /\ frames[r] \in Nat /\ dispatched[r] \in Nat
    BY DEF TypeInv, TypeRequest, TypeBatcher
  <1>2. p \in Seq(Item) /\ \A x \in ToSet(p) : x \in JobItem /\ x.r = r /\ x.i < frames[r]
    BY <1>1, JobsFacts
  <1>3. /\ Final(r, frames[r]) \in FinalItem /\ Final(r, frames[r]).r = r
        /\ Final(r, frames[r]).i = frames[r]
    BY <1>1 DEF Final, FinalItem
  <1>4. f \in Seq(Item) /\ ToSet(f) = {Final(r, frames[r])}
    <2>1. Final(r, frames[r]) \in Item
      BY <1>3 DEF Item
    <2> QED  BY <2>1, ShortSeqFacts
  <1>5. inq' = inq \o (p \o f)
    BY DEF Flush, TailAndFinal
  <1> HIDE DEF p, f
  <1>6. p \o f \in Seq(Item) /\ ToSet(p \o f) = ToSet(p) \cup ToSet(f)
    BY <1>2, <1>4, ConcatFacts
  <1>7. inq' \in Seq(Item) /\ ToSet(inq') = ToSet(inq) \cup ToSet(p \o f)
    <2> DEFINE g == p \o f
    <2>1. g \in Seq(Item) /\ inq \in Seq(Item) /\ inq' = inq \o g
      BY <1>1, <1>5, <1>6
    <2> HIDE DEF g
    <2>2. inq \o g \in Seq(Item) /\ ToSet(inq \o g) = ToSet(inq) \cup ToSet(g)
      BY <2>1, ConcatFacts
    <2>3. inq' \in Seq(Item) /\ ToSet(inq') = ToSet(inq) \cup ToSet(g)
      BY <2>1, <2>2
    <2> QED  BY <2>3 DEF g
  <1> QED  BY <1>2, <1>3, <1>4, <1>6, <1>7 DEF Flush

(* push() submits no window twice and none that is not there.              *)
LEMMA ReadyFacts ==
  ASSUME NEW n \in Nat
  PROVE  Ready(n) \in Nat /\ Ready(n) <= n /\ Ready(n) <= Ready(n + 1)
  BY DEF Ready

(* A request that a step does not touch.                                   *)
Same(s) ==
    /\ drive'[s] = drive[s] /\ frames'[s] = frames[s] /\ dispatched'[s] = dispatched[s]
    /\ cons'[s] = cons[s] /\ cbuf'[s] = cbuf[s] /\ got'[s] = got[s]
    /\ outq'[s] = outq[s]
    /\ nextIdx'[s] = nextIdx[s] /\ decoded'[s] = decoded[s] /\ total'[s] = total[s]
    /\ s \in reg' <=> s \in reg
    /\ s \in failed' <=> s \in failed
    /\ s \in harmed' <=> s \in harmed

At(s) == FramesAt(s) /\ QueueAt(s) /\ FailAt(s)

(* The invariant of a request that a step does not touch.                  *)
LEMMA SameAt ==
  ASSUME NEW s \in Streams, Same(s), At(s)
  PROVE  At(s)'
  <1>1. FramesAt(s)'
    BY DEF Same, At, FramesAt
  <1>2. Past(s)' = Past(s) /\ (Live(s)' <=> Live(s))
    BY DEF Same, Past, Live
  <1>3. QueueAt(s)'
    BY <1>2 DEF Same, At, QueueAt
  <1>4. Whole(s)' <=> Whole(s)
    BY <1>2 DEF Same, Whole
  <1>5. FailAt(s)'
    BY <1>2, <1>4 DEF Same, At, FailAt
  <1> QED  BY <1>1, <1>3, <1>5 DEF At

(* The invariant, request by request.                                      *)
LEMMA InvAt ==
  StreamInv <=> TypeInv /\ WorkInv /\ \A s \in Streams : At(s)
  BY DEF StreamInv, FramesInv, QueueInv, FailInv, At

(* The same after a step.                                                  *)
LEMMA InvNext ==
  ASSUME TypeInv', WorkInv', \A s \in Streams : At(s)'
  PROVE  StreamInv'
  BY DEF StreamInv, FramesInv, QueueInv, FailInv, At

-----------------------------------------------------------------------------
(* The steps of a request's own tasks.                                     *)

(* A request is opened, or refused because the engine is dead.             *)
LEMMA OpenKeeps ==
  ASSUME StreamInv, NEW r \in Streams, Open(r) \/ OpenRefused(r)
  PROVE  StreamInv'
  <1>1. TypeInv /\ WorkInv /\ (\A s \in Streams : At(s)) /\ cons[r] = "off"
    BY InvAt DEF Open, OpenRefused
  <1>2. At(r) /\ drive[r] = "off" /\ r \notin reg /\ r \notin harmed
    BY <1>1 DEF At, FramesAt
  <1>3. CASE OpenRefused(r)
    <2>1. /\ cons' = [cons EXCEPT ![r] = "error"]
          /\ drive' = drive /\ frames' = frames /\ dispatched' = dispatched
          /\ cbuf' = cbuf /\ got' = got /\ outq' = outq /\ inq' = inq /\ reg' = reg
          /\ nextIdx' = nextIdx /\ decoded' = decoded /\ total' = total
          /\ failed' = failed /\ harmed' = harmed /\ batPc' = batPc /\ live' = live
          /\ finals' = finals /\ stopping' = stopping /\ failures' = failures
          /\ engineDead' = engineDead
      BY <1>3 DEF OpenRefused, request, registry, pass
    <2>2. cons \in [Streams -> ConsumerPcs] /\ cons'[r] = "error"
      BY <1>1, <2>1 DEF TypeInv, TypeRequest
    <2>3. TypeInv'
      BY <1>1, <2>1 DEF TypeInv, TypeRequest, TypeRegistry, TypeBatcher, ConsumerPcs
    <2>4. WorkInv'
      BY <1>1, <2>1 DEF WorkInv, SoundJobs, SoundFinals
    <2>5. At(r)'
      <3>1. FramesAt(r)'
        BY <1>2, <2>1, <2>2 DEF At, FramesAt
      <3>2. Past(r)' = Past(r)
        BY <2>1 DEF Past
      <3>3. QueueAt(r)'
        BY <1>2, <2>1, <2>2, <3>2 DEF At, QueueAt
      <3>4. FailAt(r)'
        BY <2>2 DEF FailAt, Live
      <3> QED  BY <3>1, <3>3, <3>4 DEF At
    <2>6. ASSUME NEW s \in Streams, s # r PROVE At(s)'
      <3>1. Same(s)
        BY <2>1, <2>2, <2>6 DEF Same
      <3> QED  BY <1>1, <3>1, SameAt
    <2> QED  BY <2>3, <2>4, <2>5, <2>6, InvNext
  <1>4. CASE Open(r)
    <2>1. /\ cons' = [cons EXCEPT ![r] = "get"] /\ drive' = [drive EXCEPT ![r] = "running"]
          /\ reg' = reg \cup {r}
          /\ frames' = frames /\ dispatched' = dispatched
          /\ cbuf' = cbuf /\ got' = got /\ outq' = outq /\ inq' = inq
          /\ nextIdx' = nextIdx /\ decoded' = decoded /\ total' = total
          /\ failed' = failed /\ harmed' = harmed /\ batPc' = batPc /\ live' = live
          /\ finals' = finals /\ stopping' = stopping /\ failures' = failures
          /\ engineDead' = engineDead
      BY <1>4 DEF Open, pass
    <2>2. /\ cons \in [Streams -> ConsumerPcs] /\ drive \in [Streams -> DrivePcs]
          /\ cons'[r] = "get" /\ drive'[r] = "running"
      BY <1>1, <2>1 DEF TypeInv, TypeRequest
    <2>3. TypeInv'
      BY <1>1, <2>1
      DEF TypeInv, TypeRequest, TypeRegistry, TypeBatcher, ConsumerPcs, DrivePcs
    <2>4. WorkInv'
      <3>1. \A x : drive[x.r] = "done" => drive'[x.r] = "done"
        BY <1>2, <2>1
      <3>2. SoundFinals(ToSet(inq)) => SoundFinals(ToSet(inq))'
        BY <2>1, <3>1 DEF SoundFinals
      <3>3. SoundFinals(finals) => SoundFinals(finals)'
        BY <2>1, <3>1 DEF SoundFinals
      <3> QED  BY <1>1, <2>1, <3>2, <3>3 DEF WorkInv, SoundJobs
    <2>5. At(r)'
      <3>1. FramesAt(r)'
        BY <1>2, <2>1, <2>2 DEF At, FramesAt
      <3>2. Past(r)' = Past(r) /\ Past(r) = 0 /\ outq[r] = <<>> /\ nextIdx[r] = 0
        BY <1>1, <1>2, <2>1 DEF At, QueueAt, FramesAt, Past
      <3>3. Counts(<<>>, 0) /\ Len(<<>>) = 0
        <4>1. DOMAIN <<>> = {} /\ Len(<<>>) = 0
          OBVIOUS
        <4> QED  BY <4>1 DEF Counts
      <3>4. QueueAt(r)'
        BY <1>2, <2>1, <2>2, <3>2, <3>3 DEF At, QueueAt
      <3>5. FailAt(r)'
        BY <1>2, <2>1, <2>2 DEF FailAt, Live
      <3> QED  BY <3>1, <3>4, <3>5 DEF At
    <2>6. ASSUME NEW s \in Streams, s # r PROVE At(s)'
      <3>1. Same(s)
        BY <2>1, <2>2, <2>6 DEF Same
      <3> QED  BY <1>1, <3>1, SameAt
    <2> QED  BY <2>3, <2>4, <2>5, <2>6, InvNext
  <1> QED  BY <1>3, <1>4

(* Work stays sound while frames are added, drives that are done stay done *)
(* and only sound work joins the queue.                                    *)
LEMMA WorkGrows ==
  ASSUME TypeInv, WorkInv, frames' \in [Streams -> Nat],
         \A s \in Streams : frames[s] <= frames'[s],
         \A s \in Streams : drive[s] = "done" =>
                               drive'[s] = "done" /\ frames'[s] = frames[s],
         live' = live, finals' = finals, batPc' = batPc, reg \subseteq reg',
         \A x \in ToSet(inq') :
            \/ x \in ToSet(inq) \/ x = STOP
            \/ x \in JobItem /\ x \notin FinalItem /\ x.i < frames'[x.r]
            \/ /\ x \in FinalItem /\ x \notin JobItem
               /\ x.i = frames'[x.r] /\ drive'[x.r] = "done"
  PROVE  WorkInv'
  <1>1. frames \in [Streams -> Nat]
    BY DEF TypeInv, TypeRequest
  <1>2. \A x \in JobItem : x.r \in Streams /\ x.i \in Nat
    BY DEF JobItem
  <1>3. \A x \in FinalItem : x.r \in Streams /\ x.i \in Nat
    BY DEF FinalItem
  <1>4. STOP \notin JobItem /\ STOP \notin FinalItem
    BY DEF STOP, JobItem, FinalItem
  <1>5. ASSUME NEW x \in JobItem, x.i < frames[x.r] PROVE x.i < frames'[x.r]
    BY <1>1, <1>2, <1>5
  <1>6. ASSUME NEW x \in FinalItem, x.i = frames[x.r], drive[x.r] = "done"
        PROVE  x.i = frames'[x.r] /\ drive'[x.r] = "done"
    BY <1>3, <1>6
  <1>7. SoundJobs(ToSet(inq))' /\ SoundFinals(ToSet(inq))'
    <2>1. ASSUME NEW x \in ToSet(inq'), x \in JobItem PROVE x.i < frames'[x.r]
      BY <1>4, <1>5, <2>1 DEF WorkInv, SoundJobs
    <2>2. ASSUME NEW x \in ToSet(inq'), x \in FinalItem
          PROVE  x.i = frames'[x.r] /\ drive'[x.r] = "done"
      BY <1>4, <1>6, <2>2 DEF WorkInv, SoundFinals
    <2> QED  BY <2>1, <2>2 DEF SoundJobs, SoundFinals
  <1>8. SoundJobs(live)' /\ SoundFinals(finals)'
    BY <1>5, <1>6 DEF WorkInv, SoundJobs, SoundFinals
  <1> QED  BY <1>7, <1>8 DEF WorkInv

(* A drive that runs: its consumer has opened, its request has no total    *)
(* and is not whole.                                                       *)
LEMMA RunningFacts ==
  ASSUME NEW r \in Streams, At(r), drive[r] = "running"
  PROVE  /\ dispatched[r] = Ready(frames[r]) /\ cons[r] # "off" /\ total[r] = Unknown
         /\ cons[r] # "clean" /\ (Live(r) /\ r \notin reg => r \in failed)
  BY DEF At, FramesAt, FailAt, Whole

(* A frame more, and the window that it completes.                         *)
LEMMA OutputKeeps ==
  ASSUME StreamInv, NEW r \in Streams, DriveOutput(r)
  PROVE  StreamInv'
  <1> DEFINE n == frames[r] + 1
             a == dispatched[r]
             b == Ready(n)
             e == Jobs(r, a, b)
  <1>1. /\ TypeInv /\ WorkInv /\ (\A s \in Streams : At(s)) /\ drive[r] = "running"
        /\ frames[r] < MaxFrames[r]
    BY InvAt DEF DriveOutput
  <1>2. /\ frames' = [frames EXCEPT ![r] = n] /\ dispatched' = [dispatched EXCEPT ![r] = b]
        /\ inq' = inq \o e
        /\ drive' = drive /\ cons' = cons /\ cbuf' = cbuf /\ got' = got /\ outq' = outq
        /\ reg' = reg /\ nextIdx' = nextIdx /\ decoded' = decoded /\ total' = total
        /\ failed' = failed /\ harmed' = harmed /\ batPc' = batPc /\ live' = live
        /\ finals' = finals /\ stopping' = stopping /\ failures' = failures
        /\ engineDead' = engineDead
    BY DEF DriveOutput, consumer, registry, pass
  <1>3. /\ dispatched[r] = Ready(frames[r]) /\ cons[r] # "off" /\ total[r] = Unknown
        /\ cons[r] # "clean" /\ (Live(r) /\ r \notin reg => r \in failed)
    BY <1>1, RunningFacts
  <1>4. /\ frames \in [Streams -> Nat] /\ dispatched \in [Streams -> Nat]
        /\ inq \in Seq(Item)
    BY <1>1 DEF TypeInv, TypeRequest, TypeBatcher
  <1>5. a \in Nat /\ b \in Nat /\ a <= b /\ b <= n /\ n \in Nat
    BY <1>3, <1>4, ReadyFacts
  <1>6. /\ frames' \in [Streams -> Nat] /\ dispatched' \in [Streams -> Nat]
        /\ frames'[r] = n /\ dispatched'[r] = b
    BY <1>2, <1>4, <1>5
  <1>7. e \in Seq(Item) /\ \A x \in ToSet(e) : x \in JobItem /\ x.r = r /\ x.i < b
    BY <1>5, JobsFacts
  <1> HIDE DEF n, a, b, e
  <1>8. inq' \in Seq(Item) /\ ToSet(inq') = ToSet(inq) \cup ToSet(e)
    BY <1>2, <1>4, <1>7, ConcatFacts
  <1>9. TypeInv'
    BY <1>1, <1>2, <1>6, <1>8 DEF TypeInv, TypeRequest, TypeRegistry, TypeBatcher
  <1>10. WorkInv'
    <2>1. \A s \in Streams : frames[s] <= frames'[s] /\ (s # r => frames'[s] = frames[s])
      BY <1>2, <1>4, <1>6 DEF n
    <2>2. ASSUME NEW x \in ToSet(e)
          PROVE  x \in JobItem /\ x \notin FinalItem /\ x.i < frames'[x.r]
      <3>1. x \in JobItem /\ x.r = r /\ x.i < b /\ x.i \in Nat /\ x \notin FinalItem
        BY <1>7 DEF JobItem, FinalItem
      <3> QED  BY <1>5, <1>6, <3>1
    <2>3. \A s \in Streams : drive[s] = "done" =>
                                drive'[s] = "done" /\ frames'[s] = frames[s]
      BY <1>1, <1>2, <2>1
    <2>4. live' = live /\ finals' = finals /\ batPc' = batPc /\ reg \subseteq reg'
      BY <1>2
    <2> QED  BY <1>1, <1>6, <1>8, <2>1, <2>2, <2>3, <2>4, WorkGrows
  <1>11. At(r)'
    <2>1. At(r)
      BY <1>1
    <2>2. FramesAt(r)'
      <3>1. frames[r] \in Nat /\ frames[r] < n /\ n <= MaxFrames[r] /\ nextIdx[r] \in Nat
        BY <1>1, <1>4 DEF n, TypeInv, TypeRegistry
      <3>2. 0 .. frames[r] - 1 \subseteq 0 .. n - 1 /\ (nextIdx[r] <= frames[r] => nextIdx[r] <= n)
        BY <1>5, <3>1
      <3> QED  BY <1>2, <1>3, <1>6, <2>1, <3>1, <3>2 DEF At, FramesAt, b
    <2>3. Past(r)' = Past(r) /\ (Live(r)' <=> Live(r))
      BY <1>2 DEF Past, Live
    <2>4. QueueAt(r)'
      BY <1>2, <2>1, <2>3 DEF At, QueueAt
    <2>5. FailAt(r)'
      BY <1>2, <1>3, <2>1, <2>3 DEF At, FailAt
    <2> QED  BY <2>2, <2>4, <2>5 DEF At
  <1>12. ASSUME NEW s \in Streams, s # r PROVE At(s)'
    <2>1. Same(s)
      BY <1>2, <1>4, <1>12 DEF Same
    <2> QED  BY <1>1, <2>1, SameAt
  <1> QED  BY <1>9, <1>10, <1>11, <1>12, InvNext

(* The end of a drive, whether it finished or failed.                      *)
LEMMA DriveEndKeeps ==
  ASSUME StreamInv, NEW r \in Streams, DriveFinish(r) \/ DriveFail(r)
  PROVE  StreamInv'
  <1>1. /\ TypeInv /\ WorkInv /\ (\A s \in Streams : At(s)) /\ drive[r] = "running"
        /\ Flush(r)
    BY InvAt DEF DriveFinish, DriveFail
  <1>2. /\ frames' = frames /\ cons' = cons /\ cbuf' = cbuf /\ got' = got /\ outq' = outq
        /\ reg' = reg /\ nextIdx' = nextIdx /\ decoded' = decoded /\ total' = total
        /\ batPc' = batPc /\ live' = live
        /\ finals' = finals /\ stopping' = stopping /\ failures' = failures
    BY DEF DriveFinish, DriveFail, consumer, registry, pass
  <1>3. /\ engineDead' \in {engineDead, TRUE}
        /\ \/ failed' = failed /\ harmed' = harmed
           \/ failed' = failed \cup {r} /\ harmed' = harmed \cup {r}
    BY DEF DriveFinish, DriveFail, FailureMarked
  <1>4. /\ dispatched[r] = Ready(frames[r]) /\ cons[r] # "off" /\ total[r] = Unknown
        /\ cons[r] # "clean" /\ (Live(r) /\ r \notin reg => r \in failed)
    BY <1>1, RunningFacts
  <1>5. /\ frames \in [Streams -> Nat] /\ dispatched \in [Streams -> Nat]
        /\ drive \in [Streams -> DrivePcs]
    BY <1>1 DEF TypeInv, TypeRequest
  <1>6. dispatched[r] <= frames[r] /\ frames[r] \in Nat
    BY <1>4, <1>5, ReadyFacts
  <1>7. /\ inq' \in Seq(Item)
        /\ \A x \in ToSet(inq') :
              \/ x \in ToSet(inq)
              \/ x \in JobItem /\ x.r = r /\ x.i < frames[r]
              \/ x \in FinalItem /\ x.r = r /\ x.i = frames[r]
        /\ drive' = [drive EXCEPT ![r] = "done"]
        /\ dispatched' = [dispatched EXCEPT ![r] = frames[r]]
    BY <1>1, <1>6, FlushFacts
  <1>8. drive'[r] = "done" /\ \A s \in Streams : s # r => drive'[s] = drive[s]
    BY <1>5, <1>7
  <1>9. TypeInv'
    <2>1. drive' \in [Streams -> DrivePcs] /\ dispatched' \in [Streams -> Nat]
      BY <1>5, <1>6, <1>7 DEF DrivePcs
    <2>2. failed' \subseteq Streams /\ harmed' \subseteq Streams /\ engineDead' \in BOOLEAN
      BY <1>1, <1>3 DEF TypeInv, TypeRegistry, TypeBatcher
    <2> QED  BY <1>1, <1>2, <1>7, <2>1, <2>2
             DEF TypeInv, TypeRequest, TypeRegistry, TypeBatcher
  <1>10. WorkInv'
    <2>1. /\ frames' \in [Streams -> Nat] /\ \A s \in Streams : frames[s] <= frames'[s]
      BY <1>2, <1>5
    <2>2. \A s \in Streams : drive[s] = "done" =>
                                drive'[s] = "done" /\ frames'[s] = frames[s]
      BY <1>2, <1>8
    <2>3. live' = live /\ finals' = finals /\ batPc' = batPc /\ reg \subseteq reg'
      BY <1>2
    <2>4. JobItem \cap FinalItem = {}
      BY DEF JobItem, FinalItem
    <2>5. \A x \in ToSet(inq') :
            \/ x \in ToSet(inq) \/ x = STOP
            \/ x \in JobItem /\ x \notin FinalItem /\ x.i < frames'[x.r]
            \/ /\ x \in FinalItem /\ x \notin JobItem
               /\ x.i = frames'[x.r] /\ drive'[x.r] = "done"
      BY <1>2, <1>7, <1>8, <2>4
    <2> QED  BY <1>1, <2>1, <2>2, <2>3, <2>5, WorkGrows
  <1>11. At(r)'
    <2>1. At(r)
      BY <1>1
    <2>2. FramesAt(r)'
      BY <1>2, <1>4, <1>8, <2>1 DEF At, FramesAt
    <2>3. Past(r)' = Past(r) /\ (Live(r)' <=> Live(r))
      BY <1>2 DEF Past, Live
    <2>4. QueueAt(r)'
      BY <1>2, <2>1, <2>3 DEF At, QueueAt
    <2>5. FailAt(r)'
      BY <1>2, <1>3, <1>4, <2>1, <2>3 DEF At, FailAt
    <2> QED  BY <2>2, <2>4, <2>5 DEF At
  <1>12. ASSUME NEW s \in Streams, s # r PROVE At(s)'
    <2>1. dispatched'[s] = dispatched[s] /\ drive'[s] = drive[s]
      BY <1>5, <1>7, <1>12
    <2>2. Same(s)
      BY <1>2, <1>3, <1>12, <2>1 DEF Same
    <2> QED  BY <1>1, <2>2, SameAt
  <1> QED  BY <1>9, <1>10, <1>11, <1>12, InvNext

(* A frame appended to frames.                                             *)
LEMMA GroupFacts ==
  ASSUME NEW p \in Seq(Int), NEW a \in Nat, Counts(p, a), NEW h \in Int, h = a + Len(p)
  PROVE  /\ Append(p, h) \in Seq(Int) /\ Len(Append(p, h)) = Len(p) + 1
         /\ Counts(Append(p, h), a)
  <1> DEFINE e == Append(p, h)
             n == Len(p)
  <1>1. /\ e \in Seq(Int) /\ Len(e) = n + 1 /\ DOMAIN e = 1 .. n + 1 /\ n \in Nat
        /\ DOMAIN p = 1 .. n /\ (\A i \in 1 .. n : e[i] = p[i]) /\ e[n + 1] = h
    OBVIOUS
  <1>2. h = a + n
    OBVIOUS
  <1> HIDE DEF e, n
  <1>3. \A i \in 1 .. n : e[i] = a + i - 1
    BY <1>1 DEF Counts
  <1>4. \A i \in 1 .. n + 1 : i \in 1 .. n \/ i = n + 1
    BY <1>1
  <1>5. ASSUME NEW i \in 1 .. n + 1 PROVE e[i] = a + i - 1
    BY <1>1, <1>2, <1>3, <1>4
  <1>6. Counts(e, a)
    BY <1>1, <1>5 DEF Counts
  <1> QED  BY <1>1, <1>6 DEF e, n

(* Nothing waits in an empty queue.                                        *)
LEMMA NothingWaits ==
  ASSUME NEW a
  PROVE  /\ <<>> \in Seq(Int) /\ Len(<<>>) = 0 /\ Counts(<<>>, a) /\ Waiting(<<>>, a)
         /\ Frames(<<>>) = <<>>
  <1>1. DOMAIN <<>> = {} /\ <<>> \in Seq(Int) /\ Len(<<>>) = 0
    OBVIOUS
  <1> QED  BY <1>1 DEF Counts, Waiting, Frames

(* A consumer leaves, its queue in order; clean only when it is whole.     *)
LEMMA LeaveKeeps ==
  ASSUME StreamInv, NEW r \in Streams, NEW how \in {"error", "clean", "gone"},
         Leave(r, how), TypeRequest', outq' \in [Streams -> Seq(Int)], QueueAt(r)',
         \A s \in Streams : s # r =>
            outq'[s] = outq[s] /\ cbuf'[s] = cbuf[s] /\ got'[s] = got[s],
         how = "clean" => r \notin reg /\ r \notin harmed /\ Whole(r)',
         frames' = frames, dispatched' = dispatched, inq' = inq, reg' = reg,
         nextIdx' = nextIdx, decoded' = decoded, total' = total, harmed' = harmed,
         batPc' = batPc, live' = live, finals' = finals, stopping' = stopping,
         failures' = failures, engineDead' = engineDead
  PROVE  StreamInv'
  <1>1. TypeInv /\ WorkInv /\ (\A s \in Streams : At(s))
    BY InvAt
  <1>2. /\ cons' = [cons EXCEPT ![r] = how] /\ failed' = failed \ {r}
        /\ drive' = [drive EXCEPT ![r] = IF @ = "running" THEN "cancelled" ELSE @]
    BY DEF Leave
  <1>3. cons \in [Streams -> ConsumerPcs] /\ drive \in [Streams -> DrivePcs]
        /\ frames \in [Streams -> Nat]
    BY <1>1 DEF TypeInv, TypeRequest
  <1>4. /\ cons'[r] = how /\ drive'[r] = IF drive[r] = "running" THEN "cancelled" ELSE drive[r]
        /\ \A s \in Streams : s # r => cons'[s] = cons[s] /\ drive'[s] = drive[s]
    BY <1>2, <1>3
  <1>5. TypeInv'
    BY <1>1, <1>2 DEF TypeInv, TypeRegistry, TypeBatcher
  <1>6. WorkInv'
    <2>1. frames' \in [Streams -> Nat] /\ \A s \in Streams : frames[s] <= frames'[s]
      BY <1>3
    <2>2. \A s \in Streams : drive[s] = "done" =>
                                drive'[s] = "done" /\ frames'[s] = frames[s]
      BY <1>4
    <2> QED  BY <1>1, <2>1, <2>2, WorkGrows
  <1>7. At(r)'
    <2>1. FramesAt(r) /\ r \in Streams
      BY <1>1 DEF At
    <2>2. FramesAt(r)'
      BY <1>4, <2>1 DEF FramesAt
    <2>3. FailAt(r)'
      BY <1>4 DEF FailAt, Live
    <2> QED  BY <2>2, <2>3 DEF At
  <1>8. ASSUME NEW s \in Streams, s # r PROVE At(s)'
    <2>1. Same(s)
      BY <1>2, <1>4, <1>8 DEF Same
    <2> QED  BY <1>1, <2>1, SameAt
  <1> QED  BY <1>5, <1>6, <1>7, <1>8, InvNext

(* The client goes away, or the wait for a frame ran out.                  *)
LEMMA WaitKeeps ==
  ASSUME StreamInv, NEW r \in Streams, Timeout(r) \/ AfterTimeout(r) \/ Disconnect(r)
  PROVE  StreamInv'
  <1>1. TypeInv /\ WorkInv /\ (\A s \in Streams : At(s)) /\ Live(r)
    BY InvAt DEF Timeout, AfterTimeout, Disconnect, Live
  <1>2. /\ cbuf' = cbuf /\ got' = got /\ outq' = outq /\ inq' = inq /\ reg' = reg
        /\ frames' = frames /\ dispatched' = dispatched
        /\ nextIdx' = nextIdx /\ decoded' = decoded /\ total' = total
        /\ harmed' = harmed /\ batPc' = batPc /\ live' = live
        /\ finals' = finals /\ stopping' = stopping /\ failures' = failures
        /\ engineDead' = engineDead
    BY DEF Timeout, AfterTimeout, Disconnect, request, registry, pass
  <1>3. At(r)
    BY <1>1
  <1>4. Past(r)' = Past(r)
    BY <1>2 DEF Past
  <1>5. ASSUME NEW how \in {"error", "clean", "gone"}, Leave(r, how),
               how = "clean" => r \notin reg /\ r \notin failed
        PROVE  StreamInv'
    <2>1. TypeRequest' /\ outq' \in [Streams -> Seq(Int)]
      <3>1. /\ cons' = [cons EXCEPT ![r] = how]
            /\ drive' = [drive EXCEPT ![r] = IF @ = "running" THEN "cancelled" ELSE @]
        BY <1>5 DEF Leave
      <3> QED  BY <1>1, <1>2, <3>1
               DEF TypeInv, TypeRequest, TypeRegistry, ConsumerPcs, DrivePcs
    <2>2. QueueAt(r)'
      <3>1. cons'[r] # "off"
        BY <1>1, <1>5 DEF Leave, TypeInv, TypeRequest
      <3> QED  BY <1>2, <1>3, <1>4, <3>1 DEF At, QueueAt
    <2>3. how = "clean" => r \notin reg /\ r \notin harmed /\ Whole(r)'
      <3>1. ASSUME how = "clean"
            PROVE  r \notin reg /\ r \notin harmed /\ Whole(r)
        BY <1>1, <1>3, <1>5, <3>1 DEF At, FailAt
      <3>2. Whole(r) => drive'[r] = "done"
        BY <1>1, <1>5 DEF Whole, Leave, TypeInv, TypeRequest
      <3>3. Whole(r) => Whole(r)'
        BY <1>2, <1>4, <3>2 DEF Whole
      <3> QED  BY <3>1, <3>3
    <2> QED  BY <1>2, <1>5, <2>1, <2>2, <2>3, LeaveKeeps
  <1>6. ASSUME NEW pc \in {"get", "timedout"}, cons' = [cons EXCEPT ![r] = pc],
               drive' = drive, failed' = failed
        PROVE  StreamInv'
    <2>1. cons \in [Streams -> ConsumerPcs] /\ cons'[r] = pc
      BY <1>1, <1>6 DEF TypeInv, TypeRequest
    <2>2. TypeInv'
      BY <1>1, <1>2, <1>6, <2>1
      DEF TypeInv, TypeRequest, TypeRegistry, TypeBatcher, ConsumerPcs
    <2>3. WorkInv'
      BY <1>1, <1>2, <1>6 DEF WorkInv, SoundJobs, SoundFinals
    <2>4. At(r)'
      <3>1. FramesAt(r)'
        BY <1>2, <1>3, <1>6, <2>1 DEF At, FramesAt
      <3>2. QueueAt(r)'
        BY <1>2, <1>3, <1>4, <2>1 DEF At, QueueAt
      <3>3. Whole(r)' <=> Whole(r)
        BY <1>2, <1>4, <1>6 DEF Whole
      <3>4. FailAt(r)'
        BY <1>1, <1>2, <1>3, <1>6, <2>1, <3>3 DEF At, FailAt, Live
      <3> QED  BY <3>1, <3>2, <3>4 DEF At
    <2>5. ASSUME NEW s \in Streams, s # r PROVE At(s)'
      <3>1. Same(s)
        BY <1>2, <1>6, <2>1, <2>5 DEF Same
      <3> QED  BY <1>1, <3>1, SameAt
    <2> QED  BY <2>2, <2>3, <2>4, <2>5, InvNext
  <1>7. CASE Timeout(r)
    <2>1. drive' = drive /\ failed' = failed /\ cons' = [cons EXCEPT ![r] = "timedout"]
      BY <1>7 DEF Timeout, request
    <2> QED  BY <1>6, <2>1
  <1>8. CASE AfterTimeout(r)
    <2>1. CASE IsClosed(r)
      <3>1. Leave(r, EndOf(r)) /\ r \notin reg
        BY <1>8, <2>1 DEF AfterTimeout, IsClosed
      <3>2. EndOf(r) \in {"error", "clean", "gone"} /\ (EndOf(r) = "clean" => r \notin failed)
        BY DEF EndOf
      <3> DEFINE how == EndOf(r)
      <3> HIDE DEF how
      <3>3. Leave(r, how) /\ how \in {"error", "clean", "gone"}
            /\ (how = "clean" => r \notin reg /\ r \notin failed)
        BY <3>1, <3>2 DEF how
      <3> QED  BY <1>5, <3>3
    <2>2. CASE ~IsClosed(r)
      <3>1. drive' = drive /\ failed' = failed /\ cons' = [cons EXCEPT ![r] = "get"]
        BY <1>8, <2>2 DEF AfterTimeout, request
      <3> QED  BY <1>6, <3>1
    <2> QED  BY <2>1, <2>2
  <1>9. CASE Disconnect(r)
    <2>1. Leave(r, "gone")
      BY <1>9 DEF Disconnect
    <2> QED  BY <1>5, <2>1
  <1> QED  BY <1>7, <1>8, <1>9

(* The consumer takes END: its request is closed.                          *)
LEMMA TakeEndKeeps ==
  ASSUME StreamInv, NEW r \in Streams, TakeEnd(r)
  PROVE  StreamInv'
  <1> DEFINE q == outq[r]
             g == got[r]
             c == cbuf[r]
             how == EndOf(r)
  <1>1. TypeInv /\ WorkInv /\ (\A s \in Streams : At(s)) /\ Live(r)
    BY InvAt DEF TakeEnd, Live
  <1>2. /\ inq' = inq /\ reg' = reg /\ frames' = frames /\ dispatched' = dispatched
        /\ nextIdx' = nextIdx /\ decoded' = decoded /\ total' = total
        /\ harmed' = harmed /\ batPc' = batPc /\ live' = live
        /\ finals' = finals /\ stopping' = stopping /\ failures' = failures
        /\ engineDead' = engineDead
    BY DEF TakeEnd, registry, pass
  <1>3. /\ q # <<>> /\ Head(q) = END /\ Leave(r, how)
        /\ outq' = [outq EXCEPT ![r] = Tail(q)] /\ got' = [got EXCEPT ![r] = g \o c]
        /\ cbuf' = [cbuf EXCEPT ![r] = <<>>]
    <2>1. q # <<>> /\ Head(q) = END /\ Leave(r, how)
      BY DEF TakeEnd
    <2>2. outq' = [outq EXCEPT ![r] = Tail(q)]
      BY DEF TakeEnd
    <2>3. got' = [got EXCEPT ![r] = @ \o cbuf[r]] /\ cbuf' = [cbuf EXCEPT ![r] = <<>>]
      BY Zenon DEF TakeEnd
    <2>4. got' = [got EXCEPT ![r] = g \o c]
      BY <2>3
    <2> QED  BY <2>1, <2>2, <2>3, <2>4
  <1>4. /\ outq \in [Streams -> Seq(Int)] /\ got \in [Streams -> Seq(Int)]
        /\ cbuf \in [Streams -> Seq(Int)]
    BY <1>1 DEF TypeInv, TypeRequest, TypeRegistry
  <1>5. q \in Seq(Int) /\ g \in Seq(Int) /\ c \in Seq(Int)
    BY <1>4
  <1>6. At(r)
    BY <1>1
  <1>7. Past(r) = Len(g) + Len(c) /\ Past(r) \in Nat /\ Len(g) \in Nat
    <2>1. Past(r) = Len(g) + Len(c)
      BY DEF Past
    <2>2. Len(g) \in Nat /\ Len(c) \in Nat
      BY <1>5
    <2> HIDE DEF g, c
    <2> QED  BY <2>1, <2>2
  <1>8. /\ Counts(g, 0) /\ Counts(c, Len(g)) /\ Waiting(q, Past(r))
        /\ (r \in reg => Counts(q, Past(r)))
    BY <1>6 DEF At, QueueAt
  <1>9. /\ how \in {"error", "clean", "gone"} /\ (how = "clean" => r \notin failed)
    BY DEF EndOf
  <1> HIDE DEF q, g, c, how
  <1>10. Tail(q) = <<>> /\ Len(Frames(q)) = 0 /\ ~Counts(q, Past(r))
    BY <1>3, <1>5, <1>7, <1>8, EndFacts
  <1>11. g \o c \in Seq(Int) /\ Len(g \o c) = Past(r) /\ Counts(g \o c, 0)
    <2>1. Waiting(c, Len(g))
      BY <1>8 DEF Counts, Waiting
    <2>2. 0 + Len(g) = Len(g)
      BY <1>7
    <2>3. Counts(c, 0 + Len(g)) /\ Waiting(c, 0 + Len(g))
      BY <1>8, <2>1, <2>2
    <2> QED  BY <1>5, <1>7, <1>8, <2>3, JoinFacts
  <1>12. /\ outq'[r] = <<>> /\ got'[r] = g \o c /\ cbuf'[r] = <<>>
         /\ \A s \in Streams : s # r =>
              outq'[s] = outq[s] /\ cbuf'[s] = cbuf[s] /\ got'[s] = got[s]
    BY <1>3, <1>4, <1>10
  <1>13. TypeRequest' /\ outq' \in [Streams -> Seq(Int)]
    <2>1. cons' \in [Streams -> ConsumerPcs] /\ drive' \in [Streams -> DrivePcs]
      BY <1>1, <1>3, <1>9 DEF Leave, TypeInv, TypeRequest, ConsumerPcs, DrivePcs
    <2>2. /\ <<>> \in Seq(Int)
      OBVIOUS
    <2>3. /\ outq' \in [Streams -> Seq(Int)] /\ got' \in [Streams -> Seq(Int)]
          /\ cbuf' \in [Streams -> Seq(Int)]
      BY <1>3, <1>4, <1>10, <1>11, <2>2
    <2> QED  BY <1>1, <1>2, <2>1, <2>3 DEF TypeInv, TypeRequest
  <1>14. Past(r)' = Past(r)
    <2>1. Past(r)' = Len(got'[r]) + Len(cbuf'[r]) /\ Len(<<>>) = 0
      BY NothingWaits DEF Past
    <2>2. Past(r)' = Past(r) + 0
      BY <1>11, <1>12, <2>1
    <2> QED  BY <1>7, <2>2
  <1>15. r \notin reg
    BY <1>8, <1>10
  <1>16. QueueAt(r)'
    <2>1. cons'[r] # "off"
      BY <1>1, <1>3, <1>9 DEF Leave, TypeInv, TypeRequest
    <2>2. Counts(got'[r], 0) /\ Counts(cbuf'[r], Len(got'[r])) /\ Waiting(outq'[r], Past(r)')
      BY <1>11, <1>12, NothingWaits
    <2>3. Len(outq'[r]) <= QMax
      BY <1>12, NothingWaits
    <2> QED  BY <1>2, <1>15, <2>1, <2>2, <2>3 DEF QueueAt
  <1>17. how = "clean" => r \notin reg /\ r \notin harmed /\ Whole(r)'
    <2>1. ASSUME how = "clean" PROVE r \notin harmed /\ Whole(r)
      BY <1>1, <1>6, <1>9, <1>15, <2>1 DEF At, FailAt
    <2>2. Whole(r) => drive'[r] = "done" /\ Past(r) = frames[r]
      <3>1. Whole(r) => drive'[r] = "done"
        BY <1>1, <1>3 DEF Whole, Leave, TypeInv, TypeRequest
      <3>2. Whole(r) => Past(r) + 0 = frames[r]
        BY <1>10 DEF Whole, q
      <3> QED  BY <1>7, <3>1, <3>2
    <2>3. Len(Frames(outq'[r])) = 0
      BY <1>12, NothingWaits
    <2>4. Past(r)' + Len(Frames(outq'[r])) = Past(r)
      BY <1>7, <1>14, <2>3
    <2>5. Whole(r) => Whole(r)'
      BY <1>2, <2>2, <2>4 DEF Whole
    <2> QED  BY <1>15, <2>1, <2>5
  <1> QED  BY <1>2, <1>3, <1>9, <1>12, <1>13, <1>16, <1>17, LeaveKeeps

(* The consumer takes a frame, and yields the group that it completes or   *)
(* keeps it.                                                               *)
LEMMA TakeFrameKeeps ==
  ASSUME StreamInv, NEW r \in Streams, TakeFrame(r)
  PROVE  StreamInv'
  <1> DEFINE q == outq[r]
             g == got[r]
             c == cbuf[r]
             h == Head(q)
             group == Append(c, h)
  <1>1. TypeInv /\ WorkInv /\ (\A s \in Streams : At(s)) /\ cons[r] = "get" /\ At(r)
    BY InvAt DEF TakeFrame
  <1>2. /\ inq' = inq /\ reg' = reg /\ drive' = drive /\ frames' = frames
        /\ dispatched' = dispatched /\ cons' = cons
        /\ nextIdx' = nextIdx /\ decoded' = decoded /\ total' = total
        /\ failed' = failed /\ harmed' = harmed /\ batPc' = batPc /\ live' = live
        /\ finals' = finals /\ stopping' = stopping /\ failures' = failures
        /\ engineDead' = engineDead
    BY DEF TakeFrame, request, registry, pass
  <1>3. q # <<>> /\ h # END /\ outq' = [outq EXCEPT ![r] = Tail(@)]
    BY DEF TakeFrame
  <1>4. \/ /\ got' = [got EXCEPT ![r] = @ \o group]
           /\ cbuf' = [cbuf EXCEPT ![r] = <<>>]
        \/ /\ cbuf' = [cbuf EXCEPT ![r] = group]
           /\ got' = got
    BY Zenon DEF TakeFrame, Yielded
  <1>5. /\ outq \in [Streams -> Seq(Int)] /\ got \in [Streams -> Seq(Int)]
        /\ cbuf \in [Streams -> Seq(Int)]
    BY <1>1 DEF TypeInv, TypeRequest, TypeRegistry
  <1>6. q \in Seq(Int) /\ g \in Seq(Int) /\ c \in Seq(Int)
    BY <1>5
  <1>7. /\ outq'[r] = Tail(q)
        /\ \/ got'[r] = g \o group /\ cbuf'[r] = <<>>
           \/ got'[r] = g /\ cbuf'[r] = group
        /\ \A s \in Streams : s # r =>
              outq'[s] = outq[s] /\ cbuf'[s] = cbuf[s] /\ got'[s] = got[s]
    <2>1. outq'[r] = Tail(q)
      BY <1>3, <1>5
    <2>2. \/ got'[r] = g \o group /\ cbuf'[r] = <<>>
          \/ got'[r] = g /\ cbuf'[r] = group
      BY <1>4, <1>5
    <2>3. \A s \in Streams : s # r =>
              outq'[s] = outq[s] /\ cbuf'[s] = cbuf[s] /\ got'[s] = got[s]
      BY <1>3, <1>4, <1>5
    <2> QED  BY <2>1, <2>2, <2>3
  <1>8. /\ Counts(g, 0) /\ Counts(c, Len(g)) /\ Waiting(q, Past(r)) /\ Len(q) <= QMax
        /\ (r \in reg => Counts(q, Past(r)) /\ Past(r) + Len(q) = nextIdx[r])
        /\ Past(r) = Len(g) + Len(c)
    BY <1>1 DEF At, QueueAt, Past
  <1>9. DOMAIN got = Streams /\ DOMAIN cbuf = Streams /\ DOMAIN outq = Streams
    BY <1>5
  <1> HIDE DEF q, g, c
  <1>10. Len(g) \in Nat /\ Len(c) \in Nat /\ Len(q) \in Nat /\ Past(r) \in Nat
    <2>1. Len(g) \in Nat /\ Len(c) \in Nat /\ Len(q) \in Nat
      BY <1>6
    <2> QED  BY <1>8, <2>1
  <1>11. /\ h = Past(r) /\ Tail(q) \in Seq(Int)
         /\ Waiting(Tail(q), Past(r) + 1) /\ Len(Tail(q)) = Len(q) - 1
         /\ (Counts(q, Past(r)) => Counts(Tail(q), Past(r) + 1))
         /\ Len(Frames(Tail(q))) = Len(Frames(q)) - 1
    BY <1>3, <1>6, <1>8, <1>10, TakeFacts
  <1> HIDE DEF h
  <1>12. group \in Seq(Int) /\ Len(group) = Len(c) + 1 /\ Counts(group, Len(g))
    <2>1. h \in Int /\ h = Len(g) + Len(c)
      BY <1>8, <1>10, <1>11
    <2> QED  BY <1>6, <1>8, <1>10, <2>1, GroupFacts
  <1> HIDE DEF group
  <1>13. /\ g \o group \in Seq(Int) /\ Len(g \o group) = Len(g) + Len(group)
         /\ Counts(g \o group, 0)
    <2>1. Waiting(group, Len(g))
      BY <1>12 DEF Counts, Waiting
    <2>2. 0 + Len(g) = Len(g)
      BY <1>10
    <2>3. Counts(group, 0 + Len(g)) /\ Waiting(group, 0 + Len(g))
      BY <1>12, <2>1, <2>2
    <2> QED  BY <1>6, <1>8, <1>12, <2>3, JoinFacts
  <1>14. /\ Counts(got'[r], 0) /\ Counts(cbuf'[r], Len(got'[r]))
         /\ got'[r] \in Seq(Int) /\ cbuf'[r] \in Seq(Int)
         /\ Past(r)' = Past(r) + 1
    <2>0. Past(r)' = Len(got'[r]) + Len(cbuf'[r])
      BY DEF Past
    <2>1. CASE got'[r] = g \o group /\ cbuf'[r] = <<>>
      <3>1. Past(r)' = (Len(g) + Len(group)) + 0
        BY <1>13, <2>0, <2>1, NothingWaits
      <3>2. Past(r)' = Past(r) + 1
        BY <1>8, <1>10, <1>12, <3>1
      <3> QED  BY <1>13, <2>1, <3>2, NothingWaits
    <2>2. CASE got'[r] = g /\ cbuf'[r] = group
      <3>1. Past(r)' = Len(g) + Len(group)
        BY <2>0, <2>2
      <3>2. Past(r)' = Past(r) + 1
        BY <1>8, <1>10, <1>12, <3>1
      <3> QED  BY <1>6, <1>8, <1>12, <2>2, <3>2
    <2> QED  BY <1>7, <2>1, <2>2
  <1>15. TypeInv'
    <2>1. outq' \in [Streams -> Seq(Int)]
      BY <1>3, <1>5, <1>11 DEF q
    <2>2. got' \in [Streams -> Seq(Int)] /\ cbuf' \in [Streams -> Seq(Int)]
      <3>1. CASE /\ got' = [got EXCEPT ![r] = @ \o group]
                 /\ cbuf' = [cbuf EXCEPT ![r] = <<>>]
        BY <1>5, <1>13, <3>1 DEF g
      <3>2. CASE /\ cbuf' = [cbuf EXCEPT ![r] = group]
                 /\ got' = got
        BY <1>5, <1>12, <3>2
      <3> QED  BY <1>4, <3>1, <3>2
    <2> QED  BY <1>1, <1>2, <2>1, <2>2 DEF TypeInv, TypeRequest, TypeRegistry, TypeBatcher
  <1>16. WorkInv'
    BY <1>1, <1>2 DEF WorkInv, SoundJobs, SoundFinals
  <1>17. QueueAt(r)'
    <2>1. Waiting(outq'[r], Past(r)') /\ Len(outq'[r]) <= QMax
      BY <1>7, <1>8, <1>10, <1>11, <1>14
    <2>2. r \in reg => Counts(outq'[r], Past(r)') /\ Past(r)' + Len(outq'[r]) = nextIdx[r]
      <3>1. Past(r)' + Len(outq'[r]) = Past(r) + Len(q)
        BY <1>7, <1>10, <1>11, <1>14
      <3> QED  BY <1>7, <1>8, <1>11, <1>14, <3>1
    <2> QED  BY <1>1, <1>2, <1>14, <2>1, <2>2 DEF QueueAt
  <1>18. At(r)'
    <2>1. FramesAt(r)'
      BY <1>1, <1>2 DEF At, FramesAt
    <2>2. Whole(r) => Whole(r)'
      <3>1. Len(Frames(q)) \in Nat
        BY <1>6, <1>8, <1>10, FramesFacts
      <3>2. Past(r)' + Len(Frames(outq'[r])) = Past(r) + Len(Frames(q))
        <4>1. /\ Len(Frames(outq'[r])) = Len(Frames(q)) - 1 /\ Past(r)' = Past(r) + 1
              /\ Past(r) \in Nat
          BY <1>7, <1>10, <1>11, <1>14
        <4> QED  BY <3>1, <4>1
      <3> QED  BY <1>2, <3>2 DEF Whole, q
    <2>3. FailAt(r)'
      BY <1>1, <1>2, <2>2 DEF At, FailAt, Live
    <2> QED  BY <1>17, <2>1, <2>3 DEF At
  <1>19. ASSUME NEW s \in Streams, s # r PROVE At(s)'
    <2>1. Same(s)
      BY <1>2, <1>7, <1>19 DEF Same
    <2> QED  BY <1>1, <2>1, SameAt
  <1> QED  BY <1>15, <1>16, <1>18, <1>19, InvNext

-----------------------------------------------------------------------------
(* The steps of the batcher.                                               *)

(* What it collects is the head of its queue.                              *)
LEMMA CollectFacts ==
  ASSUME inq \in Seq(Item), NEW k \in 1 .. Len(inq)
  PROVE  /\ SubSeq(inq, k + 1, Len(inq)) \in Seq(Item)
         /\ ToSet(SubSeq(inq, k + 1, Len(inq))) \subseteq ToSet(inq)
         /\ ToSet(SubSeq(inq, 1, k)) \subseteq ToSet(inq)
         /\ ToSet(SubSeq(inq, 1, k)) \subseteq Item
  <1> DEFINE p == SubSeq(inq, 1, k)
             s == SubSeq(inq, k + 1, Len(inq))
  <1>1. k \in 0 .. Len(inq)
    OBVIOUS
  <1>2. p \in Seq(Item) /\ s \in Seq(Item) /\ ToSet(p) \cup ToSet(s) = ToSet(inq)
    BY <1>1, SplitFacts
  <1> HIDE DEF p, s
  <1>3. ToSet(p) \subseteq Item
    BY <1>2, ToSetType
  <1> QED  BY <1>2, <1>3 DEF p, s

(* A pass that ends leaves nothing to decode.                              *)
LEMMA PassEnds ==
  ASSUME StreamInv,
         NEW D \in SUBSET reg, NEW J \in SUBSET JobItem, NEW F \in SUBSET FinalItem,
         SoundJobs(J), SoundFinals(F), Pass(D, J, F), UNCHANGED <<request, consumer>>,
         live' = {}, finals' = {}, stopping' \in BOOLEAN, batPc' \in BatcherPcs,
         failures' \in Nat, engineDead' \in BOOLEAN,
         inq' \in Seq(Item), ToSet(inq') \subseteq ToSet(inq)
  PROVE  StreamInv'
  <1>1. TypeRequest' /\ TypeRegistry' /\ FramesInv' /\ QueueInv' /\ FailInv'
    BY PassKeeps
  <1>2. TypeBatcher'
    BY DEF TypeBatcher
  <1>3. WorkInv'
    <2>1. frames' = frames /\ drive' = drive
      BY DEF request
    <2>2. SoundJobs(ToSet(inq)) /\ SoundFinals(ToSet(inq))
      BY DEF StreamInv, WorkInv
    <2>3. SoundJobs(ToSet(inq))' /\ SoundFinals(ToSet(inq))'
      BY <2>1, <2>2 DEF SoundJobs, SoundFinals
    <2>4. SoundJobs(live)' /\ SoundFinals(finals)'
      BY DEF SoundJobs, SoundFinals
    <2> QED  BY <2>3, <2>4 DEF WorkInv
  <1> QED  BY <1>1, <1>2, <1>3 DEF StreamInv, TypeInv

(* A batch is collected; a pass without jobs goes through at once.         *)
LEMMA CollectKeeps ==
  ASSUME StreamInv, Collect
  PROVE  StreamInv'
  <1>1. TypeInv /\ WorkInv /\ (\A s \in Streams : At(s)) /\ batPc = "collect"
    BY InvAt DEF Collect
  <1>2. PICK k \in 1 .. Len(inq) :
          LET items == ToSet(SubSeq(inq, 1, k))
              jobs == {x \in items : x.kind = "job" /\ x.r \in reg}
              fins == {x \in items : x.kind = "final"}
          IN
          /\ inq' = SubSeq(inq, k + 1, Len(inq))
          /\ IF jobs = {}
               THEN /\ Pass({}, {}, fins)
                    /\ batPc' = After(STOP \in items)
                    /\ UNCHANGED pass
               ELSE /\ live' = jobs /\ finals' = fins /\ stopping' = (STOP \in items)
                    /\ batPc' = "decode"
                    /\ UNCHANGED <<outq, failed, harmed, registry>>
    BY Zenon DEF Collect
  <1> DEFINE items == ToSet(SubSeq(inq, 1, k))
             jobs == {x \in items : x.kind = "job" /\ x.r \in reg}
             fins == {x \in items : x.kind = "final"}
  <1>3. inq \in Seq(Item) /\ inq' = SubSeq(inq, k + 1, Len(inq))
    BY <1>1, <1>2 DEF TypeInv, TypeBatcher
  <1>4. /\ inq' \in Seq(Item) /\ ToSet(inq') \subseteq ToSet(inq)
        /\ items \subseteq ToSet(inq) /\ items \subseteq Item
    BY <1>3, CollectFacts
  <1>5. UNCHANGED <<request, consumer, failures, engineDead>>
    BY DEF Collect
  <1>6. jobs \in SUBSET JobItem /\ fins \in SUBSET FinalItem /\ \A x \in jobs : x.r \in reg
    BY <1>4, ItemFacts
  <1>7. SoundJobs(jobs) /\ SoundFinals(fins)
    BY <1>1, <1>4 DEF WorkInv, SoundJobs, SoundFinals
  <1>8. CASE jobs = {}
    <2>1. Pass({}, {}, fins) /\ batPc' = After(STOP \in items) /\ UNCHANGED pass
      BY <1>2, <1>8
    <2> HIDE DEF items, jobs, fins
    <2>2. live' = {} /\ finals' = {}
      BY <1>1, <2>1 DEF WorkInv, pass
    <2>3. stopping' \in BOOLEAN /\ batPc' \in BatcherPcs
      BY <1>1, <2>1 DEF TypeInv, TypeBatcher, pass, After, BatcherPcs
    <2>4. failures' \in Nat /\ engineDead' \in BOOLEAN /\ UNCHANGED <<request, consumer>>
      BY <1>1, <1>5 DEF TypeInv, TypeBatcher
    <2>5. SoundJobs({}) /\ {} \in SUBSET reg /\ {} \in SUBSET JobItem
      BY DEF SoundJobs
    <2> QED  BY <1>4, <1>6, <1>7, <2>1, <2>2, <2>3, <2>4, <2>5, PassEnds
  <1>9. CASE jobs # {}
    <2>1. /\ live' = jobs /\ finals' = fins /\ stopping' = (STOP \in items)
          /\ batPc' = "decode" /\ UNCHANGED <<outq, failed, harmed, registry>>
      BY <1>2, <1>9
    <2> HIDE DEF items, jobs, fins
    <2>2. /\ drive' = drive /\ frames' = frames /\ dispatched' = dispatched
          /\ cons' = cons /\ cbuf' = cbuf /\ got' = got /\ outq' = outq /\ reg' = reg
          /\ nextIdx' = nextIdx /\ decoded' = decoded /\ total' = total
          /\ failed' = failed /\ harmed' = harmed /\ failures' = failures
          /\ engineDead' = engineDead
      BY <1>5, <2>1 DEF request, consumer, registry
    <2>3. TypeInv'
      <3>1. TypeRequest' /\ TypeRegistry'
        BY <1>1, <2>2 DEF TypeInv, TypeRequest, TypeRegistry
      <3>2. stopping' \in BOOLEAN /\ batPc' \in BatcherPcs
        BY <2>1 DEF BatcherPcs
      <3>3. TypeBatcher'
        BY <1>1, <1>4, <1>6, <2>1, <2>2, <3>2 DEF TypeInv, TypeBatcher
      <3> QED  BY <3>1, <3>3 DEF TypeInv
    <2>4. WorkInv'
      <3>1. SoundJobs(ToSet(inq))' /\ SoundFinals(ToSet(inq))'
        BY <1>1, <1>4, <2>2 DEF WorkInv, SoundJobs, SoundFinals
      <3>2. SoundJobs(live)' /\ SoundFinals(finals)'
        BY <1>7, <2>1, <2>2 DEF SoundJobs, SoundFinals
      <3> QED  BY <1>6, <2>1, <2>2, <3>1, <3>2 DEF WorkInv
    <2>5. ASSUME NEW s \in Streams PROVE At(s)'
      <3>1. Same(s)
        BY <2>2 DEF Same
      <3> QED  BY <1>1, <3>1, SameAt
    <2> QED  BY <2>3, <2>4, <2>5, InvNext
  <1> QED  BY <1>8, <1>9

(* The batch was decoded, or the decode raised.                            *)
LEMMA DecodeKeeps ==
  ASSUME StreamInv, DecodeOk \/ DecodeFail
  PROVE  StreamInv'
  <1>1. TypeInv /\ WorkInv
    BY DEF StreamInv
  <1>2. /\ live' = {} /\ finals' = {} /\ stopping' = FALSE /\ inq' = inq
        /\ engineDead' = engineDead /\ UNCHANGED <<request, consumer>>
    BY DEF DecodeOk, DecodeFail, EndPass
  <1>3. /\ inq' \in Seq(Item) /\ ToSet(inq') \subseteq ToSet(inq)
        /\ stopping' \in BOOLEAN /\ engineDead' \in BOOLEAN
    BY <1>1, <1>2 DEF TypeInv, TypeBatcher
  <1>4. /\ live \in SUBSET JobItem /\ finals \in SUBSET FinalItem /\ failures \in Nat
        /\ stopping \in BOOLEAN
    BY <1>1 DEF TypeInv, TypeBatcher
  <1>5. SoundJobs(live) /\ SoundFinals(finals) /\ \A x \in live : x.r \in reg
    BY <1>1 DEF WorkInv
  <1>6. SoundJobs({}) /\ SoundFinals({})
    BY DEF SoundJobs, SoundFinals
  <1>7. CASE DecodeOk
    <2>1. Pass({}, live, finals) /\ batPc' \in BatcherPcs /\ failures' \in Nat
      BY <1>7 DEF DecodeOk, After, BatcherPcs
    <2> QED  BY <1>2, <1>3, <1>4, <1>5, <2>1, PassEnds
  <1>8. CASE DecodeFail
    <2>1. PICK F \in {{}, finals} : Pass(Dropped, {}, F)
      BY <1>8 DEF DecodeFail
    <2>2. batPc' \in BatcherPcs /\ failures' \in Nat
      BY <1>4, <1>8 DEF DecodeFail, After, BatcherPcs
    <2>3. Dropped \in SUBSET reg
      BY <1>5 DEF Dropped
    <2>4. F \in SUBSET FinalItem /\ SoundFinals(F)
      BY <1>4, <1>5, <1>6
    <2> HIDE DEF Dropped
    <2> QED  BY <1>2, <1>3, <1>6, <2>1, <2>2, <2>3, <2>4, PassEnds
  <1> QED  BY <1>7, <1>8

(* STOP joins the queue.                                                   *)
LEMMA ShutdownKeeps ==
  ASSUME StreamInv, Shutdown
  PROVE  StreamInv'
  <1>1. TypeInv /\ WorkInv /\ (\A s \in Streams : At(s))
    BY InvAt
  <1>2. /\ drive' = drive /\ frames' = frames /\ dispatched' = dispatched
        /\ cons' = cons /\ cbuf' = cbuf /\ got' = got /\ outq' = outq /\ reg' = reg
        /\ nextIdx' = nextIdx /\ decoded' = decoded /\ total' = total
        /\ failed' = failed /\ harmed' = harmed /\ batPc' = batPc /\ live' = live
        /\ finals' = finals /\ stopping' = stopping /\ failures' = failures
        /\ engineDead' = engineDead
    BY DEF Shutdown, request, consumer, registry, pass
  <1>3. inq \in Seq(Item) /\ STOP \in Item /\ inq' = Append(inq, STOP)
    BY <1>1 DEF Shutdown, TypeInv, TypeBatcher, Item
  <1>4. inq' \in Seq(Item) /\ ToSet(inq') = ToSet(inq) \cup {STOP}
    BY <1>3, AppendFacts
  <1>5. TypeInv'
    BY <1>1, <1>2, <1>4 DEF TypeInv, TypeRequest, TypeRegistry, TypeBatcher
  <1>6. WorkInv'
    <2>1. frames' \in [Streams -> Nat] /\ \A s \in Streams : frames[s] <= frames'[s]
      BY <1>1, <1>2 DEF TypeInv, TypeRequest
    <2> QED  BY <1>1, <1>2, <1>4, <2>1, WorkGrows
  <1>7. ASSUME NEW s \in Streams PROVE At(s)'
    <2>1. Same(s)
      BY <1>2 DEF Same
    <2> QED  BY <1>1, <2>1, SameAt
  <1> QED  BY <1>5, <1>6, <1>7, InvNext

-----------------------------------------------------------------------------
(* Theorems.                                                               *)

(* Nothing has happened yet.                                               *)
LEMMA StreamInit == Init => StreamInv
  <1> SUFFICES ASSUME Init PROVE StreamInv
    OBVIOUS
  <1>1. TypeInv
    <2>1. <<>> \in Seq(Int) /\ <<>> \in Seq(Item)
      OBVIOUS
    <2>2. TypeRequest
      BY <2>1 DEF Init, TypeRequest, DrivePcs, ConsumerPcs
    <2>3. TypeRegistry
      BY <2>1 DEF Init, TypeRegistry
    <2>4. TypeBatcher
      BY <2>1 DEF Init, TypeBatcher, BatcherPcs
    <2> QED  BY <2>2, <2>3, <2>4 DEF TypeInv
  <1>2. WorkInv
    BY ShortSeqFacts DEF Init, WorkInv, SoundJobs, SoundFinals
  <1>3. ASSUME NEW r \in Streams PROVE At(r)
    <2>1. /\ drive[r] = "off" /\ cons[r] = "off" /\ frames[r] = 0 /\ dispatched[r] = 0
          /\ outq[r] = <<>> /\ cbuf[r] = <<>> /\ got[r] = <<>> /\ r \notin reg
          /\ nextIdx[r] = 0 /\ decoded[r] = {} /\ total[r] = Unknown
          /\ r \notin failed /\ r \notin harmed
      BY DEF Init
    <2>2. MaxFrames[r] \in Nat /\ Ready(0) = 0
      BY DEF Ready
    <2>3. FramesAt(r)
      BY <2>1, <2>2 DEF FramesAt
    <2>4. Past(r) = 0
      <3>1. Past(r) = Len(<<>>) + Len(<<>>)
        BY <2>1 DEF Past
      <3> QED  BY <3>1
    <2>5. Len(outq[r]) <= QMax
      BY <2>1, NothingWaits
    <2>6. QueueAt(r)
      BY <2>1, <2>4, <2>5, NothingWaits DEF QueueAt
    <2>7. FailAt(r)
      BY <2>1 DEF FailAt, Live
    <2> QED  BY <2>3, <2>6, <2>7 DEF At
  <1> QED  BY <1>1, <1>2, <1>3, InvAt

(* Every step of any task keeps the invariant.                             *)
LEMMA StreamStep == StreamInv /\ [Next]_vars => StreamInv'
  <1> SUFFICES ASSUME StreamInv, [Next]_vars PROVE StreamInv'
    OBVIOUS
  <1>1. ASSUME NEW r \in Streams, OpenRefused(r) \/ Open(r) PROVE StreamInv'
    BY <1>1, OpenKeeps
  <1>2. ASSUME NEW r \in Streams, Drive(r) PROVE StreamInv'
    BY <1>2, OutputKeeps, DriveEndKeeps DEF Drive
  <1>3. ASSUME NEW r \in Streams, Consumer(r) \/ Disconnect(r) PROVE StreamInv'
    BY <1>3, TakeFrameKeeps, TakeEndKeeps, WaitKeeps DEF Consumer
  <1>4. ASSUME Batcher PROVE StreamInv'
    BY <1>4, CollectKeeps, DecodeKeeps DEF Batcher
  <1>5. ASSUME Shutdown PROVE StreamInv'
    BY <1>5, ShutdownKeeps
  <1>6. ASSUME UNCHANGED vars PROVE StreamInv'
    <2>1. /\ drive' = drive /\ frames' = frames /\ dispatched' = dispatched
          /\ cons' = cons /\ cbuf' = cbuf /\ got' = got /\ outq' = outq /\ inq' = inq
          /\ reg' = reg /\ nextIdx' = nextIdx /\ decoded' = decoded /\ total' = total
          /\ failed' = failed /\ harmed' = harmed /\ batPc' = batPc /\ live' = live
          /\ finals' = finals /\ stopping' = stopping /\ failures' = failures
          /\ engineDead' = engineDead
      BY <1>6 DEF vars, request, consumer, registry, pass
    <2>2. TypeInv /\ WorkInv /\ (\A s \in Streams : At(s))
      BY InvAt
    <2>3. TypeInv'
      BY <2>1, <2>2 DEF TypeInv, TypeRequest, TypeRegistry, TypeBatcher
    <2>4. WorkInv'
      BY <2>1, <2>2 DEF WorkInv, SoundJobs, SoundFinals
    <2>5. ASSUME NEW s \in Streams PROVE At(s)'
      <3>1. Same(s)
        BY <2>1 DEF Same
      <3> QED  BY <2>2, <3>1, SameAt
    <2> QED  BY <2>3, <2>4, <2>5, InvNext
  <1> QED  BY <1>1, <1>2, <1>3, <1>4, <1>5, <1>6 DEF Next

(* The inductive invariant: work on its way is for frames that are there,  *)
(* a queue goes on where its client stands, and a failure leaves its mark. *)
THEOREM StreamInductive == Spec => []StreamInv
  <1>1. Init => StreamInv
    BY StreamInit
  <1>2. StreamInv /\ [Next]_vars => StreamInv'
    BY StreamStep
  <1> QED  BY <1>1, <1>2, PTL DEF Spec

(* The types of the pipeline's state, whatever its tasks do.               *)
THEOREM StreamType == Spec => []TypeInv
  <1>1. StreamInv => TypeInv
    BY DEF StreamInv
  <1> QED  BY <1>1, StreamInductive, PTL

(* A client's frames, those it has and those on their way.                 *)
LEMMA HeardFacts ==
  ASSUME TypeInv, NEW r \in Streams, QueueAt(r)
  PROVE  /\ Heard(r) \in Seq(Int) /\ Counts(Heard(r), 0)
         /\ Len(Heard(r)) = Past(r) + Len(Frames(outq[r]))
         /\ Counts(outq[r], Past(r)) => Len(Heard(r)) = Past(r) + Len(outq[r])
  <1> DEFINE g == got[r]
             c == cbuf[r]
             q == outq[r]
             f == Frames(q)
             p == g \o c
  <1>1. g \in Seq(Int) /\ c \in Seq(Int) /\ q \in Seq(Int)
    BY DEF TypeInv, TypeRequest, TypeRegistry
  <1>2. /\ Counts(g, 0) /\ Counts(c, Len(g)) /\ Waiting(q, Past(r))
        /\ Past(r) = Len(g) + Len(c) /\ Heard(r) = p \o f
    BY DEF QueueAt, Past, Heard
  <1> HIDE DEF g, c, q
  <1>3. Len(g) \in Nat /\ Len(c) \in Nat
    BY <1>1
  <1>4. Past(r) \in Nat /\ 0 + Len(g) = Len(g) /\ 0 + Past(r) = Past(r)
    BY <1>2, <1>3
  <1>5. /\ f \in Seq(Int) /\ Counts(f, Past(r)) /\ (Counts(q, Past(r)) => f = q)
    BY <1>1, <1>2, <1>4, FramesFacts
  <1>6. p \in Seq(Int) /\ Len(p) = Past(r) /\ Counts(p, 0)
    <2>1. Counts(c, 0 + Len(g)) /\ Waiting(c, 0 + Len(g))
      BY <1>2, <1>4 DEF Counts, Waiting
    <2> QED  BY <1>1, <1>2, <2>1, JoinFacts
  <1> HIDE DEF f, p
  <1>7. /\ p \o f \in Seq(Int) /\ Len(p \o f) = Past(r) + Len(f) /\ Counts(p \o f, 0)
    <2>1. Counts(f, 0 + Len(p)) /\ Waiting(f, 0 + Len(p))
      BY <1>4, <1>5, <1>6 DEF Counts, Waiting
    <2> QED  BY <1>5, <1>6, <2>1, JoinFacts, ZenonT(40)
  <1> QED  BY <1>2, <1>5, <1>7 DEF f, q

(* A client has the first frames of its own utterance, each once and in    *)
(* order, and while it listens it misses none the batcher has moved past.  *)
THEOREM TtsInOrder == Spec => []InOrder
  <1>1. ASSUME StreamInv PROVE InOrder
    <2>1. ASSUME NEW r \in Streams
          PROVE  /\ \A k \in DOMAIN Heard(r) : Heard(r)[k] = k - 1
                 /\ Live(r) /\ r \in reg => Len(Heard(r)) = nextIdx[r]
      <3>1. TypeInv /\ QueueAt(r)
        BY <1>1 DEF StreamInv, QueueInv
      <3>2. /\ Heard(r) \in Seq(Int) /\ Counts(Heard(r), 0)
            /\ Counts(outq[r], Past(r)) => Len(Heard(r)) = Past(r) + Len(outq[r])
        BY <3>1, HeardFacts
      <3>3. \A k \in DOMAIN Heard(r) : Heard(r)[k] = k - 1
        <4> DEFINE h == Heard(r)
        <4>1. h \in Seq(Int) /\ \A k \in DOMAIN h : h[k] = 0 + k - 1
          BY <3>2 DEF Counts
        <4> HIDE DEF h
        <4>2. \A k \in DOMAIN h : k \in Int
          BY <4>1
        <4>3. \A k \in DOMAIN h : h[k] = k - 1
          BY <4>1, <4>2
        <4> QED  BY <4>3 DEF h
      <3>4. r \in reg => Len(Heard(r)) = nextIdx[r]
        BY <3>1, <3>2 DEF QueueAt
      <3> QED  BY <3>3, <3>4
    <2> QED  BY <2>1 DEF InOrder
  <1> QED  BY <1>1, StreamInductive, PTL

(* "consumer must report an error frame, not a clean end": a request that  *)
(* a failure or an overflow cut short never ends clean, and one that does  *)
(* had every frame of a generation that finished decoded and released.     *)
THEOREM TtsFailureNeverClean == Spec => []FailureNeverClean
  <1>1. ASSUME StreamInv PROVE FailureNeverClean
    <2>1. ASSUME NEW r \in Streams, cons[r] = "clean"
          PROVE  r \notin harmed /\ drive[r] = "done" /\ Len(Heard(r)) = frames[r]
      <3>1. TypeInv /\ QueueAt(r) /\ FailAt(r)
        BY <1>1 DEF StreamInv, QueueInv, FailInv
      <3>2. Len(Heard(r)) = Past(r) + Len(Frames(outq[r]))
        BY <3>1, HeardFacts
      <3> QED  BY <2>1, <3>1, <3>2 DEF FailAt, Whole
    <2> QED  BY <2>1 DEF FailureNeverClean
  <1> QED  BY <1>1, StreamInductive, PTL
=============================================================================
