------------------------- MODULE OfflineRun_proofs -------------------------
(***************************************************************************)
(* Proofs about OfflineRun, for any list of utterances, any pool and batch *)
(* size, and whatever cannot be read, prompted or encoded.                 *)
(***************************************************************************)
EXTENDS OfflineRun, SequenceFacts, FiniteSetTheorems

MainPcs == {"start", "top", "stock", "encode", "admit", "next", "evict", "returned", "raised"}
ProdPcs == {"off", "poll", "encode", "check", "done", "failed"}
Cells == Utts \cup {NoUtt}
BufType == [pos : [Slots -> Nat], cap : [Slots -> Nat],
            row : [Slots -> [Columns -> Cells]], keys : [Slots -> [Columns -> Cells]],
            last : [Slots -> Cells], alive : SUBSET Slots, fin : SUBSET Slots]

(* The types of the variables.                                             *)
TypeWork ==
    /\ utterances \in Seq(Utts) /\ IsInjective(utterances) /\ overlap \in BOOLEAN
    /\ mainPc \in MainPcs /\ prodPc \in ProdPcs
    /\ source \in Seq(Utts) /\ hand \in Seq(Utts) /\ ready \in Seq(Utts)
    /\ exhausted \in BOOLEAN
TypePool ==
    /\ lAlloc \in Nat
    /\ slotUtt \in [Slots -> Cells] /\ buf \in BufType /\ aliveSet \subseteq Slots
TypeTold == calls \in [Utts -> Nat] /\ answer \in [Utts -> SUBSET Cells]
TypeInv == TypeWork /\ TypePool /\ TypeTold

(* What a step of the pool must find in the slot of an utterance.          *)
SlotAt(b, s) ==
    /\ slotUtt[s] # NoUtt /\ PromptLen <= b.pos[s] /\ b.pos[s] <= lAlloc
    /\ \A c \in 0 .. b.pos[s] : b.row[s][c] = slotUtt[s]
    /\ \A c \in 0 .. b.pos[s] - 1 : b.keys[s][c] = slotUtt[s]
    /\ s \notin b.fin =>
          /\ b.last[s] = slotUtt[s] /\ b.pos[s] < lAlloc
          /\ b.pos[s] + 1 < b.cap[s] /\ b.cap[s] <= lAlloc + 1
BufInv(b) ==
    /\ b.fin \subseteq b.alive
    /\ \A s \in b.alive : SlotAt(b, s)
PoolInv ==
    /\ lAlloc <= MaxPos /\ aliveSet = buf.alive /\ BufInv(buf)
    /\ mainPc # "raised" => \A s \in Slots \ aliveSet : slotUtt[s] = NoUtt

(* Each utterance is in one stage at most, and in one as long as nothing   *)
(* was reported for it.                                                    *)
Slotted == {slotUtt[s] : s \in Slots} \ {NoUtt}
StageInv ==
    /\ IsInjective(source) /\ IsInjective(hand) /\ IsInjective(ready)
    /\ ToSet(source) \cap ToSet(hand) = {} /\ ToSet(source) \cap ToSet(ready) = {}
    /\ ToSet(hand) \cap ToSet(ready) = {}
    /\ Slotted \cap (ToSet(source) \cup ToSet(hand) \cup ToSet(ready)) = {}
    /\ \A s, t \in Slots : slotUtt[s] = slotUtt[t] /\ slotUtt[s] # NoUtt => s = t
    /\ Held \subseteq ToSet(utterances)
ToldInv ==
    /\ mainPc = "start" => Held = {} /\ \A u \in Utts : calls[u] = 0
    /\ mainPc # "start" => \A u \in ToSet(utterances) : u \in Held <=> calls[u] = 0
    /\ \A u \in Utts : /\ calls[u] \in {0, 1} /\ answer[u] \in {{}, {u}}
                       /\ calls[u] = 0 => answer[u] = {}

(* Where the two threads stand.                                            *)
ThreadInv ==
    /\ prodPc # "off" => overlap /\ mainPc # "start"
    /\ mainPc = "encode" => ~overlap /\ ~exhausted
    /\ mainPc = "start" => ~exhausted
    /\ hand # <<>> => \/ prodPc \in {"encode", "failed"}
                      \/ ~overlap /\ mainPc \in {"encode", "raised"}
    /\ prodPc = "done" => source = <<>>
    /\ exhausted => IF overlap THEN ProducerDone ELSE source = <<>> /\ hand = <<>>
    /\ mainPc = "returned" => /\ exhausted /\ ready = <<>> /\ aliveSet = {}
                              /\ prodPc # "failed"

RunInv == TypeInv /\ PoolInv /\ StageInv /\ ToldInv /\ ThreadInv

-----------------------------------------------------------------------------
(* Lemmas about positions and lists.                                       *)

(* A set of n numbers has a k-th smallest for every k up to n.             *)
LEMMA RankExists ==
  ASSUME NEW S, IsFiniteSet(S), S \subseteq Nat, NEW k \in 1 .. Cardinality(S)
  PROVE  \E n \in S : Cardinality({m \in S : m < n}) = k - 1
  <1> DEFINE below(n) == {m \in S : m < n}
             T == {j \in Nat : j < Cardinality(S) =>
                                 \E n \in S : Cardinality(below(n)) = j}
  <1>1. Cardinality(S) \in Nat
    BY FS_CardinalityType
  <1>2. 0 \in T
    <2>1. SUFFICES ASSUME 0 < Cardinality(S)
                   PROVE  \E n \in S : Cardinality(below(n)) = 0
      OBVIOUS
    <2>2. S # {}
      BY <2>1, FS_EmptySet
    <2>3. PICK n \in S : \A m \in S : n <= m
      BY <2>2, LeastNat
    <2>4. below(n) = {}
      <3>1. \A m \in S : ~(m < n)
        BY <2>3
      <3> QED  BY <3>1
    <2> QED  BY <2>4, FS_EmptySet
  <1>3. ASSUME NEW j \in T PROVE j + 1 \in T
    <2>1. SUFFICES ASSUME j + 1 < Cardinality(S)
                   PROVE  \E n \in S : Cardinality(below(n)) = j + 1
      OBVIOUS
    <2>2. PICK n \in S : Cardinality(below(n)) = j
      BY <1>1, <2>1
    <2> DEFINE upTo == below(n) \cup {n}
               rest == S \ upTo
    <2>3. IsFiniteSet(below(n)) /\ n \notin below(n)
      BY FS_Subset
    <2>4. Cardinality(upTo) = j + 1
      BY <2>2, <2>3, FS_AddElement
    <2>5. rest # {}
      <3>1. upTo \subseteq S
        OBVIOUS
      <3>2. rest = {} => upTo = S
        BY <3>1
      <3> QED  BY <1>1, <2>1, <2>4, <3>2
    <2>6. PICK s \in rest : \A m \in rest : s <= m
      BY <2>5, LeastNat
    <2>7. below(s) = upTo
      <3>1. n < s
        BY <2>6
      <3>2. ASSUME NEW m \in S PROVE m < s <=> m \in upTo
        <4>1. m < s => m \notin rest
          BY <2>6
        <4>2. m \in upTo => m <= n
          OBVIOUS
        <4> QED  BY <3>1, <4>1, <4>2
      <3> QED  BY <3>2
    <2> QED  BY <2>4, <2>6, <2>7
  <1>4. T = Nat
    <2>1. T \subseteq Nat
      OBVIOUS
    <2> HIDE DEF T
    <2> QED  BY <1>2, <1>3, <2>1, NatSetInduction
  <1>5. k - 1 \in T /\ k - 1 < Cardinality(S)
    BY <1>1, <1>4
  <1> QED  BY <1>5

(* Positions, by their rank: all of them, each once.                       *)
LEMMA NthFacts ==
  ASSUME NEW S, IsFiniteSet(S), S \subseteq Nat
  PROVE  /\ \A k \in 1 .. Cardinality(S) : Nth(S, k) \in S
         /\ \A j, k \in 1 .. Cardinality(S) : Nth(S, j) = Nth(S, k) => j = k
         /\ \A n \in S : \E k \in 1 .. Cardinality(S) : Nth(S, k) = n
         /\ Cardinality(S) \in Nat
  <1> DEFINE below(n) == {m \in S : m < n}
  <1>1. Cardinality(S) \in Nat
    BY FS_CardinalityType
  <1>2. \A k \in 1 .. Cardinality(S) : Nth(S, k) \in S /\ Cardinality(below(Nth(S, k))) = k - 1
    BY RankExists DEF Nth
  <1>3. \A n \in S : IsFiniteSet(below(n)) /\ below(n) \subseteq S
    BY FS_Subset
  <1>4. ASSUME NEW n \in S, NEW m \in S, m < n
        PROVE  Cardinality(below(m)) < Cardinality(below(n))
    <2>1. below(m) \subseteq below(n) /\ m \in below(n) /\ m \notin below(m)
      <3>1. n \in Nat /\ m \in Nat /\ \A x \in S : x \in Nat
        OBVIOUS
      <3>2. ~(m < m) /\ \A x \in S : x < m => x < n
        BY <1>4, <3>1
      <3> QED  BY <1>4, <3>2
    <2>2. /\ Cardinality(below(m)) <= Cardinality(below(n))
          /\ Cardinality(below(m)) # Cardinality(below(n))
      BY <1>3, <2>1, FS_Subset
    <2>3. Cardinality(below(m)) \in Nat /\ Cardinality(below(n)) \in Nat
      BY <1>3, FS_CardinalityType
    <2> QED  BY <2>2, <2>3
  <1>5. ASSUME NEW n \in S PROVE \E k \in 1 .. Cardinality(S) : Nth(S, k) = n
    <2> DEFINE c == Cardinality(below(n))
    <2>1. c \in Nat /\ c < Cardinality(S)
      <3>1. below(n) \subseteq S /\ n \notin below(n)
        OBVIOUS
      <3>2. c <= Cardinality(S) /\ c # Cardinality(S)
        BY <3>1, FS_Subset
      <3>3. c \in Nat
        BY <1>3, FS_CardinalityType
      <3> QED  BY <1>1, <3>2, <3>3
    <2>2. c + 1 \in 1 .. Cardinality(S)
      BY <1>1, <2>1
    <2> DEFINE s == Nth(S, c + 1)
    <2>3. s \in S /\ Cardinality(below(s)) = c
      BY <1>2, <2>1, <2>2
    <2> HIDE DEF s
    <2>4. s < n => Cardinality(below(s)) < c
      BY <1>4, <2>3
    <2>5. n < s => c < Cardinality(below(s))
      BY <1>4, <2>3
    <2> HIDE DEF c, below
    <2>6. s \in Nat /\ n \in Nat /\ ~(s < n) /\ ~(n < s)
      BY <2>1, <2>3, <2>4, <2>5
    <2>7. s = n
      BY <2>6
    <2> QED  BY <2>2, <2>7 DEF s
  <1>6. ASSUME NEW j \in 1 .. Cardinality(S), NEW k \in 1 .. Cardinality(S),
               Nth(S, j) = Nth(S, k)
        PROVE  j = k
    <2>1. Cardinality(below(Nth(S, j))) = j - 1 /\ Cardinality(below(Nth(S, k))) = k - 1
      BY <1>2
    <2>2. j - 1 = k - 1
      BY <1>6, <2>1
    <2> QED  BY <1>1, <2>2
  <1> QED  BY <1>1, <1>2, <1>5, <1>6

(* A list without some of its entries: the others, each as often.          *)
LEMMA WithoutFacts ==
  ASSUME NEW q \in Seq(Utts), NEW drop
  PROVE  /\ Without(q, drop) \in Seq(Utts)
         /\ ToSet(Without(q, drop)) = ToSet(q) \ drop
         /\ IsInjective(q) => IsInjective(Without(q, drop))
  <1> DEFINE kept == {i \in DOMAIN q : q[i] \notin drop}
             n == Cardinality(kept)
             w == [k \in 1 .. n |-> q[Nth(kept, k)]]
  <1>1. DOMAIN q = 1 .. Len(q) /\ Len(q) \in Nat
    OBVIOUS
  <1>2. kept \subseteq DOMAIN q /\ kept \subseteq Nat /\ IsFiniteSet(kept)
    <2>1. IsFiniteSet(1 .. Len(q))
      BY <1>1, FS_Interval
    <2>2. kept \subseteq 1 .. Len(q)
      BY <1>1
    <2> QED  BY <1>1, <2>1, <2>2, FS_Subset
  <1>3. /\ \A k \in 1 .. n : Nth(kept, k) \in kept
        /\ \A j, k \in 1 .. n : Nth(kept, j) = Nth(kept, k) => j = k
        /\ \A i \in kept : \E k \in 1 .. n : Nth(kept, k) = i
        /\ n \in Nat
    BY <1>2, NthFacts
  <1>4. \A i \in kept : q[i] \in Utts /\ q[i] \notin drop /\ i \in DOMAIN q
    BY <1>1
  <1>5. \A i \in DOMAIN q : q[i] \notin drop => i \in kept
    OBVIOUS
  <1>6. Without(q, drop) = w
    BY DEF Without
  <1> HIDE DEF kept, n
  <1>7. w \in Seq(Utts) /\ DOMAIN w = 1 .. n
    <2>1. w \in [1 .. n -> Utts]
      BY <1>3, <1>4
    <2> QED  BY <1>3, <2>1, FunctionSeq
  <1>8. ToSet(w) = ToSet(q) \ drop
    <2>1. ToSet(w) = {w[k] : k \in 1 .. n} /\ ToSet(q) = {q[i] : i \in DOMAIN q}
      BY <1>7 DEF ToSet
    <2>2. ASSUME NEW k \in 1 .. n PROVE w[k] \in ToSet(q) \ drop
      BY <1>3, <1>4, <2>1
    <2>3. ASSUME NEW i \in DOMAIN q, q[i] \notin drop PROVE q[i] \in ToSet(w)
      <3>1. PICK k \in 1 .. n : Nth(kept, k) = i
        BY <1>3, <1>5, <2>3
      <3>2. w[k] = q[i]
        BY <3>1
      <3> QED  BY <2>1, <3>2
    <2> QED  BY <2>1, <2>2, <2>3
  <1>9. ASSUME IsInjective(q) PROVE IsInjective(w)
    <2>1. ASSUME NEW j \in 1 .. n, NEW k \in 1 .. n, w[j] = w[k] PROVE j = k
      <3>1. q[Nth(kept, j)] = q[Nth(kept, k)]
        BY <2>1
      <3>2. Nth(kept, j) = Nth(kept, k)
        BY <1>3, <1>4, <1>9, <3>1 DEF IsInjective
      <3> QED  BY <1>3, <3>2
    <2> QED  BY <1>7, <2>1 DEF IsInjective
  <1> QED  BY <1>6, <1>7, <1>8, <1>9

(* Limits of the pool.                                                     *)
LEMMA CapFacts ==
  /\ \A n \in Nat : /\ CapTotal(n) \in Nat \ {0}
                    /\ Lesser(MaxPos, CapTotal(n) + 1) \in Nat \ {0}
                    /\ Lesser(MaxPos, CapTotal(n) + 1) <= MaxPos
  /\ \A u \in Utts : /\ CapTotal(EncLen[u]) \in Nat /\ PromptLen + 1 < CapTotal(EncLen[u])
                     /\ EncLen[u] \in Nat
  /\ PromptLen \in Nat \ {0} /\ MaxPos \in Nat \ {0}
  <1>1. /\ PromptLen \in Nat \ {0} /\ MaxPos \in Nat \ {0} /\ Delta \in Nat
    BY PoolAssumption
  <1>2. ASSUME NEW n \in Nat
        PROVE  /\ CapTotal(n) \in Nat \ {0}
               /\ Lesser(MaxPos, CapTotal(n) + 1) \in Nat \ {0}
               /\ Lesser(MaxPos, CapTotal(n) + 1) <= MaxPos
    BY <1>1 DEF CapTotal, Lesser
  <1>3. \A u \in Utts : EncLen[u] \in Nat /\ PromptLen + 1 < CapTotal(EncLen[u])
    BY RunAssumption
  <1> QED  BY <1>1, <1>2, <1>3

(* A pull takes a prefix of the source.                                    *)
LEMMA PullFacts ==
  ASSUME source \in Seq(Utts)
  PROVE  NPull \in 0 .. Len(source)
  <1> DEFINE n == Len(source)
             seen(k) == {i \in 1 .. k : source[i] \notin LoadFails}
             T == {k \in 0 .. n : Readable(k) >= EncoderBatch \/ k = n}
  <1>1. n \in Nat /\ EncoderBatch \in Nat \ {0}
    BY RunAssumption
  <1>2. \A k \in Nat : IsFiniteSet(seen(k)) /\ Readable(k) = Cardinality(seen(k))
    <2>1. \A k \in Nat : IsFiniteSet(1 .. k)
      BY FS_Interval
    <2> QED  BY <2>1, FS_Subset DEF Readable
  <1>3. \A k \in Nat : Readable(k) \in Nat
    BY <1>2, FS_CardinalityType
  <1>4. Readable(0) = 0
    <2>1. seen(0) = {}
      OBVIOUS
    <2> QED  BY <1>2, <2>1, FS_EmptySet
  <1>5. ASSUME NEW k \in Nat PROVE Readable(k + 1) <= Readable(k) + 1
    <2>1. seen(k + 1) \subseteq seen(k) \cup {k + 1}
      OBVIOUS
    <2>2. IsFiniteSet(seen(k) \cup {k + 1})
          /\ Cardinality(seen(k) \cup {k + 1}) <= Cardinality(seen(k)) + 1
      <3>1. Cardinality(seen(k)) \in Nat
        BY <1>2, FS_CardinalityType
      <3>2. /\ IsFiniteSet(seen(k) \cup {k + 1})
            /\ Cardinality(seen(k) \cup {k + 1}) =
                 IF k + 1 \in seen(k) THEN Cardinality(seen(k)) ELSE Cardinality(seen(k)) + 1
        BY <1>2, FS_AddElement
      <3> QED  BY <3>1, <3>2
    <2>3. Cardinality(seen(k + 1)) <= Cardinality(seen(k) \cup {k + 1})
      BY <2>1, <2>2, FS_Subset
    <2>6. k + 1 \in Nat
      OBVIOUS
    <2>4. Readable(k + 1) = Cardinality(seen(k + 1)) /\ Readable(k) = Cardinality(seen(k))
      BY <1>2, <2>6
    <2>5. Readable(k) \in Nat /\ Readable(k + 1) \in Nat
          /\ Cardinality(seen(k) \cup {k + 1}) \in Nat
      BY <1>3, <2>2, <2>6, FS_CardinalityType
    <2> HIDE DEF seen
    <2> QED  BY <2>2, <2>3, <2>4, <2>5
  <1> HIDE DEF seen
  <1>6. T \subseteq Nat /\ n \in T
    BY <1>1
  <1>7. PICK k \in T : \A m \in T : k <= m
    BY <1>6, LeastNat
  <1>8. \A j \in 0 .. k - 1 : Readable(j) < EncoderBatch
    <2>1. ASSUME NEW j \in 0 .. k - 1 PROVE Readable(j) < EncoderBatch
      <3>1. j \in 0 .. n /\ j # n /\ j \in Nat /\ ~(k <= j)
        BY <1>1, <1>7
      <3>2. j \notin T
        BY <1>7, <3>1
      <3> QED  BY <1>1, <1>3, <3>1, <3>2
    <2> QED  BY <2>1
  <1>9. Readable(k) = EncoderBatch \/ k = n
    <2>1. CASE k = n
      BY <2>1
    <2>2. CASE k # n
      <3>1. Readable(k) >= EncoderBatch /\ k \in Nat
        BY <1>7, <2>2
      <3>2. k # 0
        BY <1>1, <1>4, <3>1
      <3>3. k - 1 \in Nat /\ k - 1 \in 0 .. k - 1
        BY <3>1, <3>2
      <3>4. Readable(k - 1) < EncoderBatch /\ Readable((k - 1) + 1) <= Readable(k - 1) + 1
        BY <1>5, <1>8, <3>3
      <3>5. (k - 1) + 1 = k
        BY <3>1
      <3>6. Readable(k) <= Readable(k - 1) + 1
        BY <3>4, <3>5
      <3>7. Readable(k) \in Nat /\ Readable(k - 1) \in Nat
        BY <1>3, <3>1, <3>3
      <3>8. Readable(k) = EncoderBatch
        BY <1>1, <3>1, <3>4, <3>6, <3>7
      <3> QED  BY <3>8
    <2> QED  BY <2>1, <2>2
  <1>10. k \in 0 .. Len(source)
    BY <1>7
  <1> QED  BY <1>8, <1>9, <1>10 DEF NPull

(* There is a longest utterance in a batch.                                *)
LEMMA LongestFacts ==
  ASSUME NEW batch \in Seq(Utts), batch # <<>>
  PROVE  LongestOf(batch) \in Nat
  <1> DEFINE len(i) == EncLen[batch[i]]
             n == Len(batch)
             T == {k \in Nat : k <= n => \E b \in Nat : \A i \in 1 .. k : len(i) <= b}
             U == {b \in Nat : \A i \in 1 .. n : len(i) <= b}
  <1>1. /\ n \in Nat \ {0} /\ ToSet(batch) = {batch[i] : i \in 1 .. n}
        /\ \A i \in 1 .. n : batch[i] \in Utts
    BY DEF ToSet
  <1>2. \A i \in 1 .. n : len(i) \in Nat
    BY <1>1, CapFacts
  <1> HIDE DEF len, n
  <1>3. 0 \in T
    OBVIOUS
  <1>4. ASSUME NEW k \in T PROVE k + 1 \in T
    <2>1. SUFFICES ASSUME k + 1 <= n PROVE \E b \in Nat : \A i \in 1 .. k + 1 : len(i) <= b
      OBVIOUS
    <2>2. PICK b \in Nat : \A i \in 1 .. k : len(i) <= b
      BY <1>1, <2>1
    <2>3. len(k + 1) \in Nat
      BY <1>1, <1>2, <2>1
    <2>4. \A i \in 1 .. k + 1 : i \in 1 .. k \/ i = k + 1
      OBVIOUS
    <2>5. ASSUME NEW i \in 1 .. k + 1 PROVE len(i) <= b + len(k + 1)
      <3>1. len(i) \in Nat
        BY <1>1, <1>2, <2>1
      <3>2. len(i) <= b \/ len(i) = len(k + 1)
        BY <2>2, <2>4
      <3> QED  BY <2>3, <3>1, <3>2
    <2> QED  BY <2>3, <2>5
  <1>5. n \in T
    <2>1. T \subseteq Nat
      OBVIOUS
    <2> HIDE DEF T
    <2>2. T = Nat
      BY <1>3, <1>4, <2>1, NatSetInduction
    <2> QED  BY <1>1, <2>2
  <1>6. U \subseteq Nat /\ U # {}
    <2>1. n <= n
      BY <1>1
    <2>2. \E b \in Nat : \A i \in 1 .. n : len(i) <= b
      BY <1>5, <2>1
    <2> QED  BY <2>2
  <1>7. PICK b \in U : \A m \in U : b <= m
    BY <1>6, LeastNat
  <1>8. \E i \in 1 .. n : len(i) = b
    <2>1. SUFFICES ASSUME \A i \in 1 .. n : len(i) # b PROVE FALSE
      OBVIOUS
    <2>2. \A i \in 1 .. n : len(i) < b
      BY <1>2, <1>7, <2>1
    <2>3. len(1) \in Nat /\ len(1) < b
      BY <1>1, <1>2, <2>2
    <2>4. b - 1 \in Nat
      BY <1>7, <2>3
    <2>5. b - 1 \in U
      BY <1>2, <1>7, <2>2, <2>4
    <2> QED  BY <1>7, <2>5
  <1>9. \E t \in {EncLen[u] : u \in ToSet(batch)} : \A u \in ToSet(batch) : EncLen[u] <= t
    BY <1>1, <1>7, <1>8 DEF len
  <1>10. LongestOf(batch) \in {EncLen[u] : u \in ToSet(batch)}
    BY <1>9 DEF LongestOf
  <1> QED  BY <1>1, <1>10, CapFacts

(* Each free slot takes an utterance of its own, from the head of ready.   *)
LEMMA PlacedFacts ==
  ASSUME ready \in Seq(Utts), IsInjective(ready)
  PROVE  LET popped == ToSet(SubSeq(ready, 1, NTake)) IN
         /\ NTake \in 0 .. Len(ready)
         /\ \A p \in Placed : /\ p[1] \in Free /\ p[2] \in Utts /\ p[2] \in popped
                              /\ FitsPool(p[2])
         /\ \A p, q \in Placed : p[1] = q[1] \/ p[2] = q[2] => p = q
         /\ \A u \in popped : FitsPool(u) => \E p \in Placed : p[2] = u
         /\ {ready[i] : i \in {j \in 1 .. NTake : ~FitsPool(ready[j])}}
              = {u \in popped : ~FitsPool(u)}
  <1> DEFINE n == NTake
             popped == ToSet(SubSeq(ready, 1, n))
             I == {j \in 1 .. n : FitsPool(ready[j])}
  <1>1. IsFiniteSet(Free) /\ Free \subseteq Nat
    BY RunAssumption, FS_Subset DEF Free
  <1>2. /\ \A k \in 1 .. Cardinality(Free) : Nth(Free, k) \in Free
        /\ \A j, k \in 1 .. Cardinality(Free) : Nth(Free, j) = Nth(Free, k) => j = k
        /\ Cardinality(Free) \in Nat
    BY <1>1, NthFacts
  <1>3. Len(ready) \in Nat /\ DOMAIN ready = 1 .. Len(ready)
        /\ \A i \in 1 .. Len(ready) : ready[i] \in Utts
    OBVIOUS
  <1>4. n \in 0 .. Len(ready) /\ n \in Nat /\ n <= Cardinality(Free) /\ n <= Len(ready)
    BY <1>2, <1>3 DEF NTake, Lesser
  <1> HIDE DEF n
  <1>5. \A i \in 1 .. n : /\ i \in 1 .. Cardinality(Free) /\ i \in 1 .. Len(ready)
                          /\ ready[i] \in Utts
    BY <1>2, <1>3, <1>4
  <1>6. popped = {ready[i] : i \in 1 .. n}
    <2> DEFINE h == SubSeq(ready, 1, n)
    <2>1. /\ h \in Seq(Utts) /\ Len(h) = n
          /\ \A i \in 1 .. n : h[i] = ready[i]
      <3>1. \A i \in 1 .. n : ready[i] \in Utts
        BY <1>5
      <3> QED  BY <1>4, <3>1, SubSeqProperties
    <2>2. DOMAIN h = 1 .. n
      BY <2>1
    <2> HIDE DEF h
    <2>3. ToSet(h) = {ready[i] : i \in 1 .. n}
      BY <2>1, <2>2 DEF ToSet
    <2> QED  BY <2>3 DEF h
  <1> HIDE DEF popped
  <1>7. Placed = {<<Nth(Free, i), ready[i]>> : i \in I}
    BY DEF Placed, n
  <1>8. \A i \in I : i \in 1 .. n /\ FitsPool(ready[i])
    OBVIOUS
  <1>9. \A p \in Placed : \E i \in I : p[1] = Nth(Free, i) /\ p[2] = ready[i]
                                        /\ p = <<Nth(Free, i), ready[i]>>
    BY <1>7
  <1>10. \A p \in Placed : /\ p[1] \in Free /\ p[2] \in Utts /\ p[2] \in popped
                           /\ FitsPool(p[2])
    BY <1>2, <1>5, <1>6, <1>8, <1>9
  <1>11. ASSUME NEW p \in Placed, NEW q \in Placed, p[1] = q[1] \/ p[2] = q[2]
         PROVE  p = q
    <2>1. PICK i \in I : p[1] = Nth(Free, i) /\ p[2] = ready[i]
                         /\ p = <<Nth(Free, i), ready[i]>>
      BY <1>9
    <2>2. PICK j \in I : q[1] = Nth(Free, j) /\ q[2] = ready[j]
                         /\ q = <<Nth(Free, j), ready[j]>>
      BY <1>9
    <2>3. Nth(Free, i) = Nth(Free, j) => i = j
      BY <1>2, <1>5, <1>8
    <2>4. ready[i] = ready[j] => i = j
      BY <1>3, <1>5, <1>8 DEF IsInjective
    <2> QED  BY <1>11, <2>1, <2>2, <2>3, <2>4
  <1>12. ASSUME NEW u \in popped, FitsPool(u) PROVE \E p \in Placed : p[2] = u
    <2>1. PICK i \in 1 .. n : u = ready[i]
      BY <1>6
    <2>2. <<Nth(Free, i), ready[i]>> \in Placed
      BY <1>7, <1>12, <2>1
    <2>3. <<Nth(Free, i), ready[i]>>[2] = u
      BY <2>1
    <2> QED  BY <2>2, <2>3
  <1>13. {ready[i] : i \in {j \in 1 .. n : ~FitsPool(ready[j])}}
           = {u \in popped : ~FitsPool(u)}
    BY <1>6
  <1> QED  BY <1>4, <1>10, <1>11, <1>12, <1>13 DEF n, popped

-----------------------------------------------------------------------------
(* The decode step.                                                        *)

(* What a step does to each field of the pool's tensors.                   *)
LEMMA StepFields ==
  ASSUME NEW b \in BufType, NEW ends
  PROVE  LET n == StepBody(b, ends)
             moving == b.alive \ b.fin
         IN
         /\ n.alive = b.alive /\ n.cap = b.cap
         /\ n.pos = [s \in Slots |-> Advance(b.pos[s], s \in moving, lAlloc)]
         /\ n.fin = b.fin \cup {s \in moving : Hits(n.pos[s], s \in ends, b.cap[s])}
         /\ n.last = [s \in Slots |-> Tenant(b, s)]
         /\ n.row = [s \in Slots |-> [b.row[s] EXCEPT ![TokenColumn(b, s)] = Tenant(b, s)]]
         /\ n.keys = [s \in Slots |->
                        [b.keys[s] EXCEPT ![IF s \in b.fin THEN lAlloc ELSE b.pos[s]] =
                           IF s \in moving THEN b.last[s] ELSE NoUtt]]
         /\ (n.pos \in [Slots -> Nat] /\ n.row \in [Slots -> [Columns -> Cells]]
             /\ n.keys \in [Slots -> [Columns -> Cells]] /\ n.last \in [Slots -> Cells]
             /\ n.fin \subseteq Slots => n \in BufType)
  <1> DEFINE moving == b.alive \ b.fin
             K == [s \in Slots |->
                        [b.keys[s] EXCEPT ![IF s \in b.fin THEN lAlloc ELSE b.pos[s]] =
                           IF s \in moving THEN b.last[s] ELSE NoUtt]]
             R == [s \in Slots |-> [b.row[s] EXCEPT ![TokenColumn(b, s)] = Tenant(b, s)]]
             L == [s \in Slots |-> Tenant(b, s)]
             P == [s \in Slots |-> Advance(b.pos[s], s \in moving, lAlloc)]
             F == b.fin \cup {s \in moving : Hits(P[s], s \in ends, b.cap[s])}
             m == [b EXCEPT !.keys = K, !.row = R, !.last = L, !.pos = P, !.fin = F]
  <1>1. StepBody(b, ends) = m
    BY Zenon DEF StepBody
  <1> HIDE DEF K, R, L, P, F
  <1>2. /\ m.alive = b.alive /\ m.cap = b.cap /\ m.pos = P /\ m.fin = F /\ m.last = L
        /\ m.row = R /\ m.keys = K
    BY DEF BufType
  <1>3. ASSUME P \in [Slots -> Nat], R \in [Slots -> [Columns -> Cells]],
               K \in [Slots -> [Columns -> Cells]], L \in [Slots -> Cells], F \subseteq Slots
        PROVE  m \in BufType
    BY <1>3 DEF BufType
  <1> HIDE DEF m
  <1> QED  BY <1>1, <1>2, <1>3 DEF K, R, L, P, F

(* A step moves what is not finished by one token of its own utterance and *)
(* keeps what it finds of every slot.                                      *)
LEMMA StepKeeps ==
  ASSUME TypePool, lAlloc <= MaxPos, NEW b \in BufType, BufInv(b), NEW ends
  PROVE  /\ StepBody(b, ends) \in BufType /\ StepBody(b, ends).alive = b.alive
         /\ BufInv(StepBody(b, ends))
  <1> DEFINE n == StepBody(b, ends)
             moving == b.alive \ b.fin
  <1>1. /\ n.alive = b.alive /\ n.cap = b.cap
        /\ n.pos = [s \in Slots |-> Advance(b.pos[s], s \in moving, lAlloc)]
        /\ n.fin = b.fin \cup {s \in moving : Hits(n.pos[s], s \in ends, b.cap[s])}
        /\ n.last = [s \in Slots |-> Tenant(b, s)]
        /\ n.row = [s \in Slots |-> [b.row[s] EXCEPT ![TokenColumn(b, s)] = Tenant(b, s)]]
        /\ n.keys = [s \in Slots |->
                       [b.keys[s] EXCEPT ![IF s \in b.fin THEN lAlloc ELSE b.pos[s]] =
                          IF s \in moving THEN b.last[s] ELSE NoUtt]]
        /\ (n.pos \in [Slots -> Nat] /\ n.row \in [Slots -> [Columns -> Cells]]
            /\ n.keys \in [Slots -> [Columns -> Cells]] /\ n.last \in [Slots -> Cells]
            /\ n.fin \subseteq Slots => n \in BufType)
    BY StepFields
  <1> HIDE DEF n
  <1>2. /\ b.pos \in [Slots -> Nat] /\ b.cap \in [Slots -> Nat]
        /\ b.row \in [Slots -> [Columns -> Cells]] /\ b.keys \in [Slots -> [Columns -> Cells]]
        /\ b.last \in [Slots -> Cells] /\ b.alive \subseteq Slots /\ b.fin \subseteq b.alive
        /\ lAlloc \in Nat /\ MaxPos \in Nat /\ slotUtt \in [Slots -> Cells] /\ NoUtt \in Cells
    BY CapFacts DEF BufType, TypePool, BufInv, Cells
  <1>3. \A s \in Slots : Tenant(b, s) \in Cells
    BY <1>2 DEF Tenant
  <1>4. n \in BufType
    <2>1. n.pos \in [Slots -> Nat]
      BY <1>1, <1>2 DEF Advance, Lesser
    <2>6. \A f \in [Columns -> Cells] : \A i, v : v \in Cells =>
             [f EXCEPT ![i] = v] \in [Columns -> Cells]
      OBVIOUS
    <2>2. n.row \in [Slots -> [Columns -> Cells]]
      <3>1. \A s \in Slots : [b.row[s] EXCEPT ![TokenColumn(b, s)] = Tenant(b, s)]
                                \in [Columns -> Cells]
        BY <1>2, <1>3, <2>6
      <3> QED  BY <1>1, <3>1
    <2>3. n.keys \in [Slots -> [Columns -> Cells]]
      <3>1. ASSUME NEW s \in Slots
            PROVE  [b.keys[s] EXCEPT ![IF s \in b.fin THEN lAlloc ELSE b.pos[s]] =
                      IF s \in moving THEN b.last[s] ELSE NoUtt] \in [Columns -> Cells]
        <4> DEFINE i == IF s \in b.fin THEN lAlloc ELSE b.pos[s]
                   v == IF s \in moving THEN b.last[s] ELSE NoUtt
        <4>1. b.keys[s] \in [Columns -> Cells] /\ v \in Cells
          BY <1>2
        <4> HIDE DEF i, v
        <4>2. [b.keys[s] EXCEPT ![i] = v] \in [Columns -> Cells]
          BY <2>6, <4>1
        <4> QED  BY <4>2 DEF i, v
      <3> QED  BY <1>1, <3>1
    <2>4. n.last \in [Slots -> Cells]
      BY <1>1, <1>3
    <2>5. n.fin \subseteq Slots
      BY <1>1, <1>2
    <2> QED  BY <1>1, <2>1, <2>2, <2>3, <2>4, <2>5
  <1>5. ASSUME NEW s \in b.alive PROVE SlotAt(n, s)
    <2> DEFINE p == b.pos[s]
               u == slotUtt[s]
    <2>1. /\ s \in Slots /\ u # NoUtt /\ PromptLen <= p /\ p <= lAlloc /\ p \in Nat
          /\ \A c \in 0 .. p : b.row[s][c] = u
          /\ \A c \in 0 .. p - 1 : b.keys[s][c] = u
          /\ (s \notin b.fin => /\ b.last[s] = u /\ p < lAlloc
                                /\ p + 1 < b.cap[s] /\ b.cap[s] <= lAlloc + 1)
      BY <1>2, <1>5 DEF BufInv, SlotAt
    <2>2. /\ n.pos[s] = Advance(p, s \in moving, lAlloc)
          /\ n.row[s] = [b.row[s] EXCEPT ![TokenColumn(b, s)] = Tenant(b, s)]
          /\ n.keys[s] = [b.keys[s] EXCEPT ![IF s \in b.fin THEN lAlloc ELSE p] =
                            IF s \in moving THEN b.last[s] ELSE NoUtt]
          /\ n.last[s] = Tenant(b, s) /\ n.cap[s] = b.cap[s]
      BY <1>1, <2>1
    <2>3. /\ DOMAIN b.row[s] = Columns /\ DOMAIN b.keys[s] = Columns
          /\ \A c \in 0 .. lAlloc : c \in Columns /\ c # lAlloc + 1
          /\ PromptLen \in Nat /\ b.cap[s] \in Nat
      <3>1. \A c \in 0 .. lAlloc : c \in Columns /\ c # lAlloc + 1
        BY <1>2 DEF Columns
      <3> QED  BY <1>2, <2>1, <3>1, CapFacts
    <2> HIDE DEF p, u
    <2>4. CASE s \in b.fin
      <3>1. n.pos[s] = p /\ Tenant(b, s) = NoUtt /\ TokenColumn(b, s) = lAlloc + 1
        BY <1>2, <2>1, <2>2, <2>4 DEF Advance, Lesser, Tenant, TokenColumn
      <3>2. \A c \in 0 .. p : n.row[s][c] = u
        <4>1. \A c \in 0 .. p : c \in 0 .. lAlloc
          BY <1>2, <2>1
        <4> QED  BY <2>1, <2>2, <2>3, <3>1, <4>1
      <3>3. \A c \in 0 .. p - 1 : n.keys[s][c] = u
        <4>1. \A c \in 0 .. p - 1 : c \in 0 .. lAlloc /\ c # lAlloc
          BY <1>2, <2>1
        <4> QED  BY <2>1, <2>2, <2>3, <2>4, <4>1
      <3>4. s \in n.fin
        BY <1>1, <2>4
      <3> QED  BY <2>1, <3>1, <3>2, <3>3, <3>4 DEF SlotAt, u
    <2>5. CASE s \notin b.fin
      <3>1. s \in moving
        BY <1>5, <2>5
      <3>2. /\ b.last[s] = u /\ p < lAlloc /\ p + 1 < b.cap[s] /\ b.cap[s] <= lAlloc + 1
        BY <2>1, <2>5
      <3>3. Advance(p, TRUE, lAlloc) = p + 1
        BY <1>2, <2>1, <3>2 DEF Advance, Lesser
      <3>4. n.pos[s] = p + 1 /\ Tenant(b, s) = u /\ TokenColumn(b, s) = p + 1
        <4>1. Tenant(b, s) = u
          BY <3>1 DEF Tenant, u
        <4>2. TokenColumn(b, s) = Advance(p, TRUE, lAlloc)
          BY <1>5, <2>5 DEF TokenColumn, p
        <4>3. n.pos[s] = Advance(p, TRUE, lAlloc)
          BY <2>2, <3>1
        <4> QED  BY <3>3, <4>1, <4>2, <4>3
      <3>5. \A c \in 0 .. p + 1 : n.row[s][c] = u
        <4>1. \A c \in 0 .. p + 1 : c \in Columns /\ (c \in 0 .. p \/ c = p + 1)
          BY <1>2, <2>1, <2>3, <3>2
        <4> QED  BY <2>1, <2>2, <2>3, <3>4, <4>1
      <3>6. \A c \in 0 .. p : n.keys[s][c] = u
        <4>1. \A c \in 0 .. p : c \in Columns /\ (c \in 0 .. p - 1 \/ c = p)
          BY <1>2, <2>1, <2>3
        <4> QED  BY <2>1, <2>2, <2>3, <2>5, <3>1, <3>2, <4>1
      <3>7. (p + 1) - 1 = p /\ PromptLen <= p + 1 /\ p + 1 <= lAlloc
        BY <1>2, <2>1, <2>3, <3>2
      <3>8. s \notin n.fin => p + 1 < lAlloc /\ (p + 1) + 1 < b.cap[s]
        <4>1. s \notin n.fin => ~Hits(p + 1, s \in ends, b.cap[s])
          BY <1>1, <3>1, <3>4
        <4>2. ~Hits(p + 1, s \in ends, b.cap[s]) => (p + 1) + 1 < b.cap[s]
          BY <2>1, <2>3 DEF Hits
        <4> QED  BY <1>2, <2>1, <2>3, <3>2, <4>1, <4>2
      <3> QED  BY <2>1, <2>2, <3>2, <3>4, <3>5, <3>6, <3>7, <3>8 DEF SlotAt, u
    <2> QED  BY <2>4, <2>5
  <1>6. n.fin \subseteq n.alive
    BY <1>1, <1>2
  <1> QED  BY <1>1, <1>4, <1>5, <1>6 DEF BufInv, n

(* The body run with every slot held still: what a slot of b needs remains.*)
Still(w, b) ==
    /\ w \in BufType /\ w.alive = {} /\ w.fin = b.fin /\ w.cap = b.cap
    /\ \A s \in b.alive : /\ w.pos[s] = b.pos[s]
                          /\ \A c \in 0 .. b.pos[s] - 1 : w.keys[s][c] = b.keys[s][c]

(* One more run of the body with every slot held still.                    *)
LEMMA StillStep ==
  ASSUME TypePool, lAlloc <= MaxPos, NEW b \in BufType, BufInv(b), NEW w, Still(w, b)
  PROVE  Still(StepBody(w, {}), b)
  <1> DEFINE n == StepBody(w, {})
             none == w.alive \ w.fin
  <1>0. w \in BufType /\ w.alive = {} /\ none = {}
    BY DEF Still
  <1>1. /\ n.alive = w.alive /\ n.cap = w.cap
        /\ n.pos = [s \in Slots |-> Advance(w.pos[s], s \in none, lAlloc)]
        /\ n.fin = w.fin \cup {s \in none : Hits(n.pos[s], s \in {}, w.cap[s])}
        /\ n.last = [s \in Slots |-> Tenant(w, s)]
        /\ n.row = [s \in Slots |-> [w.row[s] EXCEPT ![TokenColumn(w, s)] = Tenant(w, s)]]
        /\ n.keys = [s \in Slots |->
                       [w.keys[s] EXCEPT ![IF s \in w.fin THEN lAlloc ELSE w.pos[s]] =
                          IF s \in none THEN w.last[s] ELSE NoUtt]]
        /\ (n.pos \in [Slots -> Nat] /\ n.row \in [Slots -> [Columns -> Cells]]
            /\ n.keys \in [Slots -> [Columns -> Cells]] /\ n.last \in [Slots -> Cells]
            /\ n.fin \subseteq Slots => n \in BufType)
    BY <1>0, StepFields
  <1> HIDE DEF n, none
  <1>2. /\ w.pos \in [Slots -> Nat] /\ w.row \in [Slots -> [Columns -> Cells]]
        /\ w.keys \in [Slots -> [Columns -> Cells]] /\ w.fin \subseteq Slots
        /\ lAlloc \in Nat /\ NoUtt \in Cells /\ b.alive \subseteq Slots
        /\ b.pos \in [Slots -> Nat]
    BY <1>0 DEF BufType, TypePool, Cells
  <1>3. \A s \in Slots : Tenant(w, s) = NoUtt
    BY <1>0 DEF Tenant
  <1>4. n.fin = w.fin /\ n.alive = {} /\ n.cap = b.cap /\ n.fin = b.fin
    BY <1>0, <1>1 DEF Still
  <1>5. n.keys = [s \in Slots |->
                    [w.keys[s] EXCEPT ![IF s \in w.fin THEN lAlloc ELSE w.pos[s]] = NoUtt]]
    BY <1>0, <1>1
  <1>6. n \in BufType
    <2>1. \A f \in [Columns -> Cells] : \A i : [f EXCEPT ![i] = NoUtt] \in [Columns -> Cells]
      BY <1>2
    <2>2. n.row \in [Slots -> [Columns -> Cells]]
      <3>1. \A s \in Slots : [w.row[s] EXCEPT ![TokenColumn(w, s)] = Tenant(w, s)]
                                \in [Columns -> Cells]
        BY <1>2, <1>3, <2>1
      <3> QED  BY <1>1, <3>1
    <2>3. n.keys \in [Slots -> [Columns -> Cells]]
      <3>1. ASSUME NEW s \in Slots
            PROVE  [w.keys[s] EXCEPT ![IF s \in w.fin THEN lAlloc ELSE w.pos[s]] = NoUtt]
                      \in [Columns -> Cells]
        <4> DEFINE i == IF s \in w.fin THEN lAlloc ELSE w.pos[s]
        <4> HIDE DEF i
        <4>1. [w.keys[s] EXCEPT ![i] = NoUtt] \in [Columns -> Cells]
          BY <1>2, <2>1
        <4> QED  BY <4>1 DEF i
      <3> QED  BY <1>5, <3>1
    <2>4. n.pos \in [Slots -> Nat]
      BY <1>1, <1>2 DEF Advance, Lesser
    <2>5. n.last \in [Slots -> Cells]
      BY <1>1, <1>2, <1>3
    <2> QED  BY <1>1, <1>2, <1>4, <2>2, <2>3, <2>4, <2>5
  <1>7. ASSUME NEW s \in b.alive
        PROVE  /\ n.pos[s] = b.pos[s]
               /\ \A c \in 0 .. b.pos[s] - 1 : n.keys[s][c] = b.keys[s][c]
    <2> DEFINE p == b.pos[s]
    <2>1. /\ s \in Slots /\ p \in Nat /\ p <= lAlloc /\ w.pos[s] = p
          /\ \A c \in 0 .. p - 1 : w.keys[s][c] = b.keys[s][c]
      BY <1>2, <1>7 DEF BufInv, SlotAt, Still
    <2>2. n.pos[s] = Advance(p, s \in none, lAlloc)
          /\ n.keys[s] = [w.keys[s] EXCEPT ![IF s \in w.fin THEN lAlloc ELSE p] = NoUtt]
      BY <1>1, <1>5, <2>1
    <2>3. DOMAIN w.keys[s] = Columns
      BY <1>2, <2>1
    <2> HIDE DEF p
    <2>4. n.pos[s] = p
      BY <1>0, <1>2, <2>1, <2>2 DEF Advance, Lesser
    <2>5. \A c \in 0 .. p - 1 : c # lAlloc /\ c # p
      BY <1>2, <2>1
    <2>6. \A c \in 0 .. p - 1 : n.keys[s][c] = w.keys[s][c]
      BY <2>2, <2>3, <2>5
    <2> QED  BY <2>1, <2>4, <2>6 DEF p
  <1> QED  BY <1>4, <1>6, <1>7 DEF Still, n

(* The warm-up of a graph leaves what the next step reads.                 *)
LEMMA WarmUpKeeps ==
  ASSUME TypePool, lAlloc <= MaxPos, NEW b \in BufType, BufInv(b)
  PROVE  WarmUp(b) \in BufType /\ BufInv(WarmUp(b)) /\ WarmUp(b).alive = b.alive
  <1> DEFINE held == [b EXCEPT !.alive = {}]
             w == Warm(b)
             n == [w EXCEPT !.alive = b.alive, !.pos = b.pos, !.row = b.row, !.last = b.last]
  <1>1. Still(held, b)
    BY DEF Still, BufType
  <1>2. Still(w, b)
    <2> DEFINE one == StepBody(held, {})
               two == StepBody(one, {})
    <2> HIDE DEF held
    <2>1. Still(one, b)
      BY <1>1, StillStep
    <2> HIDE DEF one
    <2>2. Still(two, b)
      BY <2>1, StillStep
    <2> HIDE DEF two
    <2>3. Still(StepBody(two, {}), b)
      BY <2>2, StillStep
    <2> QED  BY <2>3 DEF two, one, held, Warm
  <1> HIDE DEF w
  <1>3. WarmUp(b) = n
    BY DEF WarmUp, w
  <1>4. /\ n \in BufType /\ n.alive = b.alive /\ n.pos = b.pos /\ n.row = b.row
        /\ n.last = b.last /\ n.fin = b.fin /\ n.cap = b.cap /\ n.keys = w.keys
    BY <1>2 DEF Still, BufType
  <1> HIDE DEF n
  <1>5. ASSUME NEW s \in b.alive PROVE SlotAt(n, s)
    <2>1. SlotAt(b, s) /\ \A c \in 0 .. b.pos[s] - 1 : n.keys[s][c] = b.keys[s][c]
      BY <1>2, <1>4 DEF BufInv, Still
    <2> QED  BY <1>4, <2>1 DEF SlotAt
  <1> QED  BY <1>3, <1>4, <1>5 DEF BufInv

-----------------------------------------------------------------------------
(* What a step does to the stages an utterance may be in.                  *)

(* Nothing is reported and no utterance moves in or out.                   *)
LEMMA ToldSame ==
  ASSUME ToldInv, Held' = Held, utterances' = utterances, calls' = calls,
         answer' = answer, mainPc' = "start" <=> mainPc = "start"
  PROVE  ToldInv'
  BY DEF ToldInv

(* Utterances that were held are reported as failed and held no more.      *)
LEMMA Reported ==
  ASSUME TypeInv, ToldInv, Held \subseteq ToSet(utterances), NEW F \in SUBSET Held,
         Report(F), Held' = Held \ F, utterances' = utterances, answer' = answer,
         mainPc # "start", mainPc' # "start"
  PROVE  TypeTold' /\ ToldInv'
  <1>1. /\ calls \in [Utts -> Nat] /\ answer \in [Utts -> SUBSET Cells]
        /\ ToSet(utterances) \subseteq Utts
    BY ToSetType DEF TypeInv, TypeTold, TypeWork
  <1>2. \A u \in Utts : calls'[u] = IF u \in F THEN calls[u] + 1 ELSE calls[u]
    BY DEF Report
  <1>3. \A u \in F : u \in ToSet(utterances) /\ u \in Utts /\ calls[u] = 0 /\ answer[u] = {}
    BY <1>1 DEF ToldInv
  <1>4. \A u \in F : calls'[u] = 1
    BY <1>2, <1>3
  <1>5. TypeTold'
    <2>1. calls' \in [Utts -> Nat]
      BY <1>1 DEF Report
    <2> QED  BY <1>1, <2>1 DEF TypeTold
  <1>6. \A u \in ToSet(utterances) : (u \in Held)' <=> calls'[u] = 0
    <2>1. \A u \in ToSet(utterances) : u \in Held <=> calls[u] = 0
      BY DEF ToldInv
    <2> QED  BY <1>1, <1>2, <1>4, <2>1
  <1>7. ASSUME NEW u \in Utts
        PROVE  /\ calls'[u] \in {0, 1} /\ answer'[u] \in {{}, {u}}
               /\ calls'[u] = 0 => answer'[u] = {}
    <2>1. CASE u \in F
      BY <1>3, <1>4, <2>1
    <2>2. CASE u \notin F
      BY <1>2, <2>2 DEF ToldInv
    <2> QED  BY <2>1, <2>2
  <1> QED  BY <1>5, <1>6, <1>7 DEF ToldInv

(* The utterances a stage holds.                                           *)
LEMMA HeldIs ==
  Held = ToSet(source) \cup ToSet(hand) \cup ToSet(ready) \cup Slotted
  BY DEF Held, Slotted

(* A pull reports what cannot be read and takes the rest in hand.          *)
LEMMA LoadStages ==
  ASSUME TypeInv, StageInv, ToldInv, hand = <<>>, LoadBatch,
         ready' = ready, slotUtt' = slotUtt, utterances' = utterances, answer' = answer,
         mainPc # "start", mainPc' # "start"
  PROVE  /\ source' \in Seq(Utts) /\ hand' \in Seq(Utts) /\ TypeTold'
         /\ StageInv' /\ ToldInv'
  <1> DEFINE pulled == SubSeq(source, 1, NPull)
             F == ToSet(pulled) \cap LoadFails
  <1>1. /\ source \in Seq(Utts) /\ ToSet(hand) = {}
    BY ShortSeqFacts DEF TypeInv, TypeWork
  <1>2. NPull \in 0 .. Len(source)
    BY <1>1, PullFacts
  <1>3. /\ Report(F) /\ hand' = Without(pulled, LoadFails)
        /\ source' = SubSeq(source, NPull + 1, Len(source))
    BY DEF LoadBatch
  <1>4. /\ pulled \in Seq(Utts) /\ source' \in Seq(Utts)
        /\ ToSet(pulled) \cup ToSet(source') = ToSet(source)
        /\ IsInjective(source) => /\ IsInjective(pulled) /\ IsInjective(source')
                                  /\ ToSet(pulled) \cap ToSet(source') = {}
    BY <1>1, <1>2, <1>3, SplitFacts
  <1> HIDE DEF pulled
  <1>5. /\ hand' \in Seq(Utts) /\ ToSet(hand') = ToSet(pulled) \ LoadFails
        /\ IsInjective(pulled) => IsInjective(hand')
    BY <1>3, <1>4, WithoutFacts
  <1>6. Slotted' = Slotted
    BY DEF Slotted
  <1>7. IsInjective(source)
    BY DEF StageInv
  <1>8. Held' = Held \ F /\ F \in SUBSET Held
    <2>1. Held' = ToSet(source') \cup ToSet(hand') \cup ToSet(ready) \cup Slotted
      BY <1>6, HeldIs DEF Held, Slotted
    <2>2. Held = ToSet(source) \cup ToSet(ready) \cup Slotted
      BY <1>1, HeldIs
    <2>3. ToSet(pulled) \cap ToSet(ready) = {} /\ ToSet(pulled) \cap Slotted = {}
      BY <1>4 DEF StageInv
    <2> QED  BY <1>4, <1>5, <1>7, <2>1, <2>2, <2>3
  <1>9. StageInv'
    <2>1. /\ IsInjective(ready') /\ Slotted' = Slotted
          /\ \A s, t \in Slots : slotUtt'[s] = slotUtt'[t] /\ slotUtt'[s] # NoUtt => s = t
          /\ Held \subseteq ToSet(utterances)
          /\ ToSet(source) \cap ToSet(ready) = {}
          /\ Slotted \cap (ToSet(source) \cup ToSet(ready)) = {}
      BY <1>6 DEF StageInv
    <2>2. /\ IsInjective(source') /\ IsInjective(hand')
          /\ ToSet(source') \cap ToSet(hand') = {}
          /\ ToSet(source') \subseteq ToSet(source) /\ ToSet(hand') \subseteq ToSet(source)
      BY <1>4, <1>5, <1>7
    <2>3. /\ ToSet(source') \cap ToSet(ready') = {} /\ ToSet(hand') \cap ToSet(ready') = {}
          /\ Slotted' \cap (ToSet(source') \cup ToSet(hand') \cup ToSet(ready')) = {}
      BY <2>1, <2>2
    <2>4. Held' \subseteq ToSet(utterances')
      BY <1>8, <2>1
    <2> QED  BY <2>1, <2>2, <2>3, <2>4 DEF StageInv
  <1>10. TypeTold' /\ ToldInv'
    <2>1. Held \subseteq ToSet(utterances)
      BY DEF StageInv
    <2> QED  BY <1>3, <1>8, <2>1, Reported
  <1> QED  BY <1>4, <1>5, <1>9, <1>10

(* What was encoded waits behind the others; the first batch sizes the     *)
(* pool.                                                                   *)
LEMMA PublishStages ==
  ASSUME TypeInv, StageInv, ToldInv, Publish, source' = source,
         slotUtt' = slotUtt, utterances' = utterances, calls' = calls, answer' = answer,
         mainPc # "start", mainPc' # "start"
  PROVE  /\ hand' = <<>> /\ ready' \in Seq(Utts) /\ StageInv' /\ ToldInv'
         /\ lAlloc' = lAlloc \/ (lAlloc = 0 /\ lAlloc' \in Nat /\ lAlloc' <= MaxPos)
         /\ hand = <<>> => ready' = ready
  <1>1. /\ hand \in Seq(Utts) /\ ready \in Seq(Utts) /\ lAlloc \in Nat
    BY DEF TypeInv, TypeWork, TypePool
  <1>2. ready' = ready \o hand /\ hand' = <<>>
    BY DEF Publish
  <1>3. /\ ready' \in Seq(Utts) /\ ToSet(ready') = ToSet(ready) \cup ToSet(hand)
        /\ IsInjective(ready) /\ IsInjective(hand) /\ ToSet(ready) \cap ToSet(hand) = {}
             => IsInjective(ready')
    BY <1>1, <1>2, ConcatFacts
  <1>4. ToSet(hand') = {} /\ IsInjective(hand') /\ Slotted' = Slotted
    BY <1>2, ShortSeqFacts DEF Slotted
  <1>5. Held' = Held
    <2>1. Held' = ToSet(source') \cup ToSet(hand') \cup ToSet(ready') \cup Slotted'
      BY DEF Held, Slotted
    <2> QED  BY <1>3, <1>4, <2>1, HeldIs
  <1>6. StageInv'
    <2>1. /\ IsInjective(source') /\ IsInjective(ready')
          /\ ToSet(source') \cap ToSet(hand') = {} /\ ToSet(source') \cap ToSet(ready') = {}
          /\ ToSet(hand') \cap ToSet(ready') = {}
      BY <1>3, <1>4 DEF StageInv
    <2>2. Slotted' \cap (ToSet(source') \cup ToSet(hand') \cup ToSet(ready')) = {}
      BY <1>3, <1>4 DEF StageInv
    <2>3. \A s, t \in Slots : slotUtt'[s] = slotUtt'[t] /\ slotUtt'[s] # NoUtt => s = t
      BY DEF StageInv
    <2>4. Held' \subseteq ToSet(utterances')
      BY <1>5 DEF StageInv
    <2> QED  BY <1>4, <2>1, <2>2, <2>3, <2>4 DEF StageInv
  <1>7. ToldInv'
    BY <1>5, ToldSame
  <1>8. lAlloc' = lAlloc \/ (lAlloc = 0 /\ lAlloc' \in Nat /\ lAlloc' <= MaxPos)
    <2>1. CASE lAlloc = 0 /\ hand # <<>>
      <3>1. lAlloc' = Lesser(MaxPos, CapTotal(LongestOf(hand)) + 1)
        BY <2>1 DEF Publish
      <3>2. LongestOf(hand) \in Nat
        BY <1>1, <2>1, LongestFacts
      <3> QED  BY <2>1, <3>1, <3>2, CapFacts
    <2>2. CASE ~(lAlloc = 0 /\ hand # <<>>)
      BY <2>2 DEF Publish, sizes
    <2> QED  BY <2>1, <2>2
  <1>9. hand = <<>> => ready' = ready
    BY <1>1, <1>2
  <1> QED  BY <1>2, <1>3, <1>6, <1>7, <1>8, <1>9

(* run() begins: what came with an error is reported, the rest is queued.  *)
LEMMA StartStages ==
  ASSUME TypeInv, StageInv, ToldInv, Start
  PROVE  source' \in Seq(Utts) /\ TypeTold' /\ StageInv' /\ ToldInv'
  <1> DEFINE F == ToSet(utterances) \cap PreErrored
  <1>1. /\ mainPc = "start" /\ mainPc' = "top" /\ Report(F)
        /\ source' = Without(utterances, PreErrored)
        /\ hand' = hand /\ ready' = ready /\ slotUtt' = slotUtt
        /\ utterances' = utterances /\ answer' = answer
    BY DEF Start, pool, input
  <1>2. /\ utterances \in Seq(Utts) /\ IsInjective(utterances)
        /\ calls \in [Utts -> Nat] /\ answer \in [Utts -> SUBSET Cells]
        /\ ToSet(utterances) \subseteq Utts
    BY ToSetType DEF TypeInv, TypeWork, TypeTold
  <1>3. /\ source' \in Seq(Utts) /\ IsInjective(source')
        /\ ToSet(source') = ToSet(utterances) \ PreErrored
    BY <1>1, <1>2, WithoutFacts
  <1>4. Held = {} /\ \A u \in Utts : calls[u] = 0
    BY <1>1 DEF ToldInv
  <1>5. ToSet(hand) = {} /\ ToSet(ready) = {} /\ Slotted = {} /\ Slotted' = Slotted
    BY <1>1, <1>4, HeldIs DEF Slotted
  <1>6. Held' = ToSet(utterances) \ PreErrored
    <2>1. Held' = ToSet(source') \cup ToSet(hand') \cup ToSet(ready') \cup Slotted'
      BY DEF Held, Slotted
    <2> QED  BY <1>1, <1>3, <1>5, <2>1
  <1>7. StageInv'
    <2>1. /\ IsInjective(hand') /\ IsInjective(ready')
          /\ \A s, t \in Slots : slotUtt'[s] = slotUtt'[t] /\ slotUtt'[s] # NoUtt => s = t
      BY <1>1 DEF StageInv
    <2>2. Slotted' = {} /\ ToSet(hand') = {} /\ ToSet(ready') = {}
      BY <1>1, <1>5
    <2> QED  BY <1>1, <1>3, <1>6, <2>1, <2>2 DEF StageInv
  <1>8. \A u \in Utts : calls'[u] = IF u \in F THEN 1 ELSE 0
    BY <1>1, <1>4 DEF Report
  <1>9. TypeTold'
    <2>1. calls' \in [Utts -> Nat]
      BY <1>1, <1>2 DEF Report
    <2> QED  BY <1>1, <1>2, <2>1 DEF TypeTold
  <1>10. ToldInv'
    <2>1. \A u \in ToSet(utterances) : (u \in Held)' <=> calls'[u] = 0
      BY <1>2, <1>6, <1>8
    <2>2. \A u \in Utts : answer'[u] = {}
      BY <1>1, <1>4 DEF ToldInv
    <2> QED  BY <1>1, <1>8, <2>1, <2>2 DEF ToldInv
  <1> QED  BY <1>3, <1>7, <1>9, <1>10

(* What is admitted moves from ready to a slot of its own; what outgrew    *)
(* the pool is reported.                                                   *)
LEMMA AdmitStages ==
  ASSUME TypeInv, StageInv, ToldInv, AdmitReady, source' = source, hand' = hand,
         utterances' = utterances, answer' = answer, mainPc # "start", mainPc' # "start"
  PROVE  /\ ready' \in Seq(Utts) /\ slotUtt' \in [Slots -> Cells]
         /\ TypeTold' /\ StageInv' /\ ToldInv'
  <1> DEFINE popped == ToSet(SubSeq(ready, 1, NTake))
             F == {u \in popped : ~FitsPool(u)}
             put == {p[2] : p \in Placed}
  <1>1. ready \in Seq(Utts) /\ IsInjective(ready) /\ slotUtt \in [Slots -> Cells]
    BY DEF TypeInv, TypeWork, TypePool, StageInv
  <1>2. /\ NTake \in 0 .. Len(ready)
        /\ \A p \in Placed : p[1] \in Free /\ p[2] \in Utts /\ p[2] \in popped /\ FitsPool(p[2])
        /\ \A p, q \in Placed : p[1] = q[1] \/ p[2] = q[2] => p = q
        /\ \A u \in popped : FitsPool(u) => \E p \in Placed : p[2] = u
        /\ {ready[i] : i \in {j \in 1 .. NTake : ~FitsPool(ready[j])}} = F
    BY <1>1, PlacedFacts
  <1>3. /\ ready' = SubSeq(ready, NTake + 1, Len(ready)) /\ Report(F)
        /\ slotUtt' = [s \in Slots |-> IF \E p \in Placed : p[1] = s
                         THEN (CHOOSE p \in Placed : p[1] = s)[2] ELSE slotUtt[s]]
    <2>1. /\ ready' = ReadyAfterPop
          /\ Report({ready[i] : i \in {j \in 1 .. NTake : ~FitsPool(ready[j])}})
          /\ slotUtt' = [s \in Slots |-> IF \E p \in Placed : p[1] = s
                           THEN (CHOOSE p \in Placed : p[1] = s)[2] ELSE slotUtt[s]]
      BY DEF AdmitReady
    <2>2. Report({ready[i] : i \in {j \in 1 .. NTake : ~FitsPool(ready[j])}}) <=> Report(F)
      BY <1>2
    <2> QED  BY <2>1, <2>2 DEF ReadyAfterPop
  <1>4. /\ ready' \in Seq(Utts) /\ popped \cup ToSet(ready') = ToSet(ready)
        /\ IsInjective(ready') /\ popped \cap ToSet(ready') = {}
    BY <1>1, <1>2, <1>3, SplitFacts
  <1> HIDE DEF popped
  <1>5. \A p \in Placed : slotUtt'[p[1]] = p[2] /\ p[1] \in Slots /\ slotUtt[p[1]] = NoUtt
    <2>1. ASSUME NEW p \in Placed
          PROVE  slotUtt'[p[1]] = p[2] /\ p[1] \in Slots /\ slotUtt[p[1]] = NoUtt
      <3>1. p[1] \in Slots /\ slotUtt[p[1]] = NoUtt
        BY <1>2 DEF Free
      <3>2. (CHOOSE q \in Placed : q[1] = p[1]) = p
        BY <1>2
      <3> QED  BY <1>3, <3>1, <3>2
    <2> QED  BY <2>1
  <1>6. \A s \in Slots : slotUtt'[s] = slotUtt[s]
                         \/ \E p \in Placed : p[1] = s /\ slotUtt'[s] = p[2]
    BY <1>3
  <1>7. NoUtt \notin Utts /\ \A u \in put : u \in Utts /\ u # NoUtt
    BY <1>2, RunAssumption
  <1>8. slotUtt' \in [Slots -> Cells]
    <2>1. \A s \in Slots : slotUtt'[s] \in Cells
      BY <1>1, <1>2, <1>6 DEF Cells
    <2> QED  BY <1>3, <2>1
  <1>9. Slotted' = Slotted \cup put
    <2>1. Slotted' = {slotUtt'[s] : s \in Slots} \ {NoUtt}
      BY DEF Slotted
    <2>2. ASSUME NEW s \in Slots, slotUtt'[s] # NoUtt PROVE slotUtt'[s] \in Slotted \cup put
      BY <1>6, <2>2 DEF Slotted
    <2>3. ASSUME NEW s \in Slots, slotUtt[s] # NoUtt PROVE slotUtt[s] \in Slotted'
      <3>1. slotUtt'[s] = slotUtt[s]
        <4>1. ~\E p \in Placed : p[1] = s
          BY <1>5, <2>3
        <4> QED  BY <1>6, <4>1
      <3> QED  BY <2>1, <2>3, <3>1
    <2>4. ASSUME NEW p \in Placed PROVE p[2] \in Slotted'
      BY <1>5, <1>7, <2>1
    <2> QED  BY <2>1, <2>2, <2>3, <2>4 DEF Slotted
  <1>10. put = popped \ F
    BY <1>2
  <1>11. Held' = Held \ F /\ F \in SUBSET Held
    <2>1. Held' = ToSet(source) \cup ToSet(hand) \cup ToSet(ready') \cup Slotted'
      BY DEF Held, Slotted
    <2>2. /\ ToSet(source) \cap ToSet(ready) = {} /\ ToSet(hand) \cap ToSet(ready) = {}
          /\ Slotted \cap ToSet(ready) = {} /\ F \subseteq popped
      BY DEF StageInv
    <2> HIDE DEF F, put
    <2> QED  BY <1>4, <1>9, <1>10, <2>1, <2>2, HeldIs
  <1>12. StageInv'
    <2>1. /\ IsInjective(source) /\ IsInjective(hand) /\ ToSet(source) \cap ToSet(hand) = {}
          /\ ToSet(source) \cap ToSet(ready) = {} /\ ToSet(hand) \cap ToSet(ready) = {}
          /\ Slotted \cap (ToSet(source) \cup ToSet(hand) \cup ToSet(ready)) = {}
          /\ Held \subseteq ToSet(utterances)
      BY DEF StageInv
    <2>2. ASSUME NEW s \in Slots, NEW t \in Slots, slotUtt'[s] = slotUtt'[t],
                 slotUtt'[s] # NoUtt
          PROVE  s = t
      <3>1. slotUtt[s] \in Slotted \/ slotUtt[s] = NoUtt
        BY DEF Slotted
      <3>2. slotUtt[t] \in Slotted \/ slotUtt[t] = NoUtt
        BY DEF Slotted
      <3>3. \A p \in Placed : p[2] \notin Slotted
        BY <1>2, <1>4, <2>1
      <3>4. slotUtt[s] = slotUtt[t] /\ slotUtt[s] # NoUtt => s = t
        BY DEF StageInv
      <3>5. slotUtt'[s] = slotUtt[s] \/ \E p \in Placed : p[1] = s /\ slotUtt'[s] = p[2]
        BY <1>6
      <3>6. slotUtt'[t] = slotUtt[t] \/ \E p \in Placed : p[1] = t /\ slotUtt'[t] = p[2]
        BY <1>6
      <3> QED  BY <1>2, <2>2, <3>1, <3>2, <3>3, <3>4, <3>5, <3>6
    <2>3. Slotted' \cap (ToSet(source) \cup ToSet(hand) \cup ToSet(ready')) = {}
      <3> HIDE DEF put, F
      <3>1. put \subseteq popped
        BY <1>10
      <3> QED  BY <1>4, <1>9, <2>1, <3>1
    <2>4. Held' \subseteq ToSet(utterances')
      BY <1>11, <2>1
    <2>5. ToSet(ready') \subseteq ToSet(ready)
      BY <1>4
    <2> QED  BY <1>4, <2>1, <2>2, <2>3, <2>4, <2>5 DEF StageInv
  <1>13. TypeTold' /\ ToldInv'
    <2>1. Held \subseteq ToSet(utterances)
      BY DEF StageInv
    <2> QED  BY <1>3, <1>11, <2>1, Reported
  <1> QED  BY <1>4, <1>8, <1>12, <1>13

-----------------------------------------------------------------------------
(* What a step does to the pool.                                           *)

(* The pool is left alone, or sized while it is empty.                     *)
LEMMA PoolSame ==
  ASSUME TypePool, PoolInv, buf' = buf, slotUtt' = slotUtt, aliveSet' = aliveSet,
         mainPc = "raised" => mainPc' = "raised",
         lAlloc' = lAlloc \/ (lAlloc = 0 /\ lAlloc' \in Nat /\ lAlloc' <= MaxPos)
  PROVE  TypePool' /\ PoolInv'
  <1>1. TypePool'
    BY DEF TypePool
  <1>2. ASSUME NEW s \in buf.alive PROVE SlotAt(buf, s) /\ lAlloc' = lAlloc
    <2>1. SlotAt(buf, s) /\ s \in Slots
      BY DEF PoolInv, BufInv, TypePool, BufType
    <2>2. buf.pos[s] \in Nat /\ PromptLen \in Nat \ {0} /\ lAlloc \in Nat
      BY <2>1, CapFacts DEF TypePool, BufType
    <2>3. lAlloc # 0
      BY <2>1, <2>2 DEF SlotAt
    <2> QED  BY <2>1, <2>3
  <1>3. \A s \in buf.alive : SlotAt(buf, s)'
    BY <1>2 DEF SlotAt
  <1>4. BufInv(buf)'
    BY <1>3 DEF BufInv, PoolInv
  <1> QED  BY <1>1, <1>4 DEF PoolInv

(* A slot that is filled starts with the prompt of its utterance, below    *)
(* the limits of the pool.                                                 *)
LEMMA AdmitPool ==
  ASSUME TypeInv, StageInv, PoolInv, Admit, slotUtt' \in [Slots -> Cells]
  PROVE  TypePool' /\ PoolInv'
  <1> DEFINE into == {p[1] : p \in Placed}
             utt(s) == (CHOOSE p \in Placed : p[1] = s)[2]
  <1>0. mainPc = "admit" /\ lAlloc' = lAlloc
    BY DEF Admit, sizes
  <1>1. CASE ~ShouldAdmit
    <2>1. buf' = buf /\ slotUtt' = slotUtt /\ aliveSet' = aliveSet
      BY <1>1 DEF Admit, pool
    <2> QED  BY <1>0, <2>1, PoolSame DEF TypeInv
  <1>2. CASE ShouldAdmit
    <2>1. /\ ready \in Seq(Utts) /\ IsInjective(ready) /\ lAlloc \in Nat /\ buf \in BufType
          /\ aliveSet \subseteq Slots /\ slotUtt \in [Slots -> Cells]
      BY DEF TypeInv, TypeWork, TypePool, StageInv
    <2>2. \A p \in Placed : p[1] \in Free /\ p[2] \in Utts /\ FitsPool(p[2])
      BY <2>1, PlacedFacts
    <2>3. \A s \in Slots : slotUtt'[s] = IF s \in into THEN utt(s) ELSE slotUtt[s]
      <3>1. slotUtt' = [s \in Slots |-> IF \E p \in Placed : p[1] = s
                          THEN (CHOOSE p \in Placed : p[1] = s)[2] ELSE slotUtt[s]]
        BY <1>2 DEF Admit, AdmitReady
      <3> QED  BY <3>1
    <2>4. \A s \in into : utt(s) \in Utts /\ FitsPool(utt(s)) /\ s \in Slots /\ s \in Free
      BY <2>2 DEF Free
    <2>5. /\ aliveSet = buf.alive /\ BufInv(buf) /\ lAlloc <= MaxPos
          /\ buf.fin \subseteq buf.alive
          /\ \A s \in Slots \ aliveSet : slotUtt[s] = NoUtt
      BY <1>0 DEF PoolInv, BufInv
    <2>6. \A s \in buf.alive : SlotAt(buf, s) /\ s \in Slots /\ s \notin into
      <3>1. \A s \in buf.alive : SlotAt(buf, s) /\ s \in Slots
        BY <2>1, <2>5 DEF BufInv
      <3>2. \A s \in buf.alive : s \notin Free
        BY <3>1 DEF SlotAt, Free
      <3> QED  BY <2>4, <3>1, <3>2
    <2> HIDE DEF into, utt
    <2>7. CASE \E p \in Placed : p[2] \in BadPrompt
      <3>1. mainPc' = "raised" /\ buf' = buf /\ aliveSet' = aliveSet
        BY <1>2, <2>7 DEF Admit
      <3>2. \A s \in buf.alive : SlotAt(buf, s)'
        <4>1. \A s \in buf.alive : slotUtt'[s] = slotUtt[s]
          BY <2>3, <2>6
        <4> QED  BY <1>0, <2>6, <3>1, <4>1 DEF SlotAt
      <3>3. BufInv(buf)'
        BY <2>5, <3>1, <3>2 DEF BufInv
      <3> QED  BY <1>0, <2>1, <2>5, <3>1, <3>3 DEF TypePool, PoolInv
    <2>8. CASE ~\E p \in Placed : p[2] \in BadPrompt
      <3> DEFINE P == [s \in Slots |-> IF s \in into THEN PromptLen ELSE buf.pos[s]]
                 C == [s \in Slots |-> IF s \in into THEN CapTotal(EncLen[utt(s)])
                                       ELSE buf.cap[s]]
                 R == [s \in Slots |-> IF s \in into THEN PrefillRow(utt(s)) ELSE buf.row[s]]
                 K == [s \in Slots |-> IF s \in into THEN PrefillKeys(buf.keys[s], utt(s))
                                       ELSE buf.keys[s]]
                 L == [s \in Slots |-> IF s \in into THEN utt(s) ELSE buf.last[s]]
                 A == buf.alive \cup into
                 n == [buf EXCEPT !.pos = P, !.cap = C, !.row = R, !.keys = K, !.last = L,
                                  !.alive = A]
      <3>1. /\ buf' = n /\ mainPc' = "next" /\ aliveSet' = aliveSet \cup into
        <4>1. Fill(Placed) /\ mainPc' = "next"
          BY <1>2, <2>8 DEF Admit
        <4>2. buf' = n
          BY Zenon, <4>1 DEF Fill, into, utt
        <4> QED  BY <4>1, <4>2 DEF Fill, into
      <3>2. /\ P \in [Slots -> Nat] /\ C \in [Slots -> Nat]
            /\ R \in [Slots -> [Columns -> Cells]] /\ K \in [Slots -> [Columns -> Cells]]
            /\ L \in [Slots -> Cells] /\ A \subseteq Slots
        <4>1. /\ buf.pos \in [Slots -> Nat] /\ buf.cap \in [Slots -> Nat]
              /\ buf.row \in [Slots -> [Columns -> Cells]]
              /\ buf.keys \in [Slots -> [Columns -> Cells]]
              /\ buf.last \in [Slots -> Cells] /\ buf.alive \subseteq Slots
          BY <2>1 DEF BufType
        <4>2. \A u \in Utts : /\ CapTotal(EncLen[u]) \in Nat /\ u \in Cells
                              /\ PrefillRow(u) \in [Columns -> Cells]
          BY CapFacts DEF PrefillRow, Cells
        <4>3. \A u \in Utts, k \in [Columns -> Cells] : PrefillKeys(k, u) \in [Columns -> Cells]
          BY DEF PrefillKeys, Cells
        <4>4. PromptLen \in Nat /\ into \subseteq Slots
          BY <2>4, CapFacts
        <4> QED  BY <2>4, <4>1, <4>2, <4>3, <4>4
      <3>3. \A s \in Slots :
              /\ s \in into => /\ P[s] = PromptLen /\ C[s] = CapTotal(EncLen[utt(s)])
                               /\ R[s] = PrefillRow(utt(s)) /\ L[s] = utt(s)
                               /\ K[s] = PrefillKeys(buf.keys[s], utt(s))
              /\ s \notin into => /\ P[s] = buf.pos[s] /\ C[s] = buf.cap[s]
                                  /\ R[s] = buf.row[s] /\ L[s] = buf.last[s]
                                  /\ K[s] = buf.keys[s]
        OBVIOUS
      <3> HIDE DEF P, C, R, K, L
      <3>4. /\ n \in BufType /\ n.pos = P /\ n.cap = C /\ n.row = R /\ n.keys = K /\ n.last = L
            /\ n.alive = A /\ n.fin = buf.fin
        BY <2>1, <3>2 DEF BufType
      <3> HIDE DEF n
      <3>5. ASSUME NEW s \in buf.alive PROVE SlotAt(buf, s)'
        <4>1. s \in Slots /\ s \notin into /\ slotUtt'[s] = slotUtt[s]
          BY <2>3, <2>6
        <4>2. /\ n.pos[s] = buf.pos[s] /\ n.cap[s] = buf.cap[s] /\ n.row[s] = buf.row[s]
              /\ n.keys[s] = buf.keys[s] /\ n.last[s] = buf.last[s] /\ n.fin = buf.fin
          BY <3>3, <3>4, <4>1
        <4>3. SlotAt(buf, s)
          BY <2>6
        <4> QED  BY <1>0, <3>1, <4>1, <4>2, <4>3 DEF SlotAt
      <3>6. ASSUME NEW s \in into PROVE SlotAt(buf, s)'
        <4> DEFINE u == utt(s)
        <4>1. s \in Slots /\ u \in Utts /\ slotUtt'[s] = u /\ u # NoUtt
          BY <2>3, <2>4, RunAssumption
        <4>2. /\ PromptLen \in Nat \ {0} /\ CapTotal(EncLen[u]) \in Nat
              /\ PromptLen + 1 < CapTotal(EncLen[u]) /\ CapTotal(EncLen[u]) <= lAlloc + 1
          BY <2>4, <4>1, CapFacts DEF FitsPool
        <4>3. /\ n.pos[s] = PromptLen /\ n.cap[s] = CapTotal(EncLen[u])
              /\ n.row[s] = PrefillRow(u) /\ n.last[s] = u
              /\ n.keys[s] = PrefillKeys(buf.keys[s], u)
          BY <3>3, <3>4, <4>1
        <4>4. \A c \in 0 .. PromptLen : c \in Columns
          BY <2>1, <2>5, <4>2, CapFacts DEF Columns
        <4> HIDE DEF u
        <4>5. \A c \in 0 .. PromptLen : n.row[s][c] = u
          BY <4>2, <4>3, <4>4 DEF PrefillRow
        <4>6. \A c \in 0 .. PromptLen - 1 : n.keys[s][c] = u
          <5>1. \A c \in 0 .. PromptLen - 1 : c \in 0 .. PromptLen /\ c < PromptLen
            BY <4>2
          <5> QED  BY <4>3, <4>4, <5>1 DEF PrefillKeys
        <4>7. PromptLen < lAlloc /\ PromptLen <= PromptLen
          BY <2>1, <4>2
        <4>8. PromptLen <= lAlloc
          BY <2>1, <4>2
        <4> QED  BY <1>0, <3>1, <4>1, <4>2, <4>3, <4>5, <4>6, <4>7, <4>8 DEF SlotAt
      <3>7. BufInv(buf)'
        BY <2>5, <3>1, <3>4, <3>5, <3>6 DEF BufInv
      <3>8. \A s \in Slots \ aliveSet' : slotUtt'[s] = NoUtt
        BY <2>3, <2>5, <3>1
      <3>9. aliveSet' \subseteq Slots /\ aliveSet' = buf'.alive
        BY <2>1, <2>4, <2>5, <3>1, <3>4
      <3> QED  BY <1>0, <2>1, <2>5, <3>1, <3>4, <3>7, <3>8, <3>9 DEF TypePool, PoolInv
    <2> QED  BY <2>7, <2>8
  <1> QED  BY <1>1, <1>2

(* A decode step, with or without the capture of a graph before it.        *)
LEMMA StepPool ==
  ASSUME TypeInv, PoolInv, Decode
  PROVE  TypePool' /\ PoolInv'
  <1>1. /\ mainPc = "next" /\ mainPc' = "evict" /\ slotUtt' = slotUtt /\ lAlloc' = lAlloc
        /\ aliveSet' = aliveSet
    BY DEF Decode, sizes
  <1>2. TypePool /\ lAlloc <= MaxPos /\ buf \in BufType /\ BufInv(buf)
    BY DEF TypeInv, TypePool, PoolInv
  <1>3. PICK capture \in BOOLEAN, ends \in SUBSET (buf.alive \ buf.fin) :
          buf' = StepBody(IF capture THEN WarmUp(buf) ELSE buf, ends)
    BY DEF Decode
  <1> DEFINE b == IF capture THEN WarmUp(buf) ELSE buf
  <1>4. b \in BufType /\ BufInv(b) /\ b.alive = buf.alive
    BY <1>2, WarmUpKeeps
  <1> HIDE DEF b
  <1>5. /\ StepBody(b, ends) \in BufType /\ StepBody(b, ends).alive = b.alive
        /\ BufInv(StepBody(b, ends))
    BY <1>2, <1>4, StepKeeps
  <1>6. buf' = StepBody(b, ends)
    BY <1>3 DEF b
  <1>7. buf' \in BufType /\ buf'.alive = buf.alive /\ BufInv(buf')
    BY <1>4, <1>5, <1>6
  <1>8. BufInv(buf)'
    <2>1. \A s \in buf'.alive : SlotAt(buf, s)'
      BY <1>1, <1>7 DEF BufInv, SlotAt
    <2> QED  BY <1>7, <2>1 DEF BufInv
  <1> QED  BY <1>1, <1>2, <1>7, <1>8 DEF TypePool, PoolInv

(* Eviction leaves the slots it does not clear as they are.                *)
LEMMA EvictPool ==
  ASSUME TypeInv, PoolInv, Evict
  PROVE  TypePool' /\ PoolInv'
  <1>1. mainPc = "evict" /\ mainPc' = "top" /\ lAlloc' = lAlloc
    BY DEF Evict, sizes
  <1>2. CASE ~ShouldEvict
    <2>1. buf' = buf /\ slotUtt' = slotUtt /\ aliveSet' = aliveSet
      BY <1>2 DEF Evict, pool
    <2> QED  BY <1>1, <2>1, PoolSame DEF TypeInv
  <1>3. CASE ShouldEvict
    <2> DEFINE done == buf.alive \cap buf.fin
               L == [s \in Slots |-> IF s \in done THEN NoUtt ELSE buf.last[s]]
               P == [s \in Slots |-> IF s \in done THEN 0 ELSE buf.pos[s]]
               C == [s \in Slots |-> IF s \in done THEN MaxPos ELSE buf.cap[s]]
               A == buf.alive \ done
               F == buf.fin \ done
               n == [buf EXCEPT !.alive = A, !.fin = F, !.last = L, !.pos = P, !.cap = C]
    <2>1. /\ slotUtt' = [s \in Slots |-> IF s \in done THEN NoUtt ELSE slotUtt[s]]
          /\ aliveSet' = aliveSet \ done /\ buf' = n
      <3>1. Collect(done)
        BY <1>3 DEF Evict
      <3>2. buf' = n
        BY Zenon, <3>1 DEF Collect, LatchAfter
      <3> QED  BY <3>1, <3>2 DEF Collect
    <2>2. /\ buf \in BufType /\ slotUtt \in [Slots -> Cells] /\ aliveSet \subseteq Slots
          /\ lAlloc \in Nat /\ MaxPos \in Nat /\ NoUtt \in Cells
          /\ aliveSet = buf.alive /\ lAlloc <= MaxPos /\ buf.fin \subseteq buf.alive
          /\ \A s \in buf.alive : SlotAt(buf, s) /\ s \in Slots
          /\ \A s \in Slots \ aliveSet : slotUtt[s] = NoUtt
      BY <1>1, CapFacts DEF TypeInv, TypePool, PoolInv, BufInv, Cells
    <2>3. /\ L \in [Slots -> Cells] /\ P \in [Slots -> Nat] /\ C \in [Slots -> Nat]
          /\ A \subseteq Slots /\ F \subseteq Slots
      <3>1. /\ buf.pos \in [Slots -> Nat] /\ buf.cap \in [Slots -> Nat]
            /\ buf.last \in [Slots -> Cells] /\ buf.alive \subseteq Slots
            /\ buf.fin \subseteq Slots
        BY <2>2 DEF BufType
      <3> QED  BY <2>2, <3>1
    <2>4. \A s \in A : /\ L[s] = buf.last[s] /\ P[s] = buf.pos[s] /\ C[s] = buf.cap[s]
                       /\ s \in buf.alive /\ s \notin done /\ s \in Slots
      BY <2>2
    <2>5. slotUtt' \in [Slots -> Cells] /\ F \subseteq A
      BY <2>1, <2>2
    <2> HIDE DEF L, P, C
    <2>6. /\ n \in BufType /\ n.alive = A /\ n.fin = F /\ n.last = L /\ n.pos = P /\ n.cap = C
          /\ n.row = buf.row /\ n.keys = buf.keys
      BY <2>2, <2>3 DEF BufType
    <2>7. ASSUME NEW s \in A PROVE SlotAt(buf, s)'
      <3>1. slotUtt'[s] = slotUtt[s] /\ (s \notin n.fin => s \notin buf.fin)
        BY <2>1, <2>4, <2>6
      <3>2. SlotAt(buf, s)
        BY <2>2, <2>4
      <3> HIDE DEF n
      <3> QED  BY <1>1, <2>1, <2>4, <2>6, <3>1, <3>2 DEF SlotAt
    <2> HIDE DEF n
    <2>8. BufInv(buf)'
      BY <2>1, <2>5, <2>6, <2>7 DEF BufInv
    <2>9. \A s \in Slots \ aliveSet' : slotUtt'[s] = NoUtt
      BY <2>1, <2>2
    <2> QED  BY <1>1, <2>1, <2>2, <2>5, <2>6, <2>8, <2>9 DEF TypePool, PoolInv
  <1> QED  BY <1>2, <1>3

(* What is evicted is answered from its own row and leaves its slot.       *)
LEMMA EvictStages ==
  ASSUME TypeInv, PoolInv, StageInv, ToldInv, Collect(buf.alive \cap buf.fin),
         source' = source, hand' = hand, ready' = ready, utterances' = utterances,
         mainPc # "start", mainPc' # "start"
  PROVE  TypeTold' /\ StageInv' /\ ToldInv'
  <1> DEFINE done == buf.alive \cap buf.fin
             G == {slotUtt[s] : s \in done}
             tokens(s) == {buf.row[s][c] : c \in 0 .. buf.pos[s]}
  <1>1. /\ calls' = [u \in Utts |-> IF \E s \in done : slotUtt[s] = u THEN calls[u] + 1
                                    ELSE calls[u]]
        /\ answer' = [u \in Utts |-> answer[u] \cup
                        UNION {tokens(s) : s \in {d \in done : slotUtt[d] = u}}]
        /\ slotUtt' = [s \in Slots |-> IF s \in done THEN NoUtt ELSE slotUtt[s]]
    BY DEF Collect
  <1>2. /\ calls \in [Utts -> Nat] /\ answer \in [Utts -> SUBSET Cells]
        /\ slotUtt \in [Slots -> Cells] /\ ToSet(utterances) \subseteq Utts
        /\ buf.pos \in [Slots -> Nat]
    BY ToSetType DEF TypeInv, TypeTold, TypePool, TypeWork, BufType
  <1>3. ASSUME NEW s \in done PROVE s \in Slots /\ slotUtt[s] \in Utts /\ tokens(s) = {slotUtt[s]}
    <2>1. s \in Slots /\ SlotAt(buf, s)
      BY DEF PoolInv, BufInv, TypeInv, TypePool, BufType
    <2>2. buf.pos[s] \in Nat /\ slotUtt[s] \in Cells
      BY <1>2, <2>1
    <2>3. 0 \in 0 .. buf.pos[s] /\ \A c \in 0 .. buf.pos[s] : buf.row[s][c] = slotUtt[s]
      BY <2>1, <2>2 DEF SlotAt
    <2>4. slotUtt[s] # NoUtt
      BY <2>1 DEF SlotAt
    <2> QED  BY <2>1, <2>2, <2>3, <2>4 DEF Cells
  <1> HIDE DEF tokens, done
  <1>4. G \subseteq Slotted /\ G \subseteq Utts
    BY <1>3, RunAssumption DEF Slotted
  <1>5. Slotted' = Slotted \ G
    <2>1. \A s \in Slots : slotUtt'[s] = IF s \in done THEN NoUtt ELSE slotUtt[s]
      BY <1>1
    <2>2. \A s, t \in Slots : slotUtt[s] = slotUtt[t] /\ slotUtt[s] # NoUtt => s = t
      BY DEF StageInv
    <2>3. Slotted' = {slotUtt'[s] : s \in Slots} \ {NoUtt}
      BY DEF Slotted
    <2>4. ASSUME NEW s \in Slots, slotUtt'[s] # NoUtt PROVE slotUtt'[s] \in Slotted \ G
      <3>1. s \notin done /\ slotUtt'[s] = slotUtt[s]
        BY <2>1, <2>4
      <3>2. slotUtt[s] \notin G
        BY <1>3, <2>2, <2>4, <3>1
      <3> QED  BY <2>4, <3>1, <3>2 DEF Slotted
    <2>5. ASSUME NEW s \in Slots, slotUtt[s] # NoUtt, slotUtt[s] \notin G
          PROVE  slotUtt[s] \in Slotted'
      <3>1. s \notin done
        BY <2>5
      <3> QED  BY <2>1, <2>3, <2>5, <3>1
    <2> QED  BY <2>3, <2>4, <2>5 DEF Slotted
  <1> HIDE DEF G
  <1>6. /\ Slotted \cap (ToSet(source) \cup ToSet(hand) \cup ToSet(ready)) = {}
        /\ Held \subseteq ToSet(utterances)
    BY DEF StageInv
  <1>7. Held' = Held \ G
    <2>1. Held' = ToSet(source) \cup ToSet(hand) \cup ToSet(ready) \cup Slotted'
      BY DEF Held, Slotted
    <2> QED  BY <1>4, <1>5, <1>6, <2>1, HeldIs
  <1>8. StageInv'
    <2>1. /\ IsInjective(source') /\ IsInjective(hand') /\ IsInjective(ready')
          /\ ToSet(source') \cap ToSet(hand') = {} /\ ToSet(source') \cap ToSet(ready') = {}
          /\ ToSet(hand') \cap ToSet(ready') = {}
      BY DEF StageInv
    <2>2. Slotted' \cap (ToSet(source') \cup ToSet(hand') \cup ToSet(ready')) = {}
      BY <1>5, <1>6
    <2>3. \A s, t \in Slots : slotUtt'[s] = slotUtt'[t] /\ slotUtt'[s] # NoUtt => s = t
      <3>1. \A s, t \in Slots : slotUtt[s] = slotUtt[t] /\ slotUtt[s] # NoUtt => s = t
        BY DEF StageInv
      <3>2. \A s \in Slots : slotUtt'[s] # NoUtt => slotUtt'[s] = slotUtt[s]
        BY <1>1
      <3> QED  BY <3>1, <3>2
    <2>4. Held' \subseteq ToSet(utterances')
      BY <1>6, <1>7
    <2> QED  BY <2>1, <2>2, <2>3, <2>4 DEF StageInv
  <1>9. \A u \in Utts : u \in G <=> \E s \in done : slotUtt[s] = u
    BY DEF G
  <1>10. \A u \in G : u \in Utts /\ calls[u] = 0 /\ answer[u] = {}
    <2>1. \A u \in G : u \in Held /\ u \in ToSet(utterances) /\ u \in Utts
      BY <1>2, <1>4, <1>6, HeldIs
    <2> QED  BY <2>1 DEF ToldInv
  <1>11. \A u \in Utts : /\ u \in G => calls'[u] = 1
                         /\ u \notin G => calls'[u] = calls[u]
    BY <1>1, <1>9, <1>10
  <1>12. ASSUME NEW u \in Utts
         PROVE  answer'[u] = IF u \in G THEN {u} ELSE answer[u]
    <2> DEFINE mine == {d \in done : slotUtt[d] = u}
    <2>1. answer'[u] = answer[u] \cup UNION {tokens(s) : s \in mine}
      BY <1>1
    <2>2. \A s \in mine : tokens(s) = {u}
      BY <1>3
    <2>3. u \in G <=> mine # {}
      BY <1>9
    <2> HIDE DEF mine
    <2>4. CASE u \in G
      <3>1. UNION {tokens(s) : s \in mine} = {u}
        BY <2>2, <2>3, <2>4
      <3> QED  BY <1>10, <2>1, <2>4, <3>1
    <2>5. CASE u \notin G
      <3>1. {tokens(s) : s \in mine} = {}
        BY <2>3, <2>5
      <3> QED  BY <2>1, <2>5, <3>1
    <2> QED  BY <2>4, <2>5
  <1>13. TypeTold'
    <2>1. calls' \in [Utts -> Nat]
      BY <1>1, <1>2
    <2>2. \A u \in Utts : answer'[u] \in SUBSET Cells
      BY <1>2, <1>12 DEF Cells
    <2>3. answer' \in [Utts -> SUBSET Cells]
      BY <1>1, <2>2
    <2> QED  BY <2>1, <2>3 DEF TypeTold
  <1>14. ToldInv'
    <2>1. \A u \in ToSet(utterances) : (u \in Held)' <=> calls'[u] = 0
      <3>1. \A u \in ToSet(utterances) : u \in Utts /\ (u \in Held <=> calls[u] = 0)
        BY <1>2 DEF ToldInv
      <3> QED  BY <1>7, <1>11, <3>1
    <2>2. ASSUME NEW u \in Utts
          PROVE  /\ calls'[u] \in {0, 1} /\ answer'[u] \in {{}, {u}}
                 /\ calls'[u] = 0 => answer'[u] = {}
      <3>1. /\ calls[u] \in {0, 1} /\ answer[u] \in {{}, {u}}
            /\ calls[u] = 0 => answer[u] = {}
        BY DEF ToldInv
      <3>2. CASE u \in G
        <4>1. calls'[u] = 1 /\ answer'[u] = {u}
          BY <1>11, <1>12, <3>2
        <4> QED  BY <4>1
      <3>3. CASE u \notin G
        BY <1>11, <1>12, <3>1, <3>3
      <3> QED  BY <3>2, <3>3
    <2> QED  BY <2>1, <2>2 DEF ToldInv
  <1> QED  BY <1>8, <1>13, <1>14

-----------------------------------------------------------------------------
(* Where the two threads stand, step by step.                              *)

(* Each step of the producer thread.                                       *)
LEMMA ProducerThreads ==
  ASSUME TypeInv, ThreadInv, Producer
  PROVE  ThreadInv'
  <1>1. /\ utterances' = utterances /\ overlap' = overlap /\ mainPc' = mainPc
        /\ exhausted' = exhausted /\ aliveSet' = aliveSet
    BY DEF Producer, ProducerPull, ProducerPublish, ProducerCheck, ProducerRaises, input, pool
  <1>2. prodPc # "off" /\ prodPc \notin {"done", "failed"}
    BY DEF Producer, ProducerPull, ProducerPublish, ProducerCheck, ProducerRaises
  <1>3. overlap /\ ~exhausted /\ mainPc \notin {"start", "encode", "returned"}
    BY <1>2 DEF ThreadInv, ProducerDone
  <1>4. prodPc' \in {"poll", "encode", "check", "done", "failed"}
    BY DEF Producer, ProducerPull, ProducerPublish, ProducerCheck, ProducerRaises
  <1>5. hand' # <<>> => prodPc' \in {"encode", "failed"}
    <2>1. CASE ProducerPull
      BY <2>1 DEF ProducerPull
    <2>2. CASE ProducerPublish
      BY <2>2 DEF ProducerPublish, Publish
    <2>3. CASE ProducerCheck
      BY <1>3, <2>3 DEF ProducerCheck, ThreadInv
    <2>4. CASE ProducerRaises
      BY <2>4 DEF ProducerRaises
    <2> QED  BY <2>1, <2>2, <2>3, <2>4 DEF Producer
  <1>6. prodPc' = "done" => source' = <<>>
    BY DEF Producer, ProducerPull, ProducerPublish, ProducerCheck, ProducerRaises, SourceDrained
  <1> QED  BY <1>1, <1>3, <1>4, <1>5, <1>6 DEF ThreadInv

(* Each step of the main loop.                                             *)
LEMMA MainThreads ==
  ASSUME TypeInv, ThreadInv, Main
  PROVE  ThreadInv'
  <1>1. CASE Start
    <2>1. /\ prodPc = "off" /\ hand = <<>> /\ ~exhausted
      BY <1>1 DEF Start, ThreadInv
    <2>2. /\ overlap' = overlap /\ hand' = hand /\ exhausted' = exhausted /\ mainPc' = "top"
          /\ prodPc' = IF overlap THEN "poll" ELSE "off"
      BY <1>1 DEF Start, input
    <2> QED  BY <2>1, <2>2 DEF ThreadInv
  <1>2. ASSUME mainPc \notin {"start", "encode", "raised", "returned"},
               mainPc' \notin {"start", "encode"},
               overlap' = overlap, prodPc' = prodPc, source' = source, hand' = hand,
               exhausted' => exhausted \/ IF overlap THEN ProducerDone ELSE source = <<>>,
               mainPc' = "returned" => /\ exhausted' /\ ready' = <<>> /\ aliveSet' = {}
                                       /\ prodPc # "failed"
        PROVE  ThreadInv'
    <2>1. overlap \in BOOLEAN /\ exhausted \in BOOLEAN
      BY DEF TypeInv, TypeWork
    <2>2. hand # <<>> => prodPc \in {"encode", "failed"}
      BY <1>2 DEF ThreadInv
    <2>3. exhausted' => IF overlap THEN ProducerDone ELSE source = <<>> /\ hand = <<>>
      <3>1. CASE exhausted
        BY <3>1 DEF ThreadInv
      <3>2. CASE exhausted' /\ ~exhausted /\ overlap
        BY <1>2, <3>2
      <3>3. CASE exhausted' /\ ~exhausted /\ ~overlap
        <4>1. prodPc = "off"
          BY <3>3 DEF ThreadInv
        <4> QED  BY <1>2, <2>2, <3>3, <4>1
      <3> QED  BY <2>1, <3>1, <3>2, <3>3
    <2>4. hand' # <<>> => \/ prodPc' \in {"encode", "failed"}
                          \/ ~overlap' /\ mainPc' \in {"encode", "raised"}
      BY <1>2, <2>2
    <2>5. (prodPc' # "off" => overlap') /\ (prodPc' = "done" => source' = <<>>)
      BY <1>2 DEF ThreadInv
    <2>6. exhausted' => IF overlap' THEN ProducerDone' ELSE source' = <<>> /\ hand' = <<>>
      BY <1>2, <2>3 DEF ProducerDone
    <2> QED  BY <1>2, <2>4, <2>5, <2>6 DEF ThreadInv
  <1>3. CASE CheckProducer
    <2>1. /\ mainPc = "top" /\ mainPc' \in {"raised", "stock"} /\ overlap' = overlap
          /\ prodPc' = prodPc /\ source' = source /\ hand' = hand /\ exhausted' = exhausted
      BY <1>3 DEF CheckProducer, input, prod
    <2> QED  BY <1>2, <2>1
  <1>4. CASE Stock
    <2>1. /\ mainPc = "stock" /\ overlap' = overlap /\ prodPc' = prodPc
      BY <1>4 DEF Stock, input
    <2>2. CASE overlap
      <3>1. /\ mainPc' = "admit" /\ source' = source /\ hand' = hand
            /\ exhausted' = (exhausted \/ (ProducerDone /\ ready = <<>>))
        BY <1>4, <2>2 DEF Stock
      <3> QED  BY <1>2, <2>1, <2>2, <3>1
    <2>3. CASE ~overlap /\ ~WantsPull
      <3>1. mainPc' = "admit" /\ source' = source /\ hand' = hand /\ exhausted' = exhausted
        BY <1>4, <2>3 DEF Stock
      <3> QED  BY <1>2, <2>1, <3>1
    <2>4. CASE ~overlap /\ WantsPull
      <3>1. mainPc' = "encode" /\ exhausted' = exhausted /\ ~exhausted
        BY <1>4, <2>4 DEF Stock, WantsPull
      <3>2. prodPc = "off"
        BY <2>4 DEF ThreadInv
      <3> QED  BY <2>1, <2>4, <3>1, <3>2 DEF ThreadInv
    <2> QED  BY <2>2, <2>3, <2>4
  <1>5. CASE InlineEncode
    <2>1. /\ mainPc = "encode" /\ mainPc' = "admit" /\ overlap' = overlap /\ prodPc' = prodPc
          /\ source' = source /\ hand' = <<>> /\ exhausted' = (hand = <<>> /\ source = <<>>)
      BY <1>5 DEF InlineEncode, Publish, input, prod
    <2>2. ~overlap /\ prodPc = "off"
      BY <2>1 DEF ThreadInv
    <2> QED  BY <2>1, <2>2 DEF ThreadInv
  <1>6. CASE InlineRaises
    <2>1. /\ mainPc = "encode" /\ mainPc' = "raised" /\ overlap' = overlap /\ prodPc' = prodPc
          /\ source' = source /\ hand' = hand /\ exhausted' = exhausted
      BY <1>6 DEF InlineRaises, input, prod
    <2>2. ~overlap /\ prodPc = "off" /\ ~exhausted
      BY <2>1 DEF ThreadInv
    <2> QED  BY <2>1, <2>2 DEF ThreadInv
  <1>7. CASE Admit
    <2>1. /\ mainPc = "admit" /\ mainPc' \in {"raised", "next"} /\ overlap' = overlap
          /\ prodPc' = prodPc /\ source' = source /\ hand' = hand /\ exhausted' = exhausted
      BY <1>7 DEF Admit, input, prod
    <2> QED  BY <1>2, <2>1
  <1>8. CASE Finish
    <2>1. /\ mainPc = "next" /\ mainPc' = LeaveWith /\ overlap' = overlap
          /\ prodPc' = prodPc /\ source' = source /\ hand' = hand /\ exhausted' = exhausted
          /\ exhausted /\ ready = <<>> /\ ready' = ready /\ aliveSet = {} /\ aliveSet' = aliveSet
      BY <1>8 DEF Finish, input, prod, pool
    <2>2. \/ LeaveWith = "raised"
          \/ LeaveWith = "returned" /\ prodPc # "failed"
      BY DEF LeaveWith
    <2> QED  BY <1>2, <2>1, <2>2
  <1>9. CASE Again
    <2>1. /\ mainPc = "next" /\ mainPc' = "top" /\ overlap' = overlap
          /\ prodPc' = prodPc /\ source' = source /\ hand' = hand
          /\ exhausted' = (exhausted \/ (~overlap /\ ready = <<>> /\ source = <<>>))
      BY <1>9 DEF Again, input, prod
    <2> QED  BY <1>2, <2>1
  <1>10. CASE Decode
    <2>1. /\ mainPc = "next" /\ mainPc' = "evict" /\ overlap' = overlap
          /\ prodPc' = prodPc /\ source' = source /\ hand' = hand /\ exhausted' = exhausted
      BY <1>10 DEF Decode, input, prod
    <2> QED  BY <1>2, <2>1
  <1>11. CASE Evict
    <2>1. /\ mainPc = "evict" /\ mainPc' = "top" /\ overlap' = overlap
          /\ prodPc' = prodPc /\ source' = source /\ hand' = hand /\ exhausted' = exhausted
      BY <1>11 DEF Evict, input, prod
    <2> QED  BY <1>2, <2>1
  <1> QED  BY <1>1, <1>3, <1>4, <1>5, <1>6, <1>7, <1>8, <1>9, <1>10, <1>11 DEF Main

-----------------------------------------------------------------------------
(* The inductive invariant.                                                *)

(* No stage is touched.                                                    *)
LEMMA StagesSame ==
  ASSUME TypeInv, StageInv, ToldInv, source' = source, hand' = hand, ready' = ready,
         slotUtt' = slotUtt, utterances' = utterances, calls' = calls, answer' = answer,
         mainPc' = "start" <=> mainPc = "start"
  PROVE  TypeTold' /\ StageInv' /\ ToldInv'
  <1>1. Held' = Held /\ Slotted' = Slotted
    BY DEF Held, Slotted
  <1>2. ToldInv'
    BY <1>1, ToldSame
  <1>3. StageInv'
    BY <1>1 DEF StageInv
  <1> QED  BY <1>2, <1>3 DEF TypeInv, TypeTold

(* The control state and the argument of run() keep their types.           *)
LEMMA ControlStep ==
  ASSUME TypeInv, [Next]_vars
  PROVE  /\ utterances' = utterances /\ overlap' = overlap
         /\ mainPc' \in MainPcs /\ prodPc' \in ProdPcs /\ exhausted' \in BOOLEAN
  <1>1. mainPc \in MainPcs /\ prodPc \in ProdPcs /\ exhausted \in BOOLEAN
    BY DEF TypeInv, TypeWork
  <1>2. CASE Producer
    <2>1. /\ utterances' = utterances /\ overlap' = overlap /\ mainPc' = mainPc
          /\ exhausted' = exhausted /\ prodPc' \in {"poll", "encode", "check", "done", "failed"}
      BY <1>2 DEF Producer, ProducerPull, ProducerPublish, ProducerCheck, ProducerRaises, input
    <2> QED  BY <1>1, <2>1 DEF ProdPcs
  <1>3. CASE Start \/ CheckProducer \/ Stock
    <2>1. /\ utterances' = utterances /\ overlap' = overlap
          /\ mainPc' \in {"top", "raised", "stock", "admit", "encode"}
          /\ prodPc' = prodPc \/ prodPc' \in {"poll", "off"}
      BY <1>3 DEF Start, CheckProducer, Stock, input, prod
    <2>2. exhausted' = exhausted \/ exhausted' = (exhausted \/ (ProducerDone /\ ready = <<>>))
      BY <1>3 DEF Start, CheckProducer, Stock
    <2> QED  BY <1>1, <2>1, <2>2 DEF MainPcs, ProdPcs
  <1>4. CASE InlineEncode \/ InlineRaises \/ Admit \/ Finish
    <2>1. /\ utterances' = utterances /\ overlap' = overlap /\ prodPc' = prodPc
          /\ mainPc' \in {"raised", "admit", "next", "returned"}
      BY <1>4 DEF InlineEncode, InlineRaises, Admit, Finish, LeaveWith, input, prod
    <2>2. exhausted' = exhausted \/ exhausted' = (hand = <<>> /\ source = <<>>)
      BY <1>4 DEF InlineEncode, InlineRaises, Admit, Finish
    <2> QED  BY <1>1, <2>1, <2>2 DEF MainPcs
  <1>5. CASE Again \/ Decode \/ Evict
    <2>1. /\ utterances' = utterances /\ overlap' = overlap /\ prodPc' = prodPc
          /\ mainPc' \in {"top", "evict"}
      BY <1>5 DEF Again, Decode, Evict, input, prod
    <2>2. \/ exhausted' = exhausted
          \/ exhausted' = (exhausted \/ (~overlap /\ ready = <<>> /\ source = <<>>))
      BY <1>5 DEF Again, Decode, Evict
    <2> QED  BY <1>1, <2>1, <2>2 DEF MainPcs
  <1>6. CASE UNCHANGED vars
    BY <1>1, <1>6 DEF vars, input, prod
  <1> QED  BY <1>2, <1>3, <1>4, <1>5, <1>6 DEF Next, Main

(* Where the utterances are after any step.                                *)
LEMMA StageStep ==
  ASSUME RunInv, [Next]_vars
  PROVE  /\ source' \in Seq(Utts) /\ hand' \in Seq(Utts) /\ ready' \in Seq(Utts)
         /\ slotUtt' \in [Slots -> Cells] /\ TypeTold' /\ StageInv' /\ ToldInv'
  <1>1. TypeInv /\ StageInv /\ ToldInv /\ ThreadInv /\ PoolInv
    BY DEF RunInv
  <1>2. /\ source \in Seq(Utts) /\ hand \in Seq(Utts) /\ ready \in Seq(Utts)
        /\ slotUtt \in [Slots -> Cells]
    BY <1>1 DEF TypeInv, TypeWork, TypePool
  <1>3. ASSUME source' = source, hand' = hand, ready' = ready, slotUtt' = slotUtt,
               utterances' = utterances, calls' = calls, answer' = answer,
               mainPc' = "start" <=> mainPc = "start"
        PROVE  /\ source' \in Seq(Utts) /\ hand' \in Seq(Utts) /\ ready' \in Seq(Utts)
               /\ slotUtt' \in [Slots -> Cells] /\ TypeTold' /\ StageInv' /\ ToldInv'
    BY <1>1, <1>2, <1>3, StagesSame
  <1>4. CASE Start
    <2>1. hand' = hand /\ ready' = ready /\ slotUtt' = slotUtt
      BY <1>4 DEF Start, pool
    <2> QED  BY <1>1, <1>2, <1>4, <2>1, StartStages
  <1>5. CASE ProducerPull
    <2>1. /\ LoadBatch /\ ready' = ready /\ slotUtt' = slotUtt /\ utterances' = utterances
          /\ answer' = answer /\ mainPc' = mainPc /\ prodPc = "poll"
      BY <1>5 DEF ProducerPull, input, pool
    <2>2. hand = <<>> /\ mainPc # "start"
      BY <1>1, <2>1 DEF ThreadInv
    <2> QED  BY <1>1, <1>2, <2>1, <2>2, LoadStages
  <1>6. CASE ProducerPublish
    <2>1. /\ Publish /\ source' = source /\ slotUtt' = slotUtt /\ utterances' = utterances
          /\ calls' = calls /\ answer' = answer /\ mainPc' = mainPc /\ prodPc = "encode"
      BY <1>6 DEF ProducerPublish, input, pool, told
    <2>2. mainPc # "start"
      BY <1>1, <2>1 DEF ThreadInv
    <2>3. hand' \in Seq(Utts)
      BY <2>1 DEF Publish
    <2>4. TypeTold'
      BY <1>1, <2>1 DEF TypeInv, TypeTold
    <2> QED  BY <1>1, <1>2, <2>1, <2>2, <2>3, <2>4, PublishStages
  <1>7. CASE ProducerCheck \/ ProducerRaises
    BY <1>3, <1>7 DEF ProducerCheck, ProducerRaises, input, pool, told
  <1>8. CASE CheckProducer \/ InlineRaises \/ Again \/ Decode
    BY <1>3, <1>8 DEF CheckProducer, InlineRaises, Again, Decode, input, pool, told
  <1>9. CASE Finish
    BY <1>3, <1>9 DEF Finish, LeaveWith, input, pool, told
  <1>10. CASE Stock
    <2>1. /\ ready' = ready /\ slotUtt' = slotUtt /\ utterances' = utterances
          /\ answer' = answer /\ mainPc = "stock"
      BY <1>10 DEF Stock, input, pool
    <2>2. CASE ~overlap /\ WantsPull
      <3>1. LoadBatch /\ mainPc' = "encode"
        BY <1>10, <2>2 DEF Stock
      <3>2. hand = <<>>
        BY <1>1, <2>1, <2>2 DEF ThreadInv
      <3> QED  BY <1>1, <1>2, <2>1, <3>1, <3>2, LoadStages
    <2>3. CASE overlap \/ ~WantsPull
      <3>1. source' = source /\ hand' = hand /\ calls' = calls /\ mainPc' = "admit"
        BY <1>10, <2>3 DEF Stock
      <3> QED  BY <1>3, <2>1, <3>1
    <2> QED  BY <2>2, <2>3
  <1>11. CASE InlineEncode
    <2>1. /\ Publish /\ source' = source /\ slotUtt' = slotUtt /\ utterances' = utterances
          /\ calls' = calls /\ answer' = answer /\ mainPc = "encode" /\ mainPc' = "admit"
      BY <1>11 DEF InlineEncode, input, pool, told
    <2>2. hand' \in Seq(Utts)
      BY <2>1 DEF Publish
    <2>3. TypeTold'
      BY <1>1, <2>1 DEF TypeInv, TypeTold
    <2> QED  BY <1>1, <1>2, <2>1, <2>2, <2>3, PublishStages
  <1>12. CASE Admit
    <2>1. /\ source' = source /\ hand' = hand /\ utterances' = utterances /\ answer' = answer
          /\ mainPc = "admit" /\ mainPc' \in {"raised", "next"}
      BY <1>12 DEF Admit, input
    <2>2. CASE ShouldAdmit
      <3>1. AdmitReady
        BY <1>12, <2>2 DEF Admit
      <3> QED  BY <1>1, <1>2, <2>1, <3>1, AdmitStages
    <2>3. CASE ~ShouldAdmit
      <3>1. ready' = ready /\ calls' = calls /\ slotUtt' = slotUtt
        BY <1>12, <2>3 DEF Admit, pool
      <3> QED  BY <1>3, <2>1, <3>1
    <2> QED  BY <2>2, <2>3
  <1>13. CASE Evict
    <2>1. /\ source' = source /\ hand' = hand /\ ready' = ready /\ utterances' = utterances
          /\ mainPc = "evict" /\ mainPc' = "top"
      BY <1>13 DEF Evict, input
    <2>2. CASE ShouldEvict
      <3>1. Collect(buf.alive \cap buf.fin)
        BY <1>13, <2>2 DEF Evict
      <3>2. slotUtt' \in [Slots -> Cells]
        <4>1. TypePool'
          BY <1>1, <1>13, EvictPool
        <4> QED  BY <4>1 DEF TypePool
      <3> QED  BY <1>1, <1>2, <2>1, <3>1, <3>2, EvictStages
    <2>3. CASE ~ShouldEvict
      <3>1. calls' = calls /\ answer' = answer /\ slotUtt' = slotUtt
        BY <1>13, <2>3 DEF Evict, pool, told
      <3> QED  BY <1>3, <2>1, <3>1
    <2> QED  BY <2>2, <2>3
  <1>14. CASE UNCHANGED vars
    BY <1>3, <1>14 DEF vars, input, pool, told
  <1> QED  BY <1>4, <1>5, <1>6, <1>7, <1>8, <1>9, <1>10, <1>11, <1>12, <1>13, <1>14
           DEF Next, Producer, Main

(* The pool after any step.                                                *)
LEMMA PoolStep ==
  ASSUME RunInv, [Next]_vars
  PROVE  TypePool' /\ PoolInv'
  <1>1. TypeInv /\ StageInv /\ ToldInv /\ ThreadInv /\ PoolInv /\ TypePool
    BY DEF RunInv, TypeInv
  <1>2. ASSUME buf' = buf, slotUtt' = slotUtt, aliveSet' = aliveSet,
               mainPc = "raised" => mainPc' = "raised", lAlloc' = lAlloc
        PROVE  TypePool' /\ PoolInv'
    BY <1>1, <1>2, PoolSame
  <1>3. CASE ProducerPublish \/ InlineEncode
    <2>1. /\ Publish /\ source' = source /\ slotUtt' = slotUtt /\ utterances' = utterances
          /\ calls' = calls /\ answer' = answer /\ buf' = buf /\ aliveSet' = aliveSet
          /\ \/ mainPc' = mainPc /\ prodPc = "encode"
             \/ mainPc = "encode" /\ mainPc' = "admit"
      BY <1>3 DEF ProducerPublish, InlineEncode, input, pool, told
    <2>2. mainPc # "start" /\ mainPc' # "start"
      BY <1>1, <2>1 DEF ThreadInv
    <2>3. lAlloc' = lAlloc \/ (lAlloc = 0 /\ lAlloc' \in Nat /\ lAlloc' <= MaxPos)
      BY <1>1, <2>1, <2>2, PublishStages
    <2>4. mainPc = "raised" => mainPc' = "raised"
      BY <2>1
    <2> QED  BY <1>1, <2>1, <2>3, <2>4, PoolSame
  <1>4. CASE ProducerPull \/ ProducerCheck \/ ProducerRaises
    BY <1>2, <1>4 DEF ProducerPull, ProducerCheck, ProducerRaises, pool, sizes
  <1>5. CASE Start \/ CheckProducer \/ Stock \/ InlineRaises
    BY <1>2, <1>5 DEF Start, CheckProducer, Stock, InlineRaises, pool, sizes
  <1>6. CASE Finish \/ Again
    BY <1>2, <1>6 DEF Finish, Again, pool, sizes
  <1>7. CASE Admit
    BY <1>1, <1>7, StageStep, AdmitPool
  <1>8. CASE Decode
    BY <1>1, <1>8, StepPool
  <1>9. CASE Evict
    BY <1>1, <1>9, EvictPool
  <1>10. CASE UNCHANGED vars
    BY <1>2, <1>10 DEF vars, pool, sizes
  <1> QED  BY <1>3, <1>4, <1>5, <1>6, <1>7, <1>8, <1>9, <1>10 DEF Next, Producer, Main

(* Every step keeps the invariant, and the initial states have it.         *)
LEMMA RunStep == RunInv /\ [Next]_vars => RunInv'
  <1> SUFFICES ASSUME RunInv, [Next]_vars PROVE RunInv'
    OBVIOUS
  <1>1. TypeInv /\ ThreadInv
    BY DEF RunInv
  <1>2. TypeWork'
    BY <1>1, ControlStep, StageStep DEF TypeInv, TypeWork
  <1>3. ThreadInv'
    <2>1. CASE UNCHANGED vars
      BY <1>1, <2>1 DEF vars, input, prod, pool, ThreadInv, ProducerDone
    <2> QED  BY <1>1, <2>1, ProducerThreads, MainThreads DEF Next
  <1> QED  BY <1>2, <1>3, StageStep, PoolStep DEF RunInv, TypeInv

(* Before run() begins nothing is in a stage and the pool is idle.         *)
LEMMA RunInit == Init => RunInv
  <1> SUFFICES ASSUME Init PROVE RunInv
    OBVIOUS
  <1>1. /\ utterances \in Inputs /\ overlap \in BOOLEAN /\ mainPc = "start" /\ prodPc = "off"
        /\ source = <<>> /\ hand = <<>> /\ ready = <<>> /\ lAlloc = 0
        /\ slotUtt = [s \in Slots |-> NoUtt] /\ buf = EmptyBuf /\ aliveSet = {}
        /\ exhausted = FALSE /\ calls = [u \in Utts |-> 0] /\ answer = [u \in Utts |-> {}]
    BY DEF Init
  <1>2. utterances \in Seq(Utts) /\ IsInjective(utterances)
    BY <1>1, RunAssumption
  <1>3. buf \in BufType /\ buf.alive = {} /\ buf.fin = {}
    BY <1>1 DEF EmptyBuf, BufType, Cells
  <1>4. ToSet(source) = {} /\ ToSet(hand) = {} /\ ToSet(ready) = {} /\ IsInjective(source)
        /\ IsInjective(hand) /\ IsInjective(ready)
    BY <1>1, ShortSeqFacts
  <1>5. Slotted = {} /\ Held = {}
    <2>1. Slotted = {}
      BY <1>1 DEF Slotted
    <2> QED  BY <1>4, <2>1, HeldIs
  <1>6. TypeInv
    <2>1. TypeWork
      <3>1. source \in Seq(Utts) /\ hand \in Seq(Utts) /\ ready \in Seq(Utts)
        BY <1>1
      <3>2. mainPc \in MainPcs /\ prodPc \in ProdPcs /\ exhausted \in BOOLEAN
        BY <1>1 DEF MainPcs, ProdPcs
      <3> QED  BY <1>1, <1>2, <3>1, <3>2 DEF TypeWork
    <2>2. TypePool
      BY <1>1, <1>3 DEF TypePool, Cells
    <2>3. TypeTold
      BY <1>1 DEF TypeTold
    <2> QED  BY <2>1, <2>2, <2>3 DEF TypeInv
  <1>7. PoolInv
    BY <1>1, <1>3, CapFacts DEF PoolInv, BufInv
  <1>8. StageInv
    <2>1. \A s, t \in Slots : slotUtt[s] = slotUtt[t] /\ slotUtt[s] # NoUtt => s = t
      BY <1>1
    <2> QED  BY <1>4, <1>5, <2>1 DEF StageInv
  <1>9. ToldInv
    BY <1>1, <1>5 DEF ToldInv
  <1>10. ThreadInv
    BY <1>1 DEF ThreadInv
  <1> QED  BY <1>6, <1>7, <1>8, <1>9, <1>10 DEF RunInv

(* The invariant holds in every state of every run: the variables keep     *)
(* their types, an utterance is in at most one stage and reported exactly  *)
(* when it has left them all, a running slot holds only what was computed  *)
(* for its utterance, and the threads agree on who encodes.                *)
THEOREM RunInductive == Spec => []RunInv
  BY RunInit, RunStep, PTL DEF Spec

(* Every variable keeps its type.                                          *)
THEOREM RunType == Spec => []TypeInv
  <1>1. RunInv => TypeInv
    BY DEF RunInv
  <1> QED  BY <1>1, RunInductive, PTL

-----------------------------------------------------------------------------
(* What the callers of run() rely on.                                      *)

(* A normal return leaves nothing in any stage.                            *)
LEMMA ReturnsEmpty ==
  ASSUME RunInv, mainPc = "returned"
  PROVE  Held = {}
  <1>1. TypeInv /\ PoolInv /\ ThreadInv
    BY DEF RunInv
  <1>2. exhausted /\ ready = <<>> /\ aliveSet = {} /\ prodPc # "failed"
    BY <1>1 DEF ThreadInv
  <1>3. source = <<>> /\ hand = <<>>
    <2>1. CASE overlap
      <3>1. prodPc = "done"
        BY <1>1, <1>2, <2>1 DEF ThreadInv, ProducerDone
      <3> QED  BY <1>1, <2>1, <3>1 DEF ThreadInv
    <2>2. CASE ~overlap
      BY <1>1, <1>2, <2>2 DEF ThreadInv
    <2> QED  BY <1>1, <2>1, <2>2 DEF TypeInv, TypeWork
  <1>4. \A s \in Slots : slotUtt[s] = NoUtt
    BY <1>1, <1>2 DEF PoolInv
  <1>5. Slotted = {}
    BY <1>4 DEF Slotted
  <1> QED  BY <1>2, <1>3, <1>5, HeldIs, ShortSeqFacts

(* The invariant says where every utterance is.                            *)
LEMMA RunComplete == RunInv => ReturnsComplete
  <1> SUFFICES ASSUME RunInv, mainPc # "start"
               PROVE  /\ IsInjective(source \o hand \o ready)
                      /\ \A s, t \in Slots : slotUtt[s] = slotUtt[t] /\ slotUtt[s] # NoUtt
                                                => s = t
                      /\ \A s \in Slots : slotUtt[s] \notin ToSet(source \o hand \o ready)
                      /\ \A u \in ToSet(utterances) :
                            /\ u \in Held <=> calls[u] = 0
                            /\ mainPc = "returned" => calls[u] = 1
    BY DEF ReturnsComplete
  <1>1. TypeInv /\ StageInv /\ ToldInv
    BY DEF RunInv
  <1>2. /\ source \in Seq(Utts) /\ hand \in Seq(Utts) /\ ready \in Seq(Utts)
        /\ utterances \in Seq(Utts)
    BY <1>1 DEF TypeInv, TypeWork
  <1>3. /\ source \o hand \in Seq(Utts) /\ ToSet(source \o hand) = ToSet(source) \cup ToSet(hand)
        /\ IsInjective(source \o hand)
    BY <1>1, <1>2, ConcatFacts DEF StageInv
  <1> DEFINE front == source \o hand
             whole == front \o ready
  <1> HIDE DEF front
  <1>4. /\ whole \in Seq(Utts) /\ ToSet(whole) = ToSet(front) \cup ToSet(ready)
        /\ IsInjective(front) /\ IsInjective(ready) /\ ToSet(front) \cap ToSet(ready) = {}
             => IsInjective(whole)
    <2>1. front \in Seq(Utts)
      BY <1>3 DEF front
    <2> QED  BY <1>2, <2>1, ConcatFacts
  <1> HIDE DEF whole
  <1>5. IsInjective(whole)
    BY <1>1, <1>3, <1>4 DEF StageInv, front
  <1>6. \A s \in Slots : slotUtt[s] \notin ToSet(whole)
    <2>1. ToSet(whole) \subseteq Utts
      BY <1>4, ToSetType
    <2>2. \A s \in Slots : slotUtt[s] = NoUtt \/ slotUtt[s] \in Slotted
      BY DEF Slotted
    <2>3. Slotted \cap ToSet(whole) = {}
      BY <1>1, <1>3, <1>4 DEF StageInv, front
    <2> QED  BY <2>1, <2>2, <2>3, RunAssumption
  <1>7. \A u \in ToSet(utterances) : u \in Utts /\ (u \in Held <=> calls[u] = 0)
    BY <1>1, <1>2, ToSetType DEF ToldInv
  <1>8. ASSUME mainPc = "returned", NEW u \in ToSet(utterances) PROVE calls[u] = 1
    <2>1. u \notin Held
      BY <1>8, ReturnsEmpty
    <2> QED  BY <1>1, <1>7, <2>1 DEF ToldInv
  <1>9. \A s, t \in Slots : slotUtt[s] = slotUtt[t] /\ slotUtt[s] # NoUtt => s = t
    BY <1>1 DEF StageInv
  <1> QED  BY <1>5, <1>6, <1>7, <1>8, <1>9 DEF whole, front

(* Nothing is lost, repeated or in two places, for any list, pool size and *)
(* batch sizes; a run that returns has reported all of its utterances.     *)
THEOREM RunReturnsComplete == Spec => []ReturnsComplete
  BY RunInductive, RunComplete, PTL

(* The invariant says what every running slot holds.                       *)
LEMMA RunCaches == RunInv => CachesIntact
  <1> SUFFICES ASSUME RunInv, NEW s \in buf.alive
               PROVE  /\ \A c \in 0 .. buf.pos[s] : buf.row[s][c] = slotUtt[s]
                      /\ \A c \in 0 .. buf.pos[s] - 1 : buf.keys[s][c] = slotUtt[s]
                      /\ s \notin buf.fin =>
                            /\ buf.last[s] = slotUtt[s]
                            /\ buf.pos[s] < MaxPos /\ buf.pos[s] < lAlloc
                            /\ buf.pos[s] + 1 < buf.cap[s] /\ buf.cap[s] <= lAlloc + 1
    BY DEF CachesIntact
  <1>1. SlotAt(buf, s) /\ lAlloc <= MaxPos
    BY DEF RunInv, PoolInv, BufInv
  <1>2. buf.pos[s] \in Nat /\ lAlloc \in Nat /\ MaxPos \in Nat
    BY CapFacts DEF RunInv, TypeInv, TypePool, BufType
  <1> QED  BY <1>1, <1>2 DEF SlotAt

(* A slot reads only what was written for its utterance and stays inside   *)
(* its allocation, whatever the pool size, graph captures and tenants.     *)
THEOREM RunCachesIntact == Spec => []CachesIntact
  BY RunInductive, RunCaches, PTL

-----------------------------------------------------------------------------
(* The promise of Outcomes.                                                *)

(* After the start an utterance that was reported is never reported again, *)
(* nor its answer changed.                                                 *)
LEMMA SettledStays ==
  ASSUME TypeInv, ToldInv', [Next]_vars, mainPc # "start", NEW u \in Utts, calls[u] = 1
  PROVE  calls'[u] = 1 /\ answer'[u] = answer[u]
  <1>1. calls'[u] \in {0, 1}
    BY DEF ToldInv
  <1>2. ASSUME calls' = calls, answer' = answer PROVE calls'[u] = 1 /\ answer'[u] = answer[u]
    BY <1>2
  <1>3. ASSUME NEW F, Report(F), answer' = answer
        PROVE  calls'[u] = 1 /\ answer'[u] = answer[u]
    <2>1. calls'[u] = IF u \in F THEN calls[u] + 1 ELSE calls[u]
      BY <1>3 DEF Report
    <2> QED  BY <1>1, <1>3, <2>1
  <1>4. ASSUME NEW done, Collect(done) PROVE calls'[u] = 1 /\ answer'[u] = answer[u]
    <2> DEFINE mine == {d \in done : slotUtt[d] = u}
               tokens(s) == {buf.row[s][c] : c \in 0 .. buf.pos[s]}
    <2>1. /\ calls'[u] = IF \E s \in done : slotUtt[s] = u THEN calls[u] + 1 ELSE calls[u]
          /\ answer'[u] = answer[u] \cup UNION {tokens(s) : s \in mine}
      BY <1>4 DEF Collect
    <2>2. mine = {} /\ calls'[u] = 1
      BY <1>1, <2>1
    <2> HIDE DEF mine, tokens
    <2>3. UNION {tokens(s) : s \in mine} = {}
      BY <2>2
    <2> QED  BY <2>1, <2>2, <2>3
  <1>5. CASE Producer
    <2>1. CASE ProducerPull
      BY <1>3, <2>1 DEF ProducerPull, LoadBatch
    <2>2. CASE ProducerPublish \/ ProducerCheck \/ ProducerRaises
      BY <1>2, <2>2 DEF ProducerPublish, ProducerCheck, ProducerRaises, told
    <2> QED  BY <1>5, <2>1, <2>2 DEF Producer
  <1>6. CASE CheckProducer \/ InlineEncode \/ InlineRaises \/ Finish \/ Again \/ Decode
    BY <1>2, <1>6 DEF CheckProducer, InlineEncode, InlineRaises, Finish, Again, Decode, told
  <1>7. CASE Stock
    <2>1. answer' = answer
      BY <1>7 DEF Stock
    <2>2. calls' = calls \/ LoadBatch
      BY <1>7 DEF Stock
    <2> QED  BY <1>2, <1>3, <2>1, <2>2 DEF LoadBatch
  <1>8. CASE Admit
    <2>1. answer' = answer
      BY <1>8 DEF Admit
    <2>2. calls' = calls \/ AdmitReady
      BY <1>8 DEF Admit
    <2> QED  BY <1>2, <1>3, <2>1, <2>2 DEF AdmitReady
  <1>9. CASE Evict
    <2>1. CASE ShouldEvict
      BY <1>4, <1>9, <2>1 DEF Evict
    <2>2. CASE ~ShouldEvict
      BY <1>2, <1>9, <2>2 DEF Evict, told
    <2> QED  BY <2>1, <2>2
  <1>10. CASE UNCHANGED vars
    BY <1>2, <1>10 DEF vars, told
  <1> QED  BY <1>5, <1>6, <1>7, <1>8, <1>9, <1>10 DEF Next, Main, Start

(* run() begins once, and before it nothing was reported.                  *)
LEMMA StartsOnce ==
  ASSUME RunInv, [Next]_vars
  PROVE  /\ mainPc # "start" => mainPc' # "start"
         /\ mainPc = "start" => \A u \in Utts : answer[u] = {} /\ answer'[u] = {}
  <1>1. ThreadInv /\ ToldInv
    BY DEF RunInv
  <1>2. ASSUME mainPc # "start" PROVE mainPc' # "start"
    <2>1. CASE Producer
      BY <1>2, <2>1 DEF Producer, ProducerPull, ProducerPublish, ProducerCheck, ProducerRaises
    <2>2. CASE Main
      BY <1>2, <2>2 DEF Main, Start, CheckProducer, Stock, InlineEncode, InlineRaises, Admit,
                        Finish, LeaveWith, Again, Decode, Evict
    <2>3. CASE UNCHANGED vars
      BY <1>2, <2>3 DEF vars
    <2> QED  BY <2>1, <2>2, <2>3 DEF Next
  <1>3. ASSUME mainPc = "start" PROVE \A u \in Utts : answer[u] = {} /\ answer'[u] = {}
    <2>1. \A u \in Utts : answer[u] = {}
      BY <1>1, <1>3 DEF ToldInv
    <2>2. answer' = answer
      <3>1. CASE Producer
        BY <1>1, <1>3, <3>1 DEF Producer, ProducerPull, ProducerPublish, ProducerCheck,
                                ProducerRaises, ThreadInv
      <3>2. CASE Main
        BY <1>3, <3>2 DEF Main, Start, CheckProducer, Stock, InlineEncode, InlineRaises, Admit,
                          Finish, Again, Decode, Evict
      <3>3. CASE UNCHANGED vars
        BY <3>3 DEF vars, told
      <3> QED  BY <3>1, <3>2, <3>3 DEF Next
    <2> QED  BY <2>1, <2>2
  <1> QED  BY <1>2, <1>3

(* Every step is a step of the promise or leaves it alone.                 *)
LEMMA OutcomeStep ==
  ASSUME RunInv, RunInv', [Next]_vars
  PROVE  [Promise!Next]_([u \in Utts |-> OutcomeOf(u)])
  <1>1. TypeInv /\ ToldInv /\ ToldInv' /\ utterances' = utterances
    BY ControlStep DEF RunInv
  <1>2. ASSUME NEW u \in Utts
        PROVE  /\ OutcomeOf(u)' \in Promise!Outcome
               /\ OutcomeOf(u)' = OutcomeOf(u)
                    \/ <<OutcomeOf(u), OutcomeOf(u)'>> \in Promise!LegalMoves
    <2>1. /\ calls[u] \in {0, 1} /\ answer[u] \in {{}, {u}}
          /\ calls'[u] \in {0, 1} /\ answer'[u] \in {{}, {u}}
      BY <1>1 DEF ToldInv
    <2>2. CASE u \notin ToSet(utterances)
      <3>1. OutcomeOf(u) = "new" /\ OutcomeOf(u)' = "new"
        BY <1>1, <2>2 DEF OutcomeOf
      <3> QED  BY <3>1 DEF Promise!Outcome
    <2>3. CASE u \in ToSet(utterances) /\ mainPc = "start"
      <3>1. OutcomeOf(u) = "new" /\ answer'[u] = {}
        BY <2>3, StartsOnce DEF OutcomeOf
      <3>2. OutcomeOf(u)' \in {"new", "open", "failed"}
        BY <2>1, <3>1 DEF OutcomeOf
      <3> QED  BY <3>1, <3>2 DEF Promise!Outcome, Promise!LegalMoves
    <2>4. CASE u \in ToSet(utterances) /\ mainPc # "start"
      <3>1. mainPc' # "start" /\ u \in ToSet(utterances')
        BY <1>1, <2>4, StartsOnce
      <3>2. CASE calls[u] = 1
        <4>1. calls'[u] = 1 /\ answer'[u] = answer[u]
          BY <1>1, <2>4, <3>2, SettledStays
        <4>2. OutcomeOf(u)' = OutcomeOf(u) /\ OutcomeOf(u) \in {"answered", "failed"}
          BY <2>1, <2>4, <3>1, <3>2, <4>1 DEF OutcomeOf
        <4> QED  BY <4>2 DEF Promise!Outcome
      <3>3. CASE calls[u] = 0
        <4>1. OutcomeOf(u) = "open"
          BY <2>4, <3>3 DEF OutcomeOf
        <4>2. OutcomeOf(u)' \in {"open", "answered", "failed"}
          BY <2>1, <3>1 DEF OutcomeOf
        <4> QED  BY <4>1, <4>2 DEF Promise!Outcome, Promise!LegalMoves
      <3> QED  BY <2>1, <3>2, <3>3
    <2> QED  BY <2>2, <2>3, <2>4
  <1> DEFINE J == {u \in Utts : OutcomeOf(u)' # OutcomeOf(u)}
             after == [u \in Utts |-> OutcomeOf(u)]'
             earlier == [u \in Utts |-> OutcomeOf(u)]
  <1>3. \A u \in Utts : after[u] = OutcomeOf(u)' /\ earlier[u] = OutcomeOf(u)
    OBVIOUS
  <1>4. after \in [Utts -> Promise!Outcome]
    BY <1>2
  <1>5. Promise!Settle(J)
    BY <1>2, <1>3, <1>4 DEF Promise!Settle
  <1>6. J \in SUBSET Utts
    OBVIOUS
  <1> QED  BY <1>5, <1>6 DEF Promise!Next

(* The run implements the abstract promise: each utterance is answered at  *)
(* most once, from its own tokens or with an error.                        *)
THEOREM RunKeepsPromise == Spec => AnsweredOnce
  <1>1. Init => Promise!Init
    BY DEF Init, Promise!Init, OutcomeOf
  <1>2. RunInv /\ RunInv' /\ [Next]_vars => [Promise!Next]_([u \in Utts |-> OutcomeOf(u)])
    BY OutcomeStep
  <1> QED  BY <1>1, <1>2, RunInductive, PTL DEF Spec, AnsweredOnce, Promise!Spec
=============================================================================
