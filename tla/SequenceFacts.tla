--------------------------- MODULE SequenceFacts ---------------------------
(***************************************************************************)
(* What the sequence operations of the engines do to the set of elements   *)
(* and to the absence of duplicates.  A list without duplicates is an      *)
(* injective sequence.                                                     *)
(***************************************************************************)
EXTENDS Integers, Sequences, SequencesExt, Selection, SequenceTheorems, FunctionTheorems,
        FiniteSetTheorems, WellFoundedInduction, TLAPS

(* Appending an element adds just that element, and no duplicate if it is  *)
(* new: put() of a queue.                                                  *)
LEMMA AppendFacts ==
  ASSUME NEW S, NEW q \in Seq(S), NEW e \in S
  PROVE  /\ Append(q, e) \in Seq(S)
         /\ ToSet(Append(q, e)) = ToSet(q) \cup {e}
         /\ IsInjective(q) /\ e \notin ToSet(q) => IsInjective(Append(q, e))
  <1>1. /\ Append(q, e) \in Seq(S) /\ Len(Append(q, e)) = Len(q) + 1
        /\ \A i \in 1 .. Len(q) : Append(q, e)[i] = q[i]
        /\ Append(q, e)[Len(q) + 1] = e
    BY AppendProperties
  <1>2. /\ DOMAIN q = 1 .. Len(q) /\ DOMAIN Append(q, e) = 1 .. Len(q) + 1
        /\ Len(q) \in Nat
    BY <1>1
  <1>3. ToSet(Append(q, e)) = ToSet(q) \cup {e}
    BY <1>1, <1>2 DEF ToSet
  <1>4. ASSUME IsInjective(q), e \notin ToSet(q) PROVE IsInjective(Append(q, e))
    <2>1. \A i \in 1 .. Len(q) : q[i] # e
      BY <1>2, <1>4 DEF ToSet
    <2> QED  BY <1>1, <1>2, <1>4, <2>1 DEF IsInjective
  <1> QED  BY <1>1, <1>3, <1>4

(* Where the elements of a concatenation are.                              *)
LEMMA ConcatAt ==
  ASSUME NEW S, NEW p \in Seq(S), NEW q \in Seq(S)
  PROVE  /\ p \o q \in Seq(S) /\ Len(p \o q) = Len(p) + Len(q)
         /\ \A j \in 1 .. Len(p) : (p \o q)[j] = p[j]
         /\ \A j \in 1 .. Len(q) : (p \o q)[Len(p) + j] = q[j]
  <1> DEFINE c == p \o q
             m == Len(p)
             n == Len(q)
  <1>1. /\ c \in Seq(S) /\ Len(c) = m + n
        /\ \A i \in 1 .. m + n : c[i] = IF i <= m THEN p[i] ELSE q[i - m]
    BY ConcatProperties
  <1>2. m \in Nat /\ n \in Nat
    OBVIOUS
  <1> HIDE DEF c, m, n
  <1>3. \A j \in 1 .. m : c[j] = p[j]
    BY <1>1, <1>2
  <1>4. \A j \in 1 .. n : c[m + j] = q[j]
    <2> TAKE j \in 1 .. n
    <2>1. m + j \in 1 .. m + n /\ ~(m + j <= m) /\ (m + j) - m = j
      BY <1>2
    <2> QED  BY <1>1, <2>1
  <1> QED  BY <1>1, <1>3, <1>4 DEF c, m, n

(* Where the elements of the two parts of a list are.                      *)
LEMMA SplitAt ==
  ASSUME NEW S, NEW q \in Seq(S), NEW n \in 0 .. Len(q)
  PROVE  LET p == SubSeq(q, 1, n)
             s == SubSeq(q, n + 1, Len(q))
         IN  /\ p \in Seq(S) /\ Len(p) = n /\ \A j \in 1 .. n : p[j] = q[j]
             /\ s \in Seq(S) /\ Len(s) = Len(q) - n
             /\ \A j \in 1 .. Len(q) - n : s[j] = q[n + j]
  <1> DEFINE p == SubSeq(q, 1, n)
             s == SubSeq(q, n + 1, Len(q))
             k == Len(q)
  <1>1. k \in Nat /\ n \in 0 .. k /\ DOMAIN q = 1 .. k /\ \A i \in 1 .. k : q[i] \in S
    OBVIOUS
  <1>2. p \in Seq(S) /\ Len(p) = n /\ \A i \in 1 .. n : p[i] = q[i]
    BY <1>1, SubSeqProperties
  <1>3. s \in Seq(S) /\ Len(s) = k - n /\ \A i \in 1 .. k - n : s[i] = q[n + i]
    <2>1. \A i \in n + 1 .. k : q[i] \in S
      BY <1>1
    <2>2. /\ s \in Seq(S)
          /\ Len(s) = IF n + 1 <= k THEN k - (n + 1) + 1 ELSE 0
          /\ \A i \in 1 .. k - (n + 1) + 1 : s[i] = q[(n + 1) + i - 1]
      BY <1>1, <2>1, SubSeqProperties
    <2> HIDE DEF s, k
    <2>3. k - (n + 1) + 1 = k - n /\ \A i \in 1 .. k - n : (n + 1) + i - 1 = n + i
      BY <1>1
    <2> QED  BY <1>1, <2>2, <2>3
  <1> QED  BY <1>2, <1>3 DEF p, s, k

(* Joining two lists: the pool of staged requests grows by a batch.        *)
LEMMA ConcatFacts ==
  ASSUME NEW S, NEW p \in Seq(S), NEW q \in Seq(S)
  PROVE  /\ p \o q \in Seq(S)
         /\ Len(p \o q) = Len(p) + Len(q)
         /\ ToSet(p \o q) = ToSet(p) \cup ToSet(q)
         /\ IsInjective(p) /\ IsInjective(q) /\ ToSet(p) \cap ToSet(q) = {}
              => IsInjective(p \o q)
  <1> DEFINE c == p \o q
             m == Len(p)
             n == Len(q)
  <1>1. /\ c \in Seq(S) /\ Len(c) = m + n
        /\ \A i \in 1 .. m + n : c[i] = IF i <= m THEN p[i] ELSE q[i - m]
    BY ConcatProperties
  <1>2. /\ DOMAIN p = 1 .. m /\ DOMAIN q = 1 .. n /\ DOMAIN c = 1 .. m + n
        /\ m \in Nat /\ n \in Nat
    BY <1>1
  <1> HIDE DEF c, m, n
  <1>3. \A i \in 1 .. m : c[i] = p[i] /\ i \in 1 .. m + n
    BY <1>1, <1>2
  <1>4. \A i \in 1 .. n : c[m + i] = q[i] /\ m + i \in 1 .. m + n
    BY <1>1, <1>2
  <1>5. \A i \in 1 .. m + n : i \in 1 .. m \/ (i - m \in 1 .. n /\ i = m + (i - m))
    BY <1>2
  <1>6. ToSet(c) = ToSet(p) \cup ToSet(q)
    <2>1. ASSUME NEW i \in 1 .. m + n PROVE c[i] \in ToSet(p) \cup ToSet(q)
      <3>1. CASE i \in 1 .. m
        BY <1>2, <1>3, <3>1 DEF ToSet
      <3>2. CASE i - m \in 1 .. n /\ i = m + (i - m)
        <4>1. c[i] = q[i - m]
          BY <1>4, <3>2
        <4> QED  BY <1>2, <3>2, <4>1 DEF ToSet
      <3> QED  BY <1>5, <3>1, <3>2
    <2>2. ToSet(p) \subseteq ToSet(c) /\ ToSet(q) \subseteq ToSet(c)
      BY <1>2, <1>3, <1>4 DEF ToSet
    <2> QED  BY <1>2, <2>1, <2>2 DEF ToSet
  <1>7. ASSUME IsInjective(p), IsInjective(q), ToSet(p) \cap ToSet(q) = {}
        PROVE  IsInjective(c)
    <2>1. \A i \in 1 .. m, j \in 1 .. n : p[i] # q[j]
      BY <1>2, <1>7 DEF ToSet
    <2>2. \A i, j \in 1 .. m : p[i] = p[j] => i = j
      BY <1>2, <1>7 DEF IsInjective
    <2>3. \A i, j \in 1 .. n : q[i] = q[j] => i = j
      BY <1>2, <1>7 DEF IsInjective
    <2>4. ASSUME NEW i \in 1 .. m + n, NEW j \in 1 .. m + n, c[i] = c[j] PROVE i = j
      <3>1. CASE i \in 1 .. m /\ j \in 1 .. m
        BY <1>3, <2>2, <2>4, <3>1
      <3>2. CASE i \in 1 .. m /\ j - m \in 1 .. n
        BY <1>1, <1>3, <2>1, <2>4, <3>2, <1>2
      <3>3. CASE i - m \in 1 .. n /\ j \in 1 .. m
        BY <1>1, <1>3, <2>1, <2>4, <3>3, <1>2
      <3>4. CASE i - m \in 1 .. n /\ j - m \in 1 .. n
        <4>1. q[i - m] = q[j - m]
          BY <1>1, <1>2, <2>4, <3>4
        <4> QED  BY <1>2, <2>3, <3>4, <4>1
      <3> QED  BY <1>5, <3>1, <3>2, <3>3, <3>4
    <2> QED  BY <1>2, <2>4 DEF IsInjective
  <1> QED  BY <1>1, <1>6, <1>7 DEF c, m, n

(* Cutting a list in two: draining a queue, admitting staged requests.     *)
LEMMA SplitFacts ==
  ASSUME NEW S, NEW q \in Seq(S), NEW n \in 0 .. Len(q)
  PROVE  LET p == SubSeq(q, 1, n)
             s == SubSeq(q, n + 1, Len(q))
         IN  /\ p \in Seq(S) /\ s \in Seq(S)
             /\ Len(p) = n /\ Len(s) = Len(q) - n
             /\ ToSet(p) \cup ToSet(s) = ToSet(q)
             /\ IsInjective(q) => /\ IsInjective(p) /\ IsInjective(s)
                                  /\ ToSet(p) \cap ToSet(s) = {}
  <1> DEFINE p == SubSeq(q, 1, n)
             s == SubSeq(q, n + 1, Len(q))
             k == Len(q)
  <1>1. k \in Nat /\ n \in 0 .. k /\ DOMAIN q = 1 .. k /\ \A i \in 1 .. k : q[i] \in S
    OBVIOUS
  <1>2. p \in Seq(S) /\ Len(p) = n /\ \A i \in 1 .. n : p[i] = q[i]
    BY SplitAt
  <1>3. s \in Seq(S) /\ Len(s) = k - n /\ \A i \in 1 .. k - n : s[i] = q[n + i]
    BY SplitAt
  <1> HIDE DEF p, s, k
  <1>4. DOMAIN p = 1 .. n /\ DOMAIN s = 1 .. k - n
    BY <1>2, <1>3
  <1>5. ToSet(p) \cup ToSet(s) = ToSet(q)
    <2>1. ToSet(p) \subseteq ToSet(q)
      BY <1>1, <1>2, <1>4 DEF ToSet
    <2>2. \A i \in 1 .. k - n : n + i \in 1 .. k
      BY <1>1
    <2>3. ToSet(s) \subseteq ToSet(q)
      BY <1>1, <1>3, <1>4, <2>2 DEF ToSet
    <2>4. \A i \in 1 .. k : i \in 1 .. n \/ (i - n \in 1 .. k - n /\ i = n + (i - n))
      BY <1>1
    <2>5. ASSUME NEW i \in 1 .. k PROVE q[i] \in ToSet(p) \cup ToSet(s)
      <3>1. CASE i \in 1 .. n
        BY <1>2, <1>4, <3>1 DEF ToSet
      <3>2. CASE i - n \in 1 .. k - n /\ i = n + (i - n)
        <4>1. q[i] = s[i - n]
          BY <1>3, <3>2
        <4> QED  BY <1>4, <3>2, <4>1 DEF ToSet
      <3> QED  BY <2>4, <3>1, <3>2
    <2> QED  BY <1>1, <2>1, <2>3, <2>5 DEF ToSet
  <1>6. ASSUME IsInjective(q)
        PROVE  IsInjective(p) /\ IsInjective(s) /\ ToSet(p) \cap ToSet(s) = {}
    <2>1. \A i, j \in 1 .. k : q[i] = q[j] => i = j
      BY <1>1, <1>6 DEF IsInjective
    <2>2. \A i, j \in 1 .. n : p[i] = p[j] => i = j
      BY <1>1, <1>2, <2>1
    <2>3. \A i, j \in 1 .. k - n : s[i] = s[j] => i = j
      BY <1>1, <1>3, <2>1
    <2>4. \A i \in 1 .. n, j \in 1 .. k - n : p[i] # s[j]
      BY <1>1, <1>2, <1>3, <2>1
    <2> QED  BY <1>4, <2>2, <2>3, <2>4 DEF IsInjective, ToSet
  <1> QED  BY <1>2, <1>3, <1>5, <1>6 DEF p, s, k

(* Taking the first element off: get() of a queue.                         *)
LEMMA HeadTailFacts ==
  ASSUME NEW S, NEW q \in Seq(S), q # <<>>
  PROVE  /\ Head(q) \in S /\ Tail(q) \in Seq(S)
         /\ ToSet(q) = {Head(q)} \cup ToSet(Tail(q))
         /\ IsInjective(q) => IsInjective(Tail(q)) /\ Head(q) \notin ToSet(Tail(q))
  <1> DEFINE h == Head(q)
             t == Tail(q)
             k == Len(q)
  <1>1. /\ h \in S /\ t \in Seq(S) /\ Len(t) = k - 1 /\ h = q[1]
        /\ \A i \in 1 .. k - 1 : t[i] = q[i + 1]
    BY HeadTailProperties
  <1>2. k \in Nat \ {0} /\ DOMAIN q = 1 .. k /\ DOMAIN t = 1 .. k - 1
    BY <1>1, EmptySeq
  <1> HIDE DEF h, t, k
  <1>3. ToSet(q) = {h} \cup ToSet(t)
    <2>1. \A i \in 1 .. k : i = 1 \/ (i - 1 \in 1 .. k - 1 /\ i = (i - 1) + 1)
      BY <1>2
    <2>2. \A i \in 1 .. k - 1 : i + 1 \in 1 .. k
      BY <1>2
    <2>3. ASSUME NEW i \in 1 .. k PROVE q[i] \in {h} \cup ToSet(t)
      <3>1. CASE i = 1
        BY <1>1, <3>1
      <3>2. CASE i - 1 \in 1 .. k - 1 /\ i = (i - 1) + 1
        <4>1. q[i] = t[i - 1]
          BY <1>1, <3>2
        <4> QED  BY <1>2, <3>2, <4>1 DEF ToSet
      <3> QED  BY <2>1, <3>1, <3>2
    <2>4. {h} \cup ToSet(t) \subseteq ToSet(q)
      BY <1>1, <1>2, <2>2 DEF ToSet
    <2> QED  BY <1>2, <2>3, <2>4 DEF ToSet
  <1>4. ASSUME IsInjective(q) PROVE IsInjective(t) /\ h \notin ToSet(t)
    <2>1. \A i, j \in 1 .. k : q[i] = q[j] => i = j
      BY <1>2, <1>4 DEF IsInjective
    <2>2. \A i, j \in 1 .. k - 1 : t[i] = t[j] => i = j
      BY <1>1, <1>2, <2>1
    <2>3. \A i \in 1 .. k - 1 : t[i] # h
      BY <1>1, <1>2, <2>1
    <2> QED  BY <1>2, <2>2, <2>3 DEF IsInjective, ToSet
  <1> QED  BY <1>1, <1>3, <1>4 DEF h, t

(* The empty list and a list of one.                                       *)
LEMMA ShortSeqFacts ==
  /\ ToSet(<<>>) = {} /\ IsInjective(<<>>)
  /\ \A e : ToSet(<<e>>) = {e} /\ IsInjective(<<e>>)
  BY DEF ToSet, IsInjective

(* A list given by its elements.                                           *)
LEMMA FunctionSeq ==
  ASSUME NEW S, NEW n \in Nat, NEW f \in [1 .. n -> S]
  PROVE  f \in Seq(S) /\ Len(f) = n /\ DOMAIN f = 1 .. n
  OBVIOUS

(* The elements of a list are of the type of the list.                     *)
LEMMA ToSetType ==
  ASSUME NEW S, NEW q \in Seq(S)
  PROVE  ToSet(q) \subseteq S
  BY DEF ToSet

(* A set of naturals has a least member; and naturals that hold 0 and with *)
(* every number the next are all of them.                                  *)
LEMMA LeastNat ==
  ASSUME NEW T, T \subseteq Nat, T # {}
  PROVE  \E n \in T : \A m \in T : n <= m
  <1>1. IsWellFoundedOn(OpToRel(<, Nat), Nat)
    BY NatLessThanWellFounded
  <1>2. PICK n \in T : \A m \in T : ~(<<m, n>> \in OpToRel(<, Nat))
    BY <1>1, WFMin
  <1>3. \A m \in T : ~(m < n)
    BY <1>2 DEF OpToRel
  <1> QED  BY <1>3

LEMMA NatSetInduction ==
  ASSUME NEW T, T \subseteq Nat, 0 \in T, \A n \in T : n + 1 \in T
  PROVE  T = Nat
  <1>1. SUFFICES ASSUME Nat \ T # {} PROVE FALSE
    OBVIOUS
  <1>2. PICK n \in Nat \ T : \A m \in Nat \ T : n <= m
    BY <1>1, LeastNat
  <1>3. n # 0 /\ n - 1 \in Nat /\ n - 1 \in T
    BY <1>2
  <1> QED  BY <1>2, <1>3

(* A bounded set of naturals has a least and a greatest member.            *)
LEMMA ExtremeFacts ==
  ASSUME NEW n \in Nat, NEW T, T \subseteq 0 .. n, T # {}
  PROVE  /\ Min(T) \in T /\ \A m \in T : Min(T) <= m
         /\ Max(T) \in T /\ \A m \in T : m <= Max(T)
  <1>1. T \subseteq Nat /\ \A m \in T : m \in 0 .. n
    OBVIOUS
  <1>2. \E a \in T : \A m \in T : a <= m
    BY <1>1, LeastNat
  <1>3. Min(T) \in T /\ \A m \in T : Min(T) <= m
    BY <1>2 DEF Min
  <1> DEFINE R == {n - m : m \in T}
  <1>4. R \subseteq Nat /\ R # {}
    <2>1. \A m \in T : n - m \in Nat
      BY <1>1
    <2>2. R \subseteq Nat
      BY <2>1
    <2>3. PICK m \in T : TRUE
      OBVIOUS
    <2>4. n - m \in R
      BY <2>3
    <2> QED  BY <2>2, <2>4
  <1>5. PICK r \in R : \A s \in R : r <= s
    <2> HIDE DEF R
    <2> QED  BY <1>4, LeastNat
  <1>6. PICK b \in T : r = n - b
    OBVIOUS
  <1>7. \A m \in T : b >= m
    <2>1. \A m \in T : n - b <= n - m
      BY <1>5, <1>6
    <2> QED  BY <1>1, <2>1
  <1>8. Max(T) \in T /\ \A m \in T : Max(T) >= m
    BY <1>7 DEF Max
  <1>9. \A m \in T : m <= Max(T)
    BY <1>1, <1>8
  <1> QED  BY <1>3, <1>8, <1>9

(* A list has as many places as its length.                                *)
LEMMA PlacesOfList ==
  ASSUME NEW m \in Nat
  PROVE  IsFiniteSet(1 .. m) /\ Cardinality(1 .. m) = m
  BY FS_Interval

(* The members of a set of places by rank, from 1 on: how PickAt names the *)
(* place of its n-th element.                                              *)
RankIn(K, i) == Cardinality({j \in K : j <= i})

LEMMA RankFacts ==
  ASSUME NEW m \in Nat, NEW K \in SUBSET (1 .. m)
  PROVE  /\ Cardinality(K) \in Nat /\ Cardinality(K) <= m
         /\ \A i \in K : RankIn(K, i) \in 1 .. Cardinality(K)
         /\ \A i, j \in K : i < j => RankIn(K, i) < RankIn(K, j)
         /\ \A n \in 1 .. Cardinality(K) : \E i \in K : RankIn(K, i) = n
  <1> DEFINE c == Cardinality(K)
             Upto(i) == {j \in K : j <= i}
             f == [i \in K |-> RankIn(K, i)]
  <1>1. IsFiniteSet(K) /\ c \in Nat /\ c <= m
    <2>1. IsFiniteSet(1 .. m) /\ Cardinality(1 .. m) = m
      BY FS_Interval
    <2> QED  BY <2>1, FS_Subset, FS_CardinalityType
  <1>n. \A i \in K : i \in Int
    OBVIOUS
  <1>2. ASSUME NEW i \in K PROVE RankIn(K, i) \in 1 .. c /\ IsFiniteSet(Upto(i))
    <2>1. IsFiniteSet(Upto(i)) /\ Cardinality(Upto(i)) <= c /\ Upto(i) # {}
      BY <1>1, FS_Subset
    <2>2. Cardinality(Upto(i)) \in Nat /\ Cardinality(Upto(i)) # 0
      BY <2>1, FS_CardinalityType, FS_EmptySet
    <2> QED  BY <1>1, <2>1, <2>2 DEF RankIn
  <1>3. ASSUME NEW i \in K, NEW j \in K, i < j PROVE RankIn(K, i) < RankIn(K, j)
    <2>1. Upto(i) \subseteq Upto(j) /\ j \in Upto(j) /\ j \notin Upto(i)
      <3>1. ASSUME NEW x \in Upto(i) PROVE x \in Upto(j)
        <4>1. x \in K /\ x <= i /\ x \in Int /\ i \in Int /\ j \in Int
          BY <1>n
        <4> QED  BY <1>3, <4>1
      <3>2. i \in Int /\ j \in Int /\ j \in K /\ ~(j <= i) /\ j <= j
        BY <1>3, <1>n
      <3> QED  BY <3>1, <3>2
    <2>2. IsFiniteSet(Upto(j))
      BY <1>2
    <2> HIDE DEF Upto
    <2>3. Cardinality(Upto(i)) <= Cardinality(Upto(j))
          /\ Cardinality(Upto(i)) # Cardinality(Upto(j))
      BY <2>1, <2>2, FS_Subset
    <2>4. RankIn(K, i) = Cardinality(Upto(i)) /\ RankIn(K, j) = Cardinality(Upto(j))
      BY DEF RankIn, Upto
    <2> QED  BY <1>2, <2>3, <2>4
  <1>4. f \in Injection(K, 1 .. c)
    <2>1. f \in [K -> 1 .. c]
      BY <1>2
    <2>2. ASSUME NEW i \in K, NEW j \in K, f[i] = f[j] PROVE i = j
      <3>1. RankIn(K, i) = RankIn(K, j) /\ RankIn(K, i) \in Int
        <4>1. f[i] = RankIn(K, i) /\ f[j] = RankIn(K, j)
          OBVIOUS
        <4>2. RankIn(K, i) \in 1 .. c
          BY <1>2
        <4> QED  BY <2>2, <4>1, <4>2
      <3>2. ~(i < j) /\ ~(j < i)
        BY <1>3, <3>1
      <3> QED  BY <1>n, <3>2
    <2> HIDE DEF f
    <2> QED  BY <2>1, <2>2, Fun_IsInj
  <1>5. f \in Surjection(K, 1 .. c)
    <2>1. IsFiniteSet(1 .. c) /\ Cardinality(1 .. c) = c
      BY <1>1, FS_Interval
    <2> HIDE DEF f
    <2> QED  BY <1>4, <2>1, FS_Injection
  <1>6. \A n \in 1 .. c : \E i \in K : RankIn(K, i) = n
    <2>1. \A n \in 1 .. c : \E i \in K : f[i] = n
      <3> HIDE DEF f
      <3> QED  BY <1>5, Fun_SurjectionProperties
    <2> QED  BY <2>1
  <1> QED  BY <1>1, <1>2, <1>3, <1>6

(* The places PickAt takes: all, each once and in order.                   *)
PlaceOf(K) == [n \in 1 .. Cardinality(K) |-> CHOOSE i \in K : RankIn(K, i) = n]

LEMMA PlacesFacts ==
  ASSUME NEW m \in Nat, NEW K \in SUBSET (1 .. m)
  PROVE  /\ Cardinality(K) \in Nat /\ Cardinality(K) <= m
         /\ PlaceOf(K) \in [1 .. Cardinality(K) -> K]
         /\ \A a, b \in 1 .. Cardinality(K) : a < b => PlaceOf(K)[a] < PlaceOf(K)[b]
         /\ \A k \in K : \E a \in 1 .. Cardinality(K) : PlaceOf(K)[a] = k
  <1> DEFINE c == Cardinality(K)
             at == PlaceOf(K)
  <1>n. \A i \in K : i \in Int
    OBVIOUS
  <1>2. /\ c \in Nat /\ c <= m
        /\ \A i \in K : RankIn(K, i) \in 1 .. c
        /\ \A i, j \in K : i < j => RankIn(K, i) < RankIn(K, j)
        /\ \A n \in 1 .. c : \E i \in K : RankIn(K, i) = n
    BY RankFacts
  <1>3. \A n \in 1 .. c : at[n] \in K /\ RankIn(K, at[n]) = n
    BY <1>2 DEF PlaceOf
  <1>5. at \in [1 .. c -> K]
    BY <1>3 DEF PlaceOf
  <1> HIDE DEF at
  <1>8. ASSUME NEW a \in 1 .. c, NEW b \in 1 .. c, a < b PROVE at[a] < at[b]
    <2>1. at[a] \in K /\ at[b] \in K /\ RankIn(K, at[a]) = a /\ RankIn(K, at[b]) = b
      BY <1>3
    <2>2. ~(at[b] < at[a]) /\ at[a] # at[b]
      <3>1. a \in Int /\ b \in Int /\ ~(b < a) /\ a # b
        BY <1>2, <1>8
      <3>2. at[b] < at[a] => b < a
        BY <1>2, <2>1
      <3> QED  BY <2>1, <3>1, <3>2
    <2>3. at[a] \in Int /\ at[b] \in Int
      BY <1>n, <2>1
    <2> QED  BY <2>2, <2>3
  <1>9. ASSUME NEW k \in K PROVE \E a \in 1 .. c : at[a] = k
    <2>1. PICK a \in 1 .. c : a = RankIn(K, k)
      BY <1>2
    <2>2. at[a] \in K /\ RankIn(K, at[a]) = RankIn(K, k) /\ RankIn(K, k) \in 1 .. c
      BY <1>2, <1>3, <2>1
    <2>3. ~(at[a] < k) /\ ~(k < at[a])
      <3>1. at[a] < k => RankIn(K, k) < RankIn(K, k)
        BY <1>2, <2>2
      <3>2. k < at[a] => RankIn(K, k) < RankIn(K, k)
        BY <1>2, <2>2
      <3>3. RankIn(K, k) \in Int
        BY <1>2
      <3> QED  BY <3>1, <3>2, <3>3
    <2>4. at[a] \in Int /\ k \in Int
      BY <1>n, <2>2
    <2>5. at[a] = k
      BY <2>3, <2>4
    <2> QED  BY <2>5
  <1> QED  BY <1>2, <1>5, <1>8, <1>9 DEF at

(* What PickAt gives.                                                      *)
LEMMA PickAtFacts ==
  ASSUME NEW S, NEW s \in Seq(S), NEW K \in SUBSET (1 .. Len(s))
  PROVE  /\ Cardinality(K) \in Nat
         /\ PickAt(s, K) \in Seq(S) /\ Len(PickAt(s, K)) = Cardinality(K)
         /\ \A a \in 1 .. Cardinality(K) : PickAt(s, K)[a] = s[PlaceOf(K)[a]]
  <1> DEFINE c == Cardinality(K)
             m == Len(s)
  <1>1. m \in Nat /\ \A i \in 1 .. m : s[i] \in S
    OBVIOUS
  <1>2. c \in Nat /\ PlaceOf(K) \in [1 .. c -> K]
    BY <1>1, PlacesFacts
  <1>3. PickAt(s, K) = [n \in 1 .. c |-> s[PlaceOf(K)[n]]]
    BY DEF PickAt, PlaceOf, RankIn
  <1>4. PickAt(s, K) \in [1 .. c -> S]
    <2>1. \A n \in 1 .. c : PlaceOf(K)[n] \in 1 .. m
      BY <1>2
    <2> QED  BY <1>1, <1>3, <2>1
  <1>5. PickAt(s, K) \in Seq(S) /\ Len(PickAt(s, K)) = c
    <2> HIDE DEF c
    <2> QED  BY <1>2, <1>4, FunctionSeq
  <1> QED  BY <1>2, <1>3, <1>5

(* The set of what is picked; and all is picked from all the places.       *)
LEMMA PickedSet ==
  ASSUME NEW S, NEW s \in Seq(S), NEW K \in SUBSET (1 .. Len(s))
  PROVE  ToSet(PickAt(s, K)) = {s[k] : k \in K}
  <1> DEFINE c == Cardinality(K)
             p == PickAt(s, K)
             at == PlaceOf(K)
  <1>1. /\ c \in Nat /\ p \in Seq(S) /\ Len(p) = c
        /\ \A a \in 1 .. c : p[a] = s[at[a]]
    BY PickAtFacts
  <1>2. at \in [1 .. c -> K] /\ \A k \in K : \E a \in 1 .. c : at[a] = k
    <2>1. Len(s) \in Nat
      OBVIOUS
    <2> QED  BY <2>1, PlacesFacts
  <1>3. DOMAIN p = 1 .. c
    BY <1>1
  <1> HIDE DEF p, c, at
  <1>4. ASSUME NEW e PROVE e \in ToSet(p) <=> e \in {s[k] : k \in K}
    <2>1. e \in ToSet(p) <=> \E a \in 1 .. c : e = p[a]
      BY <1>3 DEF ToSet
    <2>2. \A a \in 1 .. c : at[a] \in K /\ p[a] = s[at[a]]
      BY <1>1, <1>2
    <2>3. \A k \in K : \E a \in 1 .. c : p[a] = s[k]
      BY <1>1, <1>2
    <2>4. e \in ToSet(p) => e \in {s[k] : k \in K}
      <3> SUFFICES ASSUME e \in ToSet(p) PROVE e \in {s[k] : k \in K}
        OBVIOUS
      <3>1. PICK a \in 1 .. c : e = p[a]
        BY <2>1
      <3> QED  BY <2>2, <3>1
    <2>5. e \in {s[k] : k \in K} => e \in ToSet(p)
      <3> SUFFICES ASSUME NEW k \in K, e = s[k] PROVE e \in ToSet(p)
        OBVIOUS
      <3> QED  BY <2>1, <2>3
    <2> QED  BY <2>4, <2>5
  <1> QED  BY <1>4 DEF p

LEMMA PickAll ==
  ASSUME NEW S, NEW s \in Seq(S), NEW K \in SUBSET (1 .. Len(s)), Cardinality(K) = Len(s)
  PROVE  PickAt(s, K) = s /\ K = 1 .. Len(s)
  <1> DEFINE m == Len(s)
             p == PickAt(s, K)
             at == PlaceOf(K)
  <1>1. m \in Nat /\ IsFiniteSet(1 .. m) /\ Cardinality(1 .. m) = m
    <2>1. m \in Nat
      OBVIOUS
    <2> HIDE DEF m
    <2> QED  BY <2>1, PlacesOfList
  <1>2. K = 1 .. m
    BY <1>1, FS_Subset
  <1>3. /\ p \in Seq(S) /\ Len(p) = m
        /\ \A a \in 1 .. m : p[a] = s[at[a]]
    <2>1. /\ p \in Seq(S) /\ Len(p) = Cardinality(K)
          /\ \A a \in 1 .. Cardinality(K) : p[a] = s[at[a]]
      BY PickAtFacts
    <2> QED  BY <2>1
  <1>4. /\ at \in [1 .. m -> 1 .. m]
        /\ \A a, b \in 1 .. m : a < b => at[a] < at[b]
    <2>1. /\ at \in [1 .. Cardinality(K) -> K]
          /\ \A a, b \in 1 .. Cardinality(K) : a < b => at[a] < at[b]
      BY <1>1, PlacesFacts
    <2> QED  BY <1>2, <2>1
  <1> HIDE DEF m, p, at
  <1>5. \A a \in 1 .. m : at[a] >= a
    <2> SUFFICES ASSUME NEW a \in 1 .. m, ~(at[a] >= a) PROVE FALSE
      OBVIOUS
    <2> DEFINE T == {b \in 1 .. m : at[b] < b}
    <2>1. T \subseteq Nat /\ T # {}
      BY <1>1, <1>4
    <2>2. PICK b \in T : \A d \in T : b <= d
      <3> HIDE DEF T
      <3> QED  BY <2>1, LeastNat
    <2>3. b \in 1 .. m /\ at[b] \in 1 .. m /\ at[b] < b
      BY <1>4, <2>2
    <2>4. at[at[b]] < at[b]
      BY <1>4, <2>3
    <2>5. at[b] \in T
      BY <2>3, <2>4
    <2> QED  BY <1>1, <2>2, <2>3, <2>5
  <1>6. \A a \in 1 .. m : at[a] <= a
    <2> SUFFICES ASSUME NEW a \in 1 .. m, ~(at[a] <= a) PROVE FALSE
      OBVIOUS
    <2> DEFINE T == {d \in 1 .. m : at[d] > d}
               R == {m - d : d \in T}
    <2>1. \A d \in T : d \in 1 .. m /\ m - d \in Nat
      BY <1>1
    <2>2. R \subseteq Nat /\ R # {}
      <3>1. at[a] > a
        BY <1>1, <1>4
      <3>2. a \in T
        BY <3>1
      <3> HIDE DEF T
      <3> QED  BY <2>1, <3>2
    <2>3. PICK r \in R : \A q \in R : r <= q
      <3> HIDE DEF R
      <3> QED  BY <2>2, LeastNat
    <2>4. PICK b \in T : r = m - b
      OBVIOUS
    <2>5. b \in 1 .. m /\ at[b] \in 1 .. m /\ at[b] > b
      BY <1>4, <2>4
    <2>6. at[at[b]] > at[b]
      BY <1>1, <1>4, <2>5
    <2>7. m - at[b] \in R
      BY <2>5, <2>6
    <2>8. m - b <= m - at[b]
      BY <2>3, <2>4, <2>7
    <2> QED  BY <1>1, <2>5, <2>8
  <1>7. \A a \in 1 .. m : p[a] = s[a]
    <2>1. \A a \in 1 .. m : at[a] = a
      BY <1>1, <1>4, <1>5, <1>6
    <2> QED  BY <1>3, <2>1
  <1>8. p = s
    <2>1. DOMAIN p = 1 .. m /\ DOMAIN s = 1 .. m
      BY <1>3 DEF m
    <2>2. p = [a \in 1 .. m |-> p[a]] /\ s = [a \in 1 .. m |-> s[a]]
      BY <1>3, <2>1
    <2> QED  BY <1>7, <2>2
  <1> QED  BY <1>2, <1>8 DEF m, p

(* What the lists joined one after the other are at each place, as           *)
(* FlattenSeq joins them.                                                    *)
Joining(f, seqs) ==
    f = [i \in 1 .. Len(seqs) |-> IF i = 1 THEN seqs[i] ELSE f[i - 1] \o seqs[i]]

(* Lists can be joined.                                                      *)
LEMMA JoiningExists ==
  ASSUME NEW S, NEW seqs \in Seq(Seq(S))
  PROVE  \E f : Joining(f, seqs)
  <1> DEFINE m == Len(seqs)
             Joined(f, n) ==
               /\ f \in [1 .. n -> Seq(S)]
               /\ \A i \in 1 .. n : f[i] = IF i = 1 THEN seqs[i] ELSE f[i - 1] \o seqs[i]
             T == {n \in Nat : n <= m => \E f : Joined(f, n)}
  <1>1. m \in Nat /\ \A i \in 1 .. m : seqs[i] \in Seq(S)
    OBVIOUS
  <1>2. 0 \in T
    <2>1. Joined([i \in 1 .. 0 |-> <<>>], 0)
      OBVIOUS
    <2> QED  BY <2>1
  <1>3. ASSUME NEW n \in Nat, n <= m => \E f : Joined(f, n), n + 1 <= m
        PROVE  \E g : Joined(g, n + 1)
    <2>0. n <= m
      BY <1>1, <1>3
    <2>1. n \in Nat /\ \E f : Joined(f, n)
      BY <1>3, <2>0
    <2>2. PICK f : Joined(f, n)
      BY <2>1
    <2> DEFINE last == IF n = 0 THEN seqs[n + 1] ELSE f[n] \o seqs[n + 1]
               g == [i \in 1 .. n + 1 |-> IF i <= n THEN f[i] ELSE last]
    <2>3. last \in Seq(S)
      <3>1. seqs[n + 1] \in Seq(S)
        BY <1>1, <1>3, <2>1
      <3>2. CASE n = 0
        BY <3>1, <3>2
      <3>3. CASE n # 0
        <4>1. f[n] \in Seq(S)
          BY <2>1, <2>2, <3>3
        <4> QED  BY <3>1, <3>3, <4>1, ConcatAt
      <3> QED  BY <3>2, <3>3
    <2>4. g \in [1 .. n + 1 -> Seq(S)]
      BY <2>1, <2>2, <2>3
    <2>5. ASSUME NEW i \in 1 .. n + 1
          PROVE  g[i] = IF i = 1 THEN seqs[i] ELSE g[i - 1] \o seqs[i]
      <3>1. CASE i <= n
        <4>1. i \in 1 .. n /\ (i # 1 => i - 1 \in 1 .. n + 1 /\ i - 1 <= n)
          BY <2>1, <2>5, <3>1
        <4>2. g[i] = f[i] /\ (i # 1 => g[i - 1] = f[i - 1])
          BY <2>5, <3>1, <4>1
        <4>3. f[i] = IF i = 1 THEN seqs[i] ELSE f[i - 1] \o seqs[i]
          BY <2>2, <4>1
        <4> QED  BY ONLY <4>2, <4>3
      <3>2. CASE i = n + 1
        <4>1. g[i] = last /\ (n = 0 <=> i = 1) /\ (n # 0 => i - 1 = n /\ g[n] = f[n])
          BY <2>1, <3>2
        <4> QED  BY <3>2, <4>1
      <3> QED  BY <2>1, <2>5, <3>1, <3>2
    <2> HIDE DEF g
    <2> QED  BY <2>4, <2>5
  <1>4. ASSUME NEW n \in T PROVE n + 1 \in T
    <2>1. n \in Nat /\ (n <= m => \E f : Joined(f, n))
      OBVIOUS
    <2> HIDE DEF Joined
    <2>2. n + 1 <= m => \E g : Joined(g, n + 1)
      BY <1>3, <2>1
    <2>3. n + 1 \in Nat
      BY <2>1
    <2> QED  BY <2>2, <2>3
  <1>5. T \subseteq Nat
    OBVIOUS
  <1> HIDE DEF T
  <1>6. T = Nat
    BY <1>2, <1>4, <1>5, NatSetInduction
  <1>7. PICK f : Joined(f, m)
    <2>1. m \in T /\ m <= m
      BY <1>1, <1>6
    <2> HIDE DEF Joined
    <2> QED  BY <2>1 DEF T
  <1>8. f = [i \in 1 .. m |-> IF i = 1 THEN seqs[i] ELSE f[i - 1] \o seqs[i]]
    BY <1>7
  <1> QED  BY <1>8 DEF Joining

(* FlattenSeq is the last of them.                                           *)
LEMMA FlattenAs ==
  ASSUME NEW seqs, Len(seqs) # 0, NEW f, Joining(f, seqs)
  PROVE  \E g : Joining(g, seqs) /\ FlattenSeq(seqs) = g[Len(seqs)]
  <1> DEFINE g == CHOOSE h :
                h = [i \in 1 .. Len(seqs) |-> IF i = 1 THEN seqs[i] ELSE h[i - 1] \o seqs[i]]
  <1>1. f = [i \in 1 .. Len(seqs) |-> IF i = 1 THEN seqs[i] ELSE f[i - 1] \o seqs[i]]
    BY DEF Joining
  <1>2. g = [i \in 1 .. Len(seqs) |-> IF i = 1 THEN seqs[i] ELSE g[i - 1] \o seqs[i]]
    BY <1>1
  <1>3. FlattenSeq(seqs) = g[Len(seqs)]
    BY DEF FlattenSeq
  <1> HIDE DEF g
  <1> QED  BY <1>2, <1>3 DEF Joining

(* What is joined is a list of the elements of them all.                     *)
LEMMA FlattenFacts ==
  ASSUME NEW S, NEW seqs \in Seq(Seq(S))
  PROVE  /\ FlattenSeq(seqs) \in Seq(S)
         /\ ToSet(FlattenSeq(seqs)) = UNION {ToSet(seqs[i]) : i \in 1 .. Len(seqs)}
  <1> DEFINE m == Len(seqs)
             Upto(n) == UNION {ToSet(seqs[i]) : i \in 1 .. n}
  <1>1. m \in Nat /\ \A i \in 1 .. m : seqs[i] \in Seq(S)
    OBVIOUS
  <1>2. CASE m = 0
    <2>1. FlattenSeq(seqs) = seqs
      BY <1>2 DEF FlattenSeq
    <2>2. seqs = <<>> /\ ToSet(seqs) = {} /\ seqs \in Seq(S)
      BY <1>2 DEF ToSet
    <2>3. Upto(m) = {}
      BY <1>2
    <2> QED  BY <2>1, <2>2, <2>3
  <1>3. CASE m # 0
    <2>1. PICK f : Joining(f, seqs)
      BY JoiningExists
    <2>2. PICK g : Joining(g, seqs) /\ FlattenSeq(seqs) = g[m]
      BY <1>3, <2>1, FlattenAs
    <2>3. /\ \A i \in 2 .. m : g[i] = g[i - 1] \o seqs[i]
          /\ g[1] = seqs[1]
      <3>1. g = [i \in 1 .. m |-> IF i = 1 THEN seqs[i] ELSE g[i - 1] \o seqs[i]]
        BY <2>2 DEF Joining
      <3>2. \A i \in 1 .. m : g[i] = IF i = 1 THEN seqs[i] ELSE g[i - 1] \o seqs[i]
        BY <3>1
      <3>3. 1 \in 1 .. m /\ \A i \in 2 .. m : i \in 1 .. m /\ i # 1
        BY <1>1, <1>3
      <3> QED  BY <3>2, <3>3
    <2> DEFINE Good(n) == g[n] \in Seq(S) /\ ToSet(g[n]) = Upto(n)
               T == {n \in Nat : n + 1 <= m => Good(n + 1)}
    <2>4. 0 \in T
      <3>1. g[1] \in Seq(S) /\ Upto(1) = ToSet(seqs[1])
        BY <1>1, <1>3, <2>3
      <3>2. Good(0 + 1)
        BY <2>3, <3>1
      <3> QED  BY <3>2
    <2>5. ASSUME NEW n \in Nat, n + 1 <= m => Good(n + 1), (n + 1) + 1 <= m
          PROVE  Good((n + 1) + 1)
      <3> DEFINE k == n + 1
      <3>1. k \in Nat /\ k + 1 \in 2 .. m /\ (k + 1) - 1 = k /\ Good(k)
        BY <1>1, <2>5
      <3>2. g[k + 1] = g[k] \o seqs[k + 1]
        BY <2>3, <3>1
      <3>3. g[k] \in Seq(S) /\ seqs[k + 1] \in Seq(S)
        BY <1>1, <3>1
      <3>4. g[k + 1] \in Seq(S) /\ ToSet(g[k + 1]) = ToSet(g[k]) \cup ToSet(seqs[k + 1])
        BY <3>2, <3>3, ConcatFacts
      <3>5. Upto(k + 1) = Upto(k) \cup ToSet(seqs[k + 1])
        <4>1. 1 .. k + 1 = (1 .. k) \cup {k + 1}
          BY <3>1
        <4> QED  BY <4>1
      <3> QED  BY <3>1, <3>4, <3>5
    <2>6. ASSUME NEW n \in T PROVE n + 1 \in T
      <3>1. n \in Nat /\ (n + 1 <= m => Good(n + 1))
        OBVIOUS
      <3> HIDE DEF Good
      <3>2. (n + 1) + 1 <= m => Good((n + 1) + 1)
        BY <2>5, <3>1
      <3>3. n + 1 \in Nat
        BY <3>1
      <3> QED  BY <3>2, <3>3
    <2>7. T \subseteq Nat
      OBVIOUS
    <2> HIDE DEF T
    <2>8. T = Nat
      BY <2>4, <2>6, <2>7, NatSetInduction
    <2>9. m - 1 \in T /\ (m - 1) + 1 = m
      BY <1>1, <1>3, <2>8
    <2>10. Good(m)
      <3> HIDE DEF Good
      <3>1. (m - 1) + 1 <= m => Good((m - 1) + 1)
        BY <2>9 DEF T
      <3>2. m <= m
        BY <1>1
      <3> QED  BY <2>9, <3>1, <3>2
    <2> QED  BY <2>2, <2>10
  <1> QED  BY <1>2, <1>3

(* Picking one place more, after all the others.                             *)
LEMMA PickNext ==
  ASSUME NEW S, NEW s \in Seq(S), NEW n \in Nat, n < Len(s), NEW K \in SUBSET (1 .. n)
  PROVE  PickAt(s, K \cup {n + 1}) = Append(PickAt(s, K), s[n + 1])
  <1> DEFINE J == K \cup {n + 1}
             c == Cardinality(K)
             m == Len(s)
  <1>1. /\ m \in Nat /\ n + 1 \in 1 .. m /\ n + 1 \notin K
        /\ K \in SUBSET (1 .. m) /\ J \in SUBSET (1 .. m)
    OBVIOUS
  <1>2. /\ c \in Nat /\ PlaceOf(K) \in [1 .. c -> K]
        /\ Cardinality(J) \in Nat /\ PlaceOf(J) \in [1 .. Cardinality(J) -> J]
    BY <1>1, PlacesFacts
  <1>3. IsFiniteSet(K)
    BY <1>1, PlacesOfList, FS_Subset
  <1>4. Cardinality(J) = c + 1
    BY <1>1, <1>3, FS_AddElement
  <1>5. /\ \A i \in K : RankIn(J, i) = RankIn(K, i)
        /\ RankIn(J, n + 1) = c + 1
    <2>1. \A i \in K : {j \in J : j <= i} = {j \in K : j <= i}
      BY <1>1
    <2>2. {j \in J : j <= n + 1} = J
      <3>1. \A j \in J : j <= n + 1
        OBVIOUS
      <3> QED  BY <3>1
    <2> QED  BY <1>4, <2>1, <2>2 DEF RankIn
  <1>6. /\ \A i, j \in J : i < j => RankIn(J, i) < RankIn(J, j)
        /\ \A i \in J : RankIn(J, i) \in 1 .. c + 1
    BY <1>1, <1>4, RankFacts
  <1>7. \A i, j \in J : RankIn(J, i) = RankIn(J, j) => i = j
    <2>1. \A i \in J : i \in Int
      BY <1>1
    <2> HIDE DEF J
    <2>2. \A i \in J : RankIn(J, i) \in Int
      BY <1>2, <1>6
    <2> TAKE i, j \in J
    <2>3. i \in Int /\ j \in Int /\ RankIn(J, i) \in Int /\ RankIn(J, j) \in Int
      BY <2>1, <2>2
    <2>4. (i < j => RankIn(J, i) < RankIn(J, j)) /\ (j < i => RankIn(J, j) < RankIn(J, i))
      BY <1>6
    <2> QED  BY <2>3, <2>4
  <1>8. \A a \in 1 .. c : PlaceOf(J)[a] = PlaceOf(K)[a]
    <2> TAKE a \in 1 .. c
    <2>1. \E i \in K : RankIn(K, i) = a
      BY <1>1, RankFacts
    <2>2. PlaceOf(K)[a] \in K /\ RankIn(K, PlaceOf(K)[a]) = a
      BY <2>1 DEF PlaceOf
    <2>3. a \in 1 .. c + 1
      BY <1>2
    <2>4. \E i \in J : RankIn(J, i) = a
      BY <1>5, <2>2
    <2>5. PlaceOf(J)[a] \in J /\ RankIn(J, PlaceOf(J)[a]) = a
      BY <1>4, <2>3, <2>4 DEF PlaceOf
    <2> QED  BY <1>5, <1>7, <2>2, <2>5
  <1>9. PlaceOf(J)[c + 1] = n + 1
    <2>1. c + 1 \in 1 .. c + 1 /\ n + 1 \in J
      BY <1>2
    <2>2. PlaceOf(J)[c + 1] \in J /\ RankIn(J, PlaceOf(J)[c + 1]) = c + 1
      BY <1>4, <1>5, <2>1 DEF PlaceOf
    <2> QED  BY <1>5, <1>7, <2>1, <2>2
  <1>10. /\ PickAt(s, K) \in Seq(S) /\ Len(PickAt(s, K)) = c
         /\ \A a \in 1 .. c : PickAt(s, K)[a] = s[PlaceOf(K)[a]]
    BY <1>1, PickAtFacts
  <1>11. /\ PickAt(s, J) \in Seq(S) /\ Len(PickAt(s, J)) = c + 1
         /\ \A a \in 1 .. c + 1 : PickAt(s, J)[a] = s[PlaceOf(J)[a]]
    <2> HIDE DEF J
    <2>1. /\ PickAt(s, J) \in Seq(S) /\ Len(PickAt(s, J)) = Cardinality(J)
          /\ \A a \in 1 .. Cardinality(J) : PickAt(s, J)[a] = s[PlaceOf(J)[a]]
      BY <1>1, PickAtFacts
    <2> QED  BY <1>4, <2>1
  <1> DEFINE p == PickAt(s, K)
             q == PickAt(s, J)
             e == s[n + 1]
  <1>12. e \in S
    BY <1>1
  <1>13. /\ Append(p, e) \in Seq(S) /\ Len(Append(p, e)) = c + 1
         /\ \A a \in 1 .. c : Append(p, e)[a] = p[a]
         /\ Append(p, e)[c + 1] = e
    BY <1>10, <1>12, AppendProperties
  <1>14. \A a \in 1 .. c + 1 : q[a] = Append(p, e)[a]
    <2> TAKE a \in 1 .. c + 1
    <2>1. a \in 1 .. c \/ a = c + 1
      BY <1>2
    <2>2. a \in 1 .. c => q[a] = p[a] /\ Append(p, e)[a] = p[a]
      BY <1>8, <1>10, <1>11, <1>13, ZenonT(40)
    <2>3. q[c + 1] = e /\ Append(p, e)[c + 1] = e
      <3>1. c + 1 \in 1 .. c + 1
        BY <1>2
      <3> QED  BY <1>9, <1>11, <1>13, <3>1
    <2> QED  BY <2>1, <2>2, <2>3
  <1> HIDE DEF p, q, e
  <1>15. q = Append(p, e)
    BY <1>11, <1>13, <1>14, SeqEqual DEF p, q
  <1> QED  BY <1>15 DEF p, q, e

(* Places with different elements make a list without repetition.            *)
LEMMA PickInjective ==
  ASSUME NEW S, NEW s \in Seq(S), NEW K \in SUBSET (1 .. Len(s)),
         \A i, j \in K : s[i] = s[j] => i = j
  PROVE  IsInjective(PickAt(s, K))
  <1> DEFINE c == Cardinality(K)
             p == PickAt(s, K)
             at == PlaceOf(K)
  <1>1. /\ c \in Nat /\ p \in Seq(S) /\ Len(p) = c
        /\ \A a \in 1 .. c : p[a] = s[at[a]]
    BY PickAtFacts
  <1>2. /\ at \in [1 .. c -> K]
        /\ \A a, b \in 1 .. c : a < b => at[a] < at[b]
    BY PlacesFacts
  <1>3. \A a, b \in 1 .. c : p[a] = p[b] => a = b
    <2> TAKE a, b \in 1 .. c
    <2>1. at[a] \in K /\ at[b] \in K /\ at[a] \in Int /\ at[b] \in Int /\ a \in Int /\ b \in Int
      BY <1>1, <1>2
    <2>2. p[a] = p[b] => at[a] = at[b]
      BY <1>1, <2>1
    <2> QED  BY <1>2, <2>1, <2>2
  <1>4. DOMAIN p = 1 .. c
    BY <1>1
  <1> QED  BY <1>3, <1>4 DEF IsInjective

(* Places up to one, and then places past it.                                *)
LEMMA PickConcat ==
  ASSUME NEW S, NEW s \in Seq(S), NEW a \in 0 .. Len(s),
         NEW K \in SUBSET (1 .. a), NEW L \in SUBSET ((a + 1) .. Len(s))
  PROVE  PickAt(s, K \cup L) = PickAt(s, K) \o PickAt(s, L)
  <1> DEFINE b == Len(s)
             m == b
             M(d) == L \cap (1 .. a + d)
             Good(d) == PickAt(s, K \cup M(d)) = PickAt(s, K) \o PickAt(s, M(d))
             T == {d \in Nat : a + d <= b => Good(d)}
  <1>1. /\ m \in Nat /\ a \in Nat /\ a <= b /\ K \in SUBSET (1 .. m)
        /\ \A d \in Nat : a + d <= b => M(d) \in SUBSET (1 .. a + d) /\ M(d) \in SUBSET (1 .. m)
    OBVIOUS
  <1>2. PickAt(s, K) \in Seq(S)
    BY <1>1, PickAtFacts
  <1>3. Good(0)
    <2>1. M(0) = {}
      OBVIOUS
    <2>2. PickAt(s, {}) = <<>>
      <3>1. Cardinality({}) = 0
        BY FS_EmptySet
      <3> QED  BY <3>1 DEF PickAt
    <2>3. PickAt(s, K) \o <<>> = PickAt(s, K)
      BY <1>2, ConcatEmptySeq
    <2>4. K \cup M(0) = K
      BY <2>1
    <2> HIDE DEF M
    <2> QED  BY <2>1, <2>2, <2>3, <2>4
  <1>4. ASSUME NEW d \in Nat, a + (d + 1) <= b, Good(d)
        PROVE  Good(d + 1)
    <2> DEFINE n == a + d
               p == PickAt(s, K)
               q == PickAt(s, M(d))
    <2>1. n \in Nat /\ n < m /\ n + 1 <= b /\ n + 1 > a
      BY <1>1, <1>4
    <2>2. M(d) \in SUBSET (1 .. n) /\ M(d) \in SUBSET (1 .. m) /\ K \cup M(d) \in SUBSET (1 .. n)
      BY <1>1, <2>1
    <2>3. M(d + 1) = IF n + 1 \in L THEN M(d) \cup {n + 1} ELSE M(d)
      BY <2>1
    <2>4. q \in Seq(S) /\ p \in Seq(S)
      BY <1>1, <1>2, <2>2, PickAtFacts
    <2> HIDE DEF M
    <2>5. CASE n + 1 \in L
      <3>1. /\ PickAt(s, (K \cup M(d)) \cup {n + 1}) = Append(PickAt(s, K \cup M(d)), s[n + 1])
            /\ PickAt(s, M(d) \cup {n + 1}) = Append(PickAt(s, M(d)), s[n + 1])
        BY <2>1, <2>2, PickNext
      <3>2. K \cup M(d + 1) = (K \cup M(d)) \cup {n + 1}
        BY <2>3, <2>5
      <3>3. s[n + 1] \in S
        BY <2>1
      <3>4. Append(p \o q, s[n + 1]) = p \o Append(q, s[n + 1])
        <4> HIDE DEF p, q, n
        <4> DEFINE e == s[n + 1]
        <4>1. e \in S
          BY <3>3
        <4> HIDE DEF e
        <4>2. <<e>> \in Seq(S) /\ p \o q \in Seq(S)
          BY <2>4, <4>1, ConcatAt
        <4>3. Append(p \o q, e) = (p \o q) \o <<e>> /\ Append(q, e) = q \o <<e>>
          BY <2>4, <4>1, <4>2, AppendProperties, AppendIsConcat
        <4> QED  BY <2>4, <4>1, <4>2, <4>3, ConcatAssociative, SMTT(40) DEF e
      <3> QED  BY <1>4, <2>3, <2>5, <3>1, <3>2, <3>4
    <2>6. CASE n + 1 \notin L
      BY <1>4, <2>3, <2>6
    <2> QED  BY <2>5, <2>6
  <1>5. T = Nat
    <2> HIDE DEF Good
    <2>1. T \subseteq Nat /\ 0 \in T
      BY <1>3
    <2>2. ASSUME NEW d \in T PROVE d + 1 \in T
      BY <1>4, <2>2
    <2> HIDE DEF T
    <2> QED  BY <2>1, <2>2, NatSetInduction
  <1> DEFINE e == b - a
  <1>6. e \in Nat /\ a + e = b
    OBVIOUS
  <1>7. M(e) = L
    <2> HIDE DEF e
    <2>1. M(e) = L \cap (1 .. b)
      BY <1>6
    <2>2. ASSUME NEW x \in L PROVE x \in 1 .. b
      <3>1. x \in (a + 1) .. b
        OBVIOUS
      <3> QED  BY <3>1
    <2> QED  BY <2>1, <2>2
  <1>8. Good(e)
    <2> HIDE DEF Good, e
    <2> QED  BY <1>5, <1>6
  <1> HIDE DEF M, e
  <1> QED  BY <1>7, <1>8

(* The lists joined, by what is joined of them so far.                       *)
LEMMA FlattenBy ==
  ASSUME NEW S, NEW seqs \in Seq(Seq(S)), NEW g, g[0] = <<>>,
         \A i \in 1 .. Len(seqs) : g[i] = g[i - 1] \o seqs[i]
  PROVE  FlattenSeq(seqs) = g[Len(seqs)]
  <1> DEFINE m == Len(seqs)
  <1>1. m \in Nat
    OBVIOUS
  <1>2. CASE m = 0
    <2>1. seqs = <<>>
      BY <1>2, EmptySeq
    <2>2. FlattenSeq(seqs) = seqs
      BY <1>2 DEF FlattenSeq
    <2> QED  BY <1>2, <2>1, <2>2
  <1>3. CASE m # 0
    <2>1. PICK f : Joining(f, seqs)
      BY JoiningExists
    <2>2. PICK h : Joining(h, seqs) /\ FlattenSeq(seqs) = h[m]
      BY <1>3, <2>1, FlattenAs
    <2> DEFINE T == {n \in Nat : n + 1 <= m => h[n + 1] = g[n + 1]}
    <2>3. 0 \in T
      <3>1. g[1] = <<>> \o seqs[1]
        <4>1. 1 \in 1 .. Len(seqs) /\ 1 - 1 = 0
          BY <1>1, <1>3
        <4>2. g[1] = g[1 - 1] \o seqs[1]
          BY <4>1
        <4> QED  BY <4>1, <4>2
      <3>2. seqs[1] \in Seq(S)
        BY <1>1, <1>3
      <3>3. h[1] = seqs[1]
        BY <1>1, <1>3, <2>2 DEF Joining
      <3>4. <<>> \o seqs[1] = seqs[1]
        BY <3>2, ConcatEmptySeq
      <3>5. h[0 + 1] = g[0 + 1]
        BY <3>1, <3>3, <3>4
      <3> QED  BY <3>5
    <2>4. ASSUME NEW n \in T PROVE n + 1 \in T
      <3> SUFFICES ASSUME (n + 1) + 1 <= m PROVE h[(n + 1) + 1] = g[(n + 1) + 1]
        OBVIOUS
      <3>1. h[n + 1] = g[n + 1] /\ (n + 1) + 1 \in 1 .. m /\ (n + 1) + 1 # 1 /\ ((n + 1) + 1) - 1 = n + 1
        BY <1>1, <2>4
      <3>2. h[(n + 1) + 1] = h[n + 1] \o seqs[(n + 1) + 1]
        BY <3>1, <2>2 DEF Joining
      <3> QED  BY <3>1, <3>2
    <2>5. T \subseteq Nat
      OBVIOUS
    <2> HIDE DEF T
    <2>6. T = Nat
      BY <2>3, <2>4, <2>5, NatSetInduction
    <2>7. m - 1 \in T /\ (m - 1) + 1 = m
      BY <1>1, <1>3, <2>6
    <2> QED  BY <2>2, <2>7 DEF T
  <1> QED  BY <1>2, <1>3

(* A list put behind another is cut off again at its end.                  *)
LEMMA CutConcat ==
  ASSUME NEW S, NEW p \in Seq(S), NEW q \in Seq(S)
  PROVE  SubSeq(p \o q, 1, Len(p)) = p /\ SubSeq(p \o q, Len(p) + 1, Len(p \o q)) = q
  <1> DEFINE c == p \o q
             n == Len(p)
             a == SubSeq(c, 1, n)
             b == SubSeq(c, n + 1, Len(c))
  <1>1. /\ c \in Seq(S) /\ Len(c) = n + Len(q) /\ n \in Nat /\ Len(q) \in Nat
        /\ (\A j \in 1 .. n : c[j] = p[j]) /\ \A j \in 1 .. Len(q) : c[n + j] = q[j]
    BY ConcatAt
  <1> HIDE DEF c, n
  <1>2. n \in 0 .. Len(c)
    BY <1>1
  <1>3. /\ a \in Seq(S) /\ Len(a) = n /\ \A j \in 1 .. n : a[j] = c[j]
        /\ b \in Seq(S) /\ Len(b) = Len(c) - n /\ \A j \in 1 .. Len(c) - n : b[j] = c[n + j]
    BY <1>1, <1>2, SplitAt
  <1>4. Len(c) - n = Len(q)
    BY <1>1
  <1> HIDE DEF a, b
  <1>5. Len(a) = Len(p) /\ \A j \in 1 .. Len(a) : a[j] = p[j]
    BY <1>1, <1>3 DEF n
  <1>6. Len(b) = Len(q) /\ \A j \in 1 .. Len(b) : b[j] = q[j]
    BY <1>1, <1>3, <1>4
  <1>7. a = p
    BY ONLY <1>3, <1>5, SeqEqual
  <1>8. b = q
    BY ONLY <1>3, <1>6, SeqEqual
  <1> QED  BY <1>7, <1>8 DEF a, b, c, n

(* Naturals, one for each member of a finite set, have a bound.            *)
LEMMA BoundedList ==
  ASSUME NEW n \in Nat, NEW h \in [1 .. n -> Nat]
  PROVE  \E b \in Nat : \A i \in 1 .. n : h[i] <= b
  <1> DEFINE T == {m \in Nat : m > n \/ \E b \in Nat : \A i \in 1 .. m : h[i] <= b}
  <1>1. 0 \in T
    OBVIOUS
  <1>2. ASSUME NEW m \in T PROVE m + 1 \in T
    <2>1. CASE m + 1 > n
      BY <2>1
    <2>2. CASE m + 1 <= n
      <3>1. PICK b \in Nat : \A i \in 1 .. m : h[i] <= b
        BY <2>2
      <3>2. h[m + 1] \in Nat
        BY <2>2
      <3>3. \A i \in 1 .. m + 1 : h[i] <= b + h[m + 1]
        <4>1. ASSUME NEW i \in 1 .. m + 1 PROVE h[i] <= b + h[m + 1]
          <5>1. h[i] \in Nat /\ (i \in 1 .. m \/ i = m + 1)
            BY <2>2
          <5> QED  BY <3>1, <3>2, <5>1
        <4> QED  BY <4>1
      <3>4. b + h[m + 1] \in Nat
        BY <3>2
      <3> QED  BY <3>3, <3>4, SMTT(40)
    <2> QED  BY <2>1, <2>2
  <1>3. T \subseteq Nat
    OBVIOUS
  <1>4. T = Nat
    <2> HIDE DEF T
    <2> QED  BY <1>1, <1>2, <1>3, NatSetInduction
  <1>5. n \in T
    <2> HIDE DEF T
    <2> QED  BY <1>4
  <1>6. ~(n > n)
    OBVIOUS
  <1> QED  BY ONLY <1>5, <1>6

LEMMA BoundedFamily ==
  ASSUME NEW S, IsFiniteSet(S), NEW h \in [S -> Nat]
  PROVE  \E b \in Nat : \A x \in S : h[x] <= b
  <1>1. PICK n \in Nat : ExistsSurjection(1 .. n, S)
    BY FS_NatSurjection
  <1>2. PICK g \in [1 .. n -> S] : \A x \in S : \E i \in 1 .. n : g[i] = x
    BY <1>1 DEF ExistsSurjection, Surjection
  <1> DEFINE k == [i \in 1 .. n |-> h[g[i]]]
  <1>3. k \in [1 .. n -> Nat]
    OBVIOUS
  <1>4. PICK b \in Nat : \A i \in 1 .. n : k[i] <= b
    <2> HIDE DEF k
    <2> QED  BY <1>3, BoundedList
  <1> QED  BY <1>2, <1>4

(* A sum of naturals is one.                                               *)
LEMMA SumFacts ==
  ASSUME NEW K, IsFiniteSet(K), NEW f, \A i \in K : f[i] \in Nat
  PROVE  SumOver(f, K) \in Nat
  <1> DEFINE Elem(s) == CHOOSE x \in s : TRUE
             Sums(g, P) == g = [s \in P |-> IF s = {} THEN 0
                                           ELSE f[Elem(s)] + g[s \ {Elem(s)}]]
             Small(n) == {s \in SUBSET K : Cardinality(s) <= n}
             T == {n \in Nat : \E g \in [Small(n) -> Nat] : Sums(g, Small(n))}
  <1>1. \A s \in SUBSET K : IsFiniteSet(s) /\ Cardinality(s) \in Nat /\ Cardinality(s) <= Cardinality(K)
    BY FS_Subset, FS_CardinalityType
  <1>2. \A s \in SUBSET K : s # {} => /\ Elem(s) \in s /\ s \ {Elem(s)} \in SUBSET K
                                      /\ Cardinality(s \ {Elem(s)}) = Cardinality(s) - 1
                                      /\ f[Elem(s)] \in Nat
    <2>1. ASSUME NEW s \in SUBSET K, s # {} PROVE Elem(s) \in s
      BY <2>1
    <2> HIDE DEF Elem
    <2> QED  BY <1>1, <2>1, FS_RemoveElement
  <1> HIDE DEF Elem
  <1>3. 0 \in T
    <2> DEFINE g == [s \in Small(0) |-> 0]
    <2>1. \A s \in Small(0) : s = {}
      BY <1>1, FS_EmptySet
    <2>2. g \in [Small(0) -> Nat] /\ Sums(g, Small(0))
      <3> HIDE DEF Small
      <3> QED  BY <2>1
    <2> QED  BY <2>2
  <1>4. ASSUME NEW n \in T PROVE n + 1 \in T
    <2>1. PICK g \in [Small(n) -> Nat] : Sums(g, Small(n))
      OBVIOUS
    <2> DEFINE h == [s \in Small(n + 1) |-> IF s = {} THEN 0 ELSE f[Elem(s)] + g[s \ {Elem(s)}]]
    <2>2. ASSUME NEW s \in Small(n + 1), s # {}
          PROVE  s \ {Elem(s)} \in Small(n) /\ f[Elem(s)] \in Nat
      BY <1>1, <1>2, <2>2
    <2>3. \A s \in Small(n) : s \in Small(n + 1)
      BY <1>1
    <2> HIDE DEF Small
    <2>4. h \in [Small(n + 1) -> Nat]
      BY <2>2
    <2>5. \A s \in Small(n) : h[s] = g[s]
      BY <2>1, <2>3
    <2>6. Sums(h, Small(n + 1))
      BY <2>2, <2>5
    <2>7. n + 1 \in Nat
      OBVIOUS
    <2> HIDE DEF h, Sums
    <2> QED  BY <2>4, <2>6, <2>7
  <1>5. T = Nat
    <2> HIDE DEF Sums, Small
    <2>1. T \subseteq Nat
      OBVIOUS
    <2> HIDE DEF T
    <2> QED  BY <1>3, <1>4, <2>1, NatSetInduction
  <1>6. PICK g \in [SUBSET K -> Nat] : Sums(g, SUBSET K)
    <2>1. Cardinality(K) \in T /\ Small(Cardinality(K)) = SUBSET K
      BY <1>1, <1>5
    <2> HIDE DEF Sums, Small
    <2> QED  BY <2>1
  <1> DEFINE whole == CHOOSE h : Sums(h, SUBSET K)
  <1>7. Sums(whole, SUBSET K)
    <2> HIDE DEF Sums
    <2> QED  BY <1>6
  <1>8. SumOver(f, K) = whole[K]
    BY DEF SumOver, MapThenSumSet, MapThenFoldSet, Elem
  <1> HIDE DEF whole
  <1> DEFINE U == {n \in Nat : \A s \in SUBSET K : Cardinality(s) <= n => whole[s] = g[s]}
  <1>9. 0 \in U
    <2>1. \A s \in SUBSET K : Cardinality(s) <= 0 => s = {}
      BY <1>1, FS_EmptySet
    <2>2. whole[{}] = 0 /\ g[{}] = 0
      BY <1>6, <1>7
    <2> QED  BY <2>1, <2>2
  <1>10. ASSUME NEW n \in U PROVE n + 1 \in U
    <2> SUFFICES ASSUME NEW s \in SUBSET K, Cardinality(s) <= n + 1
                 PROVE  whole[s] = g[s]
      OBVIOUS
    <2>1. CASE s = {}
      BY <1>6, <1>7, <2>1
    <2>2. CASE s # {}
      <3> DEFINE r == s \ {Elem(s)}
      <3>1. r \in SUBSET K /\ Cardinality(r) <= n
        BY <1>1, <1>2, <2>2
      <3>2. whole[r] = g[r]
        BY <3>1
      <3>3. whole[s] = f[Elem(s)] + whole[r] /\ g[s] = f[Elem(s)] + g[r]
        BY <1>6, <1>7, <2>2
      <3> HIDE DEF r
      <3> QED  BY <3>2, <3>3
    <2> QED  BY <2>1, <2>2
  <1>11. U = Nat
    <2>1. U \subseteq Nat
      OBVIOUS
    <2> HIDE DEF U
    <2> QED  BY <1>9, <1>10, <2>1, NatSetInduction
  <1>12. whole[K] = g[K]
    BY <1>1, <1>11, FS_CardinalityType
  <1> QED  BY <1>6, <1>8, <1>12

(* How often one number goes into another.                                   *)
LEMMA DivFacts ==
  ASSUME NEW n \in Nat, NEW d \in Nat \ {0}
  PROVE  /\ n \div d \in Nat /\ d * (n \div d) <= n /\ n < d * (n \div d) + d
         /\ n % d \in 0 .. d - 1 /\ n = d * (n \div d) + (n % d)
  OBVIOUS

(* There is only one way to divide: two places in rows of d.                 *)
LEMMA DivUnique ==
  ASSUME NEW d \in Nat \ {0}, NEW a \in Nat, NEW b \in Nat, NEW x \in 1 .. d, NEW y \in 1 .. d
  PROVE  d * a + x = d * b + y => a = b /\ x = y
  <1>1. ASSUME NEW i \in Nat, NEW j \in Nat, NEW u \in 1 .. d, NEW v \in 1 .. d, i < j
        PROVE  d * i + u # d * j + v
    <2>1. j - i - 1 \in Nat
      BY <1>1
    <2> DEFINE k == j - i - 1
    <2>2. d * j = d * i + d + d * k
      BY <1>1
    <2>3. d * k \in Nat /\ d * i \in Nat /\ d * j \in Nat
      BY <1>1, <2>1
    <2> DEFINE e == d * k
               f == d * i
               g == d * j
    <2>4. e \in Nat /\ f \in Nat /\ g = f + d + e /\ u \in 1 .. d /\ v \in 1 .. d
      BY <2>2, <2>3
    <2> HIDE DEF e, f, g
    <2>5. f + u # g + v
      BY ONLY <2>4, d \in Nat
    <2> QED  BY <2>5 DEF f, g
  <1>2. ~(a < b) /\ ~(b < a) => a = b
    OBVIOUS
  <1>3. a = b => (d * a + x = d * b + y => x = y)
    OBVIOUS
  <1> QED  BY <1>1, <1>2, <1>3

(* Where the lists stand in what they are joined to.                         *)
LEMMA FlattenPlaces ==
  ASSUME NEW S, NEW seqs \in Seq(Seq(S))
  PROVE  \E start \in [1 .. Len(seqs) + 1 -> Nat] :
           /\ start[1] = 0 /\ start[Len(seqs) + 1] = Len(FlattenSeq(seqs))
           /\ \A k \in 1 .. Len(seqs) : start[k + 1] = start[k] + Len(seqs[k])
           /\ \A k \in 1 .. Len(seqs) : \A x \in 1 .. Len(seqs[k]) :
                 /\ start[k] + x \in 1 .. Len(FlattenSeq(seqs))
                 /\ FlattenSeq(seqs)[start[k] + x] = seqs[k][x]
           /\ \A i \in 1 .. Len(FlattenSeq(seqs)) : \E k \in 1 .. Len(seqs) :
                 i - start[k] \in 1 .. Len(seqs[k])
  <1> DEFINE m == Len(seqs)
  <1>1. m \in Nat /\ \A k \in 1 .. m : seqs[k] \in Seq(S)
    OBVIOUS
  <1>2. PICK h : Joining(h, seqs)
    BY JoiningExists
  <1> DEFINE g == [k \in 0 .. m |-> IF k = 0 THEN <<>> ELSE h[k]]
             start == [k \in 1 .. m + 1 |-> Len(g[k - 1])]
             Stand(n) == /\ g[n] \in Seq(S)
                         /\ \A k \in 1 .. n : \A x \in 1 .. Len(seqs[k]) :
                               /\ Len(g[k - 1]) + x \in 1 .. Len(g[n])
                               /\ g[n][Len(g[k - 1]) + x] = seqs[k][x]
                         /\ \A i \in 1 .. Len(g[n]) : \E k \in 1 .. n :
                               i - Len(g[k - 1]) \in 1 .. Len(seqs[k])
             T == {n \in Nat : n <= m => Stand(n)}
  <1>3. ASSUME NEW k \in 1 .. m PROVE g[k - 1] \in Seq(S) => g[k] = g[k - 1] \o seqs[k]
    <2>1. h[k] = IF k = 1 THEN seqs[k] ELSE h[k - 1] \o seqs[k]
      BY <1>2 DEF Joining
    <2>2. g[k] = h[k] /\ (k = 1 => g[k - 1] = <<>>) /\ (k # 1 => g[k - 1] = h[k - 1])
      BY <1>1
    <2>3. <<>> \o seqs[k] = seqs[k]
      BY <1>1, ConcatEmptySeq
    <2> QED  BY <2>1, <2>2, <2>3
  <1>4. g[0] = <<>>
    BY <1>1
  <1> HIDE DEF g
  <1>5. 0 \in T
    <2>1. Stand(0)
      BY <1>4
    <2> QED  BY <2>1
  <1>6. ASSUME NEW n \in T PROVE n + 1 \in T
    <2> SUFFICES ASSUME n + 1 <= m PROVE Stand(n + 1)
      OBVIOUS
    <2> DEFINE p == g[n]
               q == seqs[n + 1]
               a == Len(p)
               b == Len(q)
    <2>1. Stand(n) /\ n \in Nat /\ n + 1 \in 1 .. m /\ (n + 1) - 1 = n
      BY <1>1
    <2>2. p \in Seq(S) /\ q \in Seq(S) /\ g[n + 1] = p \o q
      BY <1>1, <1>3, <2>1
    <2>3. /\ g[n + 1] \in Seq(S) /\ Len(g[n + 1]) = a + b /\ a \in Nat /\ b \in Nat
          /\ \A j \in 1 .. a : g[n + 1][j] = p[j]
          /\ \A j \in 1 .. b : g[n + 1][a + j] = q[j]
      <3> HIDE DEF p, q
      <3> QED  BY <2>2, ConcatAt
    <2>4. ASSUME NEW k \in 1 .. n + 1, NEW x \in 1 .. Len(seqs[k])
          PROVE  /\ Len(g[k - 1]) + x \in 1 .. Len(g[n + 1])
                 /\ g[n + 1][Len(g[k - 1]) + x] = seqs[k][x]
      <3>1. CASE k \in 1 .. n
        <4> DEFINE y == Len(g[k - 1]) + x
        <4>1. y \in 1 .. a /\ p[y] = seqs[k][x]
          BY <2>1, <3>1
        <4> HIDE DEF y, a, p
        <4>2. y \in 1 .. a + b /\ g[n + 1][y] = seqs[k][x]
          BY <2>3, <4>1
        <4> QED  BY <2>3, <4>2 DEF y
      <3>2. CASE k = n + 1
        <4>1. k - 1 = n /\ Len(g[k - 1]) = a /\ seqs[k] = q /\ x \in 1 .. b
          BY <2>1, <3>2
        <4> HIDE DEF a, b, p, q
        <4>2. a + x \in 1 .. a + b
          BY <2>3, <4>1
        <4> QED  BY <2>3, <4>1, <4>2
      <3> QED  BY <2>1, <2>4, <3>1, <3>2
    <2>5. ASSUME NEW i \in 1 .. Len(g[n + 1])
          PROVE  \E k \in 1 .. n + 1 : i - Len(g[k - 1]) \in 1 .. Len(seqs[k])
      <3>1. CASE i \in 1 .. a
        <4>1. PICK k \in 1 .. n : i - Len(g[k - 1]) \in 1 .. Len(seqs[k])
          BY <2>1, <3>1
        <4>2. k \in 1 .. n + 1
          BY <2>1
        <4> QED  BY <4>1, <4>2
      <3>2. CASE i - a \in 1 .. b
        <4>1. n + 1 \in 1 .. n + 1
          BY <2>1
        <4> QED  BY <2>1, <3>2, <4>1
      <3> HIDE DEF a, b
      <3>3. i \in 1 .. a + b
        BY <2>3
      <3> QED  BY <2>3, <3>1, <3>2, <3>3
    <2> QED  BY <2>3, <2>4, <2>5
  <1>7. \A n \in 0 .. m : Stand(n)
    <2>1. T \subseteq Nat
      OBVIOUS
    <2> HIDE DEF Stand
    <2>2. T = Nat
      <3> HIDE DEF T
      <3> QED  BY <1>5, <1>6, <2>1, NatSetInduction
    <2> QED  BY <1>1, <2>2
  <1>8. FlattenSeq(seqs) = g[m]
    <2>1. ASSUME NEW k \in 1 .. m PROVE g[k] = g[k - 1] \o seqs[k]
      <3>1. k - 1 \in 0 .. m
        BY <1>1
      <3>2. g[k - 1] \in Seq(S)
        BY <1>7, <3>1
      <3> QED  BY <1>3, <3>2
    <2> QED  BY <1>4, <2>1, FlattenBy
  <1>9. start \in [1 .. m + 1 -> Nat]
    <2>1. \A k \in 1 .. m + 1 : k - 1 \in 0 .. m
      BY <1>1
    <2>2. \A k \in 0 .. m : Len(g[k]) \in Nat
      BY <1>7
    <2> QED  BY <2>1, <2>2
  <1>10. /\ start[1] = 0 /\ start[m + 1] = Len(g[m])
         /\ \A k \in 1 .. m : start[k] = Len(g[k - 1]) /\ start[k + 1] = Len(g[k])
    <2>1. /\ 1 \in 1 .. m + 1 /\ 1 - 1 = 0 /\ m + 1 \in 1 .. m + 1 /\ (m + 1) - 1 = m
          /\ \A k \in 1 .. m : /\ k \in 1 .. m + 1 /\ k + 1 \in 1 .. m + 1
                               /\ (k + 1) - 1 = k
      BY <1>1
    <2>2. Len(g[0]) = 0
      BY <1>4
    <2> QED  BY <2>1, <2>2
  <1>11. \A k \in 1 .. m : start[k + 1] = start[k] + Len(seqs[k])
    <2> TAKE k \in 1 .. m
    <2>1. k - 1 \in 0 .. m
      BY <1>1
    <2>2. g[k - 1] \in Seq(S) /\ seqs[k] \in Seq(S)
      BY <1>1, <1>7, <2>1
    <2>3. Len(g[k - 1] \o seqs[k]) = Len(g[k - 1]) + Len(seqs[k])
      BY <2>2, ConcatAt
    <2> QED  BY <1>3, <1>10, <2>2, <2>3
  <1>12. Stand(m)
    BY <1>1, <1>7
  <1> HIDE DEF start
  <1>13. /\ \A k \in 1 .. m : \A x \in 1 .. Len(seqs[k]) :
              start[k] + x \in 1 .. Len(g[m]) /\ g[m][start[k] + x] = seqs[k][x]
         /\ \A i \in 1 .. Len(g[m]) : \E k \in 1 .. m : i - start[k] \in 1 .. Len(seqs[k])
    BY <1>10, <1>12, ZenonT(40)
  <1>14. /\ start[1] = 0 /\ start[m + 1] = Len(FlattenSeq(seqs))
         /\ \A k \in 1 .. m : start[k + 1] = start[k] + Len(seqs[k])
         /\ \A k \in 1 .. m : \A x \in 1 .. Len(seqs[k]) :
               /\ start[k] + x \in 1 .. Len(FlattenSeq(seqs))
               /\ FlattenSeq(seqs)[start[k] + x] = seqs[k][x]
         /\ \A i \in 1 .. Len(FlattenSeq(seqs)) : \E k \in 1 .. m :
               i - start[k] \in 1 .. Len(seqs[k])
    BY <1>8, <1>10, <1>11, <1>13
  <1> QED  BY <1>9, <1>14

(* How many of the picked are at places of a set.                            *)
LEMMA PickCount ==
  ASSUME NEW m \in Nat, NEW K \in SUBSET (1 .. m), NEW T \in SUBSET K
  PROVE  Cardinality({a \in 1 .. Cardinality(K) : PlaceOf(K)[a] \in T}) = Cardinality(T)
  <1> DEFINE c == Cardinality(K)
             at == PlaceOf(K)
             A == {a \in 1 .. c : at[a] \in T}
             f == [a \in A |-> at[a]]
  <1>1. /\ c \in Nat /\ at \in [1 .. c -> K]
        /\ \A a, b \in 1 .. c : a < b => at[a] < at[b]
        /\ \A k \in K : \E a \in 1 .. c : at[a] = k
    BY PlacesFacts
  <1>n. \A k \in K : k \in Int
    OBVIOUS
  <1> HIDE DEF at, c
  <1>2. IsFiniteSet(A)
    <2>1. A \subseteq 1 .. c
      OBVIOUS
    <2> HIDE DEF A
    <2> QED  BY <1>1, <2>1, PlacesOfList, FS_Subset
  <1>3. f \in Bijection(A, T)
    <2>1. f \in [A -> T]
      OBVIOUS
    <2>2. ASSUME NEW a \in A, NEW b \in A, f[a] = f[b] PROVE a = b
      <3>1. a \in 1 .. c /\ b \in 1 .. c /\ at[a] = at[b] /\ at[a] \in K
        BY <1>1, <2>2
      <3>2. at[a] \in Int
        BY <1>n, <3>1
      <3>3. ~(a < b) /\ ~(b < a)
        BY <1>1, <3>1, <3>2
      <3> QED  BY <1>1, <3>1, <3>3
    <2>3. \A k \in T : \E a \in A : f[a] = k
      BY <1>1
    <2> HIDE DEF f, A
    <2>4. f \in Injection(A, T)
      BY <2>1, <2>2 DEF Injection, IsInjective
    <2> QED  BY <2>1, <2>3, <2>4 DEF Bijection, Surjection
  <1> HIDE DEF f, A
  <1>4. Cardinality(A) = Cardinality(T)
    BY <1>2, <1>3, FS_Bijection DEF ExistsBijection
  <1> QED  BY <1>4 DEF A, at, c

(* A part of a list.                                                         *)
LEMMA CutAt ==
  ASSUME NEW S, NEW q \in Seq(S), NEW a \in Nat, NEW n \in Nat, a + n <= Len(q)
  PROVE  /\ SubSeq(q, a + 1, a + n) \in Seq(S) /\ Len(SubSeq(q, a + 1, a + n)) = n
         /\ \A x \in 1 .. n : SubSeq(q, a + 1, a + n)[x] = q[a + x]
  <1> DEFINE b == a + 1
             d == a + n
             s == SubSeq(q, b, d)
             k == Len(q)
  <1>1. /\ k \in Nat /\ b \in Int /\ d \in Int /\ d <= k /\ b >= 1
        /\ \A i \in 1 .. k : q[i] \in S
    OBVIOUS
  <1>2. \A i \in b .. d : q[i] \in S
    BY <1>1
  <1> HIDE DEF b, d
  <1>3. /\ s \in Seq(S) /\ Len(s) = IF b <= d THEN d - b + 1 ELSE 0
        /\ \A i \in 1 .. d - b + 1 : s[i] = q[b + i - 1]
    BY <1>1, <1>2, SubSeqProperties
  <1> HIDE DEF s, k
  <1>4. (IF b <= d THEN d - b + 1 ELSE 0) = n /\ d - b + 1 = n
        /\ \A x \in 1 .. n : b + x - 1 = a + x
    BY DEF b, d
  <1> QED  BY <1>3, <1>4 DEF s, b, d
=============================================================================
