-------------------------- MODULE ChunkedTts_proofs --------------------------
(***************************************************************************)
(* Theorems about the long-form stream of ChunkedTts: for every number of  *)
(* chunks and every length of each, what was sent is in the order of the   *)
(* text, and a chunk that is over was heard whole.                         *)
(***************************************************************************)
EXTENDS ChunkedTts, SequenceFacts

Pcs == {"boundary", "choose", "exact", "live", "wait", "emitted", "cleanup", "end"}

TypeInv ==
    /\ tasks \in Chunks
    /\ frames \in [Chunks -> Seq(BOOLEAN)]
    /\ done \in [Chunks -> BOOLEAN]
    /\ errors \subseteq Chunks
    /\ evt \in [Chunks -> BOOLEAN]
    /\ buffers \subseteq Chunks
    /\ cur \in Chunks
    /\ pc \in Pcs
    /\ idx \in Nat
    /\ buf \in Seq(Nat) /\ held \in Seq(Nat)
    /\ sent \in BOOLEAN
    /\ out \in Seq(Chunks \X Nat)
    /\ ending \in {"none", "clean", "error", "left"}

Over == {"cleanup", "end"}

(* A producer that failed has ended, and a stream has no ending before the *)
(* clean-up.                                                               *)
EndInv ==
    /\ \A k \in errors : done[k]
    /\ pc \notin Over => ending = "none"

(* Places heard of a chunk in an output.                                   *)
HeardIn(o, k) == {p[2] : p \in {o[i] : i \in {j \in DOMAIN o : o[j][1] = k}}}

Sorted(o) == \A i \in 1 .. Len(o) - 1 : Before(o[i], o[i + 1])

Below(o, p) == \A i \in DOMAIN o : Before(o[i], p)

Whole(k) == done[k] /\ Heard(k) \in Wanted(k)

(* The chunks that are over.                                               *)
PastInv ==
    \A k \in Chunks : k < cur \/ ending = "clean" => Whole(k) /\ k \notin errors

GapOf(k) == IF k > 1 /\ Gap THEN {0} ELSE {}

(* A frame that is not leading silence.                                    *)
Opened(f, i) == ~Normalize \/ \E j \in 1 .. i : f[j]

(* Inside a chunk, the live loop has sent all frames up to Flushed but the *)
(* leading silence; buf holds those up to Reached, the last of them        *)
(* voiced; and what is held behind them is silence.                        *)
Reached == idx - Len(held)
Flushed == Reached - Len(buf)
LiveAt(f) ==
    /\ Flushed \in Nat /\ Reached \in Nat /\ idx <= Len(f)
    /\ buf = Interval(Flushed + 1, Reached)
    /\ held = Interval(Reached + 1, idx)
    /\ Flushed < idx => Opened(f, Flushed + 1)
    /\ Reached < idx => Normalize
    /\ \A i \in Reached + 1 .. idx : ~f[i]
    /\ Reached > 0 /\ Opened(f, Reached) => ~Normalize \/ f[Reached]
    /\ Heard(cur) = GapOf(cur) \cup {i \in 1 .. Flushed : Opened(f, i)}

(* The chunk being emitted.                                                *)
CurInv ==
    /\ pc \in {"choose", "exact"} => Heard(cur) = GapOf(cur)
    /\ pc = "exact" => Exact(cur)
    /\ pc \in {"live", "wait"} => LiveAt(frames[cur])
    /\ pc = "emitted" => Whole(cur)

(* The next place that may be sent.                                        *)
NextPlace ==
    CASE pc = "boundary" -> <<cur, 0>>
      [] pc \in {"choose", "exact"} -> <<cur, 1>>
      [] pc \in {"live", "wait"} -> <<cur, Flushed + 1>>
      [] OTHER -> <<cur + 1, 0>>

OutInv == Sorted(out) /\ Below(out, NextPlace)

ChunkInv == TypeInv /\ EndInv /\ PastInv /\ CurInv /\ OutInv

-----------------------------------------------------------------------------
(* A run of places.                                                        *)
LEMMA IntervalFacts ==
  ASSUME NEW a \in Nat, NEW b \in Int, b >= a - 1
  PROVE  /\ Interval(a, b) \in Seq(Nat)
         /\ Len(Interval(a, b)) = b - a + 1
         /\ DOMAIN Interval(a, b) = 1 .. b - a + 1
         /\ \A i \in 1 .. b - a + 1 : Interval(a, b)[i] = a + i - 1
  <1> DEFINE n == b - a + 1
             s == [i \in 1 .. n |-> a + i - 1]
  <1>1. n \in Nat /\ \A i \in 1 .. n : a + i - 1 \in Nat
    OBVIOUS
  <1> HIDE DEF n
  <1>2. s \in [1 .. n -> Nat]
    BY <1>1
  <1>3. s \in Seq(Nat) /\ Len(s) = n /\ DOMAIN s = 1 .. n
    BY <1>1, <1>2, FunctionSeq
  <1>4. \A i \in 1 .. n : s[i] = a + i - 1
    OBVIOUS
  <1> QED  BY <1>3, <1>4 DEF Interval, n

(* Two runs that meet are one.                                             *)
LEMMA IntervalJoin ==
  ASSUME NEW a \in Nat, NEW m \in Int, NEW b \in Int, m >= a - 1, b >= m
  PROVE  Interval(a, m) \o Interval(m + 1, b) = Interval(a, b)
  <1> DEFINE p == Interval(a, m)
             q == Interval(m + 1, b)
             r == Interval(a, b)
             c == p \o q
  <1>1. /\ p \in Seq(Nat) /\ Len(p) = m - a + 1
        /\ \A i \in 1 .. m - a + 1 : p[i] = a + i - 1
    BY IntervalFacts
  <1>2. /\ q \in Seq(Nat) /\ Len(q) = b - m
        /\ \A i \in 1 .. b - m : q[i] = m + i
    <2>1. m + 1 \in Nat /\ b >= (m + 1) - 1 /\ b - (m + 1) + 1 = b - m
      OBVIOUS
    <2>2. /\ q \in Seq(Nat) /\ Len(q) = b - (m + 1) + 1
          /\ \A i \in 1 .. b - (m + 1) + 1 : q[i] = (m + 1) + i - 1
      BY <2>1, IntervalFacts
    <2> HIDE DEF q
    <2> QED  BY <2>1, <2>2
  <1>3. /\ r \in Seq(Nat) /\ Len(r) = b - a + 1
        /\ \A i \in 1 .. b - a + 1 : r[i] = a + i - 1
    <2>1. b >= a - 1
      OBVIOUS
    <2> QED  BY <2>1, IntervalFacts
  <1> HIDE DEF p, q, r
  <1>4. /\ c \in Seq(Nat) /\ Len(c) = Len(p) + Len(q)
        /\ \A i \in 1 .. Len(p) + Len(q) : c[i] = IF i <= Len(p) THEN p[i] ELSE q[i - Len(p)]
    BY <1>1, <1>2, ConcatProperties
  <1> HIDE DEF c
  <1>5. Len(c) = Len(r)
    BY <1>1, <1>2, <1>3, <1>4
  <1>6. ASSUME NEW i \in 1 .. Len(c) PROVE c[i] = r[i]
    <2>1. i \in 1 .. b - a + 1 /\ i \in 1 .. Len(p) + Len(q) /\ r[i] = a + i - 1
      BY <1>3, <1>4, <1>5, <1>6
    <2>2. CASE i <= m - a + 1
      BY <1>1, <1>4, <2>1, <2>2
    <2>3. CASE ~(i <= m - a + 1)
      <3>1. i - (m - a + 1) \in 1 .. b - m
        BY <2>1, <2>3
      <3>2. c[i] = q[i - (m - a + 1)]
        BY <1>1, <1>4, <2>1, <2>3
      <3> QED  BY <1>2, <2>1, <3>1, <3>2
    <2> QED  BY <2>2, <2>3
  <1>7. c = r
    BY <1>3, <1>4, <1>5, <1>6, SeqEqual
  <1> QED  BY <1>7 DEF p, q, r, c

(* Runs of no place and of one.                                            *)
LEMMA ShortIntervals ==
  ASSUME NEW a \in Nat
  PROVE  /\ Interval(a, a - 1) = <<>>
         /\ Interval(a, a) = <<a>>
  <1>1. /\ Interval(a, a - 1) \in Seq(Nat)
        /\ Len(Interval(a, a - 1)) = (a - 1) - a + 1
    <2>1. a - 1 \in Int /\ a - 1 >= a - 1
      OBVIOUS
    <2> QED  BY <2>1, IntervalFacts
  <1>2. /\ Interval(a, a) \in Seq(Nat) /\ Len(Interval(a, a)) = a - a + 1
        /\ \A i \in 1 .. a - a + 1 : Interval(a, a)[i] = a + i - 1
    <2>1. a \in Int /\ a >= a - 1
      OBVIOUS
    <2> QED  BY <2>1, IntervalFacts
  <1>3. Interval(a, a - 1) = <<>>
    <2> DEFINE s == Interval(a, a - 1)
    <2>1. (a - 1) - a + 1 = 0
      OBVIOUS
    <2>2. s \in Seq(Nat) /\ Len(s) = 0
      BY <1>1, <2>1
    <2> HIDE DEF s
    <2>3. s = <<>>
      BY <2>2, EmptySeq
    <2> QED  BY <2>3 DEF s
  <1>4. Interval(a, a) = <<a>>
    <2> DEFINE s == Interval(a, a)
    <2>1. s \in Seq(Nat) /\ Len(s) = 1 /\ s[1] = a
      BY <1>2
    <2> HIDE DEF s
    <2>2. <<a>> \in Seq(Nat) /\ Len(<<a>>) = 1 /\ <<a>>[1] = a
      OBVIOUS
    <2>3. \A i \in 1 .. Len(s) : s[i] = <<a>>[i]
      BY <2>1, <2>2
    <2>4. s = <<a>>
      BY <2>1, <2>2, <2>3, SeqEqual
    <2> QED  BY <2>4 DEF s
  <1> QED  BY <1>3, <1>4

(* What was heard of a chunk, place by place.                              *)
LEMMA HeardPlaces ==
  ASSUME NEW o, NEW k, NEW n
  PROVE  n \in HeardIn(o, k) <=> \E i \in DOMAIN o : o[i][1] = k /\ o[i][2] = n
  BY DEF HeardIn

(* Comparing with a later place keeps what was below an earlier one.       *)
LEMMA BelowLater ==
  ASSUME NEW o \in Seq(Chunks \X Nat), NEW c \in Nat, NEW a \in Nat, NEW b \in Nat,
         Below(o, <<c, a>>)
  PROVE  /\ a <= b => Below(o, <<c, b>>)
         /\ Below(o, <<c + 1, b>>)
  <1>1. \A i \in DOMAIN o : o[i][1] \in Nat /\ o[i][2] \in Nat
    <2>1. \A i \in DOMAIN o : o[i] \in Chunks \X Nat
      OBVIOUS
    <2> QED  BY <2>1 DEF Chunks
  <1>2. \A i \in DOMAIN o : o[i][1] < c \/ (o[i][1] = c /\ o[i][2] < a)
    BY DEF Below, Before
  <1>3. ASSUME a <= b, NEW i \in DOMAIN o PROVE o[i][1] < c \/ (o[i][1] = c /\ o[i][2] < b)
    BY <1>1, <1>2, <1>3
  <1>4. ASSUME NEW i \in DOMAIN o PROVE o[i][1] < c + 1
    BY <1>1, <1>2
  <1> QED  BY <1>3, <1>4 DEF Below, Before

(* Nothing of a chunk is heard before its first place.                     *)
LEMMA NothingBelow ==
  ASSUME NEW o \in Seq(Chunks \X Nat), NEW c \in Nat, Below(o, <<c, 0>>)
  PROVE  HeardIn(o, c) = {}
  <1>1. \A i \in DOMAIN o : o[i][1] \in Nat /\ o[i][2] \in Nat
    <2>1. \A i \in DOMAIN o : o[i] \in Chunks \X Nat
      OBVIOUS
    <2> QED  BY <2>1 DEF Chunks
  <1>2. \A i \in DOMAIN o : o[i][1] < c \/ (o[i][1] = c /\ o[i][2] < 0)
    BY DEF Below, Before
  <1>3. \A i \in DOMAIN o : o[i][1] # c
    BY <1>1, <1>2
  <1> QED  BY <1>3 DEF HeardIn

(* What sending a run of places of a chunk does to the output o.           *)
RunSent(o, e, c, a, b) ==
    /\ e \in Seq(Chunks \X Nat)
    /\ Sorted(e)
    /\ Below(e, <<c, b + 1>>)
    /\ HeardIn(e, c) = HeardIn(o, c) \cup (a .. b)
    /\ \A k \in Chunks : k # c => HeardIn(e, k) = HeardIn(o, k)

(* The run may be sent when its first place is next in order.              *)
LEMMA EmitFacts ==
  ASSUME NEW o \in Seq(Chunks \X Nat), NEW c \in Chunks, NEW a \in Nat, NEW b \in Int,
         b >= a - 1, Sorted(o), Below(o, <<c, a>>)
  PROVE  RunSent(o, o \o Frames(c, Interval(a, b)), c, a, b)
  <1> DEFINE n == b - a + 1
             s == Interval(a, b)
             f == Frames(c, s)
             e == o \o f
             m == Len(o)
  <1>1. /\ s \in Seq(Nat) /\ Len(s) = n /\ DOMAIN s = 1 .. n
        /\ \A i \in 1 .. n : s[i] = a + i - 1
    BY IntervalFacts
  <1>2. n \in Nat
    OBVIOUS
  <1> HIDE DEF s
  <1>3. /\ f \in Seq(Chunks \X Nat) /\ Len(f) = n
        /\ \A i \in 1 .. n : f[i] = <<c, a + i - 1>>
    <2> DEFINE g == [i \in 1 .. n |-> <<c, s[i]>>]
    <2>1. f = g
      BY <1>1 DEF Frames
    <2>2. \A i \in 1 .. n : s[i] \in Nat
      BY <1>1
    <2> HIDE DEF n
    <2>3. g \in [1 .. n -> Chunks \X Nat]
      BY <2>2
    <2>4. g \in Seq(Chunks \X Nat) /\ Len(g) = n
      BY <1>2, <2>3, FunctionSeq
    <2>5. \A i \in 1 .. n : g[i] = <<c, a + i - 1>>
      BY <1>1
    <2> QED  BY <2>1, <2>4, <2>5
  <1> HIDE DEF f, n
  <1>4. /\ m \in Nat /\ DOMAIN o = 1 .. m /\ \A i \in 1 .. m : o[i] \in Chunks \X Nat
    OBVIOUS
  <1> HIDE DEF m
  <1>5. /\ e \in Seq(Chunks \X Nat) /\ Len(e) = m + n /\ DOMAIN e = 1 .. m + n
        /\ \A i \in 1 .. m + n : e[i] = IF i <= m THEN o[i] ELSE f[i - m]
    <2>1. /\ e \in Seq(Chunks \X Nat) /\ Len(e) = Len(o) + Len(f)
          /\ \A i \in 1 .. Len(o) + Len(f) : e[i] = IF i <= Len(o) THEN o[i] ELSE f[i - Len(o)]
      BY <1>3, ConcatProperties
    <2>2. Len(o) = m
      BY DEF m
    <2> HIDE DEF e
    <2> QED  BY <1>3, <2>1, <2>2
  <1> HIDE DEF e
  <1>6. \A i \in 1 .. m : e[i] = o[i] /\ i \in DOMAIN e
    BY <1>2, <1>4, <1>5
  <1>7. \A i \in 1 .. n : e[m + i] = <<c, a + i - 1>> /\ m + i \in DOMAIN e
    <2>1. ASSUME NEW i \in 1 .. n PROVE e[m + i] = <<c, a + i - 1>> /\ m + i \in DOMAIN e
      <3>1. m + i \in 1 .. m + n /\ ~(m + i <= m) /\ (m + i) - m = i
        BY <1>2, <1>4
      <3>2. e[m + i] = f[i]
        BY <1>5, <3>1
      <3> QED  BY <1>3, <1>5, <3>1, <3>2
    <2> QED  BY <2>1
  <1>8. \A i \in DOMAIN e : i \in 1 .. m \/ (i - m \in 1 .. n /\ i = m + (i - m))
    BY <1>2, <1>4, <1>5
  <1>9. \A i \in 1 .. m : /\ o[i][1] \in Nat /\ o[i][2] \in Nat
                          /\ o[i][1] < c \/ (o[i][1] = c /\ o[i][2] < a)
    <2>1. \A i \in 1 .. m : o[i][1] < c \/ (o[i][1] = c /\ o[i][2] < a)
      BY <1>4 DEF Below, Before
    <2> QED  BY <1>4, <2>1 DEF Chunks
  <1>10. c \in Nat
    BY DEF Chunks
  <1>11. ASSUME NEW i \in 1 .. m + n - 1 PROVE Before(e[i], e[i + 1])
    <2>2. CASE i + 1 \in 1 .. m
      <3>1. i \in 1 .. Len(o) - 1 /\ i \in 1 .. m
        BY <1>4, <2>2 DEF m
      <3>2. e[i] = o[i] /\ e[i + 1] = o[i + 1]
        BY <1>6, <2>2, <3>1
      <3> QED  BY <3>1, <3>2 DEF Sorted
    <2>3. CASE i = m
      <3>1. 1 \in 1 .. n /\ i \in 1 .. m
        BY <1>2, <1>4, <2>3
      <3>2. e[i + 1] = <<c, a + 1 - 1>> /\ a + 1 - 1 = a /\ e[i] = o[i]
        BY <1>6, <1>7, <2>3, <3>1
      <3> QED  BY <1>9, <3>1, <3>2 DEF Before
    <2>4. CASE i > m
      <3>1. i - m \in 1 .. n /\ i - m + 1 \in 1 .. n
        BY <1>2, <1>4, <2>4
      <3>2. m + (i - m) = i /\ m + (i - m + 1) = i + 1
        BY <1>4
      <3>3. e[i] = <<c, a + (i - m) - 1>> /\ e[i + 1] = <<c, a + (i - m + 1) - 1>>
        BY <1>7, <3>1, <3>2
      <3>4. a + (i - m) - 1 < a + (i - m + 1) - 1
        BY <1>4
      <3> QED  BY <3>3, <3>4 DEF Before
    <2> QED  BY <1>2, <1>4, <2>2, <2>3, <2>4
  <1>15. Sorted(e)
    <2>1. ASSUME NEW i \in 1 .. Len(e) - 1 PROVE Before(e[i], e[i + 1])
      <3>1. i \in 1 .. m + n - 1
        BY <1>2, <1>4, <1>5, <2>1
      <3> QED  BY <1>11, <3>1
    <2>2. \A i \in 1 .. Len(e) - 1 : Before(e[i], e[i + 1])
      BY <2>1
    <2> QED  BY <2>2 DEF Sorted
  <1>12. Below(e, <<c, b + 1>>)
    <2>1. SUFFICES ASSUME NEW i \in DOMAIN e
                   PROVE  e[i][1] < c \/ (e[i][1] = c /\ e[i][2] < b + 1)
      BY DEF Below, Before
    <2>2. CASE i \in 1 .. m
      BY <1>6, <1>9, <2>2
    <2>3. CASE i - m \in 1 .. n /\ i = m + (i - m)
      <3>1. e[i] = <<c, a + (i - m) - 1>>
        BY <1>7, <2>3
      <3>2. a + (i - m) - 1 < b + 1
        BY <1>4, <2>3 DEF n
      <3> QED  BY <3>1, <3>2
    <2> QED  BY <1>8, <2>2, <2>3
  <1>13. HeardIn(e, c) = HeardIn(o, c) \cup (a .. b)
    <2>1. ASSUME NEW p \in HeardIn(e, c) PROVE p \in HeardIn(o, c) \cup (a .. b)
      <3>1. PICK i \in DOMAIN e : e[i][1] = c /\ e[i][2] = p
        BY HeardPlaces
      <3>2. CASE i \in 1 .. m
        BY <1>4, <1>6, <3>1, <3>2, HeardPlaces
      <3>3. CASE i - m \in 1 .. n /\ i = m + (i - m)
        <4>1. e[i] = <<c, a + (i - m) - 1>>
          BY <1>7, <3>3
        <4>2. a + (i - m) - 1 \in a .. b
          BY <1>4, <3>3 DEF n
        <4> QED  BY <3>1, <4>1, <4>2
      <3> QED  BY <1>8, <3>2, <3>3
    <2>2. ASSUME NEW p \in HeardIn(o, c) PROVE p \in HeardIn(e, c)
      <3>1. PICK i \in DOMAIN o : o[i][1] = c /\ o[i][2] = p
        BY HeardPlaces
      <3> QED  BY <1>4, <1>6, <3>1, HeardPlaces
    <2>3. ASSUME NEW p \in a .. b PROVE p \in HeardIn(e, c)
      <3>1. p - a + 1 \in 1 .. n /\ a + (p - a + 1) - 1 = p
        BY DEF n
      <3>2. e[m + (p - a + 1)] = <<c, p>> /\ m + (p - a + 1) \in DOMAIN e
        BY <1>7, <3>1
      <3>3. <<c, p>>[1] = c /\ <<c, p>>[2] = p
        OBVIOUS
      <3> QED  BY <3>2, <3>3, HeardPlaces
    <2> QED  BY <2>1, <2>2, <2>3
  <1>14. ASSUME NEW k \in Chunks, k # c PROVE HeardIn(e, k) = HeardIn(o, k)
    <2>1. ASSUME NEW p \in HeardIn(e, k) PROVE p \in HeardIn(o, k)
      <3>1. PICK i \in DOMAIN e : e[i][1] = k /\ e[i][2] = p
        BY HeardPlaces
      <3>2. CASE i \in 1 .. m
        BY <1>4, <1>6, <3>1, <3>2, HeardPlaces
      <3>3. CASE i - m \in 1 .. n /\ i = m + (i - m)
        <4>1. e[i] = <<c, a + (i - m) - 1>>
          BY <1>7, <3>3
        <4> QED  BY <1>14, <3>1, <4>1
      <3> QED  BY <1>8, <3>2, <3>3
    <2>2. ASSUME NEW p \in HeardIn(o, k) PROVE p \in HeardIn(e, k)
      <3>1. PICK i \in DOMAIN o : o[i][1] = k /\ o[i][2] = p
        BY HeardPlaces
      <3> QED  BY <1>4, <1>6, <3>1, HeardPlaces
    <2> QED  BY <2>1, <2>2
  <1>16. RunSent(o, e, c, a, b)
    BY <1>5, <1>12, <1>13, <1>14, <1>15 DEF RunSent
  <1> QED  BY <1>16 DEF e, f, s

-----------------------------------------------------------------------------
(* The first and the last voiced frame.                                    *)
LEMMA VoicedFacts ==
  ASSUME NEW f \in Seq(BOOLEAN), Voiced(f) # {}
  PROVE  /\ Min(Voiced(f)) \in 1 .. Len(f) /\ f[Min(Voiced(f))]
         /\ Max(Voiced(f)) \in 1 .. Len(f) /\ f[Max(Voiced(f))]
         /\ Min(Voiced(f)) <= Max(Voiced(f))
         /\ \A i \in 1 .. Len(f) : f[i] => Min(Voiced(f)) <= i /\ i <= Max(Voiced(f))
  <1> DEFINE V == Voiced(f)
  <1>1. Len(f) \in Nat /\ DOMAIN f = 1 .. Len(f)
    OBVIOUS
  <1>2. /\ V \subseteq 0 .. Len(f)
        /\ \A i : i \in V <=> i \in 1 .. Len(f) /\ f[i]
    BY <1>1 DEF Voiced
  <1> HIDE DEF V
  <1>3. V # {}
    BY DEF V
  <1>4. /\ Min(V) \in V /\ \A m \in V : Min(V) <= m
        /\ Max(V) \in V /\ \A m \in V : m <= Max(V)
    BY <1>1, <1>2, <1>3, ExtremeFacts
  <1>5. Min(V) <= Max(V)
    BY <1>4
  <1> QED  BY <1>2, <1>4, <1>5 DEF V

(* What the exact path sends.                                              *)
LEMMA TrimmedRun ==
  ASSUME NEW f \in Seq(BOOLEAN)
  PROVE  \E a \in Nat \ {0}, b \in Nat : /\ b >= a - 1 /\ Trimmed(f) = Interval(a, b)
                                         /\ Voiced(f) = {} => a = 1 /\ b = Len(f)
                                         /\ Voiced(f) # {} => /\ a = Min(Voiced(f))
                                                              /\ b = Max(Voiced(f))
  <1>1. Len(f) \in Nat
    OBVIOUS
  <1>2. CASE Voiced(f) = {}
    <2>1. Trimmed(f) = Interval(1, Len(f)) /\ Len(f) >= 1 - 1 /\ 1 \in Nat \ {0}
      BY <1>1, <1>2 DEF Trimmed
    <2> QED  BY <1>1, <1>2, <2>1
  <1>3. CASE Voiced(f) # {}
    <2> DEFINE a == Min(Voiced(f))
               b == Max(Voiced(f))
    <2>1. a \in 1 .. Len(f) /\ b \in 1 .. Len(f) /\ a <= b
      BY <1>3, VoicedFacts
    <2>2. Trimmed(f) = Interval(a, b)
      BY <1>3 DEF Trimmed
    <2>3. a \in Nat \ {0} /\ b \in Nat /\ b >= a - 1
      <3> HIDE DEF a, b
      <3> QED  BY <1>1, <2>1
    <2> QED  BY <1>3, <2>2, <2>3
  <1> QED  BY <1>2, <1>3

(* Frames of a chunk, as they go out.                                      *)
LEMMA FramesType ==
  ASSUME NEW c \in Chunks, NEW s \in Seq(Nat)
  PROVE  Frames(c, s) \in Seq(Chunks \X Nat)
  <1> DEFINE g == [i \in 1 .. Len(s) |-> <<c, s[i]>>]
  <1>1. Len(s) \in Nat /\ DOMAIN s = 1 .. Len(s) /\ \A i \in 1 .. Len(s) : s[i] \in Nat
    OBVIOUS
  <1>2. Frames(c, s) = g
    BY <1>1 DEF Frames
  <1>3. g \in [1 .. Len(s) -> Chunks \X Nat]
    BY <1>1
  <1> HIDE DEF g
  <1>4. g \in Seq(Chunks \X Nat)
    BY <1>1, <1>3, FunctionSeq
  <1> QED  BY <1>2, <1>4

(* The number of chunks and the prefetch, as the assumption has them.      *)
LEMMA NFact == N \in Nat \ {0} /\ Prefetch \in Nat
  BY ChunkedAssumption

(* The producers that may exist are chunks.                                *)
LEMMA UptoType == \A k \in Chunks : Upto(k) \in Chunks
  <1> TAKE k \in Chunks
  <1> DEFINE T == {N, k + Prefetch}
             n == N + k + Prefetch
  <1>1. k \in Nat /\ k >= 1 /\ n \in Nat /\ T \subseteq 0 .. n /\ T # {} /\ N \in T
    BY NFact DEF Chunks
  <1>2. N \in Nat /\ k + Prefetch \in Nat /\ k + Prefetch >= 1 /\ N >= 1
    BY <1>1, NFact
  <1>3. \A m \in T : m = N \/ m = k + Prefetch
    OBVIOUS
  <1> HIDE DEF T, n
  <1>4. Min(T) \in T /\ \A m \in T : Min(T) <= m
    BY <1>1, ExtremeFacts
  <1>5. Min(T) <= N /\ Min(T) \in Nat /\ Min(T) >= 1
    BY <1>1, <1>2, <1>3, <1>4
  <1>6. Upto(k) = Min(T)
    BY DEF Upto, T
  <1> QED  BY <1>2, <1>5, <1>6 DEF Chunks

(* The later of two chunks is a chunk.                                     *)
LEMMA MoreTasks ==
  ASSUME NEW m \in Chunks, NEW n \in Chunks
  PROVE  Max({m, n}) \in Chunks
  <1> DEFINE T == {m, n}
  <1>1. T \subseteq 0 .. N /\ T # {} /\ N \in Nat /\ T \subseteq Chunks
    BY NFact DEF Chunks
  <1> HIDE DEF T
  <1>2. Max(T) \in T
    BY <1>1, ExtremeFacts
  <1> QED  BY <1>1, <1>2 DEF T

-----------------------------------------------------------------------------
(* Types.                                                                  *)
LEMMA TypeInit == Init => TypeInv
  <1>1. 1 \in Chunks /\ Upto(1) \in Chunks
    <2>1. 1 \in Chunks
      BY NFact DEF Chunks
    <2> QED  BY <2>1, UptoType
  <1>2. <<>> \in Seq(BOOLEAN) /\ <<>> \in Seq(Nat) /\ <<>> \in Seq(Chunks \X Nat)
    OBVIOUS
  <1>3. ASSUME Init PROVE TypeInv
    <2>1. frames \in [Chunks -> Seq(BOOLEAN)]
      BY <1>2, <1>3 DEF Init
    <2>2. done \in [Chunks -> BOOLEAN] /\ evt \in [Chunks -> BOOLEAN]
      BY <1>3 DEF Init
    <2>3. /\ tasks \in Chunks /\ cur \in Chunks /\ buf \in Seq(Nat) /\ held \in Seq(Nat)
          /\ out \in Seq(Chunks \X Nat) /\ idx \in Nat
      BY <1>1, <1>2, <1>3 DEF Init
    <2> QED  BY <1>3, <2>1, <2>2, <2>3 DEF Init, TypeInv, Pcs
  <1> QED  BY <1>3

(* Every step keeps the types.                                             *)
LEMMA TypeStep == TypeInv /\ [Next]_vars => TypeInv'
  <1> SUFFICES ASSUME TypeInv, [Next]_vars PROVE TypeInv'
    OBVIOUS
  <1> USE DEF Pcs
  <1>1. CASE UNCHANGED vars
    BY <1>1 DEF TypeInv, vars, production, live
  <1>2. ASSUME NEW k \in Chunks, ProduceFrame(k) PROVE TypeInv'
    <2>1. PICK voiced \in BOOLEAN : frames' = [frames EXCEPT ![k] = Append(@, voiced)]
      BY <1>2 DEF ProduceFrame
    <2>2. Append(frames[k], voiced) \in Seq(BOOLEAN)
      BY AppendProperties DEF TypeInv
    <2>3. frames' \in [Chunks -> Seq(BOOLEAN)]
      BY <2>1, <2>2 DEF TypeInv
    <2>4. evt' \in [Chunks -> BOOLEAN]
      BY <1>2 DEF ProduceFrame, TypeInv
    <2> QED  BY <1>2, <2>3, <2>4 DEF TypeInv, ProduceFrame, live
  <1>3. ASSUME NEW k \in Chunks, NEW failed \in BOOLEAN, ProducerEnds(k, failed)
        PROVE  TypeInv'
    <2>1. done' \in [Chunks -> BOOLEAN] /\ evt' \in [Chunks -> BOOLEAN]
      BY <1>3 DEF ProducerEnds, WakeAtEnd, TypeInv
    <2>2. errors' \subseteq Chunks
      BY <1>3 DEF ProducerEnds, TypeInv
    <2> QED  BY <1>3, <2>1, <2>2 DEF TypeInv, ProducerEnds, live
  <1>4. CASE Boundary
    <2>1. <<cur, 0>> \in Chunks \X Nat
      BY DEF TypeInv
    <2>2. Append(out, <<cur, 0>>) \in Seq(Chunks \X Nat)
      BY <2>1, AppendProperties DEF TypeInv
    <2>3. out' \in Seq(Chunks \X Nat)
      BY <1>4, <2>2 DEF Boundary, TypeInv
    <2>4. pc' \in Pcs /\ ending' \in {"none", "clean", "error", "left"}
      BY <1>4 DEF Boundary, Leave, TypeInv
    <2> QED  BY <1>4, <2>3, <2>4 DEF TypeInv, Boundary, production, live
  <1>5. CASE ChoosePath
    <2>1. <<>> \in Seq(Nat) /\ pc' \in Pcs
      BY <1>5 DEF ChoosePath
    <2> QED  BY <1>5, <2>1 DEF TypeInv, ChoosePath, production
  <1>6. CASE EmitExact
    <2>1. frames[cur] \in Seq(BOOLEAN) /\ cur \in Chunks
      BY DEF TypeInv
    <2>2. PICK a \in Nat \ {0}, b \in Nat :
                  b >= a - 1 /\ Trimmed(frames[cur]) = Interval(a, b)
      BY <2>1, TrimmedRun
    <2>3. Interval(a, b) \in Seq(Nat)
      BY <2>2, IntervalFacts
    <2>4. Frames(cur, Trimmed(frames[cur])) \in Seq(Chunks \X Nat)
      BY <2>1, <2>2, <2>3, FramesType
    <2>5. out' \in Seq(Chunks \X Nat)
      BY <1>6, <2>4, ConcatProperties DEF EmitExact, TypeInv
    <2> QED  BY <1>6, <2>5 DEF TypeInv, EmitExact, production, live
  <1>7. CASE TakeSilence
    <2>1. idx + 1 \in Nat /\ held \in Seq(Nat)
      BY DEF TypeInv
    <2>2. Append(held, idx + 1) \in Seq(Nat)
      BY <2>1, AppendProperties
    <2> QED  BY <1>7, <2>1, <2>2 DEF TypeInv, TakeSilence, production
  <1>8. CASE TakeFrame
    <2> DEFINE kept == Kept(idx + 1)
    <2>1. idx + 1 \in Nat /\ held \in Seq(Nat) /\ buf \in Seq(Nat) /\ cur \in Chunks
          /\ <<>> \in Seq(Nat)
      BY DEF TypeInv
    <2>2. kept \in Seq(Nat)
      <3>1. <<idx + 1>> \in Seq(Nat)
        BY <2>1
      <3>2. buf \o held \in Seq(Nat)
        BY <2>1, ConcatProperties
      <3> QED  BY <3>1, <3>2, ConcatProperties DEF Kept
    <2> HIDE DEF kept
    <2>3. Frames(cur, kept) \in Seq(Chunks \X Nat)
      BY <2>1, <2>2, FramesType
    <2>4. out \o Frames(cur, kept) \in Seq(Chunks \X Nat)
      BY <2>3, ConcatProperties DEF TypeInv
    <2>5. /\ out' = out \o Frames(cur, kept) \/ out' = out
          /\ buf' = <<>> \/ buf' = kept
          /\ sent' = TRUE \/ sent' = sent
          /\ idx' = idx + 1 /\ held' = <<>>
      BY <1>8 DEF TakeFrame, kept
    <2>6. out' \in Seq(Chunks \X Nat) /\ buf' \in Seq(Nat) /\ held' \in Seq(Nat)
          /\ sent' \in BOOLEAN /\ idx' \in Nat
      BY <2>1, <2>2, <2>4, <2>5 DEF TypeInv
    <2> QED  BY <1>8, <2>6 DEF TypeInv, TakeFrame, production
  <1>9. CASE Wait
    BY <1>9 DEF TypeInv, Wait, live
  <1>10. CASE Woken \/ Timeout
    BY <1>10 DEF TypeInv, Woken, Timeout, production, live
  <1>11. CASE EmitRest
    <2>1. cur \in Chunks /\ buf \in Seq(Nat) /\ <<>> \in Seq(Nat)
      BY DEF TypeInv
    <2>2. out \o Frames(cur, buf) \in Seq(Chunks \X Nat)
      BY <2>1, FramesType, ConcatProperties DEF TypeInv
    <2> QED  BY <1>11, <2>1, <2>2 DEF TypeInv, EmitRest, production
  <1>12. CASE NextChunk
    <2>1. cur # N => cur + 1 \in Chunks
      BY NFact DEF TypeInv, Chunks
    <2>2. cur # N => Max({tasks, Upto(cur + 1)}) \in Chunks
      <3>1. ASSUME cur # N PROVE Max({tasks, Upto(cur + 1)}) \in Chunks
        <4>1. Upto(cur + 1) \in Chunks /\ tasks \in Chunks
          BY <2>1, <3>1, UptoType DEF TypeInv
        <4> QED  BY <4>1, MoreTasks
      <3> QED  BY <3>1
    <2>3. cur' \in Chunks /\ tasks' \in Chunks
      BY <1>12, <2>1, <2>2 DEF NextChunk, TypeInv
    <2>4. pc' \in Pcs /\ ending' \in {"none", "clean", "error", "left"} /\ buffers' \subseteq Chunks
      BY <1>12 DEF NextChunk, Leave, TypeInv
    <2> QED  BY <1>12, <2>3, <2>4 DEF TypeInv, NextChunk, live
  <1>13. CASE Disconnect
    BY <1>13 DEF TypeInv, Disconnect, Leave, production, live
  <1>14. CASE CleanedUp
    BY <1>14 DEF TypeInv, CleanedUp, production, live
  <1> QED
    BY <1>1, <1>2, <1>3, <1>4, <1>5, <1>6, <1>7, <1>8, <1>9, <1>10, <1>11, <1>12, <1>13, <1>14
    DEF Next, Consumer, Producer

(* Every variable keeps its type.                                          *)
THEOREM ChunkType == Spec => []TypeInv
  BY TypeInit, TypeStep, PTL DEF Spec

-----------------------------------------------------------------------------
(* A chunk that is over stays as it is.                                    *)
LEMMA WholeStays ==
  ASSUME NEW k \in Chunks, Whole(k), done'[k], frames'[k] = frames[k], Heard(k)' = Heard(k)
  PROVE  Whole(k)'
  <1>1. Wanted(k)' = Wanted(k)
    BY DEF Wanted
  <1> QED  BY <1>1 DEF Whole

(* What was sent alone says what was heard of a chunk.                     *)
LEMMA HeardStays ==
  ASSUME out' = out, NEW k
  PROVE  Heard(k)' = Heard(k)
  BY DEF Heard

(* The same, for the sent places before and after a step.                  *)
LEMMA HeardOut == \A k : Heard(k) = HeardIn(out, k) /\ Heard(k)' = HeardIn(out', k)
  BY DEF Heard, HeardIn

(* Whatever the consumer sends of its chunk, the chunks before it stay.    *)
LEMMA PastStays ==
  ASSUME TypeInv, EndInv, PastInv, pc \notin Over, cur' = cur, ending' # "clean",
         done' = done, errors' = errors, frames' = frames,
         \A k \in Chunks : k # cur => Heard(k)' = Heard(k)
  PROVE  PastInv'
  <1>1. SUFFICES ASSUME NEW k \in Chunks, k < cur PROVE Whole(k)' /\ k \notin errors
    BY DEF PastInv
  <1>2. Whole(k) /\ k \notin errors /\ k # cur
    BY <1>1 DEF PastInv, TypeInv, Chunks
  <1>3. done'[k]
    BY <1>2 DEF Whole
  <1> QED  BY <1>2, <1>3, WholeStays

(* What is wanted of a chunk but for the gap.                              *)
WantedBody(f) ==
    IF ~Normalize THEN {DOMAIN f}
    ELSE IF Voiced(f) = {} THEN {{}, DOMAIN f}
    ELSE {Min(Voiced(f)) .. Max(Voiced(f))}

(* The gap before a chunk and its speech are what is wanted of it.         *)
LEMMA WantedFact ==
  ASSUME NEW k, NEW places \in WantedBody(frames[k])
  PROVE  GapOf(k) \cup places \in Wanted(k)
  <1>1. CASE k > 1 /\ Gap
    <2>1. Wanted(k) = {p \cup {0} : p \in WantedBody(frames[k])}
      BY <1>1 DEF Wanted, WantedBody
    <2>2. GapOf(k) \cup places = places \cup {0}
      BY <1>1 DEF GapOf
    <2> QED  BY <2>1, <2>2
  <1>2. CASE ~(k > 1 /\ Gap)
    <2>1. Wanted(k) = WantedBody(frames[k])
      BY <1>2 DEF Wanted, WantedBody
    <2>2. GapOf(k) \cup places = places
      BY <1>2 DEF GapOf
    <2> QED  BY <2>1, <2>2
  <1> QED  BY <1>1, <1>2

(* When the live loop has taken every frame, what it has sent and what it  *)
(* is about to send are the whole chunk.                                   *)
LEMMA LiveWanted ==
  ASSUME TypeInv, LiveAt(frames[cur]), idx = Len(frames[cur])
  PROVE  GapOf(cur) \cup {i \in 1 .. Flushed : Opened(frames[cur], i)} \cup (Flushed + 1 .. Reached)
             \in Wanted(cur)
  <1> DEFINE f == frames[cur]
             h == Flushed
             m == Reached
             n == Len(f)
             opened == {i \in 1 .. h : Opened(f, i)}
             places == opened \cup (h + 1 .. m)
  <1>1. f \in Seq(BOOLEAN) /\ n \in Nat /\ DOMAIN f = 1 .. n
    BY DEF TypeInv
  <1>2. /\ h \in Nat /\ m \in Nat /\ idx = n
        /\ h < n => Opened(f, h + 1)
        /\ m < n => Normalize
        /\ \A i \in m + 1 .. n : ~f[i]
        /\ m > 0 /\ Opened(f, m) => ~Normalize \/ f[m]
    BY DEF LiveAt
  <1>3. h <= m /\ m <= n
    <2>1. Len(buf) \in Nat /\ Len(held) \in Nat /\ idx \in Nat
      BY DEF TypeInv
    <2> QED  BY <1>2, <2>1 DEF Flushed, Reached
  <1> HIDE DEF h, m, n, f
  <1>4. places \in WantedBody(f)
    <2>1. CASE ~Normalize
      <3>1. m = n /\ \A i \in 1 .. h : Opened(f, i)
        BY <1>1, <1>2, <1>3, <2>1 DEF Opened
      <3>2. places = 1 .. n
        BY <1>1, <1>2, <1>3, <3>1
      <3> QED  BY <1>1, <2>1, <3>2 DEF WantedBody
    <2>2. CASE Normalize /\ Voiced(f) = {}
      <3>1. \A i \in 1 .. n : ~f[i]
        BY <1>1, <2>2 DEF Voiced
      <3>2. \A i \in 1 .. n : ~Opened(f, i)
        BY <1>1, <2>2, <3>1 DEF Opened
      <3>3. h = n
        BY <1>1, <1>2, <1>3, <3>2
      <3>4. places = {}
        BY <1>1, <1>2, <1>3, <3>2, <3>3
      <3> QED  BY <2>2, <3>4 DEF WantedBody
    <2>3. CASE Normalize /\ Voiced(f) # {}
      <3> DEFINE a == Min(Voiced(f))
                 b == Max(Voiced(f))
      <3>1. /\ a \in 1 .. n /\ f[a] /\ b \in 1 .. n /\ f[b] /\ a <= b
            /\ \A i \in 1 .. n : f[i] => a <= i /\ i <= b
        BY <1>1, <2>3, VoicedFacts DEF n
      <3>2. places = a .. b => places \in WantedBody(f)
        BY <2>3 DEF WantedBody
      <3> HIDE DEF a, b, places
      <3>3. \A i \in 1 .. n : Opened(f, i) <=> a <= i
        <4>1. ASSUME NEW i \in 1 .. n PROVE Opened(f, i) <=> \E j \in 1 .. i : f[j]
          BY <2>3 DEF Opened
        <4>2. ASSUME NEW i \in 1 .. n, NEW j \in 1 .. i, f[j] PROVE a <= i
          <5>1. j \in 1 .. n
            BY <1>1
          <5> QED  BY <1>1, <3>1, <4>2, <5>1
        <4>3. ASSUME NEW i \in 1 .. n, a <= i PROVE a \in 1 .. i
          BY <1>1, <3>1, <4>3
        <4> QED  BY <3>1, <4>1, <4>2, <4>3
      <3>4. b <= m
        BY <1>1, <1>2, <1>3, <3>1
      <3>5. m = b
        <4>1. m \in 1 .. n /\ a <= m
          BY <1>1, <1>2, <1>3, <3>1, <3>4
        <4>2. f[m]
          BY <1>2, <2>3, <3>3, <4>1
        <4> QED  BY <1>2, <3>1, <3>4, <4>1, <4>2
      <3>6. h < n => a <= h + 1
        <4>1. h < n => h + 1 \in 1 .. n
          BY <1>1, <1>2
        <4> QED  BY <1>2, <3>3, <4>1
      <3>7. opened = {i \in 1 .. h : a <= i}
        <4>1. \A i \in 1 .. h : i \in 1 .. n
          BY <1>1, <1>2, <1>3
        <4> QED  BY <3>3, <4>1
      <3>8. a <= h + 1
        BY <1>1, <1>2, <1>3, <3>1, <3>6
      <3>9. places = {i \in 1 .. h : a <= i} \cup (h + 1 .. m)
        BY <3>7 DEF places
      <3>10. \A i : i \in places <=> i \in a .. b
        BY <1>2, <1>3, <3>1, <3>5, <3>8, <3>9
      <3> QED  BY <3>2, <3>10
    <2> QED  BY <2>1, <2>2, <2>3
  <1>5. GapOf(cur) \cup places \in Wanted(cur)
    BY <1>4, WantedFact DEF f
  <1>6. GapOf(cur) \cup places = GapOf(cur) \cup opened \cup (h + 1 .. m)
    OBVIOUS
  <1>7. GapOf(cur) \cup opened \cup (h + 1 .. m) \in Wanted(cur)
    BY <1>5, <1>6
  <1> QED  BY <1>7 DEF f, h, m

-----------------------------------------------------------------------------
(* The inductive invariant holds at the start.                             *)
LEMMA ChunkInit == Init => ChunkInv
  <1> SUFFICES ASSUME Init PROVE ChunkInv
    OBVIOUS
  <1>1. TypeInv
    BY TypeInit
  <1>2. EndInv /\ CurInv
    BY DEF Init, EndInv, CurInv, Over
  <1>3. PastInv
    <2>1. \A k \in Chunks : ~(k < cur)
      BY DEF Init, Chunks
    <2> QED  BY <2>1 DEF Init, PastInv
  <1>4. OutInv
    <2>1. out = <<>> /\ Len(out) = 0 /\ DOMAIN out = {}
      BY DEF Init
    <2> QED  BY <2>1 DEF OutInv, Sorted, Below
  <1> QED  BY <1>1, <1>2, <1>3, <1>4 DEF ChunkInv

(* Steps of the producers: what a chunk has grows until it is done.        *)
LEMMA LiveGrows ==
  ASSUME TypeInv, LiveAt(frames[cur]), cur' = cur, idx' = idx, buf' = buf, held' = held,
         out' = out, Len(frames[cur]) <= Len(frames'[cur]), Len(frames'[cur]) \in Nat,
         \A i \in 1 .. Len(frames[cur]) : frames'[cur][i] = frames[cur][i]
  PROVE  LiveAt(frames[cur])'
  <1> DEFINE f == frames[cur]
             g == frames'[cur]
             h == Flushed
             m == Reached
  <1>1. /\ h \in Nat /\ m \in Nat /\ idx <= Len(f) /\ idx \in Nat
        /\ buf = Interval(h + 1, m)
        /\ held = Interval(m + 1, idx)
        /\ h < idx => Opened(f, h + 1)
        /\ m < idx => Normalize
        /\ \A i \in m + 1 .. idx : ~f[i]
        /\ m > 0 /\ Opened(f, m) => ~Normalize \/ f[m]
        /\ Heard(cur) = GapOf(cur) \cup {i \in 1 .. h : Opened(f, i)}
    BY DEF LiveAt, TypeInv
  <1>2. h <= m /\ m <= idx /\ Len(f) \in Nat /\ Len(g) \in Nat /\ idx <= Len(g)
    <2>1. Len(buf) \in Nat /\ Len(held) \in Nat /\ idx \in Nat /\ f \in Seq(BOOLEAN)
      BY DEF TypeInv
    <2>2. Len(f) \in Nat
      BY <2>1
    <2> QED  BY <1>1, <2>1, <2>2 DEF Flushed, Reached
  <1>3. Flushed' = h /\ Reached' = m
    BY DEF Flushed, Reached
  <1>4. Heard(cur)' = Heard(cur) /\ GapOf(cur)' = GapOf(cur)
    BY DEF Heard, GapOf
  <1>5. \A i \in 1 .. Len(f) : g[i] = f[i]
    OBVIOUS
  <1> HIDE DEF f, g, h, m
  <1>6. \A i \in 1 .. idx : g[i] = f[i] /\ (Opened(g, i) <=> Opened(f, i))
    <2>1. \A i \in 1 .. idx : \A j \in 1 .. i : j \in 1 .. Len(f)
      BY <1>1, <1>2
    <2>2. \A i \in 1 .. idx : \A j \in 1 .. i : g[j] = f[j]
      BY <1>5, <2>1
    <2>3. \A i \in 1 .. idx : i \in 1 .. i
      BY <1>1
    <2> QED  BY <2>2, <2>3 DEF Opened
  <1>7. h < idx => h + 1 \in 1 .. idx
    BY <1>1
  <1>8. m > 0 => m \in 1 .. idx
    BY <1>1, <1>2
  <1>9. \A i \in m + 1 .. idx : ~g[i]
    <2>1. \A i \in m + 1 .. idx : i \in 1 .. idx
      BY <1>1
    <2> QED  BY <1>1, <1>6, <2>1
  <1>10. {i \in 1 .. h : Opened(f, i)} = {i \in 1 .. h : Opened(g, i)}
    <2>1. \A i \in 1 .. h : i \in 1 .. idx
      BY <1>1, <1>2
    <2> QED  BY <1>6, <2>1
  <1>11. /\ h \in Nat /\ m \in Nat /\ idx <= Len(g)
         /\ buf = Interval(h + 1, m)
         /\ held = Interval(m + 1, idx)
         /\ h < idx => Opened(g, h + 1)
         /\ m < idx => Normalize
         /\ \A i \in m + 1 .. idx : ~g[i]
         /\ m > 0 /\ Opened(g, m) => ~Normalize \/ g[m]
         /\ Heard(cur) = GapOf(cur) \cup {i \in 1 .. h : Opened(g, i)}
    BY <1>1, <1>2, <1>6, <1>7, <1>8, <1>9, <1>10
  <1> QED  BY <1>3, <1>4, <1>11 DEF LiveAt, g, Opened

(* A producer adds to a chunk that is not over, or ends it.                *)
LEMMA ProducerStep ==
  ASSUME ChunkInv, TypeInv', NEW k \in Chunks, Producer(k)
  PROVE  ChunkInv'
  <1>1. /\ cur' = cur /\ pc' = pc /\ ending' = ending /\ out' = out
        /\ idx' = idx /\ buf' = buf /\ held' = held
    BY DEF Producer, ProduceFrame, ProducerEnds, live
  <1>2. TypeInv /\ EndInv /\ PastInv /\ CurInv /\ OutInv
    BY DEF ChunkInv
  <1>3. ~done[k]
    BY DEF Producer, ProduceFrame, ProducerEnds, Running
  <1>4. \A j \in errors' : j \in errors \/ (j = k /\ done'[k])
    BY <1>2 DEF Producer, ProduceFrame, ProducerEnds, TypeInv
  <1>5. \A j \in Chunks : done[j] => done'[j] /\ frames'[j] = frames[j]
    <2>1. CASE ProduceFrame(k)
      BY <1>2, <1>3, <2>1 DEF ProduceFrame, TypeInv
    <2>2. CASE \E failed \in BOOLEAN : ProducerEnds(k, failed)
      BY <1>2, <1>3, <2>2 DEF ProducerEnds, TypeInv
    <2> QED  BY <2>1, <2>2 DEF Producer
  <1>6. \A j \in Chunks : /\ Len(frames'[j]) \in Nat /\ Len(frames[j]) <= Len(frames'[j])
                          /\ \A i \in 1 .. Len(frames[j]) : frames'[j][i] = frames[j][i]
    <2>0. \A j \in Chunks : frames[j] \in Seq(BOOLEAN) /\ Len(frames[j]) \in Nat
      BY <1>2 DEF TypeInv
    <2>1. CASE ProduceFrame(k)
      <3>1. PICK v \in BOOLEAN : frames' = [frames EXCEPT ![k] = Append(@, v)]
        BY <2>1 DEF ProduceFrame
      <3>2. \A j \in Chunks : j # k => frames'[j] = frames[j]
        BY <1>2, <3>1 DEF TypeInv
      <3>3. frames'[k] = Append(frames[k], v)
        BY <1>2, <3>1 DEF TypeInv
      <3>4. /\ Len(frames'[k]) = Len(frames[k]) + 1
            /\ \A i \in 1 .. Len(frames[k]) : frames'[k][i] = frames[k][i]
        BY <2>0, <3>3, AppendProperties
      <3>5. ASSUME NEW j \in Chunks
            PROVE  /\ Len(frames'[j]) \in Nat /\ Len(frames[j]) <= Len(frames'[j])
                   /\ \A i \in 1 .. Len(frames[j]) : frames'[j][i] = frames[j][i]
        <4>1. CASE j = k
          BY <2>0, <3>4, <4>1
        <4>2. CASE j # k
          BY <2>0, <3>2, <4>2
        <4> QED  BY <4>1, <4>2
      <3> QED  BY <3>5
    <2>2. CASE \E failed \in BOOLEAN : ProducerEnds(k, failed)
      <3>1. frames' = frames
        BY <2>2 DEF ProducerEnds
      <3> QED  BY <2>0, <3>1
    <2> QED  BY <2>1, <2>2 DEF Producer
  <1>7. EndInv'
    <2>1. \A j \in errors' : done'[j]
      BY <1>2, <1>4, <1>5 DEF EndInv, TypeInv
    <2> QED  BY <1>1, <1>2, <2>1 DEF EndInv
  <1>8. \A j \in Chunks : Whole(j) => Whole(j)' /\ (j \in errors' => j \in errors)
    <2> SUFFICES ASSUME NEW j \in Chunks, Whole(j)
                 PROVE  Whole(j)' /\ (j \in errors' => j \in errors)
      OBVIOUS
    <2>1. done[j] /\ j # k
      BY <1>3 DEF Whole
    <2>2. Heard(j)' = Heard(j)
      BY <1>1, HeardStays
    <2>3. done'[j] /\ frames'[j] = frames[j]
      BY <1>5, <2>1
    <2> QED  BY <1>4, <2>1, <2>2, <2>3, WholeStays
  <1>9. PastInv'
    BY <1>1, <1>2, <1>8 DEF PastInv
  <1>10. CurInv'
    <2>1. cur \in Chunks
      BY <1>2 DEF TypeInv
    <2>2. Heard(cur)' = Heard(cur) /\ GapOf(cur)' = GapOf(cur)
      BY <1>1 DEF Heard, GapOf
    <2>3. Exact(cur) => Exact(cur)'
      BY <1>1, <1>2, <1>3, <1>4, <1>5, <2>1 DEF Exact
    <2>4. LiveAt(frames[cur]) => LiveAt(frames[cur])'
      BY <1>1, <1>2, <1>6, <2>1, LiveGrows
    <2>5. Whole(cur) => Whole(cur)'
      <3>1. ASSUME Whole(cur) PROVE Whole(cur)'
        <4>1. done[cur]
          BY <3>1 DEF Whole
        <4>2. done'[cur] /\ frames'[cur] = frames[cur]
          BY <1>5, <2>1, <4>1
        <4>3. Wanted(cur)' = Wanted(cur)
          BY <1>1, <4>2 DEF Wanted
        <4> QED  BY <1>1, <2>2, <3>1, <4>2, <4>3 DEF Whole
      <3> QED  BY <3>1
    <2> QED  BY <1>1, <1>2, <2>2, <2>3, <2>4, <2>5 DEF CurInv
  <1>11. OutInv'
    <2>1. NextPlace' = NextPlace
      BY <1>1 DEF NextPlace, Flushed, Reached
    <2> QED  BY <1>1, <1>2, <2>1 DEF OutInv
  <1> QED  BY <1>7, <1>9, <1>10, <1>11 DEF ChunkInv

-----------------------------------------------------------------------------
(* Steps of the consumer that send nothing and stay at their place, or     *)
(* leave: only the ending and where the consumer is can change.            *)

(* What the steps of the consumer leave alone.                             *)
LEMMA ConsumerFacts ==
  ASSUME ChunkInv
  PROVE  /\ TypeInv /\ EndInv /\ PastInv /\ CurInv
         /\ Sorted(out) /\ Below(out, NextPlace)
         /\ out \in Seq(Chunks \X Nat) /\ cur \in Chunks /\ cur \in Nat
         /\ frames[cur] \in Seq(BOOLEAN)
  <1>1. TypeInv /\ EndInv /\ PastInv /\ CurInv /\ Sorted(out) /\ Below(out, NextPlace)
    BY DEF ChunkInv, OutInv
  <1>2. out \in Seq(Chunks \X Nat) /\ cur \in Chunks /\ frames[cur] \in Seq(BOOLEAN)
    BY <1>1 DEF TypeInv
  <1>3. cur \in Nat
    BY <1>2 DEF Chunks
  <1> QED  BY <1>1, <1>2, <1>3

(* The next place to send, by where the consumer is.                       *)
LEMMA NextPlaces ==
  /\ pc = "boundary" => NextPlace = <<cur, 0>>
  /\ pc \in {"choose", "exact"} => NextPlace = <<cur, 1>>
  /\ pc \in {"live", "wait"} => NextPlace = <<cur, Flushed + 1>>
  /\ pc \in {"emitted", "cleanup", "end"} => NextPlace = <<cur + 1, 0>>
  BY DEF NextPlace

(* The same, of the state after a step.                                    *)
LEMMA NextPlacesAfter ==
  /\ pc' = "boundary" => NextPlace' = <<cur', 0>>
  /\ pc' \in {"choose", "exact"} => NextPlace' = <<cur', 1>>
  /\ pc' \in {"live", "wait"} => NextPlace' = <<cur', Flushed' + 1>>
  /\ pc' \in {"emitted", "cleanup", "end"} => NextPlace' = <<cur' + 1, 0>>
  BY DEF NextPlace

(* Wherever the consumer is, what was sent is below the next chunk.        *)
LEMMA BelowNext ==
  ASSUME ChunkInv
  PROVE  Below(out, <<cur + 1, 0>>)
  <1>1. /\ out \in Seq(Chunks \X Nat) /\ cur \in Nat /\ Below(out, NextPlace)
        /\ TypeInv /\ CurInv
    BY ConsumerFacts
  <1>2. 0 \in Nat /\ 1 \in Nat
    OBVIOUS
  <1>3. pc \in Pcs
    BY <1>1 DEF TypeInv
  <1>4. CASE pc = "boundary"
    BY <1>1, <1>2, <1>4, NextPlaces, BelowLater
  <1>5. CASE pc \in {"choose", "exact"}
    BY <1>1, <1>2, <1>5, NextPlaces, BelowLater
  <1>6. CASE pc \in {"live", "wait"}
    <2>1. Flushed + 1 \in Nat
      BY <1>1, <1>6 DEF CurInv, LiveAt
    <2>2. Below(out, <<cur, Flushed + 1>>)
      BY <1>1, <1>6, NextPlaces
    <2> HIDE DEF Flushed
    <2> QED  BY <1>1, <1>2, <2>1, <2>2, BelowLater
  <1>7. CASE pc \in {"emitted", "cleanup", "end"}
    BY <1>1, <1>7, NextPlaces
  <1> QED  BY <1>3, <1>4, <1>5, <1>6, <1>7 DEF Pcs

(* Leaving: nothing more is sent, and the stream does not end cleanly.     *)
LEMMA LeavingStep ==
  ASSUME ChunkInv, TypeInv', pc \notin Over, pc' = "cleanup", cur' = cur, out' = out,
         done' = done, errors' = errors, frames' = frames, ending' # "clean"
  PROVE  ChunkInv'
  <1>1. TypeInv /\ EndInv /\ PastInv /\ Sorted(out) /\ Below(out, <<cur + 1, 0>>)
    BY ConsumerFacts, BelowNext
  <1>2. EndInv'
    BY <1>1 DEF EndInv, Over
  <1>3. \A k \in Chunks : k # cur => Heard(k)' = Heard(k)
    BY HeardStays
  <1>4. PastInv'
    BY <1>1, <1>3, PastStays
  <1>5. CurInv'
    BY DEF CurInv
  <1>6. OutInv'
    BY <1>1, NextPlacesAfter DEF OutInv
  <1> QED  BY <1>2, <1>4, <1>5, <1>6 DEF ChunkInv

(* The gap goes out as a run of one place.                                 *)
LEMMA GapRun ==
  ASSUME NEW o \in Seq(Chunks \X Nat), NEW c \in Chunks
  PROVE  Append(o, <<c, 0>>) = o \o Frames(c, Interval(0, 0))
  <1>1. Interval(0, 0) = <<0>>
    BY ShortIntervals
  <1>2. Frames(c, <<0>>) = <<<<c, 0>>>>
    BY DEF Frames
  <1>3. <<c, 0>> \in Chunks \X Nat
    OBVIOUS
  <1> QED  BY <1>1, <1>2, <1>3, AppendIsConcat

(* The pause between two chunks goes out before anything of the second.    *)
LEMMA BoundaryStep ==
  ASSUME ChunkInv, TypeInv', Boundary
  PROVE  ChunkInv'
  <1>1. /\ TypeInv /\ EndInv /\ PastInv /\ CurInv /\ Sorted(out) /\ Below(out, <<cur, 0>>)
        /\ out \in Seq(Chunks \X Nat) /\ cur \in Chunks /\ cur \in Nat
    BY ConsumerFacts, NextPlaces DEF Boundary
  <1>2. /\ pc \notin Over /\ cur' = cur /\ done' = done /\ errors' = errors /\ frames' = frames
    BY DEF Boundary, Over, production
  <1>3. CASE done[cur] /\ cur \in errors
    <2>1. pc' = "cleanup" /\ out' = out /\ ending' = "error"
      BY <1>3 DEF Boundary, Leave
    <2> QED  BY <1>2, <2>1, LeavingStep
  <1>4. CASE ~(done[cur] /\ cur \in errors)
    <2>1. /\ pc' = "choose" /\ ending' = ending
          /\ out' = IF cur > 1 /\ Gap THEN Append(out, <<cur, 0>>) ELSE out
      BY <1>4 DEF Boundary
    <2>2. HeardIn(out, cur) = {}
      BY <1>1, NothingBelow
    <2>3. /\ Sorted(out') /\ Below(out', <<cur, 1>>)
          /\ HeardIn(out', cur) = GapOf(cur)
          /\ \A k \in Chunks : k # cur => HeardIn(out', k) = HeardIn(out, k)
      <3>1. CASE cur > 1 /\ Gap
        <4> DEFINE e == out \o Frames(cur, Interval(0, 0))
        <4>1. out' = e
          BY <1>1, <2>1, <3>1, GapRun
        <4>2. 0 \in Nat /\ 0 \in Int /\ 0 >= 0 - 1 /\ 1 = 0 + 1 /\ 0 .. 0 = {0}
          OBVIOUS
        <4>5. /\ out \in Seq(Chunks \X Nat) /\ cur \in Chunks /\ Sorted(out)
              /\ Below(out, <<cur, 0>>)
          BY <1>1
        <4>3. RunSent(out, e, cur, 0, 0)
          BY <4>2, <4>5, EmitFacts, Zenon
        <4>6. /\ Sorted(e) /\ Below(e, <<cur, 1>>)
              /\ HeardIn(e, cur) = HeardIn(out, cur) \cup {0}
              /\ \A k \in Chunks : k # cur => HeardIn(e, k) = HeardIn(out, k)
          <5> HIDE DEF e
          <5> QED  BY <4>2, <4>3 DEF RunSent
        <4>4. GapOf(cur) = {0}
          BY <3>1 DEF GapOf
        <4> HIDE DEF e
        <4> QED  BY <2>2, <4>1, <4>4, <4>6
      <3>2. CASE ~(cur > 1 /\ Gap)
        <4>1. out' = out /\ GapOf(cur) = {} /\ 0 \in Nat /\ 1 \in Nat /\ 0 <= 1
          BY <2>1, <3>2 DEF GapOf
        <4>2. Below(out, <<cur, 1>>)
          BY <1>1, <4>1, BelowLater
        <4> QED  BY <1>1, <2>2, <4>1, <4>2
      <3> QED  BY <3>1, <3>2
    <2>4. EndInv'
      BY <1>1, <1>2, <2>1 DEF EndInv
    <2>5. \A k \in Chunks : k # cur => Heard(k)' = Heard(k)
      BY <2>3, HeardOut
    <2>6. ending' # "clean"
      BY <1>1, <1>2, <2>1 DEF EndInv
    <2>7. PastInv'
      BY <1>1, <1>2, <2>5, <2>6, PastStays
    <2>8. CurInv'
      <3>1. Heard(cur)' = GapOf(cur)'
        BY <1>2, <2>3 DEF GapOf, Heard, HeardIn
      <3> QED  BY <2>1, <3>1 DEF CurInv
    <2>9. OutInv'
      BY <1>2, <2>1, <2>3, NextPlacesAfter DEF OutInv
    <2> QED  BY <2>4, <2>7, <2>8, <2>9 DEF ChunkInv
  <1> QED  BY <1>3, <1>4

(* The consumer takes the exact path or the live one.                      *)
LEMMA ChooseStep ==
  ASSUME ChunkInv, TypeInv', ChoosePath
  PROVE  ChunkInv'
  <1>1. /\ TypeInv /\ EndInv /\ PastInv /\ CurInv /\ Sorted(out) /\ Below(out, <<cur, 1>>)
        /\ cur \in Chunks /\ cur \in Nat /\ frames[cur] \in Seq(BOOLEAN)
    BY ConsumerFacts, NextPlaces DEF ChoosePath
  <1>2. /\ pc = "choose" /\ pc \notin Over /\ cur' = cur /\ done' = done /\ errors' = errors
        /\ frames' = frames /\ out' = out /\ ending' = ending
        /\ idx' = 0 /\ buf' = <<>> /\ held' = <<>>
        /\ Exact(cur) => pc' = "exact"
        /\ ~Exact(cur) => pc' = "live"
    <2>1. /\ pc = "choose"
          /\ Exact(cur) => pc' = "exact"
          /\ ~Exact(cur) => pc' = "live"
          /\ UNCHANGED <<production, buffers, cur, out, ending>>
          /\ idx' = 0 /\ buf' = <<>> /\ held' = <<>>
      BY DEF ChoosePath
    <2> QED  BY <2>1 DEF Over, production
  <1>3. EndInv'
    BY <1>1, <1>2 DEF EndInv
  <1>4. PastInv'
    <2>1. \A k \in Chunks : k # cur => Heard(k)' = Heard(k)
      BY <1>2, HeardStays
    <2>2. ending' # "clean"
      BY <1>1, <1>2 DEF EndInv
    <2> QED  BY <1>1, <1>2, <2>1, <2>2, PastStays
  <1>5. Heard(cur)' = GapOf(cur)'
    BY <1>1, <1>2 DEF CurInv, Heard, GapOf
  <1>6. Reached' = 0 /\ Flushed' = 0
    <2>1. Len(<<>>) = 0
      OBVIOUS
    <2>2. Len(held') = 0 /\ Len(buf') = 0 /\ idx' = 0
      BY <1>2, <2>1
    <2>3. Reached' = 0 - 0
      BY <2>2, Zenon DEF Reached
    <2>4. Flushed' = Reached' - 0
      BY <2>2, Zenon DEF Flushed
    <2> QED  BY <2>3, <2>4
  <1>7. CurInv'
    <2>1. CASE Exact(cur)
      <3>1. Exact(cur)'
        BY <1>2, <2>1 DEF Exact
      <3> QED  BY <1>2, <1>5, <2>1, <3>1 DEF CurInv
    <2>2. CASE ~Exact(cur)
      <3>1. Interval(0 + 1, 0) = <<>>
        <4>1. 0 + 1 \in Nat /\ (0 + 1) - 1 = 0
          OBVIOUS
        <4> QED  BY <4>1, ShortIntervals
      <3>2. LiveAt(frames[cur])'
        <4>1. 0 <= Len(frames[cur]) /\ frames'[cur'] = frames[cur]
          BY <1>1, <1>2
        <4>2. 0 + 1 .. 0 = {} /\ 1 .. 0 = {}
          OBVIOUS
        <4>3. {i \in 1 .. Flushed : Opened(frames[cur], i)}' = {}
          BY <1>6, <4>2
        <4> QED  BY <1>2, <1>5, <1>6, <3>1, <4>1, <4>2, <4>3 DEF LiveAt
      <3> QED  BY <1>2, <2>2, <3>2 DEF CurInv
    <2> QED  BY <2>1, <2>2
  <1>8. OutInv'
    <2>1. NextPlace' = <<cur, 1>>
      BY <1>2, <1>6, NextPlacesAfter
    <2> QED  BY <1>1, <1>2, <2>1 DEF OutInv
  <1> QED  BY <1>3, <1>4, <1>7, <1>8 DEF ChunkInv

(* The chunk being emitted is whole once a run has been sent that makes    *)
(* what was heard of it what is wanted of it.                              *)
LEMMA EmittedStep ==
  ASSUME ChunkInv, TypeInv', pc \notin Over, pc' = "emitted", cur' = cur, done' = done,
         errors' = errors, frames' = frames, ending' = ending, done[cur],
         NEW a \in Nat, NEW b \in Int, RunSent(out, out', cur, a, b),
         Heard(cur) \cup (a .. b) \in Wanted(cur)
  PROVE  ChunkInv'
  <1>1. TypeInv /\ EndInv /\ PastInv /\ cur \in Chunks
    BY ConsumerFacts
  <1>2. /\ out' \in Seq(Chunks \X Nat) /\ Sorted(out') /\ Below(out', <<cur, b + 1>>)
        /\ HeardIn(out', cur) = HeardIn(out, cur) \cup (a .. b)
        /\ \A k \in Chunks : k # cur => HeardIn(out', k) = HeardIn(out, k)
    BY DEF RunSent
  <1>3. EndInv'
    BY <1>1 DEF EndInv
  <1>4. PastInv'
    <2>1. \A k \in Chunks : k # cur => Heard(k)' = Heard(k)
      BY <1>2, HeardOut
    <2>2. ending' # "clean"
      BY <1>1 DEF EndInv
    <2> QED  BY <1>1, <2>1, <2>2, PastStays
  <1>5. Whole(cur)'
    <2>1. Heard(cur)' = Heard(cur) \cup (a .. b)
      BY <1>2, HeardOut DEF Heard, HeardIn
    <2>2. Wanted(cur)' = Wanted(cur)
      BY DEF Wanted
    <2> QED  BY <2>1, <2>2 DEF Whole
  <1>6. CurInv'
    BY <1>5 DEF CurInv
  <1>7. OutInv'
    <2>1. Below(out', <<cur + 1, 0>>)
      <3>1. \A i \in DOMAIN out' : out'[i][1] \in Nat
        <4>1. \A i \in DOMAIN out' : out'[i] \in Chunks \X Nat
          BY <1>2
        <4> QED  BY <4>1 DEF Chunks
      <3>2. \A i \in DOMAIN out' : out'[i][1] < cur \/ out'[i][1] = cur
        BY <1>2 DEF Below, Before
      <3>3. cur \in Nat
        BY <1>1 DEF Chunks
      <3>4. \A i \in DOMAIN out' : out'[i][1] < cur + 1
        BY <3>1, <3>2, <3>3
      <3> QED  BY <3>4 DEF Below, Before
    <2> QED  BY <1>2, <2>1, NextPlacesAfter DEF OutInv
  <1> QED  BY <1>3, <1>4, <1>6, <1>7 DEF ChunkInv

(* The whole speech of a finished chunk goes out in one run.               *)
LEMMA EmitExactStep ==
  ASSUME ChunkInv, TypeInv', EmitExact
  PROVE  ChunkInv'
  <1>1. /\ TypeInv /\ CurInv /\ Sorted(out) /\ Below(out, <<cur, 1>>)
        /\ out \in Seq(Chunks \X Nat) /\ cur \in Chunks /\ cur \in Nat
        /\ frames[cur] \in Seq(BOOLEAN)
    BY ConsumerFacts, NextPlaces DEF EmitExact
  <1>2. /\ pc = "exact" /\ pc \notin Over /\ pc' = "emitted" /\ cur' = cur /\ done' = done
        /\ errors' = errors /\ frames' = frames /\ ending' = ending
        /\ out' = out \o Frames(cur, Trimmed(frames[cur]))
    BY DEF EmitExact, Over, production
  <1>3. done[cur] /\ Normalize /\ Heard(cur) = GapOf(cur)
    BY <1>1, <1>2 DEF CurInv, Exact
  <1>4. PICK a \in Nat \ {0}, b \in Nat :
                /\ b >= a - 1 /\ Trimmed(frames[cur]) = Interval(a, b)
                /\ Voiced(frames[cur]) = {} => a = 1 /\ b = Len(frames[cur])
                /\ Voiced(frames[cur]) # {} => /\ a = Min(Voiced(frames[cur]))
                                               /\ b = Max(Voiced(frames[cur]))
    BY <1>1, TrimmedRun
  <1>5. a \in Nat /\ b \in Int /\ 1 \in Nat /\ 1 <= a
    BY <1>4
  <1>6. Below(out, <<cur, a>>)
    BY <1>1, <1>5, BelowLater
  <1>7. RunSent(out, out \o Frames(cur, Interval(a, b)), cur, a, b)
    BY <1>1, <1>4, <1>5, <1>6, EmitFacts, Zenon
  <1>8. RunSent(out, out', cur, a, b)
    BY <1>2, <1>4, <1>7, Zenon
  <1>9. a .. b \in WantedBody(frames[cur])
    <2>1. DOMAIN frames[cur] = 1 .. Len(frames[cur])
      BY <1>1
    <2> QED  BY <1>3, <1>4, <2>1 DEF WantedBody
  <1>10. Heard(cur) \cup (a .. b) \in Wanted(cur)
    BY <1>3, <1>9, WantedFact
  <1> QED  BY <1>2, <1>3, <1>5, <1>8, <1>10, EmittedStep

(* The live path ends with the speech in its buffer.                       *)
LEMMA EmitRestStep ==
  ASSUME ChunkInv, TypeInv', EmitRest
  PROVE  ChunkInv'
  <1>1. /\ TypeInv /\ CurInv /\ Sorted(out) /\ Below(out, <<cur, Flushed + 1>>)
        /\ out \in Seq(Chunks \X Nat) /\ cur \in Chunks
    BY ConsumerFacts, NextPlaces DEF EmitRest
  <1>2. /\ pc = "live" /\ pc \notin Over /\ pc' = "emitted" /\ cur' = cur /\ done' = done
        /\ errors' = errors /\ frames' = frames /\ ending' = ending
        /\ out' = out \o Frames(cur, buf) /\ idx = Len(frames[cur]) /\ done[cur]
    BY DEF EmitRest, Over, production
  <1>3. LiveAt(frames[cur])
    BY <1>1, <1>2 DEF CurInv
  <1> DEFINE a == Flushed + 1
             b == Reached
  <1>4. /\ Flushed \in Nat /\ Reached \in Nat /\ buf = Interval(a, b)
        /\ Heard(cur) = GapOf(cur) \cup {i \in 1 .. Flushed : Opened(frames[cur], i)}
    BY <1>3 DEF LiveAt
  <1>5. a \in Nat /\ b \in Int /\ b >= a - 1
    <2>1. Len(buf) \in Nat
      BY <1>1 DEF TypeInv
    <2> QED  BY <1>4, <2>1 DEF Flushed
  <1>6. Heard(cur) \cup (a .. b) \in Wanted(cur)
    BY <1>1, <1>2, <1>3, <1>4, LiveWanted
  <1>7. Below(out, <<cur, a>>)
    BY <1>1
  <1> HIDE DEF a, b
  <1>8. RunSent(out, out \o Frames(cur, Interval(a, b)), cur, a, b)
    BY <1>1, <1>5, <1>7, EmitFacts, Zenon
  <1>9. RunSent(out, out', cur, a, b)
    BY <1>2, <1>4, <1>8, Zenon
  <1> QED  BY <1>2, <1>5, <1>6, <1>9, EmittedStep

(* Waiting for more of a chunk changes nothing that was sent.              *)
LEMMA WaitStep ==
  ASSUME ChunkInv, TypeInv', Wait \/ Woken \/ Timeout
  PROVE  ChunkInv'
  <1>1. TypeInv /\ EndInv /\ PastInv /\ CurInv /\ Sorted(out) /\ Below(out, NextPlace)
        /\ cur \in Chunks
    BY ConsumerFacts
  <1>2. /\ pc \in {"live", "wait"} /\ pc' \in {"live", "wait"} /\ cur' = cur /\ done' = done
        /\ errors' = errors /\ frames' = frames /\ ending' = ending /\ out' = out
        /\ idx' = idx /\ buf' = buf /\ held' = held
    BY DEF Wait, Woken, Timeout, production, live
  <1>3. EndInv'
    BY <1>1, <1>2 DEF EndInv, Over
  <1>4. PastInv'
    <2>1. \A k \in Chunks : k # cur => Heard(k)' = Heard(k)
      BY <1>2, HeardStays
    <2>2. ending' # "clean" /\ pc \notin Over
      BY <1>1, <1>2 DEF EndInv, Over
    <2> QED  BY <1>1, <1>2, <2>1, <2>2, PastStays
  <1>5. LiveAt(frames[cur])'
    <2>1. frames[cur] \in Seq(BOOLEAN) /\ Len(frames[cur]) \in Nat
      BY <1>1 DEF TypeInv
    <2>2. LiveAt(frames[cur])
      BY <1>1, <1>2 DEF CurInv
    <2>3. Len(frames[cur]) <= Len(frames'[cur]) /\ Len(frames'[cur]) \in Nat
      BY <1>2, <2>1
    <2> QED  BY <1>1, <1>2, <2>2, <2>3, LiveGrows
  <1>6. CurInv'
    BY <1>2, <1>5 DEF CurInv
  <1>7. OutInv'
    <2>1. NextPlace = <<cur, Flushed + 1>> /\ NextPlace' = <<cur', Flushed' + 1>>
      BY <1>2, NextPlaces, NextPlacesAfter
    <2>2. Flushed' = Flushed
      BY <1>2 DEF Flushed, Reached
    <2> QED  BY <1>1, <1>2, <2>1, <2>2 DEF OutInv
  <1> QED  BY <1>3, <1>4, <1>6, <1>7 DEF ChunkInv

-----------------------------------------------------------------------------
(* The live loop takes a frame: what it holds, by places.                  *)
LEMMA LivePlaces ==
  ASSUME TypeInv, LiveAt(frames[cur])
  PROVE  /\ Flushed \in Nat /\ Reached \in Nat /\ idx \in Nat
         /\ Flushed <= Reached /\ Reached <= idx
         /\ Len(buf) = Reached - Flushed /\ Len(held) = idx - Reached
         /\ buf = Interval(Flushed + 1, Reached) /\ held = Interval(Reached + 1, idx)
  <1>1. /\ Flushed \in Nat /\ Reached \in Nat /\ idx \in Nat
        /\ buf = Interval(Flushed + 1, Reached) /\ held = Interval(Reached + 1, idx)
    BY DEF LiveAt, TypeInv
  <1>2. Len(buf) \in Nat /\ Len(held) \in Nat
    BY DEF TypeInv
  <1>3. Flushed = Reached - Len(buf) /\ Reached = idx - Len(held)
    BY DEF Flushed, Reached
  <1> HIDE DEF Flushed, Reached
  <1> QED  BY <1>1, <1>2, <1>3

(* Frames taken so far, one more of them, and whether speech has begun.    *)
LEMMA OpenedFacts ==
  ASSUME NEW f \in Seq(BOOLEAN), NEW i \in Nat
  PROVE  /\ Opened(f, i) => Opened(f, i + 1)
         /\ i + 1 <= Len(f) /\ f[i + 1] => Opened(f, i + 1)
         /\ ~Opened(f, i) /\ ~f[i + 1] => ~Opened(f, i + 1)
         /\ ~Opened(f, i) => \A j \in 1 .. i : ~Opened(f, j)
         /\ Opened(f, i) => \A j \in Nat : j >= i => Opened(f, j)
  <1>1. /\ \A j \in 1 .. i : j \in 1 .. i + 1
        /\ \A j \in 1 .. i + 1 : j \in 1 .. i \/ j = i + 1
        /\ i + 1 \in 1 .. i + 1
    OBVIOUS
  <1>2. ~Opened(f, i) => \A j \in 1 .. i : ~Opened(f, j)
    <2>1. \A j \in 1 .. i : \A n \in 1 .. j : n \in 1 .. i
      OBVIOUS
    <2> QED  BY <2>1 DEF Opened
  <1>3. ASSUME Opened(f, i), NEW j \in Nat, j >= i PROVE Opened(f, j)
    <2>1. \A n \in 1 .. i : n \in 1 .. j
      BY <1>3
    <2> QED  BY <1>3, <2>1 DEF Opened
  <1> QED  BY <1>1, <1>2, <1>3 DEF Opened

(* A silent frame is held back, or dropped before the speech begins.       *)
LEMMA TakeSilenceStep ==
  ASSUME ChunkInv, TypeInv', TakeSilence
  PROVE  ChunkInv'
  <1> DEFINE f == frames[cur]
             h == Flushed
             m == Reached
  <1>1. /\ TypeInv /\ EndInv /\ PastInv /\ CurInv /\ Sorted(out) /\ Below(out, <<cur, h + 1>>)
        /\ out \in Seq(Chunks \X Nat) /\ cur \in Chunks /\ cur \in Nat
        /\ f \in Seq(BOOLEAN)
    BY ConsumerFacts, NextPlaces DEF TakeSilence
  <1>2. /\ pc = "live" /\ pc \notin Over /\ pc' = pc /\ cur' = cur /\ done' = done
        /\ errors' = errors /\ frames' = frames /\ ending' = ending /\ out' = out
        /\ buf' = buf /\ idx' = idx + 1 /\ idx < Len(f) /\ Normalize /\ ~f[idx + 1]
        /\ held' = IF Voiced(SubSeq(f, 1, idx)) = {} THEN held ELSE Append(held, idx + 1)
    BY DEF TakeSilence, Over, production
  <1>3. LiveAt(f)
    BY <1>1, <1>2 DEF CurInv
  <1>4. /\ h \in Nat /\ m \in Nat /\ idx \in Nat /\ h <= m /\ m <= idx
        /\ Len(buf) = m - h /\ Len(held) = idx - m
        /\ buf = Interval(h + 1, m) /\ held = Interval(m + 1, idx)
    BY <1>1, <1>3, LivePlaces
  <1>5. /\ h < idx => Opened(f, h + 1)
        /\ \A i \in m + 1 .. idx : ~f[i]
        /\ m > 0 /\ Opened(f, m) => f[m]
        /\ Heard(cur) = GapOf(cur) \cup {i \in 1 .. h : Opened(f, i)}
    BY <1>2, <1>3 DEF LiveAt
  <1>6. Flushed' = Reached' - Len(buf) /\ Reached' = (idx + 1) - Len(held')
    BY <1>2 DEF Flushed, Reached
  <1>7. EndInv'
    BY <1>1, <1>2 DEF EndInv, Over
  <1>8. PastInv'
    <2>1. \A k \in Chunks : k # cur => Heard(k)' = Heard(k)
      BY <1>2, HeardStays
    <2>2. ending' # "clean"
      BY <1>1, <1>2 DEF EndInv
    <2> QED  BY <1>1, <1>2, <2>1, <2>2, PastStays
  <1>9. Heard(cur)' = Heard(cur) /\ GapOf(cur)' = GapOf(cur) /\ frames'[cur'] = f
    BY <1>2 DEF Heard, GapOf
  <1>10. Len(f) \in Nat /\ DOMAIN f = 1 .. Len(f)
    BY <1>1
  <1> HIDE DEF f, h, m
  <1>11. Opened(f, idx) <=> Voiced(SubSeq(f, 1, idx)) # {}
    <2> DEFINE s == SubSeq(f, 1, idx)
    <2>1. idx \in 0 .. Len(f)
      BY <1>2, <1>4, <1>10
    <2>2. Len(s) = idx /\ \A i \in 1 .. idx : s[i] = f[i]
      BY <1>1, <2>1, <1>10, SubSeqProperties
    <2>3. s \in Seq(BOOLEAN)
      BY <1>1, <2>1, <1>10, SubSeqProperties
    <2> HIDE DEF s
    <2>4. DOMAIN s = 1 .. idx
      BY <2>2, <2>3
    <2>5. Voiced(s) # {} <=> \E i \in 1 .. idx : f[i]
      BY <2>2, <2>4 DEF Voiced
    <2> QED  BY <1>2, <2>5 DEF Opened, s
  <1>12. CASE Opened(f, idx)
    <2>1. held' = Interval(m + 1, idx + 1) /\ Len(held') = (idx + 1) - m
      <3>1. held' = Append(held, idx + 1)
        BY <1>2, <1>11, <1>12
      <3>2. /\ m + 1 \in Nat /\ idx \in Int /\ idx + 1 \in Int /\ idx + 1 \in Nat
            /\ idx >= (m + 1) - 1 /\ idx + 1 >= idx
        BY <1>4
      <3>3. Interval(m + 1, idx) \o Interval(idx + 1, idx + 1) = Interval(m + 1, idx + 1)
        BY <3>2, IntervalJoin
      <3>4. Interval(idx + 1, idx + 1) = <<idx + 1>>
        BY <3>2, ShortIntervals
      <3>5. held \in Seq(Nat)
        BY <1>1 DEF TypeInv
      <3>6. Append(held, idx + 1) = held \o <<idx + 1>>
        BY <3>2, <3>5, AppendIsConcat
      <3>7. Len(held') = Len(held) + 1
        BY <3>1, <3>2, <3>5, AppendProperties
      <3>8. held' = Interval(m + 1, idx + 1)
        BY <1>4, <3>1, <3>3, <3>4, <3>6
      <3>9. Len(held') = (idx + 1) - m
        BY <1>4, <3>7
      <3> QED  BY <3>8, <3>9
    <2>2. Reached' = m /\ Flushed' = h
      BY <1>4, <1>6, <2>1
    <2>3. h < idx + 1 => Opened(f, h + 1)
      <3>1. CASE h < idx
        BY <1>5, <3>1
      <3>2. CASE h = idx
        BY <1>1, <1>4, <1>12, <3>2, OpenedFacts
      <3> QED  BY <1>4, <3>1, <3>2
    <2>4. \A i \in m + 1 .. idx + 1 : ~f[i]
      <3>1. \A i \in m + 1 .. idx + 1 : i \in m + 1 .. idx \/ i = idx + 1
        BY <1>4
      <3> QED  BY <1>2, <1>5, <3>1
    <2>5. idx + 1 <= Len(f)
      BY <1>2, <1>4, <1>10
    <2>6. {i \in 1 .. Flushed : Opened(frames[cur], i)}' = {i \in 1 .. h : Opened(f, i)}
      BY <1>9, <2>2 DEF Opened
    <2>7. LiveAt(frames[cur])'
      BY <1>2, <1>4, <1>5, <1>9, <2>1, <2>2, <2>3, <2>4, <2>5, <2>6 DEF LiveAt, Opened
    <2>8. CurInv'
      BY <1>2, <2>7 DEF CurInv
    <2>9. OutInv'
      BY <1>1, <1>2, <2>2, NextPlacesAfter DEF OutInv
    <2> QED  BY <1>7, <1>8, <2>8, <2>9 DEF ChunkInv
  <1>13. CASE ~Opened(f, idx)
    <2>1. h = idx /\ m = idx
      <3>1. ASSUME h < idx PROVE FALSE
        <4>1. Opened(f, h + 1) /\ h + 1 \in 1 .. idx
          BY <1>4, <1>5, <3>1
        <4> QED  BY <1>1, <1>4, <1>13, <4>1, OpenedFacts
      <3> QED  BY <1>4, <3>1
    <2>2. held' = held /\ Len(held) = 0
      BY <1>2, <1>4, <1>11, <1>13, <2>1
    <2>3. Reached' = idx + 1 /\ Flushed' = idx + 1
      BY <1>4, <1>6, <2>1, <2>2
    <2>4. ~Opened(f, idx + 1)
      BY <1>1, <1>2, <1>4, <1>13, OpenedFacts
    <2>5. buf = Interval((idx + 1) + 1, idx + 1) /\ held = Interval((idx + 1) + 1, idx + 1)
      <3>1. /\ (idx + 1) + 1 \in Nat /\ ((idx + 1) + 1) - 1 = idx + 1
            /\ idx + 1 \in Nat /\ (idx + 1) - 1 = idx
        BY <1>4
      <3>2. Interval((idx + 1) + 1, idx + 1) = <<>>
        BY <3>1, ShortIntervals
      <3>3. Interval(idx + 1, idx) = <<>>
        BY <3>1, ShortIntervals
      <3> QED  BY <1>4, <2>1, <3>2, <3>3
    <2>6. {i \in 1 .. Flushed : Opened(frames[cur], i)}' = {i \in 1 .. h : Opened(f, i)}
      <3>1. \A i \in 1 .. idx + 1 : ~Opened(f, i)
        BY <1>1, <1>4, <2>4, OpenedFacts
      <3>2. \A i \in 1 .. idx : ~Opened(f, i)
        BY <1>1, <1>4, <1>13, OpenedFacts
      <3>3. {i \in 1 .. Flushed : Opened(frames[cur], i)}' = {i \in 1 .. idx + 1 : Opened(f, i)}
        BY <1>9, <2>3 DEF Opened
      <3> QED  BY <2>1, <3>1, <3>2, <3>3
    <2>7. idx + 1 <= Len(f) /\ idx + 1 \in Nat /\ ~(idx + 1 < idx + 1)
          /\ (idx + 1) + 1 .. idx + 1 = {}
      BY <1>2, <1>4, <1>10
    <2>8. LiveAt(frames[cur])'
      BY <1>2, <1>5, <1>9, <2>2, <2>3, <2>4, <2>5, <2>6, <2>7 DEF LiveAt, Opened
    <2>9. CurInv'
      BY <1>2, <2>8 DEF CurInv
    <2>10. OutInv'
      <3>1. Below(out, <<cur, (idx + 1) + 1>>)
        <4>1. h + 1 \in Nat /\ (idx + 1) + 1 \in Nat /\ h + 1 <= (idx + 1) + 1
          BY <1>4, <2>1
        <4> QED  BY <1>1, <4>1, BelowLater
      <3> QED  BY <1>1, <1>2, <2>3, <3>1, NextPlacesAfter DEF OutInv
    <2> QED  BY <1>7, <1>8, <2>9, <2>10 DEF ChunkInv
  <1> QED  BY <1>12, <1>13

(* A voiced frame opens the speech, or goes on with what was held before it.*)
LEMMA TakeFrameStep ==
  ASSUME ChunkInv, TypeInv', TakeFrame
  PROVE  ChunkInv'
  <1> DEFINE f == frames[cur]
             h == Flushed
             m == Reached
             n == idx + 1
             kept == Kept(n)
  <1>1. /\ TypeInv /\ EndInv /\ PastInv /\ CurInv /\ Sorted(out) /\ Below(out, <<cur, h + 1>>)
        /\ out \in Seq(Chunks \X Nat) /\ cur \in Chunks /\ cur \in Nat
        /\ f \in Seq(BOOLEAN)
    BY ConsumerFacts, NextPlaces DEF TakeFrame
  <1>2. /\ pc = "live" /\ pc \notin Over /\ pc' = pc /\ cur' = cur /\ done' = done
        /\ errors' = errors /\ frames' = frames /\ ending' = ending
        /\ idx' = n /\ held' = <<>> /\ idx < Len(f) /\ (Normalize => f[n])
        /\ \/ out' = out \o Frames(cur, kept) /\ buf' = <<>>
           \/ out' = out /\ buf' = kept
    BY DEF TakeFrame, Over, production
  <1>3. LiveAt(f)
    BY <1>1, <1>2 DEF CurInv
  <1>4. /\ h \in Nat /\ m \in Nat /\ idx \in Nat /\ h <= m /\ m <= idx
        /\ buf = Interval(h + 1, m) /\ held = Interval(m + 1, idx)
    BY <1>1, <1>3, LivePlaces
  <1>5. /\ h < idx => Opened(f, h + 1)
        /\ Heard(cur) = GapOf(cur) \cup {i \in 1 .. h : Opened(f, i)}
    BY <1>2, <1>3 DEF LiveAt
  <1>6. Reached' = n /\ Flushed' = n - Len(buf')
    <2>1. Len(<<>>) = 0 /\ n \in Nat
      BY <1>4
    <2>2. Len(held') = 0
      BY <1>2, <2>1
    <2>3. Reached' = n - 0
      BY <1>2, <2>2, Zenon DEF Reached
    <2>4. Reached' = n
      BY <2>1, <2>3
    <2> QED  BY <2>4 DEF Flushed
  <1>7. EndInv'
    BY <1>1, <1>2 DEF EndInv, Over
  <1>8. Len(f) \in Nat /\ DOMAIN f = 1 .. Len(f) /\ n \in Nat /\ n <= Len(f) /\ n > 0
    <2>1. Len(f) \in Nat /\ DOMAIN f = 1 .. Len(f)
      BY <1>1
    <2> HIDE DEF f
    <2> QED  BY <1>2, <1>4, <2>1
  <1>9. ending' # "clean" /\ GapOf(cur)' = GapOf(cur) /\ frames'[cur'] = f
    BY <1>1, <1>2 DEF EndInv, GapOf
  <1>10. kept = Interval(h + 1, n)
    <2> HIDE DEF h, m
    <2>1. /\ h + 1 \in Nat /\ m \in Int /\ idx \in Int /\ n \in Int /\ n \in Nat
          /\ m >= (h + 1) - 1 /\ idx >= m /\ idx >= (h + 1) - 1 /\ n >= idx
      BY <1>4
    <2>2. buf \o held = Interval(h + 1, idx)
      BY <1>4, <2>1, IntervalJoin
    <2>3. <<n>> = Interval(n, n)
      BY <2>1, ShortIntervals
    <2>4. Interval(h + 1, idx) \o Interval(idx + 1, n) = Interval(h + 1, n)
      BY <2>1, IntervalJoin
    <2> QED  BY <2>2, <2>3, <2>4 DEF Kept
  <1> HIDE DEF f, h, m, kept
  <1>11. Opened(f, n) /\ (~Normalize \/ f[n])
    BY <1>1, <1>2, <1>4, <1>8, OpenedFacts DEF Opened
  <1>12. Opened(f, h + 1)
    BY <1>4, <1>5, <1>11
  <1>13. n + 1 .. n = {} /\ Interval(n + 1, n) = <<>>
    <2>1. n + 1 \in Nat /\ (n + 1) - 1 = n
      BY <1>8
    <2> QED  BY <1>8, <2>1, ShortIntervals
  <1>14. CASE out' = out \o Frames(cur, kept) /\ buf' = <<>>
    <2>1. Flushed' = n
      <3>1. Len(buf') = 0
        BY <1>14
      <3> QED  BY <1>6, <1>8, <3>1
    <2>2. RunSent(out, out', cur, h + 1, n)
      <3>1. h + 1 \in Nat /\ n \in Int /\ n >= (h + 1) - 1
        BY <1>4, <1>8
      <3>2. RunSent(out, out \o Frames(cur, Interval(h + 1, n)), cur, h + 1, n)
        BY <1>1, <3>1, EmitFacts, Zenon
      <3> QED  BY <1>10, <1>14, <3>2, Zenon
    <2>3. /\ Sorted(out') /\ Below(out', <<cur, n + 1>>)
          /\ HeardIn(out', cur) = HeardIn(out, cur) \cup (h + 1 .. n)
          /\ \A k \in Chunks : k # cur => HeardIn(out', k) = HeardIn(out, k)
      BY <2>2 DEF RunSent
    <2>4. PastInv'
      <3>1. \A k \in Chunks : k # cur => Heard(k)' = Heard(k)
        BY <2>3, HeardOut
      <3> QED  BY <1>1, <1>2, <1>9, <3>1, PastStays
    <2>5. Heard(cur)' = GapOf(cur) \cup {i \in 1 .. n : Opened(f, i)}
      <3>1. Heard(cur)' = Heard(cur) \cup (h + 1 .. n)
        BY <1>2, <2>3, HeardOut DEF Heard, HeardIn
      <3>2. \A i \in h + 1 .. n : Opened(f, i)
        <4>1. h + 1 \in Nat /\ \A i \in h + 1 .. n : i \in Nat /\ i >= h + 1
          BY <1>4
        <4> QED  BY <1>1, <1>12, <4>1, OpenedFacts
      <3>3. \A i : i \in 1 .. n <=> i \in 1 .. h \/ i \in h + 1 .. n
        BY <1>4, <1>8
      <3> QED  BY <1>5, <3>1, <3>2, <3>3
    <2>6. {i \in 1 .. Flushed : Opened(frames[cur], i)}' = {i \in 1 .. n : Opened(f, i)}
      BY <1>9, <2>1 DEF Opened
    <2>7. LiveAt(frames[cur])'
      <3>1. ~(n < n)
        BY <1>8
      <3> QED  BY <1>2, <1>6, <1>8, <1>9, <1>11, <1>13, <1>14, <2>1, <2>5, <2>6, <3>1
               DEF LiveAt, Opened
    <2>8. CurInv'
      BY <1>2, <2>7 DEF CurInv
    <2>9. OutInv'
      BY <1>2, <2>1, <2>3, NextPlacesAfter DEF OutInv
    <2> QED  BY <1>7, <2>4, <2>8, <2>9 DEF ChunkInv
  <1>15. CASE out' = out /\ buf' = kept
    <2>1. Flushed' = h
      <3>1. h + 1 \in Nat /\ n \in Int /\ n >= (h + 1) - 1
        BY <1>4, <1>8
      <3>2. Len(buf') = n - (h + 1) + 1
        BY <1>10, <1>15, <3>1, IntervalFacts
      <3> QED  BY <1>4, <1>6, <1>8, <3>2
    <2>2. \A k : Heard(k)' = Heard(k)
      BY <1>15, HeardStays
    <2>3. Heard(cur)' = Heard(cur)
      BY <1>2, <1>15 DEF Heard
    <2>4. PastInv'
      BY <1>1, <1>2, <1>9, <2>2, PastStays
    <2>5. {i \in 1 .. Flushed : Opened(frames[cur], i)}' = {i \in 1 .. h : Opened(f, i)}
      BY <1>9, <2>1 DEF Opened
    <2>6. LiveAt(frames[cur])'
      <3>1. ~(n < n)
        BY <1>8
      <3> QED  BY <1>2, <1>4, <1>5, <1>6, <1>8, <1>9, <1>10, <1>11, <1>12, <1>13, <1>15, <2>1,
                  <2>3, <2>5, <3>1 DEF LiveAt, Opened
    <2>7. CurInv'
      BY <1>2, <2>6 DEF CurInv
    <2>8. OutInv'
      BY <1>1, <1>2, <1>15, <2>1, NextPlacesAfter DEF OutInv
    <2> QED  BY <1>7, <2>4, <2>7, <2>8 DEF ChunkInv
  <1> QED  BY <1>2, <1>14, <1>15

(* A chunk is over: the next one begins, or the stream ends.               *)
LEMMA NextChunkStep ==
  ASSUME ChunkInv, TypeInv', NextChunk
  PROVE  ChunkInv'
  <1>1. /\ TypeInv /\ EndInv /\ PastInv /\ CurInv /\ Sorted(out) /\ Below(out, <<cur + 1, 0>>)
        /\ out \in Seq(Chunks \X Nat) /\ cur \in Chunks /\ cur \in Nat
    BY ConsumerFacts, BelowNext
  <1>2. /\ pc = "emitted" /\ pc \notin Over /\ done' = done /\ errors' = errors
        /\ frames' = frames /\ out' = out /\ idx' = idx /\ buf' = buf /\ held' = held
    BY DEF NextChunk, Over, live
  <1>3. Whole(cur) /\ ending = "none"
    BY <1>1, <1>2 DEF CurInv, EndInv
  <1>4. CASE cur \in errors
    <2>1. pc' = "cleanup" /\ ending' = "error" /\ cur' = cur
      BY <1>4 DEF NextChunk, Leave
    <2> QED  BY <1>2, <2>1, LeavingStep
  <1>5. \A k \in Chunks : Whole(k) => Whole(k)'
    <2>1. \A k \in Chunks : Heard(k)' = Heard(k)
      BY <1>2, HeardStays
    <2>2. \A k \in Chunks : Whole(k) => done'[k]
      BY <1>2 DEF Whole
    <2> QED  BY <1>2, <2>1, <2>2, WholeStays
  <1>6. \A k \in Chunks : k < cur => Whole(k) /\ k \notin errors
    BY <1>1 DEF PastInv
  <1>7. CASE cur \notin errors /\ cur = N
    <2>1. pc' = "cleanup" /\ ending' = "clean" /\ cur' = cur
      BY <1>7 DEF NextChunk, Leave
    <2>2. \A k \in Chunks : k < cur \/ k = cur
      BY <1>7, NFact DEF Chunks
    <2>3. EndInv' /\ CurInv'
      BY <1>1, <1>2, <2>1 DEF EndInv, CurInv, Over
    <2>4. PastInv'
      BY <1>2, <1>3, <1>5, <1>6, <1>7, <2>2 DEF PastInv
    <2>5. OutInv'
      BY <1>1, <1>2, <2>1, NextPlacesAfter DEF OutInv
    <2> QED  BY <2>3, <2>4, <2>5 DEF ChunkInv
  <1>8. CASE cur \notin errors /\ cur # N
    <2>1. pc' = "boundary" /\ ending' = ending /\ cur' = cur + 1
      BY <1>8 DEF NextChunk
    <2>2. \A k \in Chunks : k < cur + 1 => k < cur \/ k = cur
      BY <1>1 DEF Chunks
    <2>3. EndInv' /\ CurInv'
      BY <1>1, <1>2, <1>3, <2>1 DEF EndInv, CurInv, Over
    <2>4. PastInv'
      BY <1>2, <1>3, <1>5, <1>6, <1>8, <2>1, <2>2 DEF PastInv
    <2>5. OutInv'
      BY <1>1, <1>2, <2>1, NextPlacesAfter DEF OutInv
    <2> QED  BY <2>3, <2>4, <2>5 DEF ChunkInv
  <1> QED  BY <1>4, <1>7, <1>8

(* After the clean-up, and when nothing happens.                           *)
LEMMA QuietStep ==
  ASSUME ChunkInv, TypeInv', CleanedUp \/ UNCHANGED vars
  PROVE  ChunkInv'
  <1>1. TypeInv /\ EndInv /\ PastInv /\ CurInv /\ OutInv
    BY DEF ChunkInv
  <1>2. /\ cur' = cur /\ done' = done /\ errors' = errors /\ frames' = frames
        /\ ending' = ending /\ out' = out /\ idx' = idx /\ buf' = buf /\ held' = held
        /\ pc' = pc \/ (pc = "cleanup" /\ pc' = "end")
    BY DEF CleanedUp, vars, production, live
  <1>3. NextPlace' = NextPlace
    BY <1>2 DEF NextPlace, Flushed, Reached
  <1>4. EndInv' /\ OutInv'
    BY <1>1, <1>2, <1>3 DEF EndInv, OutInv, Over
  <1>7. \A k \in Chunks : Whole(k) => Whole(k)'
    <2>1. \A k \in Chunks : Heard(k)' = Heard(k)
      BY <1>2, HeardStays
    <2>2. \A k \in Chunks : Whole(k) => done'[k]
      BY <1>2 DEF Whole
    <2> QED  BY <1>2, <2>1, <2>2, WholeStays
  <1>5. PastInv'
    BY <1>1, <1>2, <1>7 DEF PastInv
  <1>6. CurInv'
    <2>1. CASE pc' = pc
      <3>1. cur \in Chunks /\ Len(frames[cur]) \in Nat
        BY <1>1 DEF TypeInv
      <3>2. Whole(cur) => Whole(cur)'
        <4>1. Wanted(cur)' = Wanted(cur) /\ Heard(cur)' = Heard(cur)
          BY <1>2 DEF Wanted, Heard
        <4> QED  BY <1>2, <4>1 DEF Whole
      <3>3. /\ GapOf(cur)' = GapOf(cur) /\ Heard(cur)' = Heard(cur)
            /\ Exact(cur) => Exact(cur)'
        BY <1>2 DEF GapOf, Heard, Exact
      <3>4. LiveAt(frames[cur]) => LiveAt(frames[cur])'
        <4>1. frames'[cur] = frames[cur] /\ Len(frames[cur]) <= Len(frames[cur])
          BY <1>2, <3>1
        <4> QED  BY <1>1, <1>2, <3>1, <4>1, LiveGrows
      <3> QED  BY <1>1, <1>2, <2>1, <3>2, <3>3, <3>4 DEF CurInv
    <2>2. CASE pc' = "end"
      BY <2>2 DEF CurInv
    <2> QED  BY <1>2, <2>1, <2>2
  <1> QED  BY <1>4, <1>5, <1>6 DEF ChunkInv

(* Every step keeps the invariant.                                         *)
LEMMA ChunkStep == ChunkInv /\ [Next]_vars => ChunkInv'
  <1> SUFFICES ASSUME ChunkInv, [Next]_vars PROVE ChunkInv'
    OBVIOUS
  <1>1. TypeInv'
    BY TypeStep DEF ChunkInv
  <1>2. CASE \E k \in Chunks : Producer(k)
    BY <1>1, <1>2, ProducerStep
  <1>3. CASE Boundary
    BY <1>1, <1>3, BoundaryStep
  <1>4. CASE ChoosePath
    BY <1>1, <1>4, ChooseStep
  <1>5. CASE EmitExact
    BY <1>1, <1>5, EmitExactStep
  <1>6. CASE TakeSilence
    BY <1>1, <1>6, TakeSilenceStep
  <1>7. CASE TakeFrame
    BY <1>1, <1>7, TakeFrameStep
  <1>8. CASE Wait \/ Woken \/ Timeout
    BY <1>1, <1>8, WaitStep
  <1>9. CASE EmitRest
    BY <1>1, <1>9, EmitRestStep
  <1>10. CASE NextChunk
    BY <1>1, <1>10, NextChunkStep
  <1>11. CASE Disconnect
    <2>1. /\ pc \notin Over /\ pc' = "cleanup" /\ cur' = cur /\ out' = out /\ done' = done
          /\ errors' = errors /\ frames' = frames /\ ending' = "left"
      BY <1>11 DEF Disconnect, Leave, Over, production
    <2> QED  BY <1>1, <2>1, LeavingStep
  <1>12. CASE CleanedUp \/ UNCHANGED vars
    BY <1>1, <1>12, QuietStep
  <1> QED
    BY <1>2, <1>3, <1>4, <1>5, <1>6, <1>7, <1>8, <1>9, <1>10, <1>11, <1>12 DEF Next, Consumer

(* The inductive invariant of the long-form stream: what has been sent of  *)
(* the chunk that is being emitted, on either path, and what is held back. *)
THEOREM ChunkInductive == Spec => []ChunkInv
  BY ChunkInit, ChunkStep, PTL DEF Spec

(* Whatever producers overtake, fail or are cancelled, chunks are heard in *)
(* the order of the text, each whole but for its silent edges, with one    *)
(* gap before it; _stream_chunk_jobs, for every number and length of       *)
(* chunks, every prefetch and every group of frames.                       *)
THEOREM ChunkedWhole == Spec => []ChunksWhole
  <1>1. ChunkInv => ChunksWhole
    BY DEF ChunkInv, PastInv, OutInv, Sorted, Whole, ChunksWhole
  <1> QED  BY <1>1, ChunkInductive, PTL
=============================================================================
