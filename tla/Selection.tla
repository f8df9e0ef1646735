------------------------------ MODULE Selection ------------------------------
(* What a filter keeps of a list: the elements at some of its places, in their *)
(* order; and the sum of what is given for some of them.                       *)
EXTENDS Integers, Sequences, FiniteSets, FiniteSetsExt

PickAt(s, K) ==
    LET upTo(i) == Cardinality({j \in K : j <= i})
    IN  [n \in 1 .. Cardinality(K) |-> s[CHOOSE i \in K : upTo(i) = n]]

SumOver(f, K) == MapThenSumSet(LAMBDA k : f[k], K)
=============================================================================
