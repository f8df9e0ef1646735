--------------------------- MODULE PackingSampler ---------------------------
(* SequencePackingSampler of tts/training/sampler.py over a MixedDataset:     *)
(* each epoch samples every data set by its ratio, orders the sample by       *)
(* length, packs it (all of it, or a rank only its slice) and deals the bins  *)
(* to the ranks, each of which must get as many as the others.                *)
(*                                                                            *)
(* The packing backends take one sequence at a time.  Bins hold at most Cap   *)
(* tokens; a sequence is an index with its length.  They are four             *)
(* bookkeepings of the same bins: a SortedList of (remaining, bin), a linear  *)
(* scan, stacks of bins by remaining capacity over a Fenwick tree of the      *)
(* stacks in use, and the compiled kernel's linked lists over such a tree.    *)
EXTENDS Integers, Sequences, FiniteSets, FiniteSetsExt

CONSTANTS
    Cap,          \* max_seq_len
    Counts,        \* rows of each data set
    Weights,      \* its ratio, before normalisation
    World,        \* world_size
    Lens,         \* bound: lengths of a sequence
    MaxEpochs     \* bound: epochs

ASSUME SamplerAssumption ==
    /\ Cap \in Nat \ {0}
    /\ Len(Counts) = Len(Weights) /\ World \in Nat \ {0}
    /\ Lens \subseteq Nat /\ MaxEpochs \in Nat

VARIABLES
    lengths,      \* dataset.lengths
    rankLocal,    \* rank_local
    epoch,        \* epochs begun
    phase,        \* "select", "pack" or "shard"
    counts,       \* _selection_counts, kept from epoch to epoch
    order,        \* the sample of this epoch, longest first
    placed,       \* how much of it is packed
    lanes,        \* packers: one for all ranks, or one for each
    batches       \* the bins of each rank

samplerVars == <<lengths, rankLocal, epoch, phase, counts, order, placed, lanes,
                 batches>>

-----------------------------------------------------------------------------
Room == 1 .. Cap

-----------------------------------------------------------------------------
(* The Fenwick tree, in Python and compiled.                                  *)

(* idx & -idx                                                                 *)
LowBit(i) == Max({p \in 1 .. i : i % p = 0 /\ \E k \in 0 .. i : p = 2 ^ k})

(* The nodes that count position i, and those whose sum counts 1 .. i.        *)
Above(i) == LET up[j \in 1 .. 2 * Cap] ==
                  IF j > Cap THEN {} ELSE {j} \cup up[j + LowBit(j)]
            IN  up[i]
Below(i) == LET down[j \in 0 .. Cap] ==
                  IF j = 0 THEN {} ELSE {j} \cup down[j - LowBit(j)]
            IN  down[i]

TreeAdd(tree, i, delta) ==
    [j \in Room |-> IF j \in Above(i) THEN tree[j] + delta ELSE tree[j]]
PrefixSum(tree, i) == MapThenSumSet(LAMBDA j : tree[j], Below(i))

TopBit == Max({p \in Room : \E k \in 0 .. Cap : p = 2 ^ k})

(* lower_bound: descend by halving bits.                                      *)
LowerBound(tree, target) ==
    LET walk[bit \in 0 .. TopBit, at \in 0 .. Cap, want \in -Cap .. Cap] ==
          IF bit = 0 THEN at + 1
          ELSE IF at + bit <= Cap /\ tree[at + bit] < want
                 THEN walk[bit \div 2, at + bit, want - tree[at + bit]]
                 ELSE walk[bit \div 2, at, want]
    IN  walk[TopBit, 0, target]

EmptyTree == [j \in Room |-> 0]

-----------------------------------------------------------------------------
(* Putting a sequence into a bin, or a new bin.                               *)
Put(bins, b, idx) == [bins EXCEPT ![b] = Append(@, idx)]
Open(bins, idx) == Append(bins, <<idx>>)

(* _pack_ffd_sorted: sl is the set of <<remaining, bin>>; bisect_left of      *)
(* (seq_len,) finds the least pair with room.                                 *)
Less(x, y) == x[1] < y[1] \/ (x[1] = y[1] /\ x[2] < y[2])
Least(S) == CHOOSE x \in S : \A y \in S : x = y \/ Less(x, y)

Keep(rem, b) == IF rem > 0 THEN {<<rem, b>>} ELSE {}

EmptySorted == [bins |-> <<>>, sl |-> {}]
PlaceSorted(p, idx, len) ==
    LET fitting == {x \in p.sl : x[1] >= len}
        new == Len(p.bins) + 1
    IN  IF len > Cap THEN [p EXCEPT !.bins = Open(@, idx)]
        ELSE IF fitting # {}
          THEN LET x == Least(fitting)
               IN  [bins |-> Put(p.bins, x[2], idx),
                    sl |-> (p.sl \ {x}) \cup Keep(x[1] - len, x[2])]
          ELSE [bins |-> Open(p.bins, idx), sl |-> p.sl \cup Keep(Cap - len, new)]

(* _pack_ffd_linear                                                           *)
EmptyLinear == [bins |-> <<>>, remaining |-> <<>>]
PlaceLinear(p, idx, len) ==
    LET fitting == {b \in DOMAIN p.bins : p.remaining[b] >= len}
    IN  IF len > Cap
          THEN [bins |-> Open(p.bins, idx), remaining |-> Append(p.remaining, 0)]
        ELSE IF fitting # {}
          THEN LET b == Min(fitting)
               IN  [bins |-> Put(p.bins, b, idx),
                    remaining |-> [p.remaining EXCEPT ![b] = @ - len]]
          ELSE [bins |-> Open(p.bins, idx),
                remaining |-> Append(p.remaining, Cap - len)]

(* Where a tree of non-empty capacities sends a sequence: 0 for a new bin.    *)
Need(len) == IF len < 1 THEN 1 ELSE len

(* Mutant: the exact fit is skipped.                                          *)
CapacityPast(tree, len) ==
    LET before == PrefixSum(tree, Need(len))
    IN  IF PrefixSum(tree, Cap) > before THEN LowerBound(tree, before + 1) ELSE 0

Capacity(tree, len) ==
    LET before == PrefixSum(tree, Need(len) - 1)
    IN  IF PrefixSum(tree, Cap) > before THEN LowerBound(tree, before + 1) ELSE 0

(* _pack_bucket: add_bucket and pop_bucket, a stack of bins by capacity.      *)
AddBucket(p, rem, b) ==
    IF rem <= 0 THEN p
    ELSE [p EXCEPT !.buckets[rem] = Append(@, b),
                   !.tree = IF p.buckets[rem] = <<>> THEN TreeAdd(@, rem, 1) ELSE @]
PopBucket(p, rem) ==
    LET rest == SubSeq(p.buckets[rem], 1, Len(p.buckets[rem]) - 1)
    IN  [p EXCEPT !.buckets[rem] = rest,
                  !.tree = IF rest = <<>> THEN TreeAdd(@, rem, -1) ELSE @]

EmptyBucket == [bins |-> <<>>, buckets |-> [r \in Room |-> <<>>], tree |-> EmptyTree]
PlaceBucket(p, idx, len) ==
    LET rem == Capacity(p.tree, len)
        new == Len(p.bins) + 1
    IN  IF len > Cap THEN [p EXCEPT !.bins = Open(@, idx)]
        ELSE IF rem # 0
          THEN LET b == p.buckets[rem][Len(p.buckets[rem])]
               IN  AddBucket([PopBucket(p, rem) EXCEPT !.bins = Put(@, b, idx)],
                             rem - len, b)
          ELSE AddBucket([p EXCEPT !.bins = Open(@, idx)], Cap - len, new)

(* _pack_numba_bucket_kernel: heads and next are the linked lists of bins by  *)
(* capacity, 0 for the end.  Its items are linked backwards and written back  *)
(* in order at the end, which gives the bins.                                 *)
Unlink(p, rem) ==
    LET b == p.heads[rem]
    IN  [p EXCEPT !.heads[rem] = p.next[b],
                  !.next[b] = 0,
                  !.tree = IF p.next[b] = 0 THEN TreeAdd(@, rem, -1) ELSE @]
Link(p, rem, b) ==
    IF rem <= 0 THEN p
    ELSE [p EXCEPT !.tree = IF p.heads[rem] = 0 THEN TreeAdd(@, rem, 1) ELSE @,
                   !.next[b] = p.heads[rem],
                   !.heads[rem] = b]

EmptyKernel == [bins |-> <<>>, heads |-> [r \in Room |-> 0], next |-> <<>>,
                tree |-> EmptyTree]
OpenKernel(p, idx) == [p EXCEPT !.bins = Open(@, idx), !.next = Append(@, 0)]
PlaceKernel(p, idx, len) ==
    LET rem == Capacity(p.tree, len)
        new == Len(p.bins) + 1
    IN  IF len > Cap THEN OpenKernel(p, idx)
        ELSE IF rem # 0
          THEN LET b == p.heads[rem]
               IN  Link([Unlink(p, rem) EXCEPT !.bins = Put(@, b, idx)],
                        rem - len, b)
          ELSE Link(OpenKernel(p, idx), Cap - len, new)

-----------------------------------------------------------------------------
(* _pack_sorted_indices: the four side by side.                               *)
Backends == {"sortedlist", "linear", "bucket", "numba_bucket"}

EmptyPack == [sortedlist |-> EmptySorted, linear |-> EmptyLinear,
              bucket |-> EmptyBucket, numba_bucket |-> EmptyKernel]
Place(p, idx, len) ==
    [sortedlist |-> PlaceSorted(p.sortedlist, idx, len),
     linear |-> PlaceLinear(p.linear, idx, len),
     bucket |-> PlaceBucket(p.bucket, idx, len),
     numba_bucket |-> PlaceKernel(p.numba_bucket, idx, len)]

Bins(p, backend) == CASE backend = "sortedlist" -> p.sortedlist.bins
                      [] backend = "linear" -> p.linear.bins
                      [] backend = "bucket" -> p.bucket.bins
                      [] backend = "numba_bucket" -> p.numba_bucket.bins

-----------------------------------------------------------------------------
(* The sampler.                                                               *)

Total == MapThenSumSet(LAMBDA d : Counts[d], DOMAIN Counts)
Indices == 1 .. Total
Ranks == 0 .. World - 1

(* MixedDataset: one flat index space; SequencePackingSampler.__init__: how   *)
(* many of each data set an epoch takes.                                      *)
Offset(d) == MapThenSumSet(LAMBDA e : Counts[e], 1 .. d - 1)
Range_(d) == Offset(d) + 1 .. Offset(d) + Counts[d]
(* MixedDataset.__getitem__: the data set of a row and its place in it.       *)
Row(i) ==
    LET d == CHOOSE e \in DOMAIN Counts : i \in Range_(e)
    IN  [dataset |-> d, local |-> i - Offset(d)]
Samples(d) ==
    LET n == (Total * Weights[d])
               \div MapThenSumSet(LAMBDA e : Weights[e], DOMAIN Weights)
    IN  IF n < 1 THEN 1 ELSE n

NoCounts == [i \in Indices |-> 0]

SamplerInit ==
    /\ lengths \in {f \in [Indices -> Lens] :
                       \A d \in DOMAIN Counts : \A i, j \in Range_(d) :
                          i < j => f[i] >= f[j]}
    /\ rankLocal \in BOOLEAN
    /\ epoch = 0
    /\ phase = "select"
    /\ counts = NoCounts
    /\ order = <<>> /\ placed = 0
    /\ lanes = <<>> /\ batches = <<>>

(* The draws of one data set: n different rows, or n draws with replacement   *)
(* when it has fewer.                                                         *)
Draws(d) ==
    IF Samples(d) <= Counts[d]
    THEN {[i \in Range_(d) |-> IF i \in S THEN 1 ELSE 0] : S \in kSubset(Samples(d), Range_(d))}
    ELSE {f \in [Range_(d) -> 0 .. Samples(d)] :
             MapThenSumSet(LAMBDA i : f[i], Range_(d)) = Samples(d)}

(* _ordered_indices_for_epoch: the counts of the rows touched are set; the    *)
(* rows with a count, in the global order, each as often as it says.          *)
Longer(i, j) == \/ lengths[i] > lengths[j]
                \/ lengths[i] = lengths[j] /\ i < j
Ordered(c) ==
    LET n == MapThenSumSet(LAMBDA i : c[i], Indices)
        upTo(i) == MapThenSumSet(LAMBDA j : c[j], {j \in Indices : j = i \/ Longer(j, i)})
    IN  [k \in 1 .. n |-> CHOOSE i \in Indices : upTo(i) - c[i] < k /\ k <= upTo(i)]

(* Mutant: the touched rows keep their counts.                                *)
AfterEpochKept(c) == c

(* The reset of the touched rows before it returns.                           *)
AfterEpoch(c) == NoCounts

Select ==
    /\ phase = "select" /\ epoch < MaxEpochs
    /\ \E draw \in {f \in [DOMAIN Counts -> UNION {Draws(d) : d \in DOMAIN Counts}] :
                       \A d \in DOMAIN Counts : f[d] \in Draws(d)} :
         LET c == [i \in Indices |->
                     LET n == draw[Row(i).dataset][i]
                     IN  IF n > 0 THEN n ELSE counts[i]]
         IN  /\ order' = Ordered(c)
             /\ counts' = AfterEpoch(c)
    /\ epoch' = epoch + 1
    /\ placed' = 0
    /\ lanes' = [r \in IF rankLocal THEN Ranks ELSE {0} |-> EmptyPack]
    /\ batches' = <<>>
    /\ phase' = "pack"
    /\ UNCHANGED <<lengths, rankLocal>>

(* _rank_local_ordered_subset: every World-th row goes to a rank.             *)
LaneOf(pos) == IF rankLocal THEN (pos - 1) % World ELSE 0

Pack ==
    /\ phase = "pack" /\ placed < Len(order)
    /\ LET i == order[placed + 1]
       IN  lanes' = [lanes EXCEPT ![LaneOf(placed + 1)] = Place(@, i, lengths[i])]
    /\ placed' = placed + 1
    /\ UNCHANGED <<lengths, rankLocal, epoch, phase, counts, order, batches>>

(* _shard_bins: padded with the first bins up to a multiple of World, as far  *)
(* as there are any, then dealt out in turn.                                  *)
PadCount(n) == (World - (n % World)) % World
(* Mutant: the bins over a multiple of World are dropped.                     *)
PaddedDrops(bins) == SubSeq(bins, 1, Len(bins) - (Len(bins) % World))

Padded(bins) == bins \o SubSeq(bins, 1, Min({PadCount(Len(bins)), Len(bins)}))
Dealt(bins, r) ==
    LET n == Cardinality({k \in DOMAIN bins : (k - 1) % World = r})
    IN  [k \in 1 .. n |-> bins[(k - 1) * World + r + 1]]

(* _equalize_rank_local_bins after its all-reduce: a rank repeats its bins;   *)
(* one without any raises.                                                    *)
Raised == <<"raised">>
Equalized(bins, target) ==
    IF target <= Len(bins) THEN bins
    ELSE IF bins = <<>> THEN Raised
    ELSE bins \o [k \in 1 .. target - Len(bins) |-> bins[((k - 1) % Len(bins)) + 1]]

Shard(backend) ==
    /\ phase = "pack" /\ placed = Len(order)
    /\ batches' =
         IF rankLocal
         THEN LET target == Max({Len(Bins(lanes[r], backend)) : r \in Ranks})
              IN  [r \in Ranks |-> Equalized(Bins(lanes[r], backend), target)]
         ELSE [r \in Ranks |-> Dealt(Padded(Bins(lanes[0], backend)), r)]
    /\ phase' = "shard"
    /\ UNCHANGED <<lengths, rankLocal, epoch, counts, order, placed, lanes>>

(* The epoch is over.                                                         *)
EndEpoch ==
    /\ phase = "shard"
    /\ phase' = "select"
    /\ order' = <<>> /\ placed' = 0 /\ lanes' = <<>> /\ batches' = <<>>
    /\ UNCHANGED <<lengths, rankLocal, epoch, counts>>

SamplerNext == Select \/ Pack \/ EndEpoch \/ \E b \in Backends : Shard(b)

(* PackingCollator: the Cap cells a bin is trained as. A cell holds a token   *)
(* of one of its sequences under the position it has in that sequence, or     *)
(* padding; what does not fit is cut off.                                     *)
Pad == [seq |-> 0, position |-> 0, attended |-> FALSE]
Collated(bin) ==
    LET before(k) == MapThenSumSet(LAMBDA j : lengths[bin[j]], 1 .. k - 1)
        at(n) == {k \in DOMAIN bin : before(k) < n /\ n <= before(k + 1)}
    IN  [n \in 1 .. Cap |->
            IF at(n) = {} THEN Pad
            ELSE LET k == CHOOSE j \in at(n) : TRUE
                 IN  [seq |-> k, position |-> n - before(k) - 1, attended |-> TRUE]]

-----------------------------------------------------------------------------
Load(bin) == MapThenSumSet(LAMBDA k : lengths[bin[k]], DOMAIN bin)

LoadsOf(bins) == [n \in Lens \cup Room |->
                     Cardinality({b \in DOMAIN bins : Load(bins[b]) = n})]
Given(lane) == {k \in 1 .. placed : LaneOf(k) = lane}

(* What flash attention reads off the position ids: a new sequence starts     *)
(* wherever they restart.                                                     *)
Starts(cells) == {n \in DOMAIN cells : cells[n].attended /\ cells[n].position = 0}
Attended(cells) == {n \in DOMAIN cells : cells[n].attended}

(* Every packer keeps each sequence it was given exactly as often as it was   *)
(* given; collated, a bin that fits loses no token, an oversized one fills    *)
(* the row, and attention sees as many sequences as the bin has; a bin fits unless it is one oversized sequence; and no two bins that *)
(* fit could have been one (what first-fit and best-fit promise).  The three  *)
(* best-fit packers make the same bins, up to which of two bins with the same  *)
(* room they take: the docstring of _pack_bucket says it keeps the "smallest  *)
(* remaining capacity that fits" rule, that of the kernel that it keeps        *)
(* _pack_bucket's.                                                            *)
WellPacked ==
    \A lane \in DOMAIN lanes :
      LET p == lanes[lane]
          small(bins) == {b \in DOMAIN bins : Load(bins[b]) <= Cap}
      IN  /\ \A be \in Backends :
               LET bins == Bins(p, be) IN
               /\ \A i \in Indices :
                    Cardinality({k \in Given(lane) : order[k] = i})
                      = MapThenSumSet(LAMBDA b : Cardinality({k \in DOMAIN bins[b] : bins[b][k] = i}),
                                      DOMAIN bins)
               /\ \A b \in DOMAIN bins \ small(bins) : Len(bins[b]) = 1
               /\ placed = Len(order) => \A b \in DOMAIN bins :
                    LET cells == Collated(bins[b]) IN
                    /\ Cardinality(Attended(cells)) = Min({Load(bins[b]), Cap})
                    /\ Cardinality(Starts(cells)) = Len(bins[b])
               /\ \A b, c \in small(bins) : b # c => Load(bins[b]) + Load(bins[c]) > Cap
          /\ p.bucket.bins = p.numba_bucket.bins
          /\ LoadsOf(p.bucket.bins) = LoadsOf(p.sortedlist.bins)

(* An epoch takes of every data set as many rows as its ratio says, whatever  *)
(* earlier epochs drew (the masks are reused).                                *)
RatioKept ==
    phase = "pack" =>
      \A d \in DOMAIN Counts :
        Cardinality({k \in DOMAIN order : Row(order[k]).dataset = d}) = Samples(d)

(* Every rank gets as many bins as the others, or a step of one would wait    *)
(* for ever for the rest; and every sequence of the epoch is in some bin.     *)
EqualCounts == \A r, s \in Ranks : Len(batches[r]) = Len(batches[s])
AllSeen == \A k \in DOMAIN order : \E r \in Ranks : \E b \in DOMAIN batches[r] :
              \E j \in DOMAIN batches[r][b] : batches[r][b][j] = order[k]
EnoughBins == IF rankLocal THEN \A r \in Ranks : batches[r] # Raised
              ELSE \A be \in Backends :
                     PadCount(Len(Bins(lanes[0], be))) <= Len(Bins(lanes[0], be))
RanksInStep == phase = "shard" /\ EnoughBins => EqualCounts /\ AllSeen

(* From drawing to sharding, an epoch trains on its share of every data set,  *)
(* all of it, and in as many batches on one rank as on another.               *)
EpochDealt == RatioKept /\ RanksInStep
=============================================================================
