----------------------------- MODULE LayoutData -----------------------------
(* From annotated scans to the batches a layout model is trained on: the      *)
(* manifests of ocr/data/splits.py, the packed cache of ocr/data/blob.py with *)
(* the labels of ocr/data/taxonomy.py, and the sampler, the data set and the  *)
(* loop of ocr/training.  accelerate deals the batches of a rank's own        *)
(* sampler to the ranks once more, which is external.                         *)
EXTENDS Integers, Sequences, FiniteSets, FiniteSetsExt, SequencesExt, Selection

CONSTANTS
    Specs,        \* the sources in the order of their names: policy and stems
    Docs,         \* the page annotations on disk, by source and stem
    Md5,          \* md5(stem) modulo 100
    Bytes,        \* length of a stem's JPEG, 0 if its image cannot be opened
    Mixes,        \* bound: the configurations tried
    MaxPasses,    \* bound: epochs
    Unranked      \* a block without reading_order

(* Sources and stems are numbered in the order of their names.                *)
ASSUME LayoutAssumption ==
    /\ Specs \in Seq(ToSet(Specs)) /\ MaxPasses \in Nat
    /\ \A s \in DOMAIN Specs : IsFiniteSet(DOMAIN Docs[s]) /\ DOMAIN Docs[s] \subseteq Nat \ {0}
    /\ \A s \in DOMAIN Specs : Specs[s].policy = "native" =>
           /\ Specs[s].listed \in Seq(ToSet(Specs[s].listed))
           /\ \A e \in ToSet(Specs[s].listed) : e[1] \in Nat \ {0}
    /\ \A s \in DOMAIN Specs : \A t \in DOMAIN Docs[s] :
           Docs[s][t].content \in Seq(ToSet(Docs[s][t].content)) /\ Bytes[t] \in Nat
    /\ \A m \in Mixes : /\ {m.batch, m.world} \subseteq Nat \ {0} /\ m.strips \in BOOLEAN
                        /\ \A s \in DOMAIN m.weights : m.weights[s] \in Nat

VARIABLES
    mix,          \* the configuration
    stage,        \* "scans", "packing", "packed", "passing" or "passed"
    manifests,    \* layout_{split}.json
    unpacked,     \* pages of the train manifest still to be packed
    blobs,        \* the shards, each a sequence of bytes <<page, position>>
    meta,         \* the index: one entry per packed page
    flat,         \* boxes, cls and order
    boxOff,       \* box_off
    shuffled,     \* rng.permutation of every pool, the same on all ranks
    passes,       \* epochs begun
    fed           \* what each rank was given in this epoch, batch by batch

layoutVars == <<mix, stage, manifests, unpacked, blobs, meta, flat, boxOff, shuffled, passes, fed>>

Sources == DOMAIN Specs
Page(s, stem) == [source |-> s, stem |-> stem]
OnPaper(page) == page.stem \in DOMAIN Docs[page.source]
DocOf(page) == Docs[page.source][page.stem]

LayoutInit ==
    /\ mix \in Mixes
    /\ stage = "scans" /\ manifests = <<>> /\ unpacked = <<>>
    /\ blobs = <<>> /\ meta = <<>> /\ flat = <<>> /\ boxOff = <<>>
    /\ shuffled = <<>> /\ passes = 0 /\ fed = <<>>

-----------------------------------------------------------------------------
(* splits.py: every stem of a source in one split.                            *)

(* sorted(), of sources and of stems.                                         *)
InOrder(K) == PickAt([i \in 1 .. Max(K \cup {0}) |-> i], K)

SPLITS == {"train", "val", "test"}

HashBucket(stem) == IF Md5[stem] < 80 THEN "train" ELSE IF Md5[stem] < 90 THEN "val" ELSE "test"

(* A native source lists <<stem, split>>, the last entry of a stem counting.  *)
NativeSplit(listed, stem) == listed[Max({i \in DOMAIN listed : listed[i][1] = stem})][2]

StemsOf(s) == InOrder(IF Specs[s].policy = "native"
                      THEN {e[1] : e \in ToSet(Specs[s].listed)} ELSE DOMAIN Docs[s])

SplitOfStem(s, stem) ==
    CASE Specs[s].policy = "native" -> NativeSplit(Specs[s].listed, stem)
      [] Specs[s].policy = "hash" -> HashBucket(stem)
      [] stem \in Specs[s].val -> "val"
      [] stem \in Specs[s].test -> "test"
      [] OTHER -> "train"

ManifestOf(split) ==
    LET pages(s) == [i \in DOMAIN StemsOf(s) |-> Page(s, StemsOf(s)[i])]
        of(s) == PickAt(pages(s), {i \in DOMAIN pages(s) : SplitOfStem(s, StemsOf(s)[i]) = split})
    IN  FlattenSeq([s \in Sources |-> of(s)])

(* build_manifests and write_manifests, then the start of pack: a holdout     *)
(* whose val and test overlap is refused.                                     *)
BuildManifests ==
    /\ stage = "scans"
    /\ \A s \in Sources : Specs[s].policy = "holdout" => Specs[s].val \cap Specs[s].test = {}
    /\ manifests' = [split \in SPLITS |-> ManifestOf(split)]
    /\ stage' = "packing"
    /\ unpacked' = LET pages == manifests'["train"]
                   IN  PickAt(pages, {i \in DOMAIN pages : mix.only = {} \/ pages[i].source \in mix.only})
    /\ blobs' = << <<>> >> /\ meta' = <<>> /\ flat' = <<>> /\ boxOff' = <<0>>
    /\ UNCHANGED <<mix, shuffled, passes, fed>>

-----------------------------------------------------------------------------
(* taxonomy.py: what one annotation says.  A bad block has an unknown label   *)
(* or no usable box; a region is "stub", "strip", "inset" or, where a content *)
(* block already covers it, "again".                                          *)

Edge(doc, field, rank, strips) ==
    IF doc[field] = "inset" \/ (doc[field] = "strip" /\ ~strips)
    THEN <<[box |-> field, rank |-> rank]>> ELSE <<>>

LabelsFromDoc(doc, strips) ==
    LET good == PickAt(doc.content, {k \in DOMAIN doc.content : doc.content[k].good})
        content == [k \in DOMAIN good |->
                       [box |-> good[k].box, rank |-> IF good[k].rank = Unranked THEN k ELSE good[k].rank]]
        ranks == IF content = <<>> THEN {0} ELSE {content[k].rank : k \in DOMAIN content}
    IN  content \o Edge(doc, "header", Min(ranks) - 1, strips) \o Edge(doc, "footer", Max(ranks) + 1, strips)

-----------------------------------------------------------------------------
(* blob.py: pages packed one after the other, and read back by index.         *)

Usable(page) ==
    /\ OnPaper(page)
    /\ LabelsFromDoc(DocOf(page), mix.strips) # <<>>
    /\ Bytes[page.stem] > 0

Payload(page) == [i \in 1 .. Bytes[page.stem] |-> <<page, i>>]

(* The shards when a payload is to be written: a new one is begun if it does  *)
(* not fit and the open one holds anything.                                   *)
Rolled(size) ==
    IF Last(blobs) # <<>> /\ Len(Last(blobs)) + size > mix.shardBytes
    THEN Append(blobs, <<>>) ELSE blobs

(* What a page that is skipped leaves in box_off.                             *)
AfterSkipMarked == Append(boxOff, Len(flat))
AfterSkip == boxOff

PackPage ==
    /\ stage = "packing" /\ unpacked # <<>>
    /\ unpacked' = Tail(unpacked)
    /\ LET page == Head(unpacked)
           shards == Rolled(Bytes[page.stem])
       IN  IF ~Usable(page)
           THEN boxOff' = AfterSkip /\ UNCHANGED <<blobs, meta, flat>>
           ELSE /\ blobs' = [shards EXCEPT ![Len(shards)] = @ \o Payload(page)]
                /\ meta' = Append(meta, [stem |-> page.stem, source |-> page.source,
                                        shard |-> Len(shards), offset |-> Len(Last(shards)),
                                        length |-> Bytes[page.stem]])
                /\ flat' = flat \o LabelsFromDoc(DocOf(page), mix.strips)
                /\ boxOff' = Append(boxOff, Len(flat'))
    /\ UNCHANGED <<mix, stage, manifests, shuffled, passes, fed>>

FinishPack ==
    /\ stage = "packing" /\ unpacked = <<>>
    /\ stage' = "packed"
    /\ UNCHANGED <<mix, manifests, unpacked, blobs, meta, flat, boxOff, shuffled, passes, fed>>

(* One item of BlobLayoutDataset: BlobCache.jpeg and labels by index.         *)
Item(i) ==
    LET m == meta[i]
    IN  [jpeg |-> SubSeq(blobs[m.shard], m.offset + 1, m.offset + m.length),
         labels |-> SubSeq(flat, boxOff[i] + 1, boxOff[i + 1]),
         stem |-> m.stem, source |-> m.source]

-----------------------------------------------------------------------------
(* MixedSourceSampler and its caller.                                         *)

Pools == {meta[i].source : i \in DOMAIN meta}
Pool(s) == {i \in DOMAIN meta : meta[i].source = s}
Processes == 0 .. mix.world - 1

(* _resolve_source_weights: no weights at all is one for each.                *)
WeightOf == [s \in Sources |-> IF DOMAIN mix.weights = {} THEN 1
                               ELSE IF s \in DOMAIN mix.weights THEN mix.weights[s] ELSE 0]

(* _resolve_counts: largest remainder, ties to the earlier source.            *)
TotalWeight == Max({1, SumOver(WeightOf, Pools)})
Whole(s) == (mix.batch * WeightOf[s]) \div TotalWeight
Remainder(s) == (mix.batch * WeightOf[s]) % TotalWeight
PerBatch(s) ==
    LET spare == mix.batch - SumOver([r \in Pools |-> Whole(r)], Pools)
        ahead == {r \in Pools : \/ Remainder(r) > Remainder(s)
                                \/ Remainder(r) = Remainder(s) /\ r < s}
    IN  Whole(s) + IF Cardinality(ahead) < spare THEN 1 ELSE 0

Take(s) == PerBatch(s) * mix.world
Sampled == {s \in Pools : PerBatch(s) > 0}

(* __len__: as many global batches as the scarcest source has.  No pool runs  *)
(* out within an epoch, and the reshuffle of __iter__ is never reached.       *)
SamplerLen ==
    LET full == {Cardinality(Pool(s)) \div Take(s) : s \in Sampled}
    IN  IF full = {} THEN 0 ELSE Min(full)

(* The j-th batch of rank r's sampler: its share of the j-th global batch,    *)
(* source by source.                                                          *)
RankSlice(batch, r) ==
    PickAt(batch, {i \in DOMAIN batch : (i - 1) % mix.world = r})

RankBatch(j, r) ==
    LET of(s) == SubSeq(shuffled[s], j * Take(s) + 1, (j + 1) * Take(s))
        sources == InOrder(Sampled)
    IN  RankSlice(FlattenSeq([k \in DOMAIN sources |-> of(sources[k])]), r)

(* Every order of every pool.                                                 *)
Shuffles ==
    {f \in [Pools -> UNION {SetToSeqs(Pool(s)) : s \in Pools}] :
        \A s \in Pools : f[s] \in SetToSeqs(Pool(s))}

(* A run starts if every weighted source is in the cache.                     *)
StartPass ==
    /\ stage \in {"packed", "passed"} /\ passes < MaxPasses
    /\ DOMAIN mix.weights \subseteq {p.source : p \in ToSet(manifests["train"])}
    /\ mix.only = {} \/ DOMAIN mix.weights \subseteq mix.only
    /\ shuffled' \in Shuffles
    /\ stage' = "passing" /\ passes' = passes + 1 /\ fed' = <<>>
    /\ UNCHANGED <<mix, manifests, unpacked, blobs, meta, flat, boxOff>>

(* One step of all ranks: accelerate gives rank r the batches r, r + world,   *)
(* r + 2 * world ... of its sampler, while every rank has one.                *)
Deal(t, r) == RankBatch(t * mix.world + r, r)
StepsLeft == (Len(fed) + 1) * mix.world <= SamplerLen

LayoutStep ==
    /\ stage = "passing" /\ StepsLeft
    /\ fed' = Append(fed, [r \in Processes |->
                  LET batch == Deal(Len(fed), r) IN [i \in DOMAIN batch |-> Item(batch[i])]])
    /\ UNCHANGED <<mix, stage, manifests, unpacked, blobs, meta, flat, boxOff, shuffled, passes>>

EndPass ==
    /\ stage = "passing" /\ ~StepsLeft
    /\ stage' = "passed"
    /\ UNCHANGED <<mix, manifests, unpacked, blobs, meta, flat, boxOff, shuffled, passes, fed>>

LayoutNext == BuildManifests \/ PackPage \/ FinishPack \/ StartPass \/ LayoutStep \/ EndPass
LayoutSpec == LayoutInit /\ [][LayoutNext]_layoutVars

-----------------------------------------------------------------------------
(* Properties.                                                                *)

AsAnnotated(item) ==
    LET page == Page(item.source, item.stem)
    IN  /\ page \in ToSet(manifests["train"])
        /\ item.jpeg = Payload(page)
        /\ item.labels = LabelsFromDoc(DocOf(page), mix.strips)

Places == UNION {{<<t, r, i>> : i \in DOMAIN fed[t][r]} : t \in DOMAIN fed, r \in Processes}
At(p) == fed[p[1]][p[2]][p[3]]

(* Whatever is skipped, rolled into the next shard, shuffled and dealt twice, *)
(* every page a rank trains on is a page of the train split with its own      *)
(* image and its own labels; each batch of each rank has the same number of   *)
(* pages of a source; no page is trained on twice in an epoch, on any rank.   *)
BatchesAsAnnotated ==
    /\ \A p \in Places : AsAnnotated(At(p))
    /\ \A t \in DOMAIN fed : \A r \in Processes : \A s \in Pools :
           Cardinality({i \in DOMAIN fed[t][r] : fed[t][r][i].source = s}) = PerBatch(s)
    /\ \A p, q \in Places : At(p) = At(q) => p = q
=============================================================================
