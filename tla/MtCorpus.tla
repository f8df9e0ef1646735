------------------------------ MODULE MtCorpus ------------------------------
(* From bitext to the data every rank of a translation finetune trains on:    *)
(* mt/data/render.py writes a train and a dev file in one pass over all       *)
(* corpora, mt/data/dataset.py lets the first rank in build a cache of each   *)
(* under a file lock, and mt/training/train.py resumes from the last          *)
(* checkpoint.  The command may be killed at any time and started again.      *)
(* A row is a directed pair of texts; its phrasing is left out.               *)
EXTENDS Integers, Sequences, FiniteSets, FiniteSetsExt, SequencesExt, Selection

CONSTANTS
    Corpora,      \* the sources: [from, to, rows, limit, reverse]
    Empty,        \* a missing or blank text
    LongPairs,    \* texts with which a row exceeds max_seq_length
    DevDraws,        \* bound: what the dev split's generator may say, row by row
    Picks,        \* bound: what the reverse-pick generator of a corpus may say
    Renders,      \* bound: the settings [dedup, devMax, resume] tried
    GpuRanks,     \* the ranks of the launch
    SaveEvery,    \* resolve_eval_steps
    TotalSteps,   \* steps of the finetune
    JobKills      \* bound: kills

ASSUME CorpusAssumption ==
    /\ SaveEvery \in Nat \ {0} /\ {TotalSteps, JobKills} \subseteq Nat /\ 0 \notin GpuRanks
    /\ Corpora \in Seq(ToSet(Corpora))
    /\ \A c \in ToSet(Corpora) : c.rows \in Seq(ToSet(c.rows)) /\ c.limit \in Nat
    /\ \A r \in Renders : r.devMax \in Nat

VARIABLES
    render,       \* dedup and dev_max_rows, and the finetune's resume
    draws, picks, \* the seeded streams: the same in every run of the command
    file,         \* the rendered train and dev file
    rPos,         \* rows of the render written, -1 when it is not running
    whole,        \* the last render returned with rows
    cache,        \* processed_dataset/<split>: "none", "begun" or "saved", and its rows
    lock,         \* who holds .dataset_build.<split>.lock, 0 for nobody
    saving,       \* who is saving what it built
    rank,         \* where each rank is
    data,         \* the data sets each rank got
    resumed,      \* the step each rank resumed from
    tuned,        \* optimizer steps done
    adapters,     \* checkpoint-N
    jobKills

corpusVars == <<render, draws, picks, file, rPos, whole, cache, lock, saving, rank,
                data, resumed, tuned, adapters, jobKills>>
renderVars == <<render, draws, picks, file, rPos, whole>>
cacheVars == <<cache, lock, saving, data>>
tuneVars == <<resumed, tuned, adapters>>

DataSplits == {"train", "dev"}
NoRows == [s \in DataSplits |-> <<>>]
Cached(state, rows) == [state |-> state, rows |-> rows]

CorpusInit ==
    /\ render \in Renders /\ draws \in DevDraws /\ picks \in Picks
    /\ file = NoRows /\ rPos = -1 /\ whole = FALSE
    /\ cache = [s \in DataSplits |-> Cached("none", <<>>)] /\ lock = [s \in DataSplits |-> 0] /\ saving = {}
    /\ rank = [r \in GpuRanks |-> "off"] /\ data = [r \in GpuRanks |-> NoRows]
    /\ resumed = [r \in GpuRanks |-> 0]
    /\ tuned = 0 /\ adapters = {} /\ jobKills = 0

-----------------------------------------------------------------------------
(* render.py                                                                  *)

Pair(from, to, a, b) == [from |-> from, to |-> to, src |-> a, tgt |-> b]

(* The rows of a corpus within its limit that have both texts.                *)
UsableRows(c) ==
    LET read == SubSeq(Corpora[c].rows, 1, Min({Corpora[c].limit, Len(Corpora[c].rows)}))
    IN  PickAt(read, {i \in DOMAIN read : read[i][1] # Empty /\ read[i][2] # Empty})

(* render_source: each row forward, and backward if the generator picks it.   *)
RenderSource(c) ==
    LET rows == UsableRows(c)
        both(i) == LET forth == Pair(Corpora[c].from, Corpora[c].to, rows[i][1], rows[i][2])
                       back == Pair(Corpora[c].to, Corpora[c].from, rows[i][2], rows[i][1])
                   IN  IF Corpora[c].reverse /\ picks[c][i] THEN <<forth, back>> ELSE <<forth>>
    IN  FlattenSeq([i \in DOMAIN rows |-> both(i)])

(* _dedup_key: the direction is part of it.                                   *)
DedupKeyUndirected(row) == {row.src, row.tgt}
DedupKey(row) == row

(* render_all: across the corpora, the first of every pair.                   *)
Dedup(rows) ==
    LET first == {i \in DOMAIN rows : \A j \in 1 .. i - 1 : DedupKey(rows[j]) # DedupKey(rows[i])}
    IN  IF render.dedup THEN PickAt(rows, first) ELSE rows

Rendered == Dedup(FlattenSeq([c \in DOMAIN Corpora |-> RenderSource(c)]))

Idle == \A r \in GpuRanks : rank[r] = "off"

StartRender ==
    /\ rPos = -1 /\ Idle
    /\ file' = NoRows /\ rPos' = 0 /\ whole' = FALSE
    /\ UNCHANGED <<render, draws, picks, cacheVars, tuneVars, rank, jobKills>>

(* The generator is not asked once the dev set is full.                       *)
ToDev == Len(file["dev"]) < render.devMax /\ draws[rPos + 1]

RenderLine ==
    /\ rPos \in 0 .. Len(Rendered) - 1
    /\ rPos' = rPos + 1
    /\ file' = [file EXCEPT ![IF ToDev THEN "dev" ELSE "train"] = Append(@, Rendered[rPos + 1])]
    /\ UNCHANGED <<render, draws, picks, whole, cacheVars, tuneVars, rank, jobKills>>

EndRender ==
    /\ rPos = Len(Rendered)
    /\ rPos' = -1 /\ whole' = (file["train"] # <<>>)
    /\ UNCHANGED <<render, draws, picks, file, cacheVars, tuneVars, rank, jobKills>>

-----------------------------------------------------------------------------
(* load_training_dataset, once for each split, on every rank.                 *)

(* A finetune is only begun on files a render has finished.                   *)
Launch ==
    /\ whole /\ rPos = -1 /\ Idle
    /\ rank' = [r \in GpuRanks |-> "train"] /\ data' = [r \in GpuRanks |-> NoRows]
    /\ UNCHANGED <<renderVars, cache, lock, saving, tuneVars, jobKills>>

Fits(row) == {row.src, row.tgt} \cap LongPairs = {}
Filtered(split) == PickAt(file[split], {i \in DOMAIN file[split] : Fits(file[split][i])})

(* Whether a rank that wants the lock of a split gets it.                     *)
LockFree(split) == lock[split] = 0

Acquire(r) ==
    /\ rank[r] \in DataSplits /\ lock[rank[r]] # r
    /\ LockFree(rank[r])
    /\ lock' = [lock EXCEPT ![rank[r]] = r]
    /\ UNCHANGED <<renderVars, cache, saving, data, tuneVars, rank, jobKills>>

Got(r, rows) ==
    /\ data' = [data EXCEPT ![r][rank[r]] = rows]
    /\ lock' = [lock EXCEPT ![rank[r]] = 0]
    /\ rank' = [rank EXCEPT ![r] = IF @ = "train" THEN "dev" ELSE "loaded"]

(* The launcher ends every rank when one raises; the locks of the dead are free. *)
AllOff == /\ rank' = [r \in GpuRanks |-> "off"] /\ saving' = {}
          /\ lock' = [s \in DataSplits |-> 0]

(* The directory is loaded if it exists; one that a killed rank left half     *)
(* written cannot be.                                                         *)
LoadCached(r) ==
    /\ rank[r] \in DataSplits /\ lock[rank[r]] = r /\ r \notin saving
    /\ cache[rank[r]].state # "none"
    /\ IF cache[rank[r]].state = "begun"
       THEN AllOff /\ UNCHANGED data
       ELSE Got(r, cache[rank[r]].rows) /\ UNCHANGED saving
    /\ UNCHANGED <<renderVars, cache, tuneVars, jobKills>>

BuildCache(r) ==
    /\ rank[r] \in DataSplits /\ lock[rank[r]] = r /\ cache[rank[r]].state = "none"
    /\ IF Filtered(rank[r]) = <<>>
       THEN AllOff /\ UNCHANGED cache
       ELSE /\ cache' = [cache EXCEPT ![rank[r]] = Cached("begun", <<>>)]
            /\ saving' = saving \cup {r}
            /\ UNCHANGED <<lock, rank>>
    /\ UNCHANGED <<renderVars, data, tuneVars, jobKills>>

SaveCache(r) ==
    /\ r \in saving
    /\ cache' = [cache EXCEPT ![rank[r]] = Cached("saved", Filtered(rank[r]))]
    /\ Got(r, Filtered(rank[r])) /\ saving' = saving \ {r}
    /\ UNCHANGED <<renderVars, tuneVars, jobKills>>

-----------------------------------------------------------------------------
(* train.py: run                                                              *)

LastAdapter == Max(adapters \cup {0})

ResumeFrom(r) ==
    /\ rank[r] = "loaded"
    /\ rank' = [rank EXCEPT ![r] = "tuning"]
    /\ resumed' = [resumed EXCEPT ![r] = IF render.resume THEN LastAdapter ELSE 0]
    /\ tuned' = resumed'[r]
    /\ UNCHANGED <<renderVars, cacheVars, adapters, jobKills>>

(* A step needs all ranks; every SaveEvery of them leave a checkpoint.        *)
TuneStep ==
    /\ \A r \in GpuRanks : rank[r] = "tuning"
    /\ tuned < TotalSteps
    /\ tuned' = tuned + 1
    /\ adapters' = IF tuned' % SaveEvery = 0 THEN adapters \cup {tuned'} ELSE adapters
    /\ UNCHANGED <<renderVars, cacheVars, resumed, rank, jobKills>>

EndTune ==
    /\ \A r \in GpuRanks : rank[r] = "tuning"
    /\ tuned = TotalSteps
    /\ rank' = [r \in GpuRanks |-> "off"]
    /\ UNCHANGED <<renderVars, cacheVars, tuneVars, jobKills>>

(* The render, or all ranks of the finetune, killed.                          *)
KillCorpusJob ==
    /\ jobKills < JobKills /\ jobKills' = jobKills + 1
    /\ rPos' = -1 /\ AllOff
    /\ UNCHANGED <<render, draws, picks, file, whole, cache, data, tuneVars>>

CorpusNext ==
    \/ StartRender \/ RenderLine \/ EndRender \/ Launch \/ TuneStep \/ EndTune \/ KillCorpusJob
    \/ \E r \in GpuRanks : Acquire(r) \/ LoadCached(r) \/ BuildCache(r) \/ SaveCache(r) \/ ResumeFrom(r)

-----------------------------------------------------------------------------
(* Properties.                                                                *)

(* Every directed pair the corpora hold within their limits, picks included.  *)
PairsOf(c) ==
    LET rows == UsableRows(c)
    IN  {Pair(Corpora[c].from, Corpora[c].to, rows[i][1], rows[i][2]) : i \in DOMAIN rows}
        \cup {Pair(Corpora[c].to, Corpora[c].from, rows[i][2], rows[i][1]) :
                 i \in {j \in DOMAIN rows : Corpora[c].reverse /\ picks[c][j]}}
Wanted == UNION {PairsOf(c) : c \in DOMAIN Corpora}

HeldOut(d) ==
    /\ ToSet(d["train"]) \cup ToSet(d["dev"]) = {row \in Wanted : Fits(row)}
    /\ Len(d["dev"]) <= render.devMax
    /\ render.dedup => IsInjective(d["train"] \o d["dev"])

(* What every rank trains on is all of the corpora: every fitting directed    *)
(* pair once, in train or in dev, so that none is measured on that was        *)
(* trained on.                                                                *)
PairsHeldOut == \A r \in GpuRanks : rank[r] = "tuning" => HeldOut(data[r])

(* The ranks that train have the same data, whoever built it and whoever      *)
(* loaded it, and resumed from the same step, also while one of them is still *)
(* about to begin.                                                            *)
RanksAgree ==
    \A r, s \in GpuRanks : rank[r] = "tuning" /\ rank[s] = "tuning" =>
        data[s] = data[r] /\ resumed[s] = resumed[r]

(* However the renders and launches before it were cut short, the ranks train *)
(* on one and the same corpus, whole, from the same step.                     *)
RanksTrainAlike == PairsHeldOut /\ RanksAgree
=============================================================================
