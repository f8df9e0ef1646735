-------------------------- MODULE CheckpointKeeper --------------------------
(* Checkpoints of a training run: the Trainer evaluates and saves, a LoRA run *)
(* adds its adapter (PeftAdapterSaveCallback of tts/training/callbacks.py),   *)
(* then BestAndLastCheckpointKeeper removes every checkpoint that is neither  *)
(* among the last by step nor among the best by metric; train.py and          *)
(* train_lora.py resume from the checkpoint with the highest step.            *)
(* Saving and get_last_checkpoint belong to transformers.  Rank 0 alone keeps.*)
EXTENDS Integers, Sequences, FiniteSets, FiniteSetsExt

CONSTANTS
    MaxStep,      \* bound: saves
    Metrics,      \* values of the metric, the lower the better
    NoMetric,     \* no entry of the log has the metric for the step
    Setups,       \* bound: the configurations a run may have
    MaxKills      \* bound: kills

ASSUME KeeperAssumption ==
    /\ MaxStep \in Nat /\ Metrics \subseteq Nat /\ NoMetric \notin Metrics
    /\ Setups \subseteq [lora : BOOLEAN, section : BOOLEAN, data : BOOLEAN, limit : BOOLEAN,
                         lastN : Nat, bestK : Nat]
    /\ MaxKills \in Nat

Steps == 1 .. MaxStep

VARIABLES
    setup,        \* the configuration: train_lora.py or train.py, whether it has a
                  \* `lora:` section, training data, a save_total_limit; last_n, best_k
    dirs,         \* checkpoint-N: "none", "whole" or "partial"
    stateLog,     \* state.log_history: the metric by step
    dirLog,       \* the log each checkpoint was saved with
    step,         \* state.global_step, counted in saves
    trainPc,      \* "down", "refused", "train", "save", "adapter", "keep" or "prune"
    victims,      \* checkpoints on_save has still to remove
    kills,        \* kills so far
    known,        \* history: the metric of each step that was ever saved whole
    cut           \* history: a save was killed and its directory is there, or with
                  \* last_n = 0, where the newest may be removed, a removal was cut

keeperVars == <<setup, dirs, stateLog, dirLog, step, trainPc, victims, kills, known,
                cut>>

NoLog == [s \in Steps |-> NoMetric]

KeeperInit ==
    /\ setup \in Setups
    /\ dirs = [s \in Steps |-> "none"]
    /\ stateLog = NoLog /\ dirLog = [s \in Steps |-> NoLog]
    /\ step = 0
    /\ trainPc = "down"
    /\ victims = <<>>
    /\ kills = 0
    /\ known = [s \in {} |-> 0]
    /\ cut = FALSE

OnDisk == {s \in Steps : dirs[s] # "none"}

(* Steps on to the next save; the step may have been evaluated or not.        *)
TrainStep ==
    /\ trainPc = "train" /\ step < MaxStep
    /\ step' = step + 1
    /\ \E m \in Metrics \cup {NoMetric} :
          stateLog' = [stateLog EXCEPT ![step + 1] = m]
    /\ trainPc' = "save"
    /\ UNCHANGED <<setup, dirs, dirLog, victims, kills, known, cut>>

(* on_save, up to the removal: the checkpoints by step; nothing to do while   *)
(* there are few; the last by step and the best by metric are kept, the       *)
(* earlier of two with the same metric first (a stable sort).                 *)
LastSteps(found) == {s \in found : Cardinality({t \in found : t > s}) < setup.lastN}
BestSteps(scored, metric) ==
    {s \in scored : Cardinality({t \in scored :
        \/ metric[t] < metric[s]
        \/ metric[t] = metric[s] /\ t < s}) < setup.bestK}
Scored(found) == {s \in found : stateLog[s] # NoMetric}

(* Mutant: the metric is sorted the wrong way.                                *)
KeepSetWorst(found) ==
    LastSteps(found) \cup
    {s \in Scored(found) : Cardinality({t \in Scored(found) : stateLog[t] > stateLog[s]}) < setup.bestK}

KeepSet(found) == LastSteps(found) \cup BestSteps(Scored(found), stateLog)
ToPrune(found) ==
    IF Cardinality(found) <= Max({setup.lastN, setup.bestK}) THEN {} ELSE found \ KeepSet(found)

Ascending(S) == [k \in 1 .. Cardinality(S) |->
                    CHOOSE s \in S : Cardinality({t \in S : t < s}) = k - 1]

(* Mutant: the keeper is added before the callback that saves the adapter.    *)
NextCallbackSwapped(pc) ==
    CASE pc = "save" -> "keep"
      [] pc = "keep" /\ setup.lora -> "adapter"
      [] OTHER -> "train"

(* The order of the add_callback calls.                                       *)
NextCallback(pc) ==
    CASE pc = "save" /\ setup.lora -> "adapter"
      [] pc = "adapter" \/ (pc = "save" /\ ~setup.lora) -> "keep"
      [] OTHER -> "train"

Save ==
    /\ trainPc = "save"
    /\ dirs' = [dirs EXCEPT ![step] = "whole"]
    /\ dirLog' = [dirLog EXCEPT ![step] = stateLog]
    /\ known' = [s \in DOMAIN known \cup {step} |->
                    IF s = step THEN stateLog[step] ELSE known[s]]
    /\ trainPc' = NextCallback("save")
    /\ UNCHANGED <<setup, stateLog, step, victims, kills, cut>>

(* The adapter goes into the checkpoint's directory, which is made if it is   *)
(* not there; a gather that fails is logged.                                  *)
SaveAdapter ==
    /\ trainPc = "adapter"
    /\ \/ UNCHANGED dirs
       \/ dirs' = [dirs EXCEPT ![step] = IF @ = "none" THEN "partial" ELSE @]
    /\ trainPc' = NextCallback("adapter")
    /\ UNCHANGED <<setup, stateLog, dirLog, step, victims, kills, known, cut>>

KeepBestAndLast ==
    /\ trainPc = "keep"
    /\ victims' = Ascending(ToPrune(OnDisk))
    /\ trainPc' = "prune"
    /\ UNCHANGED <<setup, dirs, stateLog, dirLog, step, kills, known, cut>>

(* One rmtree, which may fail with an error that is logged and leave the      *)
(* directory as it was or without some of its files.                          *)
Prune ==
    /\ trainPc = "prune" /\ victims # <<>>
    /\ \E left \in {"none", "partial", dirs[Head(victims)]} :
          /\ dirs' = [dirs EXCEPT ![Head(victims)] = left]
          /\ cut' = (cut \/ (left = "partial" /\ setup.lastN = 0))
    /\ victims' = Tail(victims)
    /\ UNCHANGED <<setup, stateLog, dirLog, step, trainPc, kills, known>>

EndSave ==
    /\ trainPc = "prune" /\ victims = <<>>
    /\ trainPc' = NextCallback("keep")
    /\ UNCHANGED <<setup, dirs, stateLog, dirLog, step, victims, kills, known, cut>>

(* A kill: within a save or an rmtree it leaves a directory without some of   *)
(* its files.                                                                 *)
TrainKill ==
    /\ trainPc \notin {"down", "refused"} /\ kills < MaxKills
    /\ \/ dirs' = dirs /\ UNCHANGED cut
       \/ /\ trainPc = "save"
          /\ dirs' = [dirs EXCEPT ![step] = "partial"]
          /\ cut' = TRUE
       \/ /\ trainPc = "prune" /\ victims # <<>>
          /\ dirs' = [dirs EXCEPT ![Head(victims)] = "partial"]
          /\ cut' = (cut \/ setup.lastN = 0)
    /\ trainPc' = "down" /\ victims' = <<>>
    /\ kills' = kills + 1
    /\ UNCHANGED <<setup, stateLog, dirLog, step, known>>

(* What main and on_train_begin refuse: LoRA training without its section, no *)
(* training data, nothing to retain, or a limit by which transformers would   *)
(* remove checkpoints on its own.                                             *)
Refused == \/ setup.lora /\ ~setup.section
           \/ ~setup.data
           \/ setup.lastN + setup.bestK = 0
           \/ setup.limit

RefuseRun ==
    /\ trainPc = "down" /\ Refused
    /\ trainPc' = "refused"
    /\ UNCHANGED <<setup, dirs, stateLog, dirLog, step, victims, kills, known, cut>>

(* The highest checkpoint, with the log it was saved with; a partial one      *)
(* cannot be loaded.                                                          *)
LastCheckpoint == IF OnDisk = {} THEN 0 ELSE Max(OnDisk)

Resume ==
    /\ trainPc = "down" /\ ~Refused
    /\ LastCheckpoint # 0 => dirs[LastCheckpoint] = "whole"
    /\ step' = LastCheckpoint
    /\ stateLog' = IF LastCheckpoint = 0 THEN NoLog ELSE dirLog[LastCheckpoint]
    /\ trainPc' = "train"
    /\ UNCHANGED <<setup, dirs, dirLog, victims, kills, known, cut>>

(* main of train.py and main of train_lora.py: tokenizer, model, data and     *)
(* callbacks, then training from the last checkpoint.                         *)
Train     == ~setup.lora /\ (Resume \/ RefuseRun)
TrainLora == setup.lora /\ (Resume \/ RefuseRun)

(* The operator removes a checkpoint that does not load.                      *)
RemoveBroken ==
    /\ trainPc = "down" /\ LastCheckpoint # 0 /\ dirs[LastCheckpoint] = "partial"
    /\ dirs' = [dirs EXCEPT ![LastCheckpoint] = "none"]
    /\ cut' = (setup.lastN = 0 /\ \E s \in OnDisk \ {LastCheckpoint} : dirs[s] = "partial")
    /\ UNCHANGED <<setup, stateLog, dirLog, step, trainPc, victims, kills, known>>

KeeperNext == \/ TrainStep \/ Save \/ SaveAdapter \/ KeepBestAndLast \/ Prune \/ EndSave \/ TrainKill
              \/ Train \/ TrainLora \/ RemoveBroken

(* The checkpoints that are best by metric among all that were ever saved are *)
(* on disk and whole, through kills in the middle of a save or a removal, and *)
(* resumes that read the log of an earlier step.                              *)
BestSurvive ==
    \A s \in BestSteps({t \in DOMAIN known : known[t] # NoMetric}, known) :
       dirs[s] = "whole"

(* Neither removing checkpoints nor adding an adapter to one leaves a broken  *)
(* one as the one to resume from: only a save that was cut does, and with     *)
(* last_n = 0 a removal that was cut.                                         *)
ResumesFromWhole ==
    LastCheckpoint # 0 /\ ~cut => dirs[LastCheckpoint] = "whole"
=============================================================================
