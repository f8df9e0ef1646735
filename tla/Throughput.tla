----------------------------- MODULE Throughput -----------------------------
(* What a training run reports of itself: TrainingMetricsCallback of          *)
(* tts/training/callbacks.py counts the steps and the seconds between two     *)
(* logs of the loss, and is told of every evaluation and save so that their   *)
(* time stays out; PackingTrainer of tts/training/trainer.py adds up how well *)
(* the batches were packed until the next log.  After a step the Trainer      *)
(* (transformers) logs, evaluates and saves, in this order.  Rates are kept   *)
(* as steps over time, a sum over batches as the set of them.                 *)
EXTENDS Naturals

CONSTANTS
    LogEvery, EvalEvery, CkptEvery,   \* logging_steps, eval_steps, save_steps
    PeakKnown,                        \* bound: whether the peak of the GPU is
    StepTimes, PauseTime,             \* bound: ticks of a step, of an evaluation or a save
    MaxSteps,                         \* bound: steps of the run
    Never                             \* no log of the loss so far

ASSUME ThroughputAssumption ==
    /\ {LogEvery, EvalEvery, CkptEvery} \subseteq Nat \ {0} /\ PeakKnown \subseteq BOOLEAN
    /\ StepTimes \subseteq Nat \ {0} /\ PauseTime \in Nat \ {0}
    /\ MaxSteps \in Nat /\ Never \notin Nat

VARIABLES
    peak,         \* whether _peak_tflops is set
    hook,         \* "step", "log", "evaluate" or "save": what the Trainer does next
    globalStep,
    clock,
    lastLogTime, lastStep,
    packed,       \* batches in _pack_eff_sum and _pack_eff_count
    lowStreak,    \* _low_packing_streak
    mfu,          \* the last one logged, as steps and time
    trained,      \* history: the steps since the last log, and their ticks
    unpaused,     \* history: ticks of the steps since the last log or pause
    cutIn,        \* history: whether a pause came after a step not yet logged
    surfaced      \* history: the batches each log of an efficiency was about

meterVars == <<peak, hook, globalStep, clock, lastLogTime, lastStep, packed, lowStreak, mfu,
               trained, unpaused, cutIn, surfaced>>

NoSteps == [steps |-> 0, time |-> 0]
NoMfu == [steps |-> 0, time |-> 0, of |-> NoSteps, unpaused |-> 0, cutIn |-> FALSE]

MeterInit ==
    /\ peak \in PeakKnown
    /\ hook = "step" /\ globalStep = 0 /\ clock = 0
    /\ lastLogTime = Never /\ lastStep = 0 /\ lowStreak = 0
    /\ mfu = NoMfu /\ packed = {} /\ surfaced = {}
    /\ trained = NoSteps /\ unpaused = 0 /\ cutIn = FALSE

(* training_step takes the efficiency off the batch.                          *)
TrainOne ==
    /\ hook = "step" /\ globalStep < MaxSteps
    /\ globalStep' = globalStep + 1 /\ hook' = "log"
    /\ packed' = packed \cup {globalStep + 1}
    /\ \E t \in StepTimes :
         /\ clock' = clock + t /\ unpaused' = unpaused + t
         /\ trained' = [steps |-> trained.steps + 1, time |-> trained.time + t]
    /\ UNCHANGED <<peak, lastLogTime, lastStep, lowStreak, mfu, cutIn, surfaced>>

Due(every) == globalStep % every = 0

Measured ==
    /\ peak /\ lastLogTime # Never
    /\ globalStep > lastStep /\ clock > lastLogTime

(* Mutant: the sum goes on after a log.                                       *)
AfterLogKept(batches) == batches
AfterLog(batches) == {}

(* log() of the trainer, of the loss or of an evaluation: what was added up   *)
(* goes along, and may be low once more.                                      *)
DrainPacking ==
    /\ packed' = AfterLog(packed)
    /\ IF packed = {} THEN UNCHANGED <<lowStreak, surfaced>>
       ELSE surfaced' = surfaced \cup {packed} /\ lowStreak' \in {0, lowStreak + 1}

(* log() and on_log with the loss.                                            *)
OnLog ==
    /\ hook = "log" /\ hook' = "evaluate"
    /\ IF Due(LogEvery)
       THEN /\ DrainPacking
            /\ mfu' = IF Measured
                      THEN [steps |-> globalStep - lastStep, time |-> clock - lastLogTime,
                            of |-> trained, unpaused |-> unpaused, cutIn |-> cutIn]
                      ELSE mfu
            /\ lastLogTime' = clock /\ lastStep' = globalStep
            /\ trained' = NoSteps /\ unpaused' = 0 /\ cutIn' = FALSE
       ELSE UNCHANGED <<mfu, lastLogTime, lastStep, trained, unpaused, cutIn, packed,
                        lowStreak, surfaced>>
    /\ UNCHANGED <<peak, globalStep, clock>>

(* Mutant: nothing is done when a checkpoint was saved.                       *)
AfterPauseIgnored(now) == lastLogTime

(* on_evaluate and on_save.                                                   *)
AfterPauseOf(now) == IF lastLogTime = Never THEN Never ELSE now

Pause(from, every, to) ==
    /\ hook = from /\ hook' = to
    /\ IF Due(every) THEN /\ clock' = clock + PauseTime
                          /\ lastLogTime' = AfterPauseOf(clock')
                          /\ unpaused' = 0 /\ cutIn' = (trained.steps > 0)
                     ELSE UNCHANGED <<clock, lastLogTime, unpaused, cutIn>>
    /\ UNCHANGED <<peak, globalStep, lastStep, mfu, trained>>

(* An evaluation logs its own loss, which is not the one on_log measures by.  *)
Evaluate ==
    /\ Pause("evaluate", EvalEvery, "save")
    /\ IF Due(EvalEvery) THEN DrainPacking ELSE UNCHANGED <<packed, lowStreak, surfaced>>

SaveCheckpoint ==
    /\ Pause("save", CkptEvery, "step")
    /\ UNCHANGED <<packed, lowStreak, surfaced>>

MeterNext == TrainOne \/ OnLog \/ Evaluate \/ SaveCheckpoint
MeterSpec == MeterInit /\ [][MeterNext]_meterVars

(* "Keep train TFLOPS/MFU focused on training time": a utilization counts the *)
(* steps since the log before, and divides by the time of those since the     *)
(* last evaluation or save, which holds nothing of either.  So it is the rate *)
(* of its steps unless an evaluation or a save cut in between them; then it   *)
(* is above that rate.                                                        *)
RateOfTraining ==
    /\ mfu.steps = mfu.of.steps /\ mfu.time = mfu.unpaused
    /\ IF mfu.cutIn THEN mfu.time < mfu.of.time ELSE mfu.time = mfu.of.time

(* The packing efficiency of a batch is in the log that comes next, and in no *)
(* other, whichever of the loss and an evaluation is logged first.            *)
BatchesLoggedOnce ==
    /\ packed \cup UNION surfaced = 1 .. globalStep
    /\ \A a, b \in surfaced \cup {packed} : a = b \/ a \cap b = {}

(* What a run logs of itself, whatever the cadences of logs, evaluations and  *)
(* saves.                                                                     *)
LogsTrue == RateOfTraining /\ BatchesLoggedOnce
=============================================================================
