------------------------------ MODULE DemoPage ------------------------------
(* The page the ASR server serves for trying it out (DEMO_HTML of             *)
(* asr/serving/service.py): a file, a language, output modes and two buttons, *)
(* of which one transcribes and the other only identifies the language.  Its  *)
(* handlers run to their end but for run(), which waits for the server: the   *)
(* user may touch everything that is not disabled until the answer is there.  *)
(* Audio and texts are left out: an answer is known by the run it answers.    *)
EXTENDS Naturals

CONSTANTS
    PageFiles,
    Boxes,            \* the output modes
    Spoken,           \* the languages of the selector
    Foreign,          \* languages the server knows and the selector does not
    AutoLang, Unset,  \* "auto", and null or an empty panel
    MaxRequests       \* bound: requests of one visit

Options == Spoken \cup {AutoLang}

VARIABLES
    chosen,       \* the file
    busy,
    selector,     \* the value of the language selector
    ticked,       \* the output modes ticked
    waiting,      \* the run that waits for its answer
    detected,     \* the panel of the detected language, with its chips
    shown,        \* the transcripts
    trouble,      \* whether an error is shown
    requests      \* runs begun

demoVars == <<chosen, busy, selector, ticked, waiting, detected, shown, trouble, requests>>

DemoInit ==
    /\ chosen = Unset /\ busy = FALSE
    /\ selector \in Spoken /\ ticked = Boxes
    /\ waiting = Unset /\ detected = Unset /\ shown = Unset /\ trouble = FALSE
    /\ requests = 0

(* Mutant: a file dropped while a run waits is taken.                         *)
TakesAnyFile == TRUE
TakesFile == ~busy

SetFile(f) ==
    /\ TakesFile
    /\ chosen' = f /\ shown' = Unset /\ detected' = Unset /\ trouble' = FALSE
    /\ UNCHANGED <<busy, selector, ticked, waiting, requests>>

(* The selector and the boxes are never disabled.                             *)
Select(l) ==
    /\ selector' = l
    /\ UNCHANGED <<chosen, busy, ticked, waiting, detected, shown, trouble, requests>>

Tick(m) ==
    /\ ticked' = IF m \in ticked THEN ticked \ {m} ELSE ticked \cup {m}
    /\ UNCHANGED <<chosen, busy, selector, waiting, detected, shown, trouble, requests>>

(* run(), up to the fetch; a chip sets the selector first.                    *)
Run(lidOnly, l) ==
    IF ~lidOnly /\ ticked = {}
    THEN trouble' = TRUE /\ UNCHANGED <<busy, waiting, detected, shown, requests>>
    ELSE /\ busy' = TRUE /\ requests' = requests + 1
         /\ trouble' = FALSE /\ shown' = Unset
         /\ detected' = IF lidOnly THEN Unset ELSE detected
         /\ waiting' = [number |-> requests', file |-> chosen, lidOnly |-> lidOnly, sel |-> l,
                        modes |-> ticked]

Ready == chosen # Unset /\ ~busy /\ requests < MaxRequests

Click(lidOnly) ==
    /\ Ready /\ Run(lidOnly, selector)
    /\ UNCHANGED <<chosen, selector, ticked>>

ClickChip(l) ==
    /\ Ready /\ detected # Unset /\ l \in detected.chips
    /\ selector' = l
    /\ Run(FALSE, l)
    /\ UNCHANGED <<chosen, ticked>>

(* The endpoint: an empty language is none, and a language given wins; the    *)
(* modes are none for an identification.  The identification that comes with  *)
(* a language given is left out where it is not free.                         *)
Named(run) == IF run.sel = AutoLang THEN Spoken \cup Foreign ELSE {run.sel}
Answered(run) == IF run.lidOnly THEN {} ELSE run.modes
Reported(run) == IF run.lidOnly \/ run.sel = AutoLang THEN {TRUE} ELSE BOOLEAN

(* showLid: the best guess in words and the next ones as chips.               *)
Panel(run, report, others) ==
    IF report THEN [of |-> run.file, number |-> run.number, chips |-> others] ELSE Unset

(* Adopted after an identification alone, of a selector that asked for it.    *)
Adopts(run, l) == run.lidOnly /\ run.sel = AutoLang /\ l \in Spoken

Texts(run) ==
    IF Answered(run) = {} THEN Unset
    ELSE [of |-> run.file, number |-> run.number, modes |-> Answered(run)]

AnswerOk ==
    /\ waiting # Unset
    /\ \E l \in IF waiting.lidOnly THEN Spoken \cup Foreign ELSE Named(waiting),
          report \in Reported(waiting), others \in SUBSET Spoken :
          /\ report \/ others = {}
          /\ selector' = IF Adopts(waiting, l) THEN l ELSE selector
          /\ detected' = Panel(waiting, report, others)
    /\ shown' = Texts(waiting)
    /\ busy' = FALSE /\ waiting' = Unset
    /\ UNCHANGED <<chosen, ticked, trouble, requests>>

(* A status, or a request that failed: what was detected before stays.        *)
AnswerFails ==
    /\ waiting # Unset
    /\ trouble' = TRUE
    /\ busy' = FALSE /\ waiting' = Unset
    /\ UNCHANGED <<chosen, selector, ticked, detected, shown, requests>>

DemoNext ==
    \/ \E f \in PageFiles : SetFile(f)
    \/ \E l \in Options : Select(l)
    \/ \E m \in Boxes : Tick(m)
    \/ \E lidOnly \in BOOLEAN : Click(lidOnly)
    \/ \E l \in Spoken : ClickChip(l)
    \/ AnswerOk \/ AnswerFails

DemoSpec == DemoInit /\ [][DemoNext]_demoVars

(* What is on the page belongs together, whatever the user does while a run   *)
(* waits and in whatever way it ends: transcripts and detection are those of  *)
(* the file that is chosen, and the transcripts came with the detection they  *)
(* stand under.                                                               *)
OnePage ==
    /\ waiting # Unset => waiting.file = chosen
    /\ shown # Unset => shown.of = chosen
    /\ detected # Unset => detected.of = chosen
    /\ shown # Unset /\ detected # Unset => shown.number = detected.number
=============================================================================
