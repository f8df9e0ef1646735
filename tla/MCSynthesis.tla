----------------------------- MODULE MCSynthesis -----------------------------
(* Synthesis, tokens to audio: the batch job, the engine, the chunked facade  *)
(* over it, the windows of a streamed request, and the calls that block for   *)
(* its audio.  None sees another's state, so one of the five is chosen to run.*)
EXTENDS BatchSynthesis, TtsEngine, LongForm, StreamWindows, StreamBridge

VARIABLE part

Row(afp, stem, text, lang, spk) ==
    [afp |-> afp, stem |-> stem, text |-> text, language |-> lang, speaker |-> spk]

(* Three rows, two of which share a basename, and one without text.           *)
MCInput == << Row("a/x", <<"x">>, 1, "hi", "s"), Row("c/y", <<"y">>, 0, "hi", "s"),
              Row("b/x", <<"x">>, 2, "hi", "s"), Row("", <<>>, 1, "ta", "s") >>
(* One text and one basename, two speakers.                                   *)
TwoSpeakers == << Row("s/x", <<"x">>, 1, "hi", "s"), Row("t/x", <<"x">>, 1, "hi", "t"),
                  Row("s/y", <<"y">>, 2, "hi", "s") >>

(* A row's tokens carry its text in the code of every frame: two frames or no *)
(* audio for the one text, one frame or one with a code out of range for the  *)
(* other.                                                                     *)
Speech(frames) == <<StartId>> \o TokensOf(frames) \o <<EndId>>
OwnFrame(text) == [p \in Positions |-> IF p = 1 THEN text ELSE 0]
MCGenerations(text, speaker) ==
    IF text = 1 THEN {Speech(<<OwnFrame(1), OwnFrame(1)>>), <<Marker>>}
    ELSE {Speech(<<OwnFrame(2)>>), Speech(<<[OwnFrame(2) EXCEPT ![1] = 4]>>)}

MCOptions == { [force |-> FALSE, dedup |-> FALSE, split |-> FALSE],
               [force |-> TRUE,  dedup |-> FALSE, split |-> FALSE],
               [force |-> FALSE, dedup |-> TRUE,  split |-> TRUE] }

(* One frame; two frames with one first code; three frames.                   *)
MCRecordings ==
    << << <<1>>, <<0, 1>>, <<0, 1, 2, 3>> >>,
       << <<2, 2>>, <<0, 1, 2, 3>>, <<0, 1, 2, 3, 3, 2, 1, 0>> >>,
       << <<0, 3, 0>>, <<3, 2, 1, 0, 2, 1>>, <<1, 0, 3, 2, 0, 1, 2, 3, 2, 3, 0, 1>> >> >>

-----------------------------------------------------------------------------
(* For the facade: every text of up to five characters over the classes the   *)
(* ladder tells apart, longer ones for the guards of the sentence scanner,    *)
(* and dialogues of three turns.                                              *)
MCPace == [c \in {"a", "A", "Dr", "No", "5", " ", "\n", ",", ".", "?", "|", "q"} |->
              IF c \in {"|", "Dr"} THEN 3 ELSE 1]

Short == BoundedSeq({"a", " ", ",", "|"}, 5)
Long == {
    <<"Dr", ".", " ", "A", ".", " ", "a", "a", ".", " ", "A", "a", ".">>,
    <<"a", "q", "?", "q", " ", "a", "a", "?", "q", " ", "A", "a">>,
    <<"a", ".", " ", ".", " ", ".", " ", "a", ".", ".", " ", "No", ".", " ", "5", ".">>,
    <<"a", "a", "\n", " ", "\n", "a", "\n", "a", ".", "5", "|", "a", ",", " ", "a">>,
    <<"a", "a", "a", "a", "a", "a", "a", "a", "a", " ", "\n", "a", ",", "a">>}

Cfgs == [max : {3, 6}, first : {0, 2}, turn : {0}, maxSeconds : {0, 5}, firstSeconds : {0, 2},
         maxChunks : {4}]
TurnCfgs == [max : {9, 12}, first : {0, 7}, turn : {0, 20}, maxSeconds : {0}, firstSeconds : {0},
             maxChunks : {9}]

Said(n, t) == [name |-> n, text |-> t]
Words == {<<>>, <<"a">>, <<"a", "|", "a">>, <<"a", "a", ",", " ", "a", "a", " ">>,
          <<"a", "a", "a", ".", " ", "A", "a", " ", "a", "a", "a">>}
Dialogues == {<<Said(1, s), Said(2, t), Said(n, u)>> : s \in Words, t \in Words, n \in {0, 4}, u \in Words}

MCJobs ==
    {[dialogue |-> FALSE, stream |-> b, input |-> s, cfg |-> c] :
            b \in BOOLEAN, s \in Short, c \in {x \in Cfgs : x.max = 3 /\ x.maxSeconds = 0 /\ x.firstSeconds = 0}}
    \cup {[dialogue |-> FALSE, stream |-> b, input |-> s, cfg |-> c] : b \in BOOLEAN, s \in Long, c \in Cfgs}
    \cup {[dialogue |-> TRUE, stream |-> b, input |-> d, cfg |-> c] :
            b \in BOOLEAN, d \in Dialogues, c \in TurnCfgs}

(* For the windows: none to five frames, whole or cut inside one, after and   *)
(* before other tokens, and two emissions that are not well formed.           *)
Ramp(n) == [i \in 1 .. n |-> [p \in Positions |-> (i + p) % CodebookSize]]
MCEmissions ==
    {<<Marker>> \o Speech(Ramp(n)) \o <<Marker>> : n \in 0 .. 5}
    \cup {<<Marker, StartId>> \o SubSeq(TokensOf(Ramp(5)), 1, n) : n \in {4, 17, 32}}
    \cup {Speech(Ramp(1)) \o Speech(Ramp(2)), Speech(<<[OwnFrame(1) EXCEPT ![1] = 5]>> \o Ramp(2))}

(* Two blocking calls of a frame each, or one of two and one with a blank     *)
(* text.                                                                      *)
MCAskings == {<<1, 1>>, <<2, 0>>}

AnyJob == CHOOSE j \in Jobs : TRUE
Init == /\ part \in {"batch", "engine", "facade", "windows", "sync"} /\ SynthInit /\ EngineInit
        /\ IF part = "facade" THEN LongInit
           ELSE job = AnyJob /\ stage = "planning" /\ chunks = <<>> /\ lost = {} /\ said = <<>>
        /\ WindowInit
        /\ BridgeInit /\ (part # "sync" => wanted = <<1, 1>>)
        /\ part # "windows" => wf = 3 /\ emission = <<Marker>> \o Speech(<<>>) \o <<Marker>>

Next == \/ part = "batch" /\ SynthNext /\ UNCHANGED <<part, engineVars, longVars, windowVars, bridgeVars>>
        \/ part = "engine" /\ EngineNext /\ UNCHANGED <<part, synthVars, longVars, windowVars, bridgeVars>>
        \/ part = "facade" /\ LongNext /\ UNCHANGED <<part, synthVars, engineVars, windowVars, bridgeVars>>
        \/ part = "windows" /\ WindowNext /\ UNCHANGED <<part, synthVars, engineVars, longVars, bridgeVars>>
        \/ part = "sync" /\ BridgeNext /\ UNCHANGED <<part, synthVars, engineVars, longVars, windowVars>>

Spec == Init /\ [][Next]_<<part, synthVars, engineVars, longVars, windowVars, bridgeVars>>
=============================================================================
