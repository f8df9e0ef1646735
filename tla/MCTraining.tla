----------------------------- MODULE MCTraining -----------------------------
(* The training side: the commands that make the data, the sampler and the    *)
(* checkpoints of a speech finetune, the scans of a layout finetune, the      *)
(* bitext of a translation finetune, and its merge.  None reads another's     *)
(* state, so one of them is chosen to run.                                    *)
EXTENDS DataPipeline, PackingSampler, CheckpointKeeper, LayoutData, MtCorpus, MergeReady, Throughput

VARIABLE part

MCCounts == <<3, 2>>
MCWeights == <<2, 3>>

(* Four rows of two languages and two lengths.                                *)
MCSplitOf == <<"ta", "hi", "hi", "ta">>
MCLength == <<1, 1, 2, 1>>

(* Full finetunes and LoRA finetunes, and what is refused.                    *)
Setup(lora, n, k) ==
    [lora |-> lora, section |-> lora, data |-> TRUE, limit |-> FALSE, lastN |-> n, bestK |-> k]
MCSetups == {Setup(FALSE, 1, 2), Setup(TRUE, 0, 2), Setup(FALSE, 0, 0)}
            \cup {[Setup(l, 1, 1) EXCEPT !.data = FALSE] : l \in BOOLEAN}
            \cup {[Setup(TRUE, 1, 1) EXCEPT !.section = FALSE], [Setup(FALSE, 1, 1) EXCEPT !.limit = TRUE]}

(* Three sources of scans, one of each kind: a stem listed twice, a page      *)
(* without boxes, images of different sizes and one that cannot be opened.    *)
MCSpecs == << [policy |-> "native", listed |-> <<<<11, "val">>, <<12, "train">>, <<11, "train">>, <<13, "val">>, <<19, "train">>>>],
              [policy |-> "holdout", val |-> {22}, test |-> {99}],
              [policy |-> "hash"] >>
Block(b, g, r) == [box |-> b, good |-> g, rank |-> r]
Scan(c, h, f) == [content |-> c, header |-> h, footer |-> f]
Plain == Scan(<<Block("a", TRUE, 2), Block("b", FALSE, 1), Block("c", TRUE, Unranked)>>, "inset", "strip")
MCDocs == << [s \in {11, 12, 13} |-> IF s = 12 THEN Scan(<<>>, "stub", "strip") ELSE Plain],
             [s \in 21 .. 26 |-> IF s = 23 THEN Scan(<<Block("d", FALSE, 1)>>, "again", "none") ELSE Plain],
             [s \in {21, 32, 33, 34, 35, 36} |-> Plain] >>
MCMd5 == [s \in {21, 32, 33, 34, 35, 36} |-> IF s = 33 THEN 85 ELSE 79]
MCBytes == [s \in 11 .. 36 |-> IF s = 24 THEN 4 ELSE IF s \in {13, 36} THEN 0 ELSE 1 + (s % 2)]
Mix(o, w, b, n, d) == [only |-> o, weights |-> w, batch |-> b, world |-> n, shardBytes |-> 3, strips |-> d]
MCMixes == {Mix({1, 3}, w, b, 1, d) : w \in {<<>>, 1 :> 1 @@ 3 :> 3, 4 :> 1}, b \in {2, 3}, d \in BOOLEAN}
           \cup {Mix({2, 3}, <<>>, 2, 2, TRUE), Mix({2}, 2 :> 1, 1, 2, FALSE)}

(* Two corpora, one with a repeated pair, a blank and a row past its limit,   *)
(* the other with the reverse of a pair of the first and an overlong text.    *)
MCCorpora == << [from |-> "en", to |-> "hi", limit |-> 3, reverse |-> TRUE,
                 rows |-> <<<<"a", "k">>, <<"b", "">>, <<"a", "k">>, <<"c", "m">>>>],
                [from |-> "hi", to |-> "en", limit |-> 9, reverse |-> FALSE,
                 rows |-> <<<<"k", "a">>, <<"k", "long">>, <<"m", "d">>>>] >>
MCDevDraws == {[i \in 1 .. 7 |-> i % 2 = 0], [i \in 1 .. 7 |-> i \in {1, 5}]}
MCPicks == {<<<<TRUE, b>>, <<>>>> : b \in BOOLEAN}
MCRenders == {[dedup |-> d, devMax |-> n, resume |-> TRUE] : d \in BOOLEAN, n \in {1, 2}}
             \cup {[dedup |-> TRUE, devMax |-> 1, resume |-> FALSE]}

(* Three layers of two kinds, of which two or none share keys and values.     *)
MCCheckpoints == [types : {<<"sliding", "full", "sliding">>, <<"full", "sliding", "full">>},
                  shared : {0, 2}, own : {{}, {3}}, sharded : BOOLEAN]

(* Only the part that runs has a choice of inputs.                            *)
In(p, choices) == IF part = p THEN choices ELSE {CHOOSE x \in choices : TRUE}
PartInit ==
    /\ part \in {"data", "sampler", "keeper", "layout", "corpus", "merge", "meter"}
    /\ rps \in In("data", Sizes)
    /\ lengths \in In("sampler", [Indices -> Lens]) /\ rankLocal \in In("sampler", BOOLEAN)
    /\ setup \in In("keeper", Setups)
    /\ mix \in In("layout", Mixes)
    /\ render \in In("corpus", Renders)
    /\ draws \in In("corpus", DevDraws) /\ picks \in In("corpus", Picks)
    /\ ckpt \in In("merge", Checkpoints)
    /\ peak \in In("meter", PeakKnown)
    /\ PipelineInit /\ KeeperInit /\ SamplerInit /\ LayoutInit /\ CorpusInit /\ MergeInit
    /\ MeterInit

speechVars == <<pipelineVars, samplerVars, keeperVars, meterVars>>
textVars == <<layoutVars, corpusVars, mergeVars>>

PartNext ==
    /\ UNCHANGED part
    /\ \/ part = "data" /\ PipelineNext /\ UNCHANGED <<samplerVars, keeperVars, meterVars, textVars>>
       \/ part = "sampler" /\ SamplerNext /\ UNCHANGED <<pipelineVars, keeperVars, meterVars, textVars>>
       \/ part = "keeper" /\ KeeperNext /\ UNCHANGED <<pipelineVars, samplerVars, meterVars, textVars>>
       \/ part = "meter" /\ MeterNext /\ UNCHANGED <<pipelineVars, samplerVars, keeperVars, textVars>>
       \/ part = "layout" /\ LayoutNext /\ UNCHANGED <<speechVars, corpusVars, mergeVars>>
       \/ part = "corpus" /\ CorpusNext /\ UNCHANGED <<speechVars, layoutVars, mergeVars>>
       \/ part = "merge" /\ MergeNext /\ UNCHANGED <<speechVars, layoutVars, corpusVars>>

Spec == PartInit /\ [][PartNext]_<<part, speechVars, textVars>>
=============================================================================
