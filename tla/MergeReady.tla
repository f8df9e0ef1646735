----------------------------- MODULE MergeReady -----------------------------
(* A finetune made servable: mt/training/merge.py folds an adapter into its   *)
(* base and saves a checkpoint, and mt/tools/vllm_ready.py adds the k_norm    *)
(* tensors stock vLLM asks for in a sidecar file the index names.  Both write *)
(* into the directory they serve from and may be killed there.  How a tensor  *)
(* is spelt is left out: it is a layer and "q_norm" or "k_norm".              *)
EXTENDS Integers, Sequences, FiniteSets

CONSTANTS
    Checkpoints,  \* bound: the models merged, [types, shared, own, sharded]
    HeadDim, GlobalHeadDim,
    MaxMerges, MergeKills

(* Every layer has a type, and the layers that share are the last ones.        *)
ASSUME MergeAssumption ==
    \A c \in Checkpoints : c.types \in Seq({"full", "sliding"}) /\ c.shared \in 0 .. Len(c.types)

VARIABLES
    ckpt,         \* what is merged
    doing,        \* "off", "saving", "planned", "opened", "written", "indexing",
                  \* or "ready" when the command has returned
    merges,       \* merges begun; a tensor carries the number of its merge
    saved,        \* the last merge returned
    weights,      \* the .safetensors files: tensor -> [dim, of]
    index,        \* model.safetensors.index.json
    weightMap,    \* of the running command
    mergeKills

mergeVars == <<ckpt, doing, merges, saved, weights, index, weightMap, mergeKills>>

SIDECAR == "model-shared-kv-knorm"
Layers == DOMAIN ckpt.types
FirstShared == Len(ckpt.types) - ckpt.shared + 1

(* vLLM builds both norms for every layer; the model stores no k_norm where   *)
(* the layer shares an earlier one's, but for the layers of "own".            *)
Asked == Layers \X {"q_norm", "k_norm"}
Stored == {t \in Asked : t[2] = "q_norm" \/ t[1] < FirstShared \/ t[1] \in ckpt.own}

Home(t) == IF ~ckpt.sharded THEN "model" ELSE IF t[1] = 1 THEN "model-1" ELSE "model-2"
Files == {Home(t) : t \in Stored}
Index(state, map) == [state |-> state, map |-> map]
NoTensors == [t \in {} |-> 0]

MergeInit ==
    /\ ckpt \in Checkpoints
    /\ doing = "off" /\ merges = 0 /\ saved = FALSE
    /\ weights = [f \in {} |-> NoTensors] /\ index = Index("none", NoTensors) /\ weightMap = NoTensors
    /\ mergeKills = 0

Resting == doing \in {"off", "ready"}
DimOf(layer) == IF ckpt.types[layer] = "full" THEN GlobalHeadDim ELSE HeadDim
With(f, x, y) == [z \in DOMAIN f \cup {x} |-> IF z = x THEN y ELSE f[z]]

-----------------------------------------------------------------------------
(* merge: save_pretrained writes the weights file by file, and an index only  *)
(* if there is more than one.                                                 *)
StartMerge ==
    /\ Resting /\ merges < MaxMerges
    /\ doing' = "saving" /\ merges' = merges + 1 /\ saved' = FALSE
    /\ UNCHANGED <<ckpt, weights, index, weightMap, mergeKills>>

OfThisMerge(f) == \E t \in DOMAIN weights[f] : weights[f][t].of = merges
Unsaved == {f \in Files : f \notin DOMAIN weights \/ ~OfThisMerge(f)}

SaveWeights ==
    /\ doing = "saving"
    /\ \E f \in Unsaved :
           weights' = With(weights, f, [t \in {u \in Stored : Home(u) = f} |->
                                           [dim |-> DimOf(t[1]), of |-> merges]])
    /\ UNCHANGED <<ckpt, doing, merges, saved, index, weightMap, mergeKills>>

EndMerge ==
    /\ doing = "saving" /\ Unsaved = {}
    /\ index' = IF ckpt.sharded THEN Index("whole", [t \in Stored |-> Home(t)]) ELSE index
    /\ doing' = "off" /\ saved' = TRUE
    /\ UNCHANGED <<ckpt, merges, weights, weightMap, mergeKills>>

-----------------------------------------------------------------------------
(* make_vllm_ready                                                            *)

(* build_weight_map: of the files on disk, an earlier sidecar left out.       *)
BuiltMap(files) ==
    LET held == UNION {DOMAIN weights[f] : f \in files}
    IN  [t \in held |-> CHOOSE f \in files : t \in DOMAIN weights[f]]
MapOnDisk == IF index.state = "whole" THEN index.map ELSE BuiltMap(DOMAIN weights \ {SIDECAR})

(* plan_knorm_tensors                                                         *)
PlanEveryKnorm(map) == (FirstShared .. Len(ckpt.types)) \X {"k_norm"}
PlanKnorm(map) == {t \in (FirstShared .. Len(ckpt.types)) \X {"k_norm"} : t \notin DOMAIN map}

(* A half-written index cannot be read, and the command raises.               *)
Plan(dry) ==
    /\ Resting /\ saved /\ index.state # "torn"
    /\ weightMap' = MapOnDisk
    /\ doing' = IF PlanKnorm(MapOnDisk) = {} THEN "ready" ELSE IF dry THEN "off" ELSE "planned"
    /\ UNCHANGED <<ckpt, merges, saved, weights, index, mergeKills>>

OpenSidecar ==
    /\ doing = "planned" /\ doing' = "opened"
    /\ weights' = With(weights, SIDECAR, NoTensors)
    /\ UNCHANGED <<ckpt, merges, saved, index, weightMap, mergeKills>>

(* The sidecar is whole before the index that names it is opened.             *)
SaveSidecar ==
    /\ doing = "opened" /\ doing' = "written"
    /\ weights' = With(weights, SIDECAR, [t \in PlanKnorm(weightMap) |->
                                             [dim |-> DimOf(t[1]), of |-> 0]])
    /\ UNCHANGED <<ckpt, merges, saved, index, weightMap, mergeKills>>

OpenIndex ==
    /\ doing = "written" /\ doing' = "indexing"
    /\ index' = Index("torn", NoTensors)
    /\ UNCHANGED <<ckpt, merges, saved, weights, weightMap, mergeKills>>

SaveIndex ==
    /\ doing = "indexing" /\ doing' = "ready"
    /\ index' = Index("whole", [t \in DOMAIN weightMap \cup PlanKnorm(weightMap) |->
                                   IF t \in PlanKnorm(weightMap) THEN SIDECAR ELSE weightMap[t]])
    /\ UNCHANGED <<ckpt, merges, saved, weights, weightMap, mergeKills>>

KillMerge ==
    /\ ~Resting /\ mergeKills < MergeKills
    /\ doing' = "off" /\ mergeKills' = mergeKills + 1
    /\ UNCHANGED <<ckpt, merges, saved, weights, index, weightMap>>

MergeNext ==
    \/ StartMerge \/ SaveWeights \/ EndMerge \/ OpenSidecar \/ SaveSidecar
    \/ OpenIndex \/ SaveIndex \/ KillMerge
    \/ \E dry \in BOOLEAN : Plan(dry)

-----------------------------------------------------------------------------
(* Properties.                                                                *)

(* Whatever merges and runs were cut short before it, a command that returned *)
(* leaves a checkpoint stock vLLM loads: what it reads has every tensor it    *)
(* asks for, of the size it builds, in the file it is said to be in; and no   *)
(* tensor of the last merge was replaced by a zero of the sidecar.            *)
ReadyLoads ==
    doing = "ready" =>
        LET map == IF index.state = "whole" THEN index.map ELSE BuiltMap(DOMAIN weights)
        IN  /\ Asked = DOMAIN map
            /\ \A t \in Asked : /\ t \in DOMAIN weights[map[t]]
                                /\ weights[map[t]][t].dim = DimOf(t[1])
                                /\ t \in Stored => weights[map[t]][t].of = merges
=============================================================================
