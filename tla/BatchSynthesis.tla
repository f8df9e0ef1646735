--------------------------- MODULE BatchSynthesis ---------------------------
(* tts/inference/offline_vllm.py: a manifest of samples is spoken in two       *)
(* phases.  Engine actors generate the tokens of their share of the rows; when *)
(* all have, codec actors decode theirs and write a WAV for each row; a         *)
(* manifest says how every row went.  A row whose WAV exists is skipped by the  *)
(* next run.  A stage may raise or run out of time, and the job may be killed.  *)
EXTENDS SnacCodec, FiniteSets

CONSTANTS
    Input,            \* rows of the jsonl: [afp, stem, text, language, speaker]
    NoText,           \* a missing or blank text
    Generations(_, _),\* what the model may emit for a text and a speaker
    NLlm, NSnac,      \* num_llm_workers, num_snac_workers
    BatchSize,        \* snac_decode_batch_size
    Options,          \* bound: options a run may have
    MaxRuns, MaxKills,\* bounds: runs started, kills
    MaxFaults         \* bound: failed calls and writes

ASSUME SynthesisAssumption ==
    /\ NLlm \in Nat \ {0} /\ NSnac \in Nat \ {0} /\ BatchSize \in Nat \ {0}
    /\ Options \subseteq [force : BOOLEAN, dedup : BOOLEAN, split : BOOLEAN]
    /\ MaxRuns \in Nat /\ MaxKills \in Nat /\ MaxFaults \in Nat

VARIABLES
    wavs,        \* output_dir/audio: path -> waveform, of the paths that exist
    manifests,   \* "all" or a language -> rows, of the files that exist
    runPc,       \* "down", "llm", "snac", "cleanup", "manifest"
    options,     \* force_regenerate, dedup and split_by_language of the run
    plan,        \* plan of the run
    llm,         \* engine actor -> its call
    snac,        \* codec actor -> its call
    results,     \* gen_results, by row
    failure,     \* failure_error is set
    toWrite,     \* manifests still to be written
    runs, kills, faults

synthVars == <<wavs, manifests, runPc, options, plan, llm, snac, results, failure,
               toWrite, runs, kills, faults>>

(* load_prompts_jsonl: the rows with text, numbered anew.                     *)
Items ==
    LET rows == SelectSeq(Input, LAMBDA it : it.text # NoText)
    IN  [k \in DOMAIN rows |-> [row |-> k - 1, item |-> rows[k]]]
Llms == 0 .. NLlm - 1
Snacs == 0 .. NSnac - 1
NoCall == [st |-> "idle", shard |-> <<>>, out |-> <<>>]
Dead == [st |-> "dead", shard |-> <<>>, out |-> <<>>]

-----------------------------------------------------------------------------
(* dedup_items: the first row of each identity.                               *)
Identity(it) == IF it.item.afp # "" THEN <<it.item.afp>>
                ELSE <<it.item.text, it.item.language, it.item.speaker>>
Dedup(items) ==
    PickAt(items, {k \in DOMAIN items :
                     \A j \in 1 .. k - 1 : Identity(items[j]) # Identity(items[k])})

(* build_plan: a path is a directory and a stem, the stem a name and the      *)
(* suffixes "__<row>" it has.  A row whose path another text owns gets a      *)
(* suffix; a row without audio_filepath is named by its index.                *)
Directory(it, split) == IF split THEN it.item.language ELSE "audio"
Stem(it) == IF it.item.stem # <<>> THEN it.item.stem ELSE <<"row", it.row>>

PlanRow(p, it, split, force) ==
    LET dir   == Directory(it, split)
        rel   == <<dir, Stem(it)>>
        other == rel \in DOMAIN p.taken /\ p.taken[rel] # it.item.text
        path  == IF other THEN <<dir, Append(Stem(it), it.row)>> ELSE rel
    IN  [rows |-> Append(p.rows, [row |-> it.row, item |-> it.item, path |-> path,
                                  skip |-> path \in DOMAIN wavs /\ ~force]),
         taken |-> [q \in DOMAIN p.taken \cup {path} |->
                       IF q = path THEN it.item.text ELSE p.taken[q]]]

BuildPlan(items, split, force) ==
    FoldLeft(LAMBDA p, it : PlanRow(p, it, split, force),
             [rows |-> <<>>, taken |-> [q \in {} |-> ""]], items).rows

(* _shard_round_robin                                                         *)
Share(items, n, w) ==
    LET count == Cardinality({k \in DOMAIN items : (k - 1) % n = w})
    IN  [k \in 1 .. count |-> items[(k - 1) * n + w + 1]]

ToGenerate == SelectSeq(plan, LAMBDA p : ~p.skip)
PlanOf(row) == plan[CHOOSE k \in DOMAIN plan : plan[k].row = row]

-----------------------------------------------------------------------------
(* run up to the calls of process; with nothing to generate only the          *)
(* manifests are written.                                                     *)
Start ==
    /\ runPc = "down" /\ runs < MaxRuns
    /\ \E o \in Options :
         LET rows == BuildPlan(IF o.dedup THEN Dedup(Items) ELSE Items, o.split, o.force)
             work == SelectSeq(rows, LAMBDA p : ~p.skip)
         IN  /\ options' = o
             /\ plan' = rows
             /\ llm' = [w \in Llms |-> [st |-> "busy", shard |-> Share(work, NLlm, w),
                                        out |-> <<>>]]
             /\ runPc' = IF work = <<>> THEN "manifest" ELSE "llm"
             /\ toWrite' = IF work = <<>> THEN <<"all">> ELSE <<>>
    /\ snac' = [w \in Snacs |-> NoCall]
    /\ results' = [r \in {} |-> ""]
    /\ failure' = FALSE
    /\ runs' = runs + 1
    /\ UNCHANGED <<wavs, manifests, kills, faults>>

(* VLLMWorker.process: the tokens of every row of the share, in its order.    *)
LlmDone(w) ==
    /\ llm[w].st = "busy"
    /\ \E gens \in {g \in [DOMAIN llm[w].shard ->
                             UNION {Generations(llm[w].shard[k].item.text,
                                                llm[w].shard[k].item.speaker) :
                                      k \in DOMAIN llm[w].shard}] :
                      \A k \in DOMAIN g : g[k] \in Generations(llm[w].shard[k].item.text,
                                                               llm[w].shard[k].item.speaker)} :
         llm' = [llm EXCEPT ![w] =
                   [@ EXCEPT !.st = "done",
                             !.out = [k \in DOMAIN gens |->
                                        [row |-> llm[w].shard[k].row, tokens |-> gens[k]]]]]
    /\ UNCHANGED <<wavs, manifests, runPc, options, plan, snac, results, failure,
                   toWrite, runs, kills, faults>>

LlmRaises(w) ==
    /\ llm[w].st = "busy" /\ faults < MaxFaults
    /\ llm' = [llm EXCEPT ![w].st = "error"]
    /\ faults' = faults + 1
    /\ UNCHANGED <<wavs, manifests, runPc, options, plan, snac, results, failure,
                   toWrite, runs, kills>>

(* The results of all engines, in the order of the engines, and the calls of  *)
(* decode_and_save_batch.                                                     *)
Gathered(calls, n) == FlattenSeq([w \in 1 .. n |-> calls[w - 1].out])
CollectTokens ==
    /\ runPc = "llm" /\ \A w \in Llms : llm[w].st = "done"
    /\ LET outs  == Gathered(llm, NLlm)
           items == [k \in DOMAIN outs |-> [row |-> outs[k].row, tokens |-> outs[k].tokens,
                                            path |-> PlanOf(outs[k].row).path]]
       IN  snac' = [w \in Snacs |-> [st |-> "busy", shard |-> Share(items, NSnac, w),
                                     out |-> <<>>]]
    /\ runPc' = "snac"
    /\ UNCHANGED <<wavs, manifests, options, plan, llm, results, failure, toWrite,
                   runs, kills, faults>>

(* decode_and_save_batch, up to the first write: rows without tokens or with  *)
(* too few fail, the rest are decoded together.                               *)
Audio(item) == ExtractAudio(item.tokens)
Decodable(items) ==
    SelectSeq(items, LAMBDA i : i.tokens # <<>> /\ Len(Audio(i)) >= SNAC_NUM_CODEBOOKS)
Refused(items) ==
    LET bad == SelectSeq(items, LAMBDA i : i.tokens = <<>> \/ Len(Audio(i)) < SNAC_NUM_CODEBOOKS)
    IN  [k \in DOMAIN bad |-> [row |-> bad[k].row,
                               error |-> IF bad[k].tokens = <<>> THEN "empty_generation"
                                         ELSE "no_audio_tokens"]]
Decoded(items, batchSize) ==
    LET waves == BatchDecode([k \in DOMAIN items |-> Audio(items[k])], batchSize)
    IN  [k \in DOMAIN items |-> [row |-> items[k].row, path |-> items[k].path,
                                 wave |-> waves[k]]]

Decode(w) ==
    /\ snac[w].st = "busy"
    /\ snac' = [snac EXCEPT ![w] = [st |-> "writing",
                                    shard |-> Decoded(Decodable(@.shard), BatchSize),
                                    out |-> Refused(@.shard)]]
    /\ UNCHANGED <<wavs, manifests, runPc, options, plan, llm, results, failure,
                   toWrite, runs, kills, faults>>

DecodeRaises(w) ==
    /\ snac[w].st = "busy" /\ faults < MaxFaults
    /\ snac' = [snac EXCEPT ![w].st = "error"]
    /\ faults' = faults + 1
    /\ UNCHANGED <<wavs, manifests, runPc, options, plan, llm, results, failure,
                   toWrite, runs, kills>>

(* write_wav_24k of the next row: all of the WAV or, when it fails, nothing.  *)
Wrote(w, error) ==
    snac' = [snac EXCEPT ![w] = [@ EXCEPT !.shard = Tail(@),
                !.out = Append(@, [row |-> Head(snac[w].shard).row, error |-> error])]]
WriteWav(w) ==
    /\ snac[w].st = "writing" /\ snac[w].shard # <<>>
    /\ LET r == Head(snac[w].shard)
       IN  IF r.wave = Failed
           THEN Wrote(w, "decode_failed") /\ UNCHANGED <<wavs, faults>>
           ELSE \/ /\ Wrote(w, "none")
                   /\ wavs' = [p \in DOMAIN wavs \cup {r.path} |->
                                 IF p = r.path THEN r.wave ELSE wavs[p]]
                   /\ UNCHANGED faults
                \/ /\ faults < MaxFaults
                   /\ Wrote(w, "write") /\ UNCHANGED wavs
                   /\ faults' = faults + 1
    /\ UNCHANGED <<manifests, runPc, options, plan, llm, results, failure, toWrite,
                   runs, kills>>

SnacReturns(w) ==
    /\ snac[w].st = "writing" /\ snac[w].shard = <<>>
    /\ snac' = [snac EXCEPT ![w].st = "done"]
    /\ UNCHANGED <<wavs, manifests, runPc, options, plan, llm, results, failure,
                   toWrite, runs, kills, faults>>

CollectAudio ==
    /\ runPc = "snac" /\ \A w \in Snacs : snac[w].st = "done"
    /\ LET outs == Gathered(snac, NSnac)
           last(r) == Max({k \in DOMAIN outs : outs[k].row = r})
       IN  results' = [r \in {outs[k].row : k \in DOMAIN outs} |-> outs[last(r)].error]
    /\ runPc' = "cleanup"
    /\ UNCHANGED <<wavs, manifests, options, plan, llm, snac, failure, toWrite, runs,
                   kills, faults>>

(* A call raised, or the time for the stage is over (ray_timeout_sec), with   *)
(* whatever the other actors are doing.                                       *)
StageFails ==
    /\ \/ runPc = "llm" /\ \E w \in Llms : llm[w].st # "done"
       \/ runPc = "snac" /\ \E w \in Snacs : snac[w].st # "done"
    /\ failure' = TRUE
    /\ runPc' = "cleanup"
    /\ UNCHANGED <<wavs, manifests, options, plan, llm, snac, results, toWrite, runs,
                   kills, faults>>

(* _cleanup_workers: shutdown is answered once an engine's call has returned, *)
(* whatever the timeout of the stage; then all actors are killed.  When a     *)
(* stage failed, _mark_failed_rows gives every row without a result one.      *)
MarkFailed(res) ==
    LET rows == {ToGenerate[k].row : k \in DOMAIN ToGenerate}
    IN  [r \in DOMAIN res \cup rows |-> IF r \in DOMAIN res THEN res[r] ELSE "stage"]
Cleanup ==
    /\ runPc = "cleanup" /\ \A w \in Llms : llm[w].st # "busy"
    /\ llm' = [w \in Llms |-> Dead] /\ snac' = [w \in Snacs |-> Dead]
    /\ results' = IF failure THEN MarkFailed(results) ELSE results
    /\ toWrite' = <<"all">>
    /\ runPc' = "manifest"
    /\ UNCHANGED <<wavs, manifests, options, plan, failure, runs, kills, faults>>

(* _write_final_manifest, then write_manifests for each language of the rows  *)
(* it reads back; every file is replaced at once.                             *)
ManifestRow(p) ==
    LET error == IF p.skip THEN "none"
                 ELSE IF p.row \in DOMAIN results THEN results[p.row]
                 ELSE "no_llm_result"
    IN  [row |-> p.row, item |-> p.item, ok |-> error = "none", error |-> error,
         path |-> IF error = "none" THEN p.path ELSE <<>>]
FinalManifest == [k \in DOMAIN plan |-> ManifestRow(plan[k])]

LanguagesOf(rows) == {rows[k].item.language : k \in DOMAIN rows}
WriteManifest ==
    /\ runPc = "manifest" /\ toWrite # <<>>
    /\ LET which == Head(toWrite)
           rows  == IF which = "all" THEN FinalManifest
                    ELSE SelectSeq(manifests["all"].rows, LAMBDA m : m.item.language = which)
       IN  /\ manifests' = [f \in DOMAIN manifests \cup {which} |->
                              IF f = which THEN [split |-> options.split, rows |-> rows]
                              ELSE manifests[f]]
           /\ toWrite' = Tail(toWrite) \o
                (IF which = "all" /\ options.split THEN SetToSeq(LanguagesOf(rows)) ELSE <<>>)
    /\ UNCHANGED <<wavs, runPc, options, plan, llm, snac, results, failure, runs,
                   kills, faults>>

(* run returns.                                                               *)
Return ==
    /\ runPc = "manifest" /\ toWrite = <<>>
    /\ runPc' = "down"
    /\ plan' = <<>> /\ results' = [r \in {} |-> ""] /\ failure' = FALSE
    /\ llm' = [w \in Llms |-> Dead] /\ snac' = [w \in Snacs |-> Dead]
    /\ UNCHANGED <<wavs, manifests, options, toWrite, runs, kills, faults>>

(* The job is killed, its actors with it.                                     *)
KillJob ==
    /\ runPc # "down" /\ kills < MaxKills
    /\ runPc' = "down"
    /\ plan' = <<>> /\ results' = [r \in {} |-> ""] /\ failure' = FALSE
    /\ llm' = [w \in Llms |-> Dead] /\ snac' = [w \in Snacs |-> Dead]
    /\ toWrite' = <<>> /\ kills' = kills + 1
    /\ UNCHANGED <<wavs, manifests, options, runs, faults>>

SynthInit ==
    /\ wavs = [p \in {} |-> Failed]
    /\ manifests = [f \in {} |-> <<>>]
    /\ runPc = "down"
    /\ options = [force |-> FALSE, dedup |-> FALSE, split |-> FALSE]
    /\ plan = <<>>
    /\ llm = [w \in Llms |-> Dead] /\ snac = [w \in Snacs |-> Dead]
    /\ results = [r \in {} |-> ""] /\ failure = FALSE /\ toWrite = <<>>
    /\ runs = 0 /\ kills = 0 /\ faults = 0

SynthNext ==
    \/ Start \/ CollectTokens \/ CollectAudio \/ StageFails \/ Cleanup
    \/ WriteManifest \/ Return \/ KillJob
    \/ \E w \in Llms : LlmDone(w) \/ LlmRaises(w)
    \/ \E w \in Snacs : Decode(w) \/ DecodeRaises(w) \/ WriteWav(w) \/ SnacReturns(w)

-----------------------------------------------------------------------------
Waves(item) == {DecodeAudio(ExtractAudio(g)) : g \in Generations(item.text, item.speaker)}
                 \ {Failed}

(* A row that a manifest calls ok has a WAV where it says, and the WAV is     *)
(* that row's sample: one of the things its own prompt can sound like.  The   *)
(* row travels through two rounds of sharding, a filter and a sort by length, *)
(* and its WAV may be of an earlier run.                                      *)
ManifestTruthful ==
    \A f \in DOMAIN manifests : \A k \in DOMAIN manifests[f].rows :
      LET m == manifests[f].rows[k]
      IN  m.ok => m.path \in DOMAIN wavs /\ wavs[m.path] \in Waves(m.item)

(* The docstring of build_plan: rows "that would collide on the same target   *)
(* path (different text, same basename) are disambiguated", "so no sample is  *)
(* silently overwritten" (a run refutes it: two speakers of one text).        *)
NoSampleOverwritten ==
    \A j, k \in DOMAIN plan :
       plan[j].path = plan[k].path =>
         /\ plan[j].item.text = plan[k].item.text
         /\ plan[j].item.speaker = plan[k].item.speaker
=============================================================================
