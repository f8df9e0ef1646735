------------------------------ MODULE TtsEngine ------------------------------
(* IndicTTSEngine of tts/engine/offline.py, called with texts the model was    *)
(* trained on: prompts, one generation for all of them, one batched decode.    *)
(* What the model emits for a prompt is what followed it in the training data  *)
(* (tts/templates/chat.py over tokens made by tts/codec/snac.py), possibly cut *)
(* by max_new_tokens, or something without audio.                              *)
EXTENDS SnacCodec

CONSTANTS
    Recordings,   \* the streams of codes of each text's recording
    LongRecordings, \* texts whose recording the tokenizer encodes alone
    MaxRows,      \* bound: texts of a call
    DecodeBatch   \* max_batch_size


Texts == DOMAIN Recordings
Blank == 0
Malformed == -1   \* a turn without a speaker

(* The encoder gives streams of codes at rates 1:2:4.                         *)
ASSUME EngineAssumption ==
    /\ MaxRows \in Nat /\ DecodeBatch \in Nat \ {0} /\ LongRecordings \subseteq Texts
    /\ IsFiniteSet(Texts) /\ Blank \notin Texts /\ Malformed \notin Texts
    /\ \A t \in Texts :
         /\ Recordings[t] \in Seq(Codes) \X Seq(Codes) \X Seq(Codes)
         /\ Len(Recordings[t][2]) = 2 * Len(Recordings[t][1])
         /\ Len(Recordings[t][3]) = 4 * Len(Recordings[t][1])

Inputs == Texts \cup {Blank, Malformed}

VARIABLES
    enginePc,     \* "ready", "generate", "decode" or "returned"
    closed,       \* _closed
    snacLoaded,   \* _snac_model is resident
    texts,        \* texts of the call
    rowError,     \* error of each result
    rowAudio,     \* audio of each result
    pending,      \* valid_idx, then decode_idx
    tokenLists,   \* prompts, then audio tokens, aligned with pending
    complete      \* history: the generation of a row was not cut

engineVars == <<enginePc, closed, snacLoaded, texts, rowError, rowAudio, pending,
                tokenLists, complete>>

EngineInit ==
    /\ enginePc = "ready" /\ closed = FALSE /\ snacLoaded = FALSE
    /\ texts = <<>> /\ rowError = <<>> /\ rowAudio = <<>>
    /\ pending = <<>> /\ tokenLists = <<>> /\ complete = <<>>

(* Training data of a text: a long recording is encoded alone, the others in  *)
(* a batch, padded to the longest of them.                                    *)
Meta == <<Marker>>
TextIds(t) == IF t = Blank THEN <<>> ELSE <<Marker>>
Longest == Max({Len(Recordings[t][1]) : t \in Texts \ LongRecordings})
PaddedStreams(streams) ==
    LET extra == Longest - Len(streams[1])
    IN  <<streams[1] \o [k \in 1 .. extra |-> 0],
          streams[2] \o [k \in 1 .. 2 * extra |-> 0],
          streams[3] \o [k \in 1 .. 4 * extra |-> 0]>>
EncodeWaveform(t) ==
    IF t \in LongRecordings THEN EncodeAudio(Recordings[t])
    ELSE EncodeInBatch(PaddedStreams(Recordings[t]), Len(Recordings[t][1]))
TrainingIds(t) == BuildSequence(Meta, TextIds(t), EncodeWaveform(t)).ids

(* What the model may emit after a prompt.                                    *)
Continuation(t, prompt) == Emitted(SubSeq(TrainingIds(t), Len(prompt) + 1, Len(TrainingIds(t))))
Generated(t, prompt) ==
    LET all == Continuation(t, prompt)
    IN  {all, SubSeq(all, 1, Min({Len(all), SNAC_NUM_CODEBOOKS + 3})), <<Marker>>}

(* synthesize_batch and synthesize_conversation_batch up to _run_generation.  *)
BuildError(t) == CASE t = Malformed -> "prompt build failed"
                   [] t = Blank -> "empty prompt"
                   [] OTHER -> "none"
Synthesize ==
    /\ enginePc = "ready"
    /\ \E rows \in UNION {[1 .. n -> Inputs] : n \in 1 .. MaxRows} :
         LET valid == PickAt([i \in DOMAIN rows |-> i], {i \in DOMAIN rows : BuildError(rows[i]) = "none"})
         IN  /\ texts' = rows
             /\ rowError' = [i \in DOMAIN rows |-> BuildError(rows[i])]
             /\ rowAudio' = [i \in DOMAIN rows |-> Failed]
             /\ complete' = [i \in DOMAIN rows |-> FALSE]
             /\ pending' = valid
             /\ tokenLists' = [k \in DOMAIN valid |-> BuildPrompt(Meta, TextIds(rows[valid[k]]))]
             /\ enginePc' = IF valid = <<>> THEN "returned" ELSE "generate"
    /\ UNCHANGED <<closed, snacLoaded>>

(* backend.generate, which raises on a closed engine; extract_audio_tokens.   *)
Generate ==
    /\ enginePc = "generate" /\ ~closed
    /\ \E gens \in {g \in [DOMAIN pending ->
                             UNION {Generated(texts[pending[k]], tokenLists[k]) : k \in DOMAIN pending}] :
                      \A k \in DOMAIN g : g[k] \in Generated(texts[pending[k]], tokenLists[k])} :
         LET audio == [k \in DOMAIN gens |-> ExtractAudio(gens[k])]
             kept  == {k \in DOMAIN gens : audio[k] # <<>>}
         IN  /\ rowError' = [i \in DOMAIN texts |->
                  IF \E k \in DOMAIN pending : pending[k] = i /\ audio[k] = <<>>
                  THEN "no audio tokens" ELSE rowError[i]]
             /\ complete' = [i \in DOMAIN texts |->
                  \E k \in DOMAIN pending :
                     pending[k] = i /\ gens[k] = Continuation(texts[i], tokenLists[k])]
             /\ pending' = PickAt(pending, kept)
             /\ tokenLists' = PickAt(audio, kept)
             /\ enginePc' = IF kept = {} THEN "returned" ELSE "decode"
    /\ UNCHANGED <<closed, snacLoaded, texts, rowAudio>>

Raises ==
    /\ enginePc \in {"generate", "decode"}
    /\ enginePc' = "ready"
    /\ texts' = <<>> /\ rowError' = <<>> /\ rowAudio' = <<>> /\ complete' = <<>>
    /\ pending' = <<>> /\ tokenLists' = <<>>
    /\ UNCHANGED <<closed, snacLoaded>>

(* The batched decode, with the codec loaded on first use.                    *)
DecodeRows ==
    /\ enginePc = "decode"
    /\ LET waves == BatchDecode(tokenLists, DecodeBatch)
           of(i) == {k \in DOMAIN pending : pending[k] = i}
       IN  /\ rowAudio' = [i \in DOMAIN texts |->
                IF of(i) = {} THEN Failed ELSE waves[CHOOSE k \in of(i) : TRUE]]
           /\ rowError' = [i \in DOMAIN texts |->
                IF of(i) # {} /\ waves[CHOOSE k \in of(i) : TRUE] = Failed
                THEN "decode failed" ELSE rowError[i]]
    /\ snacLoaded' = TRUE
    /\ enginePc' = "returned"
    /\ UNCHANGED <<closed, texts, pending, tokenLists, complete>>

Take ==
    /\ enginePc = "returned"
    /\ enginePc' = "ready"
    /\ texts' = <<>> /\ rowError' = <<>> /\ rowAudio' = <<>> /\ complete' = <<>>
    /\ pending' = <<>> /\ tokenLists' = <<>>
    /\ UNCHANGED <<closed, snacLoaded>>

Close ==
    /\ enginePc = "ready" /\ ~closed
    /\ closed' = TRUE /\ snacLoaded' = FALSE
    /\ UNCHANGED <<enginePc, texts, rowError, rowAudio, pending, tokenLists, complete>>

EngineNext == Synthesize \/ Generate \/ Raises \/ DecodeRows \/ Take \/ Close

EngineSpec == EngineInit /\ [][EngineNext]_engineVars

(* A call returns, for every text, either the audio of its own recording (the *)
(* frames of it the codec keeps, the first of them when the generation was    *)
(* cut) or an error: the rows dropped on the way, the sort by length and the  *)
(* padding of the batch never move or change another row's audio.             *)
SpokenAsRecorded ==
    enginePc = "returned" =>
      \A i \in DOMAIN texts :
         IF rowAudio[i] = Failed THEN rowError[i] # "none"
         ELSE LET own == Frames(Recordings[texts[i]], Len(Recordings[texts[i]][1]))
                  said == RemoveDuplicates(own)
              IN  /\ rowError[i] = "none"
                  /\ IsPrefix(rowAudio[i], said)
                  /\ complete[i] => rowAudio[i] = said
=============================================================================
