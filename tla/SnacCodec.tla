----------------------------- MODULE SnacCodec -----------------------------
(* tts/codec/snac.py, tts/inference/prompts.py and tts/templates/chat.py: SNAC *)
(* codes to audio tokens and back, alone and in batches, and the sequence a    *)
(* model is trained on and prompted with.  The SNAC networks are external: an  *)
(* encoder gives three streams of codes at rates 1:2:4, a decoder one sample   *)
(* for each frame, named by the seven codes it is made of.                     *)
EXTENDS Integers, Sequences, SequencesExt, Selection

CONSTANTS
    CodebookSize,     \* SNAC_CODEBOOK_SIZE
    Base,             \* audio_token_base_id
    StartId, EndId,   \* start_of_audio_id, end_of_audio_id
    Marker            \* the ids of the other template tokens

ASSUME CodecAssumption ==
    /\ CodebookSize \in Nat \ {0} /\ Base \in Nat
    /\ {StartId, EndId, Marker} \subseteq 0 .. Base - 1
    /\ StartId # EndId /\ Marker \notin {StartId, EndId}

SNAC_NUM_CODEBOOKS == 7
Positions == 1 .. SNAC_NUM_CODEBOOKS
Codes == 0 .. CodebookSize - 1
Failed == <<>>    \* None, or the ValueError of decode_audio

(* The seven codes of frame i, from the three streams.                        *)
Frame(streams, i) ==
    LET c0 == streams[1]  c1 == streams[2]  c2 == streams[3]
    IN  <<c0[i], c1[2 * i - 1], c2[4 * i - 3], c2[4 * i - 2],
          c1[2 * i], c2[4 * i - 1], c2[4 * i]>>
Frames(streams, n) == [i \in 1 .. n |-> Frame(streams, i)]

(* _remove_duplicate_frames                                                   *)
RemoveDuplicates(frames) ==
    PickAt(frames, {i \in DOMAIN frames : i = 1 \/ frames[i][1] # frames[i - 1][1]})

(* Seven tokens a frame, each offset by its position.                         *)
Position(k) == (k - 1) % SNAC_NUM_CODEBOOKS
TokensOf(frames) ==
    [k \in 1 .. SNAC_NUM_CODEBOOKS * Len(frames) |->
        frames[(k - 1) \div SNAC_NUM_CODEBOOKS + 1][Position(k) + 1]
          + Base + Position(k) * CodebookSize]

(* encode_audio, tokens_to_audio_token_ids                                    *)
EncodeAudio(streams) == TokensOf(RemoveDuplicates(Frames(streams, Len(streams[1]))))

(* batch_encode_audio: the streams are those of the row padded to the longest *)
(* of the batch, n the frames SNAC gives for its own length.                  *)
EncodeInBatch(padded, n) ==
    LET m == IF n < Len(padded[1]) THEN n ELSE Len(padded[1])
    IN  IF m = 0 THEN <<>> ELSE TokensOf(RemoveDuplicates(Frames(padded, m)))

-----------------------------------------------------------------------------
(* _parse_token_ids_to_frames, and what decode_audio does before it decodes.  *)
InVocabulary(t) == Base <= t /\ t < Base + SNAC_NUM_CODEBOOKS * CodebookSize
RawFrames(tokens) ==
    [i \in 1 .. Len(tokens) \div SNAC_NUM_CODEBOOKS |->
        [p \in Positions |-> tokens[(i - 1) * SNAC_NUM_CODEBOOKS + p]
                               - Base - (p - 1) * CodebookSize]]
ParseFrames(tokens) ==
    IF Len(tokens) < SNAC_NUM_CODEBOOKS \/ \E k \in DOMAIN tokens : ~InVocabulary(tokens[k])
    THEN Failed
    ELSE LET raw == RawFrames(tokens)
         IN  PickAt(raw, {i \in DOMAIN raw : \A p \in Positions : raw[i][p] \in Codes})

(* Mutant: the second and the third stream trade a position.                  *)
StreamsSwapped(frames) ==
    LET n == Len(frames)
    IN  <<[i \in 1 .. n |-> frames[i][1]],
          [i \in 1 .. 2 * n |-> LET f == frames[(i + 1) \div 2]
                                IN  IF i % 2 = 1 THEN f[2] ELSE f[4]],
          [i \in 1 .. 4 * n |-> LET f == frames[(i + 3) \div 4]
                                IN  CASE i % 4 = 1 -> f[3] [] i % 4 = 2 -> f[5]
                                      [] i % 4 = 3 -> f[6] [] i % 4 = 0 -> f[7]]>>

(* The three streams of a sequence of frames.                                 *)
Streams(frames) ==
    LET n == Len(frames)
    IN  <<[i \in 1 .. n |-> frames[i][1]],
          [i \in 1 .. 2 * n |-> LET f == frames[(i + 1) \div 2]
                                IN  IF i % 2 = 1 THEN f[2] ELSE f[5]],
          [i \in 1 .. 4 * n |-> LET f == frames[(i + 3) \div 4]
                                IN  CASE i % 4 = 1 -> f[3] [] i % 4 = 2 -> f[4]
                                      [] i % 4 = 3 -> f[6] [] i % 4 = 0 -> f[7]]>>

(* snac_model.decode                                                          *)
SnacDecode(streams) == Frames(streams, Len(streams[1]))

DecodeAudio(tokens) ==
    LET frames == ParseFrames(tokens)
    IN  IF frames = Failed THEN Failed ELSE SnacDecode(Streams(frames))

(* decode_window_batch: of a window of frames the second.                     *)
DecodeWindow(frames) == SnacDecode(Streams(frames))[2]

(* batch_decode_audio: the rows that parse, by number of frames, in chunks;   *)
(* a row is padded with zero frames to the longest of its chunk and its       *)
(* waveform cut back to its own frames.                                       *)
ZeroFrame == [p \in Positions |-> 0]
Pad(frames, n) == frames \o [i \in 1 .. n - Len(frames) |-> ZeroFrame]

(* Mutant: the waveforms stay in the order of the sort.                       *)
BatchDecodeSorted(lists, batchSize) ==
    LET parsed == [i \in DOMAIN lists |-> ParseFrames(lists[i])]
        good   == {i \in DOMAIN lists : parsed[i] # Failed}
        place(i) == Cardinality({j \in good : \/ Len(parsed[j]) < Len(parsed[i])
                                              \/ Len(parsed[i]) = Len(parsed[j]) /\ j <= i})
    IN  [i \in DOMAIN lists |->
            IF \E j \in good : place(j) = i
            THEN SnacDecode(Streams(parsed[CHOOSE j \in good : place(j) = i])) ELSE Failed]

BatchDecode(lists, batchSize) ==
    LET parsed == [i \in DOMAIN lists |-> ParseFrames(lists[i])]
        good   == {i \in DOMAIN lists : parsed[i] # Failed}
        before(i, j) == \/ Len(parsed[i]) < Len(parsed[j])
                        \/ Len(parsed[i]) = Len(parsed[j]) /\ i <= j
        place(i) == Cardinality({j \in good : before(j, i)}) - 1
        chunk(i) == {j \in good : place(j) \div batchSize = place(i) \div batchSize}
        longest(i) == Max({Len(parsed[j]) : j \in chunk(i)})
    IN  [i \in DOMAIN lists |->
            IF i \notin good THEN Failed
            ELSE SubSeq(SnacDecode(Streams(Pad(parsed[i], longest(i)))), 1, Len(parsed[i]))]

-----------------------------------------------------------------------------
(* chat.py build_sequence: the prompt, which ends at prompt_end, and what     *)
(* follows it in training.  Empty text or audio gives nothing.                *)
PromptSegment(meta, text) ==
    <<Marker, Marker>> \o meta \o text \o <<Marker, Marker, Marker>>
TrainingTarget(audio) == <<StartId>> \o audio \o <<EndId, Marker>>
BuildSequence(meta, text, audio) ==
    IF text = <<>> \/ audio = <<>> THEN [ids |-> <<>>, promptEnd |-> 0]
    ELSE [ids |-> PromptSegment(meta, text) \o TrainingTarget(audio),
          promptEnd |-> Len(PromptSegment(meta, text))]

(* prompts.py build_prompt_ids                                                *)
BuildPrompt(meta, text) ==
    LET s == BuildSequence(meta, text, <<0>>) IN SubSeq(s.ids, 1, s.promptEnd)

(* extract_audio_tokens: between the last start and the next end after it.    *)
ExtractAudio(generated) ==
    LET starts == {i \in DOMAIN generated : generated[i] = StartId}
        start  == Max(starts)
        ends   == {i \in DOMAIN generated : i > start /\ generated[i] = EndId}
    IN  IF starts = {} THEN <<>>
        ELSE SubSeq(generated, start + 1,
                    IF ends = {} THEN Len(generated) ELSE Min(ends) - 1)

(* How vLLM and generate stop: the first stop token is the last they give.    *)
Emitted(target) ==
    LET stops == {i \in DOMAIN target : target[i] = EndId}
    IN  IF stops = {} THEN target ELSE SubSeq(target, 1, Min(stops))
=============================================================================
