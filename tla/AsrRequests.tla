----------------------------- MODULE AsrRequests -----------------------------
(***************************************************************************)
(* One request to the ASR server from its arrival to its reply              *)
(* (asr/serving/service.py), with the calls the replica makes for it on     *)
(* worker threads (asr/serving/replica.py) and what the engine does in them *)
(* (asr/engine/engine.py).  An uploaded file is spooled to a temporary one  *)
(* chunk by chunk and transcribed once per output mode; the caller may      *)
(* disconnect at any await, and a call already on its thread then outlives  *)
(* the handler.                                                             *)
(*                                                                         *)
(* A text is the sequence of the voiced units it was decoded from, each with *)
(* the file it is of, its position, the language it was prompted in and the  *)
(* output mode: the decoder is external and says one word per voiced unit.  *)
(***************************************************************************)
EXTENDS SpeechChunks

CONSTANTS
    Nothing,        \* Python's None
    Requests,       \* the requests a caller may send
    Audio,          \* what each file holds
    Broken,         \* files soundfile cannot decode
    Outside,        \* files outside ASR_PATHS_ROOT
    UploadSize,     \* the chunks an uploaded file is read in
    MaxUpload,      \* MAX_UPLOAD_BYTES, in chunks
    Trained,        \* TRAINED_LANGS
    Recommended,    \* RECOMMENDED_LANGS
    ChunkAbove,     \* cfg.chunk_above
    BatchSize,      \* cfg.batch_size, and the group size of transcribe_long
    LidMax          \* LID_MAX_SECONDS

ASSUME RequestAssumption ==
    /\ {BatchSize, LidMax, ChunkAbove, MaxUpload} \subseteq Nat \ {0}
    /\ Trained \subseteq AllLangs /\ Recommended \subseteq Trained /\ Recommended # {}
    /\ Nothing \notin AllLangs
    /\ LidMax % Probes = 0
    /\ \A f \in DOMAIN Audio : Audio[f] \in Seq(ToSet(Audio[f]))
    /\ \A r \in Requests :
        /\ r.paths \in Seq(DOMAIN Audio) /\ r.modes \in Seq(ToSet(r.modes))
        /\ r.above \in {Nothing} \cup Nat
        /\ r.allowed # Nothing => r.allowed \in Seq(ToSet(r.allowed))
        /\ r.kind = "upload" => Len(r.paths) = 1

VARIABLES
    req,        \* the request
    pc,         \* where its handler is
    tmp,        \* the temporary file: "none", "open", "closed" or "gone"
    written,    \* chunks spooled
    job,        \* the call running on a worker thread, Nothing if there is none
    want,       \* an upload's want_lid
    lang,       \* an upload's language so far
    lid,        \* and its identification
    left,       \* modes still to transcribe
    out,        \* texts by mode
    reply       \* the response

requestVars == <<req, pc, tmp, written, job, want, lang, lid, left, out, reply>>

NoMode == [m \in {} |-> <<>>]
Modes == {"native", "mixed", "romanised"}

Arriving ==
    /\ pc = "arriving" /\ tmp = "none" /\ written = 0 /\ job = Nothing
    /\ want = FALSE /\ lang = req.lang /\ lid = Nothing
    /\ left = <<>> /\ out = NoMode /\ reply = Nothing
RequestInit == req \in Requests /\ Arriving

(***************************************************************************)
(* What the caller may ask.                                                 *)
(***************************************************************************)
\* _parse_allowed: codes of the checkpoint and names of sets; Nothing for no restriction.
BadAllowed(spec) ==
    spec # Nothing /\ ~(ToSet(spec) \subseteq Trained \cup {"trained", "recommended"})

ParseAllowed(spec) ==
    IF spec = Nothing \/ spec = <<>> THEN Nothing
    ELSE (ToSet(spec) \cap Trained)
         \cup (IF Contains(spec, "trained") THEN Trained ELSE {})
         \cup (IF Contains(spec, "recommended") THEN Recommended ELSE {})

Allowed == ParseAllowed(req.allowed)

\* TranscribeRequest's validator; _check_paths; encode_prompt.
Valid == req.paths # <<>> /\ (req.lang # Nothing \/ req.report)
Permitted(paths) == ToSet(paths) \cap Outside = {}
Promptable(l) == l \in AllLangs

(***************************************************************************)
(* The engine.  A row is a stretch of a file and the language asked for.    *)
(***************************************************************************)
Row(f, range, l) == [of |-> f, range |-> range, lang |-> l]
Whole(f, l) == Row(f, <<0, Len(Audio[f])>>, l)
Wav(row) == Piece(Audio[row.of], row.range)

Voiced(f, range) ==
    Ascending(Len(Audio[f]), {u \in (range[1] + 1)..range[2] : Audio[f][u] # Quiet})

Text(row, l, mode) ==
    LET at == Voiced(row.of, row.range)
    IN  [i \in DOMAIN at |-> [of |-> row.of, at |-> at[i], in |-> l, as |-> mode]]

\* A supplied language wins; LID fills a missing one.
Identified(asked, top) ==
    IF asked = Nothing THEN [lang |-> top[1].lang, source |-> "lid"]
                       ELSE [lang |-> asked, source |-> "explicit"]

\* transcribe_batch, for rows whose languages can be prompted.
TranscribeBatch(rows, mode, allowed) ==
    [i \in DOMAIN rows |->
        LET id == Identified(rows[i].lang, Top(Wav(rows[i]), 5, Candidates(allowed, Nothing)))
        IN  [text |-> Text(rows[i], id.lang, mode), lid |-> id]]

Slices(s, size) ==
    [b \in 1..((Len(s) + size - 1) \div size) |->
        SubSeq(s, (b - 1) * size + 1, Min({b * size, Len(s)}))]

\* batched: one engine call per BatchSize rows.
Batched(rows, mode, allowed) ==
    LET calls == Slices(rows, BatchSize)
    IN  FlattenSeq([b \in DOMAIN calls |-> TranscribeBatch(calls[b], mode, allowed)])

ProbeTops(pieces, allowed) ==
    LET at == Ascending(Len(pieces), ProbeIndices(Len(pieces), Probes))
    IN  [i \in DOMAIN at |-> Top(pieces[at[i]], 3, Candidates(allowed, Nothing))]

\* The same with every piece identified on its own.
PieceLangsEach(pieces, l) == [i \in DOMAIN pieces |-> Top(pieces[i], 1, AllLangs)[1].lang]

\* The language each piece of a long recording is decoded in: one for all of them.
PieceLangs(pieces, l) == [i \in DOMAIN pieces |-> l]

\* transcribe_long: the language is resolved once, then the pieces are decoded in it.
TranscribeLong(f, asked, thr, mode, allowed) ==
    LET ranges == SplitPoints(Audio[f])
        pieces == [i \in DOMAIN ranges |-> Piece(Audio[f], ranges[i])]
        id == Identified(asked, Best(5, Vote(ProbeTops(pieces, allowed))))
        decoded[l \in AllLangs] ==
            Batched([i \in DOMAIN ranges |-> Row(f, ranges[i], PieceLangs(pieces, l)[i])], mode, Nothing)
        joined(answers) == FlattenSeq([i \in DOMAIN answers |-> answers[i].text])
    IN  IF Len(Audio[f]) <= thr THEN TranscribeBatch(<<Whole(f, asked)>>, mode, allowed)[1]
        ELSE [text |-> joined(decoded[id.lang]), lid |-> id]

\* AsrReplica.transcribe_paths: short rows in batches, long ones each on their own,
\* every answer back at the position of its path.
IsLong(f, thr) == thr # 0 /\ Len(Audio[f]) > thr

TranscribePaths(paths, asked, thr, mode, allowed) ==
    LET short == Ascending(Len(paths), {i \in DOMAIN paths : ~IsLong(paths[i], thr)})
        batch == Batched([j \in DOMAIN short |-> Whole(paths[short[j]], asked)], mode, allowed)
        place(i) == CHOOSE j \in DOMAIN short : short[j] = i
    IN  [i \in DOMAIN paths |->
            IF IsLong(paths[i], thr) THEN TranscribeLong(paths[i], asked, thr, mode, allowed)
                                     ELSE batch[place(i)]]

(***************************************************************************)
(* LID calls of their own: what they encode and what they answer.           *)
(***************************************************************************)
\* detect_language: the languages each recording is most likely in.
DetectLanguage(audio, allowed) ==
    [i \in DOMAIN audio |-> Top(audio[i], 5, Candidates(allowed, Nothing))]

\* detect_language_file: the whole file if it is short enough, else windows of it.
LidRanges(f) ==
    LET n == Len(Audio[f])
        win == LidMax \div Probes
        at == Ascending(n \div win, ProbeIndices(n \div win, Probes))
    IN  IF n <= LidMax THEN <<<<0, n>>>>
        ELSE [i \in DOMAIN at |-> <<(at[i] - 1) * win, at[i] * win>>]

FileTop(f, allowed) ==
    LET ranges == LidRanges(f)
    IN  Best(5, Vote(DetectLanguage([i \in DOMAIN ranges |-> Piece(Audio[f], ranges[i])], allowed)))

(***************************************************************************)
(* Replies.  The handler's finally closes and removes the temporary file.   *)
(***************************************************************************)
AfterFinallyClosed(file) == IF file = "closed" THEN "gone" ELSE file
AfterFinally(file) == IF file = "none" THEN "none" ELSE "gone"

Finish(answer) ==
    /\ reply' = answer /\ pc' = "replied" /\ tmp' = AfterFinally(tmp) /\ job' = Nothing

Error(status) == [status |-> status]

Call(name, asked, mode) ==
    [call |-> name, paths |-> req.paths, asked |-> asked, mode |-> mode,
     thr |-> IF req.above = Nothing THEN ChunkAbove ELSE req.above]

\* Whether the call can be answered: files that decode, a language with a prompt.
CallerError(j) ==
    \/ ToSet(j.paths) \cap Broken # {}
    \/ j.call = "transcribe" /\ j.asked # Nothing /\ ~Promptable(j.asked)

Upload == req.kind = "upload"
UploadState == <<written, want, lang, lid, left, out>>

(***************************************************************************)
(* POST /asr/transcribe and /asr/detect.                                    *)
(***************************************************************************)
Arrive ==
    /\ pc = "arriving" /\ ~Upload /\ req.kind # "stream"
    /\ UNCHANGED <<req, UploadState>>
    /\ \/ /\ \/ req.kind = "transcribe" /\ ~Valid
             \/ req.paths = <<>> \/ ~Permitted(req.paths) \/ BadAllowed(req.allowed)
          /\ Finish(Error(422))
       \/ /\ req.kind = "transcribe" => Valid
          /\ req.paths # <<>> /\ Permitted(req.paths) /\ ~BadAllowed(req.allowed)
          /\ job' = Call(req.kind, req.lang, req.modes[1]) /\ pc' = "calling"
          /\ UNCHANGED <<tmp, reply>>

\* The row of a path in the reply: LID's account when it was asked for.
ReplyRow(f, a) ==
    [of |-> f, text |-> a.text, lang |-> a.lid.lang,
     source |-> IF req.report \/ req.lang = Nothing THEN a.lid.source ELSE "explicit"]

TranscribeAnswered ==
    /\ pc = "calling" /\ req.kind = "transcribe" /\ UNCHANGED <<req, UploadState>>
    /\ IF CallerError(job) THEN Finish(Error(422))
       ELSE \E answers \in {TranscribePaths(job.paths, job.asked, job.thr, job.mode, Allowed)} :
            Finish([status |-> 200,
                    rows |-> [i \in DOMAIN req.paths |-> ReplyRow(req.paths[i], answers[i])]])

DetectAnswered ==
    /\ pc = "calling" /\ req.kind = "detect" /\ UNCHANGED <<req, UploadState>>
    /\ IF CallerError(job) THEN Finish(Error(422))
       ELSE Finish([status |-> 200,
                    tops |-> DetectLanguage([i \in DOMAIN req.paths |-> Audio[req.paths[i]]], Allowed)])

\* WS /asr/stream: a session opens only in a language that can be prompted.
StreamStart ==
    /\ pc = "arriving" /\ req.kind = "stream" /\ UNCHANGED <<req, UploadState>>
    /\ IF req.lang # Nothing /\ Promptable(req.lang)
       THEN Finish([status |-> "start"]) ELSE Finish([status |-> "error"])

(***************************************************************************)
(* POST /asr/upload.                                                        *)
(***************************************************************************)
UploadArrives ==
    /\ pc = "arriving" /\ Upload /\ UNCHANGED <<req, UploadState>>
    /\ \/ /\ \/ BadAllowed(req.allowed)
             \/ ~req.lidOnly /\ (req.modes = <<>> \/ ~(ToSet(req.modes) \subseteq Modes))
          /\ Finish(Error(422))
       \/ /\ ~BadAllowed(req.allowed)
          /\ req.lidOnly \/ (req.modes # <<>> /\ ToSet(req.modes) \subseteq Modes)
          /\ \/ tmp' = "open" /\ pc' = "reading" /\ UNCHANGED <<job, reply>>
             \/ Finish(Error(500))      \* the temporary file cannot be created

ReadChunk ==
    /\ pc = "reading" /\ written < UploadSize[req.paths[1]]
    /\ UNCHANGED <<req, want, lang, lid, left, out>>
    /\ written' = written + 1
    /\ IF written' > MaxUpload THEN Finish(Error(413))
       ELSE \/ UNCHANGED <<pc, tmp, job, reply>>
            \/ Finish(Error(500))       \* the write fails

\* The body is read: the file is closed, and one of three calls begins.
Spooled ==
    /\ pc = "reading" /\ written = UploadSize[req.paths[1]]
    /\ UNCHANGED <<req, written, lang, lid, out>>
    /\ IF written = 0 THEN Finish(Error(422)) /\ UNCHANGED <<want, left>>
       ELSE /\ tmp' = "closed" /\ UNCHANGED reply
            /\ left' = IF req.lidOnly THEN <<>> ELSE req.modes
            /\ want' = (~req.lidOnly /\ lang = Nothing)
            /\ IF req.lidOnly
               THEN pc' = "calling" /\ job' = Call("identify", lang, "native")
               ELSE IF lang = Nothing
               THEN pc' = "calling" /\ job' = Call("transcribe", lang, Head(req.modes))
               ELSE pc' = "calling" /\ job' = Call("is_short", lang, "native")

\* is_short: an undecodable file counts as short.
ShortAnswered ==
    /\ pc = "calling" /\ Upload /\ job.call = "is_short"
    /\ want' = (job.paths[1] \in Broken \/ ~IsLong(job.paths[1], ChunkAbove))
    /\ job' = Call("transcribe", lang, Head(left))
    /\ UNCHANGED <<req, pc, tmp, written, lang, lid, left, out, reply>>

IdentifyAnswered ==
    /\ pc = "calling" /\ Upload /\ job.call = "identify" /\ UNCHANGED <<req, UploadState>>
    /\ IF CallerError(job) THEN Finish(Error(422))
       ELSE \E id \in {Identified(Nothing, FileTop(job.paths[1], Allowed))} :
            Finish([status |-> 200, lang |-> id.lang, lid |-> id, modes |-> NoMode])

\* The language the remaining modes are asked in.
LangAfter(asked, id) == id.lang

\* One mode is transcribed: the next begins, or the reply is sent.
ModeAnswered ==
    /\ pc = "calling" /\ Upload /\ job.call = "transcribe"
    /\ UNCHANGED <<req, written, want>>
    /\ LET reports == lid = Nothing /\ want
       IN  IF CallerError(job) THEN Finish(Error(422)) /\ UNCHANGED <<lang, lid, left, out>>
           ELSE \E answer \in {TranscribePaths(job.paths, job.asked, job.thr, job.mode,
                                               IF reports THEN Allowed ELSE Nothing)[1]} :
                /\ lid' = IF reports THEN answer.lid ELSE lid
                /\ lang' = IF reports THEN LangAfter(lang, answer.lid) ELSE lang
                /\ out' = [m \in DOMAIN out \cup {job.mode} |->
                              IF m = job.mode THEN answer.text ELSE out[m]]
                /\ left' = Tail(left)
                /\ IF left' = <<>>
                   THEN Finish([status |-> 200, lang |-> lang', lid |-> lid', modes |-> out'])
                   ELSE job' = Call("transcribe", lang', Head(left')) /\ UNCHANGED <<pc, tmp, reply>>

(***************************************************************************)
(* What goes wrong.                                                         *)
(***************************************************************************)
\* A call raises for a reason of the server's own.
EngineFails ==
    /\ pc = "calling" /\ Finish(Error(500)) /\ UNCHANGED <<req, UploadState>>

\* The caller leaves: the handler is cancelled at its await and runs its finally;
\* a call that has begun goes on, one still queued is dropped with its future.
Disconnect ==
    /\ pc \in {"reading", "calling"}
    /\ pc' = "gone" /\ tmp' = AfterFinally(tmp) /\ job' \in {job, Nothing}
    /\ UNCHANGED <<req, UploadState, reply>>

\* The call nobody waits for: of an upload it finds the file gone and raises.
OrphanEnds ==
    /\ pc = "gone" /\ job # Nothing
    /\ job' = Nothing
    /\ UNCHANGED <<req, pc, tmp, UploadState, reply>>

RequestNext ==
    \/ Arrive \/ TranscribeAnswered \/ DetectAnswered \/ StreamStart
    \/ UploadArrives \/ ReadChunk \/ Spooled \/ ShortAnswered \/ IdentifyAnswered \/ ModeAnswered
    \/ EngineFails \/ Disconnect \/ OrphanEnds

(***************************************************************************)
(* Properties.                                                              *)
(***************************************************************************)
Transcribed == req.kind \in {"transcribe", "upload"} /\ reply # Nothing /\ reply.status = 200

\* A text holds every voiced unit of its file, once and in order, in one mode.
IsTextOf(text, f, mode) ==
    /\ [i \in DOMAIN text |-> text[i].at] = Voiced(f, <<0, Len(Audio[f])>>)
    /\ \A i \in DOMAIN text : text[i].of = f /\ text[i].as = mode

\* Every row of a reply is the transcript of the whole of its own path, in request
\* order, and an upload's every mode that of its file: no row lost or swapped by the
\* split into short and long ones, the batches and the scatter back, no audio lost or
\* heard twice at the cuts of a long recording.
TextsWhole ==
    Transcribed =>
        IF Upload
        THEN req.lidOnly \/ /\ DOMAIN reply.modes = ToSet(req.modes)
                            /\ \A m \in ToSet(req.modes) : IsTextOf(reply.modes[m], req.paths[1], m)
        ELSE /\ DOMAIN reply.rows = DOMAIN req.paths
             /\ \A i \in DOMAIN req.paths :
                    /\ reply.rows[i].of = req.paths[i]
                    /\ IsTextOf(reply.rows[i].text, req.paths[i], req.modes[1])

InOneTongue(text, l) == \A i \in DOMAIN text : text[i].in = l

\* One recording, one language: its pieces and its modes are all decoded in the one
\* the reply names, which is the caller's if one was given and otherwise one of those
\* LID was restricted to.
OneTongue ==
    Transcribed =>
        LET named == IF Upload THEN {reply.lang} ELSE {r.lang : r \in ToSet(reply.rows)}
        IN  /\ req.lang # Nothing /\ ~(Upload /\ req.lidOnly) => named = {req.lang}
            /\ req.lang = Nothing => named \subseteq Candidates(Allowed, Nothing)
            /\ IF Upload THEN \A m \in DOMAIN reply.modes : InOneTongue(reply.modes[m], reply.lang)
                         ELSE \A r \in ToSet(reply.rows) : InOneTongue(r.text, r.lang)

\* What a caller is told of a recording is all of it, once, in order and in one language.
RowsAnswered == TextsWhole /\ OneTongue

\* However a request ends - answered, refused, failed in the middle of the body or of
\* its second mode, or abandoned - its temporary file is gone.
NothingLeft == pc \in {"replied", "gone"} => tmp \in {"none", "gone"}
=============================================================================
