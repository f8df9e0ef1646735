---------------------------- MODULE StreamWindows ----------------------------
(* StreamingWindower (tts/serving/windower.py) as _drive of tts/engine/        *)
(* streaming.py calls it for one request: the new tokens of each engine step,  *)
(* however the engine cuts them, become windows of frames, one for each frame  *)
(* of audio, and the decoder keeps of each window the frame it is for.         *)
EXTENDS SnacCodec

CONSTANTS
    WindowSizes,  \* snac_window_frames: 3, or 4
    Emissions     \* what the model may emit for the request

ASSUME WindowAssumption == WindowSizes \subseteq Nat \ {0, 1} /\ Emissions \subseteq Seq(Nat)

VARIABLES
    wf,           \* _wf
    emission,     \* what the engine will emit
    fed,          \* how much of it has been pushed
    started,      \* _started
    ended,        \* _ended
    undrained,    \* _pending
    codes,        \* _codes, by frame
    dispatched,   \* _dispatched
    jobs,         \* the windows yielded, which carry their emit_index by place
    flushed       \* flush_tail has been called

windowVars == <<wf, emission, fed, started, ended, undrained, codes, dispatched, jobs, flushed>>

WindowInit ==
    /\ wf \in WindowSizes /\ emission \in Emissions /\ fed = 0
    /\ started = FALSE /\ ended = FALSE /\ undrained = <<>> /\ codes = <<>>
    /\ dispatched = 0 /\ jobs = <<>> /\ flushed = FALSE

(* _ingest: tokens count from the first start marker ever seen up to the first *)
(* end marker after it.                                                        *)
FirstOf(id, s) == Min({i \in DOMAIN s : s[i] = id} \cup {Len(s) + 1})
Heard(new) == IF started THEN new ELSE SubSeq(new, FirstOf(StartId, new) + 1, Len(new))
Ingest(new) ==
    /\ started' = (started \/ Contains(new, StartId))
    /\ ended' = (ended \/ Contains(Heard(new), EndId))
Ingested(new) ==
    IF ended THEN undrained
    ELSE undrained \o SubSeq(Heard(new), 1, FirstOf(EndId, Heard(new)) - 1)

(* _drain_frames: whole frames only, each code clipped into the codebook.      *)
Clip(c) == IF c < 0 THEN 0 ELSE IF c >= CodebookSize THEN CodebookSize - 1 ELSE c
Drained(ids) ==
    LET raw == RawFrames(ids)
    IN  [i \in DOMAIN raw |-> [p \in Positions |-> Clip(raw[i][p])]]
Rest(ids) == SubSeq(ids, SNAC_NUM_CODEBOOKS * (Len(ids) \div SNAC_NUM_CODEBOOKS) + 1, Len(ids))

(* _window_for: the frames around frame k, zeros where there is none.          *)
WindowFor(k, frames) ==
    [s \in 1 .. wf |-> LET f == k - 2 + s
                       IN  IF f \in 0 .. Len(frames) - 1 THEN frames[f + 1] ELSE ZeroFrame]
WindowsFor(from, upto, frames) == [i \in 1 .. upto - from |-> WindowFor(from + i - 1, frames)]

(* The first frame that is not yet dispatched after a push. The mutant does    *)
(* not wait for the last frame of the window.                                  *)
DispatchedEarly(n) == IF n - wf + 3 > dispatched THEN n - wf + 3 ELSE dispatched
DispatchedAfter(n) == IF n - wf + 2 > dispatched THEN n - wf + 2 ELSE dispatched

(* One DELTA step: push.                                                       *)
PushDelta(n) ==
    /\ ~flushed
    /\ LET new == SubSeq(emission, fed + 1, fed + n)
           ids == Ingested(new)
           all == codes \o Drained(ids)
       IN  /\ IF ended THEN UNCHANGED <<started, ended>> ELSE Ingest(new)
           /\ undrained' = Rest(ids)
           /\ codes' = all
           /\ dispatched' = DispatchedAfter(Len(all))
           /\ jobs' = jobs \o WindowsFor(dispatched, dispatched', all)
    /\ fed' = fed + n
    /\ UNCHANGED <<wf, emission, flushed>>

(* flush_tail, after the last step or when the generation fails before it.     *)
FlushTail ==
    /\ ~flushed /\ flushed' = TRUE
    /\ jobs' = jobs \o WindowsFor(dispatched, Len(codes), codes)
    /\ dispatched' = Len(codes)
    /\ UNCHANGED <<wf, emission, fed, started, ended, undrained, codes>>

WindowNext == FlushTail \/ \E n \in 1 .. Len(emission) - fed : PushDelta(n)

WindowSpec == WindowInit /\ [][WindowNext]_windowVars

(* What of the emission a request that reads all of it at once is given, if    *)
(* it is well formed: one start marker, and codes in range at their places.    *)
SoFar == ExtractAudio(SubSeq(emission, 1, fed))
WellFormed ==
    /\ Cardinality({i \in DOMAIN emission : emission[i] = StartId}) = 1
    /\ Len(ParseFrames(SoFar)) = Len(SoFar) \div SNAC_NUM_CODEBOOKS

(* However the tokens arrive, a request's windows are those of the frames the  *)
(* offline parser reads from the same tokens, one for each frame and in order, *)
(* with all the frames around it that there will ever be: none is sent before  *)
(* its right neighbours have come, and what the decoder keeps of each is the   *)
(* frame itself.                                                               *)
InContext ==
    flushed /\ WellFormed =>
      LET frames == ParseFrames(SoFar)
      IN  /\ jobs = WindowsFor(0, Len(frames), frames)
          /\ \A k \in DOMAIN jobs : DecodeWindow(jobs[k]) = frames[k]
=============================================================================
