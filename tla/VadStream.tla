------------------------------ MODULE VadStream ------------------------------
(***************************************************************************)
(* A live transcription session: VadStream cuts the incoming audio into    *)
(* spans at pauses and has each span transcribed once                      *)
(* (asr/serving/streaming.py); the websocket handler feeds it packets and  *)
(* reports what it commits (_ws_stream in asr/serving/service.py).  One    *)
(* session is sequential: a packet is handled before the next is received. *)
(*                                                                         *)
(* Durations are whole hops of the energy frames.  A hop is speech (TRUE)  *)
(* or background noise (FALSE), with speech at least 28 dB above noise and *)
(* noise below silence_dbfs: then the threshold min(floor + 8, peak - 20)  *)
(* parts the two wherever the window it looks at holds speech, and lies    *)
(* below everything where it does not.                                     *)
(***************************************************************************)
EXTENDS Integers, Sequences, SequencesExt, FiniteSetsExt

CONSTANTS
    MinSeg,       \* min_segment_s
    MaxSeg,       \* max_segment_s
    Endpoint,     \* endpoint_silence_s
    Partial,      \* partial_interval_s; 0 disables partials
    MinPause,     \* ChunkConfig.min_sil
    Lead,         \* spans shorter than this keep their leading silence: 0.2 s
    Second,       \* frames a threshold needs: 1 s
    Keep,         \* frames of history: floor_history_s
    FrameHops,    \* hops in a frame
    Extra,        \* what the slot engine's window adds to MaxSeg: 1 s
    Packets,      \* bound of the model: lengths of the packets received
    MaxAudio,     \* bound of the model: hops in a session
    MayFail       \* TRUE: transcribing may raise

ASSUME VadAssumption ==
    /\ MinSeg \in Nat \ {0} /\ MaxSeg \in Nat \ {0} /\ Endpoint \in Nat \ {0}
    /\ Partial \in Nat /\ MinPause \in Nat \ {0} /\ Lead \in Nat
    /\ Second \in Nat \ {0} /\ Keep \in Nat \ {0} /\ FrameHops \in Nat \ {0}
    /\ FrameHops <= Lead
    /\ Extra \in Nat /\ Packets \subseteq Nat /\ MaxAudio \in Nat
    /\ MinSeg + Endpoint <= MaxSeg /\ MinPause <= Endpoint
    /\ Second + FrameHops <= MinSeg + Endpoint + 1

VARIABLES
    audio,        \* all the session has received
    base,         \* where _seg, the open span, begins in it
    hist,         \* _db_hist: past frames
    since,        \* _since_partial
    spans,        \* closed spans that were transcribed, as <<from, to>>
    committed,    \* _committed: those with a text
    sent,         \* the spans whose text the client was sent as committed
    heard,        \* the last audio handed to transcribe, partials included
    session,      \* "open", "ended", "gone" or "failed"
    longest       \* history: the longest packet received

listenVars == <<audio, base, hist, since, spans, committed, sent, heard, session, longest>>

ListenInit ==
    /\ audio = <<>> /\ base = 0 /\ hist = <<>> /\ since = 0
    /\ spans = <<>> /\ committed = <<>> /\ sent = <<>>
    /\ heard = <<0, 0>>
    /\ session = "open" /\ longest = 0

-----------------------------------------------------------------------------
(* The energy VAD.  Positions in seg and frames count from 1.              *)

Speech(s) == \E t \in DOMAIN s : s[t]

Frames(seg) ==
    [k \in 1 .. Max({1, Len(seg) - FrameHops + 1}) |->
        Speech(SubSeq(seg, k, Min({k + FrameHops - 1, Len(seg)})))]

\* Whether a frame is at or above the threshold taken over the frames of ref.
Loud(frame, ref) == frame \/ ~Speech(ref)

(* silence_runs: maximal runs of unvoiced frames of at least MinPause.       *)
Pauses(db) ==
    {run \in (1 .. Len(db)) \X (1 .. Len(db)) :
        /\ run[2] - run[1] + 1 >= MinPause
        /\ \A k \in run[1] .. run[2] : ~Loud(db[k], db)
        /\ run[1] = 1 \/ Loud(db[run[1] - 1], db)
        /\ run[2] = Len(db) \/ Loud(db[run[2] + 1], db)}

Trim(h) == SubSeq(h, Max({1, Len(h) - Keep + 1}), Len(h))

HasThreshold(h, db) == Len(h \o db) >= Second

Open(a, b) == SubSeq(a, b + 1, Len(a))

FirstVoiced(voiced) == Min(voiced)

(* A silent prefix is dropped; an open span that is nothing but silence is *)
(* dropped whole and only teaches the noise floor.                         *)
DropLeadingSilence(v) ==
    LET db == Frames(Open(v.audio, v.base))
        voiced == {k \in DOMAIN db : Loud(db[k], v.hist \o db)}
    IN IF Len(v.audio) - v.base < Lead \/ ~HasThreshold(v.hist, db) THEN v
       ELSE IF voiced = {}
         THEN [v EXCEPT !.hist = Trim(@ \o db), !.base = Len(v.audio), !.since = 0]
         ELSE [v EXCEPT !.base = @ + FirstVoiced(voiced) - 1]

(* A cut ends the speech of the span and says where the next span begins;  *)
(* what lies between is a pause.                                           *)
Cut(end, keep) == [end |-> end, keep |-> keep]

LastVoiced(db, h) == Max({0} \cup {k \in DOMAIN db : Loud(db[k], h \o db)})

PauseLongEnough(frames) == frames >= Endpoint

(* _endpoint_cut: the open span ends in a long enough pause.               *)
AtEndpoint(seg, h) ==
    LET db == Frames(seg)
        i == LastVoiced(db, h)
    IN /\ Len(seg) >= MinSeg + Endpoint
       /\ HasThreshold(h, db)
       /\ PauseLongEnough(Len(db) - i)
       /\ i >= MinSeg
EndpointCut(seg, h) == Cut(LastVoiced(Frames(seg), h), Len(seg))

\* Mutant: the pause is dropped from the middle.
AfterPauseEarly(run) == run[1] - 2
AfterPause(run) == run[2]

(* _forced_cut: at the last silence that leaves a span of MinSeg, or hard. *)
ForcedCut(seg, h) ==
    LET db == Frames(seg)
        runs == {run \in Pauses(db) : run[1] - 1 >= MinSeg}
        last == CHOOSE run \in runs : \A other \in runs : other[1] <= run[1]
    IN IF HasThreshold(h, db) /\ runs # {}
         THEN Cut(last[1] - 1, Min({AfterPause(last), Len(seg)}))
         ELSE Cut(Len(seg), Len(seg))

-----------------------------------------------------------------------------
(* Transcribing and reporting.                                             *)

FitsWindow(span) == span[2] - span[1] <= MaxSeg + Extra

(* The slot engine refuses what exceeds its window; the exception ends the *)
(* session with an error message.                                          *)
TranscribeRaises(span) ==
    /\ MayFail \/ ~FitsWindow(span)
    /\ heard' = span
    /\ session' = "failed"
    /\ UNCHANGED <<spans, committed, sent>>

(* A closed span is committed if it has a text, and the client told so.    *)
TranscribeSpan(span, next) ==
    /\ FitsWindow(span)
    /\ heard' = span
    /\ spans' = Append(spans, span)
    /\ \E text \in {<<>>, <<span>>} :
         /\ committed' = committed \o text
         /\ sent' = IF next # "gone" THEN sent \o text ELSE sent
    /\ session' = next

(* _close: the span leaves the buffer before it is transcribed, and one    *)
(* without speech is not transcribed at all.                               *)
Close(v, cut, next) ==
    LET span == <<v.base, v.base + cut.end>> IN
    /\ base' = v.base + cut.keep
    /\ since' = Len(v.audio) - base'
    /\ IF Speech(SubSeq(v.audio, span[1] + 1, span[2]))
         THEN TranscribeSpan(span, next) \/ TranscribeRaises(span)
         ELSE session' = next /\ UNCHANGED <<spans, committed, sent, heard>>

PartialDue(v) ==
    Partial # 0 /\ v.since >= Partial /\ Len(v.audio) - v.base >= MinSeg

(* The open span is transcribed for a provisional text.                    *)
Provisional(v) ==
    LET span == <<v.base, Len(v.audio)>> IN
    /\ base' = v.base /\ since' = 0
    /\ \/ FitsWindow(span) /\ heard' = span /\ UNCHANGED <<spans, committed, sent, session>>
       \/ TranscribeRaises(span)

-----------------------------------------------------------------------------
(* The session.                                                            *)

\* Mutant: the bound is tested as if it could be exceeded by one.
OverLongLate(n) == n > MaxSeg
OverLong(n) == n >= MaxSeg

Push(packet) ==
    /\ session = "open"
    /\ Len(audio) + Len(packet) <= MaxAudio
    /\ longest' = Max({longest, Len(packet)})
    /\ LET v == DropLeadingSilence([audio |-> audio \o packet, base |-> base,
                                    hist |-> hist, since |-> since + Len(packet)])
           seg == Open(v.audio, v.base)
           learnt == Trim(v.hist \o Frames(seg))
       IN
       /\ audio' = v.audio
       /\ IF OverLong(Len(seg))
            THEN hist' = learnt /\ Close(v, ForcedCut(seg, v.hist), "open")
          ELSE IF AtEndpoint(seg, v.hist)
            THEN hist' = learnt /\ Close(v, EndpointCut(seg, v.hist), "open")
          ELSE IF PartialDue(v)
            THEN hist' = v.hist /\ Provisional(v)
          ELSE /\ hist' = v.hist /\ base' = v.base /\ since' = v.since
               /\ UNCHANGED <<spans, committed, sent, heard, session>>

(* finalize(), at the client's eof ("ended") or when it has gone ("gone"): *)
(* the open span is committed unless it is too short.                      *)
Finalize(next) ==
    /\ session = "open"
    /\ IF Len(audio) - base < MinSeg
         THEN /\ base' = Len(audio)
              /\ session' = next
              /\ UNCHANGED <<since, spans, committed, sent, heard>>
         ELSE LET n == Len(audio) - base IN
              Close([audio |-> audio, base |-> base], Cut(n, n), next)
    /\ UNCHANGED <<audio, hist, longest>>

ListenNext ==
    \/ \E n \in Packets : \E packet \in [1 .. n -> BOOLEAN] : Push(packet)
    \/ Finalize("ended")
    \/ Finalize("gone")

ListenSpec == ListenInit /\ [][ListenNext]_listenVars

-----------------------------------------------------------------------------
(* Properties                                                              *)

Within(t, span) == span[1] < t /\ t <= span[2]

(* "decodes each span exactly once": the spans are disjoint, in the order  *)
(* of the audio, and the open span begins behind the last of them; and no  *)
(* speech is lost: every hop of it is in one of them or still in the open  *)
(* one.  The exceptions are a span whose transcription raised and a final  *)
(* sliver shorter than min_segment_s.  The client has been sent what was   *)
(* committed, in order.                                                    *)
SpeechHeardOnce ==
    /\ \A k \in DOMAIN spans :
        /\ spans[k][1] < spans[k][2]
        /\ spans[k][2] <= IF k = Len(spans) THEN base ELSE spans[k + 1][1]
    /\ \A t \in DOMAIN audio : audio[t] =>
        \/ t > base
        \/ \E k \in DOMAIN spans : Within(t, spans[k])
        \/ session = "failed" /\ Within(t, heard)
        \/ session # "open" /\ t > Len(audio) - MinSeg
    /\ session # "gone" => sent = committed

(* No packet was longer than what the window adds to a segment, or than     *)
(* the least a cut at a pause takes away.                                   *)
ShortPackets == longest <= Extra + 1 /\ longest <= MinSeg + MinPause

(* What the slot engine and the reader of a live transcript can count on:   *)
(* the bound of max_segment_s is tested once for each packet, and nothing   *)
(* bounds a packet.  Whatever the packets, the open span and what is handed *)
(* to the slot engine stay within one and two packets of the bound, also    *)
(* where forced cuts keep leaving audio in the buffer: the excess does not  *)
(* add up.  Where the packets are short beside a segment, it is the hard    *)
(* bound the docstring calls it, and all that is transcribed fits the       *)
(* window.  What does not fit ends the session as failed; and a pause of    *)
(* endpoint_silence_s behind min_segment_s of speech never stays in the     *)
(* open span.                                                               *)
SpanBounded ==
    /\ heard[2] - heard[1] < MaxSeg + 2 * longest
    /\ ShortPackets => FitsWindow(heard)
    /\ ~FitsWindow(heard) => session = "failed"
    /\ session = "open" =>
        /\ Len(audio) - base < MaxSeg + longest
        /\ ShortPackets => Len(audio) - base < MaxSeg
        /\ \A t \in base + MinSeg .. Len(audio) - (Endpoint + FrameHops - 1) :
            audio[t] => Speech(SubSeq(audio, t + 1, Len(audio)))
=============================================================================
