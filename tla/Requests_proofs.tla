--------------------------- MODULE Requests_proofs ---------------------------
(***************************************************************************)
(* Theorems about what answers a caller.  The TTS server (TtsService): for *)
(* every set of callers and of what they may ask, an end event, a file or  *)
(* a recording is only ever of a whole utterance.  The live transcription  *)
(* (VadStream): for every threshold and every sequence of packets, each    *)
(* hop of speech is transcribed once.  The batch transcription command     *)
(* (TranscribeShard): for every manifest and every kill, no row has two    *)
(* records and the second run to finish has them all.  The ASR server      *)
(* (AsrRequests): no request leaves its file, and for every set of         *)
(* recordings, requests and sizes a transcript is all of its own recording *)
(* once, in order and in one language.  What its page shows belongs        *)
(* together (DemoPage).  The commands that translate (Translate): for      *)
(* every set of commands and every order of the answers, what is written   *)
(* and what is scored is of its own source.                                *)
(***************************************************************************)
EXTENDS TtsService, VadStream, TranscribeShard, AsrRequests, DemoPage, Translate, SequenceFacts, FiniteSetTheorems

(* The run `requests` does this in its part "speech".                         *)
ServiceSpec == ServiceInit /\ [][ServiceNext]_ttsServiceVars

-----------------------------------------------------------------------------
(* The invariant of the TTS server.                                        *)

FrameSet ==
    [of : Callers, at : Nat,
     by : {"stream_conversation_long", "stream_conversation", "stream_long", "stream"}]

Events ==
    [event : {"start", "error"}] \cup [event : {"audio"}, frame : FrameSet]
    \cup [event : {"end"}, frames : Nat] \cup [event : {"status"}, status : Nat]

WavFiles == [pcm : Seq(FrameSet), told : BOOLEAN]

ServiceType ==
    /\ auth \in {"unset", "good", "malformed"} /\ recording \in BOOLEAN
    /\ call \in [Callers -> CallChoices]
    /\ handler \in [Callers -> {"arriving", "streaming", "closing", "over"}]
    /\ wire \in [Callers -> Seq(Events)] /\ chunks \in [Callers -> Seq(FrameSet)]
    /\ linked \in [Callers -> BOOLEAN] /\ client \in [Callers -> Seq(WavFiles)]
    /\ counter \in Nat /\ jobs \subseteq [number : Nat, pcm : Seq(FrameSet)]
    /\ DOMAIN disk \subseteq Nat /\ \A n \in DOMAIN disk : disk[n] \in Seq(FrameSet)
    /\ alive \in BOOLEAN /\ strikes \in 0 .. Strikes - 1 /\ deaths \in 0 .. MaxDeaths

(* A call has drawn frames of its own, in order.                           *)
Rendered(c, s) == Len(s) <= call[c].frames /\ \A k \in 1 .. Len(s) : s[k] = FrameOf(c, k)

(* What was sent begins with the start and the frames drawn.               *)
Heralded(w, s) ==
    Len(w) >= Len(s) + 1 /\ w[1] = Event("start") /\ \A k \in 1 .. Len(s) : w[k + 1] = AudioOf(s[k])

TailedBy(w, s, e) == Len(w) = Len(s) + 2 /\ Heralded(w, s) /\ w[Len(s) + 2] = e

SoFar(c, w, s) == IF Streams(c) THEN Len(w) = Len(s) + 1 /\ Heralded(w, s) ELSE w = <<>>

Refused(w, s) ==
    s = <<>> /\ \E e \in {Event("error"), Status(401), Status(403), Status(422)} : w = <<e>>

Failed(c, w, s) == IF Streams(c) THEN TailedBy(w, s, Event("error")) ELSE w = <<Status(500)>>

(* A call whose caller was told that it is complete.                       *)
Told(c, w, s) ==
    /\ Len(s) = call[c].frames
    /\ IF Streams(c) THEN TailedBy(w, s, End(Len(s))) ELSE w = <<Status(200)>>

(* Drawn whole, but not yet told unless the call streams.                  *)
Drawn(c, w, s) == IF Streams(c) THEN Told(c, w, s) ELSE w = <<>> /\ Len(s) = call[c].frames

CallAt(c, h, w, s) ==
    /\ Rendered(c, s)
    /\ h = "arriving" => w = <<>> /\ s = <<>>
    /\ h = "streaming" => SoFar(c, w, s)
    /\ h = "closing" => Drawn(c, w, s)
    /\ h = "over" => SoFar(c, w, s) \/ Refused(w, s) \/ Failed(c, w, s) \/ Told(c, w, s)

CallInv == \A c \in Callers : CallAt(c, handler[c], wire[c], chunks[c])

(* A file is the beginning of its utterance, and all of it if its client    *)
(* was told so.                                                            *)
TrueFile(c, wav) ==
    /\ wav \in WavFiles /\ Rendered(c, wav.pcm)
    /\ wav.told = TRUE => wav.pcm = Utterance(c)

ClientInv ==
    \A c \in Callers : client[c] = <<>> \/ \E wav : client[c] = <<wav>> /\ TrueFile(c, wav)

(* A recording is of a call that is over and was told so.                  *)
OfToldCall(pcm) ==
    \E c \in Callers : handler[c] = "over" /\ pcm = chunks[c] /\ Told(c, wire[c], chunks[c])

RecordInv ==
    /\ \A rec \in jobs : OfToldCall(rec.pcm)
    /\ \A n \in DOMAIN disk : OfToldCall(disk[n])

ServiceInv == ServiceType /\ CallInv /\ ClientInv /\ RecordInv

-----------------------------------------------------------------------------
(* Every choice has a number of frames.                                    *)
LEMMA FramesNat ==
  ASSUME ServiceType, NEW c \in Callers
  PROVE  call[c].frames \in Nat
  BY ServiceAssumption DEF ServiceType

(* Frames and events are of their types.                                   *)
LEMMA EventTypes ==
  /\ \A c \in Callers, k \in Nat : FrameOf(c, k) \in FrameSet
  /\ Event("start") \in Events /\ Event("error") \in Events
  /\ \A f \in FrameSet : AudioOf(f) \in Events
  /\ \A n \in Nat : End(n) \in Events /\ Status(n) \in Events
  <1>1. ASSUME NEW c \in Callers, NEW k \in Nat PROVE FrameOf(c, k) \in FrameSet
    <2>1. Method(c) \in {"stream_conversation_long", "stream_conversation", "stream_long", "stream"}
      BY DEF Method
    <2> QED  BY <2>1 DEF FrameOf, FrameSet
  <1>2. Event("start") \in Events /\ Event("error") \in Events
    BY DEF Event, Events
  <1>3. \A f \in FrameSet : AudioOf(f) \in Events
    <2> TAKE f \in FrameSet
    <2>1. AudioOf(f) \in [event : {"audio"}, frame : FrameSet]
      BY DEF AudioOf
    <2> QED  BY <2>1, Zenon DEF Events
  <1>4. \A n \in Nat : End(n) \in Events /\ Status(n) \in Events
    <2> TAKE n \in Nat
    <2>1. End(n) \in [event : {"end"}, frames : Nat] /\ Status(n) \in [event : {"status"}, status : Nat]
      BY DEF End, Status
    <2> QED  BY <2>1, Zenon DEF Events
  <1> QED  BY <1>1, <1>2, <1>3, <1>4

(* What an event added to a sequence leaves as it was.                     *)
LEMMA OneMore ==
  ASSUME NEW T, NEW w \in Seq(T), NEW e \in T
  PROVE  /\ Append(w, e) \in Seq(T) /\ Len(Append(w, e)) = Len(w) + 1 /\ Len(w) \in Nat
         /\ Append(w, e)[Len(w) + 1] = e
         /\ \A i \in 1 .. Len(w) : Append(w, e)[i] = w[i]
  OBVIOUS

(* The start of a stream stays when an event is added.                     *)
LEMMA HeraldedStays ==
  ASSUME NEW w \in Seq(Events), NEW s \in Seq(FrameSet), Heralded(w, s), NEW e \in Events
  PROVE  Heralded(Append(w, e), s)
  <1>1. Len(s) \in Nat /\ Len(w) \in Nat /\ Len(w) >= Len(s) + 1
    BY DEF Heralded
  <1>2. \A i \in 1 .. Len(w) : Append(w, e)[i] = w[i]
    BY OneMore
  <1>3. Len(Append(w, e)) = Len(w) + 1
    BY OneMore
  <1>4. Append(w, e)[1] = Event("start")
    BY <1>1, <1>2 DEF Heralded
  <1>5. \A k \in 1 .. Len(s) : Append(w, e)[k + 1] = AudioOf(s[k])
    <2> TAKE k \in 1 .. Len(s)
    <2>1. k + 1 \in 1 .. Len(w) /\ w[k + 1] = AudioOf(s[k])
      BY <1>1 DEF Heralded
    <2> QED  BY <1>2, <2>1
  <1> QED  BY <1>1, <1>3, <1>4, <1>5 DEF Heralded

(* The last event of a stream that was going on.                           *)
LEMMA Tailed ==
  ASSUME NEW c, NEW w \in Seq(Events), NEW s \in Seq(FrameSet), SoFar(c, w, s), Streams(c),
         NEW e \in Events
  PROVE  TailedBy(Append(w, e), s, e)
  <1>1. Len(s) \in Nat /\ Len(w) = Len(s) + 1 /\ Heralded(w, s)
    BY DEF SoFar
  <1>2. Len(Append(w, e)) = Len(s) + 2 /\ Append(w, e)[Len(s) + 2] = e
    BY <1>1, OneMore
  <1>3. Heralded(Append(w, e), s)
    BY <1>1, HeraldedStays
  <1> QED  BY <1>2, <1>3 DEF TailedBy

(* A frame is drawn, and sent if the call streams.                         *)
LEMMA FrameDrawn ==
  ASSUME ServiceType, NEW c \in Callers, NEW w \in Seq(Events), NEW s \in Seq(FrameSet),
         SoFar(c, w, s), Rendered(c, s), Len(s) < call[c].frames
  PROVE  LET f == FrameOf(c, Len(s) + 1)
         IN  /\ Rendered(c, Append(s, f)) /\ f \in FrameSet
             /\ Streams(c) => SoFar(c, Append(w, AudioOf(f)), Append(s, f))
             /\ ~Streams(c) => SoFar(c, w, Append(s, f))
  <1> DEFINE f == FrameOf(c, Len(s) + 1)
             e == AudioOf(f)
             s2 == Append(s, f)
             w2 == Append(w, e)
  <1>1. Len(s) \in Nat /\ call[c].frames \in Nat /\ f \in FrameSet /\ e \in Events
    BY EventTypes, FramesNat
  <1>2. /\ Len(s2) = Len(s) + 1 /\ s2[Len(s) + 1] = f
        /\ \A k \in 1 .. Len(s) : s2[k] = s[k]
    BY <1>1, OneMore
  <1>3. /\ Len(w2) = Len(w) + 1 /\ w2[Len(w) + 1] = e /\ Len(w) \in Nat
        /\ \A k \in 1 .. Len(w) : w2[k] = w[k]
    BY <1>1, OneMore
  <1>4. Rendered(c, s2)
    <2>1. \A k \in 1 .. Len(s) + 1 : s2[k] = FrameOf(c, k)
      <3> HIDE DEF s2
      <3> TAKE k \in 1 .. Len(s) + 1
      <3>1. CASE k = Len(s) + 1
        BY <1>2, <3>1
      <3>2. CASE k # Len(s) + 1
        <4>1. k \in 1 .. Len(s)
          BY <1>1, <3>2
        <4> QED  BY <1>2, <4>1 DEF Rendered
      <3> QED  BY <3>1, <3>2
    <2> HIDE DEF s2, f
    <2>2. Len(s) + 1 <= call[c].frames
      BY <1>1
    <2> QED  BY <1>2, <2>1, <2>2 DEF Rendered
  <1>5. ASSUME Streams(c) PROVE SoFar(c, w2, s2)
    <2>1. Len(w) = Len(s) + 1 /\ Heralded(w, s)
      BY <1>5 DEF SoFar
    <2> HIDE DEF s2, w2
    <2>2. w2[1] = Event("start")
      BY <1>1, <1>3, <2>1 DEF Heralded
    <2>3. \A k \in 1 .. Len(s) + 1 : w2[k + 1] = AudioOf(s2[k])
      <3> TAKE k \in 1 .. Len(s) + 1
      <3>1. CASE k = Len(s) + 1
        BY <1>2, <1>3, <2>1, <3>1
      <3>2. CASE k # Len(s) + 1
        <4>1. k \in 1 .. Len(s) /\ k + 1 \in 1 .. Len(w)
          BY <1>1, <2>1, <3>2
        <4>2. w2[k + 1] = w[k + 1] /\ s2[k] = s[k]
          BY <1>2, <1>3, <4>1
        <4> QED  BY <2>1, <4>1, <4>2 DEF Heralded
      <3> QED  BY <3>1, <3>2
    <2>4. Len(w2) = Len(s2) + 1
      BY <1>1, <1>2, <1>3, <2>1
    <2>5. Heralded(w2, s2)
      BY <1>1, <1>2, <2>2, <2>3, <2>4 DEF Heralded
    <2> QED  BY <1>5, <2>4, <2>5 DEF SoFar
  <1>6. ~Streams(c) => SoFar(c, w, s2)
    BY DEF SoFar
  <1> QED  BY <1>1, <1>4, <1>5, <1>6

-----------------------------------------------------------------------------
(* What a step of one call's handler does to its own record of the call.   *)

(* A handler's move and a sent event, for every call.                      *)
LEMMA GoesFacts ==
  ASSUME ServiceType, NEW c \in Callers, NEW to \in {"arriving", "streaming", "closing", "over"},
         Goes(c, to)
  PROVE  /\ handler' \in [Callers -> {"arriving", "streaming", "closing", "over"}]
         /\ handler'[c] = to /\ \A d \in Callers \ {c} : handler'[d] = handler[d]
  BY DEF ServiceType, Goes

(* A sent event, for every call.                                           *)
LEMMA SendFacts ==
  ASSUME ServiceType, NEW c \in Callers, NEW e \in Events, Send(c, e)
  PROVE  /\ wire' \in [Callers -> Seq(Events)]
         /\ wire'[c] = Append(wire[c], e) /\ \A d \in Callers \ {c} : wire'[d] = wire[d]
  <1>1. wire \in [Callers -> Seq(Events)] /\ wire[c] \in Seq(Events)
    BY DEF ServiceType
  <1>2. wire' = [wire EXCEPT ![c] = Append(wire[c], e)]
    BY DEF Send
  <1>3. Append(wire[c], e) \in Seq(Events)
    BY <1>1, OneMore
  <1> QED  BY <1>1, <1>2, <1>3

(* The other calls stay as they were.                                      *)
CallStep(c) ==
    /\ call' = call
    /\ \A d \in Callers \ {c} : handler'[d] = handler[d] /\ wire'[d] = wire[d] /\ chunks'[d] = chunks[d]

(* What is said of a call depends on nothing but what it asked.            *)
LEMMA SameAsk ==
  ASSUME call' = call
  PROVE  /\ \A c : Utterance(c)' = Utterance(c)
         /\ \A c, wav : TrueFile(c, wav)' <=> TrueFile(c, wav)
         /\ \A c : CallAt(c, handler[c], wire[c], chunks[c])'
                     <=> CallAt(c, handler'[c], wire'[c], chunks'[c])
         /\ \A c : Told(c, wire[c], chunks[c])' <=> Told(c, wire'[c], chunks'[c])
  <1>1. \A c : Utterance(c)' = Utterance(c)
    BY DEF Utterance, FrameOf, Method, UseChunked
  <1>9. \A c, wav : TrueFile(c, wav)' <=> TrueFile(c, wav)
    <2> TAKE c, wav
    <2>1. Rendered(c, wav.pcm)' <=> Rendered(c, wav.pcm)
      BY DEF Rendered, FrameOf, Method, UseChunked
    <2> QED  BY <1>1, <2>1 DEF TrueFile
  <1>2. \A c : Told(c, wire[c], chunks[c])' <=> Told(c, wire'[c], chunks'[c])
    BY DEF Told, Streams, Websocket
  <1>3. \A c : CallAt(c, handler[c], wire[c], chunks[c])'
                     <=> CallAt(c, handler'[c], wire'[c], chunks'[c])
    <2> TAKE c
    <2>1. Rendered(c, chunks[c])' <=> Rendered(c, chunks'[c])
      BY DEF Rendered, FrameOf, Method, UseChunked
    <2>2. SoFar(c, wire[c], chunks[c])' <=> SoFar(c, wire'[c], chunks'[c])
      BY DEF SoFar, Streams, Websocket
    <2>3. Failed(c, wire[c], chunks[c])' <=> Failed(c, wire'[c], chunks'[c])
      BY DEF Failed, Streams, Websocket
    <2>4. Drawn(c, wire[c], chunks[c])' <=> Drawn(c, wire'[c], chunks'[c])
      BY <1>2 DEF Drawn, Streams, Websocket
    <2> QED  BY <1>2, <2>1, <2>2, <2>3, <2>4 DEF CallAt
  <1> QED  BY <1>1, <1>2, <1>3, <1>9

(* One call moved, and stands where it may: so does every call.            *)
LEMMA OtherCalls ==
  ASSUME CallInv, NEW c \in Callers, CallStep(c),
         CallAt(c, handler'[c], wire'[c], chunks'[c])
  PROVE  CallInv'
  <1>1. \A d \in Callers : CallAt(d, handler'[d], wire'[d], chunks'[d])
    <2> TAKE d \in Callers
    <2>1. CASE d = c
      BY <2>1
    <2>2. CASE d # c
      <3>1. handler'[d] = handler[d] /\ wire'[d] = wire[d] /\ chunks'[d] = chunks[d]
        BY <2>2 DEF CallStep
      <3>2. CallAt(d, handler[d], wire[d], chunks[d])
        BY DEF CallInv
      <3> QED  BY <3>1, <3>2
    <2> QED  BY <2>1, <2>2
  <1> QED  BY <1>1, SameAsk DEF CallInv, CallStep

(* A call that is over and told so stays as it is when another one moves.  *)
LEMMA ToldStays ==
  ASSUME NEW c \in Callers, CallStep(c), handler[c] # "over" \/ UNCHANGED <<handler, wire, chunks>>,
         NEW pcm, OfToldCall(pcm)
  PROVE  OfToldCall(pcm)'
  <1>1. PICK d \in Callers : handler[d] = "over" /\ pcm = chunks[d] /\ Told(d, wire[d], chunks[d])
    BY DEF OfToldCall
  <1>2. handler'[d] = handler[d] /\ wire'[d] = wire[d] /\ chunks'[d] = chunks[d]
    <2>1. CASE d = c
      BY <1>1, <2>1
    <2>2. CASE d # c
      BY <2>2 DEF CallStep
    <2> QED  BY <2>1, <2>2
  <1>3. Told(d, wire'[d], chunks'[d])
    BY <1>1, <1>2
  <1>4. Told(d, wire[d], chunks[d])'
    BY <1>3, SameAsk DEF CallStep
  <1> QED  BY <1>1, <1>2, <1>4 DEF OfToldCall

(* A handler moved on and nothing was recorded.                            *)
LEMMA HandlerStep ==
  ASSUME ServiceInv, ServiceType', NEW c \in Callers, CallStep(c), handler[c] # "over",
         client' = client, jobs' = jobs, disk' = disk,
         CallAt(c, handler'[c], wire'[c], chunks'[c])
  PROVE  ServiceInv'
  <1>1. CallInv'
    BY OtherCalls DEF ServiceInv
  <1>2. ClientInv'
    BY SameAsk DEF ServiceInv, ClientInv, CallStep
  <1>3. RecordInv'
    <2>1. \A pcm : OfToldCall(pcm) => OfToldCall(pcm)'
      BY ToldStays
    <2> QED  BY <2>1 DEF RecordInv, ServiceInv
  <1> QED  BY <1>1, <1>2, <1>3 DEF ServiceInv

(* What a handler's step leaves alone.                                     *)
LEMMA KeepTypes ==
  ASSUME ServiceType, UNCHANGED <<callVars, linked, client, recordVars, replicaVars>>,
         handler' \in [Callers -> {"arriving", "streaming", "closing", "over"}],
         wire' \in [Callers -> Seq(Events)], chunks' \in [Callers -> Seq(FrameSet)]
  PROVE  ServiceType'
  <1>1. /\ auth' = auth /\ recording' = recording /\ call' = call /\ linked' = linked
        /\ client' = client /\ counter' = counter /\ jobs' = jobs /\ disk' = disk
        /\ alive' = alive /\ strikes' = strikes /\ deaths' = deaths
    BY DEF callVars, recordVars, replicaVars
  <1> QED  BY <1>1 DEF ServiceType

(* What is known of a call in its handler.                                 *)
LEMMA AtCall ==
  ASSUME ServiceInv, NEW c \in Callers
  PROVE  /\ ServiceType /\ wire[c] \in Seq(Events) /\ chunks[c] \in Seq(FrameSet)
         /\ Rendered(c, chunks[c])
         /\ handler[c] = "arriving" => wire[c] = <<>> /\ chunks[c] = <<>>
         /\ handler[c] = "streaming" => SoFar(c, wire[c], chunks[c])
         /\ handler[c] = "closing" => Drawn(c, wire[c], chunks[c])
         /\ handler[c] = "over" => \/ SoFar(c, wire[c], chunks[c]) \/ Refused(wire[c], chunks[c])
                                   \/ Failed(c, wire[c], chunks[c]) \/ Told(c, wire[c], chunks[c])
  BY DEF ServiceInv, ServiceType, CallInv, CallAt

(* Nothing drawn is in order.                                              *)
LEMMA NothingDrawn ==
  ASSUME ServiceType, NEW c \in Callers
  PROVE  Rendered(c, <<>>)
  <1>1. Len(<<>>) = 0 /\ call[c].frames \in Nat
    BY FramesNat
  <1> QED  BY <1>1 DEF Rendered

(* One event sent to a call that has been sent none.                       *)
LEMMA FirstEvent ==
  ASSUME NEW e \in Events
  PROVE  Append(<<>>, e) = <<e>> /\ Len(<<e>>) = 1 /\ <<e>>[1] = e
  OBVIOUS

(* A caller without the credential is refused before anything is drawn.    *)
LEMMA RefuseStep ==
  ASSUME ServiceInv, NEW c \in Callers, Refuse(c)
  PROVE  ServiceInv'
  <1> DEFINE e == Status(IF Websocket(c) THEN 403 ELSE 401)
  <1>1. /\ handler[c] = "arriving" /\ Send(c, e) /\ Goes(c, "over")
        /\ UNCHANGED <<callVars, linked, client, recordVars, replicaVars>> /\ chunks' = chunks
        /\ call' = call /\ client' = client /\ jobs' = jobs /\ disk' = disk
    BY DEF Refuse, callVars, recordVars
  <1>2. ServiceType /\ wire[c] = <<>> /\ chunks[c] = <<>>
    BY <1>1, AtCall
  <1>3. e \in Events /\ e \in {Status(401), Status(403)}
    BY EventTypes
  <1> HIDE DEF e
  <1>4. /\ handler' \in [Callers -> {"arriving", "streaming", "closing", "over"}]
        /\ handler'[c] = "over" /\ \A d \in Callers \ {c} : handler'[d] = handler[d]
    BY <1>1, <1>2, GoesFacts
  <1>5. /\ wire' \in [Callers -> Seq(Events)]
        /\ wire'[c] = Append(wire[c], e) /\ \A d \in Callers \ {c} : wire'[d] = wire[d]
    BY <1>1, <1>2, <1>3, SendFacts
  <1>6. wire'[c] = <<e>>
    BY <1>2, <1>3, <1>5, FirstEvent
  <1>7. ServiceType'
    BY <1>1, <1>2, <1>4, <1>5, KeepTypes DEF ServiceType
  <1>8. CallStep(c)
    BY <1>1, <1>4, <1>5 DEF CallStep
  <1>9. CallAt(c, handler'[c], wire'[c], chunks'[c])
    <2>1. Refused(wire'[c], chunks'[c])
      BY <1>1, <1>2, <1>3, <1>6 DEF Refused
    <2>2. Rendered(c, chunks'[c])
      BY <1>1, <1>2, NothingDrawn
    <2> QED  BY <1>4, <2>1, <2>2 DEF CallAt
  <1> QED  BY <1>1, <1>7, <1>8, <1>9, HandlerStep

(* An admitted call is told of the start, or that it is malformed.         *)
LEMMA AdmitStep ==
  ASSUME ServiceInv, NEW c \in Callers, Admit(c)
  PROVE  ServiceInv'
  <1>1. /\ handler[c] = "arriving" /\ chunks' = chunks
        /\ UNCHANGED <<callVars, linked, client, recordVars, replicaVars>>
        /\ call' = call /\ client' = client /\ jobs' = jobs /\ disk' = disk
    BY DEF Admit, callVars, recordVars
  <1>2. ServiceType /\ wire[c] = <<>> /\ chunks[c] = <<>>
    BY <1>1, AtCall
  <1>3. \E to \in {"streaming", "over"} :
          /\ Goes(c, to)
          /\ \/ to = "streaming" /\ Streams(c) /\ Send(c, Event("start"))
             \/ to = "streaming" /\ ~Streams(c) /\ wire' = wire
             \/ to = "over" /\ \E e \in {Event("error"), Status(422)} : Send(c, e)
    <2>1. CASE call[c].valid
      <3>1. Goes(c, "streaming") /\ (IF Streams(c) THEN Send(c, Event("start")) ELSE wire' = wire)
        BY <2>1 DEF Admit
      <3> QED  BY <3>1, ZenonT(40)
    <2>2. CASE ~call[c].valid
      <3>1. Goes(c, "over") /\ Send(c, IF Websocket(c) THEN Event("error") ELSE Status(422))
        BY <2>2 DEF Admit
      <3>2. \E e \in {Event("error"), Status(422)} : Send(c, e)
        BY <3>1
      <3> QED  BY <3>1, <3>2, Zenon
    <2> QED  BY <2>1, <2>2
  <1>4. PICK to \in {"streaming", "over"} :
          /\ Goes(c, to)
          /\ \/ to = "streaming" /\ Streams(c) /\ Send(c, Event("start"))
             \/ to = "streaming" /\ ~Streams(c) /\ wire' = wire
             \/ to = "over" /\ \E e \in {Event("error"), Status(422)} : Send(c, e)
    BY <1>3
  <1>5. /\ handler' \in [Callers -> {"arriving", "streaming", "closing", "over"}]
        /\ handler'[c] = to /\ \A d \in Callers \ {c} : handler'[d] = handler[d]
    BY <1>2, <1>4, GoesFacts
  <1>6. Rendered(c, chunks'[c])
    BY <1>1, <1>2, NothingDrawn
  <1>7. ASSUME wire' \in [Callers -> Seq(Events)],
               \A d \in Callers \ {c} : wire'[d] = wire[d],
               CallAt(c, handler'[c], wire'[c], chunks'[c])
        PROVE  ServiceInv'
    <2>1. ServiceType'
      BY <1>1, <1>2, <1>5, <1>7, KeepTypes DEF ServiceType
    <2>2. CallStep(c)
      BY <1>1, <1>5, <1>7 DEF CallStep
    <2> QED  BY <1>1, <1>7, <2>1, <2>2, HandlerStep
  <1>8. CASE to = "streaming" /\ Streams(c) /\ Send(c, Event("start"))
    <2>1. Event("start") \in Events
      BY EventTypes
    <2>2. /\ wire' \in [Callers -> Seq(Events)] /\ wire'[c] = Append(wire[c], Event("start"))
          /\ \A d \in Callers \ {c} : wire'[d] = wire[d]
      BY <1>2, <1>8, <2>1, SendFacts
    <2>3. wire'[c] = <<Event("start")>> /\ Len(wire'[c]) = 1 /\ wire'[c][1] = Event("start")
      BY <1>2, <2>1, <2>2, FirstEvent
    <2>4. Len(<<>>) = 0
      OBVIOUS
    <2>5. Heralded(wire'[c], <<>>)
      BY <2>3, <2>4 DEF Heralded
    <2>6. SoFar(c, wire'[c], chunks'[c])
      BY <1>1, <1>2, <1>8, <2>3, <2>4, <2>5 DEF SoFar
    <2>7. CallAt(c, handler'[c], wire'[c], chunks'[c])
      BY <1>5, <1>6, <1>8, <2>6 DEF CallAt
    <2> QED  BY <1>7, <2>2, <2>7
  <1>9. CASE to = "streaming" /\ ~Streams(c) /\ wire' = wire
    <2>1. SoFar(c, wire'[c], chunks'[c])
      BY <1>2, <1>9 DEF SoFar
    <2>2. CallAt(c, handler'[c], wire'[c], chunks'[c])
      BY <1>5, <1>6, <1>9, <2>1 DEF CallAt
    <2>3. wire' \in [Callers -> Seq(Events)]
      BY <1>2, <1>9 DEF ServiceType
    <2> QED  BY <1>7, <1>9, <2>2, <2>3
  <1>10. CASE to = "over" /\ \E e \in {Event("error"), Status(422)} : Send(c, e)
    <2>1. PICK e \in {Event("error"), Status(422)} : Send(c, e)
      BY <1>10
    <2>2. e \in Events
      BY EventTypes
    <2>3. /\ wire' \in [Callers -> Seq(Events)] /\ wire'[c] = Append(wire[c], e)
          /\ \A d \in Callers \ {c} : wire'[d] = wire[d]
      BY <1>2, <2>1, <2>2, SendFacts
    <2>4. wire'[c] = <<e>>
      BY <1>2, <2>2, <2>3, FirstEvent
    <2>5. Refused(wire'[c], chunks'[c])
      BY <1>1, <1>2, <2>1, <2>4 DEF Refused
    <2>6. CallAt(c, handler'[c], wire'[c], chunks'[c])
      BY <1>5, <1>6, <1>10, <2>5 DEF CallAt
    <2> QED  BY <1>7, <2>3, <2>6
  <1> QED  BY <1>4, <1>8, <1>9, <1>10

(* A frame is drawn, and sent when the call streams.                       *)
LEMMA DrawFrameStep ==
  ASSUME ServiceInv, NEW c \in Callers, DrawFrame(c)
  PROVE  ServiceInv'
  <1> DEFINE f == FrameOf(c, Len(chunks[c]) + 1)
  <1>1. /\ handler[c] = "streaming" /\ Len(chunks[c]) < call[c].frames
        /\ chunks' = [chunks EXCEPT ![c] = Append(chunks[c], f)]
        /\ IF Streams(c) THEN Send(c, AudioOf(f)) ELSE wire' = wire
        /\ UNCHANGED <<callVars, linked, client, recordVars, replicaVars>> /\ handler' = handler
        /\ call' = call /\ client' = client /\ jobs' = jobs /\ disk' = disk
    BY DEF DrawFrame, callVars, recordVars
  <1>2. /\ ServiceType /\ wire[c] \in Seq(Events) /\ chunks[c] \in Seq(FrameSet)
        /\ Rendered(c, chunks[c]) /\ SoFar(c, wire[c], chunks[c])
    BY <1>1, AtCall
  <1>3. /\ Rendered(c, Append(chunks[c], f)) /\ f \in FrameSet
        /\ Streams(c) => SoFar(c, Append(wire[c], AudioOf(f)), Append(chunks[c], f))
        /\ ~Streams(c) => SoFar(c, wire[c], Append(chunks[c], f))
    BY <1>1, <1>2, FrameDrawn
  <1> HIDE DEF f
  <1>4. AudioOf(f) \in Events /\ Append(chunks[c], f) \in Seq(FrameSet)
    BY <1>2, <1>3, EventTypes, OneMore
  <1>5. /\ chunks' \in [Callers -> Seq(FrameSet)] /\ chunks'[c] = Append(chunks[c], f)
        /\ \A d \in Callers \ {c} : chunks'[d] = chunks[d]
    BY <1>1, <1>2, <1>4 DEF ServiceType
  <1>6. /\ wire' \in [Callers -> Seq(Events)]
        /\ \A d \in Callers \ {c} : wire'[d] = wire[d]
        /\ wire'[c] = IF Streams(c) THEN Append(wire[c], AudioOf(f)) ELSE wire[c]
    <2>1. CASE Streams(c)
      BY <1>1, <1>2, <1>4, <2>1, SendFacts
    <2>2. CASE ~Streams(c)
      BY <1>1, <1>2, <2>2 DEF ServiceType
    <2> QED  BY <2>1, <2>2
  <1>7. ServiceType'
    BY <1>1, <1>2, <1>5, <1>6, KeepTypes DEF ServiceType
  <1>8. CallStep(c)
    BY <1>1, <1>5, <1>6 DEF CallStep
  <1>9. CallAt(c, handler'[c], wire'[c], chunks'[c])
    BY <1>1, <1>3, <1>5, <1>6 DEF CallAt
  <1> QED  BY <1>1, <1>7, <1>8, <1>9, HandlerStep

(* A drained stream ends with the number of the frames sent.               *)
LEMMA DrainedStep ==
  ASSUME ServiceInv, NEW c \in Callers, Drained(c)
  PROVE  ServiceInv'
  <1> DEFINE e == End(Len(chunks[c]))
  <1>1. /\ handler[c] = "streaming" /\ Len(chunks[c]) = call[c].frames /\ Goes(c, "closing")
        /\ IF Streams(c) THEN Send(c, e) ELSE wire' = wire
        /\ UNCHANGED <<callVars, linked, client, recordVars, replicaVars>> /\ chunks' = chunks
        /\ call' = call /\ client' = client /\ jobs' = jobs /\ disk' = disk
    BY DEF Drained, callVars, recordVars
  <1>2. /\ ServiceType /\ wire[c] \in Seq(Events) /\ chunks[c] \in Seq(FrameSet)
        /\ Rendered(c, chunks[c]) /\ SoFar(c, wire[c], chunks[c])
    BY <1>1, AtCall
  <1>3. e \in Events
    BY <1>2, EventTypes
  <1>4. /\ handler' \in [Callers -> {"arriving", "streaming", "closing", "over"}]
        /\ handler'[c] = "closing" /\ \A d \in Callers \ {c} : handler'[d] = handler[d]
    BY <1>1, <1>2, GoesFacts
  <1>5. /\ wire' \in [Callers -> Seq(Events)]
        /\ \A d \in Callers \ {c} : wire'[d] = wire[d]
        /\ wire'[c] = IF Streams(c) THEN Append(wire[c], e) ELSE wire[c]
    <2> HIDE DEF e
    <2>1. CASE Streams(c)
      BY <1>1, <1>2, <1>3, <2>1, SendFacts
    <2>2. CASE ~Streams(c)
      BY <1>1, <1>2, <2>2 DEF ServiceType
    <2> QED  BY <2>1, <2>2
  <1>6. Drawn(c, wire'[c], chunks'[c])
    <2>1. CASE Streams(c)
      <3>1. TailedBy(wire'[c], chunks[c], e)
        BY <1>2, <1>3, <1>5, <2>1, Tailed
      <3> QED  BY <1>1, <2>1, <3>1 DEF Drawn, Told
    <2>2. CASE ~Streams(c)
      BY <1>1, <1>2, <1>5, <2>2 DEF Drawn, SoFar
    <2> QED  BY <2>1, <2>2
  <1>7. ServiceType'
    BY <1>1, <1>2, <1>4, <1>5, KeepTypes DEF ServiceType
  <1>8. CallStep(c)
    BY <1>1, <1>4, <1>5 DEF CallStep
  <1>9. CallAt(c, handler'[c], wire'[c], chunks'[c])
    BY <1>1, <1>2, <1>4, <1>6 DEF CallAt
  <1> QED  BY <1>1, <1>7, <1>8, <1>9, HandlerStep

(* An error is the last word, after however many frames.                   *)
LEMMA RaisesStep ==
  ASSUME ServiceInv, NEW c \in Callers, Raises(c)
  PROVE  ServiceInv'
  <1> DEFINE e == IF Streams(c) THEN Event("error") ELSE Status(500)
  <1>1. /\ handler[c] = "streaming" /\ Goes(c, "over") /\ Send(c, e)
        /\ UNCHANGED <<callVars, linked, client, recordVars, replicaVars>> /\ chunks' = chunks
        /\ call' = call /\ client' = client /\ jobs' = jobs /\ disk' = disk
    BY DEF Raises, callVars, recordVars
  <1>2. /\ ServiceType /\ wire[c] \in Seq(Events) /\ chunks[c] \in Seq(FrameSet)
        /\ Rendered(c, chunks[c]) /\ SoFar(c, wire[c], chunks[c])
    BY <1>1, AtCall
  <1>3. e \in Events
    BY EventTypes
  <1>4. /\ handler' \in [Callers -> {"arriving", "streaming", "closing", "over"}]
        /\ handler'[c] = "over" /\ \A d \in Callers \ {c} : handler'[d] = handler[d]
    BY <1>1, <1>2, GoesFacts
  <1>5. /\ wire' \in [Callers -> Seq(Events)] /\ wire'[c] = Append(wire[c], e)
        /\ \A d \in Callers \ {c} : wire'[d] = wire[d]
    BY <1>1, <1>2, <1>3, SendFacts
  <1>6. Failed(c, wire'[c], chunks'[c])
    <2>1. CASE Streams(c)
      <3>1. TailedBy(wire'[c], chunks[c], e)
        BY <1>2, <1>3, <1>5, <2>1, Tailed
      <3>2. e = Event("error")
        BY <2>1
      <3> HIDE DEF e
      <3>3. TailedBy(wire'[c], chunks'[c], Event("error"))
        BY <1>1, <3>1, <3>2
      <3> QED  BY <2>1, <3>3 DEF Failed
    <2>2. CASE ~Streams(c)
      <3>1. wire'[c] = <<Status(500)>>
        <4>1. e = Status(500)
          BY <2>2
        <4> HIDE DEF e
        <4>2. wire[c] = <<>>
          BY <1>2, <2>2 DEF SoFar
        <4> QED  BY <1>3, <1>5, <4>1, <4>2, FirstEvent
      <3> QED  BY <2>2, <3>1 DEF Failed
    <2> QED  BY <2>1, <2>2
  <1>7. ServiceType'
    BY <1>1, <1>2, <1>4, <1>5, KeepTypes DEF ServiceType
  <1>8. CallStep(c)
    BY <1>1, <1>4, <1>5 DEF CallStep
  <1>9. CallAt(c, handler'[c], wire'[c], chunks'[c])
    BY <1>1, <1>2, <1>4, <1>6 DEF CallAt
  <1> QED  BY <1>1, <1>7, <1>8, <1>9, HandlerStep

-----------------------------------------------------------------------------
(* Recordings.                                                             *)

(* All of a call's frames are its utterance.                               *)
LEMMA RenderedWhole ==
  ASSUME NEW c \in Callers, NEW s \in Seq(FrameSet), Rendered(c, s), Len(s) = call[c].frames
  PROVE  s = Utterance(c)
  <1>1. s = [k \in 1 .. Len(s) |-> s[k]]
    OBVIOUS
  <1>2. \A k \in 1 .. Len(s) : s[k] = FrameOf(c, k)
    BY DEF Rendered
  <1> QED  BY <1>1, <1>2 DEF Utterance

(* A recording that is submitted is of the call's frames; the others stay. *)
LEMMA SubmitFacts ==
  ASSUME ServiceType, NEW c \in Callers, NEW ok \in BOOLEAN, SubmitRecording(c, ok)
  PROVE  /\ counter' \in Nat /\ jobs' \subseteq [number : Nat, pcm : Seq(FrameSet)]
         /\ disk' = disk
         /\ \A rec \in jobs' : rec \in jobs \/ (ok = TRUE /\ rec.pcm = chunks[c])
  <1>1. counter \in Nat /\ chunks[c] \in Seq(FrameSet) /\ jobs \subseteq [number : Nat, pcm : Seq(FrameSet)]
    BY DEF ServiceType
  <1>2. disk' = disk
    BY DEF SubmitRecording
  <1>3. CASE ToRecord(c, ok)
    <2>1. counter' = counter + 1 /\ jobs' = jobs \cup {[number |-> counter', pcm |-> chunks[c]]}
      BY <1>3 DEF SubmitRecording
    <2>2. ok = TRUE
      BY <1>3 DEF ToRecord
    <2>3. counter' \in Nat
      BY <1>1, <2>1
    <2>4. \A n \in Nat, pcm \in Seq(FrameSet) :
             [number |-> n, pcm |-> pcm] \in [number : Nat, pcm : Seq(FrameSet)]
      OBVIOUS
    <2>5. PICK rec : rec = [number |-> counter', pcm |-> chunks[c]]
      OBVIOUS
    <2>6. rec \in [number : Nat, pcm : Seq(FrameSet)] /\ rec.pcm = chunks[c] /\ jobs' = jobs \cup {rec}
      <3>1. rec.pcm = chunks[c]
        BY <2>5
      <3>2. jobs' = jobs \cup {rec}
        BY <2>1, <2>5
      <3>3. rec \in [number : Nat, pcm : Seq(FrameSet)]
        BY <1>1, <2>3, <2>4, <2>5, Zenon
      <3> QED  BY <3>1, <3>2, <3>3
    <2>7. jobs' \subseteq [number : Nat, pcm : Seq(FrameSet)]
      BY <1>1, <2>6, Zenon
    <2>8. \A x \in jobs' : x \in jobs \/ x = rec
      BY <2>6
    <2>9. \A x \in jobs' : x \in jobs \/ (ok = TRUE /\ x.pcm = chunks[c])
      BY <2>2, <2>6, <2>8
    <2> QED  BY <1>2, <2>3, <2>7, <2>9, Zenon
  <1>4. CASE ~ToRecord(c, ok)
    <2>1. counter' = counter /\ jobs' = jobs
      BY <1>4 DEF SubmitRecording
    <2> QED  BY <1>1, <1>2, <2>1, Zenon
  <1> QED  BY <1>3, <1>4

(* A call that is complete is recorded when it was told so.                *)
LEMMA CompleteStep ==
  ASSUME ServiceInv, NEW c \in Callers, Complete(c)
  PROVE  ServiceInv'
  <1>1. /\ handler[c] = "closing" /\ Goes(c, "over") /\ SubmitRecording(c, TRUE)
        /\ IF Streams(c) THEN wire' = wire ELSE Send(c, Status(200))
        /\ auth' = auth /\ recording' = recording /\ call' = call /\ chunks' = chunks
        /\ linked' = linked /\ client' = client
        /\ alive' = alive /\ strikes' = strikes /\ deaths' = deaths
    BY DEF Complete, callVars, replicaVars
  <1>2. /\ ServiceType /\ wire[c] \in Seq(Events) /\ chunks[c] \in Seq(FrameSet)
        /\ Rendered(c, chunks[c]) /\ Drawn(c, wire[c], chunks[c])
    BY <1>1, AtCall
  <1>3. /\ counter' \in Nat /\ jobs' \subseteq [number : Nat, pcm : Seq(FrameSet)]
        /\ disk' = disk /\ \A rec \in jobs' : rec \in jobs \/ rec.pcm = chunks[c]
    BY <1>1, <1>2, SubmitFacts
  <1>4. /\ handler' \in [Callers -> {"arriving", "streaming", "closing", "over"}]
        /\ handler'[c] = "over" /\ \A d \in Callers \ {c} : handler'[d] = handler[d]
    BY <1>1, <1>2, GoesFacts
  <1>5. /\ wire' \in [Callers -> Seq(Events)]
        /\ \A d \in Callers \ {c} : wire'[d] = wire[d]
        /\ wire'[c] = IF Streams(c) THEN wire[c] ELSE Append(wire[c], Status(200))
    <2>1. CASE Streams(c)
      BY <1>1, <1>2, <2>1 DEF ServiceType
    <2>2. CASE ~Streams(c)
      <3>1. Status(200) \in Events /\ Send(c, Status(200))
        BY <1>1, <2>2, EventTypes
      <3> QED  BY <1>2, <2>2, <3>1, SendFacts
    <2> QED  BY <2>1, <2>2
  <1>6. Told(c, wire'[c], chunks'[c])
    <2>1. CASE Streams(c)
      BY <1>1, <1>2, <1>5, <2>1 DEF Drawn
    <2>2. CASE ~Streams(c)
      <3>1. wire[c] = <<>> /\ Len(chunks[c]) = call[c].frames
        BY <1>2, <2>2 DEF Drawn
      <3>2. wire'[c] = <<Status(200)>>
        BY <1>5, <2>2, <3>1, EventTypes, FirstEvent
      <3> QED  BY <1>1, <2>2, <3>1, <3>2 DEF Told
    <2> QED  BY <2>1, <2>2
  <1>7. ServiceType'
    <2>1. chunks' \in [Callers -> Seq(FrameSet)] /\ disk' = disk
      BY <1>1, <1>2, <1>3 DEF ServiceType
    <2> QED  BY <1>1, <1>2, <1>3, <1>4, <1>5, <2>1 DEF ServiceType
  <1>8. CallStep(c)
    BY <1>1, <1>4, <1>5 DEF CallStep
  <1>9. CallAt(c, handler'[c], wire'[c], chunks'[c])
    BY <1>1, <1>2, <1>4, <1>6 DEF CallAt
  <1>10. CallInv'
    BY <1>8, <1>9, OtherCalls DEF ServiceInv
  <1>11. ClientInv'
    BY <1>1, SameAsk DEF ServiceInv, ClientInv
  <1>12. RecordInv'
    <2>1. \A pcm : OfToldCall(pcm) => OfToldCall(pcm)'
      BY <1>1, <1>8, ToldStays
    <2>2. \A pcm : pcm = chunks[c] => OfToldCall(pcm)'
      <3>1. Told(c, wire[c], chunks[c])'
        BY <1>1, <1>6, SameAsk
      <3> QED  BY <1>1, <1>4, <3>1 DEF OfToldCall
    <2>3. \A rec \in jobs' : OfToldCall(rec.pcm)'
      <3> TAKE rec \in jobs'
      <3>1. CASE rec \in jobs
        BY <2>1, <3>1 DEF ServiceInv, RecordInv
      <3>2. CASE rec.pcm = chunks[c]
        BY <2>2, <3>2
      <3> QED  BY <1>3, <3>1, <3>2
    <2>4. \A n \in DOMAIN disk' : OfToldCall(disk[n])'
      BY <1>3, <2>1 DEF ServiceInv, RecordInv
    <2> QED  BY <2>3, <2>4 DEF RecordInv
  <1> QED  BY <1>7, <1>10, <1>11, <1>12 DEF ServiceInv

(* Nothing of the calls changed but where some handlers are.               *)
LEMMA CutOffStep ==
  ASSUME ServiceInv, NEW c \in Callers, CutOff(c)
  PROVE  ServiceInv'
  <1>1. /\ handler[c] \in {"streaming", "closing"} /\ Goes(c, "over")
        /\ SubmitRecording(c, FALSE) \/ (counter' = counter /\ jobs' = jobs /\ disk' = disk)
        /\ auth' = auth /\ recording' = recording /\ call' = call /\ chunks' = chunks /\ wire' = wire
        /\ linked' = linked /\ client' = client
        /\ alive' = alive /\ strikes' = strikes /\ deaths' = deaths
    BY DEF CutOff, callVars, replicaVars, recordVars
  <1>2. /\ ServiceType /\ wire[c] \in Seq(Events) /\ chunks[c] \in Seq(FrameSet)
        /\ Rendered(c, chunks[c])
        /\ SoFar(c, wire[c], chunks[c]) \/ Drawn(c, wire[c], chunks[c])
    BY <1>1, AtCall
  <1>3. counter' = counter /\ jobs' = jobs /\ disk' = disk
    <2>1. ASSUME SubmitRecording(c, FALSE) PROVE counter' = counter /\ jobs' = jobs /\ disk' = disk
      <3>1. ~ToRecord(c, FALSE)
        BY DEF ToRecord
      <3> QED  BY <2>1, <3>1 DEF SubmitRecording
    <2> QED  BY <1>1, <2>1
  <1>4. /\ handler' \in [Callers -> {"arriving", "streaming", "closing", "over"}]
        /\ handler'[c] = "over" /\ \A d \in Callers \ {c} : handler'[d] = handler[d]
    BY <1>1, <1>2, GoesFacts
  <1>5. ServiceType'
    BY <1>1, <1>2, <1>3, <1>4 DEF ServiceType
  <1>6. CallStep(c)
    BY <1>1, <1>4 DEF CallStep
  <1>7. CallAt(c, handler'[c], wire'[c], chunks'[c])
    <2>1. SoFar(c, wire[c], chunks[c]) \/ Told(c, wire[c], chunks[c])
      BY <1>2 DEF Drawn, SoFar
    <2> QED  BY <1>1, <1>2, <1>4, <2>1 DEF CallAt
  <1> QED  BY <1>1, <1>3, <1>5, <1>6, <1>7, HandlerStep

-----------------------------------------------------------------------------
(* Steps of no handler.                                                    *)

(* What holds of the calls is kept where nothing of them changes.          *)
LEMMA CallsStay ==
  ASSUME ServiceInv, call' = call, handler' = handler, wire' = wire, chunks' = chunks
  PROVE  CallInv' /\ \A pcm : OfToldCall(pcm) => OfToldCall(pcm)'
  <1>1. CallInv'
    BY SameAsk DEF ServiceInv, CallInv
  <1>2. \A pcm : OfToldCall(pcm) => OfToldCall(pcm)'
    BY SameAsk DEF OfToldCall
  <1> QED  BY <1>1, <1>2

(* A writer takes a recording from the jobs to the disk.                   *)
LEMMA WriteWavStep ==
  ASSUME ServiceInv, WriteWav
  PROVE  ServiceInv'
  <1>1. /\ auth' = auth /\ recording' = recording /\ call' = call /\ chunks' = chunks /\ wire' = wire
        /\ handler' = handler /\ linked' = linked /\ client' = client /\ counter' = counter
        /\ alive' = alive /\ strikes' = strikes /\ deaths' = deaths
    BY DEF WriteWav, callVars, replicaVars
  <1>2. PICK rec \in jobs :
          /\ jobs' = jobs \ {rec}
          /\ disk' = [n \in DOMAIN disk \cup {rec.number} |->
                        IF n = rec.number THEN rec.pcm ELSE disk[n]]
    BY DEF WriteWav
  <1>3. ServiceType
    BY DEF ServiceInv
  <1>4. rec.number \in Nat /\ rec.pcm \in Seq(FrameSet)
    <2>1. rec \in [number : Nat, pcm : Seq(FrameSet)]
      BY <1>2, <1>3 DEF ServiceType
    <2> QED  BY <2>1
  <1>5. /\ DOMAIN disk' = DOMAIN disk \cup {rec.number}
        /\ \A n \in DOMAIN disk' : disk'[n] = IF n = rec.number THEN rec.pcm ELSE disk[n]
    BY <1>2
  <1>6. \A n \in DOMAIN disk' : disk'[n] = rec.pcm \/ (n \in DOMAIN disk /\ disk'[n] = disk[n])
    BY <1>5
  <1>7. ServiceType'
    <2>1. jobs' \subseteq [number : Nat, pcm : Seq(FrameSet)]
      BY <1>2, <1>3 DEF ServiceType
    <2>2. DOMAIN disk' \subseteq Nat
      BY <1>3, <1>4, <1>5 DEF ServiceType
    <2>3. \A n \in DOMAIN disk' : disk'[n] \in Seq(FrameSet)
      BY <1>3, <1>4, <1>6 DEF ServiceType
    <2> QED  BY <1>1, <1>3, <2>1, <2>2, <2>3 DEF ServiceType
  <1>8. CallInv' /\ \A pcm : OfToldCall(pcm) => OfToldCall(pcm)'
    BY <1>1, CallsStay
  <1>9. ClientInv'
    BY <1>1, SameAsk DEF ServiceInv, ClientInv
  <1>10. RecordInv'
    <2>1. \A x \in jobs' : OfToldCall(x.pcm)'
      BY <1>2, <1>8 DEF ServiceInv, RecordInv
    <2>2. \A n \in DOMAIN disk' : \A pcm : pcm = disk'[n] => OfToldCall(pcm)'
      BY <1>2, <1>6, <1>8 DEF ServiceInv, RecordInv
    <2>3. \A n \in DOMAIN disk' : OfToldCall(disk[n])'
      BY <2>2
    <2> QED  BY <2>1, <2>3 DEF RecordInv
  <1> QED  BY <1>7, <1>8, <1>9, <1>10 DEF ServiceInv

(* The engine dies, a connection is severed, or nothing happens.           *)
LEMMA OutsideStep ==
  ASSUME ServiceInv, ServiceType', UNCHANGED <<call, handler, wire, chunks, client, jobs, disk>>
  PROVE  ServiceInv'
  <1>1. /\ call' = call /\ handler' = handler /\ wire' = wire /\ chunks' = chunks
        /\ client' = client /\ jobs' = jobs /\ disk' = disk
    OBVIOUS
  <1>2. CallInv' /\ \A pcm : OfToldCall(pcm) => OfToldCall(pcm)'
    BY <1>1, CallsStay
  <1>3. ClientInv'
    BY <1>1, SameAsk DEF ServiceInv, ClientInv
  <1>4. RecordInv'
    BY <1>1, <1>2 DEF ServiceInv, RecordInv
  <1> QED  BY <1>2, <1>3, <1>4 DEF ServiceInv

(* A severed connection changes nothing of what was sent.                  *)
LEMMA SeverStep ==
  ASSUME ServiceInv, NEW c \in Callers, Sever(c)
  PROVE  ServiceInv'
  <1>1. /\ auth' = auth /\ recording' = recording /\ call' = call /\ chunks' = chunks /\ wire' = wire
        /\ handler' = handler /\ client' = client /\ counter' = counter /\ jobs' = jobs
        /\ disk' = disk /\ alive' = alive /\ strikes' = strikes /\ deaths' = deaths
        /\ linked' = [linked EXCEPT ![c] = FALSE]
    BY DEF Sever, callVars, replicaVars, recordVars
  <1>2. linked' \in [Callers -> BOOLEAN]
    BY <1>1 DEF ServiceInv, ServiceType
  <1>3. ServiceType'
    BY <1>1, <1>2 DEF ServiceInv, ServiceType
  <1> QED  BY <1>1, <1>3, OutsideStep

(* So does the death of the engine, until a check finds it.                *)
LEMMA EngineDiesStep ==
  ASSUME ServiceInv, EngineDies
  PROVE  ServiceInv'
  <1>1. /\ auth' = auth /\ recording' = recording /\ call' = call /\ chunks' = chunks /\ wire' = wire
        /\ handler' = handler /\ client' = client /\ counter' = counter /\ jobs' = jobs
        /\ disk' = disk /\ linked' = linked /\ strikes' = strikes
        /\ alive' = FALSE /\ deaths' = deaths + 1 /\ deaths < MaxDeaths
    BY DEF EngineDies, callVars, recordVars
  <1>2. deaths' \in 0 .. MaxDeaths
    BY <1>1, ServiceAssumption DEF ServiceInv, ServiceType
  <1>3. ServiceType'
    BY <1>1, <1>2 DEF ServiceInv, ServiceType
  <1> QED  BY <1>1, <1>3, OutsideStep

(* A failed check of the health, and the replica's replacement.            *)
LEMMA CheckHealthStep ==
  ASSUME ServiceInv, CheckHealth
  PROVE  ServiceInv'
  <1>1. /\ auth' = auth /\ recording' = recording /\ call' = call /\ chunks' = chunks /\ wire' = wire
        /\ client' = client /\ disk' = disk /\ deaths' = deaths
    BY DEF CheckHealth, callVars
  <1>2. ServiceType /\ strikes \in 0 .. Strikes - 1 /\ Strikes \in Nat \ {0}
    BY ServiceAssumption DEF ServiceInv, ServiceType
  <1>3. CASE strikes + 1 < Strikes
    <2>1. /\ strikes' = strikes + 1 /\ alive' = alive /\ handler' = handler /\ linked' = linked
          /\ counter' = counter /\ jobs' = jobs
      BY <1>3 DEF CheckHealth
    <2>2. strikes' \in 0 .. Strikes - 1
      BY <1>2, <1>3, <2>1
    <2>3. ServiceType'
      BY <1>1, <1>2, <2>1, <2>2 DEF ServiceType
    <2> QED  BY <1>1, <2>1, <2>3, OutsideStep
  <1>4. CASE ~(strikes + 1 < Strikes)
    <2> DEFINE gone == {c \in Callers : handler[c] \in {"streaming", "closing"}}
    <2>1. /\ alive' = TRUE /\ strikes' = 0 /\ counter' = 0 /\ jobs' \subseteq jobs
          /\ handler' = [c \in Callers |-> IF c \in gone THEN "over" ELSE handler[c]]
          /\ linked' = [c \in Callers |-> linked[c] /\ c \notin gone]
      BY <1>4, Zenon DEF CheckHealth
    <2>2. /\ handler' \in [Callers -> {"arriving", "streaming", "closing", "over"}]
          /\ \A c \in Callers : \/ handler'[c] = handler[c]
                                \/ handler[c] \in {"streaming", "closing"} /\ handler'[c] = "over"
      BY <1>2, <2>1 DEF ServiceType
    <2>3. linked' \in [Callers -> BOOLEAN]
      BY <2>1
    <2>4. ServiceType'
      <3>1. 0 \in 0 .. Strikes - 1 /\ jobs' \subseteq [number : Nat, pcm : Seq(FrameSet)]
        BY <1>2, <2>1 DEF ServiceType
      <3> QED  BY <1>1, <1>2, <2>1, <2>2, <2>3, <3>1 DEF ServiceType
    <2>5. CallInv'
      <3>1. ASSUME NEW c \in Callers PROVE CallAt(c, handler'[c], wire'[c], chunks'[c])
        <4>1. CASE handler'[c] = handler[c]
          BY <1>1, <4>1 DEF ServiceInv, CallInv
        <4>2. CASE handler[c] \in {"streaming", "closing"} /\ handler'[c] = "over"
          <5>1. /\ Rendered(c, chunks[c])
                /\ SoFar(c, wire[c], chunks[c]) \/ Drawn(c, wire[c], chunks[c])
            BY <4>2, AtCall
          <5>2. SoFar(c, wire[c], chunks[c]) \/ Told(c, wire[c], chunks[c])
            BY <5>1 DEF Drawn, SoFar
          <5> QED  BY <1>1, <4>2, <5>1, <5>2 DEF CallAt
        <4> QED  BY <2>2, <4>1, <4>2
      <3> QED  BY <1>1, <3>1, SameAsk DEF CallInv
    <2>6. ClientInv'
      BY <1>1, SameAsk DEF ServiceInv, ClientInv
    <2>7. \A pcm : OfToldCall(pcm) => OfToldCall(pcm)'
      <3> TAKE pcm
      <3> HAVE OfToldCall(pcm)
      <3>1. PICK d \in Callers : handler[d] = "over" /\ pcm = chunks[d] /\ Told(d, wire[d], chunks[d])
        BY DEF OfToldCall
      <3>2. handler'[d] = "over" /\ Told(d, wire'[d], chunks'[d])
        BY <1>1, <2>2, <3>1
      <3>3. Told(d, wire[d], chunks[d])'
        BY <1>1, <3>2, SameAsk
      <3> QED  BY <1>1, <3>1, <3>2, <3>3 DEF OfToldCall
    <2>8. RecordInv'
      BY <1>1, <2>1, <2>7 DEF ServiceInv, RecordInv
    <2> QED  BY <2>4, <2>5, <2>6, <2>8 DEF ServiceInv
  <1> QED  BY <1>3, <1>4

-----------------------------------------------------------------------------
(* What a client writes.                                                   *)

(* What is played of a stream are the frames drawn.                        *)
LEMMA PlayedFrames ==
  ASSUME NEW w \in Seq(Events), NEW s \in Seq(FrameSet), Heralded(w, s),
         \A i \in DOMAIN w : i > Len(s) + 1 => w[i].event # "audio"
  PROVE  Played(w) = s
  <1> DEFINE n == Len(s)
             places == {i \in DOMAIN w : w[i].event = "audio"}
             nth(k) == CHOOSE i \in places : Cardinality({j \in places : j < i}) = k - 1
  <1>1. n \in Nat /\ Len(w) \in Nat /\ Len(w) >= n + 1 /\ DOMAIN w = 1 .. Len(w)
    BY DEF Heralded
  <1>2. places = 2 .. n + 1
    <2>1. w[1].event # "audio"
      BY DEF Heralded, Event
    <2>2. \A i \in 2 .. n + 1 : w[i].event = "audio"
      <3> TAKE i \in 2 .. n + 1
      <3>1. i - 1 \in 1 .. n /\ (i - 1) + 1 = i
        BY <1>1
      <3>2. w[i] = AudioOf(s[i - 1])
        BY <3>1 DEF Heralded
      <3> QED  BY <3>2 DEF AudioOf
    <2>3. \A i \in 1 .. Len(w) : i = 1 \/ i \in 2 .. n + 1 \/ i > n + 1
      BY <1>1
    <2>4. 2 .. n + 1 \subseteq 1 .. Len(w)
      BY <1>1
    <2> QED  BY <1>1, <2>1, <2>2, <2>3, <2>4
  <1>3. \A a, b \in Int : Cardinality(a .. b) = IF a > b THEN 0 ELSE b - a + 1
    BY FS_Interval
  <1>4. Cardinality(places) = n
    <2> HIDE DEF n, places
    <2>1. 2 \in Int /\ n + 1 \in Int
      BY <1>1
    <2>2. Cardinality(2 .. n + 1) = IF 2 > n + 1 THEN 0 ELSE (n + 1) - 2 + 1
      BY <1>3, <2>1
    <2>3. Cardinality(places) = IF 2 > n + 1 THEN 0 ELSE (n + 1) - 2 + 1
      BY <1>2, <2>2
    <2> QED  BY <1>1, <2>3
  <1>5. \A i \in places : Cardinality({j \in places : j < i}) = i - 2
    <2> HIDE DEF places
    <2> TAKE i \in places
    <2>1. i \in 2 .. n + 1 /\ n \in Nat
      BY <1>1, <1>2
    <2>2. {j \in 2 .. n + 1 : j < i} = 2 .. i - 1
      BY <2>1
    <2>3. 2 \in Int /\ i - 1 \in Int /\ (IF 2 > i - 1 THEN 0 ELSE i - 1 - 2 + 1) = i - 2
      BY <2>1
    <2> QED  BY <1>2, <1>3, <2>2, <2>3
  <1>6. \A k \in 1 .. n : nth(k) = k + 1
    <2> HIDE DEF places
    <2> TAKE k \in 1 .. n
    <2>1. k + 1 \in places /\ Cardinality({j \in places : j < k + 1}) = k - 1
      <3>1. k + 1 \in places /\ k + 1 - 2 = k - 1
        BY <1>1, <1>2
      <3> QED  BY <1>5, <3>1
    <2>2. nth(k) \in places /\ Cardinality({j \in places : j < nth(k)}) = k - 1
      BY <2>1
    <2>3. nth(k) - 2 = k - 1
      BY <1>5, <2>2
    <2>4. nth(k) \in 2 .. n + 1
      BY <1>2, <2>2
    <2> HIDE DEF nth
    <2> QED  BY <1>1, <2>3, <2>4
  <1>7. \A k \in 1 .. n : w[nth(k)].frame = s[k]
    <2> HIDE DEF nth
    <2> TAKE k \in 1 .. n
    <2>1. w[k + 1] = AudioOf(s[k])
      BY DEF Heralded
    <2> QED  BY <1>6, <2>1 DEF AudioOf
  <1>8. Played(w) = [k \in 1 .. Cardinality(places) |-> w[nth(k)].frame]
    BY DEF Played
  <1>9. s = [k \in 1 .. n |-> s[k]]
    OBVIOUS
  <1> HIDE DEF places, nth
  <1> QED  BY <1>4, <1>7, <1>8, <1>9

(* The events a call has been sent, by their places.                       *)
LEMMA TailFacts ==
  ASSUME NEW w \in Seq(Events), NEW s \in Seq(FrameSet), NEW e \in Events, TailedBy(w, s, e),
         e.event # "audio"
  PROVE  /\ Last(w) = e /\ w # <<>> /\ Played(w) = s /\ Len(s) \in Nat /\ Len(w) = Len(s) + 2
         /\ w[1].event = "start"
         /\ \A i \in 2 .. Len(s) + 1 : w[i].event = "audio"
  <1>1. Len(s) \in Nat /\ Len(w) = Len(s) + 2 /\ Heralded(w, s) /\ w[Len(s) + 2] = e
    BY DEF TailedBy
  <1>2. Last(w) = e
    BY <1>1 DEF Last
  <1>3. w # <<>>
    BY <1>1
  <1>4. \A i \in DOMAIN w : i > Len(s) + 1 => w[i].event # "audio"
    <2> TAKE i \in DOMAIN w
    <2> HAVE i > Len(s) + 1
    <2>1. i = Len(s) + 2
      BY <1>1
    <2> QED  BY <1>1, <2>1
  <1>5. Played(w) = s
    BY <1>1, <1>4, PlayedFrames
  <1>6. \A i \in 2 .. Len(s) + 1 : w[i].event = "audio"
    <2> TAKE i \in 2 .. Len(s) + 1
    <2>1. i - 1 \in 1 .. Len(s) /\ (i - 1) + 1 = i
      BY <1>1
    <2>2. w[i] = AudioOf(s[i - 1])
      BY <1>1, <2>1 DEF Heralded
    <2> QED  BY <2>2 DEF AudioOf
  <1>7. w[1].event = "start"
    BY <1>1 DEF Heralded, Event
  <1> QED  BY <1>1, <1>2, <1>3, <1>5, <1>6, <1>7

(* A stream that goes on has been sent nothing but the start and frames.   *)
LEMMA GoingFacts ==
  ASSUME NEW c, NEW w \in Seq(Events), NEW s \in Seq(FrameSet), SoFar(c, w, s)
  PROVE  \A i \in DOMAIN w : w[i].event \in {"start", "audio"}
  <1>1. CASE ~Streams(c)
    <2>1. w = <<>> /\ DOMAIN <<>> = {}
      BY <1>1 DEF SoFar
    <2> QED  BY <2>1
  <1>2. CASE Streams(c)
    <2>1. Len(w) = Len(s) + 1 /\ Heralded(w, s) /\ Len(s) \in Nat
      BY <1>2 DEF SoFar
    <2> TAKE i \in DOMAIN w
    <2>2. CASE i = 1
      BY <2>1, <2>2 DEF Heralded, Event
    <2>3. CASE i # 1
      <3>1. i - 1 \in 1 .. Len(s) /\ (i - 1) + 1 = i
        BY <2>1, <2>3
      <3>2. w[i] = AudioOf(s[i - 1])
        BY <2>1, <3>1 DEF Heralded
      <3> QED  BY <3>2 DEF AudioOf
    <2> QED  BY <2>2, <2>3
  <1> QED  BY <1>1, <1>2

(* The name of an event, and what makes one status differ from another.    *)
LEMMA EventNames ==
  /\ Event("error").event = "error" /\ \A n : End(n).event = "end" /\ Status(n).event = "status"
  /\ \A n : End(n).frames = n /\ Status(n).status = n
  BY DEF Event, End, Status

(* How what a call has been sent may end.                                  *)
Ending(c, w, s) ==
    LET last == Last(w) IN
    \/ last.event # "end" /\ last # Status(200)
    \/ last.event = "end" /\ Played(w) = s /\ s = Utterance(c) /\ last = End(Len(s))
    \/ last.event = "status" /\ last = Status(200) /\ s = Utterance(c)

(* Which of the events sent to a call are its last, and what it ends with. *)
LEMMA WireShape ==
  ASSUME ServiceInv, NEW c \in Callers, wire[c] # <<>>
  PROVE  /\ Ending(c, wire[c], chunks[c])
         /\ \A i \in DOMAIN wire[c] :
               wire[c][i].event \in {"end", "error", "status"} => i = Len(wire[c])
  <1> DEFINE w == wire[c]
             s == chunks[c]
  <1>1. /\ w \in Seq(Events) /\ s \in Seq(FrameSet) /\ Rendered(c, s) /\ w # <<>>
        /\ SoFar(c, w, s) \/ Refused(w, s) \/ Failed(c, w, s) \/ Told(c, w, s)
    <2>1. handler[c] \in {"arriving", "streaming", "closing", "over"}
      BY DEF ServiceInv, ServiceType
    <2>2. Drawn(c, w, s) => w = <<>> \/ Told(c, w, s)
      BY DEF Drawn
    <2> QED  BY <2>1, <2>2, AtCall
  <1>2. Len(w) \in Nat /\ Len(w) >= 1 /\ DOMAIN w = 1 .. Len(w) /\ Last(w) = w[Len(w)]
    BY <1>1 DEF Last
  <1> HIDE DEF w, s
  <1>3. ASSUME NEW e \in Events, TailedBy(w, s, e), e.event # "audio"
        PROVE  /\ Last(w) = e /\ Played(w) = s
               /\ \A i \in DOMAIN w : w[i].event \in {"end", "error", "status"} => i = Len(w)
    <2>1. /\ Last(w) = e /\ Played(w) = s /\ Len(s) \in Nat /\ Len(w) = Len(s) + 2
          /\ w[1].event = "start" /\ \A i \in 2 .. Len(s) + 1 : w[i].event = "audio"
      BY <1>1, <1>3, TailFacts
    <2>2. \A i \in DOMAIN w : i = 1 \/ i \in 2 .. Len(s) + 1 \/ i = Len(w)
      BY <1>2, <2>1
    <2> QED  BY <2>1, <2>2
  <1>4. ASSUME NEW e, w = <<e>>
        PROVE  /\ Last(w) = e
               /\ \A i \in DOMAIN w : i = Len(w)
    BY <1>4 DEF Last
  <1>5. CASE SoFar(c, w, s)
    <2>1. \A i \in DOMAIN w : w[i].event \in {"start", "audio"}
      BY <1>1, <1>5, GoingFacts
    <2>2. Last(w).event \in {"start", "audio"}
      BY <1>2, <2>1
    <2>3. Last(w).event # "end" /\ Last(w) # Status(200)
      BY <2>2, EventNames
    <2> QED  BY <2>1, <2>3, Zenon DEF Ending, w, s
  <1>6. CASE Refused(w, s)
    <2>1. PICK e \in {Event("error"), Status(401), Status(403), Status(422)} : w = <<e>>
      BY <1>6 DEF Refused
    <2>2. e.event # "end" /\ e # Status(200)
      BY <2>1, EventNames
    <2> QED  BY <1>4, <2>1, <2>2 DEF Ending, w, s
  <1>7. CASE Failed(c, w, s)
    <2>1. CASE Streams(c)
      <3>1. TailedBy(w, s, Event("error")) /\ Event("error") \in Events
        BY <1>7, <2>1, EventTypes DEF Failed
      <3>2. /\ Last(w) = Event("error")
            /\ \A i \in DOMAIN w : w[i].event \in {"end", "error", "status"} => i = Len(w)
        BY <1>3, <3>1, EventNames
      <3>3. Last(w).event # "end" /\ Last(w) # Status(200)
        BY <3>2, EventNames
      <3> QED  BY <3>2, <3>3 DEF Ending, w, s
    <2>2. CASE ~Streams(c)
      <3>1. w = <<Status(500)>>
        BY <1>7, <2>2 DEF Failed
      <3>2. Last(w) = Status(500) /\ \A i \in DOMAIN w : i = Len(w)
        BY <1>4, <3>1
      <3>3. Last(w).event # "end" /\ Last(w) # Status(200)
        BY <3>2, EventNames
      <3> QED  BY <3>2, <3>3 DEF Ending, w, s
    <2> QED  BY <2>1, <2>2
  <1>8. CASE Told(c, w, s)
    <2>1. s = Utterance(c)
      BY <1>1, <1>8, RenderedWhole DEF Told
    <2>2. CASE Streams(c)
      <3>1. TailedBy(w, s, End(Len(s))) /\ End(Len(s)) \in Events
        BY <1>1, <1>8, <2>2, EventTypes DEF Told
      <3>2. /\ Last(w) = End(Len(s)) /\ Played(w) = s
            /\ \A i \in DOMAIN w : w[i].event \in {"end", "error", "status"} => i = Len(w)
        BY <1>3, <3>1, EventNames
      <3>3. Last(w).event = "end"
        BY <3>2, EventNames
      <3> QED  BY <2>1, <3>2, <3>3, Zenon DEF Ending, w, s
    <2>3. CASE ~Streams(c)
      <3>1. w = <<Status(200)>>
        BY <1>8, <2>3 DEF Told
      <3>2. Last(w) = Status(200) /\ \A i \in DOMAIN w : i = Len(w)
        BY <1>4, <3>1
      <3>3. Last(w).event = "status"
        BY <3>2, EventNames
      <3> QED  BY <2>1, <3>2, <3>3, Zenon DEF Ending, w, s
    <2> QED  BY <2>2, <2>3
  <1> QED  BY <1>1, <1>5, <1>6, <1>7, <1>8

(* Frames of a call in order are the beginning of its utterance.           *)
LEMMA RenderedBegins ==
  ASSUME ServiceType, NEW c \in Callers, NEW s \in Seq(FrameSet), Rendered(c, s)
  PROVE  IsPrefix(s, Utterance(c))
  <1> DEFINE n == call[c].frames
             u == [k \in 1 .. n |-> FrameOf(c, k)]
  <1>1. n \in Nat /\ Len(s) \in Nat /\ Len(s) <= n /\ \A k \in 1 .. Len(s) : s[k] = FrameOf(c, k)
    BY FramesNat DEF Rendered
  <1>2. \A k \in Nat : FrameOf(c, k) \in FrameSet
    BY EventTypes
  <1> HIDE DEF n
  <1>3. u \in Seq(FrameSet) /\ Len(u) = n /\ \A k \in 1 .. n : u[k] = FrameOf(c, k)
    BY <1>1, <1>2
  <1> HIDE DEF u
  <1>4. SubSeq(s, 1, Len(s)) = SubSeq(u, 1, Len(s))
    <2>1. /\ Len(SubSeq(s, 1, Len(s))) = Len(s) /\ Len(SubSeq(u, 1, Len(s))) = Len(s)
          /\ SubSeq(s, 1, Len(s)) \in Seq(FrameSet) /\ SubSeq(u, 1, Len(s)) \in Seq(FrameSet)
      BY <1>1, <1>3
    <2>2. \A k \in 1 .. Len(s) : SubSeq(s, 1, Len(s))[k] = s[k] /\ SubSeq(u, 1, Len(s))[k] = u[k]
      BY <1>1, <1>3
    <2>3. \A k \in 1 .. Len(s) : SubSeq(s, 1, Len(s))[k] = SubSeq(u, 1, Len(s))[k]
      BY <1>1, <1>3, <2>2
    <2> QED  BY <2>1, <2>3, SeqEqual
  <1>5. Utterance(c) = u
    BY DEF Utterance, u, n
  <1> QED  BY <1>1, <1>3, <1>4, <1>5 DEF IsPrefix

(* A client has written a true file, or nothing.                           *)
LEMMA ClientStep ==
  ASSUME ServiceInv, NEW c \in Callers, NEW files \in Seq(WavFiles),
         files = <<>> \/ \E wav : files = <<wav>> /\ TrueFile(c, wav),
         client' = [client EXCEPT ![c] = files], linked' = [linked EXCEPT ![c] = FALSE],
         UNCHANGED <<callVars, handler, wire, chunks, recordVars, replicaVars>>
  PROVE  ServiceInv'
  <1>1. /\ auth' = auth /\ recording' = recording /\ call' = call /\ chunks' = chunks /\ wire' = wire
        /\ handler' = handler /\ counter' = counter /\ jobs' = jobs
        /\ disk' = disk /\ alive' = alive /\ strikes' = strikes /\ deaths' = deaths
    BY DEF callVars, replicaVars, recordVars
  <1>2. ServiceType
    BY DEF ServiceInv
  <1>3. client' \in [Callers -> Seq(WavFiles)] /\ linked' \in [Callers -> BOOLEAN]
    BY <1>2 DEF ServiceType
  <1>4. ServiceType'
    BY <1>1, <1>2, <1>3 DEF ServiceType
  <1>5. CallInv' /\ \A pcm : OfToldCall(pcm) => OfToldCall(pcm)'
    BY <1>1, CallsStay
  <1>6. \A d \in Callers : client'[d] = <<>> \/ \E wav : client'[d] = <<wav>> /\ TrueFile(d, wav)
    <2> TAKE d \in Callers
    <2>1. CASE d = c
      BY <1>2, <2>1 DEF ServiceType
    <2>2. CASE d # c
      <3>1. client'[d] = client[d]
        BY <1>2, <2>2 DEF ServiceType
      <3> QED  BY <3>1 DEF ServiceInv, ClientInv
    <2> QED  BY <2>1, <2>2
  <1>7. ClientInv'
    BY <1>1, <1>6, SameAsk DEF ClientInv
  <1>8. RecordInv'
    BY <1>1, <1>5 DEF ServiceInv, RecordInv
  <1> QED  BY <1>4, <1>5, <1>7, <1>8 DEF ServiceInv

(* A file of frames of the call is one, if it is not told to be more.      *)
LEMMA FileFacts ==
  ASSUME ServiceType, NEW c \in Callers, NEW s \in Seq(FrameSet), Rendered(c, s),
         NEW b \in BOOLEAN, b = TRUE => s = Utterance(c)
  PROVE  <<WavFile(s, b)>> \in Seq(WavFiles) /\ TrueFile(c, WavFile(s, b))
  <1>1. WavFile(s, b) \in WavFiles /\ WavFile(s, b).pcm = s /\ WavFile(s, b).told = b
    BY DEF WavFile, WavFiles
  <1> QED  BY <1>1 DEF TrueFile

(* A client that is told how its call ended writes all of it, or nothing.  *)
LEMMA ClientReadsStep ==
  ASSUME ServiceInv, NEW c \in Callers, ClientReads(c)
  PROVE  ServiceInv'
  <1>1. /\ UNCHANGED <<callVars, handler, wire, chunks, recordVars, replicaVars>>
        /\ linked' = [linked EXCEPT ![c] = FALSE]
        /\ client' = [client EXCEPT ![c] = ClientFile(c)] /\ wire[c] # <<>>
    BY DEF ClientReads
  <1>2. ServiceType /\ chunks[c] \in Seq(FrameSet) /\ Rendered(c, chunks[c])
    BY AtCall
  <1>3. ClientFile(c) = <<>> \/ (ClientFile(c) = <<WavFile(chunks[c], TRUE)>> /\ chunks[c] = Utterance(c))
    <2>1. Ending(c, wire[c], chunks[c])
      BY <1>1, WireShape
    <2> QED  BY <2>1 DEF ClientFile, Ending
  <1>4. CASE ClientFile(c) = <<>>
    <2>1. <<>> \in Seq(WavFiles)
      OBVIOUS
    <2> QED  BY <1>1, <1>4, <2>1, ClientStep
  <1>5. CASE ClientFile(c) = <<WavFile(chunks[c], TRUE)>> /\ chunks[c] = Utterance(c)
    <2>1. <<WavFile(chunks[c], TRUE)>> \in Seq(WavFiles) /\ TrueFile(c, WavFile(chunks[c], TRUE))
      BY <1>2, <1>5, FileFacts
    <2> QED  BY <1>1, <1>5, <2>1, ClientStep
  <1> QED  BY <1>3, <1>4, <1>5

(* What is read of a call before the word of how it ended are its frames.  *)
LEMMA ReadSoFar ==
  ASSUME ServiceInv, NEW c \in Callers, Streams(c), NEW n \in 0 .. Len(wire[c]),
         \A i \in 1 .. n : SubSeq(wire[c], 1, n)[i].event \in {"start", "audio"}
  PROVE  /\ Played(SubSeq(wire[c], 1, n)) \in Seq(FrameSet)
         /\ Rendered(c, Played(SubSeq(wire[c], 1, n)))
  <1> DEFINE w == wire[c]
             s == chunks[c]
             g == SubSeq(w, 1, n)
             f == SubSeq(s, 1, n - 1)
  <1>1. /\ w \in Seq(Events) /\ s \in Seq(FrameSet) /\ Rendered(c, s) /\ ServiceType
        /\ w = <<>> \/ SoFar(c, w, s) \/ Refused(w, s) \/ Failed(c, w, s) \/ Told(c, w, s)
    <2>1. handler[c] \in {"arriving", "streaming", "closing", "over"}
      BY DEF ServiceInv, ServiceType
    <2>2. Drawn(c, w, s) => w = <<>> \/ Told(c, w, s)
      BY DEF Drawn
    <2> QED  BY <2>1, <2>2, AtCall
  <1>2. Len(w) \in Nat /\ n \in Nat /\ n <= Len(w) /\ Len(s) \in Nat
    BY <1>1
  <1>3. \A i \in 1 .. n : g[i].event \in {"start", "audio"}
    OBVIOUS
  <1> HIDE DEF w, s
  <1>4. g \in Seq(Events) /\ Len(g) = n /\ \A i \in 1 .. n : g[i] = w[i]
    BY <1>1, <1>2
  <1> HIDE DEF g
  <1>5. CASE n = 0
    <2> DEFINE places == {i \in DOMAIN g : g[i].event = "audio"}
               nth(k) == CHOOSE i \in places : Cardinality({j \in places : j < i}) = k - 1
    <2>1. places = {}
      BY <1>4, <1>5
    <2>2. Cardinality({}) = 0
      BY FS_EmptySet
    <2>3. Played(g) = [k \in 1 .. Cardinality(places) |-> g[nth(k)].frame]
      BY DEF Played
    <2> HIDE DEF places, nth
    <2>4. Played(g) = <<>>
      <3>1. Cardinality(places) = 0
        BY <2>1, <2>2
      <3> QED  BY <2>3, <3>1
    <2>5. Rendered(c, <<>>) /\ <<>> \in Seq(FrameSet)
      BY <1>1, NothingDrawn
    <2> QED  BY <2>4, <2>5 DEF g, w
  <1>6. CASE n # 0
    <2>1. 1 \in 1 .. n
      BY <1>2, <1>6
    <2>2. ~Refused(w, s)
      <3> SUFFICES ASSUME Refused(w, s) PROVE FALSE
        OBVIOUS
      <3>1. PICK e \in {Event("error"), Status(401), Status(403), Status(422)} : w = <<e>>
        BY DEF Refused
      <3>2. g[1].event \in {"error", "status"}
        BY <1>4, <2>1, <3>1, EventNames
      <3> QED  BY <1>3, <2>1, <3>2
    <2>3. Heralded(w, s) /\ n <= Len(s) + 1
      <3>1. CASE SoFar(c, w, s)
        BY <1>2, <3>1 DEF SoFar
      <3>2. ASSUME NEW e, TailedBy(w, s, e), e.event \notin {"start", "audio"}
            PROVE  Heralded(w, s) /\ n <= Len(s) + 1
        <4>1. Heralded(w, s) /\ Len(w) = Len(s) + 2 /\ w[Len(s) + 2] = e
          BY <3>2 DEF TailedBy
        <4>2. n # Len(s) + 2
          <5> SUFFICES ASSUME n = Len(s) + 2 PROVE FALSE
            OBVIOUS
          <5>1. n \in 1 .. n
            BY <1>2, <1>6
          <5>2. g[n] = e
            BY <1>4, <4>1, <5>1
          <5> QED  BY <1>3, <3>2, <5>1, <5>2
        <4> QED  BY <1>2, <4>1, <4>2
      <3>3. CASE Failed(c, w, s)
        BY <3>2, <3>3, EventNames DEF Failed
      <3>4. CASE Told(c, w, s)
        BY <3>2, <3>4, EventNames DEF Told
      <3>5. w # <<>>
        BY <1>2, <1>6
      <3> QED  BY <1>1, <2>2, <3>1, <3>3, <3>4, <3>5
    <2>4. f \in Seq(FrameSet) /\ Len(f) = n - 1 /\ \A k \in 1 .. n - 1 : f[k] = s[k]
      BY <1>1, <1>2, <1>6, <2>3
    <2> HIDE DEF f
    <2>5. Rendered(c, f)
      <3>1. call[c].frames \in Nat
        BY <1>1, FramesNat
      <3>2. Len(f) <= call[c].frames
        BY <1>1, <1>2, <1>6, <2>3, <2>4, <3>1 DEF Rendered
      <3>3. \A k \in 1 .. Len(f) : f[k] = FrameOf(c, k)
        BY <1>1, <1>2, <1>6, <2>3, <2>4 DEF Rendered
      <3> QED  BY <3>2, <3>3 DEF Rendered
    <2>6. Heralded(g, f)
      <3>1. g[1] = w[1] /\ w[1] = Event("start")
        BY <1>4, <2>1, <2>3 DEF Heralded
      <3>2. Len(g) >= Len(f) + 1
        BY <1>2, <1>4, <2>4
      <3>3. \A k \in 1 .. Len(f) : g[k + 1] = AudioOf(f[k])
        <4> TAKE k \in 1 .. Len(f)
        <4>1. k \in 1 .. n - 1 /\ k + 1 \in 1 .. n /\ k \in 1 .. Len(s)
          BY <1>2, <1>6, <2>3, <2>4
        <4> QED  BY <1>4, <2>3, <2>4, <4>1 DEF Heralded
      <3> QED  BY <3>1, <3>2, <3>3 DEF Heralded
    <2>7. \A i \in DOMAIN g : i > Len(f) + 1 => g[i].event # "audio"
      BY <1>2, <1>4, <2>4
    <2>8. Played(g) = f
      BY <1>4, <2>4, <2>6, <2>7, PlayedFrames
    <2> QED  BY <2>4, <2>5, <2>8 DEF g, w
  <1> QED  BY <1>5, <1>6

(* A client whose connection was closed early writes what it has read.     *)
LEMMA ClosedEarlyStep ==
  ASSUME ServiceInv, NEW c \in Callers, ClosedEarly(c)
  PROVE  ServiceInv'
  <1>1. /\ UNCHANGED <<callVars, handler, wire, chunks, recordVars, replicaVars>>
        /\ linked' = [linked EXCEPT ![c] = FALSE] /\ Streams(c)
    BY DEF ClosedEarly
  <1>2. PICK n \in 0 .. Len(wire[c]) :
            /\ \A i \in 1 .. n : SubSeq(wire[c], 1, n)[i].event \in {"start", "audio"}
            /\ client' = [client EXCEPT ![c] =
                 IF Websocket(c) \/ Played(SubSeq(wire[c], 1, n)) # <<>>
                   THEN <<WavFile(Played(SubSeq(wire[c], 1, n)), FALSE)>> ELSE <<>>]
    BY DEF ClosedEarly
  <1> DEFINE s == Played(SubSeq(wire[c], 1, n))
  <1>3. s \in Seq(FrameSet) /\ Rendered(c, s)
    BY <1>1, <1>2, ReadSoFar
  <1>4. \/ client' = [client EXCEPT ![c] = <<WavFile(s, FALSE)>>]
        \/ client' = [client EXCEPT ![c] = <<>>]
    BY <1>2
  <1> HIDE DEF s
  <1>5. <<WavFile(s, FALSE)>> \in Seq(WavFiles) /\ TrueFile(c, WavFile(s, FALSE))
    BY <1>3, FileFacts DEF ServiceInv
  <1>6. <<>> \in Seq(WavFiles)
    OBVIOUS
  <1> QED  BY <1>1, <1>4, <1>5, <1>6, ClientStep

(* The inductive invariant holds at the start.                             *)
LEMMA ServiceStart == ServiceInit => ServiceInv
  <1> SUFFICES ASSUME ServiceInit PROVE ServiceInv
    OBVIOUS
  <1>1. <<>> \in Seq(Events) /\ <<>> \in Seq(FrameSet) /\ <<>> \in Seq(WavFiles) /\ DOMAIN << >> = {}
    OBVIOUS
  <1>2. ServiceType
    <2>1. 0 \in 0 .. Strikes - 1 /\ 0 \in 0 .. MaxDeaths /\ 0 \in Nat
      BY ServiceAssumption
    <2> QED  BY <1>1, <2>1 DEF ServiceInit, ServiceType
  <1>3. \A c \in Callers : CallAt(c, handler[c], wire[c], chunks[c])
    <2> TAKE c \in Callers
    <2>1. handler[c] = "arriving" /\ wire[c] = <<>> /\ chunks[c] = <<>>
      BY DEF ServiceInit
    <2>2. Rendered(c, <<>>)
      BY <1>2, NothingDrawn
    <2> QED  BY <2>1, <2>2 DEF CallAt
  <1>4. ClientInv
    BY DEF ServiceInit, ClientInv
  <1>5. RecordInv
    BY <1>1 DEF ServiceInit, RecordInv
  <1> QED  BY <1>2, <1>3, <1>4, <1>5 DEF ServiceInv, CallInv

(* Every step keeps the invariant.                                         *)
LEMMA ServiceStep == ServiceInv /\ [ServiceNext]_ttsServiceVars => ServiceInv'
  <1> SUFFICES ASSUME ServiceInv, [ServiceNext]_ttsServiceVars PROVE ServiceInv'
    OBVIOUS
  <1>1. CASE UNCHANGED ttsServiceVars
    <2>1. /\ auth' = auth /\ recording' = recording /\ call' = call /\ chunks' = chunks
          /\ wire' = wire /\ handler' = handler /\ linked' = linked /\ client' = client
          /\ counter' = counter /\ jobs' = jobs /\ disk' = disk
          /\ alive' = alive /\ strikes' = strikes /\ deaths' = deaths
      BY <1>1 DEF ttsServiceVars, callVars, recordVars, replicaVars
    <2>2. ServiceType'
      BY <2>1 DEF ServiceInv, ServiceType
    <2> QED  BY <2>1, <2>2, OutsideStep
  <1>2. ASSUME NEW c \in Callers,
               \/ Refuse(c) \/ Admit(c) \/ DrawFrame(c) \/ Drained(c) \/ Raises(c) \/ Complete(c)
               \/ CutOff(c) \/ ClientReads(c) \/ ClosedEarly(c) \/ Sever(c)
        PROVE  ServiceInv'
    BY <1>2, RefuseStep, AdmitStep, DrawFrameStep, DrainedStep, RaisesStep, CompleteStep,
       CutOffStep, ClientReadsStep, ClosedEarlyStep, SeverStep
  <1> QED  BY <1>1, <1>2, WriteWavStep, EngineDiesStep, CheckHealthStep DEF ServiceNext

(* The server's own view of a call: at every point of the handler, what it *)
(* has drawn are frames of the call in order, what it has sent is the      *)
(* start, those frames and one last word, and a file or a recording is of  *)
(* a call that was told it is complete.                                    *)
THEOREM ServiceInductive == ServiceSpec => []ServiceInv
  <1> QED  BY ServiceStart, ServiceStep, PTL DEF ServiceSpec

(* However the handlers of a replica interleave, fail, are cut off, or are *)
(* lost with it: an end event, a 200, a recording, and the file of a       *)
(* client that was told either are only ever of a whole utterance, and any *)
(* other file is the beginning of its own, for all callers and requests.   *)
THEOREM ServiceWhole == ServiceSpec => []EndMeansWhole
  <1>1. ServiceInv => EndMeansWhole
    <2> SUFFICES ASSUME ServiceInv PROVE EndMeansWhole
      OBVIOUS
    <2>1. ASSUME NEW c \in Callers, NEW i \in DOMAIN wire[c]
          PROVE  /\ wire[c][i].event \in {"end", "error", "status"} => i = Len(wire[c])
                 /\ wire[c][i].event = "end" =>
                      Played(wire[c]) = Utterance(c) /\ wire[c][i].frames = Len(Utterance(c))
      <3>1. wire[c] # <<>> /\ wire[c] \in Seq(Events)
        <4>1. DOMAIN << >> = {}
          OBVIOUS
        <4> QED  BY <4>1, AtCall
      <3>2. /\ Ending(c, wire[c], chunks[c])
            /\ wire[c][i].event \in {"end", "error", "status"} => i = Len(wire[c])
        BY <3>1, WireShape
      <3>3. ASSUME wire[c][i].event = "end"
            PROVE  Played(wire[c]) = Utterance(c) /\ wire[c][i].frames = Len(Utterance(c))
        <4>1. wire[c][i] = Last(wire[c])
          BY <3>1, <3>2, <3>3 DEF Last
        <4> QED  BY <3>2, <3>3, <4>1, EventNames DEF Ending
      <3> QED  BY <3>2, <3>3
    <2>2. \A pcm : OfToldCall(pcm) => \E c \in Callers :
            /\ pcm = Utterance(c)
            /\ wire[c] # <<>> /\ (Last(wire[c]) = End(Len(pcm)) \/ Last(wire[c]) = Status(200))
      <3> TAKE pcm
      <3> HAVE OfToldCall(pcm)
      <3>1. PICK c \in Callers : handler[c] = "over" /\ pcm = chunks[c] /\ Told(c, wire[c], chunks[c])
        BY DEF OfToldCall
      <3>2. wire[c] \in Seq(Events) /\ chunks[c] \in Seq(FrameSet) /\ Rendered(c, chunks[c])
        BY AtCall
      <3>3. pcm = Utterance(c)
        BY <3>1, <3>2, RenderedWhole DEF Told
      <3>4. CASE Streams(c)
        <4>1. TailedBy(wire[c], chunks[c], End(Len(chunks[c]))) /\ End(Len(chunks[c])) \in Events
          BY <3>1, <3>2, <3>4, EventTypes DEF Told
        <4>2. wire[c] # <<>> /\ Last(wire[c]) = End(Len(chunks[c]))
          BY <3>2, <4>1, TailFacts, EventNames
        <4> QED  BY <3>1, <3>3, <4>2
      <3>5. CASE ~Streams(c)
        <4>1. wire[c] = <<Status(200)>>
          BY <3>1, <3>5 DEF Told
        <4>2. wire[c] # <<>> /\ Last(wire[c]) = Status(200)
          BY <4>1 DEF Last
        <4> QED  BY <3>1, <3>3, <4>2
      <3> QED  BY <3>4, <3>5
    <2>3. \A pcm \in Range(disk) \cup {rec.pcm : rec \in jobs} : OfToldCall(pcm)
      BY DEF ServiceInv, RecordInv, Range
    <2>4. ASSUME NEW c \in Callers, NEW wav \in Range(client[c])
          PROVE  IF wav.told THEN wav.pcm = Utterance(c) ELSE IsPrefix(wav.pcm, Utterance(c))
      <3>1. PICK mine : client[c] = <<mine>> /\ TrueFile(c, mine)
        <4>1. client[c] # <<>>
          BY DEF Range
        <4> QED  BY <4>1 DEF ServiceInv, ClientInv
      <3>2. wav = mine
        BY <3>1 DEF Range
      <3>3. wav.pcm \in Seq(FrameSet) /\ wav.told \in BOOLEAN /\ Rendered(c, wav.pcm)
            /\ (wav.told = TRUE => wav.pcm = Utterance(c))
        BY <3>1, <3>2 DEF TrueFile, WavFiles
      <3>4. IsPrefix(wav.pcm, Utterance(c))
        BY <3>3, RenderedBegins DEF ServiceInv
      <3> QED  BY <3>3, <3>4
    <2> QED  BY <2>1, <2>2, <2>3, <2>4, Zenon DEF EndMeansWhole
  <1> QED  BY <1>1, ServiceInductive, PTL

-----------------------------------------------------------------------------
(* A live session.                                                         *)

ListenType ==
    /\ audio \in Seq(BOOLEAN) /\ base \in 0 .. Len(audio) /\ hist \in Seq(BOOLEAN)
    /\ since \in Int
    /\ spans \in Seq(Nat \X Nat) /\ committed \in Seq(Nat \X Nat) /\ sent \in Seq(Nat \X Nat)
    /\ heard \in Nat \X Nat
    /\ session \in {"open", "ended", "gone", "failed"}

ListenInv == ListenType /\ SpeechHeardOnce

(* The larger and the smaller of two.                                      *)
LEMMA PairFacts ==
  ASSUME NEW a \in Int, NEW b \in Int
  PROVE  /\ Max({a, b}) = IF a >= b THEN a ELSE b
         /\ Min({a, b}) = IF a <= b THEN a ELSE b
  <1>1. CASE a >= b
    <2>1. \E x \in {a, b} : \A y \in {a, b} : x >= y
      BY <1>1
    <2>2. \E x \in {a, b} : \A y \in {a, b} : x <= y
      BY <1>1
    <2> QED  BY <1>1, <2>1, <2>2 DEF Max, Min
  <1>2. CASE b > a
    <2>1. \E x \in {a, b} : \A y \in {a, b} : x >= y
      BY <1>2
    <2>2. \E x \in {a, b} : \A y \in {a, b} : x <= y
      BY <1>2
    <2> QED  BY <1>2, <2>1, <2>2 DEF Max, Min
  <1> QED  BY <1>1, <1>2

(* A piece of the audio, and whether there is speech in it.                *)
LEMMA PieceFacts ==
  ASSUME NEW a \in Seq(BOOLEAN), NEW m \in Nat, NEW n \in Nat, m >= 1, n <= Len(a)
  PROVE  /\ SubSeq(a, m, n) \in Seq(BOOLEAN)
         /\ Len(SubSeq(a, m, n)) = IF m <= n THEN n - m + 1 ELSE 0
         /\ \A i \in 1 .. n - m + 1 : SubSeq(a, m, n)[i] = a[m + i - 1]
         /\ \A t \in m .. n : a[t] => Speech(SubSeq(a, m, n))
  <1>1. Len(a) \in Nat /\ \A i \in m .. n : a[i] \in BOOLEAN
    OBVIOUS
  <1>2. /\ SubSeq(a, m, n) \in Seq(BOOLEAN)
        /\ Len(SubSeq(a, m, n)) = IF m <= n THEN n - m + 1 ELSE 0
        /\ \A i \in 1 .. n - m + 1 : SubSeq(a, m, n)[i] = a[m + i - 1]
    BY <1>1, SubSeqProperties
  <1>3. ASSUME NEW t \in m .. n, a[t] PROVE Speech(SubSeq(a, m, n))
    <2>1. t - m + 1 \in 1 .. n - m + 1 /\ m + (t - m + 1) - 1 = t /\ m <= n
      BY <1>3
    <2>2. SubSeq(a, m, n)[t - m + 1] = a[t]
      BY <1>2, <2>1
    <2>3. t - m + 1 \in DOMAIN SubSeq(a, m, n)
      BY <1>2, <2>1
    <2> QED  BY <1>3, <2>2, <2>3 DEF Speech
  <1> QED  BY <1>2, <1>3

(* The open span of the audio.                                             *)
LEMMA OpenFacts ==
  ASSUME NEW a \in Seq(BOOLEAN), NEW b \in 0 .. Len(a)
  PROVE  /\ Open(a, b) \in Seq(BOOLEAN) /\ Len(Open(a, b)) = Len(a) - b
         /\ \A i \in 1 .. Len(a) - b : Open(a, b)[i] = a[b + i]
  <1>1. Len(a) \in Nat /\ b + 1 \in Nat /\ b + 1 >= 1 /\ b \in Nat
    OBVIOUS
  <1>2. /\ Open(a, b) \in Seq(BOOLEAN)
        /\ Len(Open(a, b)) = IF b + 1 <= Len(a) THEN Len(a) - (b + 1) + 1 ELSE 0
        /\ \A i \in 1 .. Len(a) - (b + 1) + 1 : Open(a, b)[i] = a[(b + 1) + i - 1]
    BY <1>1, PieceFacts DEF Open
  <1> QED  BY <1>1, <1>2

(* How many frames a span has, and that a frame with speech says so.       *)
LEMMA FrameFacts ==
  ASSUME NEW seg \in Seq(BOOLEAN)
  PROVE  LET db == Frames(seg) IN
         /\ db \in Seq(BOOLEAN) /\ Len(db) \in Nat /\ Len(db) >= 1
         /\ Len(db) = IF Len(seg) - FrameHops + 1 >= 1 THEN Len(seg) - FrameHops + 1 ELSE 1
         /\ \A k \in 1 .. Len(db), t \in 1 .. Len(seg) :
               seg[t] /\ k <= t /\ t <= k + FrameHops - 1 => db[k]
  <1> DEFINE n == Max({1, Len(seg) - FrameHops + 1})
             frame(k) == Speech(SubSeq(seg, k, Min({k + FrameHops - 1, Len(seg)})))
             db == [k \in 1 .. n |-> frame(k)]
  <1>1. Len(seg) \in Nat /\ FrameHops \in Nat /\ FrameHops >= 1
    BY VadAssumption
  <1>2. n = IF Len(seg) - FrameHops + 1 >= 1 THEN Len(seg) - FrameHops + 1 ELSE 1
    <2>1. 1 \in Int /\ Len(seg) - FrameHops + 1 \in Int
      BY <1>1
    <2>2. Max({1, Len(seg) - FrameHops + 1}) =
             IF 1 >= Len(seg) - FrameHops + 1 THEN 1 ELSE Len(seg) - FrameHops + 1
      BY <2>1, PairFacts
    <2> QED  BY <2>1, <2>2
  <1>3. n \in Nat /\ n >= 1
    BY <1>1, <1>2
  <1> HIDE DEF n
  <1>4. \A k \in 1 .. n : frame(k) \in BOOLEAN
    BY DEF Speech
  <1>5. db \in Seq(BOOLEAN) /\ Len(db) = n
    BY <1>3, <1>4
  <1>6. ASSUME NEW k \in 1 .. n, NEW t \in 1 .. Len(seg),
               seg[t], k <= t, t <= k + FrameHops - 1
        PROVE  frame(k)
    <2> DEFINE last == Min({k + FrameHops - 1, Len(seg)})
    <2>1. k + FrameHops - 1 \in Int /\ Len(seg) \in Int /\ k \in Nat /\ k >= 1
      BY <1>1, <1>3
    <2>2. last = IF k + FrameHops - 1 <= Len(seg) THEN k + FrameHops - 1 ELSE Len(seg)
      BY <2>1, PairFacts
    <2> HIDE DEF last
    <2>3. last \in Nat /\ last <= Len(seg) /\ t \in k .. last
      BY <1>1, <1>6, <2>1, <2>2
    <2>4. Speech(SubSeq(seg, k, last))
      BY <1>6, <2>1, <2>3, PieceFacts
    <2> QED  BY <2>4 DEF last
  <1>7. Frames(seg) = db
    BY DEF Frames, n
  <1>8. \A k \in 1 .. n : db[k] = frame(k)
    OBVIOUS
  <1> HIDE DEF db, frame
  <1> QED  BY <1>2, <1>3, <1>5, <1>6, <1>7, <1>8

(* Speech at a hop makes a frame loud that reaches it: the one at the hop, *)
(* or the last one.                                                        *)
LEMMA SpeechIsLoud ==
  ASSUME NEW seg \in Seq(BOOLEAN), NEW t \in 1 .. Len(seg), seg[t], NEW ref
  PROVE  \E k \in 1 .. Len(Frames(seg)) :
            /\ k = t \/ (k = Len(Frames(seg)) /\ k < t)
            /\ Loud(Frames(seg)[k], ref)
  <1>1. Len(seg) \in Nat /\ FrameHops \in Nat /\ FrameHops >= 1
    BY VadAssumption
  <1>2. /\ Len(Frames(seg)) \in Nat /\ Len(Frames(seg)) >= 1
        /\ Len(Frames(seg)) = IF Len(seg) - FrameHops + 1 >= 1 THEN Len(seg) - FrameHops + 1 ELSE 1
        /\ \A k \in 1 .. Len(Frames(seg)), u \in 1 .. Len(seg) :
               seg[u] /\ k <= u /\ u <= k + FrameHops - 1 => Frames(seg)[k]
    BY FrameFacts
  <1> DEFINE k == IF t <= Len(Frames(seg)) THEN t ELSE Len(Frames(seg))
  <1>3. k \in 1 .. Len(Frames(seg)) /\ k <= t /\ t <= k + FrameHops - 1
    BY <1>1, <1>2
  <1>4. k = t \/ (k = Len(Frames(seg)) /\ k < t)
    BY <1>1, <1>2
  <1> HIDE DEF k
  <1>5. Frames(seg)[k]
    BY <1>2, <1>3
  <1> QED  BY <1>3, <1>4, <1>5 DEF Loud


(* What a cut may be: it ends inside the span and drops no speech.         *)
Fair(seg, cut) ==
    /\ cut.end \in 1 .. Len(seg) /\ cut.keep \in cut.end .. Len(seg)
    /\ \A t \in cut.end + 1 .. cut.keep : ~seg[t]

(* The last loud frame, or 0.                                              *)
LEMMA LastVoicedFacts ==
  ASSUME NEW db \in Seq(BOOLEAN), NEW h
  PROVE  /\ LastVoiced(db, h) \in 0 .. Len(db)
         /\ \A k \in 1 .. Len(db) : k > LastVoiced(db, h) => ~Loud(db[k], h \o db)
  <1> DEFINE T == {0} \cup {k \in DOMAIN db : Loud(db[k], h \o db)}
  <1>1. Len(db) \in Nat /\ DOMAIN db = 1 .. Len(db)
    OBVIOUS
  <1>2. T \subseteq 0 .. Len(db) /\ T # {}
    BY <1>1
  <1>3. \A k \in 1 .. Len(db) : k \in T <=> Loud(db[k], h \o db)
    BY <1>1
  <1>4. LastVoiced(db, h) = Max(T)
    BY DEF LastVoiced
  <1> HIDE DEF T
  <1>5. Max(T) \in T /\ \A m \in T : m <= Max(T)
    BY <1>1, <1>2, ExtremeFacts
  <1>6. Max(T) \in 0 .. Len(db) /\ \A k \in 1 .. Len(db) : k > Max(T) => k \notin T
    <2> DEFINE top == Max(T)
    <2>1. top \in T /\ \A m \in T : m <= top
      BY <1>5
    <2> HIDE DEF top
    <2>2. top \in 0 .. Len(db)
      BY <1>2, <2>1
    <2>3. \A k \in 1 .. Len(db) : k > top => k \notin T
      <3> TAKE k \in 1 .. Len(db)
      <3> HAVE k > top
      <3>1. ~(k <= top)
        BY <1>1, <2>2
      <3> QED  BY <2>1, <3>1
    <2> QED  BY <2>2, <2>3 DEF top
  <1> QED  BY <1>3, <1>4, <1>6

(* The cut at an endpoint.                                                 *)
LEMMA EndpointFair ==
  ASSUME NEW seg \in Seq(BOOLEAN), NEW h, AtEndpoint(seg, h)
  PROVE  Fair(seg, EndpointCut(seg, h))
  <1> DEFINE db == Frames(seg)
             i == LastVoiced(db, h)
  <1>1. /\ Len(seg) >= MinSeg + Endpoint /\ PauseLongEnough(Len(db) - i) /\ i >= MinSeg
        /\ EndpointCut(seg, h) = [end |-> i, keep |-> Len(seg)]
    BY DEF AtEndpoint, EndpointCut, Cut
  <1>2. MinSeg \in Nat /\ MinSeg >= 1 /\ Endpoint \in Nat /\ Endpoint >= 1 /\ Len(seg) \in Nat
        /\ FrameHops \in Nat /\ FrameHops >= 1
    BY VadAssumption
  <1>3. /\ db \in Seq(BOOLEAN) /\ Len(db) \in Nat
        /\ Len(db) = IF Len(seg) - FrameHops + 1 >= 1 THEN Len(seg) - FrameHops + 1 ELSE 1
    BY FrameFacts
  <1>4. i \in 0 .. Len(db) /\ \A k \in 1 .. Len(db) : k > i => ~Loud(db[k], h \o db)
    BY <1>3, LastVoicedFacts
  <1>5. \A t \in 1 .. Len(seg) : seg[t] =>
           \E k \in 1 .. Len(db) : (k = t \/ (k = Len(db) /\ k < t)) /\ Loud(db[k], h \o db)
    BY SpeechIsLoud
  <1> HIDE DEF i, db
  <1>6. i < Len(db)
    BY <1>1, <1>2, <1>3, <1>4 DEF PauseLongEnough
  <1>7. i \in 1 .. Len(seg) /\ i \in Nat
    BY <1>1, <1>2, <1>3, <1>4, <1>6
  <1>8. \A t \in i + 1 .. Len(seg) : ~seg[t]
    <2> SUFFICES ASSUME NEW t \in i + 1 .. Len(seg), seg[t] PROVE FALSE
      OBVIOUS
    <2>1. t \in 1 .. Len(seg)
      BY <1>2, <1>7
    <2>2. PICK k \in 1 .. Len(db) : (k = t \/ (k = Len(db) /\ k < t)) /\ Loud(db[k], h \o db)
      BY <1>5, <2>1
    <2>3. k > i
      BY <1>3, <1>6, <1>7, <2>2
    <2> QED  BY <1>4, <2>2, <2>3
  <1>9. Len(seg) \in i .. Len(seg)
    BY <1>2, <1>7
  <1> QED  BY <1>1, <1>7, <1>8, <1>9 DEF Fair

(* A forced cut, at a pause or hard.                                       *)
LEMMA ForcedFair ==
  ASSUME NEW seg \in Seq(BOOLEAN), NEW h, Len(seg) >= 1
  PROVE  Fair(seg, ForcedCut(seg, h))
  <1> DEFINE db == Frames(seg)
             splits == {run \in Pauses(db) : run[1] - 1 >= MinSeg}
             last == CHOOSE run \in splits : \A other \in splits : other[1] <= run[1]
  <1>1. /\ MinSeg \in Nat /\ MinSeg >= 1 /\ MinPause \in Nat /\ MinPause >= 1 /\ Len(seg) \in Nat
        /\ FrameHops \in Nat /\ FrameHops >= 1
    BY VadAssumption
  <1>2. /\ db \in Seq(BOOLEAN) /\ Len(db) \in Nat
        /\ Len(db) = IF Len(seg) - FrameHops + 1 >= 1 THEN Len(seg) - FrameHops + 1 ELSE 1
    BY FrameFacts
  <1>3. CASE HasThreshold(h, db) /\ splits # {}
    <2>1. ForcedCut(seg, h) =
             [end |-> last[1] - 1, keep |-> Min({AfterPause(last), Len(seg)})]
      BY <1>3 DEF ForcedCut, Cut
    <2>2. \A run \in splits :
            /\ run[1] \in 1 .. Len(db) /\ run[2] \in 1 .. Len(db)
            /\ run[2] - run[1] + 1 >= MinPause /\ run[1] - 1 >= MinSeg
            /\ \A k \in run[1] .. run[2] : ~Loud(db[k], db)
      BY DEF Pauses
    <2> HIDE DEF splits
    <2>3. last \in splits
      <3> DEFINE T == {run[1] : run \in splits}
      <3>1. T \subseteq 0 .. Len(db) /\ T # {}
        BY <1>2, <1>3, <2>2
      <3> HIDE DEF T
      <3>2. Max(T) \in T /\ \A m \in T : m <= Max(T)
        BY <1>2, <3>1, ExtremeFacts
      <3>3. \E run \in splits : \A other \in splits : other[1] <= run[1]
        BY <3>2 DEF T
      <3> QED  BY <3>3
    <2> DEFINE i == last[1]
               j == last[2]
               keep == Min({j, Len(seg)})
    <2>4. /\ i \in 1 .. Len(db) /\ j \in 1 .. Len(db) /\ j - i + 1 >= MinPause /\ i - 1 >= MinSeg
          /\ \A k \in i .. j : ~Loud(db[k], db)
      BY <2>2, <2>3
    <2>5. ForcedCut(seg, h) = [end |-> i - 1, keep |-> keep]
      BY <2>1 DEF AfterPause
    <2> HIDE DEF i, j, last, db
    <2>6. keep = IF j <= Len(seg) THEN j ELSE Len(seg)
      <3>1. j \in Int /\ Len(seg) \in Int
        BY <1>1, <2>4
      <3> QED  BY <3>1, PairFacts
    <2> HIDE DEF keep
    <2>7. i \in Nat /\ j \in Nat /\ i <= j /\ i >= 2 /\ i <= Len(seg)
      BY <1>1, <1>2, <2>4
    <2>8. i - 1 \in 1 .. Len(seg) /\ keep \in i - 1 .. Len(seg)
      BY <1>1, <2>6, <2>7
    <2>9. \A t \in (i - 1) + 1 .. keep : ~seg[t]
      <3> TAKE t \in (i - 1) + 1 .. keep
      <3>1. t \in i .. j /\ t \in 1 .. Len(seg) /\ t \in 1 .. Len(db)
        BY <1>1, <1>2, <2>4, <2>6, <2>7
      <3>2. ~Loud(db[t], db)
        BY <2>4, <3>1
      <3>3. ~db[t]
        BY <3>2 DEF Loud
      <3>4. \A k \in 1 .. Len(db), u \in 1 .. Len(seg) :
               seg[u] /\ k <= u /\ u <= k + FrameHops - 1 => db[k]
        BY FrameFacts DEF db
      <3>5. t <= t /\ t <= t + FrameHops - 1
        BY <1>1, <3>1
      <3> QED  BY <3>1, <3>3, <3>4, <3>5
    <2> QED  BY <2>5, <2>8, <2>9 DEF Fair
  <1>4. CASE ~(HasThreshold(h, db) /\ splits # {})
    <2>1. ForcedCut(seg, h) = [end |-> Len(seg), keep |-> Len(seg)]
      BY <1>4 DEF ForcedCut, Cut
    <2> QED  BY <1>1, <2>1 DEF Fair
  <1> QED  BY <1>3, <1>4

(* The history keeps its latest frames.                                    *)
LEMMA TrimFacts ==
  ASSUME NEW h \in Seq(BOOLEAN), NEW db \in Seq(BOOLEAN)
  PROVE  Trim(h \o db) \in Seq(BOOLEAN)
  <1> DEFINE r == h \o db
             m == Max({1, Len(r) - Keep + 1})
  <1>1. r \in Seq(BOOLEAN) /\ Len(r) \in Nat
    BY ConcatProperties
  <1> HIDE DEF r
  <1>2. Keep \in Nat /\ 1 \in Int /\ Len(r) - Keep + 1 \in Int
    BY <1>1, VadAssumption
  <1>3. m = IF 1 >= Len(r) - Keep + 1 THEN 1 ELSE Len(r) - Keep + 1
    BY <1>2, PairFacts
  <1> HIDE DEF m
  <1>4. m \in Nat /\ m >= 1
    BY <1>1, <1>2, <1>3
  <1>5. SubSeq(r, m, Len(r)) \in Seq(BOOLEAN)
    BY <1>1, <1>4, PieceFacts
  <1> QED  BY <1>5 DEF Trim, m, r

(* Dropping the leading silence.                                           *)
LEMMA DropFacts ==
  ASSUME NEW a \in Seq(BOOLEAN), NEW b \in 0 .. Len(a), NEW h \in Seq(BOOLEAN), NEW s \in Int
  PROVE  LET v == [audio |-> a, base |-> b, hist |-> h, since |-> s]
             w == DropLeadingSilence(v)
         IN  /\ w.audio = a /\ w.base \in b .. Len(a) /\ w.hist \in Seq(BOOLEAN) /\ w.since \in Int
             /\ \A t \in b + 1 .. w.base : ~a[t]
  <1> DEFINE v == [audio |-> a, base |-> b, hist |-> h, since |-> s]
             seg == Open(a, b)
             db == Frames(seg)
             ref == h \o db
             voiced == {k \in DOMAIN db : Loud(db[k], ref)}
  <1>1. /\ seg \in Seq(BOOLEAN) /\ Len(seg) = Len(a) - b /\ Len(a) \in Nat /\ b \in Nat
        /\ \A i \in 1 .. Len(a) - b : seg[i] = a[b + i]
    <2>1. Len(a) \in Nat /\ b \in Nat
      OBVIOUS
    <2>2. /\ Open(a, b) \in Seq(BOOLEAN) /\ Len(Open(a, b)) = Len(a) - b
          /\ \A i \in 1 .. Len(a) - b : Open(a, b)[i] = a[b + i]
      BY Zenon, OpenFacts
    <2> QED  BY <2>1, <2>2
  <1> HIDE DEF seg
  <1>2. db \in Seq(BOOLEAN) /\ Len(db) \in Nat
    BY <1>1, FrameFacts
  <1>3. \A t \in 1 .. Len(seg) : seg[t] =>
           \E k \in 1 .. Len(db) : (k = t \/ (k = Len(db) /\ k < t)) /\ Loud(db[k], ref)
    BY <1>1, SpeechIsLoud
  <1>4. DropLeadingSilence(v) =
           IF Len(a) - b < Lead \/ ~HasThreshold(h, db) THEN v
           ELSE IF voiced = {} THEN [v EXCEPT !.hist = Trim(h \o db), !.base = Len(a), !.since = 0]
           ELSE [v EXCEPT !.base = b + FirstVoiced(voiced) - 1]
    BY DEF DropLeadingSilence, seg
  <1>5. \A t \in b + 1 .. Len(a) : t - b \in 1 .. Len(seg) /\ seg[t - b] = a[t]
    BY <1>1
  <1>6. DOMAIN db = 1 .. Len(db)
    BY <1>2
  <1>7. CASE Len(a) - b < Lead \/ ~HasThreshold(h, db)
    <2>1. DropLeadingSilence(v) = v
      BY <1>4, <1>7
    <2>2. b \in b .. Len(a) /\ \A t \in b + 1 .. b : ~a[t]
      BY <1>1
    <2> QED  BY <2>1, <2>2
  <1>8. CASE ~(Len(a) - b < Lead \/ ~HasThreshold(h, db)) /\ voiced = {}
    <2>1. DropLeadingSilence(v) = [v EXCEPT !.hist = Trim(h \o db), !.base = Len(a), !.since = 0]
      BY <1>4, <1>8
    <2>2. Trim(h \o db) \in Seq(BOOLEAN)
      BY <1>2, TrimFacts
    <2>3. \A t \in b + 1 .. Len(a) : ~a[t]
      <3> SUFFICES ASSUME NEW t \in b + 1 .. Len(a), a[t] PROVE FALSE
        OBVIOUS
      <3>1. PICK k \in 1 .. Len(db) : Loud(db[k], ref)
        BY <1>3, <1>5
      <3> QED  BY <1>6, <1>8, <3>1
    <2>4. Len(a) \in b .. Len(a)
      BY <1>1
    <2> HIDE DEF db
    <2>5. DropLeadingSilence(v) =
             [audio |-> a, base |-> Len(a), hist |-> Trim(h \o db), since |-> 0]
      BY <2>1
    <2> QED  BY <2>2, <2>3, <2>4, <2>5
  <1>9. CASE ~(Len(a) - b < Lead \/ ~HasThreshold(h, db)) /\ voiced # {}
    <2>1. DropLeadingSilence(v) = [v EXCEPT !.base = b + Min(voiced) - 1]
      BY <1>4, <1>9 DEF FirstVoiced
    <2>2. voiced \subseteq 0 .. Len(db)
      BY <1>2
    <2> DEFINE m == Min(voiced)
    <2>3. m \in voiced /\ \A k \in voiced : m <= k
      <3> HIDE DEF voiced
      <3> QED  BY <1>2, <1>9, <2>2, ExtremeFacts
    <2>4. m \in 1 .. Len(db)
      BY <1>6, <2>3
    <2>5. Len(db) <= Len(seg) \/ Len(db) = 1
      <3>1. Len(db) = IF Len(seg) - FrameHops + 1 >= 1 THEN Len(seg) - FrameHops + 1 ELSE 1
        BY <1>1, FrameFacts
      <3>2. Len(seg) \in Nat /\ FrameHops \in Nat /\ FrameHops >= 1
        BY <1>1, VadAssumption
      <3> HIDE DEF db
      <3> QED  BY <3>1, <3>2
    <2> HIDE DEF m
    <2>6. m - 1 \in 0 .. Len(a) - b
      <3> HIDE DEF db
      <3>1. m \in Nat /\ m >= 1 /\ m <= Len(db) /\ Len(seg) = Len(a) - b /\ Len(seg) \in Nat
        BY <1>1, <1>2, <2>4
      <3>2. CASE Len(db) <= Len(seg)
        <4>1. m <= Len(seg)
          BY <1>2, <3>1, <3>2
        <4> QED  BY <1>1, <3>1, <4>1
      <3>3. CASE Len(db) = 1
        BY <1>1, <3>1, <3>3
      <3> QED  BY <2>5, <3>2, <3>3
    <2>7. b + m - 1 \in b .. Len(a)
      BY <1>1, <2>6
    <2>8. \A t \in b + 1 .. b + m - 1 : ~a[t]
      <3> SUFFICES ASSUME NEW t \in b + 1 .. b + m - 1, a[t] PROVE FALSE
        OBVIOUS
      <3>1. t \in b + 1 .. Len(a) /\ t - b < m
        <4>1. m \in Nat
          BY <1>2, <2>4
        <4> HIDE DEF db
        <4> QED  BY <1>1, <2>7, <4>1
      <3>2. seg[t - b] /\ t - b \in 1 .. Len(seg)
        BY <1>5, <3>1
      <3>3. PICK k \in 1 .. Len(db) : (k = t - b \/ (k = Len(db) /\ k < t - b)) /\ Loud(db[k], ref)
        BY <1>3, <3>2, SMTT(40)
      <3>4. k \in voiced
        BY <1>6, <3>3
      <3>5. m <= k /\ k <= t - b
        BY <2>3, <3>3, <3>4
      <3> QED  BY <1>1, <2>4, <3>1, <3>5
    <2>9. DropLeadingSilence(v) = [v EXCEPT !.base = b + m - 1]
      BY <2>1 DEF m
    <2> QED  BY <2>7, <2>8, <2>9
  <1> QED  BY <1>7, <1>8, <1>9

(* Spans one behind the other, with what follows beginning at b.           *)
Ordered(ss, b) ==
    \A k \in DOMAIN ss :
        /\ ss[k][1] < ss[k][2]
        /\ ss[k][2] <= IF k = Len(ss) THEN b ELSE ss[k + 1][1]

(* All speech of a up to b is in a span that was transcribed, and the      *)
(* client has been sent what was committed.                                *)
Settled(a, b) ==
    /\ Ordered(spans, b)
    /\ \A t \in 1 .. b : a[t] => \E k \in DOMAIN spans : Within(t, spans[k])
    /\ sent = committed

(* One span more.                                                          *)
LEMMA SpanAdded ==
  ASSUME NEW ss \in Seq(Nat \X Nat), NEW b \in Nat, NEW hi \in Nat, NEW c \in Nat,
         b < hi, hi <= c, Ordered(ss, b)
  PROVE  LET longer == Append(ss, <<b, hi>>) IN
         /\ longer \in Seq(Nat \X Nat) /\ Ordered(longer, c)
         /\ \A k \in DOMAIN ss : k \in DOMAIN longer /\ longer[k] = ss[k]
         /\ \A t \in b + 1 .. hi : \E k \in DOMAIN longer : Within(t, longer[k])
  <1> DEFINE longer == Append(ss, <<b, hi>>)
             n == Len(ss)
  <1>1. /\ longer \in Seq(Nat \X Nat) /\ Len(longer) = n + 1 /\ n \in Nat
        /\ DOMAIN longer = 1 .. n + 1 /\ DOMAIN ss = 1 .. n
        /\ longer[n + 1] = <<b, hi>> /\ \A k \in 1 .. n : longer[k] = ss[k]
    BY <<b, hi>> \in Nat \X Nat, AppendProperties
  <1>0. n = Len(ss)
    OBVIOUS
  <1> HIDE DEF longer, n
  <1>2. ASSUME NEW k \in 1 .. n + 1
        PROVE  /\ longer[k][1] < longer[k][2]
               /\ longer[k][2] <= IF k = n + 1 THEN c ELSE longer[k + 1][1]
    <2>1. CASE k = n + 1
      <3>1. longer[k] = <<b, hi>>
        BY <1>1, <2>1
      <3> QED  BY <2>1, <3>1
    <2>2. CASE k \in 1 .. n
      <3>0. longer[k] = ss[k]
        BY <1>1, <2>2
      <3>1. longer[k] = ss[k] /\ k # n + 1 /\ k + 1 \in 1 .. n + 1
        <4>1. n \in Nat
          BY <1>1
        <4> QED  BY <2>2, <3>0, <4>1
      <3>2. ss[k][1] < ss[k][2] /\ ss[k][2] <= IF k = n THEN b ELSE ss[k + 1][1]
        BY <1>0, <1>1, <2>2 DEF Ordered
      <3>3. CASE k = n
        <4>1. longer[k + 1][1] = b
          BY <1>1, <3>3
        <4> QED  BY <3>1, <3>2, <3>3, <4>1
      <3>4. CASE k # n
        <4>1. k + 1 \in 1 .. n
          <5>1. n \in Nat
            BY <1>1
          <5> QED  BY <2>2, <3>4, <5>1
        <4>2. longer[k + 1] = ss[k + 1]
          BY <1>1, <4>1
        <4> QED  BY <3>1, <3>2, <3>4, <4>2
      <3> QED  BY <3>3, <3>4
    <2> QED  BY <1>1, <2>1, <2>2
  <1>3. Ordered(longer, c)
    BY <1>1, <1>2 DEF Ordered
  <1>4. ASSUME NEW t \in b + 1 .. hi PROVE Within(t, longer[n + 1])
    <2>1. longer[n + 1][1] = b /\ longer[n + 1][2] = hi
      BY <1>1
    <2> QED  BY <2>1 DEF Within
  <1>5. n + 1 \in DOMAIN longer /\ \A k \in DOMAIN ss : k \in DOMAIN longer
    BY <1>1
  <1> QED  BY <1>1, <1>3, <1>4, <1>5 DEF longer

(* The spans stay in order where the open span begins later.               *)
LEMMA SpansStay ==
  ASSUME NEW ss \in Seq(Nat \X Nat), NEW b \in Nat, NEW c \in Nat, b <= c, Ordered(ss, b)
  PROVE  Ordered(ss, c)
  <1> SUFFICES ASSUME NEW k \in DOMAIN ss
               PROVE  /\ ss[k][1] < ss[k][2]
                      /\ ss[k][2] <= IF k = Len(ss) THEN c ELSE ss[k + 1][1]
    BY DEF Ordered
  <1>1. ss[k][1] < ss[k][2] /\ ss[k][2] <= IF k = Len(ss) THEN b ELSE ss[k + 1][1]
    BY DEF Ordered
  <1>2. ss[k] \in Nat \X Nat
    OBVIOUS
  <1>3. ss[k][2] \in Nat
    BY <1>2
  <1> QED  BY <1>1, <1>3

(* Closing the open span at a fair cut, whatever comes of transcribing it. *)
LEMMA CloseKeeps ==
  ASSUME NEW v, NEW a \in Seq(BOOLEAN), NEW b \in 0 .. Len(a), v.audio = a, v.base = b,
         NEW cut, Fair(Open(a, b), cut), NEW next \in {"open", "ended", "gone"},
         session = "open", ListenType, Settled(a, b), Close(v, cut, next),
         audio' = a, hist' \in Seq(BOOLEAN)
  PROVE  ListenInv'
  <1> DEFINE hi == b + cut.end
             c == b + cut.keep
             span == <<b, hi>>
             n == Len(a)
  <1>1. n \in Nat /\ b \in Nat /\ b <= n /\ n = Len(a)
    OBVIOUS
  <1>2. /\ Len(Open(a, b)) = n - b
        /\ \A i \in 1 .. n - b : Open(a, b)[i] = a[b + i]
    BY OpenFacts
  <1> HIDE DEF n
  <1>3. /\ cut.end \in 1 .. n - b /\ cut.keep \in cut.end .. n - b
        /\ \A t \in cut.end + 1 .. cut.keep : ~Open(a, b)[t]
    BY <1>2 DEF Fair
  <1>4. /\ hi \in Nat /\ c \in Nat /\ b < hi /\ hi <= c /\ c <= n
    BY <1>1, <1>3
  <1>5. \A t \in hi + 1 .. c : ~a[t]
    <2> TAKE t \in hi + 1 .. c
    <2>1. t - b \in cut.end + 1 .. cut.keep /\ t - b \in 1 .. n - b /\ b + (t - b) = t
      BY <1>1, <1>3
    <2> QED  BY <1>2, <1>3, <2>1
  <1>6. base' = c /\ since' = n - c
    BY <1>1 DEF Close
  <1>7. /\ spans \in Seq(Nat \X Nat) /\ committed \in Seq(Nat \X Nat) /\ sent \in Seq(Nat \X Nat)
        /\ heard \in Nat \X Nat /\ span \in Nat \X Nat
    BY <1>1, <1>4 DEF ListenType
  <1>8. /\ Ordered(spans, b) /\ sent = committed
        /\ \A t \in 1 .. b : a[t] => \E k \in DOMAIN spans : Within(t, spans[k])
    BY DEF Settled
  <1>9. \/ /\ session' = next /\ ~Speech(SubSeq(a, b + 1, hi))
           /\ spans' = spans /\ committed' = committed /\ sent' = sent /\ heard' = heard
        \/ TranscribeSpan(span, next)
        \/ TranscribeRaises(span)
    BY DEF Close
  <1> HIDE DEF hi, c
  <1>10. audio' \in Seq(BOOLEAN) /\ base' \in 0 .. Len(audio') /\ since' \in Int
         /\ DOMAIN audio' = 1 .. n /\ Len(audio') = n
    BY <1>1, <1>4, <1>6
  <1>11. \A t \in 1 .. n : t <= b \/ t \in b + 1 .. hi \/ t \in hi + 1 .. c \/ t > c
    BY <1>1, <1>4
  <1>12. CASE /\ session' = next /\ ~Speech(SubSeq(a, b + 1, hi))
              /\ spans' = spans /\ committed' = committed /\ sent' = sent /\ heard' = heard
    <2>1. \A t \in b + 1 .. hi : ~a[t]
      <3>1. b + 1 \in Nat /\ b + 1 >= 1 /\ hi <= Len(a)
        BY <1>1, <1>4
      <3>2. \A t \in b + 1 .. hi : a[t] => Speech(SubSeq(a, b + 1, hi))
        BY <1>4, <3>1, PieceFacts
      <3> QED  BY <1>12, <3>2
    <2>2. Ordered(spans, c)
      BY <1>1, <1>4, <1>7, <1>8, SpansStay
    <2>3. ListenType'
      BY <1>7, <1>10, <1>12 DEF ListenType
    <2>4. \A t \in 1 .. n : a[t] => t > c \/ \E k \in DOMAIN spans : Within(t, spans[k])
      BY <1>1, <1>5, <1>8, <1>11, <2>1
    <2>5. SpeechHeardOnce'
      BY <1>6, <1>8, <1>10, <1>12, <2>2, <2>4 DEF SpeechHeardOnce, Ordered
    <2> QED  BY <2>3, <2>5 DEF ListenInv
  <1>13. CASE TranscribeSpan(span, next)
    <2> DEFINE longer == Append(spans, span)
    <2>1. /\ longer \in Seq(Nat \X Nat) /\ Ordered(longer, c)
          /\ \A k \in DOMAIN spans : k \in DOMAIN longer /\ longer[k] = spans[k]
          /\ \A t \in b + 1 .. hi : \E k \in DOMAIN longer : Within(t, longer[k])
      <3>1. spans \in Seq(Nat \X Nat) /\ b \in Nat /\ hi \in Nat /\ c \in Nat
        BY <1>1, <1>4, <1>7
      <3>2. b < hi /\ hi <= c /\ Ordered(spans, b)
        BY <1>4, <1>8
      <3> QED  BY Zenon, <3>1, <3>2, SpanAdded
    <2>2. heard' = span /\ spans' = longer /\ session' = next
      BY <1>13 DEF TranscribeSpan
    <2> HIDE DEF longer
    <2>3. PICK text \in {<<>>, <<span>>} :
             committed' = committed \o text /\ sent' = IF next # "gone" THEN sent \o text ELSE sent
      BY <1>13 DEF TranscribeSpan
    <2> HIDE DEF span
    <2>4. text \in Seq(Nat \X Nat)
      <3>1. CASE text = <<>>
        BY <3>1
      <3>2. CASE text = <<span>>
        BY <1>7, <3>2
      <3> QED  BY <2>3, <3>1, <3>2
    <2>5. committed' \in Seq(Nat \X Nat) /\ sent' \in Seq(Nat \X Nat)
      <3>1. committed \o text \in Seq(Nat \X Nat) /\ sent \o text \in Seq(Nat \X Nat)
        BY <1>7, <2>4, ConcatProperties
      <3> QED  BY <1>7, <2>3, <3>1
    <2>6. next # "gone" => sent' = committed'
      <3> HAVE next # "gone"
      <3>1. sent' = sent \o text /\ committed' = committed \o text
        BY <2>3
      <3> QED  BY <1>8, <3>1
    <2>7. ListenType'
      BY <1>7, <1>10, <2>1, <2>2, <2>5 DEF ListenType
    <2>8. \A t \in 1 .. n : a[t] => t > c \/ \E k \in DOMAIN longer : Within(t, longer[k])
      <3> TAKE t \in 1 .. n
      <3> HAVE a[t]
      <3>1. CASE t <= b
        <4>1. \E k \in DOMAIN spans : Within(t, spans[k])
          BY <1>1, <1>8, <3>1
        <4>2. PICK k \in DOMAIN spans : Within(t, spans[k])
          BY <4>1
        <4> QED  BY <2>1, <4>2
      <3> QED  BY <1>5, <1>11, <2>1, <3>1
    <2>9. SpeechHeardOnce'
      BY <1>6, <1>10, <2>1, <2>2, <2>6, <2>8 DEF SpeechHeardOnce, Ordered
    <2> QED  BY <2>7, <2>9 DEF ListenInv
  <1>14. CASE TranscribeRaises(span)
    <2>1. /\ heard' = span /\ session' = "failed"
          /\ spans' = spans /\ committed' = committed /\ sent' = sent
      BY <1>14 DEF TranscribeRaises
    <2>2. Ordered(spans, c)
      BY <1>1, <1>4, <1>7, <1>8, SpansStay
    <2>3. \A t \in b + 1 .. hi : Within(t, span)
      BY DEF Within
    <2> HIDE DEF span
    <2>4. ListenType'
      BY <1>7, <1>10, <2>1 DEF ListenType
    <2>5. \A t \in 1 .. n : a[t] =>
             t > c \/ Within(t, span) \/ \E k \in DOMAIN spans : Within(t, spans[k])
      BY <1>1, <1>5, <1>8, <1>11, <2>3
    <2>6. SpeechHeardOnce'
      BY <1>6, <1>8, <1>10, <2>1, <2>2, <2>5 DEF SpeechHeardOnce, Ordered
    <2> QED  BY <2>4, <2>6 DEF ListenInv
  <1> QED  BY <1>9, <1>12, <1>13, <1>14

(* While a session is open, nothing is lost before the open span.          *)
LEMMA OpenSettled ==
  ASSUME ListenInv, session = "open"
  PROVE  Settled(audio, base)
  <1>1. /\ audio \in Seq(BOOLEAN) /\ base \in 0 .. Len(audio) /\ DOMAIN audio = 1 .. Len(audio)
        /\ Len(audio) \in Nat
    BY DEF ListenInv, ListenType
  <1>2. \A t \in 1 .. base : audio[t] => \E k \in DOMAIN spans : Within(t, spans[k])
    BY <1>1 DEF ListenInv, SpeechHeardOnce
  <1> QED  BY <1>2 DEF ListenInv, SpeechHeardOnce, Settled, Ordered

(* A packet arrives and leading silence is dropped: still nothing is lost. *)
LEMMA ArrivalSettled ==
  ASSUME ListenInv, session = "open", NEW packet \in Seq(BOOLEAN),
         NEW c \in base .. Len(audio \o packet),
         \A t \in base + 1 .. c : ~(audio \o packet)[t]
  PROVE  Settled(audio \o packet, c)
  <1> DEFINE a == audio \o packet
  <1>1. /\ audio \in Seq(BOOLEAN) /\ base \in 0 .. Len(audio) /\ Len(audio) \in Nat
        /\ spans \in Seq(Nat \X Nat)
    BY DEF ListenInv, ListenType
  <1>2. /\ a \in Seq(BOOLEAN) /\ Len(a) = Len(audio) + Len(packet) /\ Len(packet) \in Nat
        /\ \A t \in 1 .. Len(audio) : a[t] = audio[t]
    BY <1>1, ConcatProperties
  <1>3. Settled(audio, base)
    BY OpenSettled
  <1> HIDE DEF a
  <1>4. c \in Nat /\ base \in Nat /\ base <= c /\ Len(a) \in Nat
    BY <1>1, <1>2 DEF a
  <1>5. Ordered(spans, c)
    BY <1>1, <1>3, <1>4, SpansStay DEF Settled
  <1>6. ASSUME NEW t \in 1 .. c, a[t] PROVE \E k \in DOMAIN spans : Within(t, spans[k])
    <2>1. CASE t <= base
      <3>1. t \in 1 .. base /\ t \in 1 .. Len(audio)
        BY <1>1, <1>4, <2>1
      <3> QED  BY <1>2, <1>3, <1>6, <3>1 DEF Settled
    <2>2. CASE t > base
      <3>1. t \in base + 1 .. c
        BY <1>4, <2>2
      <3> QED  BY <1>6, <3>1 DEF a
    <2> QED  BY <1>4, <2>1, <2>2
  <1> QED  BY <1>3, <1>5, <1>6 DEF Settled, a

(* The session goes on with the open span from c, or ends in an error.     *)
LEMMA OpenKeeps ==
  ASSUME NEW a \in Seq(BOOLEAN), NEW c \in 0 .. Len(a), ListenType, Settled(a, c),
         audio' = a, base' = c, hist' \in Seq(BOOLEAN), since' \in Int,
         heard' \in Nat \X Nat, session' \in {"open", "failed"},
         spans' = spans, committed' = committed, sent' = sent
  PROVE  ListenInv'
  <1>1. ListenType'
    BY DEF ListenType
  <1>2. \A t \in DOMAIN a : a[t] => t > c \/ \E k \in DOMAIN spans : Within(t, spans[k])
    BY DEF Settled
  <1>3. SpeechHeardOnce'
    BY <1>2 DEF Settled, Ordered, SpeechHeardOnce
  <1> QED  BY <1>1, <1>3 DEF ListenInv

(* A packet is pushed.                                                     *)
LEMMA PushKeeps ==
  ASSUME ListenInv, NEW packet \in Seq(BOOLEAN), Push(packet)
  PROVE  ListenInv'
  <1> DEFINE a == audio \o packet
             v == DropLeadingSilence([audio |-> a, base |-> base, hist |-> hist,
                                      since |-> since + Len(packet)])
             seg == Open(v.audio, v.base)
             learnt == Trim(v.hist \o Frames(seg))
  <1>1. /\ ListenType /\ session = "open"
        /\ audio \in Seq(BOOLEAN) /\ base \in 0 .. Len(audio) /\ hist \in Seq(BOOLEAN)
        /\ since \in Int /\ heard \in Nat \X Nat
    BY DEF ListenInv, ListenType, Push
  <1>2. /\ a \in Seq(BOOLEAN) /\ Len(a) = Len(audio) + Len(packet) /\ Len(packet) \in Nat
        /\ Len(audio) \in Nat
    BY <1>1, ConcatProperties
  <1>3. /\ audio' = v.audio
        /\ IF OverLong(Len(seg))
             THEN hist' = learnt /\ Close(v, ForcedCut(seg, v.hist), "open")
           ELSE IF AtEndpoint(seg, v.hist)
             THEN hist' = learnt /\ Close(v, EndpointCut(seg, v.hist), "open")
           ELSE IF PartialDue(v)
             THEN hist' = v.hist /\ Provisional(v)
           ELSE /\ hist' = v.hist /\ base' = v.base /\ since' = v.since
                /\ UNCHANGED <<spans, committed, sent, heard, session>>
    BY Zenon DEF Push
  <1>4. /\ v.audio = a /\ v.base \in base .. Len(a) /\ v.hist \in Seq(BOOLEAN) /\ v.since \in Int
        /\ \A t \in base + 1 .. v.base : ~a[t]
    <2> HIDE DEF a
    <2>1. base \in 0 .. Len(a) /\ since + Len(packet) \in Int
      BY <1>1, <1>2
    <2> QED  BY <1>1, <1>2, <2>1, DropFacts
  <1>5. Settled(a, v.base)
    <2> HIDE DEF v
    <2> QED  BY <1>1, <1>4, ArrivalSettled
  <1>6. seg = Open(a, v.base)
    BY <1>4
  <1> HIDE DEF v, a
  <1>7. v.base \in 0 .. Len(a) /\ v.base \in Nat /\ Len(a) \in Nat
    BY <1>1, <1>2, <1>4
  <1>8. seg \in Seq(BOOLEAN) /\ Len(seg) = Len(a) - v.base
    BY <1>2, <1>6, <1>7, OpenFacts
  <1>9. learnt \in Seq(BOOLEAN)
    <2>1. Frames(seg) \in Seq(BOOLEAN)
      BY <1>8, FrameFacts
    <2> QED  BY <1>4, <2>1, TrimFacts
  <1> HIDE DEF seg, learnt
  <1>10. CASE OverLong(Len(seg))
    <2>1. Len(seg) >= 1
      BY <1>2, <1>7, <1>8, <1>10, VadAssumption DEF OverLong
    <2>2. Fair(Open(a, v.base), ForcedCut(seg, v.hist))
      BY <1>6, <1>8, <2>1, ForcedFair
    <2>3. audio' = a /\ hist' = learnt /\ Close(v, ForcedCut(seg, v.hist), "open")
      BY <1>3, <1>4, <1>10
    <2> QED  BY <1>1, <1>2, <1>4, <1>5, <1>7, <1>9, <2>2, <2>3, CloseKeeps
  <1>11. CASE ~OverLong(Len(seg)) /\ AtEndpoint(seg, v.hist)
    <2>1. Fair(Open(a, v.base), EndpointCut(seg, v.hist))
      BY <1>6, <1>8, <1>11, EndpointFair
    <2>2. audio' = a /\ hist' = learnt /\ Close(v, EndpointCut(seg, v.hist), "open")
      BY <1>3, <1>4, <1>11
    <2> QED  BY <1>1, <1>2, <1>4, <1>5, <1>7, <1>9, <2>1, <2>2, CloseKeeps
  <1>12. CASE ~OverLong(Len(seg)) /\ ~AtEndpoint(seg, v.hist) /\ PartialDue(v)
    <2> DEFINE span == <<v.base, Len(a)>>
    <2>1. /\ audio' = a /\ hist' = v.hist /\ base' = v.base /\ since' = 0
          /\ \/ heard' = span /\ UNCHANGED <<spans, committed, sent, session>>
             \/ TranscribeRaises(span)
      BY <1>3, <1>4, <1>12 DEF Provisional
    <2>2. span \in Nat \X Nat
      BY <1>7
    <2> HIDE DEF span
    <2>3. /\ heard' = span /\ session' \in {"open", "failed"}
          /\ spans' = spans /\ committed' = committed /\ sent' = sent
      BY <1>1, <2>1 DEF TranscribeRaises
    <2> QED  BY <1>1, <1>2, <1>4, <1>5, <1>7, <2>1, <2>2, <2>3, OpenKeeps
  <1>13. CASE ~OverLong(Len(seg)) /\ ~AtEndpoint(seg, v.hist) /\ ~PartialDue(v)
    <2>1. /\ audio' = a /\ hist' = v.hist /\ base' = v.base /\ since' = v.since
          /\ spans' = spans /\ committed' = committed /\ sent' = sent /\ heard' = heard
          /\ session' = session
      BY <1>3, <1>4, <1>13
    <2> QED  BY <1>1, <1>2, <1>4, <1>5, <1>7, <2>1, OpenKeeps
  <1> QED  BY <1>10, <1>11, <1>12, <1>13

(* The session ends: the open span is closed, unless it is a sliver.       *)
LEMMA FinalizeKeeps ==
  ASSUME ListenInv, NEW next \in {"ended", "gone"}, Finalize(next)
  PROVE  ListenInv'
  <1> DEFINE n == Len(audio)
             v == [audio |-> audio, base |-> base]
             cut == Cut(n - base, n - base)
  <1>1. /\ ListenType /\ session = "open" /\ Settled(audio, base)
        /\ audio \in Seq(BOOLEAN) /\ base \in 0 .. Len(audio) /\ hist \in Seq(BOOLEAN)
        /\ spans \in Seq(Nat \X Nat)
    BY OpenSettled DEF ListenInv, ListenType, Finalize
  <1>2. n \in Nat /\ n = Len(audio) /\ base \in Nat /\ base <= n /\ DOMAIN audio = 1 .. n
    BY <1>1
  <1>3. audio' = audio /\ hist' = hist
    BY DEF Finalize
  <1>4. CASE n - base < MinSeg
    <2>1. /\ base' = n /\ session' = next /\ since' = since /\ spans' = spans
          /\ committed' = committed /\ sent' = sent /\ heard' = heard
      BY <1>4 DEF Finalize
    <2> HIDE DEF n
    <2>2. ListenType'
      BY <1>1, <1>2, <1>3, <2>1 DEF ListenType
    <2>3. Ordered(spans, n)
      BY <1>1, <1>2, SpansStay DEF Settled
    <2>4. MinSeg \in Nat
      BY VadAssumption
    <2>5. \A t \in 1 .. n : audio[t] =>
             t > n - MinSeg \/ \E k \in DOMAIN spans : Within(t, spans[k])
      <3> TAKE t \in 1 .. n
      <3> HAVE audio[t]
      <3>1. CASE t <= base
        BY <1>1, <1>2, <3>1 DEF Settled
      <3>2. CASE t > base
        BY <1>2, <1>4, <2>4, <3>2
      <3> QED  BY <1>2, <3>1, <3>2
    <2>6. SpeechHeardOnce'
      BY <1>1, <1>2, <1>3, <2>1, <2>3, <2>5 DEF SpeechHeardOnce, Ordered, Settled
    <2> QED  BY <2>2, <2>6 DEF ListenInv
  <1>5. CASE ~(n - base < MinSeg)
    <2>1. Close(v, cut, next)
      BY <1>5 DEF Finalize
    <2>2. v.audio = audio /\ v.base = base /\ cut.end = n - base /\ cut.keep = n - base
      BY DEF Cut
    <2> HIDE DEF v, cut, n
    <2>3. n - base \in 1 .. Len(Open(audio, base)) /\ n - base \in n - base .. Len(Open(audio, base))
      <3>1. MinSeg \in Nat /\ MinSeg >= 1
        BY VadAssumption
      <3>2. Len(Open(audio, base)) = n - base
        BY <1>1, <1>2, OpenFacts
      <3> QED  BY <1>2, <1>5, <3>1, <3>2
    <2>4. \A t \in (n - base) + 1 .. n - base : ~Open(audio, base)[t]
      BY <1>2
    <2>5. Fair(Open(audio, base), cut)
      BY <2>2, <2>3, <2>4 DEF Fair
    <2> QED  BY <1>1, <1>3, <2>1, <2>2, <2>5, CloseKeeps
  <1> QED  BY <1>4, <1>5

(* A step of a session keeps it well: a packet, the client's eof, or the   *)
(* client gone.                                                            *)
THEOREM ListenInductive == ListenSpec => []ListenInv
  <1>1. ListenInit => ListenInv
    BY DEF ListenInit, ListenInv, ListenType, SpeechHeardOnce
  <1>2. ListenInv /\ [ListenNext]_listenVars => ListenInv'
    <2> SUFFICES ASSUME ListenInv, [ListenNext]_listenVars PROVE ListenInv'
      OBVIOUS
    <2>1. ASSUME NEW n \in Packets, NEW packet \in [1 .. n -> BOOLEAN], Push(packet)
          PROVE  ListenInv'
      <3>1. packet \in Seq(BOOLEAN)
        BY VadAssumption
      <3> QED  BY <2>1, <3>1, PushKeeps
    <2>2. CASE Finalize("ended")
      BY <2>2, FinalizeKeeps
    <2>3. CASE Finalize("gone")
      BY <2>3, FinalizeKeeps
    <2>4. CASE UNCHANGED listenVars
      <3>1. /\ audio' = audio /\ base' = base /\ hist' = hist /\ since' = since /\ spans' = spans
            /\ committed' = committed /\ sent' = sent /\ heard' = heard /\ session' = session
        BY <2>4 DEF listenVars
      <3> QED  BY <3>1 DEF ListenInv, ListenType, SpeechHeardOnce
    <2> QED  BY <2>1, <2>2, <2>3, <2>4 DEF ListenNext
  <1> QED  BY <1>1, <1>2, PTL DEF ListenSpec

(* SpeechHeardOnce: every hop of speech is in one span, transcribed once,  *)
(* or in the open one, whatever the packets, the pauses and the cuts.      *)
THEOREM SpeechOnce == ListenSpec => []SpeechHeardOnce
  <1>1. ListenInv => SpeechHeardOnce
    BY DEF ListenInv
  <1> QED  BY <1>1, ListenInductive, PTL

(* The last speech of seg is at k, and the pause behind it is long enough  *)
(* to close the span, also when measured in frames.                        *)
Overdue(seg, k) ==
    /\ k \in 1 .. Len(seg) /\ seg[k]
    /\ \A t \in k + 1 .. Len(seg) : ~seg[t]
    /\ k + Endpoint + FrameHops - 1 <= Len(seg)

(* The part of SpanBounded about the pauses of an open span of a from b.   *)
Brief(a, b) ==
    \A t \in b + MinSeg .. Len(a) - (Endpoint + FrameHops - 1) :
        a[t] => Speech(SubSeq(a, t + 1, Len(a)))

(* Between b and n no silence of a is so long that frames of MinPause lie  *)
(* within it.                                                              *)
Wide == MinPause + FrameHops - 2
Unbroken(a, b, n) == \A k \in b + 1 .. n - Wide : \E t \in k .. k + Wide : a[t]

(* SpanBounded is inductive with the reason why a long open span cannot    *)
(* grow: what a forced cut has left in the buffer has no pause, so the     *)
(* next forced cut takes all of it.                                        *)
BoundInv ==
    /\ SpanBounded
    /\ longest \in Nat
    /\ session = "open" /\ Len(audio) - base >= MaxSeg => Unbroken(audio, base, Len(audio))

(* What joining two pieces keeps of the second.                            *)
LEMMA JoinFacts ==
  ASSUME NEW h \in Seq(BOOLEAN), NEW db \in Seq(BOOLEAN)
  PROVE  /\ h \o db \in Seq(BOOLEAN) /\ Len(h) \in Nat /\ Len(db) \in Nat
         /\ Len(h \o db) = Len(h) + Len(db)
         /\ \A i \in 1 .. Len(db) : Len(h) + i \in DOMAIN (h \o db) /\ (h \o db)[Len(h) + i] = db[i]
  <1>1. Len(h) \in Nat /\ Len(db) \in Nat
    OBVIOUS
  <1>2. /\ h \o db \in Seq(BOOLEAN) /\ Len(h \o db) = Len(h) + Len(db)
        /\ \A i \in 1 .. Len(h) + Len(db) : (h \o db)[i] = IF i <= Len(h) THEN h[i] ELSE db[i - Len(h)]
    BY ConcatProperties
  <1> DEFINE r == h \o db
  <1>3. /\ r \in Seq(BOOLEAN) /\ Len(r) = Len(h) + Len(db)
        /\ \A i \in 1 .. Len(h) + Len(db) : r[i] = IF i <= Len(h) THEN h[i] ELSE db[i - Len(h)]
    BY <1>2
  <1> HIDE DEF r
  <1>4. DOMAIN r = 1 .. Len(r)
    BY <1>3
  <1>5. ASSUME NEW i \in 1 .. Len(db) PROVE Len(h) + i \in DOMAIN r /\ r[Len(h) + i] = db[i]
    <2>1. /\ Len(h) + i \in 1 .. Len(h) + Len(db) /\ ~(Len(h) + i <= Len(h))
          /\ (Len(h) + i) - Len(h) = i
      BY <1>1
    <2> QED  BY <1>3, <1>4, <2>1
  <1> QED  BY <1>1, <1>3, <1>5 DEF r

(* A frame with no speech in its hops has none.                            *)
LEMMA FrameQuiet ==
  ASSUME NEW seg \in Seq(BOOLEAN), NEW j \in 1 .. Len(Frames(seg)),
         \A t \in 1 .. Len(seg) : j <= t /\ t <= j + FrameHops - 1 => ~seg[t]
  PROVE  ~Frames(seg)[j]
  <1> DEFINE last == Min({j + FrameHops - 1, Len(seg)})
             part == SubSeq(seg, j, last)
             n == Max({1, Len(seg) - FrameHops + 1})
  <1>1. /\ Len(seg) \in Nat /\ FrameHops \in Nat /\ FrameHops >= 1
        /\ Len(Frames(seg)) \in Nat /\ j \in Nat /\ j >= 1
    BY VadAssumption, FrameFacts
  <1>2. last = IF j + FrameHops - 1 <= Len(seg) THEN j + FrameHops - 1 ELSE Len(seg)
    <2>1. j + FrameHops - 1 \in Int /\ Len(seg) \in Int
      BY <1>1
    <2> QED  BY <2>1, PairFacts
  <1> HIDE DEF last
  <1>3. last \in Nat /\ last <= Len(seg)
    BY <1>1, <1>2
  <1>8. last <= j + FrameHops - 1
    BY <1>1, <1>2
  <1>4. /\ Len(part) = IF j <= last THEN last - j + 1 ELSE 0
        /\ \A i \in 1 .. last - j + 1 : part[i] = seg[j + i - 1]
        /\ part \in Seq(BOOLEAN)
    BY <1>1, <1>3, PieceFacts
  <1> HIDE DEF part
  <1>5. \A i \in DOMAIN part : ~part[i]
    <2> TAKE i \in DOMAIN part
    <2>0. DOMAIN part = 1 .. Len(part)
      BY <1>4
    <2>1. i \in 1 .. last - j + 1
      BY <1>1, <1>3, <1>4, <2>0
    <2>2. j + i - 1 \in 1 .. Len(seg) /\ j <= j + i - 1 /\ j + i - 1 <= j + FrameHops - 1
      BY <1>1, <1>3, <1>8, <2>1
    <2> QED  BY <1>4, <2>1, <2>2
  <1>6. ~Speech(part)
    BY <1>5 DEF Speech
  <1>7. Frames(seg)[j] = Speech(part)
    <2>1. Frames(seg) = [k \in 1 .. n |->
                            Speech(SubSeq(seg, k, Min({k + FrameHops - 1, Len(seg)})))]
      BY DEF Frames
    <2>2. DOMAIN Frames(seg) = 1 .. n /\ DOMAIN Frames(seg) = 1 .. Len(Frames(seg))
      <3>1. DOMAIN Frames(seg) = 1 .. n
        BY <2>1
      <3>2. Frames(seg) \in Seq(BOOLEAN)
        BY FrameFacts
      <3> HIDE DEF n
      <3> QED  BY <3>1, <3>2
    <2> HIDE DEF n
    <2>3. j \in 1 .. n
      BY <2>2
    <2> QED  BY <2>1, <2>3 DEF part, last
  <1> QED  BY <1>6, <1>7

(* The frames of an overdue span: its speech is heard, the pause is not.   *)
LEMMA OverdueFrames ==
  ASSUME NEW seg \in Seq(BOOLEAN), NEW k, Overdue(seg, k), NEW h \in Seq(BOOLEAN)
  PROVE  LET db == Frames(seg) IN
         /\ db \in Seq(BOOLEAN) /\ Len(db) = Len(seg) - FrameHops + 1
         /\ k \in Nat /\ k >= 1 /\ k + Endpoint <= Len(db)
         /\ Loud(db[k], h \o db) /\ Loud(db[k], db)
         /\ \A j \in k + 1 .. Len(db) : ~Loud(db[j], h \o db) /\ ~Loud(db[j], db)
  <1> DEFINE db == Frames(seg)
  <1>1. /\ Len(seg) \in Nat /\ FrameHops \in Nat /\ FrameHops >= 1
        /\ Endpoint \in Nat /\ Endpoint >= 1
    BY VadAssumption
  <1>2. /\ k \in 1 .. Len(seg) /\ seg[k] /\ k + Endpoint + FrameHops - 1 <= Len(seg)
        /\ \A t \in k + 1 .. Len(seg) : ~seg[t]
    BY DEF Overdue
  <1>3. /\ db \in Seq(BOOLEAN) /\ Len(db) \in Nat
        /\ Len(db) = IF Len(seg) - FrameHops + 1 >= 1 THEN Len(seg) - FrameHops + 1 ELSE 1
        /\ \A i \in 1 .. Len(db), t \in 1 .. Len(seg) :
              seg[t] /\ i <= t /\ t <= i + FrameHops - 1 => db[i]
    BY FrameFacts
  <1>4. ASSUME NEW j \in k + 1 .. Len(db) PROVE ~db[j]
    <2>1. j \in 1 .. Len(db)
      <3> HIDE DEF db
      <3> QED  BY <1>1, <1>2, <1>3
    <2>2. \A t \in 1 .. Len(seg) : j <= t /\ t <= j + FrameHops - 1 => ~seg[t]
      <3> TAKE t \in 1 .. Len(seg)
      <3> HAVE j <= t /\ t <= j + FrameHops - 1
      <3>1. t \in k + 1 .. Len(seg)
        <4> HIDE DEF db
        <4> QED  BY <1>1, <1>2, <1>3
      <3> QED  BY <1>2, <3>1
    <2> QED  BY <2>1, <2>2, FrameQuiet
  <1> HIDE DEF db
  <1>5. /\ Len(db) = Len(seg) - FrameHops + 1 /\ k \in Nat /\ k >= 1 /\ k + Endpoint <= Len(db)
        /\ k \in 1 .. Len(db)
    BY <1>1, <1>2, <1>3
  <1>6. db[k]
    <2>1. k <= k /\ k <= k + FrameHops - 1
      BY <1>1, <1>5
    <2> QED  BY <1>2, <1>3, <1>5, <2>1
  <1>7. Speech(db)
    <2>1. k \in DOMAIN db
      BY <1>3, <1>5
    <2> QED  BY <1>6, <2>1 DEF Speech
  <1>8. Speech(h \o db)
    <2>1. Len(h) + k \in DOMAIN (h \o db) /\ (h \o db)[Len(h) + k] = db[k]
      BY <1>3, <1>5, JoinFacts
    <2> QED  BY <1>6, <2>1 DEF Speech
  <1>9. \A j \in k + 1 .. Len(db) : ~Loud(db[j], h \o db) /\ ~Loud(db[j], db)
    BY <1>4, <1>7, <1>8 DEF Loud
  <1>10. Loud(db[k], h \o db) /\ Loud(db[k], db)
    BY <1>6 DEF Loud
  <1> QED  BY <1>3, <1>5, <1>9, <1>10 DEF db

(* An overdue span is at its endpoint.                                     *)
LEMMA OverdueEnds ==
  ASSUME NEW seg \in Seq(BOOLEAN), NEW k, Overdue(seg, k), NEW h \in Seq(BOOLEAN), k >= MinSeg
  PROVE  AtEndpoint(seg, h)
  <1> DEFINE db == Frames(seg)
             i == LastVoiced(db, h)
             T == {0} \cup {j \in DOMAIN db : Loud(db[j], h \o db)}
  <1>1. /\ Len(seg) \in Nat /\ FrameHops \in Nat /\ FrameHops >= 1
        /\ Endpoint \in Nat /\ Endpoint >= 1 /\ MinSeg \in Nat /\ Second \in Nat
        /\ Second + FrameHops <= MinSeg + Endpoint + 1
    BY VadAssumption
  <1>2. /\ db \in Seq(BOOLEAN) /\ Len(db) = Len(seg) - FrameHops + 1
        /\ k \in Nat /\ k >= 1 /\ k + Endpoint <= Len(db)
        /\ Loud(db[k], h \o db)
        /\ \A j \in k + 1 .. Len(db) : ~Loud(db[j], h \o db)
    BY OverdueFrames
  <1>3. k \in DOMAIN db /\ DOMAIN db = 1 .. Len(db) /\ Len(db) \in Nat
    BY <1>1, <1>2
  <1>4. T \subseteq 0 .. Len(db) /\ k \in T /\ \A j \in T : j \in k + 1 .. Len(db) => FALSE
    BY <1>2, <1>3
  <1>5. i = Max(T)
    BY DEF LastVoiced
  <1> HIDE DEF T, db
  <1>6. Max(T) \in T /\ \A m \in T : m <= Max(T)
    BY <1>3, <1>4, ExtremeFacts
  <1> HIDE DEF i
  <1>7. i = k
    <2>1. i \in T /\ k <= i /\ i \in 0 .. Len(db)
      BY <1>4, <1>5, <1>6
    <2>2. i \notin k + 1 .. Len(db)
      BY <1>4, <2>1
    <2> QED  BY <1>2, <1>3, <2>1, <2>2
  <1>8. HasThreshold(h, db)
    <2>1. Len(h \o db) = Len(h) + Len(db) /\ Len(h) \in Nat
      BY <1>2, JoinFacts
    <2>2. Len(db) >= Second
      BY <1>1, <1>2
    <2> QED  BY <1>1, <1>3, <2>1, <2>2 DEF HasThreshold
  <1>9. Len(seg) >= MinSeg + Endpoint /\ PauseLongEnough(Len(db) - i) /\ i >= MinSeg
    BY <1>1, <1>2, <1>3, <1>7 DEF PauseLongEnough
  <1> QED  BY <1>8, <1>9 DEF AtEndpoint, i, db

(* A forced cut empties the buffer, or takes at least MinSeg and a pause   *)
(* away and leaves no overdue pause in what it keeps.                      *)
LEMMA ForcedLeaves ==
  ASSUME NEW seg \in Seq(BOOLEAN), NEW h \in Seq(BOOLEAN), Len(seg) >= 1
  PROVE  LET keep == ForcedCut(seg, h).keep IN
         \/ keep = Len(seg)
         \/ /\ keep \in Nat /\ keep >= MinSeg + MinPause
            /\ \A k : Overdue(seg, k) => k <= keep
  <1> DEFINE db == Frames(seg)
             splits == {run \in Pauses(db) : run[1] - 1 >= MinSeg}
             last == CHOOSE run \in splits : \A other \in splits : other[1] <= run[1]
  <1>1. /\ MinSeg \in Nat /\ MinSeg >= 1 /\ MinPause \in Nat /\ MinPause >= 1 /\ Len(seg) \in Nat
        /\ MinPause <= Endpoint /\ Endpoint \in Nat /\ Endpoint >= 1
    BY VadAssumption
  <1>2. db \in Seq(BOOLEAN) /\ Len(db) \in Nat
    BY FrameFacts
  <1>3. CASE HasThreshold(h, db) /\ splits # {}
    <2>1. ForcedCut(seg, h) =
             [end |-> last[1] - 1, keep |-> Min({AfterPause(last), Len(seg)})]
      BY <1>3 DEF ForcedCut, Cut
    <2>2. \A run \in splits :
            /\ run[1] \in 1 .. Len(db) /\ run[2] \in 1 .. Len(db)
            /\ run[2] - run[1] + 1 >= MinPause /\ run[1] - 1 >= MinSeg
      BY DEF Pauses
    <2>0. \A k : /\ k \in Nat /\ k + 1 \in 1 .. Len(db) /\ k >= MinSeg
                 /\ Len(db) - k >= MinPause /\ Loud(db[k], db)
                 /\ \A j \in k + 1 .. Len(db) : ~Loud(db[j], db)
                 => <<k + 1, Len(db)>> \in splits
      <3> SUFFICES ASSUME NEW k, k \in Nat, k + 1 \in 1 .. Len(db), k >= MinSeg,
                          Len(db) - k >= MinPause, Loud(db[k], db),
                          \A j \in k + 1 .. Len(db) : ~Loud(db[j], db)
                   PROVE  <<k + 1, Len(db)>> \in splits
        OBVIOUS
      <3> DEFINE run == <<k + 1, Len(db)>>
      <3>1. run[1] = k + 1 /\ run[2] = Len(db)
        OBVIOUS
      <3>2. run \in (1 .. Len(db)) \X (1 .. Len(db))
        <4>1. Len(db) \in 1 .. Len(db)
          BY <1>2
        <4> HIDE DEF db
        <4> QED  BY <4>1
      <3> HIDE DEF run, db
      <3>3. run[1] - 1 = k /\ run[2] - run[1] + 1 >= MinPause /\ run[1] - 1 >= MinSeg
        BY <1>1, <1>2, <3>1
      <3>4. \A j \in run[1] .. run[2] : ~Loud(db[j], db)
        BY <3>1
      <3>5. run \in Pauses(db)
        BY <3>1, <3>2, <3>3, <3>4 DEF Pauses
      <3> QED  BY <3>3, <3>5 DEF run, db
    <2> HIDE DEF splits
    <2>3. last \in splits /\ \A other \in splits : other[1] <= last[1]
      <3> DEFINE T == {run[1] : run \in splits}
      <3>1. T \subseteq 0 .. Len(db) /\ T # {}
        BY <1>2, <1>3, <2>2
      <3> HIDE DEF T
      <3>2. Max(T) \in T /\ \A m \in T : m <= Max(T)
        BY <1>2, <3>1, ExtremeFacts
      <3>3. \E run \in splits : \A other \in splits : other[1] <= run[1]
        BY <3>2 DEF T
      <3> QED  BY <3>3
    <2> DEFINE i == last[1]
               j == last[2]
               keep == Min({j, Len(seg)})
    <2>4. /\ i \in 1 .. Len(db) /\ j \in 1 .. Len(db) /\ j - i + 1 >= MinPause /\ i - 1 >= MinSeg
          /\ \A other \in splits : other[1] <= i
      BY <2>2, <2>3
    <2>5. ForcedCut(seg, h).keep = keep
      BY <2>1 DEF AfterPause
    <2> HIDE DEF i, j, last, db
    <2>6. keep = IF j <= Len(seg) THEN j ELSE Len(seg)
      <3>1. j \in Int /\ Len(seg) \in Int
        BY <1>1, <2>4
      <3> QED  BY <3>1, PairFacts
    <2> HIDE DEF keep
    <2>7. CASE j <= Len(seg)
      <3>1. keep \in Nat /\ keep >= MinSeg + MinPause /\ keep >= i
        BY <1>1, <1>2, <2>4, <2>6, <2>7
      <3>2. ASSUME NEW k, Overdue(seg, k), k > keep PROVE FALSE
        <4>1. /\ k \in Nat /\ k >= 1 /\ k + Endpoint <= Len(db) /\ Loud(db[k], db)
              /\ \A m \in k + 1 .. Len(db) : ~Loud(db[m], db)
          BY <3>2, OverdueFrames DEF db
        <4>2. k + 1 \in 1 .. Len(db) /\ k >= MinSeg /\ Len(db) - k >= MinPause
          BY <1>1, <1>2, <3>1, <3>2, <4>1
        <4>3. <<k + 1, Len(db)>> \in splits
          BY <2>0, <4>1, <4>2
        <4>4. k + 1 <= i
          BY <2>4, <4>3
        <4> QED  BY <1>2, <2>4, <3>1, <3>2, <4>1, <4>4
      <3>3. ASSUME NEW k, Overdue(seg, k) PROVE k <= keep
        <4>1. ~(k > keep)
          BY <3>2, <3>3
        <4>2. k \in 1 .. Len(seg)
          BY <3>3 DEF Overdue
        <4> QED  BY <1>1, <3>1, <4>1, <4>2
      <3> QED  BY <2>5, <3>1, <3>3
    <2>8. CASE ~(j <= Len(seg))
      BY <2>5, <2>6, <2>8
    <2> QED  BY <2>7, <2>8
  <1>4. CASE ~(HasThreshold(h, db) /\ splits # {})
    <2>1. ForcedCut(seg, h) = [end |-> Len(seg), keep |-> Len(seg)]
      BY <1>4 DEF ForcedCut, Cut
    <2> QED  BY <2>1
  <1> QED  BY <1>3, <1>4

(* Where the open span of a begins at b and its next one at b + keep,      *)
(* nothing of the new one is overdue if nothing of the old one is that far *)
(* in.                                                                     *)
LEMMA StaysBrief ==
  ASSUME NEW a \in Seq(BOOLEAN), NEW b \in 0 .. Len(a), NEW keep \in 0 .. Len(a) - b,
         \A k : Overdue(Open(a, b), k) => k < keep + MinSeg
  PROVE  Brief(a, b + keep)
  <1> DEFINE seg == Open(a, b)
  <1>1. /\ Len(a) \in Nat /\ b \in Nat /\ keep \in Nat /\ MinSeg \in Nat /\ MinSeg >= 1
        /\ Endpoint \in Nat /\ Endpoint >= 1 /\ FrameHops \in Nat /\ FrameHops >= 1
    BY VadAssumption
  <1>2. /\ seg \in Seq(BOOLEAN) /\ Len(seg) = Len(a) - b
        /\ \A i \in 1 .. Len(a) - b : seg[i] = a[b + i]
    BY OpenFacts
  <1>3. \A k : Overdue(seg, k) => k < keep + MinSeg
    OBVIOUS
  <1> HIDE DEF seg
  <1>4. ASSUME NEW t \in (b + keep) + MinSeg .. Len(a) - (Endpoint + FrameHops - 1), a[t],
               ~Speech(SubSeq(a, t + 1, Len(a)))
        PROVE  FALSE
    <2>1. /\ t - b \in 1 .. Len(seg) /\ t - b >= keep + MinSeg /\ b + (t - b) = t
          /\ (t - b) + Endpoint + FrameHops - 1 <= Len(seg)
          /\ t + 1 \in Nat /\ t + 1 >= 1 /\ t \in Nat /\ t <= Len(a)
      BY <1>1, <1>2, <1>4
    <2>2. \A u \in t + 1 .. Len(a) : a[u] => Speech(SubSeq(a, t + 1, Len(a)))
      BY <1>1, <2>1, PieceFacts
    <2>3. \A u \in (t - b) + 1 .. Len(seg) : ~seg[u]
      <3> TAKE u \in (t - b) + 1 .. Len(seg)
      <3>1. u \in 1 .. Len(a) - b /\ b + u \in t + 1 .. Len(a)
        BY <1>1, <1>2, <2>1
      <3> QED  BY <1>2, <1>4, <2>2, <3>1
    <2>4. seg[t - b]
      BY <1>2, <1>4, <2>1
    <2>5. Overdue(seg, t - b)
      BY <2>1, <2>3, <2>4 DEF Overdue
    <2>6. t - b < keep + MinSeg
      BY <1>3, <2>5
    <2> QED  BY <1>1, <2>1, <2>6
  <1> QED  BY <1>4 DEF Brief

(* Where a forced cut leaves audio: behind the last pause from i of the    *)
(* span's frames, of which it keeps what follows.                          *)
LastPause(seg, i, keep) ==
    LET db == Frames(seg) IN
    /\ i \in 1 .. Len(db) /\ keep \in 1 .. Len(db)
    /\ keep - i + 1 >= MinPause /\ i - 1 >= MinSeg
    /\ Speech(db) /\ \A m \in i .. keep : ~db[m]
    /\ keep = Len(db) \/ db[keep + 1]
    /\ \A run \in Pauses(db) : run[1] - 1 >= MinSeg => run[1] <= i

LEMMA ForcedPause ==
  ASSUME NEW seg \in Seq(BOOLEAN), NEW h \in Seq(BOOLEAN)
  PROVE  LET keep == ForcedCut(seg, h).keep IN
         keep = Len(seg) \/ \E i : LastPause(seg, i, keep)
  <1> DEFINE db == Frames(seg)
             splits == {run \in Pauses(db) : run[1] - 1 >= MinSeg}
             last == CHOOSE run \in splits : \A other \in splits : other[1] <= run[1]
  <1>1. MinPause \in Nat /\ MinPause >= 1 /\ Len(seg) \in Nat
    BY VadAssumption
  <1>2. db \in Seq(BOOLEAN) /\ Len(db) \in Nat /\ DOMAIN db = 1 .. Len(db)
    BY FrameFacts
  <1>3. CASE HasThreshold(h, db) /\ splits # {}
    <2>1. ForcedCut(seg, h) =
             [end |-> last[1] - 1, keep |-> Min({AfterPause(last), Len(seg)})]
      BY <1>3 DEF ForcedCut, Cut
    <2>2. \A run \in splits :
            /\ run[1] \in 1 .. Len(db) /\ run[2] \in 1 .. Len(db)
            /\ run[2] - run[1] + 1 >= MinPause /\ run[1] - 1 >= MinSeg
            /\ \A k \in run[1] .. run[2] : ~Loud(db[k], db)
            /\ run[2] = Len(db) \/ Loud(db[run[2] + 1], db)
      BY DEF Pauses
    <2>3. \A run \in Pauses(db) : run[1] - 1 >= MinSeg => run \in splits
      OBVIOUS
    <2> HIDE DEF splits
    <2>4. last \in splits /\ \A other \in splits : other[1] <= last[1]
      <3> DEFINE T == {run[1] : run \in splits}
      <3>1. T \subseteq 0 .. Len(db) /\ T # {}
        BY <1>2, <1>3, <2>2
      <3> HIDE DEF T
      <3>2. Max(T) \in T /\ \A m \in T : m <= Max(T)
        BY <1>2, <3>1, ExtremeFacts
      <3>3. \E run \in splits : \A other \in splits : other[1] <= run[1]
        BY <3>2 DEF T
      <3> QED  BY <3>3
    <2> DEFINE i == last[1]
               j == last[2]
               keep == Min({j, Len(seg)})
    <2>5. /\ i \in 1 .. Len(db) /\ j \in 1 .. Len(db) /\ j - i + 1 >= MinPause /\ i - 1 >= MinSeg
          /\ \A k \in i .. j : ~Loud(db[k], db)
          /\ j = Len(db) \/ Loud(db[j + 1], db)
          /\ \A run \in Pauses(db) : run[1] - 1 >= MinSeg => run[1] <= i
      BY <2>2, <2>3, <2>4
    <2>6. ForcedCut(seg, h).keep = keep
      BY <2>1 DEF AfterPause
    <2> HIDE DEF i, j, last, db
    <2>7. keep = IF j <= Len(seg) THEN j ELSE Len(seg)
      <3>1. j \in Int /\ Len(seg) \in Int
        BY <1>1, <2>5
      <3> QED  BY <3>1, PairFacts
    <2> HIDE DEF keep
    <2>8. CASE j <= Len(seg)
      <3>1. i \in i .. j /\ keep = j
        <4>1. i \in Nat /\ j \in Nat /\ j - i + 1 >= MinPause
          BY <2>5
        <4> QED  BY <1>1, <2>7, <2>8, <4>1
      <3>2. Speech(db) /\ \A k \in i .. j : ~db[k]
        BY <2>5, <3>1 DEF Loud
      <3>3. j = Len(db) \/ db[j + 1]
        BY <2>5, <3>2 DEF Loud
      <3>4. LastPause(seg, i, j)
        BY <2>5, <3>2, <3>3 DEF LastPause, db
      <3> QED  BY <2>6, <3>1, <3>4
    <2>9. CASE ~(j <= Len(seg))
      BY <2>6, <2>7, <2>9
    <2> QED  BY <2>8, <2>9
  <1>4. CASE ~(HasThreshold(h, db) /\ splits # {})
    <2>1. ForcedCut(seg, h) = [end |-> Len(seg), keep |-> Len(seg)]
      BY <1>4 DEF ForcedCut, Cut
    <2> QED  BY <2>1
  <1> QED  BY <1>3, <1>4

(* Quiet frames that are enough for a pause lie within one.                *)
LEMMA PauseAround ==
  ASSUME NEW db \in Seq(BOOLEAN), Speech(db), NEW p \in 1 .. Len(db), NEW q \in p .. Len(db),
         \A m \in p .. q : ~db[m], q - p + 1 >= MinPause
  PROVE  \E run \in Pauses(db) :
            /\ run[1] \in 1 .. p /\ \A m \in run[1] .. p : ~db[m]
            /\ run[1] = 1 \/ db[run[1] - 1]
  <1> DEFINE n == Len(db)
             B == {0} \cup {m \in 1 .. p : db[m]}
             F == {m \in p .. n : \A k \in p .. m : ~db[k]}
             lo == Max(B) + 1
             hi == Max(F)
             run == <<lo, hi>>
  <1>1. /\ n \in Nat /\ n = Len(db) /\ p \in Nat /\ q \in Nat /\ 1 <= p /\ p <= q /\ q <= n
        /\ MinPause \in Nat
    BY VadAssumption
  <1>2. /\ B \subseteq 0 .. n /\ B # {} /\ F \subseteq 0 .. n /\ F # {} /\ q \in F
    <2> HIDE DEF n
    <2> QED  BY <1>1
  <1>3. \A m \in F : m \in p .. n /\ \A k \in p .. m : ~db[k]
    OBVIOUS
  <1>4. \A m \in B : m = 0 \/ (m \in 1 .. p /\ db[m])
    OBVIOUS
  <1>5. \A m \in 1 .. p : db[m] => m \in B
    OBVIOUS
  <1>6. \A m \in p .. n : (\A k \in p .. m : ~db[k]) => m \in F
    OBVIOUS
  <1> HIDE DEF B, F, n
  <1>7. /\ Max(B) \in B /\ \A m \in B : m <= Max(B)
        /\ Max(F) \in F /\ \A m \in F : m <= Max(F)
    BY <1>1, <1>2, ExtremeFacts
  <1>8. hi \in p .. n /\ hi \in Nat /\ q <= hi /\ \A k \in p .. hi : ~db[k]
    <2>1. hi \in p .. n /\ q <= hi /\ \A k \in p .. hi : ~db[k]
      BY <1>2, <1>3, <1>7
    <2> HIDE DEF hi
    <2> QED  BY <1>1, <2>1
  <1>9. ~db[p]
    <2>1. p \in p .. q
      BY <1>1
    <2> QED  BY <2>1
  <1>10. /\ lo \in 1 .. p /\ (lo = 1 \/ db[lo - 1])
         /\ \A m \in lo .. p : ~db[m]
    <2> DEFINE b == Max(B)
    <2>1. b = 0 \/ (b \in 1 .. p /\ db[b])
      BY <1>4, <1>7
    <2>2. \A m \in 1 .. p : db[m] => m <= b
      BY <1>5, <1>7
    <2>3. lo = b + 1
      OBVIOUS
    <2> HIDE DEF b, lo
    <2>4. b # p
      BY <1>1, <1>9, <2>1
    <2>5. lo \in 1 .. p /\ lo - 1 = b
      BY <1>1, <2>1, <2>3, <2>4
    <2>6. \A m \in lo .. p : m \in 1 .. p /\ ~(m <= b)
      BY <1>1, <2>1, <2>3, <2>5
    <2> QED  BY <2>1, <2>2, <2>3, <2>5, <2>6
  <1> HIDE DEF lo, hi
  <1>11. hi = n \/ db[hi + 1]
    <2> SUFFICES ASSUME hi # n, ~db[hi + 1] PROVE FALSE
      OBVIOUS
    <2>1. hi + 1 \in p .. n /\ \A k \in p .. hi + 1 : k \in p .. hi \/ k = hi + 1
      BY <1>1, <1>8
    <2>2. \A k \in p .. hi + 1 : ~db[k]
      BY <1>8, <2>1
    <2>3. hi + 1 <= hi
      BY <1>6, <1>7, <2>1, <2>2 DEF hi
    <2> QED  BY <1>8, <2>3
  <1>12. \A k \in lo .. hi : ~db[k]
    <2> TAKE k \in lo .. hi
    <2>1. k \in lo .. p \/ k \in p .. hi
      BY <1>1, <1>8, <1>10
    <2> QED  BY <1>8, <1>10, <2>1
  <1>13. run[1] = lo /\ run[2] = hi /\ run \in (1 .. n) \X (1 .. n)
    <2>1. lo \in 1 .. n /\ hi \in 1 .. n
      BY <1>1, <1>8, <1>10
    <2> QED  BY <2>1
  <1> HIDE DEF run
  <1>14. /\ run[2] - run[1] + 1 >= MinPause
         /\ \A k \in run[1] .. run[2] : ~Loud(db[k], db)
         /\ run[1] = 1 \/ Loud(db[run[1] - 1], db)
         /\ run[2] = n \/ Loud(db[run[2] + 1], db)
    <2>1. run[2] - run[1] + 1 >= MinPause
      BY <1>1, <1>8, <1>10, <1>13
    <2> QED  BY <1>10, <1>11, <1>12, <1>13, <2>1 DEF Loud
  <1>15. run \in Pauses(db)
    BY <1>1, <1>13, <1>14 DEF Pauses
  <1> QED  BY <1>10, <1>13, <1>15

(* A forced cut leaves no pause in what it keeps.                          *)
LEMMA ForcedUnbroken ==
  ASSUME NEW seg \in Seq(BOOLEAN), NEW i, NEW keep, LastPause(seg, i, keep)
  PROVE  Unbroken(seg, keep, Len(seg))
  <1> DEFINE db == Frames(seg)
             n == Len(seg)
             f == Len(db)
  <1>1. /\ MinPause \in Nat /\ MinPause >= 1 /\ FrameHops \in Nat /\ FrameHops >= 1
        /\ MinSeg \in Nat /\ n \in Nat
    BY VadAssumption
  <1>2. /\ db \in Seq(BOOLEAN) /\ f \in Nat
        /\ f = IF n - FrameHops + 1 >= 1 THEN n - FrameHops + 1 ELSE 1
    BY FrameFacts
  <1>3. /\ i \in 1 .. f /\ keep \in 1 .. f /\ keep - i + 1 >= MinPause /\ i - 1 >= MinSeg
        /\ Speech(db) /\ (keep = f \/ db[keep + 1])
        /\ \A run \in Pauses(db) : run[1] - 1 >= MinSeg => run[1] <= i
    BY DEF LastPause
  <1> SUFFICES ASSUME NEW k \in keep + 1 .. n - Wide, \A t \in k .. k + Wide : ~seg[t]
               PROVE  FALSE
    BY DEF Unbroken
  <1> DEFINE q == k + MinPause - 1
  <1>4. \A j \in k .. q : j \in 1 .. f /\ ~db[j]
    <2> TAKE j \in k .. q
    <2> HIDE DEF db, f, n
    <2>1. j \in 1 .. f
      BY <1>1, <1>2, <1>3 DEF Wide
    <2>2. \A t \in 1 .. n : j <= t /\ t <= j + FrameHops - 1 => t \in k .. k + Wide
      BY <1>1, <1>2, <1>3 DEF Wide
    <2>3. \A t \in 1 .. Len(seg) : j <= t /\ t <= j + FrameHops - 1 => ~seg[t]
      BY <2>2 DEF n
    <2>4. ~db[j]
      BY <2>1, <2>3, FrameQuiet DEF db, f
    <2> QED  BY <2>1, <2>4
  <1> HIDE DEF db, f, n
  <1>5. /\ q \in k .. f /\ k \in 1 .. f /\ q - k + 1 >= MinPause /\ keep < k /\ k \in k .. q
        /\ k \in Nat /\ keep \in Nat /\ i \in Nat
    BY <1>1, <1>2, <1>3 DEF Wide
  <1>6. \A m \in k .. q : ~db[m]
    BY <1>4
  <1> HIDE DEF q
  <1>7. PICK run \in Pauses(db) :
            /\ run[1] \in 1 .. k /\ \A m \in run[1] .. k : ~db[m]
            /\ run[1] = 1 \/ db[run[1] - 1]
    BY <1>2, <1>3, <1>5, <1>6, PauseAround DEF f
  <1>8. db[keep + 1]
    BY <1>2, <1>3, <1>5
  <1>9. ~(run[1] <= keep + 1)
    <2> SUFFICES ASSUME run[1] <= keep + 1 PROVE FALSE
      OBVIOUS
    <2>1. keep + 1 \in run[1] .. k
      BY <1>5, <1>7
    <2> QED  BY <1>7, <1>8, <2>1
  <1>10. run[1] - 1 >= MinSeg /\ ~(run[1] <= i)
    BY <1>1, <1>3, <1>5, <1>7, <1>9
  <1> QED  BY <1>3, <1>10

(* Where the first r hops of a span have no pause, a forced cut that       *)
(* leaves audio is behind them, but for the hops of a frame.               *)
LEMMA ForcedBehind ==
  ASSUME NEW seg \in Seq(BOOLEAN), NEW i, NEW keep, LastPause(seg, i, keep),
         NEW r \in 0 .. Len(seg), Unbroken(seg, 0, r)
  PROVE  keep > r - FrameHops + 1
  <1> DEFINE db == Frames(seg)
             n == Len(seg)
             f == Len(db)
  <1>1. /\ MinPause \in Nat /\ MinPause >= 1 /\ FrameHops \in Nat /\ FrameHops >= 1
        /\ n \in Nat /\ r \in 0 .. n
    BY VadAssumption
  <1>2. /\ f \in Nat
        /\ \A j \in 1 .. f, t \in 1 .. n : seg[t] /\ j <= t /\ t <= j + FrameHops - 1 => db[j]
    BY FrameFacts
  <1>3. i \in 1 .. f /\ keep \in 1 .. f /\ keep - i + 1 >= MinPause /\ \A m \in i .. keep : ~db[m]
    BY DEF LastPause
  <1> HIDE DEF db, n, f
  <1> SUFFICES ASSUME keep <= r - FrameHops + 1 PROVE FALSE
    BY <1>1, <1>2, <1>3
  <1>4. i \in 0 + 1 .. r - Wide
    BY <1>1, <1>2, <1>3 DEF Wide
  <1>5. PICK t \in i .. i + Wide : seg[t]
    BY <1>4 DEF Unbroken
  <1> DEFINE j == IF t <= i + MinPause - 1 THEN t ELSE i + MinPause - 1
  <1>6. t \in 1 .. n /\ j \in 1 .. f /\ j \in i .. keep /\ j <= t /\ t <= j + FrameHops - 1
    BY <1>1, <1>2, <1>3, <1>5 DEF Wide
  <1> HIDE DEF j
  <1> QED  BY <1>2, <1>3, <1>5, <1>6

(* The open span of a from b has the pauses of a.                          *)
LEMMA OpenUnbroken ==
  ASSUME NEW a \in Seq(BOOLEAN), NEW b \in 0 .. Len(a), NEW c \in 0 .. Len(a) - b,
         NEW n \in 0 .. Len(a) - b
  PROVE  Unbroken(Open(a, b), c, n) <=> Unbroken(a, b + c, b + n)
  <1> DEFINE seg == Open(a, b)
             m == Len(a) - b
  <1>1. b \in Nat /\ m \in Nat /\ c \in 0 .. m /\ n \in 0 .. m /\ Wide \in Nat
    <2>1. MinPause \in Nat /\ MinPause >= 1 /\ FrameHops \in Nat /\ FrameHops >= 1
      BY VadAssumption
    <2> QED  BY <2>1 DEF Wide
  <1>2. \A t \in 1 .. m : seg[t] = a[b + t]
    BY OpenFacts
  <1> HIDE DEF seg, m
  <1>3. ASSUME Unbroken(seg, c, n) PROVE Unbroken(a, b + c, b + n)
    <2> SUFFICES ASSUME NEW k \in (b + c) + 1 .. (b + n) - Wide
                 PROVE  \E t \in k .. k + Wide : a[t]
      BY DEF Unbroken
    <2>1. k - b \in c + 1 .. n - Wide
      BY <1>1
    <2>2. PICK t \in k - b .. (k - b) + Wide : seg[t]
      BY <1>3, <2>1 DEF Unbroken
    <2>3. t \in 1 .. m /\ b + t \in k .. k + Wide
      BY <1>1, <2>1
    <2> QED  BY <1>2, <2>2, <2>3
  <1>4. ASSUME Unbroken(a, b + c, b + n) PROVE Unbroken(seg, c, n)
    <2> SUFFICES ASSUME NEW k \in c + 1 .. n - Wide
                 PROVE  \E t \in k .. k + Wide : seg[t]
      BY DEF Unbroken
    <2>1. b + k \in (b + c) + 1 .. (b + n) - Wide
      BY <1>1
    <2>2. PICK t \in b + k .. (b + k) + Wide : a[t]
      BY <1>4, <2>1 DEF Unbroken
    <2>3. t - b \in 1 .. m /\ t - b \in k .. k + Wide /\ b + (t - b) = t
      BY <1>1, <2>1
    <2>4. seg[t - b]
      BY <1>2, <2>2, <2>3
    <2> QED  BY <2>3, <2>4
  <1> QED  BY <1>3, <1>4 DEF seg

(* A span of n hops is cut: what is transcribed is of it, and a span that  *)
(* does not fit ends the session.                                          *)
LEMMA CloseFits ==
  ASSUME NEW v, NEW a \in Seq(BOOLEAN), NEW b \in 0 .. Len(a), v.audio = a, v.base = b,
         NEW cut, Fair(Open(a, b), cut), NEW next, Close(v, cut, next), FitsWindow(heard)
  PROVE  /\ heard' = heard \/ heard'[2] - heard'[1] <= Len(a) - b
         /\ FitsWindow(heard') \/ session' = "failed"
         /\ base' = b + cut.keep /\ session' \in {next, "failed"}
  <1> DEFINE span == <<b, b + cut.end>>
  <1>1. /\ Len(a) \in Nat /\ b \in Nat /\ Len(Open(a, b)) = Len(a) - b
    BY OpenFacts
  <1>2. cut.end \in 1 .. Len(a) - b
    BY <1>1 DEF Fair
  <1>3. span[2] - span[1] <= Len(a) - b
    <2>1. span[1] = b /\ span[2] = b + cut.end
      OBVIOUS
    <2> HIDE DEF span
    <2> QED  BY <1>1, <1>2, <2>1
  <1>4. base' = b + cut.keep
    BY DEF Close
  <1>5. \/ session' = next /\ heard' = heard
        \/ TranscribeSpan(span, next)
        \/ TranscribeRaises(span)
    BY DEF Close
  <1> HIDE DEF span
  <1>6. \/ session' = next /\ heard' = heard
        \/ heard' = span /\ session' = next /\ FitsWindow(span)
        \/ heard' = span /\ session' = "failed"
    BY <1>5 DEF TranscribeSpan, TranscribeRaises
  <1> QED  BY <1>3, <1>4, <1>6

(* The open span of length n, where no packet was longer than most.        *)
Bounded(n, most) ==
    /\ n < MaxSeg + most
    /\ most <= Extra + 1 /\ most <= MinSeg + MinPause => n < MaxSeg

(* The audio handed over, n hops of it.                                    *)
Fitting(n, most) ==
    /\ n < MaxSeg + 2 * most
    /\ most <= Extra + 1 /\ most <= MinSeg + MinPause => n <= MaxSeg + Extra

(* What SpanBounded says of the next state, from its parts.                *)
LEMMA BoundedNext ==
  ASSUME longest' \in Nat, Fitting(heard'[2] - heard'[1], longest'),
         FitsWindow(heard') \/ session' = "failed",
         session' = "open" =>
            /\ Brief(audio', base') /\ Bounded(Len(audio') - base', longest')
            /\ Len(audio') - base' >= MaxSeg => Unbroken(audio', base', Len(audio'))
  PROVE  BoundInv'
  <1> USE DEF BoundInv, SpanBounded, FitsWindow, ShortPackets, Fitting
  <1>1. CASE session' = "open"
    <2>1. /\ Brief(audio', base') /\ Bounded(Len(audio') - base', longest')
          /\ Len(audio') - base' >= MaxSeg => Unbroken(audio', base', Len(audio'))
      BY <1>1
    <2> QED  BY <2>1 DEF Brief, Bounded, Unbroken
  <1>2. CASE session' # "open"
    BY <1>2
  <1> QED  BY <1>1, <1>2

(* While the session is open, in terms of these parts.                     *)
LEMMA BoundedNow ==
  ASSUME ListenInv, BoundInv, session = "open"
  PROVE  /\ audio \in Seq(BOOLEAN) /\ Len(audio) \in Nat /\ base \in 0 .. Len(audio)
         /\ hist \in Seq(BOOLEAN) /\ since \in Int /\ longest \in Nat
         /\ heard[2] - heard[1] \in Int
         /\ FitsWindow(heard) /\ Fitting(heard[2] - heard[1], longest)
         /\ Brief(audio, base) /\ Bounded(Len(audio) - base, longest)
         /\ Len(audio) - base >= MaxSeg => Unbroken(audio, base, Len(audio))
  <1>1. /\ audio \in Seq(BOOLEAN) /\ base \in 0 .. Len(audio) /\ hist \in Seq(BOOLEAN)
        /\ since \in Int /\ heard \in Nat \X Nat
    BY DEF ListenInv, ListenType
  <1>2. longest \in Nat /\ (Len(audio) - base >= MaxSeg => Unbroken(audio, base, Len(audio)))
    BY DEF BoundInv
  <1>3. FitsWindow(heard) /\ Fitting(heard[2] - heard[1], longest)
    BY DEF BoundInv, SpanBounded, FitsWindow, Fitting, ShortPackets
  <1>4. Brief(audio, base) /\ Bounded(Len(audio) - base, longest)
    BY DEF BoundInv, SpanBounded, Brief, Bounded, ShortPackets
  <1> QED  BY <1>1, <1>2, <1>3, <1>4

(* Where the span grows by a packet of p hops, of which a cut takes keep.  *)
LEMMA BoundsGrow ==
  ASSUME NEW n \in Int, NEW p \in Nat, NEW most \in Nat, NEW now \in Nat, NEW m \in Nat,
         Bounded(n, most), most <= now, p <= now, m <= n + p \/ m <= p
  PROVE  /\ Fitting(m, now)
         /\ \A keep \in Nat : keep >= MinSeg + MinPause /\ n < MaxSeg => Bounded(m - keep, now)
         /\ \A keep \in Nat : m - keep <= p + FrameHops - 2 /\ n >= MaxSeg => Bounded(m - keep, now)
         /\ m < MaxSeg => Bounded(m, now)
         /\ Bounded(0, now)
  <1>1. /\ MinSeg \in Nat /\ MinSeg >= 1 /\ MaxSeg \in Nat /\ MaxSeg >= 1
        /\ MinPause \in Nat /\ MinPause >= 1 /\ Extra \in Nat /\ Endpoint \in Nat
        /\ FrameHops \in Nat /\ FrameHops >= 1 /\ Second \in Nat /\ Second >= 1
        /\ Second + FrameHops <= MinSeg + Endpoint + 1 /\ MinSeg + Endpoint <= MaxSeg
    BY VadAssumption
  <1>2. FrameHops <= MaxSeg
    BY <1>1
  <1>3. /\ n < MaxSeg + most
        /\ most <= Extra + 1 /\ most <= MinSeg + MinPause => n < MaxSeg
    BY DEF Bounded
  <1>4. Fitting(m, now)
    <2>1. m < MaxSeg + 2 * now
      BY <1>1, <1>3
    <2>2. now <= Extra + 1 /\ now <= MinSeg + MinPause => m <= MaxSeg + Extra
      BY <1>1, <1>3
    <2> QED  BY <2>1, <2>2 DEF Fitting
  <1>5. ASSUME NEW keep \in Nat, keep >= MinSeg + MinPause, n < MaxSeg
        PROVE  Bounded(m - keep, now)
    BY <1>1, <1>5 DEF Bounded
  <1>6. ASSUME NEW keep \in Nat, m - keep <= p + FrameHops - 2, n >= MaxSeg
        PROVE  Bounded(m - keep, now)
    BY <1>1, <1>2, <1>3, <1>6 DEF Bounded
  <1>7. m < MaxSeg => Bounded(m, now)
    BY <1>1 DEF Bounded
  <1>8. Bounded(0, now)
    BY <1>1 DEF Bounded
  <1> QED  BY <1>4, <1>5, <1>6, <1>7, <1>8

(* A packet keeps the span bounded, whatever its length.                   *)
LEMMA PushBounded ==
  ASSUME ListenInv, BoundInv, NEW packet \in Seq(BOOLEAN), Push(packet)
  PROVE  BoundInv'
  <1> DEFINE a == audio \o packet
             v == DropLeadingSilence([audio |-> a, base |-> base, hist |-> hist,
                                      since |-> since + Len(packet)])
             seg == Open(v.audio, v.base)
             learnt == Trim(v.hist \o Frames(seg))
             old == Len(audio) - base
             p == Len(packet)
             m == Len(seg)
  <1>1. /\ session = "open" /\ longest' = Max({longest, p})
    BY DEF Push
  <1>2. /\ audio \in Seq(BOOLEAN) /\ Len(audio) \in Nat /\ base \in 0 .. Len(audio)
        /\ hist \in Seq(BOOLEAN) /\ since \in Int /\ longest \in Nat
    BY <1>1, BoundedNow
  <1>21. /\ heard[2] - heard[1] \in Int
         /\ FitsWindow(heard) /\ Fitting(heard[2] - heard[1], longest)
         /\ Bounded(old, longest)
         /\ old >= MaxSeg => Unbroken(audio, base, Len(audio))
    BY <1>1, BoundedNow
  <1>3. /\ a \in Seq(BOOLEAN) /\ Len(a) = Len(audio) + p /\ p \in Nat
    BY <1>2, ConcatProperties
  <1>22. \A t \in 1 .. Len(audio) : a[t] = audio[t]
    BY <1>2, ConcatProperties
  <1>4. /\ audio' = v.audio
        /\ IF OverLong(Len(seg))
             THEN hist' = learnt /\ Close(v, ForcedCut(seg, v.hist), "open")
           ELSE IF AtEndpoint(seg, v.hist)
             THEN hist' = learnt /\ Close(v, EndpointCut(seg, v.hist), "open")
           ELSE IF PartialDue(v)
             THEN hist' = v.hist /\ Provisional(v)
           ELSE /\ hist' = v.hist /\ base' = v.base /\ since' = v.since
                /\ UNCHANGED <<spans, committed, sent, heard, session>>
    BY Zenon DEF Push
  <1>5. v.audio = a /\ v.base \in base .. Len(a) /\ v.hist \in Seq(BOOLEAN)
    <2> HIDE DEF a
    <2>1. a \in Seq(BOOLEAN) /\ base \in 0 .. Len(a) /\ hist \in Seq(BOOLEAN)
          /\ since + Len(packet) \in Int
      BY <1>2, <1>3
    <2> QED  BY <2>1, DropFacts, SMTT(30)
  <1>6. seg = Open(a, v.base)
    BY <1>5
  <1> HIDE DEF v, a, learnt, old
  <1>7. v.base \in 0 .. Len(a) /\ v.base \in Nat /\ Len(a) \in Nat
    BY <1>2, <1>3, <1>5
  <1>8. seg \in Seq(BOOLEAN) /\ m \in Nat /\ m = Len(a) - v.base
    <2>1. seg \in Seq(BOOLEAN) /\ m = Len(a) - v.base
      BY <1>3, <1>6, <1>7, OpenFacts
    <2> HIDE DEF m
    <2> QED  BY <1>7, <2>1
  <1> HIDE DEF seg
  <1>9. /\ longest' \in Nat /\ longest <= longest' /\ p <= longest'
    <2> HIDE DEF p
    <2>1. longest \in Nat /\ p \in Nat /\ longest \in Int /\ p \in Int
      BY <1>2, <1>3
    <2>2. longest' = IF longest >= p THEN longest ELSE p
      BY <1>1, <2>1, PairFacts
    <2> QED  BY <2>1, <2>2
  <1>10. old \in Int /\ m <= old + p
    <2> DEFINE c == v.base
               n == Len(audio)
    <2>1. n \in Nat /\ base \in Nat /\ c \in Nat /\ base <= c /\ m = n + p - c /\ old = n - base
          /\ p \in Nat
      <3>1. n \in Nat /\ base \in Nat /\ c \in Nat /\ p \in Nat /\ old = n - base
        BY <1>2, <1>3, <1>7 DEF old
      <3>2. c \in base .. Len(a) /\ Len(a) = n + p /\ m = Len(a) - c
        BY <1>3, <1>5, <1>8
      <3> HIDE DEF m, p, c, n
      <3> QED  BY ONLY <3>1, <3>2
    <2> HIDE DEF old, m, p, c, n
    <2> QED  BY ONLY <2>1
  <1>11. /\ MaxSeg \in Nat /\ MaxSeg >= 1 /\ MinSeg \in Nat /\ MinSeg >= 1 /\ FrameHops \in Nat
         /\ MinPause \in Nat /\ Extra \in Nat
    BY VadAssumption
  <1>12. /\ Fitting(m, longest')
         /\ \A keep \in Nat : keep >= MinSeg + MinPause /\ old < MaxSeg => Bounded(m - keep, longest')
         /\ \A keep \in Nat :
               m - keep <= p + FrameHops - 2 /\ old >= MaxSeg => Bounded(m - keep, longest')
         /\ m < MaxSeg => Bounded(m, longest')
         /\ Bounded(0, longest')
    <2>1. old \in Int /\ p \in Nat /\ longest \in Nat /\ longest' \in Nat /\ m \in Nat
      BY <1>2, <1>3, <1>8, <1>9, <1>10
    <2>2. Bounded(old, longest) /\ longest <= longest' /\ p <= longest' /\ (m <= old + p \/ m <= p)
      BY <1>9, <1>10, <1>21
    <2> DEFINE now == longest'
    <2>3. now \in Nat /\ longest <= now /\ p <= now
      BY <2>1, <2>2
    <2> HIDE DEF old, m, p, now
    <2>4. /\ Fitting(m, now)
          /\ \A keep \in Nat : keep >= MinSeg + MinPause /\ old < MaxSeg => Bounded(m - keep, now)
          /\ \A keep \in Nat :
                m - keep <= p + FrameHops - 2 /\ old >= MaxSeg => Bounded(m - keep, now)
          /\ m < MaxSeg => Bounded(m, now)
          /\ Bounded(0, now)
      BY <2>1, <2>2, <2>3, BoundsGrow
    <2> QED  BY <2>4 DEF now
  <1>13. \A k : Overdue(seg, k) => k \in 1 .. m
    BY DEF Overdue
  <1>14. Fitting(heard[2] - heard[1], longest')
    <2> DEFINE n == heard[2] - heard[1]
    <2>1. n \in Int /\ Fitting(n, longest)
      BY <1>21
    <2> HIDE DEF n
    <2>2. Fitting(n, longest')
      <3> DEFINE now == longest'
      <3>1. now \in Nat /\ longest \in Nat /\ longest <= now
        BY <1>2, <1>9
      <3> HIDE DEF now
      <3>2. Fitting(n, now)
        BY <1>11, <2>1, <3>1 DEF Fitting
      <3> QED  BY <3>2 DEF now
    <2> QED  BY <2>2 DEF n
  <1>15. ASSUME heard' = heard \/ (heard'[2] - heard'[1] \in Int /\ heard'[2] - heard'[1] <= m)
         PROVE  Fitting(heard'[2] - heard'[1], longest')
    <2>1. CASE heard' = heard
      BY <1>14, <2>1
    <2>2. CASE heard' # heard
      <3> DEFINE n == heard'[2] - heard'[1]
      <3>1. n \in Int /\ n <= m
        BY <1>15, <2>2
      <3> HIDE DEF n, m
      <3>2. Fitting(n, longest')
        <4> DEFINE now == longest'
        <4>1. Extra \in Nat /\ now \in Nat /\ m \in Nat /\ Fitting(m, now)
          BY <1>8, <1>9, <1>12, VadAssumption
        <4> HIDE DEF now
        <4>2. Fitting(n, now)
          BY <1>11, <3>1, <4>1 DEF Fitting
        <4> QED  BY <4>2 DEF now
      <3> QED  BY <3>2 DEF n
    <2> QED  BY <2>1, <2>2
  <1>20. heard'[2] - heard'[1] \in Int
    <2>1. heard' \in Nat \X Nat
      BY PushKeeps DEF ListenInv, ListenType
    <2> QED  BY <2>1
  <1>16. ASSUME NEW cut, Fair(seg, cut), Close(v, cut, "open"),
                \/ cut.keep = m
                \/ /\ cut.keep >= MinSeg + MinPause /\ \A k : Overdue(seg, k) => k <= cut.keep
                   /\ \E i : LastPause(seg, i, cut.keep)
         PROVE  BoundInv'
    <2> DEFINE kept == cut.keep
    <2>1. /\ heard' = heard \/ heard'[2] - heard'[1] <= Len(a) - v.base
          /\ FitsWindow(heard') \/ session' = "failed"
          /\ base' = v.base + kept /\ session' \in {"open", "failed"}
      BY <1>21, <1>3, <1>5, <1>6, <1>7, <1>16, CloseFits
    <2>2. kept \in 0 .. m /\ kept \in Nat
      BY <1>8, <1>16 DEF Fair
    <2>3. \A k : Overdue(seg, k) => k < kept + MinSeg
      <3> SUFFICES ASSUME NEW k, Overdue(seg, k) PROVE k < kept + MinSeg
        OBVIOUS
      <3>1. k \in 1 .. m /\ k <= kept
        BY <1>8, <1>13, <1>16
      <3> HIDE DEF kept, m
      <3> QED  BY <1>8, <1>11, <2>2, <3>1
    <2>4. Brief(a, v.base + kept)
      BY <1>3, <1>6, <1>7, <1>8, <2>2, <2>3, StaysBrief
    <2>5. Bounded(m - kept, longest')
      <3>1. CASE kept = m
        BY <1>8, <1>12, <3>1
      <3>2. CASE kept # m /\ old < MaxSeg
        BY <1>12, <1>16, <2>2, <3>2
      <3>3. CASE kept # m /\ ~(old < MaxSeg)
        <4>1. PICK i : LastPause(seg, i, kept)
          BY <1>16, <3>3
        <4>2. old >= MaxSeg /\ Unbroken(audio, base, Len(audio))
          BY <1>21, <1>10, <1>11, <3>3
        <4>3. m - kept <= p + FrameHops - 2
          <5> DEFINE r == Len(audio) - v.base
          <5>1. m = r + p /\ r \in Int /\ p \in Nat /\ v.base \in Nat
            BY <1>2, <1>3, <1>7, <1>8
          <5>2. CASE r >= 0
            <6>1. r \in 0 .. m /\ r \in 0 .. Len(a) - v.base /\ 0 \in 0 .. Len(a) - v.base
                  /\ v.base + r = Len(audio) /\ v.base + 0 = v.base
              <7>1. v.base + r = Len(audio) /\ v.base + 0 = v.base
                <8> DEFINE c == v.base
                           n == Len(audio)
                <8>1. c \in Nat /\ n \in Nat /\ r = n - c
                  BY <1>2, <5>1
                <8> HIDE DEF c, n, r
                <8>2. c + r = n /\ c + 0 = c
                  BY ONLY <8>1
                <8> QED  BY <8>2 DEF c, n
              <7>2. m = Len(a) - v.base /\ m = r + p /\ m \in Nat /\ p \in Nat /\ r \in Int
                BY <1>8, <5>1
              <7> HIDE DEF m, p, r
              <7> QED  BY <5>2, <7>1, <7>2
            <6>2. Unbroken(a, v.base, Len(audio))
              <7> SUFFICES ASSUME NEW k \in v.base + 1 .. Len(audio) - Wide
                           PROVE  \E t \in k .. k + Wide : a[t]
                BY DEF Unbroken
              <7>1. k \in base + 1 .. Len(audio) - Wide
                <8>1. v.base \in Nat /\ base \in Nat /\ base <= v.base
                  BY <1>2, <1>5, <1>7
                <8>2. Len(audio) - Wide \in Int
                  BY <1>2, <1>11 DEF Wide
                <8> QED  BY <8>1, <8>2
              <7>2. PICK t \in k .. k + Wide : audio[t]
                BY <4>2, <7>1 DEF Unbroken
              <7>3. Wide \in Int
                BY <1>11 DEF Wide
              <7>4. t \in 1 .. Len(audio)
                BY <1>2, <7>1, <7>3
              <7> QED  BY <1>22, <7>2, <7>4
            <6>3. Unbroken(Open(a, v.base), 0, r)
              BY <1>3, <1>7, <6>1, <6>2, OpenUnbroken
            <6>4. kept > r - FrameHops + 1
              BY <1>6, <1>8, <4>1, <6>1, <6>3, ForcedBehind
            <6> HIDE DEF kept, m, p, r
            <6> QED  BY <1>11, <2>2, <5>1, <6>4
          <5>3. CASE r < 0
            <6>1. kept >= MinSeg + MinPause /\ MinPause >= 1 /\ FrameHops >= 1
              BY <1>16, <3>3, VadAssumption
            <6>2. kept \in Nat /\ m = r + p /\ p \in Nat /\ r \in Int
              BY <2>2, <5>1
            <6> HIDE DEF kept, m, p, r
            <6> QED  BY <1>11, <5>3, <6>1, <6>2
          <5> QED  BY <5>1, <5>2, <5>3
        <4> QED  BY <1>12, <2>2, <4>2, <4>3
      <3> QED  BY <3>1, <3>2, <3>3
    <2>6. m - kept >= MaxSeg => Unbroken(a, v.base + kept, Len(a))
      <3> SUFFICES ASSUME m - kept >= MaxSeg PROVE Unbroken(a, v.base + kept, Len(a))
        OBVIOUS
      <3>1. kept # m
        BY <1>8, <1>11
      <3>2. PICK i : LastPause(seg, i, kept)
        BY <1>16, <3>1
      <3>3. Unbroken(Open(a, v.base), kept, m)
        BY <1>6, <1>8, <3>2, ForcedUnbroken
      <3>4. kept \in 0 .. Len(a) - v.base /\ m \in 0 .. Len(a) - v.base /\ v.base + m = Len(a)
        BY <1>7, <1>8, <2>2
      <3> QED  BY <1>3, <1>7, <3>3, <3>4, OpenUnbroken
    <2>7. Len(a) - (v.base + kept) = m - kept
      <3>1. Len(a) \in Nat /\ v.base \in Nat /\ kept \in Nat /\ m = Len(a) - v.base
        BY <1>7, <1>8, <2>2
      <3> HIDE DEF kept, m
      <3> QED  BY <3>1
    <2>8. Fitting(heard'[2] - heard'[1], longest')
      <3>1. heard'[2] - heard'[1] \in Int
        BY <1>20
      <3> QED  BY <1>8, <1>15, <2>1, <3>1
    <2>9. audio' = a /\ base' = v.base + kept
      BY <1>4, <1>5, <2>1
    <2> HIDE DEF kept, m
    <2> QED  BY <1>9, <2>1, <2>4, <2>5, <2>6, <2>7, <2>8, <2>9, BoundedNext
  <1>17. CASE OverLong(Len(seg))
    <2> DEFINE cut == ForcedCut(seg, v.hist)
    <2>1. m >= 1
      BY <1>8, <1>11, <1>17 DEF OverLong
    <2>2. Fair(seg, cut) /\ Close(v, cut, "open")
      BY <1>4, <1>8, <1>17, <2>1, ForcedFair
    <2>3. \/ cut.keep = Len(seg)
          \/ cut.keep \in Nat /\ cut.keep >= MinSeg + MinPause /\ \A k : Overdue(seg, k) => k <= cut.keep
      BY <1>5, <1>8, <2>1, ForcedLeaves
    <2>4. cut.keep = Len(seg) \/ \E i : LastPause(seg, i, cut.keep)
      BY <1>5, <1>8, ForcedPause
    <2> HIDE DEF cut
    <2> QED  BY <1>16, <2>2, <2>3, <2>4
  <1>18. CASE ~OverLong(Len(seg)) /\ AtEndpoint(seg, v.hist)
    <2> DEFINE cut == EndpointCut(seg, v.hist)
    <2>1. Fair(seg, cut)
      BY <1>8, <1>18, EndpointFair
    <2>2. Close(v, cut, "open")
      BY <1>4, <1>18
    <2>3. cut.keep = Len(seg)
      BY DEF EndpointCut, Cut
    <2> HIDE DEF cut
    <2> QED  BY <1>16, <2>1, <2>2, <2>3
  <1>19. CASE ~OverLong(Len(seg)) /\ ~AtEndpoint(seg, v.hist)
    <2>1. \A k : Overdue(seg, k) => k < 0 + MinSeg
      <3> SUFFICES ASSUME NEW k, Overdue(seg, k) PROVE k < MinSeg
        BY <1>11
      <3>1. k \in 1 .. m
        BY <1>13
      <3>2. ~(k >= MinSeg)
        BY <1>5, <1>8, <1>19, OverdueEnds
      <3> QED  BY <1>8, <1>11, <3>1, <3>2
    <2>2. m < MaxSeg /\ 0 \in 0 .. Len(a) - v.base
      BY <1>7, <1>8, <1>11, <1>19 DEF OverLong
    <2>3. Brief(a, v.base + 0)
      BY <1>3, <1>6, <1>7, <2>1, <2>2, StaysBrief
    <2>4. v.base + 0 = v.base
      BY <1>7
    <2> DEFINE span == <<v.base, Len(a)>>
    <2>5. /\ base' = v.base /\ session' \in {"open", "failed"}
          /\ heard' = heard \/ heard' = span
          /\ heard' = heard \/ FitsWindow(span) \/ session' = "failed"
      <3>1. CASE PartialDue(v)
        <4>1. Provisional(v)
          BY <1>4, <1>19, <3>1
        <4> QED  BY <1>1, <1>5, <4>1 DEF Provisional, TranscribeRaises
      <3>2. CASE ~PartialDue(v)
        BY <1>1, <1>4, <1>19, <3>2
      <3> QED  BY <3>1, <3>2
    <2>6. span[2] - span[1] = m /\ span[2] - span[1] \in Int
      <3>1. span[1] = v.base /\ span[2] = Len(a)
        OBVIOUS
      <3> HIDE DEF span
      <3> QED  BY <1>7, <1>8, <3>1
    <2> HIDE DEF span
    <2>7. Fitting(heard'[2] - heard'[1], longest')
      BY <1>8, <1>15, <2>5, <2>6
    <2>8. FitsWindow(heard') \/ session' = "failed"
      BY <1>21, <2>5
    <2>9. audio' = a /\ base' = v.base /\ Len(a) - v.base = m /\ ~(m >= MaxSeg)
      BY <1>4, <1>5, <1>8, <1>11, <2>2, <2>5
    <2> QED  BY <1>9, <1>12, <2>2, <2>3, <2>4, <2>7, <2>8, <2>9, BoundedNext
  <1> QED  BY <1>17, <1>18, <1>19

(* The end of a session transcribes what is left of the open span.         *)
LEMMA FinalizeBounded ==
  ASSUME ListenInv, BoundInv, NEW next \in {"ended", "gone"}, Finalize(next)
  PROVE  BoundInv'
  <1> DEFINE n == Len(audio) - base
             v == [audio |-> audio, base |-> base]
             cut == Cut(n, n)
  <1>1. session = "open" /\ longest' = longest
    BY DEF Finalize
  <1>2. /\ audio \in Seq(BOOLEAN) /\ Len(audio) \in Nat /\ base \in 0 .. Len(audio)
        /\ longest \in Nat /\ heard[2] - heard[1] \in Int /\ n \in Nat
        /\ FitsWindow(heard) /\ Fitting(heard[2] - heard[1], longest) /\ Bounded(n, longest)
    BY <1>1, BoundedNow
  <1>3. /\ MaxSeg \in Nat /\ MinSeg \in Nat /\ MinSeg >= 1 /\ Extra \in Nat
    BY VadAssumption
  <1>4. CASE n < MinSeg
    <2>1. heard' = heard /\ session' # "open"
      BY <1>4 DEF Finalize
    <2> QED  BY <1>1, <1>2, <2>1, BoundedNext
  <1>5. CASE ~(n < MinSeg)
    <2>1. Close(v, cut, next)
      BY <1>5 DEF Finalize
    <2>2. v.audio = audio /\ v.base = base /\ cut.end = n /\ cut.keep = n
      BY DEF Cut
    <2>3. n = Len(audio) - base
      OBVIOUS
    <2> HIDE DEF v, cut, n
    <2>4. n \in 1 .. Len(Open(audio, base)) /\ n \in n .. Len(Open(audio, base))
      <3>1. Len(Open(audio, base)) = n
        BY <1>2, <2>3, OpenFacts
      <3> QED  BY <1>2, <1>3, <1>5, <3>1
    <2>5. \A t \in n + 1 .. n : ~Open(audio, base)[t]
      BY <1>2
    <2>6. Fair(Open(audio, base), cut)
      BY <2>2, <2>4, <2>5 DEF Fair
    <2>7. /\ heard' = heard \/ heard'[2] - heard'[1] <= n
          /\ (FitsWindow(heard') \/ session' = "failed") /\ session' \in {next, "failed"}
      BY <1>2, <2>1, <2>2, <2>3, <2>6, CloseFits
    <2>8. Fitting(heard'[2] - heard'[1], longest')
      <3>1. CASE heard' = heard
        BY <1>1, <1>2, <3>1
      <3>2. CASE heard' # heard
        <4> DEFINE k == heard'[2] - heard'[1]
        <4>1. k \in Int /\ k <= n
          <5>1. heard' \in Nat \X Nat
            BY FinalizeKeeps DEF ListenInv, ListenType
          <5> QED  BY <2>7, <3>2, <5>1
        <4> HIDE DEF k
        <4>2. Fitting(k, longest')
          BY <1>1, <1>2, <1>3, <4>1 DEF Fitting, Bounded
        <4> QED  BY <4>2 DEF k
      <3> QED  BY <3>1, <3>2
    <2> QED  BY <1>1, <1>2, <2>7, <2>8, BoundedNext
  <1> QED  BY <1>4, <1>5

(* SpanBounded: whatever the packets, the open span and what is handed to  *)
(* the slot engine stay within one and two packets of max_segment_s, no    *)
(* long pause stays inside a span, and what does not fit the window ends   *)
(* the session; where packets are short beside a segment the bound is hard *)
(* and everything fits.                                                    *)
THEOREM SpansBounded == ListenSpec => []SpanBounded
  <1>1. ListenInit => BoundInv
    <2> SUFFICES ASSUME ListenInit PROVE BoundInv
      OBVIOUS
    <2>1. /\ MaxSeg \in Nat /\ MaxSeg >= 1 /\ Extra \in Nat /\ MinSeg \in Nat /\ MinSeg >= 1
          /\ Endpoint \in Nat /\ Endpoint >= 1 /\ FrameHops \in Nat /\ FrameHops >= 1
      BY VadAssumption
    <2>2. /\ audio = <<>> /\ Len(audio) = 0 /\ base = 0 /\ heard[1] = 0 /\ heard[2] = 0
          /\ longest = 0
      BY DEF ListenInit
    <2>3. FitsWindow(heard)
      BY <2>1, <2>2 DEF FitsWindow
    <2>4. \A t \in base + MinSeg .. Len(audio) - (Endpoint + FrameHops - 1) : FALSE
      BY <2>1, <2>2
    <2> QED  BY <2>1, <2>2, <2>3, <2>4 DEF BoundInv, SpanBounded
  <1>2. ListenInv /\ BoundInv /\ [ListenNext]_listenVars => BoundInv'
    <2> SUFFICES ASSUME ListenInv, BoundInv, [ListenNext]_listenVars PROVE BoundInv'
      OBVIOUS
    <2>1. ASSUME NEW n \in Packets, NEW packet \in [1 .. n -> BOOLEAN], Push(packet)
          PROVE  BoundInv'
      <3>1. packet \in Seq(BOOLEAN)
        BY VadAssumption
      <3> QED  BY <2>1, <3>1, PushBounded
    <2>2. CASE Finalize("ended")
      BY <2>2, FinalizeBounded
    <2>3. CASE Finalize("gone")
      BY <2>3, FinalizeBounded
    <2>4. CASE UNCHANGED listenVars
      <3>1. audio' = audio /\ base' = base /\ heard' = heard /\ session' = session
            /\ longest' = longest
        BY <2>4 DEF listenVars
      <3> QED  BY <3>1 DEF BoundInv, SpanBounded, FitsWindow, ShortPackets, Unbroken
    <2> QED  BY <2>1, <2>2, <2>3, <2>4 DEF ListenNext
  <1>3. BoundInv => SpanBounded
    BY DEF BoundInv
  <1> QED  BY <1>1, <1>2, <1>3, ListenInductive, PTL DEF ListenSpec

-----------------------------------------------------------------------------
(* One shard of the transcription command.                                 *)

Pieces == [part : {"head", "char", "rest", "nl"}, row : Rows]
Idle == {"off", "finished", "raised", "undecodable"}
Left == unprobed \cup good \cup batch

ShardType ==
    /\ file \in Seq(Pieces) /\ buffer \in Seq(Pieces)
    /\ phase \in Phases
    /\ unprobed \subseteq Rows /\ good \subseteq Rows /\ batch \subseteq Rows
    /\ count \in Nat /\ finished \in Nat

(* No row is in two places; where a run is says which places are empty.    *)
WorkInv ==
    /\ unprobed \cap good = {} /\ unprobed \cap batch = {} /\ good \cap batch = {}
    /\ phase \in {"short", "long", "engine"} => unprobed = {}
    /\ phase \in {"probe", "long", "engine"} => batch = {}
    /\ phase \in Idle => buffer = <<>>

(* A buffered record has its end.                                          *)
Ended(b) ==
    \A j \in DOMAIN b : b[j].part = "rest"
        => j + 1 \in DOMAIN b /\ b[j + 1].part = "nl"
BufferInv == Ended(buffer)

(* What the file will be when the run closes it.  A line is unique in it,   *)
(* and in the file a kill would leave now; and no row that is to come has   *)
(* one.                                                                     *)
Closing == file \o buffer
Held == Lines(file) \cup Lines(Closing)
UniqueInv ==
    /\ \A k, m \in Held : Closing[k].row = Closing[m].row => k = m
    /\ \A k \in Held : Closing[k].row \notin Left

(* A run that finishes leaves the last line terminated, or had nothing to   *)
(* do; and from then on, until the next kill, no line is lost.              *)
Terminated(f) == f = <<>> \/ f[Len(f)].part = "nl"
HealInv ==
    /\ phase \notin Idle => Left # {} \/ Terminated(Closing)
    /\ finished # 0 /\ MaxItems = 0 =>
         IF phase \in Idle THEN Terminated(file) \/ Recorded(file) = Rows
         ELSE Terminated(Closing) /\ Rows \subseteq Recorded(Closing) \cup Left
    /\ phase = "finished" /\ finished >= 2 /\ MaxItems = 0 => Recorded(file) = Rows

ShardInv == ShardType /\ WorkInv /\ BufferInv /\ UniqueInv /\ HealInv


(* A record is four pieces of its row.                                     *)
LEMMA RecordFacts ==
  ASSUME NEW i \in Rows
  PROVE  /\ Record(i) \in Seq(Pieces) /\ Len(Record(i)) = 4
         /\ Record(i)[1] = [part |-> "head", row |-> i]
         /\ Record(i)[2] = [part |-> "char", row |-> i]
         /\ Record(i)[3] = [part |-> "rest", row |-> i]
         /\ Record(i)[4] = [part |-> "nl", row |-> i]
  <1>1. \A p \in {"head", "char", "rest", "nl"} : [part |-> p, row |-> i] \in Pieces
    BY DEF Pieces
  <1> QED  BY <1>1 DEF Record, Bytes

(* What makes a place a line.                                              *)
LineAt(f, k) ==
    /\ k \in 1 .. Len(f) /\ k + 2 <= Len(f)
    /\ k = 1 \/ f[k - 1].part = "nl"
    /\ f[k].part = "head"
    /\ f[k + 1] = [part |-> "char", row |-> f[k].row]
    /\ f[k + 2] = [part |-> "rest", row |-> f[k].row]
    /\ k + 2 = Len(f) \/ f[k + 3].part = "nl"

(* The lines of a file are the places where LineAt holds.                  *)
LEMMA LineIs ==
  ASSUME NEW f \in Seq(Pieces), NEW k
  PROVE  k \in Lines(f) <=> LineAt(f, k)
  <1>1. DOMAIN f = 1 .. Len(f) /\ Len(f) \in Nat
    OBVIOUS
  <1>2. ASSUME k \in 1 .. Len(f)
        PROVE  (\A j \in 0 .. 2 : f[k + j] = Record(f[k].row)[j + 1])
                 <=> /\ f[k].part = "head"
                     /\ f[k + 1] = [part |-> "char", row |-> f[k].row]
                     /\ f[k + 2] = [part |-> "rest", row |-> f[k].row]
    <2> DEFINE r == f[k].row
    <2>1. f[k] \in Pieces /\ r \in Rows
      <3>1. f[k] \in Pieces
        BY <1>1, <1>2
      <3> QED  BY <3>1 DEF Pieces
    <2>2. f[k] = [part |-> "head", row |-> r] <=> f[k].part = "head"
      BY <2>1 DEF Pieces
    <2>3. (\A j \in 0 .. 2 : f[k + j] = Record(r)[j + 1])
            <=> f[k] = Record(r)[1] /\ f[k + 1] = Record(r)[2] /\ f[k + 2] = Record(r)[3]
      <3>1. 0 .. 2 = {0, 1, 2} /\ k + 0 = k /\ 0 + 1 = 1 /\ 1 + 1 = 2 /\ 2 + 1 = 3
        BY <1>2
      <3> QED  BY <3>1
    <2> HIDE DEF r
    <2>4. /\ Record(r)[1] = [part |-> "head", row |-> r]
          /\ Record(r)[2] = [part |-> "char", row |-> r]
          /\ Record(r)[3] = [part |-> "rest", row |-> r]
      BY <2>1, RecordFacts
    <2>5. (\A j \in 0 .. 2 : f[k + j] = Record(r)[j + 1])
            <=> /\ f[k].part = "head"
                /\ f[k + 1] = [part |-> "char", row |-> r]
                /\ f[k + 2] = [part |-> "rest", row |-> r]
      BY <2>2, <2>3, <2>4
    <2> QED  BY <2>5 DEF r
  <1>3. k \in Lines(f) <=>
          /\ k \in 1 .. Len(f)
          /\ k = 1 \/ f[k - 1].part = "nl"
          /\ k + 2 <= Len(f)
          /\ \A j \in 0 .. 2 : f[k + j] = Record(f[k].row)[j + 1]
          /\ k + 2 = Len(f) \/ f[k + 3].part = "nl"
    BY <1>1 DEF Lines
  <1> QED  BY <1>2, <1>3 DEF LineAt

(* A record that is appended is the only new line; and behind a terminated   *)
(* line, nothing is lost.                                                  *)
LEMMA EmitLines ==
  ASSUME NEW f \in Seq(Pieces), NEW i \in Rows
  PROVE  LET h == f \o Record(i) IN
         /\ h \in Seq(Pieces) /\ Terminated(h)
         /\ h[Len(f) + 1].row = i
         /\ \A k \in Lines(f) : h[k] = f[k] /\ k # Len(f) + 1
         /\ Lines(h) \subseteq Lines(f) \cup {Len(f) + 1}
         /\ Terminated(f) => Lines(f) \cup {Len(f) + 1} \subseteq Lines(h)
  <1> DEFINE h == f \o Record(i)
             n == Len(f)
  <1>1. /\ h \in Seq(Pieces) /\ Len(h) = n + 4 /\ n \in Nat
        /\ \A k \in 1 .. n : h[k] = f[k]
        /\ h[n + 1] = [part |-> "head", row |-> i] /\ h[n + 2] = [part |-> "char", row |-> i]
        /\ h[n + 3] = [part |-> "rest", row |-> i] /\ h[n + 4] = [part |-> "nl", row |-> i]
    <2>1. Record(i) \in Seq(Pieces) /\ Len(Record(i)) = 4
      BY RecordFacts
    <2> DEFINE rec == Record(i)
    <2> HIDE DEF rec
    <2>2. rec \in Seq(Pieces) /\ Len(rec) = 4
      BY <2>1 DEF rec
    <2>3. /\ f \o rec \in Seq(Pieces) /\ Len(f \o rec) = n + 4 /\ n \in Nat
          /\ \A j \in 1 .. n : (f \o rec)[j] = f[j]
          /\ \A j \in 1 .. 4 : (f \o rec)[n + j] = rec[j]
      <3>1. rec \in Seq(Pieces)
        BY <2>2
      <3>2. /\ f \o rec \in Seq(Pieces) /\ Len(f \o rec) = Len(f) + Len(rec)
            /\ \A j \in 1 .. Len(f) : (f \o rec)[j] = f[j]
            /\ \A j \in 1 .. Len(rec) : (f \o rec)[Len(f) + j] = rec[j]
        BY <3>1, ConcatAt
      <3>3. n \in Nat
        OBVIOUS
      <3> QED  BY <2>2, <3>2, <3>3
    <2>4. rec[1] = Record(i)[1] /\ rec[2] = Record(i)[2] /\ rec[3] = Record(i)[3]
          /\ rec[4] = Record(i)[4]
      BY DEF rec
    <2>5. /\ rec[1] = [part |-> "head", row |-> i] /\ rec[2] = [part |-> "char", row |-> i]
          /\ rec[3] = [part |-> "rest", row |-> i] /\ rec[4] = [part |-> "nl", row |-> i]
      BY <2>4, RecordFacts
    <2>6. h = f \o rec
      BY DEF rec
    <2> HIDE DEF h
    <2> QED  BY <2>3, <2>5, <2>6
  <1> HIDE DEF h
  <1>2. Terminated(h) /\ h[n + 1].row = i
    <2>1. h[Len(h)].part = "nl"
      BY <1>1
    <2> QED  BY <1>1, <2>1 DEF Terminated
  <1>3. \A k \in Lines(f) : h[k] = f[k] /\ k # n + 1
    <2> TAKE k \in Lines(f)
    <2>1. k \in 1 .. n
      BY LineIs DEF LineAt
    <2> QED  BY <1>1, <2>1
  <1>4. ASSUME NEW k \in Lines(h), k # n + 1 PROVE k \in Lines(f)
    <2>1. /\ k \in 1 .. n + 4 /\ k + 2 <= n + 4 /\ (k = 1 \/ h[k - 1].part = "nl")
          /\ h[k].part = "head" /\ h[k + 1] = [part |-> "char", row |-> h[k].row]
          /\ h[k + 2] = [part |-> "rest", row |-> h[k].row]
          /\ k + 2 = n + 4 \/ h[k + 3].part = "nl"
      <3>1. LineAt(h, k)
        BY <1>1, LineIs
      <3> QED  BY <1>1, <3>1 DEF LineAt
    <2>2. k # n + 2
      BY <1>1, <2>1
    <2>3. k # n
      BY <1>1, <2>1
    <2>4. (k + 1) # n
      <3> SUFFICES ASSUME k + 1 = n PROVE FALSE
        OBVIOUS
      <3>1. k + 2 = n + 1
        BY <1>1, <2>1
      <3>2. h[k + 2].part = "head" /\ h[k + 2].part = "rest"
        BY <1>1, <2>1, <3>1
      <3> QED  BY <3>2
    <2>5. k \in 1 .. n /\ k + 2 <= n
      BY <1>1, <1>4, <2>1, <2>2, <2>3, <2>4
    <2>6. h[k] = f[k] /\ h[k + 1] = f[k + 1] /\ h[k + 2] = f[k + 2]
          /\ (k # 1 => h[k - 1] = f[k - 1])
      <3>1. /\ k + 1 \in 1 .. n /\ k + 2 \in 1 .. n
            /\ k # 1 => k - 1 \in 1 .. n
        BY <1>1, <2>5
      <3> QED  BY <1>1, <2>5, <3>1
    <2>7. k + 2 = n \/ f[k + 3].part = "nl"
      <3> SUFFICES ASSUME k + 2 # n PROVE f[k + 3].part = "nl"
        OBVIOUS
      <3>1. k + 3 \in 1 .. n /\ k + 2 # n + 4
        BY <1>1, <2>5
      <3> QED  BY <1>1, <2>1, <3>1
    <2>8. LineAt(f, k)
      BY <2>1, <2>5, <2>6, <2>7 DEF LineAt
    <2> QED  BY <2>8, LineIs
  <1>5. ASSUME Terminated(f) PROVE Lines(f) \cup {n + 1} \subseteq Lines(h)
    <2>1. n = 0 \/ f[n].part = "nl"
      BY <1>5 DEF Terminated
    <2>2. LineAt(h, n + 1)
      <3>1. n + 1 = 1 \/ h[(n + 1) - 1].part = "nl"
        BY <1>1, <2>1
      <3>2. /\ n + 1 \in 1 .. Len(h) /\ (n + 1) + 2 <= Len(h) /\ (n + 1) + 1 = n + 2
            /\ (n + 1) + 2 = n + 3 /\ (n + 1) + 3 = n + 4
        BY <1>1
      <3>3. h[(n + 1) + 3].part = "nl" /\ h[n + 1].part = "head" /\ h[n + 1].row = i
        BY <1>1, <3>2
      <3> QED  BY <1>1, <3>1, <3>2, <3>3 DEF LineAt
    <2>3. ASSUME NEW k \in Lines(f) PROVE k \in Lines(h)
      <3>1. LineAt(f, k)
        BY LineIs
      <3>2. k \in 1 .. n /\ k + 2 <= n /\ f[k + 2].part = "rest"
        BY <3>1 DEF LineAt
      <3>3. k + 2 # n
        BY <1>1, <2>1, <3>2
      <3>4. k + 3 \in 1 .. n /\ f[k + 3].part = "nl"
        BY <1>1, <3>1, <3>2, <3>3 DEF LineAt
      <3>5. h[k] = f[k] /\ h[k + 1] = f[k + 1] /\ h[k + 2] = f[k + 2] /\ h[k + 3] = f[k + 3]
            /\ (k # 1 => h[k - 1] = f[k - 1])
        <4>1. /\ k + 1 \in 1 .. n /\ k + 2 \in 1 .. n
              /\ k # 1 => k - 1 \in 1 .. n
          BY <1>1, <3>2
        <4> QED  BY <1>1, <3>2, <3>4, <4>1
      <3>6. k \in 1 .. Len(h) /\ k + 2 <= Len(h)
        BY <1>1, <3>2
      <3>7. LineAt(h, k)
        BY <3>1, <3>4, <3>5, <3>6 DEF LineAt
      <3> QED  BY <1>1, <3>7, LineIs
    <2> QED  BY <1>1, <2>2, <2>3, LineIs
  <1>6. Lines(h) \subseteq Lines(f) \cup {n + 1}
    BY <1>4
  <1> QED  BY <1>1, <1>2, <1>3, <1>5, <1>6 DEF h


(* Moving the front of the buffer into the file makes no line that closing   *)
(* it would not.                                                           *)
LEMMA SpillLines ==
  ASSUME NEW f \in Seq(Pieces), NEW b \in Seq(Pieces), NEW n \in 1 .. Len(b), Ended(b)
  PROVE  LET p == f \o SubSeq(b, 1, n)
             c == SubSeq(b, n + 1, Len(b))
         IN  /\ p \in Seq(Pieces) /\ c \in Seq(Pieces) /\ p \o c = f \o b
             /\ Lines(p) \subseteq Lines(f \o b)
             /\ Ended(c)
  <1> DEFINE a == SubSeq(b, 1, n)
             c == SubSeq(b, n + 1, Len(b))
             p == f \o a
             h == f \o b
             m == Len(f)
             z == Len(b)
  <1>1. m \in Nat /\ z \in Nat /\ n \in 1 .. z /\ DOMAIN b = 1 .. z /\ DOMAIN f = 1 .. m
    OBVIOUS
  <1>2. /\ a \in Seq(Pieces) /\ Len(a) = n /\ \A j \in 1 .. n : a[j] = b[j]
        /\ c \in Seq(Pieces) /\ Len(c) = z - n /\ \A j \in 1 .. z - n : c[j] = b[n + j]
        /\ DOMAIN c = 1 .. z - n
    <2>1. /\ a \in Seq(Pieces) /\ Len(a) = n /\ \A j \in 1 .. n : a[j] = b[j]
          /\ c \in Seq(Pieces) /\ Len(c) = z - n /\ \A j \in 1 .. z - n : c[j] = b[n + j]
      <3>1. n \in 0 .. Len(b)
        BY <1>1
      <3> QED  BY <3>1, SplitAt
    <2> QED  BY <2>1
  <1>3. /\ h \in Seq(Pieces) /\ Len(h) = m + z
        /\ \A j \in 1 .. m : h[j] = f[j]
        /\ \A j \in 1 .. z : h[m + j] = b[j]
    BY ConcatAt
  <1> HIDE DEF a, c
  <1>4. /\ p \in Seq(Pieces) /\ Len(p) = m + n
        /\ \A j \in 1 .. m : p[j] = f[j]
        /\ \A j \in 1 .. n : p[m + j] = a[j]
    <2>1. /\ f \o a \in Seq(Pieces) /\ Len(f \o a) = Len(f) + Len(a)
          /\ \A j \in 1 .. Len(f) : (f \o a)[j] = f[j]
          /\ \A j \in 1 .. Len(a) : (f \o a)[Len(f) + j] = a[j]
      <3>1. a \in Seq(Pieces)
        BY <1>2
      <3> QED  BY <3>1, ConcatAt
    <2>2. Len(a) = n
      BY <1>2
    <2> QED  BY <2>1, <2>2
  <1> HIDE DEF h, p
  <1>5. \A j \in 1 .. m + n : p[j] = h[j]
    <2> TAKE j \in 1 .. m + n
    <2>1. CASE j \in 1 .. m
      BY <1>3, <1>4, <2>1
    <2>2. CASE j \notin 1 .. m
      <3>1. j - m \in 1 .. n /\ j - m \in 1 .. z /\ j = m + (j - m)
        BY <1>1, <2>2
      <3>2. p[m + (j - m)] = a[j - m] /\ h[m + (j - m)] = b[j - m] /\ a[j - m] = b[j - m]
        BY <1>2, <1>3, <1>4, <3>1
      <3> QED  BY <3>1, <3>2
    <2> QED  BY <2>1, <2>2
  <1>6. p \o c = h
    <2> DEFINE g == p \o c
    <2>1. /\ g \in Seq(Pieces) /\ Len(g) = m + z
          /\ \A j \in 1 .. m + n : g[j] = p[j]
          /\ \A j \in 1 .. z - n : g[(m + n) + j] = c[j]
      <3>1. /\ g \in Seq(Pieces) /\ Len(g) = Len(p) + Len(c)
            /\ \A j \in 1 .. Len(p) : g[j] = p[j]
            /\ \A j \in 1 .. Len(c) : g[Len(p) + j] = c[j]
        <4>1. p \in Seq(Pieces) /\ c \in Seq(Pieces)
          BY <1>2, <1>4
        <4> QED  BY <4>1, ConcatAt
      <3>2. (m + n) + (z - n) = m + z /\ Len(p) = m + n /\ Len(c) = z - n
        BY <1>1, <1>2, <1>4
      <3> HIDE DEF g
      <3> QED  BY <3>1, <3>2
    <2> HIDE DEF g
    <2>2. \A j \in 1 .. m + z : g[j] = h[j]
      <3> TAKE j \in 1 .. m + z
      <3>1. CASE j \in 1 .. m + n
        BY <1>5, <2>1, <3>1
      <3>2. CASE j \notin 1 .. m + n
        <4>1. /\ j - (m + n) \in 1 .. z - n /\ j = (m + n) + (j - (m + n))
              /\ j - m \in 1 .. z /\ j = m + (j - m) /\ n + (j - (m + n)) = j - m
          BY <1>1, <3>2
        <4>2. g[(m + n) + (j - (m + n))] = c[j - (m + n)] /\ c[j - (m + n)] = b[n + (j - (m + n))]
          BY <1>2, <2>1, <4>1
        <4>3. h[m + (j - m)] = b[j - m]
          BY <1>3, <4>1
        <4> QED  BY <4>1, <4>2, <4>3
      <3> QED  BY <3>1, <3>2
    <2>3. Len(g) = Len(h) /\ \A j \in 1 .. Len(g) : g[j] = h[j]
      BY <1>3, <2>1, <2>2
    <2>4. g = h
      BY <1>3, <2>1, <2>3, SeqEqual
    <2> QED  BY <2>4 DEF g
  <1>7. ASSUME NEW k \in Lines(p) PROVE k \in Lines(h)
    <2>1. /\ k \in 1 .. m + n /\ k + 2 <= m + n /\ (k = 1 \/ p[k - 1].part = "nl")
          /\ p[k].part = "head" /\ p[k + 1] = [part |-> "char", row |-> p[k].row]
          /\ p[k + 2] = [part |-> "rest", row |-> p[k].row]
          /\ k + 2 = m + n \/ p[k + 3].part = "nl"
      <3>1. LineAt(p, k)
        BY <1>4, LineIs
      <3> QED  BY <1>4, <3>1 DEF LineAt
    <2>2. /\ k + 1 \in 1 .. m + n /\ k + 2 \in 1 .. m + n /\ (k # 1 => k - 1 \in 1 .. m + n)
          /\ k \in 1 .. m + z /\ k + 2 <= m + z
      BY <1>1, <2>1
    <2>3. h[k] = p[k] /\ h[k + 1] = p[k + 1] /\ h[k + 2] = p[k + 2] /\ (k # 1 => h[k - 1] = p[k - 1])
      BY <1>5, <2>1, <2>2
    <2>4. h[k + 3].part = "nl"
      <3>1. CASE k + 2 = m + n
        <4>1. k + 2 = m + n /\ k + 3 = m + (n + 1)
          BY <1>1, <2>1, <3>1
        <4>2. h[m + n] = b[n] /\ b[n].part = "rest"
          BY <1>1, <1>3, <2>1, <2>3, <4>1
        <4>3. n + 1 \in 1 .. z /\ b[n + 1].part = "nl"
          BY <1>1, <4>2 DEF Ended
        <4>4. h[m + (n + 1)] = b[n + 1]
          BY <1>3, <4>3
        <4> QED  BY <4>1, <4>3, <4>4
      <3>2. CASE k + 2 # m + n
        <4>1. k + 3 \in 1 .. m + n
          BY <1>1, <2>1, <3>2
        <4> QED  BY <1>5, <2>1, <3>2, <4>1
      <3> QED  BY <3>1, <3>2
    <2>5. LineAt(h, k)
      BY <1>3, <2>1, <2>2, <2>3, <2>4 DEF LineAt
    <2> QED  BY <1>3, <2>5, LineIs
  <1>8. ASSUME NEW j \in DOMAIN c, c[j].part = "rest"
        PROVE  j + 1 \in DOMAIN c /\ c[j + 1].part = "nl"
    <2>1. j \in 1 .. z - n /\ c[j] = b[n + j] /\ n + j \in 1 .. z
      BY <1>1, <1>2
    <2>2. (n + j) + 1 \in 1 .. z /\ b[(n + j) + 1].part = "nl"
      BY <1>1, <1>8, <2>1 DEF Ended
    <2>3. j + 1 \in 1 .. z - n /\ n + (j + 1) = (n + j) + 1
      BY <1>1, <2>1, <2>2
    <2>4. c[j + 1] = b[n + (j + 1)]
      BY <1>2, <2>3
    <2> QED  BY <1>2, <2>2, <2>3, <2>4
  <1>9. p \in Seq(Pieces) /\ c \in Seq(Pieces) /\ Lines(p) \subseteq Lines(h)
    BY <1>2, <1>4, <1>7
  <1>10. Ended(c)
    BY <1>8 DEF Ended
  <1> QED  BY <1>6, <1>9, <1>10 DEF a, c, h, p


(* A line is a place of the file; its row is one of the shard's.           *)
LEMMA LineFacts ==
  ASSUME NEW f \in Seq(Pieces)
  PROVE  /\ \A k \in Lines(f) : k \in 1 .. Len(f)
         /\ Recorded(f) \subseteq Rows
  <1>1. \A k \in Lines(f) : k \in 1 .. Len(f)
    BY DEF Lines
  <1>2. \A k \in 1 .. Len(f) : f[k] \in Pieces
    OBVIOUS
  <1> QED  BY <1>1, <1>2 DEF Recorded, Pieces

(* The file as it would be closed has the file in front.                   *)
LEMMA ClosingFacts ==
  ASSUME ShardType
  PROVE  /\ Closing \in Seq(Pieces)
         /\ \A k \in 1 .. Len(file) : Closing[k] = file[k]
         /\ Held \subseteq 1 .. Len(Closing)
         /\ buffer = <<>> => Closing = file
  <1>1. /\ Closing \in Seq(Pieces) /\ Len(Closing) = Len(file) + Len(buffer)
        /\ \A k \in 1 .. Len(file) : Closing[k] = file[k]
    BY ConcatAt DEF ShardType, Closing
  <1>2. Len(file) \in Nat /\ Len(buffer) \in Nat /\ file \in Seq(Pieces)
    BY DEF ShardType
  <1>3. Lines(file) \subseteq 1 .. Len(file) /\ Lines(Closing) \subseteq 1 .. Len(Closing)
    BY <1>1, <1>2, LineFacts
  <1>4. 1 .. Len(file) \subseteq 1 .. Len(Closing)
    BY <1>1, <1>2
  <1>5. buffer = <<>> => Closing = file
    BY <1>2, ConcatEmptySeq DEF Closing
  <1> QED  BY <1>1, <1>3, <1>4, <1>5 DEF Held

(* What emitting a row does to the file and the buffer.                    *)
LEMMA EmitWrites ==
  ASSUME ShardType, BufferInv, NEW i \in Rows, Emit(i)
  PROVE  /\ file' \in Seq(Pieces) /\ buffer' \in Seq(Pieces) /\ count' \in Nat
         /\ Closing' = Closing \o Record(i)
         /\ file' = file \/ file' = Closing'
         /\ BufferInv'
  <1>1. file \in Seq(Pieces) /\ buffer \in Seq(Pieces) /\ count' \in Nat
    BY DEF ShardType, Emit
  <1>2. Record(i) \in Seq(Pieces) /\ Len(Record(i)) = 4 /\ Record(i)[4].part = "nl"
        /\ Record(i)[1].part = "head" /\ Record(i)[2].part = "char"
    <2>1. /\ Record(i) \in Seq(Pieces) /\ Len(Record(i)) = 4
          /\ Record(i)[1] = [part |-> "head", row |-> i]
          /\ Record(i)[2] = [part |-> "char", row |-> i]
          /\ Record(i)[4] = [part |-> "nl", row |-> i]
      BY RecordFacts
    <2> DEFINE r == Record(i)
    <2> HIDE DEF r
    <2>2. r[1].part = "head" /\ r[2].part = "char" /\ r[4].part = "nl"
      BY <2>1 DEF r
    <2> QED  BY <2>1, <2>2 DEF r
  <1> DEFINE r == Record(i)
  <1> HIDE DEF r
  <1>3. r \in Seq(Pieces) /\ Len(r) = 4 /\ r[4].part = "nl" /\ r[1].part = "head"
        /\ r[2].part = "char"
    BY <1>2 DEF r
  <1>4. \/ file' = file \o buffer \o r /\ buffer' = <<>>
        \/ file' = file /\ buffer' = buffer \o r
    BY DEF Emit, r
  <1>5. /\ file \o buffer \in Seq(Pieces) /\ buffer \o r \in Seq(Pieces)
        /\ (file \o buffer) \o r \in Seq(Pieces)
        /\ file \o (buffer \o r) = (file \o buffer) \o r
    <2>1. r \in Seq(Pieces)
      BY <1>3
    <2>2. file \o buffer \in Seq(Pieces) /\ buffer \o r \in Seq(Pieces)
      BY <1>1, <2>1, ConcatProperties
    <2>3. (file \o buffer) \o r \in Seq(Pieces)
      BY <2>1, <2>2, ConcatProperties
    <2>4. file \o (buffer \o r) = (file \o buffer) \o r
      BY <1>1, <2>1, ConcatAssociative, SMTT(40)
    <2> QED  BY <2>2, <2>3, <2>4
  <1>6. CASE file' = file \o buffer \o r /\ buffer' = <<>>
    <2>1. Closing' = (file \o buffer) \o r
      BY <1>5, <1>6, ConcatEmptySeq DEF Closing
    <2>2. BufferInv'
      BY <1>6 DEF BufferInv, Ended
    <2> QED  BY <1>1, <1>5, <1>6, <2>1, <2>2 DEF Closing, r
  <1>7. CASE file' = file /\ buffer' = buffer \o r
    <2>1. Closing' = (file \o buffer) \o r
      BY <1>5, <1>7 DEF Closing
    <2> DEFINE b == buffer \o r
               n == Len(buffer)
    <2>2. /\ Len(b) = n + 4 /\ b \in Seq(Pieces)
          /\ \A j \in 1 .. n : b[j] = buffer[j]
          /\ \A j \in 1 .. 4 : b[n + j] = r[j]
      <3>1. r \in Seq(Pieces) /\ Len(r) = 4
        BY <1>3
      <3>2. /\ b \in Seq(Pieces) /\ Len(b) = Len(buffer) + Len(r)
            /\ \A j \in 1 .. Len(buffer) : b[j] = buffer[j]
            /\ \A j \in 1 .. Len(r) : b[Len(buffer) + j] = r[j]
        <4>1. buffer \in Seq(Pieces) /\ r \in Seq(Pieces)
          BY <1>1, <3>1
        <4> QED  BY <4>1, ConcatAt
      <3> HIDE DEF b
      <3> QED  BY <3>1, <3>2
    <2>3. n \in Nat /\ DOMAIN buffer = 1 .. n
      BY <1>1
    <2> HIDE DEF b, n
    <2>4. ASSUME NEW j \in 1 .. n + 4, b[j].part = "rest"
          PROVE  j + 1 \in 1 .. n + 4 /\ b[j + 1].part = "nl"
      <3>1. CASE j \in 1 .. n
        <4>1. buffer[j].part = "rest"
          BY <2>2, <2>4, <3>1
        <4>2. j + 1 \in 1 .. n /\ buffer[j + 1].part = "nl"
          BY <2>3, <3>1, <4>1 DEF BufferInv, Ended
        <4>3. j + 1 \in 1 .. n + 4
          BY <2>3, <4>2
        <4> QED  BY <2>2, <4>2, <4>3
      <3>2. CASE j \notin 1 .. n
        <4>1. j - n \in 1 .. 4 /\ j = n + (j - n)
          BY <2>3, <3>2
        <4>2. b[j] = r[j - n]
          BY <2>2, <4>1
        <4>3. j - n # 1 /\ j - n # 2 /\ j - n # 4
          BY <1>3, <2>4, <4>2
        <4>4. j = n + 3 /\ j + 1 = n + 4 /\ n + 4 \in 1 .. n + 4 /\ 4 \in 1 .. 4
          BY <2>3, <4>1, <4>3
        <4>5. b[n + 4] = r[4]
          BY <2>2
        <4> QED  BY <1>3, <4>4, <4>5
      <3> QED  BY <3>1, <3>2
    <2>5. DOMAIN b = 1 .. n + 4
      BY <2>2
    <2>6. BufferInv'
      <3>1. buffer' = b
        BY <1>7 DEF b
      <3> QED  BY <2>4, <2>5, <3>1 DEF BufferInv, Ended
    <2> QED  BY <1>1, <1>5, <1>7, <2>1, <2>6 DEF Closing, r
  <1> QED  BY <1>4, <1>6, <1>7


(* Emitting a row that was left: its line is the only new one.             *)
LEMMA EmitStep ==
  ASSUME ShardInv, NEW i \in Rows, i \in Left, Emit(i), Left' = Left \ {i},
         phase \notin Idle, phase' = phase, finished' = finished
  PROVE  file' \in Seq(Pieces) /\ buffer' \in Seq(Pieces) /\ count' \in Nat
         /\ BufferInv' /\ UniqueInv' /\ HealInv'
  <1> DEFINE c == Closing
             h == c \o Record(i)
             n == Len(c)
  <1>1. ShardType /\ BufferInv /\ UniqueInv /\ HealInv
    BY DEF ShardInv
  <1>2. /\ file' \in Seq(Pieces) /\ buffer' \in Seq(Pieces) /\ count' \in Nat
        /\ Closing' = h /\ BufferInv' /\ (file' = file \/ file' = h)
    <2> HIDE DEF h
    <2>1. /\ file' \in Seq(Pieces) /\ buffer' \in Seq(Pieces) /\ count' \in Nat
          /\ Closing' = Closing \o Record(i) /\ BufferInv' /\ (file' = file \/ file' = Closing')
      BY <1>1, EmitWrites
    <2> QED  BY <2>1 DEF h
  <1>3. c \in Seq(Pieces) /\ Held \subseteq 1 .. n
    BY <1>1, ClosingFacts
  <1>4. /\ Terminated(h) /\ h[n + 1].row = i
        /\ Lines(h) \subseteq Lines(c) \cup {n + 1}
        /\ Terminated(c) => Lines(c) \cup {n + 1} \subseteq Lines(h)
    <2> HIDE DEF c
    <2>1. c \in Seq(Pieces)
      BY <1>3
    <2> QED  BY <2>1, EmitLines
  <1>5. \A k \in 1 .. n : h[k] = c[k]
    <2> HIDE DEF c
    <2>1. c \in Seq(Pieces) /\ Record(i) \in Seq(Pieces)
      BY <1>3, RecordFacts
    <2> QED  BY <2>1, ConcatAt
  <1>6. Held' \subseteq Held \cup {n + 1}
    BY <1>2, <1>4 DEF Held
  <1> HIDE DEF h
  <1>7. /\ \A k, m \in Held : c[k].row = c[m].row => k = m
        /\ \A k \in Held : c[k].row \notin Left
    BY <1>1 DEF UniqueInv
  <1> HIDE DEF c, n
  <1>8. \A k \in Held : h[k] = c[k] /\ h[k].row # i
    BY <1>3, <1>5, <1>7
  <1>9. /\ \A k, m \in Held \cup {n + 1} : h[k].row = h[m].row => k = m
        /\ \A k \in Held \cup {n + 1} : h[k].row \notin Left \ {i}
    BY <1>4, <1>7, <1>8
  <1>10. UniqueInv'
    BY <1>2, <1>6, <1>9 DEF UniqueInv
  <1>11. HealInv'
    <2>1. phase' \notin Idle => Left' # {} \/ Terminated(Closing')
      BY <1>2, <1>4
    <2>2. ASSUME finished' # 0, MaxItems = 0
          PROVE  Terminated(Closing') /\ Rows \subseteq Recorded(Closing') \cup Left'
      <3>1. Terminated(c) /\ Rows \subseteq Recorded(c) \cup Left
        BY <1>1, <2>2 DEF HealInv, c
      <3>2. Lines(c) \cup {n + 1} \subseteq Lines(h)
        BY <1>4, <3>1
      <3>3. Recorded(c) \subseteq Recorded(h)
        <4>1. \A k \in Lines(c) : h[k] = c[k]
          BY <1>8 DEF Held, c
        <4> QED  BY <3>2, <4>1 DEF Recorded
      <3>4. i \in Recorded(h)
        BY <1>4, <3>2 DEF Recorded
      <3> QED  BY <1>2, <1>4, <3>1, <3>3, <3>4
    <2>3. phase' # "finished"
      BY DEF Idle
    <2> QED  BY <2>1, <2>2, <2>3 DEF HealInv
  <1> QED  BY <1>2, <1>10, <1>11

(* Steps of a run that write nothing and finish with no row.               *)
LEMMA QuietStep ==
  ASSUME ShardInv, file' = file, buffer' = buffer, Left' = Left,
         phase \notin Idle, phase' \notin Idle, finished' = finished
  PROVE  BufferInv' /\ UniqueInv' /\ HealInv'
  <1>1. Closing' = Closing /\ Held' = Held /\ BufferInv' /\ phase' # "finished"
    BY DEF ShardInv, Closing, Held, BufferInv, Idle
  <1>2. UniqueInv'
    BY <1>1 DEF ShardInv, UniqueInv
  <1>3. HealInv'
    BY <1>1 DEF ShardInv, HealInv
  <1> QED  BY <1>1, <1>2, <1>3

(* The buffer spills in mid-record.                                        *)
LEMMA SpillStep ==
  ASSUME ShardInv, Spill
  PROVE  ShardInv'
  <1>1. PICK n \in 1 .. Len(buffer) : /\ file' = file \o SubSeq(buffer, 1, n)
                                      /\ buffer' = SubSeq(buffer, n + 1, Len(buffer))
    BY DEF Spill
  <1>2. /\ phase' = phase /\ pending' = pending /\ unprobed' = unprobed /\ good' = good
        /\ batch' = batch /\ count' = count /\ finished' = finished
    BY DEF Spill, work, tally
  <1>3. ShardType /\ WorkInv /\ BufferInv /\ UniqueInv /\ HealInv
    BY DEF ShardInv
  <1>4. /\ file' \in Seq(Pieces) /\ buffer' \in Seq(Pieces)
        /\ Closing' = Closing /\ Lines(file') \subseteq Lines(Closing)
        /\ Ended(buffer')
    <2>1. /\ file \in Seq(Pieces) /\ buffer \in Seq(Pieces)
          /\ Ended(buffer)
      BY <1>3 DEF ShardType, BufferInv
    <2> DEFINE p == file \o SubSeq(buffer, 1, n)
               c == SubSeq(buffer, n + 1, Len(buffer))
    <2>2. /\ p \in Seq(Pieces) /\ c \in Seq(Pieces) /\ p \o c = file \o buffer
          /\ Lines(p) \subseteq Lines(file \o buffer)
          /\ Ended(c)
      <3>1. n \in 1 .. Len(buffer)
        BY <1>1
      <3> QED  BY Zenon, <2>1, <3>1, SpillLines
    <2>3. file' = p /\ buffer' = c
      BY <1>1
    <2> HIDE DEF p, c
    <2> QED  BY <2>2, <2>3 DEF Closing
  <1>5. BufferInv'
    BY <1>4 DEF BufferInv, Ended
  <1>6. phase \notin Idle
    <2>1. buffer # <<>>
      BY <1>1
    <2> QED  BY <1>3, <2>1 DEF WorkInv
  <1>7. Held' \subseteq Held /\ Left' = Left
    BY <1>2, <1>4 DEF Held, Left
  <1>8. UniqueInv'
    BY <1>3, <1>4, <1>7 DEF UniqueInv
  <1>9. HealInv'
    BY <1>2, <1>3, <1>4, <1>6, <1>7 DEF HealInv, Idle
  <1>10. ShardType' /\ WorkInv'
    BY <1>2, <1>3, <1>4, <1>6 DEF ShardType, WorkInv
  <1> QED  BY <1>5, <1>8, <1>9, <1>10 DEF ShardInv

(* The run closes the file.                                                *)
LEMMA LeaveStep ==
  ASSUME ShardInv, phase \notin Idle, NEW how \in {"finished", "raised"}, Leave(how),
         how = "finished" => Left = {}
  PROVE  ShardInv'
  <1>1. ShardType /\ WorkInv /\ BufferInv /\ UniqueInv /\ HealInv
    BY DEF ShardInv
  <1>2. /\ phase' = how /\ file' = Closing /\ buffer' = <<>>
        /\ finished' = finished + IF how = "finished" THEN 1 ELSE 0
        /\ pending' = pending /\ unprobed' = unprobed /\ good' = good
        /\ batch' = batch /\ count' = count
    BY DEF Leave, work, Closed, Closing
  <1>3. Closing \in Seq(Pieces)
    BY <1>1, ClosingFacts
  <1>4. finished \in Nat
    BY <1>1 DEF ShardType
  <1>5. ShardType'
    <2>1. finished' \in Nat /\ phase' \in Phases
      BY <1>2, <1>4 DEF Phases
    <2>2. file' \in Seq(Pieces) /\ buffer' \in Seq(Pieces)
      BY <1>2, <1>3
    <2> QED  BY <1>1, <1>2, <2>1, <2>2 DEF ShardType
  <1>6. BufferInv'
    BY <1>2 DEF BufferInv, Ended
  <1>7. WorkInv'
    BY <1>1, <1>2 DEF WorkInv, Idle
  <1>8. Closing' = Closing /\ Left' = Left /\ phase' \in Idle
    <2>1. Closing' = Closing \o <<>>
      BY <1>2 DEF Closing
    <2>2. Closing \o <<>> = Closing
      BY <1>3, ConcatEmptySeq
    <2> QED  BY <1>2, <2>1, <2>2 DEF Left, Idle
  <1>9. Held' \subseteq Held
    BY <1>2, <1>8 DEF Held
  <1>10. UniqueInv'
    BY <1>1, <1>8, <1>9 DEF UniqueInv
  <1>11. HealInv'
    <2>1. ASSUME finished' # 0, MaxItems = 0 PROVE Terminated(file')
      <3>1. CASE finished # 0
        BY <1>1, <1>2, <2>1, <3>1 DEF HealInv
      <3>2. CASE finished = 0
        <4>1. how = "finished"
          BY <1>2, <2>1, <3>2
        <4> QED  BY <1>1, <1>2, <4>1 DEF HealInv
      <3> QED  BY <3>1, <3>2
    <2>2. ASSUME phase' = "finished", finished' >= 2, MaxItems = 0
          PROVE  Recorded(file') = Rows
      <3>1. finished # 0 /\ Left = {}
        BY <1>2, <1>4, <2>2
      <3>2. Rows \subseteq Recorded(Closing)
        BY <1>1, <2>2, <3>1 DEF HealInv
      <3>3. Recorded(Closing) \subseteq Rows
        BY <1>3, LineFacts
      <3> QED  BY <1>2, <3>2, <3>3
    <2> QED  BY <1>8, <2>1, <2>2 DEF HealInv
  <1> QED  BY <1>5, <1>6, <1>7, <1>10, <1>11 DEF ShardInv

(* The process is killed: what the buffer held is gone.                    *)
LEMMA KillStep ==
  ASSUME ShardInv, Kill
  PROVE  ShardInv'
  <1>1. ShardType /\ WorkInv /\ UniqueInv
    BY DEF ShardInv
  <1>2. /\ phase' = "off" /\ file' = file /\ buffer' = <<>> /\ finished' = 0
        /\ pending' = pending /\ unprobed' = unprobed /\ good' = good
        /\ batch' = batch /\ count' = count
    BY DEF Kill, work
  <1>3. file \in Seq(Pieces) /\ Lines(file) \subseteq 1 .. Len(file)
        /\ \A k \in 1 .. Len(file) : Closing[k] = file[k]
    BY <1>1, ClosingFacts, LineFacts DEF ShardType
  <1>4. Closing' = file /\ Left' = Left
    BY <1>2, <1>3, ConcatEmptySeq DEF Closing, Left
  <1>5. Held' = Lines(file)
    BY <1>2, <1>4 DEF Held
  <1>6. ShardType' /\ WorkInv' /\ BufferInv'
    BY <1>1, <1>2 DEF ShardType, WorkInv, BufferInv, Ended, Idle, Phases
  <1>7. UniqueInv'
    BY <1>1, <1>3, <1>4, <1>5 DEF UniqueInv, Held
  <1>8. HealInv'
    BY <1>2 DEF HealInv, Idle
  <1> QED  BY <1>6, <1>7, <1>8 DEF ShardInv


(* A run begins: what has a line is not done again.                        *)
LEMMA StartStep ==
  ASSUME ShardInv, Start
  PROVE  ShardInv'
  <1>1. ShardType /\ WorkInv /\ BufferInv /\ UniqueInv /\ HealInv
    BY DEF ShardInv
  <1>2. /\ phase \in Idle /\ file' = file /\ buffer' = buffer /\ buffer = <<>>
        /\ finished' = finished
    BY <1>1 DEF Start, WorkInv, Idle
  <1>3. Closing' = Closing /\ Closing = file /\ Held' = Held
    BY <1>1, <1>2, ClosingFacts DEF Closing, Held
  <1>4. BufferInv'
    BY <1>2 DEF BufferInv, Ended
  <1>5. CASE Undecodable(file)
    <2>1. /\ phase' = "undecodable" /\ unprobed' = unprobed /\ good' = good /\ batch' = batch
          /\ count' = count
      BY <1>5 DEF Start, work
    <2>2. ShardType' /\ WorkInv' /\ Left' = Left
      BY <1>1, <1>2, <2>1 DEF ShardType, WorkInv, Phases, Idle, Left
    <2>3. UniqueInv'
      BY <1>1, <1>3, <2>2 DEF UniqueInv
    <2>4. HealInv'
      BY <1>1, <1>2, <2>1 DEF HealInv, Idle
    <2> QED  BY <1>4, <2>2, <2>3, <2>4 DEF ShardInv
  <1>6. CASE ~Undecodable(file)
    <2> DEFINE todo == Limited(Rows \ Done(file))
    <2>1. /\ phase' = (IF todo = {} THEN "finished" ELSE "probe")
          /\ unprobed' = todo /\ good' = {} /\ batch' = {} /\ count' = 0
      BY <1>6 DEF Start, CountAtStart
    <2>2. /\ todo \subseteq Rows \ Recorded(file)
          /\ MaxItems = 0 => todo = Rows \ Recorded(file)
      BY DEF Limited, Done
    <2> HIDE DEF todo
    <2>3. Left' = todo
      BY <2>1 DEF Left
    <2>4. ShardType' /\ WorkInv'
      <3>1. phase' \in Phases /\ phase' \in {"finished", "probe"}
        BY <2>1 DEF Phases
      <3>2. ShardType'
        BY <1>1, <1>2, <2>1, <2>2, <3>1 DEF ShardType
      <3>3. WorkInv'
        BY <1>2, <2>1, <3>1 DEF WorkInv
      <3> QED  BY <3>2, <3>3
    <2>5. UniqueInv'
      <3>1. Held = Lines(file)
        BY <1>3 DEF Held
      <3>2. \A k \in Held : file[k].row \in Recorded(file)
        BY <3>1 DEF Recorded
      <3> QED  BY <1>1, <1>3, <2>2, <2>3, <3>2 DEF UniqueInv
    <2>6. Recorded(file) \subseteq Rows
      BY <1>1, LineFacts DEF ShardType
    <2>7. HealInv'
      <3>1. CASE todo = {}
        <4>1. phase' = "finished"
          BY <2>1, <3>1
        <4>2. MaxItems = 0 => Recorded(file) = Rows
          BY <2>2, <2>6, <3>1
        <4> QED  BY <1>2, <4>1, <4>2 DEF HealInv, Idle
      <3>2. CASE todo # {}
        <4>1. phase' = "probe" /\ Left' # {}
          BY <2>1, <2>3, <3>2
        <4>2. ASSUME finished # 0, MaxItems = 0
              PROVE  Terminated(file) /\ Rows \subseteq Recorded(file) \cup todo
          <5>1. Terminated(file) \/ Recorded(file) = Rows
            BY <1>1, <1>2, <4>2 DEF HealInv
          <5> QED  BY <2>2, <3>2, <4>2, <5>1
        <4> QED  BY <1>2, <1>3, <2>3, <4>1, <4>2 DEF HealInv
      <3> QED  BY <3>1, <3>2
    <2> QED  BY <1>4, <2>4, <2>5, <2>7 DEF ShardInv
  <1> QED  BY <1>5, <1>6

(* A row's audio is probed.                                                *)
LEMMA ProbeStep ==
  ASSUME ShardAssumption, ShardInv, Probe
  PROVE  ShardInv'
  <1>1. ShardType /\ WorkInv
    BY DEF ShardInv
  <1>2. PICK i \in unprobed : /\ unprobed' = unprobed \ {i}
                              /\ \/ Emit(i) /\ good' = good
                                 \/ /\ good' = good \cup {i} /\ file' = file
                                    /\ buffer' = buffer /\ count' = count
    <2>1. Min(unprobed) \in unprobed
      <3>1. unprobed \subseteq Nat /\ unprobed # {}
        BY <1>1 DEF ShardAssumption, ShardType, Probe
      <3>2. \E n \in unprobed : \A m \in unprobed : n <= m
        BY <3>1, LeastNat
      <3> QED  BY <3>2 DEF Min
    <2> QED  BY <2>1 DEF Probe
  <1>3. /\ phase = "probe" /\ phase' = phase /\ batch' = batch /\ finished' = finished
    BY DEF Probe, tally
  <1>4. i \in Rows /\ i \notin good /\ i \notin batch /\ i \in Left /\ phase \notin Idle
    BY <1>1, <1>2, <1>3 DEF ShardType, WorkInv, Left, Idle
  <1>5. CASE Emit(i) /\ good' = good
    <2>1. Left' = Left \ {i}
      BY <1>2, <1>3, <1>4, <1>5 DEF Left
    <2>2. /\ file' \in Seq(Pieces) /\ buffer' \in Seq(Pieces) /\ count' \in Nat
          /\ BufferInv' /\ UniqueInv' /\ HealInv'
      BY <1>3, <1>4, <1>5, <2>1, EmitStep
    <2>3. ShardType' /\ WorkInv'
      BY <1>1, <1>2, <1>3, <1>4, <1>5, <2>2 DEF ShardType, WorkInv
    <2> QED  BY <2>2, <2>3 DEF ShardInv
  <1>6. CASE good' = good \cup {i} /\ file' = file /\ buffer' = buffer /\ count' = count
    <2>1. Left' = Left
      BY <1>2, <1>3, <1>6 DEF Left
    <2>2. BufferInv' /\ UniqueInv' /\ HealInv'
      BY <1>3, <1>4, <1>6, <2>1, QuietStep
    <2>3. ShardType' /\ WorkInv'
      BY <1>1, <1>2, <1>3, <1>4, <1>6 DEF ShardType, WorkInv
    <2> QED  BY <2>2, <2>3 DEF ShardInv
  <1> QED  BY <1>2, <1>5, <1>6

(* A row's result is emitted, by whichever part of the run has it.         *)
LEMMA ResultStep ==
  ASSUME ShardInv, NEW i \in Rows, EngineResult(i) \/ BatchResult(i) \/ LongResult(i)
  PROVE  ShardInv'
  <1>1. ShardType /\ WorkInv
    BY DEF ShardInv
  <1>2. /\ Emit(i) /\ phase' = phase /\ finished' = finished /\ unprobed' = unprobed
        /\ phase \in {"short", "long", "engine"}
        /\ \/ i \in good /\ good' = good \ {i} /\ batch' = batch
           \/ i \in batch /\ batch' = batch \ {i} /\ good' = good
    BY DEF EngineResult, BatchResult, LongResult, tally
  <1>3. phase \notin Idle /\ i \in Left /\ Left' = Left \ {i}
    BY <1>1, <1>2 DEF WorkInv, Left, Idle
  <1>4. /\ file' \in Seq(Pieces) /\ buffer' \in Seq(Pieces) /\ count' \in Nat
        /\ BufferInv' /\ UniqueInv' /\ HealInv'
    BY <1>2, <1>3, EmitStep
  <1>5. ShardType' /\ WorkInv'
    BY <1>1, <1>2, <1>3, <1>4 DEF ShardType, WorkInv
  <1> QED  BY <1>4, <1>5 DEF ShardInv

(* A step that hands rows on, or goes on to the next part of a run.        *)
LEMMA HandStep ==
  ASSUME ShardInv,
         \/ \E rows \in SUBSET (good \ Long) : TakeBatch(rows)
         \/ ShortDone
  PROVE  ShardInv'
  <1>1. ShardType /\ WorkInv
    BY DEF ShardInv
  <1>2. /\ phase = "short" /\ phase' \in {"short", "long"} /\ batch = {}
        /\ file' = file /\ buffer' = buffer /\ unprobed' = unprobed /\ count' = count
        /\ finished' = finished
        /\ good' \cup batch' = good /\ good' \cap batch' = {}
        /\ phase' = "long" => batch' = {}
    <2>1. CASE ShortDone
      BY <2>1 DEF ShortDone, work, tally
    <2>2. CASE \E rows \in SUBSET (good \ Long) : TakeBatch(rows)
      <3>1. PICK rows \in SUBSET (good \ Long) : TakeBatch(rows)
        BY <2>2
      <3> QED  BY <3>1 DEF TakeBatch, tally
    <2> QED  BY <2>1, <2>2
  <1>3. Left' = Left /\ phase \notin Idle /\ phase' \notin Idle
    BY <1>2 DEF Left, Idle
  <1>4. BufferInv' /\ UniqueInv' /\ HealInv'
    BY <1>2, <1>3, QuietStep
  <1>5. ShardType' /\ WorkInv'
    <2>1. phase' \in Phases
      BY <1>2 DEF Phases
    <2>2. good' \subseteq good /\ batch' \subseteq good
      BY <1>2
    <2>3. ShardType'
      BY <1>1, <1>2, <2>1, <2>2 DEF ShardType
    <2>4. WorkInv'
      BY <1>1, <1>2, <1>3, <2>2 DEF WorkInv
    <2> QED  BY <2>3, <2>4
  <1> QED  BY <1>4, <1>5 DEF ShardInv

(* The model is loaded, or the run ends before it is.                      *)
LEMMA PrepareStep ==
  ASSUME ShardInv, NEW backend \in {"short", "engine"}, Prepare(backend) \/ LoadFails
  PROVE  ShardInv'
  <1>1. ShardType /\ WorkInv
    BY DEF ShardInv
  <1>2. phase = "probe" /\ phase \notin Idle /\ unprobed = {}
    BY DEF Prepare, LoadFails, Idle
  <1>3. CASE Leave("raised")
    BY <1>2, <1>3, LeaveStep
  <1>4. CASE /\ phase' = backend /\ file' = file /\ buffer' = buffer
             /\ unprobed' = unprobed /\ good' = good /\ batch' = batch /\ count' = count
             /\ finished' = finished
    <2>1. Left' = Left /\ phase' \notin Idle /\ phase' \in Phases
      BY <1>4 DEF Left, Idle, Phases
    <2>2. BufferInv' /\ UniqueInv' /\ HealInv'
      BY <1>2, <1>4, <2>1, QuietStep
    <2>3. ShardType' /\ WorkInv'
      BY <1>1, <1>2, <1>4, <2>1 DEF ShardType, WorkInv
    <2> QED  BY <2>2, <2>3 DEF ShardInv
  <1> QED  BY <1>3, <1>4 DEF Prepare, LoadFails, work, tally

(* The invariant of the command is inductive.                              *)
THEOREM ShardInductive == Spec => []ShardInv
  <1>1. Init => ShardInv
    <2> SUFFICES ASSUME Init PROVE ShardInv
      OBVIOUS
    <2>1. ShardType /\ WorkInv /\ BufferInv
      BY DEF Init, ShardType, WorkInv, BufferInv, Ended, Phases
    <2>2. Lines(<<>>) = {}
      BY DEF Lines
    <2>3. Closing = <<>> /\ Held = {}
      <3>1. Closing = file
        BY <2>1, ClosingFacts DEF Init
      <3> QED  BY <2>2, <3>1 DEF Init, Held
    <2>4. UniqueInv
      BY <2>3 DEF UniqueInv
    <2>5. HealInv
      BY DEF Init, HealInv, Idle
    <2> QED  BY <2>1, <2>4, <2>5 DEF ShardInv
  <1>2. ShardInv /\ [Next]_vars => ShardInv'
    <2> SUFFICES ASSUME ShardInv, [Next]_vars PROVE ShardInv'
      OBVIOUS
    <2> USE ShardAssumption
    <2>1. CASE Start
      BY <2>1, StartStep
    <2>2. CASE Spill
      BY <2>2, SpillStep
    <2>3. CASE Probe
      BY <2>3, ProbeStep
    <2>4. CASE LoadFails
      BY <2>4, PrepareStep
    <2>5. ASSUME NEW backend \in {"short", "engine"}, Prepare(backend) PROVE ShardInv'
      BY <2>5, PrepareStep
    <2>6. ASSUME NEW i \in Rows, EngineResult(i) \/ BatchResult(i) \/ LongResult(i)
          PROVE  ShardInv'
      BY <2>6, ResultStep
    <2>7. CASE EngineReturns
      <3>1. phase \notin Idle /\ Left = {} /\ Leave("finished")
        BY <2>7 DEF EngineReturns, Idle, Left, ShardInv, WorkInv
      <3> QED  BY <3>1, LeaveStep
    <2>8. CASE EngineRaises
      <3>1. phase \notin Idle /\ Leave("raised")
        BY <2>8 DEF EngineRaises, Idle
      <3> QED  BY <3>1, LeaveStep
    <2>9. CASE (\E rows \in SUBSET (good \ Long) : TakeBatch(rows)) \/ ShortDone
      BY <2>9, HandStep
    <2>10. CASE LongDone
      <3>1. phase \notin Idle /\ Left = {} /\ Leave("finished")
        BY <2>10 DEF LongDone, Idle, Left, ShardInv, WorkInv
      <3> QED  BY <3>1, LeaveStep
    <2>11. CASE Kill
      BY <2>11, KillStep
    <2>12. CASE UNCHANGED vars
      <3>1. /\ file' = file /\ buffer' = buffer /\ phase' = phase /\ unprobed' = unprobed
            /\ good' = good /\ batch' = batch /\ count' = count /\ finished' = finished
        BY <2>12 DEF vars
      <3>2. Closing' = Closing /\ Held' = Held /\ Left' = Left
        BY <3>1 DEF Closing, Held, Left
      <3>3. ShardType' /\ WorkInv' /\ BufferInv'
        BY <3>1 DEF ShardInv, ShardType, WorkInv, BufferInv
      <3>4. UniqueInv' /\ HealInv'
        BY <3>1, <3>2 DEF ShardInv, UniqueInv, HealInv
      <3> QED  BY <3>3, <3>4 DEF ShardInv
    <2> QED  BY <2>1, <2>2, <2>3, <2>4, <2>5, <2>6, <2>7, <2>8, <2>9, <2>10, <2>11, <2>12
             DEF Next
  <1> QED  BY <1>1, <1>2, PTL DEF Spec

(* However often the command is killed and run again, wherever the kill     *)
(* cut the file: no row has two records, and the second run to finish       *)
(* leaves none without one.                                                *)
THEOREM ShardHeals == Spec => []HealsInTwo
  <1>1. ShardInv => HealsInTwo
    <2> SUFFICES ASSUME ShardInv PROVE HealsInTwo
      OBVIOUS
    <2>1. \A k \in Lines(file) : k \in Held /\ Closing[k] = file[k]
      <3>1. file \in Seq(Pieces) /\ \A k \in 1 .. Len(file) : Closing[k] = file[k]
        BY ClosingFacts DEF ShardInv, ShardType
      <3> QED  BY <3>1, LineFacts DEF Held
    <2> QED  BY <2>1 DEF ShardInv, UniqueInv, HealInv, HealsInTwo
  <1> QED  BY <1>1, ShardInductive, PTL
-----------------------------------------------------------------------------
(* The ASR server's temporary files.                                       *)

(* The run `requests` does this in its part "server".                      *)
HandlerSpec == RequestInit /\ [][RequestNext]_requestVars

(* The temporary file is there while its handler is: none before an upload *)
(* is read, an open one while it is, and a closed one under the calls that *)
(* work on it; no other request has one.                                   *)
FileInv ==
    /\ pc \in {"arriving", "reading", "calling", "replied", "gone"}
    /\ pc = "arriving" => tmp = "none"
    /\ pc = "reading" => tmp = "open" /\ Upload
    /\ pc = "calling" => tmp = IF Upload THEN "closed" ELSE "none"
    /\ pc \in {"replied", "gone"} => tmp \in {"none", "gone"}

(* However a handler ends, its finally leaves no file.                     *)
LEMMA Finally == \A was : AfterFinally(was) \in {"none", "gone"}
  BY DEF AfterFinally

(* A reply runs the finally.                                               *)
LEMMA FinishFile ==
  ASSUME NEW answer, Finish(answer)
  PROVE  FileInv'
  BY Finally DEF Finish, FileInv

(* Every request keeps its temporary file no longer than its handler.      *)
THEOREM HandlerInductive == HandlerSpec => []FileInv
  <1>1. RequestInit => FileInv
    BY DEF RequestInit, Arriving, FileInv
  <1>2. FileInv /\ [RequestNext]_requestVars => FileInv'
    <2> SUFFICES ASSUME FileInv, [RequestNext]_requestVars
                 PROVE  FileInv'
      OBVIOUS
    <2>1. CASE Arrive
      <3>1. CASE \E a : Finish(a)
        BY <3>1, FinishFile
      <3>2. CASE ~ \E a : Finish(a)
        <4>1. pc = "arriving" /\ ~Upload /\ pc' = "calling" /\ tmp' = tmp /\ req' = req
          BY <2>1, <3>2 DEF Arrive
        <4> QED  BY <4>1 DEF FileInv, Upload
      <3> QED  BY <3>1, <3>2
    <2>2. CASE TranscribeAnswered
      BY <2>2, FinishFile DEF TranscribeAnswered
    <2>3. CASE DetectAnswered
      BY <2>3, FinishFile DEF DetectAnswered
    <2>4. CASE StreamStart
      BY <2>4, FinishFile DEF StreamStart
    <2>5. CASE UploadArrives
      <3>1. CASE \E a : Finish(a)
        BY <3>1, FinishFile
      <3>2. CASE ~ \E a : Finish(a)
        <4>1. tmp' = "open" /\ pc' = "reading" /\ Upload /\ req' = req
          BY <2>5, <3>2 DEF UploadArrives
        <4> QED  BY <4>1 DEF FileInv, Upload
      <3> QED  BY <3>1, <3>2
    <2>6. CASE ReadChunk
      <3>1. CASE \E a : Finish(a)
        BY <3>1, FinishFile
      <3>2. CASE ~ \E a : Finish(a)
        <4>1. pc = "reading" /\ pc' = pc /\ tmp' = tmp /\ req' = req
          BY <2>6, <3>2 DEF ReadChunk
        <4> QED  BY <4>1 DEF FileInv, Upload
      <3> QED  BY <3>1, <3>2
    <2>7. CASE Spooled
      <3>1. CASE \E a : Finish(a)
        BY <3>1, FinishFile
      <3>2. CASE ~ \E a : Finish(a)
        <4>1. pc = "reading" /\ pc' = "calling" /\ tmp' = "closed" /\ req' = req
          BY <2>7, <3>2 DEF Spooled
        <4> QED  BY <4>1 DEF FileInv, Upload
      <3> QED  BY <3>1, <3>2
    <2>8. CASE ShortAnswered
      BY <2>8 DEF ShortAnswered, FileInv, Upload
    <2>9. CASE IdentifyAnswered
      BY <2>9, FinishFile DEF IdentifyAnswered
    <2>10. CASE ModeAnswered
      <3>1. CASE \E a : Finish(a)
        BY <3>1, FinishFile
      <3>2. CASE ~ \E a : Finish(a)
        <4>1. pc = "calling" /\ Upload /\ pc' = pc /\ tmp' = tmp /\ req' = req
          BY <2>10, <3>2 DEF ModeAnswered
        <4> QED  BY <4>1 DEF FileInv, Upload
      <3> QED  BY <3>1, <3>2
    <2>11. CASE EngineFails
      BY <2>11, FinishFile DEF EngineFails
    <2>12. CASE Disconnect
      BY <2>12, Finally DEF Disconnect, FileInv
    <2>13. CASE OrphanEnds
      BY <2>13 DEF OrphanEnds, FileInv
    <2>14. CASE UNCHANGED requestVars
      BY <2>14 DEF requestVars, FileInv, Upload
    <2> QED
      BY <2>1, <2>2, <2>3, <2>4, <2>5, <2>6, <2>7, <2>8, <2>9, <2>10, <2>11, <2>12, <2>13,
         <2>14 DEF RequestNext
  <1> QED  BY <1>1, <1>2, PTL DEF HandlerSpec

(* However a request ends - answered, refused, failed while its body is    *)
(* read or after some of its modes, or abandoned - no file is left.        *)
THEOREM HandlerLeavesNothing == HandlerSpec => []NothingLeft
  <1>1. FileInv => NothingLeft
    BY DEF FileInv, NothingLeft
  <1> QED  BY <1>1, HandlerInductive, PTL
-----------------------------------------------------------------------------
(* What the ASR server answers.                                            *)

(* What a ranking ranks.                                                     *)
Tallied(L) == [lang : L, prob : Nat]
Overtakes(weights, i, j) == weights[i].prob > weights[j].prob \/ (weights[i].prob = weights[j].prob /\ i < j)

(* A ranking puts the same entries in another order.                         *)
LEMMA RankedFacts ==
  ASSUME NEW L, NEW weights \in Seq(Tallied(L))
  PROVE  Ranked(weights) \in Seq(Tallied(L)) /\ Len(Ranked(weights)) = Len(weights)
  <1> DEFINE n == Len(weights)
             K == 1 .. n
             Higher(i) == {j \in K : Overtakes(weights, j, i)}
             f == [i \in K |-> Cardinality(Higher(i)) + 1]
  <1>1. n \in Nat /\ DOMAIN weights = K /\ \A i \in K : weights[i] \in Tallied(L) /\ weights[i].prob \in Nat
    <2>1. n \in Nat /\ DOMAIN weights = K /\ \A i \in K : weights[i] \in Tallied(L)
      OBVIOUS
    <2>2. \A e \in Tallied(L) : e.prob \in Nat
      BY DEF Tallied
    <2> HIDE DEF K
    <2> QED  BY <2>1, <2>2
  <1>2. IsFiniteSet(K) /\ Cardinality(K) = n
    BY <1>1, PlacesOfList
  <1>3. ASSUME NEW i \in K PROVE Cardinality(Higher(i)) \in Nat /\ f[i] \in K /\ IsFiniteSet(Higher(i))
    <2>1. Higher(i) \subseteq K \ {i}
      <3>1. ~Overtakes(weights, i, i)
        BY <1>1 DEF Overtakes
      <3> QED  BY <3>1
    <2>2. IsFiniteSet(K \ {i}) /\ Cardinality(K \ {i}) = n - 1
      BY <1>2, FS_RemoveElement
    <2> HIDE DEF Higher, K
    <2>3. IsFiniteSet(Higher(i)) /\ Cardinality(Higher(i)) <= n - 1
      BY <2>1, <2>2, FS_Subset
    <2>4. Cardinality(Higher(i)) \in Nat
      BY <2>3, FS_CardinalityType
    <2> QED  BY <1>1, <2>3, <2>4 DEF K
  <1>4. ASSUME NEW i \in K, NEW j \in K, Overtakes(weights, i, j)
        PROVE  Cardinality(Higher(i)) < Cardinality(Higher(j))
    <2>1. /\ i \in Higher(j)
          /\ ~Overtakes(weights, i, i)
      BY <1>1, <1>4 DEF Overtakes
    <2>2. ASSUME NEW x \in Higher(i) PROVE x \in Higher(j)
      <3>1. x \in K /\ Overtakes(weights, x, i)
        OBVIOUS
      <3> DEFINE a == weights[x].prob
                 b == weights[i].prob
                 c == weights[j].prob
      <3>2. a \in Nat /\ b \in Nat /\ c \in Nat /\ x \in Nat /\ i \in Nat /\ j \in Nat
        BY <1>1, <3>1
      <3>3. (a > b \/ (a = b /\ x < i)) /\ (b > c \/ (b = c /\ i < j))
        BY <1>4, <3>1 DEF Overtakes
      <3> HIDE DEF a, b, c
      <3>4. a > c \/ (a = c /\ x < j)
        BY <3>2, <3>3
      <3> QED  BY <3>1, <3>4 DEF Overtakes, a, c
    <2>3. Higher(i) \subseteq Higher(j) /\ Higher(i) # Higher(j)
      BY <2>1, <2>2
    <2>4. IsFiniteSet(Higher(j)) /\ Cardinality(Higher(i)) \in Nat /\ Cardinality(Higher(j)) \in Nat
      BY <1>3
    <2> HIDE DEF Higher
    <2>5. Cardinality(Higher(i)) <= Cardinality(Higher(j))
          /\ Cardinality(Higher(i)) # Cardinality(Higher(j))
      BY <2>3, <2>4, FS_Subset
    <2> QED  BY <2>4, <2>5
  <1>5. f \in Injection(K, K)
    <2>1. f \in [K -> K]
      BY <1>3
    <2>2. ASSUME NEW i \in K, NEW j \in K, f[i] = f[j] PROVE i = j
      <3>1. Cardinality(Higher(i)) = Cardinality(Higher(j)) /\ Cardinality(Higher(i)) \in Nat
        BY <1>3, <2>2
      <3>2. ~Overtakes(weights, i, j) /\ ~Overtakes(weights, j, i)
        <4> HIDE DEF Higher
        <4> QED  BY <1>4, <3>1
      <3> QED  BY <1>1, <3>2 DEF Overtakes
    <2> HIDE DEF f
    <2> QED  BY <2>1, <2>2, Fun_IsInj
  <1>6. f \in Surjection(K, K)
    <2> HIDE DEF f, K
    <2> QED  BY <1>2, <1>5, FS_Injection
  <1>7. ASSUME NEW k \in K PROVE \E i \in K : Cardinality(Higher(i)) = k - 1
    <2>1. PICK i \in K : f[i] = k
      <3> HIDE DEF f, K
      <3> QED  BY <1>6, Fun_SurjectionProperties
    <2>2. f[i] = Cardinality(Higher(i)) + 1 /\ Cardinality(Higher(i)) \in Nat
      <3> HIDE DEF Higher
      <3> QED  BY <1>3
    <2> HIDE DEF f, Higher
    <2> QED  BY <2>1, <2>2
  <1>8. Ranked(weights) = [k \in K |-> weights[CHOOSE i \in K : Cardinality(Higher(i)) = k - 1]]
    BY <1>1 DEF Ranked, Overtakes
  <1>9. Ranked(weights) \in [K -> Tallied(L)]
    <2> HIDE DEF Higher
    <2>1. ASSUME NEW k \in K
          PROVE  weights[CHOOSE i \in K : Cardinality(Higher(i)) = k - 1] \in Tallied(L)
      BY <1>1, <1>7
    <2> QED  BY <1>8, <2>1
  <1> QED  BY <1>1, <1>9, FunctionSeq

(* The best of what is ranked.                                               *)
LEMMA BestFacts ==
  ASSUME NEW S, NEW q \in Seq(S), NEW k \in Nat \ {0}, Len(q) # 0
  PROVE  Best(k, q) \in Seq(S) /\ Len(Best(k, q)) # 0
  <1> DEFINE m == Min({k, Len(q)})
  <1>1. Len(q) \in Nat
    OBVIOUS
  <1>2. m \in {k, Len(q)}
    <2>1. {k, Len(q)} \subseteq 0 .. (k + Len(q)) /\ k + Len(q) \in Nat
      BY <1>1
    <2> QED  BY <2>1, ExtremeFacts
  <1>3. m <= Len(q)
    <2>1. {k, Len(q)} \subseteq 0 .. (k + Len(q)) /\ k + Len(q) \in Nat
      BY <1>1
    <2> QED  BY <2>1, ExtremeFacts
  <1>4. m \in 1 .. Len(q)
    <2> HIDE DEF m
    <2> QED  BY <1>1, <1>2, <1>3
  <1>5. Best(k, q) = SubSeq(q, 1, m)
    BY DEF Best
  <1> HIDE DEF m
  <1>6. SubSeq(q, 1, m) \in Seq(S) /\ Len(SubSeq(q, 1, m)) = m
    BY <1>1, <1>4, SplitAt
  <1> QED  BY <1>4, <1>5, <1>6

(* A share is a number.                                                      *)
LEMMA ShareFacts ==
  ASSUME NEW S, NEW wav \in Seq(S), NEW l
  PROVE  Share(wav, l) \in Nat
  <1> DEFINE a == Cardinality({i \in DOMAIN wav : wav[i] # Quiet})
             b == Cardinality({i \in DOMAIN wav : wav[i] = l})
  <1>1. IsFiniteSet(DOMAIN wav)
    <2>1. DOMAIN wav = 1 .. Len(wav) /\ Len(wav) \in Nat
      OBVIOUS
    <2> QED  BY <2>1, PlacesOfList
  <1>2. a \in Nat /\ b \in Nat
    <2>1. IsFiniteSet({i \in DOMAIN wav : wav[i] # Quiet}) /\ IsFiniteSet({i \in DOMAIN wav : wav[i] = l})
      BY <1>1, FS_Subset
    <2> QED  BY <2>1, FS_CardinalityType
  <1>3. Share(wav, l) = IF a = 0 THEN 0 ELSE (100 * b) \div a
    BY DEF Share
  <1> HIDE DEF a, b
  <1>4. a # 0 => (100 * b) \div a \in Nat
    BY <1>2
  <1> QED  BY <1>3, <1>4

(* What LID says of a recording: one or more of the languages it may say.    *)
LEMMA TopFacts ==
  ASSUME NEW S, NEW wav \in Seq(S), NEW k \in Nat \ {0},
         NEW L \in SUBSET AllLangs, L # {}
  PROVE  Top(wav, k, L) \in Seq(Tallied(L)) /\ Len(Top(wav, k, L)) # 0
  <1> DEFINE K == {i \in DOMAIN Langs : Langs[i] \in L}
             order == PickAt(Langs, K)
             weights == [i \in DOMAIN order |-> [lang |-> order[i], prob |-> Share(wav, order[i])]]
  <1>1. Langs \in Seq(ToSet(Langs)) /\ K \in SUBSET (1 .. Len(Langs)) /\ Len(Langs) \in Nat
    BY ChunkAssumption
  <1>2. K # {}
    BY DEF AllLangs, ToSet
  <1>3. order \in Seq(ToSet(Langs)) /\ Len(order) = Cardinality(K) /\ Cardinality(K) \in Nat
    BY <1>1, PickAtFacts
  <1>4. Len(order) # 0
    <2>1. IsFiniteSet(K)
      BY <1>1, PlacesOfList, FS_Subset
    <2> QED  BY <1>2, <1>3, <2>1, FS_EmptySet
  <1>5. \A i \in 1 .. Len(order) : order[i] \in L
    <2>1. ToSet(order) = {Langs[i] : i \in K}
      BY <1>1, PickedSet
    <2>2. ToSet(order) \subseteq L
      BY <2>1
    <2>3. DOMAIN order = 1 .. Len(order)
      BY <1>3
    <2> HIDE DEF order
    <2> QED  BY <2>2, <2>3 DEF ToSet
  <1>6. weights \in Seq(Tallied(L)) /\ Len(weights) = Len(order)
    <2>1. DOMAIN order = 1 .. Len(order)
      BY <1>3
    <2> HIDE DEF order
    <2>2. \A i \in 1 .. Len(order) : [lang |-> order[i], prob |-> Share(wav, order[i])] \in Tallied(L)
      BY <1>5, ShareFacts DEF Tallied
    <2>3. weights \in [1 .. Len(order) -> Tallied(L)]
      BY <2>1, <2>2
    <2> QED  BY <1>3, <2>3, FunctionSeq
  <1>7. Top(wav, k, L) = Best(k, Ranked(weights))
    BY DEF Top
  <1> HIDE DEF weights, order, K
  <1>8. Ranked(weights) \in Seq(Tallied(L)) /\ Len(Ranked(weights)) # 0
    BY <1>4, <1>6, RankedFacts
  <1> QED  BY <1>7, <1>8, BestFacts

(* A sum of probabilities is one of naturals.                                *)
LEMMA WeightFacts ==
  ASSUME NEW K, IsFiniteSet(K), NEW entries, \A i \in K : entries[i].prob \in Nat
  PROVE  Weight(entries, K) \in Nat
  <1> DEFINE f == [i \in K |-> entries[i].prob]
  <1>1. \A i \in K : f[i] \in Nat
    OBVIOUS
  <1>2. Weight(entries, K) = SumOver(f, K)
    BY DEF Weight
  <1> HIDE DEF f
  <1> QED  BY <1>1, <1>2, SumFacts

(* What is picked of the places themselves.                                  *)
LEMMA AscendingFacts ==
  ASSUME NEW n \in Nat, NEW K \in SUBSET (1 .. n)
  PROVE  /\ Ascending(n, K) \in Seq(K) /\ ToSet(Ascending(n, K)) = K
         /\ Len(Ascending(n, K)) = Cardinality(K) /\ Cardinality(K) \in Nat
  <1> DEFINE s == [i \in 1 .. n |-> i]
  <1>1. s \in Seq(1 .. n) /\ Len(s) = n
    <2>1. s \in [1 .. n -> 1 .. n]
      OBVIOUS
    <2> QED  BY <2>1, FunctionSeq
  <1>2. {s[k] : k \in K} = K
    OBVIOUS
  <1>3. Ascending(n, K) = PickAt(s, K)
    BY DEF Ascending
  <1> HIDE DEF s
  <1>n. K \in SUBSET (1 .. Len(s))
    BY <1>1
  <1>4. /\ PickAt(s, K) \in Seq(1 .. n) /\ ToSet(PickAt(s, K)) = K
        /\ Len(PickAt(s, K)) = Cardinality(K) /\ Cardinality(K) \in Nat
    <2>1. /\ PickAt(s, K) \in Seq(1 .. n) /\ Len(PickAt(s, K)) = Cardinality(K)
          /\ Cardinality(K) \in Nat
      BY <1>1, <1>n, PickAtFacts
    <2>2. ToSet(PickAt(s, K)) = {s[k] : k \in K}
      BY <1>1, <1>n, PickedSet
    <2> QED  BY <1>2, <2>1, <2>2
  <1> DEFINE q == Ascending(n, K)
  <1>5. q \in Seq(1 .. n) /\ ToSet(q) = K
    BY <1>3, <1>4
  <1> HIDE DEF q
  <1>6. q \in Seq(K)
    <2>1. \A i \in 1 .. Len(q) : q[i] \in K
      BY <1>5 DEF ToSet
    <2>2. q \in [1 .. Len(q) -> K] /\ Len(q) \in Nat
      BY <1>5, <2>1
    <2> QED  BY <2>2, FunctionSeq
  <1> QED  BY <1>3, <1>4, <1>6 DEF q

(* Places up to one and places past it, each in order, are all of them in   *)
(* order.                                                                   *)
LEMMA AscendingConcat ==
  ASSUME NEW n \in Nat, NEW a \in 0 .. n,
         NEW K \in SUBSET (1 .. a), NEW L \in SUBSET ((a + 1) .. n)
  PROVE  Ascending(n, K \cup L) = Ascending(n, K) \o Ascending(n, L)
  <1> DEFINE s == [i \in 1 .. n |-> i]
  <1>1. s \in Seq(1 .. n) /\ Len(s) = n
    <2>1. s \in [1 .. n -> 1 .. n]
      OBVIOUS
    <2> QED  BY <2>1, FunctionSeq
  <1> HIDE DEF s
  <1>n. a \in 0 .. Len(s) /\ L \in SUBSET ((a + 1) .. Len(s))
    BY <1>1
  <1>2. PickAt(s, K \cup L) = PickAt(s, K) \o PickAt(s, L)
    BY <1>1, <1>n, PickConcat, ZenonT(40)
  <1> QED  BY <1>2 DEF Ascending, s

(* What the votes of one or more probes name: one or more languages.         *)
LEMMA VoteFacts ==
  ASSUME NEW L, NEW tops \in Seq(Seq(Tallied(L))), Len(tops) # 0,
         \A i \in 1 .. Len(tops) : Len(tops[i]) # 0
  PROVE  Vote(tops) \in Seq(Tallied(L)) /\ Len(Vote(tops)) # 0
  <1> DEFINE entries == FlattenSeq(tops)
             m == Len(entries)
             naming(l) == {i \in DOMAIN entries : entries[i].lang = l}
             F == {Min(naming(e.lang)) : e \in ToSet(entries)}
             first == Ascending(m, F)
             weight(l) == Weight(entries, naming(l))
             weights == [k \in DOMAIN first |-> [lang |-> entries[first[k]].lang,
                                              prob |-> weight(entries[first[k]].lang)]]
  <1>1. entries \in Seq(Tallied(L)) /\ ToSet(entries) = UNION {ToSet(tops[i]) : i \in 1 .. Len(tops)}
    BY FlattenFacts
  <1>2. m \in Nat /\ DOMAIN entries = 1 .. m /\ ToSet(entries) # {}
    <2>1. tops[1] \in Seq(Tallied(L)) /\ Len(tops[1]) # 0 /\ 1 \in 1 .. Len(tops)
      OBVIOUS
    <2>2. tops[1][1] \in ToSet(tops[1])
      BY <2>1 DEF ToSet
    <2> HIDE DEF entries
    <2>3. m \in Nat /\ DOMAIN entries = 1 .. m
      BY <1>1
    <2>4. tops[1][1] \in ToSet(entries)
      BY <1>1, <2>1, <2>2
    <2> QED  BY <2>3, <2>4
  <1>3. Vote(tops) = Ranked(weights)
    BY DEF Vote
  <1> HIDE DEF entries
  <1>4. \A i \in 1 .. m : entries[i] \in Tallied(L) /\ entries[i].lang \in L /\ entries[i].prob \in Nat
    <2>1. \A e \in Tallied(L) : e.lang \in L /\ e.prob \in Nat
      BY DEF Tallied
    <2>2. \A i \in 1 .. m : entries[i] \in Tallied(L)
      BY <1>1, <1>2
    <2> QED  BY <2>1, <2>2
  <1>5. F \in SUBSET (1 .. m) /\ F # {}
    <2>1. ASSUME NEW e \in ToSet(entries) PROVE Min(naming(e.lang)) \in 1 .. m
      <3>1. naming(e.lang) \subseteq 0 .. m /\ naming(e.lang) # {} /\ naming(e.lang) \subseteq 1 .. m
        BY <1>2 DEF ToSet
      <3> HIDE DEF naming
      <3>2. Min(naming(e.lang)) \in naming(e.lang)
        BY <1>2, <3>1, ExtremeFacts
      <3> QED  BY <3>1, <3>2
    <2> HIDE DEF naming
    <2> QED  BY <1>2, <2>1
  <1>6. first \in Seq(F) /\ Len(first) # 0 /\ Len(first) \in Nat
    <2> HIDE DEF F
    <2>1. first \in Seq(F) /\ Len(first) = Cardinality(F) /\ Cardinality(F) \in Nat
      BY <1>2, <1>5, AscendingFacts
    <2>2. IsFiniteSet(F)
      BY <1>2, <1>5, PlacesOfList, FS_Subset
    <2> QED  BY <1>5, <2>1, <2>2, FS_EmptySet
  <1>7. \A l : weight(l) \in Nat
    <2> SUFFICES ASSUME NEW l PROVE weight(l) \in Nat
      OBVIOUS
    <2>1. IsFiniteSet(naming(l)) /\ naming(l) \subseteq 1 .. m
      <3>1. naming(l) \subseteq 1 .. m
        BY <1>2
      <3> QED  BY <1>2, <3>1, PlacesOfList, FS_Subset
    <2>2. \A i \in naming(l) : entries[i].prob \in Nat
      BY <1>4, <2>1
    <2> HIDE DEF naming
    <2> QED  BY <2>1, <2>2, WeightFacts
  <1>8. weights \in Seq(Tallied(L)) /\ Len(weights) = Len(first)
    <2>1. DOMAIN first = 1 .. Len(first) /\ \A k \in 1 .. Len(first) : first[k] \in 1 .. m
      <3> HIDE DEF first, F
      <3>1. DOMAIN first = 1 .. Len(first) /\ \A k \in 1 .. Len(first) : first[k] \in F
        BY <1>6
      <3>2. \A i \in F : i \in 1 .. m
        BY <1>5
      <3> QED  BY <3>1, <3>2
    <2> HIDE DEF first, weight
    <2>2. \A k \in 1 .. Len(first) : [lang |-> entries[first[k]].lang,
                                      prob |-> weight(entries[first[k]].lang)] \in Tallied(L)
      BY <1>4, <1>7, <2>1 DEF Tallied
    <2>3. weights \in [1 .. Len(first) -> Tallied(L)]
      BY <2>1, <2>2
    <2> HIDE DEF weights
    <2> QED  BY <1>6, <2>3, FunctionSeq
  <1> HIDE DEF weights, first
  <1> QED  BY <1>3, <1>6, <1>8, RankedFacts

(* The probes are pieces of the recording, one at least.                     *)
LEMMA ProbeFacts ==
  ASSUME NEW n \in Nat \ {0}, NEW k \in Nat \ {0}
  PROVE  ProbeIndices(n, k) \in SUBSET (1 .. n) /\ ProbeIndices(n, k) # {}
  <1>1. CASE n <= k
    BY <1>1 DEF ProbeIndices
  <1>2. CASE ~(n <= k)
    <2>1. ASSUME NEW i \in 0 .. (k - 1)
          PROVE  1 + Min({n - 1, (n * (i + 1)) \div (k + 1)}) \in 1 .. n
      <3> DEFINE d == (n * (i + 1)) \div (k + 1)
      <3>1. d \in Nat
        <4>1. n * (i + 1) \in Nat
          OBVIOUS
        <4> DEFINE p == n * (i + 1)
        <4> HIDE DEF p
        <4>2. p \in Nat => p \div (k + 1) \in Nat
          OBVIOUS
        <4> QED  BY <4>1, <4>2 DEF p
      <3> HIDE DEF d
      <3> DEFINE T == {n - 1, d}
      <3>2. T \subseteq 0 .. (n + d) /\ T # {} /\ n + d \in Nat
        BY <3>1
      <3>3. Min(T) \in T /\ Min(T) <= n - 1
        BY <3>2, ExtremeFacts
      <3>4. Min(T) \in 0 .. (n - 1)
        BY <3>1, <3>3
      <3>5. 1 + Min(T) \in 1 .. n
        <4> HIDE DEF T
        <4> QED  BY <3>4
      <3> QED  BY <3>5 DEF d
    <2>2. ProbeIndices(n, k) = {1 + Min({n - 1, (n * (i + 1)) \div (k + 1)}) : i \in 0 .. (k - 1)}
      BY <1>2 DEF ProbeIndices
    <2>3. 0 \in 0 .. (k - 1)
      OBVIOUS
    <2> QED  BY <2>1, <2>2, <2>3
  <1> QED  BY <1>1, <1>2

(* The languages LID may name.                                               *)
LEMMA CandidatesFacts ==
  \A allowed : Candidates(allowed, Nothing) \in SUBSET AllLangs
  BY DEF Candidates

(* One language, of those LID may name, for what the probes say.             *)
LEMMA ProbesName ==
  ASSUME NEW L, NEW tops \in Seq(Seq(Tallied(L))), Len(tops) # 0,
         \A i \in 1 .. Len(tops) : Len(tops[i]) # 0
  PROVE  Best(5, Vote(tops))[1].lang \in L
  <1>1. Vote(tops) \in Seq(Tallied(L)) /\ Len(Vote(tops)) # 0
    BY VoteFacts
  <1>2. Best(5, Vote(tops)) \in Seq(Tallied(L)) /\ Len(Best(5, Vote(tops))) # 0
    <2>1. 5 \in Nat \ {0}
      OBVIOUS
    <2> QED  BY <1>1, <2>1, BestFacts
  <1> DEFINE q == Best(5, Vote(tops))
  <1> HIDE DEF q
  <1>3. q \in Seq(Tallied(L)) /\ Len(q) # 0
    BY <1>2 DEF q
  <1>4. q[1] \in Tallied(L)
    BY <1>3
  <1>5. q[1].lang \in L
    BY <1>4 DEF Tallied
  <1> QED  BY <1>5 DEF q

(* The pieces at some places, each asked for its language.                   *)
LEMMA AskedAt ==
  ASSUME NEW S, NEW pieces \in Seq(Seq(S)), NEW k \in Nat \ {0}, NEW allowed,
         Candidates(allowed, Nothing) # {}, Len(pieces) # 0
  PROVE  LET L == Candidates(allowed, Nothing)
             tops == [i \in DOMAIN pieces |-> Top(pieces[i], k, L)]
         IN  /\ tops \in Seq(Seq(Tallied(L))) /\ Len(tops) = Len(pieces)
             /\ \A i \in 1 .. Len(tops) : Len(tops[i]) # 0
  <1> DEFINE L == Candidates(allowed, Nothing)
             n == Len(pieces)
             tops == [i \in DOMAIN pieces |-> Top(pieces[i], k, L)]
  <1>1. L \in SUBSET AllLangs /\ L # {}
    BY CandidatesFacts
  <1>2. n \in Nat /\ DOMAIN pieces = 1 .. n /\ \A i \in 1 .. n : pieces[i] \in Seq(S)
    OBVIOUS
  <1> HIDE DEF L
  <1>3. \A i \in 1 .. n : Top(pieces[i], k, L) \in Seq(Tallied(L)) /\ Len(Top(pieces[i], k, L)) # 0
    BY <1>1, <1>2, TopFacts
  <1>4. tops \in [1 .. n -> Seq(Tallied(L))]
    BY <1>2, <1>3
  <1>5. tops \in Seq(Seq(Tallied(L))) /\ Len(tops) = n
    BY <1>2, <1>4, FunctionSeq
  <1>6. \A i \in 1 .. n : Len(tops[i]) # 0
    BY <1>2, <1>3
  <1> QED  BY <1>5, <1>6 DEF L

(* A long recording is in a language LID may name.                           *)
LEMMA LongLang ==
  ASSUME NEW S, NEW pieces \in Seq(Seq(S)), Len(pieces) # 0, NEW allowed,
         Candidates(allowed, Nothing) # {}
  PROVE  Best(5, Vote(ProbeTops(pieces, allowed)))[1].lang \in Candidates(allowed, Nothing)
  <1> DEFINE n == Len(pieces)
             K == ProbeIndices(n, Probes)
             at == Ascending(n, K)
             asked_ == [i \in DOMAIN at |-> pieces[at[i]]]
             L == Candidates(allowed, Nothing)
             tops == [i \in DOMAIN asked_ |-> Top(asked_[i], 3, L)]
  <1>1. n \in Nat \ {0} /\ Probes \in Nat \ {0}
    BY ChunkAssumption
  <1>2. K \in SUBSET (1 .. n) /\ K # {}
    BY <1>1, ProbeFacts
  <1>3. at \in Seq(K) /\ Len(at) \in Nat \ {0}
    <2> HIDE DEF K
    <2>1. at \in Seq(K) /\ Len(at) = Cardinality(K) /\ Cardinality(K) \in Nat
      BY <1>1, <1>2, AscendingFacts
    <2>2. IsFiniteSet(K)
      BY <1>1, <1>2, PlacesOfList, FS_Subset
    <2> QED  BY <1>2, <2>1, <2>2, FS_EmptySet
  <1>4. DOMAIN at = 1 .. Len(at) /\ \A i \in 1 .. Len(at) : at[i] \in 1 .. n
    <2> HIDE DEF at, K
    <2>1. DOMAIN at = 1 .. Len(at) /\ \A i \in 1 .. Len(at) : at[i] \in K
      BY <1>3
    <2> QED  BY <1>2, <2>1
  <1> HIDE DEF at
  <1>5. asked_ \in Seq(Seq(S)) /\ Len(asked_) = Len(at)
    <2>1. asked_ \in [1 .. Len(at) -> Seq(S)]
      BY <1>4
    <2> HIDE DEF asked_
    <2> QED  BY <1>3, <2>1, FunctionSeq
  <1>6. tops = ProbeTops(pieces, allowed)
    <2>1. tops = [i \in DOMAIN at |-> Top(pieces[at[i]], 3, L)]
      OBVIOUS
    <2> QED  BY <2>1 DEF ProbeTops, at
  <1> HIDE DEF asked_
  <1>7. /\ tops \in Seq(Seq(Tallied(L))) /\ Len(tops) = Len(asked_)
        /\ \A i \in 1 .. Len(tops) : Len(tops[i]) # 0
    <2>1. 3 \in Nat \ {0} /\ Len(asked_) # 0
      BY <1>3, <1>5
    <2> HIDE DEF asked_
    <2> QED  BY <1>5, <2>1, AskedAt
  <1> HIDE DEF tops, L
  <1>8. Best(5, Vote(tops))[1].lang \in L
    BY <1>3, <1>5, <1>7, ProbesName
  <1> QED  BY <1>6, <1>8 DEF L

(* A piece of a recording.                                                   *)
LEMMA PieceOfFacts ==
  ASSUME NEW S, NEW wav \in Seq(S), NEW range, range[1] \in Nat, range[2] \in Nat,
         range[2] <= Len(wav)
  PROVE  Piece(wav, range) \in Seq(S)
  <1> DEFINE a == range[1] + 1
             b == range[2]
  <1>1. a \in Int /\ b \in Int /\ a >= 1 /\ b <= Len(wav)
    OBVIOUS
  <1>2. Piece(wav, range) = SubSeq(wav, a, b)
    BY DEF Piece
  <1> HIDE DEF a, b
  <1>3. \A i \in a .. b : wav[i] \in S
    BY <1>1
  <1> QED  BY <1>1, <1>2, <1>3, SubSeqProperties

(* What the windows a long file is identified by are.                        *)
LEMMA WindowFacts ==
  ASSUME NEW n \in Nat, NEW d \in Nat \ {0}, NEW k \in 1 .. (n \div d)
  PROVE  (k - 1) * d \in Nat /\ k * d \in Nat /\ k * d <= n
  <1> DEFINE q == n \div d
  <1>1. q \in Nat /\ d * q <= n
    BY DivFacts
  <1>2. k \in 1 .. q
    OBVIOUS
  <1> HIDE DEF q
  <1>3. k \in Nat /\ k <= q /\ k - 1 \in Nat /\ q - k \in Nat
    BY <1>1, <1>2
  <1>4. (k - 1) * d \in Nat /\ k * d \in Nat /\ (q - k) * d \in Nat
    BY <1>3
  <1>5. d * q = k * d + (q - k) * d
    BY <1>1, <1>3
  <1> DEFINE x == k * d
             y == (q - k) * d
             z == d * q
  <1>6. x \in Nat /\ y \in Nat /\ z = x + y /\ z <= n
    BY <1>1, <1>4, <1>5
  <1> HIDE DEF x, y, z
  <1>7. x <= n
    BY <1>6
  <1> QED  BY <1>4, <1>7 DEF x

(* The file of a call for its language is in one that LID may name.          *)
LEMMA FileTopFacts ==
  ASSUME NEW f \in DOMAIN Audio, NEW allowed, Candidates(allowed, Nothing) # {}
  PROVE  FileTop(f, allowed)[1].lang \in Candidates(allowed, Nothing)
  <1> DEFINE S == ToSet(Audio[f])
             n == Len(Audio[f])
             win == LidMax \div Probes
             K == ProbeIndices(n \div win, Probes)
             at == Ascending(n \div win, K)
             ranges == LidRanges(f)
             pieces == [i \in DOMAIN ranges |-> Piece(Audio[f], ranges[i])]
             L == Candidates(allowed, Nothing)
             tops == [i \in DOMAIN pieces |-> Top(pieces[i], 5, L)]
  <1>1. Audio[f] \in Seq(S) /\ n \in Nat /\ LidMax \in Nat \ {0} /\ Probes \in Nat \ {0}
    BY RequestAssumption, ChunkAssumption
  <1>2. pieces \in Seq(Seq(S)) /\ Len(pieces) # 0
    <2>1. CASE n <= LidMax
      <3>1. ranges = <<<<0, n>>>>
        BY <2>1 DEF LidRanges
      <3>2. Piece(Audio[f], <<0, n>>) \in Seq(S)
        <4> DEFINE r == <<0, n>>
        <4>1. r[1] = 0 /\ r[2] = n
          OBVIOUS
        <4> HIDE DEF r, S
        <4> QED  BY <1>1, <4>1, PieceOfFacts DEF r
      <3> HIDE DEF ranges
      <3>3. DOMAIN ranges = 1 .. 1 /\ ranges[1] = <<0, n>>
        BY <3>1
      <3>4. pieces \in [1 .. 1 -> Seq(S)] /\ 1 \in Nat
        BY <3>2, <3>3
      <3> HIDE DEF pieces
      <3>5. pieces \in Seq(Seq(S)) /\ Len(pieces) = 1
        BY <3>4, FunctionSeq
      <3> QED  BY <3>5
    <2>2. CASE ~(n <= LidMax)
      <3>1. win \in Nat \ {0} /\ n \div win \in Nat \ {0}
        <4>1. LidMax \div Probes \in Nat /\ LidMax < Probes * (LidMax \div Probes) + Probes
          BY <1>1, DivFacts
        <4>2. LidMax % Probes = 0
          BY RequestAssumption
        <4>3. win # 0
          BY <1>1, <4>2
        <4>4. n >= win
          <5>1. Probes * (LidMax \div Probes) <= LidMax
            BY <1>1, DivFacts
          <5> HIDE DEF win
          <5>2. win \in Nat /\ Probes * win <= LidMax
            BY <4>1, <5>1 DEF win
          <5>3. Probes * win = win + (Probes - 1) * win
            BY <1>1, <5>2
          <5>4. (Probes - 1) * win \in Nat
            BY <1>1, <5>2
          <5> DEFINE x == (Probes - 1) * win
                     y == Probes * win
          <5>5. x \in Nat /\ y = win + x /\ y <= LidMax
            BY <5>2, <5>3, <5>4
          <5> HIDE DEF x, y
          <5> QED  BY <1>1, <2>2, <5>2, <5>5
        <4>5. win \in Nat \ {0}
          BY <4>1, <4>3
        <4> HIDE DEF win
        <4>6. n \div win \in Nat /\ n < win * (n \div win) + win
          BY <1>1, <4>5, DivFacts
        <4>7. n \div win # 0
          BY <1>1, <4>4, <4>5, <4>6
        <4> QED  BY <4>5, <4>6, <4>7
      <3> HIDE DEF win
      <3>2. K \in SUBSET (1 .. n \div win) /\ K # {}
        BY <1>1, <3>1, ProbeFacts
      <3>3. at \in Seq(K) /\ Len(at) \in Nat \ {0}
        <4> HIDE DEF K
        <4>1. at \in Seq(K) /\ Len(at) = Cardinality(K) /\ Cardinality(K) \in Nat
          BY <3>1, <3>2, AscendingFacts
        <4>2. IsFiniteSet(K)
          BY <3>1, <3>2, PlacesOfList, FS_Subset
        <4> QED  BY <3>2, <4>1, <4>2, FS_EmptySet
      <3>4. DOMAIN at = 1 .. Len(at) /\ \A i \in 1 .. Len(at) : at[i] \in 1 .. n \div win
        <4> HIDE DEF at, K
        <4>1. DOMAIN at = 1 .. Len(at) /\ \A i \in 1 .. Len(at) : at[i] \in K
          BY <3>3
        <4> QED  BY <3>2, <4>1
      <3>5. ranges = [i \in DOMAIN at |-> <<(at[i] - 1) * win, at[i] * win>>]
        BY <2>2 DEF LidRanges, win
      <3> HIDE DEF at, ranges, S
      <3>6. ASSUME NEW i \in 1 .. Len(at) PROVE Piece(Audio[f], ranges[i]) \in Seq(S)
        <4> DEFINE k == at[i]
        <4>1. k \in 1 .. n \div win
          BY <3>4
        <4>2. ranges[i] = <<(k - 1) * win, k * win>>
          BY <3>4, <3>5
        <4> HIDE DEF k
        <4>3. (k - 1) * win \in Nat /\ k * win \in Nat /\ k * win <= n
          BY <1>1, <3>1, <4>1, WindowFacts
        <4> DEFINE x == (k - 1) * win
                   y == k * win
        <4>4. ranges[i][1] = x /\ ranges[i][2] = y
          BY <4>2
        <4> HIDE DEF x, y
        <4>5. x \in Nat /\ y \in Nat /\ y <= n
          BY <4>3 DEF x, y
        <4> DEFINE r == ranges[i]
        <4>6. r[1] \in Nat /\ r[2] \in Nat /\ r[2] <= n
          BY <4>4, <4>5
        <4> HIDE DEF r
        <4> QED  BY <1>1, <4>6, PieceOfFacts DEF r
      <3>7. DOMAIN ranges = 1 .. Len(at)
        BY <3>4, <3>5
      <3>8. pieces \in [1 .. Len(at) -> Seq(S)]
        BY <3>6, <3>7
      <3> HIDE DEF pieces
      <3> QED  BY <3>3, <3>8, FunctionSeq
    <2> QED  BY <2>1, <2>2
  <1>3. FileTop(f, allowed) = Best(5, Vote(tops))
    BY DEF FileTop, DetectLanguage
  <1> HIDE DEF pieces, S
  <1>4. /\ tops \in Seq(Seq(Tallied(L))) /\ Len(tops) = Len(pieces)
        /\ \A i \in 1 .. Len(tops) : Len(tops[i]) # 0
    <2>1. 5 \in Nat \ {0}
      OBVIOUS
    <2> QED  BY <1>2, <2>1, AskedAt
  <1> HIDE DEF tops, L
  <1>5. Best(5, Vote(tops))[1].lang \in L
    BY <1>2, <1>4, ProbesName
  <1> QED  BY <1>3, <1>5 DEF L

(* A chunk ends past where it begins, and is not too long.                   *)
LEMMA CutFacts ==
  ASSUME NEW cuts \in SUBSET Nat, NEW p \in Nat
  PROVE  CutAfter(cuts, p) \in (p + 1) .. (p + MaxChunk)
  <1> DEFINE hi == p + MaxChunk
             fitting == {c \in cuts : p + MinChunk <= c /\ c <= hi}
             relaxed == {c \in cuts : p + Relax < c /\ c <= hi}
  <1>1. /\ MaxChunk \in Nat \ {0} /\ MinChunk \in Nat \ {0} /\ Relax \in Nat
        /\ hi \in (p + 1) .. hi /\ hi \in Nat
    BY ChunkAssumption
  <1>2. ASSUME NEW T \in SUBSET Nat, T # {}, \A c \in T : p < c /\ c <= hi
        PROVE  Max(T) \in (p + 1) .. hi
    <2>1. T \subseteq 0 .. hi
      <3> HIDE DEF hi
      <3>1. \A c \in T : c \in Nat /\ c <= hi
        BY <1>2
      <3> QED  BY <1>1, <3>1
    <2>2. Max(T) \in T
      BY <1>1, <1>2, <2>1, ExtremeFacts
    <2> HIDE DEF hi
    <2>3. Max(T) \in Nat /\ p < Max(T) /\ Max(T) <= hi
      BY <1>2, <2>2
    <2> QED  BY <2>3, <1>1
  <1>3. fitting \in SUBSET Nat /\ \A c \in fitting : p < c /\ c <= hi
    <2> HIDE DEF hi
    <2>1. ASSUME NEW c \in fitting PROVE c \in Nat /\ p < c /\ c <= hi
      BY <1>1
    <2> QED  BY <2>1
  <1>4. relaxed \in SUBSET Nat /\ \A c \in relaxed : p < c /\ c <= hi
    <2> HIDE DEF hi
    <2>1. ASSUME NEW c \in relaxed PROVE c \in Nat /\ p < c /\ c <= hi
      BY <1>1
    <2> QED  BY <2>1
  <1>5. CutAfter(cuts, p) =
          IF fitting # {} THEN Max(fitting) ELSE IF relaxed # {} THEN Max(relaxed) ELSE hi
    BY DEF CutAfter
  <1> HIDE DEF fitting, relaxed, hi
  <1>6. CutAfter(cuts, p) \in (p + 1) .. hi
    BY <1>1, <1>2, <1>3, <1>4, <1>5
  <1> QED  BY <1>6 DEF hi

(* Ranges that follow one another, from one place to the end.                *)
Stretches(n) == (0 .. n) \X (0 .. n)
Chain(r, p, n) ==
    /\ r \in Seq(Stretches(n)) /\ Len(r) # 0
    /\ r[1][1] = p /\ r[Len(r)][2] = n
    /\ \A k \in 1 .. Len(r) : r[k][1] <= r[k][2]
    /\ \A k \in 1 .. Len(r) - 1 : r[k][2] = r[k + 1][1]

(* The rest of a recording as one piece is a chain from where it begins.    *)
LEMMA ChainOne ==
  ASSUME NEW n \in Nat, NEW p \in 0 .. n
  PROVE  Chain(<<<<p, n>>>>, p, n)
  <1>1. <<p, n>> \in Stretches(n)
    BY DEF Stretches
  <1> DEFINE e == <<p, n>>
  <1>2. e[1] = p /\ e[2] = n
    OBVIOUS
  <1> HIDE DEF e
  <1>3. <<e>> \in Seq(Stretches(n)) /\ Len(<<e>>) = 1 /\ <<e>>[1] = e
    BY <1>1 DEF e
  <1> DEFINE r == <<e>>
  <1>4. r \in Seq(Stretches(n)) /\ Len(r) = 1 /\ r[1] = e
    BY <1>3
  <1> HIDE DEF r
  <1>5. Chain(r, p, n)
    BY <1>2, <1>4 DEF Chain
  <1> QED  BY <1>5 DEF r, e

(* A piece before a chain that begins where the piece ends makes a longer   *)
(* chain.                                                                   *)
LEMMA ChainCons ==
  ASSUME NEW n \in Nat, NEW p \in 0 .. n, NEW q \in p .. n, NEW r, Chain(r, q, n)
  PROVE  Chain(<<<<p, q>>>> \o r, p, n)
  <1> DEFINE e == <<p, q>>
             h == <<e>>
             c == h \o r
             m == Len(r)
  <1>1. e \in Stretches(n) /\ e[1] = p /\ e[2] = q
    BY DEF Stretches
  <1> HIDE DEF e
  <1>2. h \in Seq(Stretches(n)) /\ Len(h) = 1 /\ h[1] = e
    BY <1>1
  <1>3. r \in Seq(Stretches(n)) /\ m \in Nat \ {0}
    BY DEF Chain
  <1> HIDE DEF h
  <1>4. /\ c \in Seq(Stretches(n)) /\ Len(c) = m + 1 /\ c[1] = e
        /\ \A k \in 1 .. m : c[1 + k] = r[k]
    <2>1. /\ c \in Seq(Stretches(n)) /\ Len(c) = Len(h) + m
          /\ \A k \in 1 .. Len(h) : c[k] = h[k]
          /\ \A k \in 1 .. m : c[Len(h) + k] = r[k]
      <3> DEFINE S == Stretches(n)
      <3>1. h \in Seq(S) /\ r \in Seq(S)
        BY <1>2, <1>3
      <3> HIDE DEF S
      <3>2. /\ h \o r \in Seq(S) /\ Len(h \o r) = Len(h) + Len(r)
            /\ \A k \in 1 .. Len(h) : (h \o r)[k] = h[k]
            /\ \A k \in 1 .. Len(r) : (h \o r)[Len(h) + k] = r[k]
        BY <3>1, ConcatAt
      <3> QED  BY <3>2 DEF S
    <2> HIDE DEF c, m
    <2> QED  BY <1>2, <1>3, <2>1
  <1> HIDE DEF c
  <1>5. c[m + 1][2] = n
    <2>1. c[1 + m] = r[m]
      BY <1>3, <1>4
    <2>2. 1 + m = m + 1
      BY <1>3
    <2> QED  BY <2>1, <2>2 DEF Chain
  <1>6. ASSUME NEW k \in 1 .. m + 1 PROVE c[k][1] <= c[k][2]
    <2>1. CASE k = 1
      BY <1>1, <1>4, <2>1
    <2>2. CASE k # 1
      <3>1. k - 1 \in 1 .. m /\ 1 + (k - 1) = k
        BY <1>3, <2>2
      <3>2. c[k] = r[k - 1]
        BY <1>4, <3>1
      <3> QED  BY <3>1, <3>2 DEF Chain
    <2> QED  BY <2>1, <2>2
  <1>7. ASSUME NEW k \in 1 .. m PROVE c[k][2] = c[k + 1][1]
    <2>1. c[1 + k] = r[k] /\ 1 + k = k + 1
      BY <1>4
    <2>2. CASE k = 1
      BY <1>1, <1>4, <2>1, <2>2 DEF Chain
    <2>3. CASE k # 1
      <3>1. k - 1 \in 1 .. m /\ 1 + (k - 1) = k /\ k - 1 \in 1 .. m - 1 /\ (k - 1) + 1 = k
        BY <1>3, <2>3
      <3>2. c[k] = r[k - 1]
        BY <1>4, <3>1
      <3>3. r[k - 1][2] = r[k][1]
        BY <3>1 DEF Chain
      <3> QED  BY <2>1, <3>2, <3>3
    <2> QED  BY <2>2, <2>3
  <1>8. (m + 1) - 1 = m
    BY <1>3
  <1>9. Chain(c, p, n)
    BY <1>1, <1>4, <1>5, <1>6, <1>7, <1>8, <1>3 DEF Chain
  <1> QED  BY <1>9 DEF c, h, e

(* The greedy cuts can be computed.                                          *)
ChunkFrom(g, n, cuts, k) ==
    IF k <= MaxChunk THEN <<<<n - k, n>>>>
    ELSE LET cut == CutAfter(cuts, n - k) IN <<<<n - k, cut>>>> \o g[n - cut]
GreedyFrom(g, n, m, cuts) == g = [k \in 0 .. m |-> ChunkFrom(g, n, cuts, k)]

(* The greedy cuts of every rest are computed from those of the shorter     *)
(* ones.                                                                    *)
LEMMA GreedyExists ==
  ASSUME NEW n \in Nat, NEW cuts \in SUBSET Nat
  PROVE  \E g : GreedyFrom(g, n, n, cuts)
  <1> DEFINE T == {m \in Nat : m <= n => \E g : GreedyFrom(g, n, m, cuts)}
  <1>1. MaxChunk \in Nat \ {0}
    BY ChunkAssumption
  <1>2. 0 \in T
    <2> DEFINE g == [k \in 0 .. 0 |-> <<<<n - k, n>>>>]
    <2>1. \A k \in 0 .. 0 : ChunkFrom(g, n, cuts, k) = <<<<n - k, n>>>>
      BY <1>1 DEF ChunkFrom
    <2>2. g = [k \in 0 .. 0 |-> ChunkFrom(g, n, cuts, k)]
      BY <2>1
    <2>3. GreedyFrom(g, n, 0, cuts)
      BY <2>2 DEF GreedyFrom
    <2> QED  BY <2>3
  <1>3. ASSUME NEW m \in T PROVE m + 1 \in T
    <2> SUFFICES ASSUME m + 1 <= n PROVE \E h : GreedyFrom(h, n, m + 1, cuts)
      OBVIOUS
    <2>1. m \in Nat /\ m <= n
      OBVIOUS
    <2>2. PICK g : GreedyFrom(g, n, m, cuts)
      BY <2>1
    <2> DEFINE h == [k \in 0 .. m + 1 |-> IF k <= m THEN g[k] ELSE ChunkFrom(g, n, cuts, k)]
    <2>3. \A k \in 0 .. m : h[k] = g[k] /\ g[k] = ChunkFrom(g, n, cuts, k)
      BY <2>1, <2>2, SMTT(40) DEF GreedyFrom
    <2>4. h[m + 1] = ChunkFrom(g, n, cuts, m + 1)
      BY <2>1
    <2>5. ASSUME NEW k \in 0 .. m + 1 PROVE ChunkFrom(h, n, cuts, k) = ChunkFrom(g, n, cuts, k)
      <3>1. CASE k <= MaxChunk
        BY <3>1 DEF ChunkFrom
      <3>2. CASE ~(k <= MaxChunk)
        <4> DEFINE cut == CutAfter(cuts, n - k)
        <4>1. n - k \in Nat
          BY <2>1
        <4>2. cut \in ((n - k) + 1) .. ((n - k) + MaxChunk)
          BY <4>1, CutFacts
        <4> HIDE DEF cut
        <4>3. n - cut \in 0 .. m
          BY <1>1, <2>1, <3>2, <4>2
        <4> HIDE DEF h
        <4>4. h[n - cut] = g[n - cut]
          BY <2>3, <4>3
        <4> QED  BY <3>2, <4>4 DEF ChunkFrom, cut
      <3> QED  BY <3>1, <3>2
    <2>6. ASSUME NEW k \in 0 .. m + 1 PROVE h[k] = ChunkFrom(h, n, cuts, k)
      <3>1. k \in 0 .. m \/ k = m + 1
        BY <2>1
      <3> HIDE DEF h
      <3> QED  BY <2>3, <2>4, <2>5, <3>1
    <2>7. h = [k \in 0 .. m + 1 |-> h[k]]
      OBVIOUS
    <2> HIDE DEF h
    <2>8. h = [k \in 0 .. m + 1 |-> ChunkFrom(h, n, cuts, k)]
      BY <2>6, <2>7
    <2> QED  BY <2>8 DEF GreedyFrom
  <1>4. T \subseteq Nat
    OBVIOUS
  <1> HIDE DEF T
  <1>5. T = Nat
    BY <1>2, <1>3, <1>4, NatSetInduction
  <1> QED  BY <1>5 DEF T

(* Cut from the start, a recording is covered from its start to its end.     *)
LEMMA GreedyFacts ==
  ASSUME NEW n \in Nat, NEW cuts \in SUBSET Nat
  PROVE  Chain(Greedy(n, cuts), 0, n)
  <1> DEFINE from == CHOOSE g : GreedyFrom(g, n, n, cuts)
             T == {m \in Nat : \A k \in 0 .. m : k <= n => Chain(from[k], n - k, n)}
  <1>1. GreedyFrom(from, n, n, cuts)
    BY GreedyExists
  <1>2. Greedy(n, cuts) = from[n]
    BY DEF Greedy, GreedyFrom, ChunkFrom
  <1> HIDE DEF from
  <1>3. MaxChunk \in Nat \ {0}
    BY ChunkAssumption
  <1>4. ASSUME NEW k \in 0 .. n, k <= MaxChunk PROVE Chain(from[k], n - k, n)
    <2>1. from[k] = <<<<n - k, n>>>>
      BY <1>1, <1>4 DEF GreedyFrom, ChunkFrom
    <2>2. n - k \in 0 .. n
      OBVIOUS
    <2> QED  BY <2>1, <2>2, ChainOne
  <1>5. ASSUME NEW k \in 0 .. n, ~(k <= MaxChunk), \A j \in 0 .. k - 1 : Chain(from[j], n - j, n)
        PROVE  Chain(from[k], n - k, n)
    <2> DEFINE cut == CutAfter(cuts, n - k)
               r == from[n - cut]
    <2>1. n - k \in Nat /\ n - k \in 0 .. n
      OBVIOUS
    <2>2. cut \in ((n - k) + 1) .. ((n - k) + MaxChunk)
      BY <2>1, CutFacts
    <2>3. from[k] = <<<<n - k, cut>>>> \o r
      BY <1>1, <1>5 DEF GreedyFrom, ChunkFrom
    <2> HIDE DEF cut
    <2>4. n - cut \in 0 .. k - 1 /\ n - (n - cut) = cut /\ cut \in (n - k) .. n
      BY <1>3, <1>5, <2>2
    <2>5. Chain(r, cut, n)
      BY <1>5, <2>4
    <2> HIDE DEF r
    <2> QED  BY <2>1, <2>3, <2>4, <2>5, ChainCons
  <1>6. 0 \in T
    <2>1. 0 \in 0 .. n /\ 0 <= MaxChunk
      BY <1>3
    <2>2. Chain(from[0], n - 0, n)
      BY <1>4, <2>1
    <2> QED  BY <2>2
  <1>7. ASSUME NEW m \in T PROVE m + 1 \in T
    <2> SUFFICES ASSUME NEW k \in 0 .. m + 1, k <= n PROVE Chain(from[k], n - k, n)
      OBVIOUS
    <2>1. m \in Nat /\ \A j \in 0 .. m : j <= n => Chain(from[j], n - j, n)
      OBVIOUS
    <2>2. \A j \in 0 .. k - 1 : Chain(from[j], n - j, n)
      BY <2>1
    <2>3. k \in 0 .. n
      BY <2>1
    <2> QED  BY <1>4, <1>5, <2>2, <2>3
  <1>8. T = Nat
    <2>1. T \subseteq Nat
      OBVIOUS
    <2> HIDE DEF T
    <2> QED  BY <1>6, <1>7, <2>1, NatSetInduction
  <1>9. Chain(from[n], n - n, n)
    <2>1. n \in T
      BY <1>8
    <2> QED  BY <2>1
  <1>10. n - n = 0
    OBVIOUS
  <1> QED  BY <1>2, <1>9, <1>10

(* A tail that is merged into the range before it leaves no gap.             *)
LEMMA MergeTailFacts ==
  ASSUME NEW n \in Nat, NEW r, Chain(r, 0, n)
  PROVE  Chain(MergeTail(r), 0, n)
  <1> DEFINE m == Len(r)
             p == SubSeq(r, 1, m - 2)
             e == <<r[m - 1][1], r[m][2]>>
             c == Append(p, e)
  <1>1. r \in Seq(Stretches(n)) /\ m \in Nat \ {0}
    BY DEF Chain
  <1>2. CASE ~(m >= 2 /\ r[m][2] - r[m][1] < MinTail)
    <2>1. MergeTail(r) = r
      BY <1>2 DEF MergeTail
    <2> QED  BY <2>1
  <1>3. CASE m >= 2 /\ r[m][2] - r[m][1] < MinTail
    <2>1. MergeTail(r) = c
      BY <1>3 DEF MergeTail
    <2>2. m - 1 \in 1 .. m /\ m \in 1 .. m /\ m - 2 \in 0 .. m /\ m - 1 \in 1 .. m - 1
          /\ (m - 1) + 1 = m /\ (m - 2) + 1 = m - 1
      BY <1>1, <1>3
    <2>3. \A k \in 1 .. m : r[k] \in Stretches(n) /\ r[k][1] \in 0 .. n /\ r[k][2] \in 0 .. n
      <3>1. \A k \in 1 .. m : r[k] \in Stretches(n)
        BY <1>1
      <3>2. \A x \in Stretches(n) : x[1] \in 0 .. n /\ x[2] \in 0 .. n
        BY DEF Stretches
      <3> HIDE DEF m
      <3> QED  BY <3>1, <3>2
    <2>4. r[m - 1][1] <= r[m - 1][2] /\ r[m - 1][2] = r[m][1] /\ r[m][1] <= r[m][2] /\ r[m][2] = n
      <3>1. r[m - 1][2] = r[(m - 1) + 1][1]
        BY <2>2 DEF Chain
      <3> QED  BY <2>2, <3>1 DEF Chain
    <2>5. e \in Stretches(n) /\ e[1] = r[m - 1][1] /\ e[2] = n /\ e[1] <= e[2]
      <3>1. e[1] = r[m - 1][1] /\ e[2] = r[m][2]
        OBVIOUS
      <3>2. e \in Stretches(n)
        BY <2>2, <2>3 DEF Stretches
      <3>3. r[m - 1][1] <= n
        BY <2>2, <2>3
      <3> HIDE DEF e, m
      <3> QED  BY <2>4, <3>1, <3>2, <3>3
    <2>6. p \in Seq(Stretches(n)) /\ Len(p) = m - 2 /\ \A k \in 1 .. m - 2 : p[k] = r[k]
      <3> DEFINE d == m - 2
      <3>1. d \in 0 .. Len(r)
        BY <2>2
      <3> HIDE DEF d
      <3>2. /\ SubSeq(r, 1, d) \in Seq(Stretches(n)) /\ Len(SubSeq(r, 1, d)) = d
            /\ \A k \in 1 .. d : SubSeq(r, 1, d)[k] = r[k]
        BY <1>1, <3>1, SplitAt
      <3> QED  BY <3>2 DEF d
    <2> HIDE DEF p, e
    <2>7. /\ c \in Seq(Stretches(n)) /\ Len(c) = (m - 2) + 1
          /\ \A k \in 1 .. m - 2 : c[k] = p[k]
          /\ c[(m - 2) + 1] = e
      <3>1. /\ c \in Seq(Stretches(n)) /\ Len(c) = Len(p) + 1
            /\ \A k \in 1 .. Len(p) : c[k] = p[k]
            /\ c[Len(p) + 1] = e
        BY <2>5, <2>6, AppendProperties
      <3> HIDE DEF c, m
      <3> QED  BY <2>6, <3>1
    <2> HIDE DEF c
    <2>8. Len(c) = m - 1 /\ c[m - 1] = e /\ \A k \in 1 .. m - 2 : c[k] = r[k]
      BY <2>2, <2>6, <2>7
    <2>9. c[1][1] = 0
      <3>1. r[1][1] = 0
        BY DEF Chain
      <3>2. CASE m = 2
        <4>1. c[1] = e /\ e[1] = r[1][1]
          BY <2>5, <2>8, <3>2
        <4> QED  BY <3>1, <4>1
      <3>3. CASE m # 2
        <4>1. 1 \in 1 .. m - 2
          <5> HIDE DEF m
          <5>1. m \in Nat /\ m >= 3
            BY <1>1, <1>3, <3>3
          <5> QED  BY <5>1
        <4>2. c[1] = r[1]
          BY <2>8, <4>1
        <4> QED  BY <3>1, <4>2
      <3> QED  BY <3>2, <3>3
    <2>10. ASSUME NEW k \in 1 .. m - 1 PROVE c[k][1] <= c[k][2]
      <3>1. CASE k = m - 1
        BY <2>5, <2>8, <3>1
      <3>2. CASE k # m - 1
        <4>1. k \in 1 .. m - 2 /\ k \in 1 .. m
          BY <1>1, <3>2
        <4>2. r[k][1] <= r[k][2]
          BY <4>1 DEF Chain
        <4> QED  BY <2>8, <4>1, <4>2
      <3> QED  BY <3>1, <3>2
    <2>11. ASSUME NEW k \in 1 .. (m - 1) - 1 PROVE c[k][2] = c[k + 1][1]
      <3>1. k \in 1 .. m - 2 /\ k \in 1 .. m - 1 /\ k + 1 \in 1 .. m - 1
        BY <1>1
      <3>2. c[k] = r[k] /\ r[k][2] = r[k + 1][1]
        BY <2>8, <3>1 DEF Chain
      <3>3. CASE k + 1 = m - 1
        BY <2>5, <2>8, <3>2, <3>3
      <3>4. CASE k + 1 # m - 1
        <4>1. k + 1 \in 1 .. m - 2
          BY <1>1, <3>1, <3>4
        <4>2. c[k + 1] = r[k + 1]
          BY <2>8, <4>1
        <4> QED  BY <3>2, <4>2
      <3> QED  BY <3>3, <3>4
    <2>12. Len(c) # 0 /\ c[Len(c)][2] = n
      BY <1>1, <1>3, <2>5, <2>8
    <2>13. Chain(c, 0, n)
      BY <2>7, <2>8, <2>9, <2>10, <2>11, <2>12 DEF Chain
    <2> QED  BY <2>1, <2>13
  <1> QED  BY <1>2, <1>3

(* The ranges a recording is cut into leave no gap and do not overlap.       *)
LEMMA SplitPointsFacts ==
  ASSUME NEW S, NEW wav \in Seq(S)
  PROVE  Chain(SplitPoints(wav), 0, Len(wav))
  <1> DEFINE n == Len(wav)
  <1>1. n \in Nat /\ 0 \in 0 .. n
    OBVIOUS
  <1>2. Cuts(wav) \in SUBSET Nat
    <2> DEFINE m == Len(FrameLoud(wav))
    <2>1. SilenceRuns(wav) \subseteq (0 .. m) \X (0 .. m)
      BY DEF SilenceRuns
    <2> HIDE DEF m
    <2>2. ASSUME NEW x \in SilenceRuns(wav) PROVE (x[1] + x[2]) \div 2 \in Nat
      <3>1. x[1] \in 0 .. m /\ x[2] \in 0 .. m
        BY <2>1
      <3>2. x[1] \in Nat /\ x[2] \in Nat
        BY <3>1
      <3> QED  BY <3>2
    <2> QED  BY <2>2 DEF Cuts
  <1>3. CASE n <= MaxChunk
    <2>1. SplitPoints(wav) = <<<<0, n>>>>
      BY <1>3 DEF SplitPoints
    <2> QED  BY <1>1, <2>1, ChainOne
  <1>4. CASE ~(n <= MaxChunk)
    <2>1. SplitPoints(wav) = MergeTail(Greedy(n, Cuts(wav)))
      BY <1>4 DEF SplitPoints
    <2> QED  BY <1>1, <1>2, <2>1, GreedyFacts, MergeTailFacts
  <1> QED  BY <1>3, <1>4

(* What is said at some places of a file, and where it is voiced.            *)
Said(f, l, mode) == {[of |-> f, at |-> u, in |-> l, as |-> mode] : u \in 1 .. Len(Audio[f])}
Says(f, at, l, mode) == [i \in DOMAIN at |-> [of |-> f, at |-> at[i], in |-> l, as |-> mode]]
Heard(f, a, b) == {u \in (a + 1) .. b : Audio[f][u] # Quiet}
Words(f, a, b, l, mode) == Says(f, Ascending(Len(Audio[f]), Heard(f, a, b)), l, mode)

(* A file is a list of units.                                               *)
LEMMA AudioFacts ==
  ASSUME NEW f \in DOMAIN Audio
  PROVE  Audio[f] \in Seq(ToSet(Audio[f])) /\ Len(Audio[f]) \in Nat
  <1>1. Audio[f] \in Seq(ToSet(Audio[f]))
    BY RequestAssumption
  <1> DEFINE S == ToSet(Audio[f])
  <1> HIDE DEF S
  <1>2. Audio[f] \in Seq(S)
    BY <1>1 DEF S
  <1> QED  BY <1>1, <1>2

(* What is said at some places is one word for each of them.                *)
LEMMA SaysFacts ==
  ASSUME NEW f, NEW at \in Seq(1 .. Len(Audio[f])), NEW l, NEW mode
  PROVE  Says(f, at, l, mode) \in Seq(Said(f, l, mode)) /\ Len(Says(f, at, l, mode)) = Len(at)
         /\ \A i \in 1 .. Len(at) : Says(f, at, l, mode)[i] = [of |-> f, at |-> at[i], in |-> l, as |-> mode]
  <1>1. DOMAIN at = 1 .. Len(at) /\ Len(at) \in Nat /\ \A i \in 1 .. Len(at) : at[i] \in 1 .. Len(Audio[f])
    OBVIOUS
  <1>2. Says(f, at, l, mode) \in [1 .. Len(at) -> Said(f, l, mode)]
    BY <1>1 DEF Says, Said
  <1>3. \A i \in 1 .. Len(at) : Says(f, at, l, mode)[i] = [of |-> f, at |-> at[i], in |-> l, as |-> mode]
    BY <1>1 DEF Says
  <1> QED  BY <1>1, <1>2, <1>3, FunctionSeq

(* What is said of a stretch of a file is said at places of the file.       *)
LEMMA WordsType ==
  ASSUME NEW f \in DOMAIN Audio, NEW a \in Nat, NEW b \in Nat, b <= Len(Audio[f]), NEW l, NEW mode
  PROVE  Words(f, a, b, l, mode) \in Seq(Said(f, l, mode)) /\ Heard(f, a, b) \in SUBSET (1 .. Len(Audio[f]))
  <1> DEFINE n == Len(Audio[f])
             K == Heard(f, a, b)
  <1>1. n \in Nat
    BY AudioFacts
  <1>2. K \in SUBSET (1 .. n)
    <2>1. ASSUME NEW u \in K PROVE u \in 1 .. n
      <3>1. u \in (a + 1) .. b
        BY DEF Heard
      <3> HIDE DEF n
      <3>2. b <= n
        BY DEF n
      <3> QED  BY <1>1, <3>1, <3>2
    <2> QED  BY <2>1
  <1> HIDE DEF K, n
  <1>3. Ascending(n, K) \in Seq(K)
    BY <1>1, <1>2, AscendingFacts
  <1> DEFINE at == Ascending(n, K)
  <1> HIDE DEF at
  <1>4. at \in Seq(1 .. Len(Audio[f]))
    <2>1. Len(at) \in Nat /\ at \in [1 .. Len(at) -> K]
      BY <1>3 DEF at
    <2>2. at \in [1 .. Len(at) -> 1 .. n]
      BY <1>2, <2>1
    <2> QED  BY <2>1, <2>2, FunctionSeq DEF n
  <1>5. Says(f, at, l, mode) \in Seq(Said(f, l, mode))
    BY <1>4, SaysFacts
  <1> QED  BY <1>2, <1>5 DEF Words, K, n, at

(* What is said of a stretch and of the next is what is said of both.        *)
LEMMA WordsConcat ==
  ASSUME NEW f \in DOMAIN Audio, NEW a \in Nat, NEW b \in Nat, a <= b, b <= Len(Audio[f]),
         NEW l, NEW mode
  PROVE  Words(f, 0, b, l, mode) = Words(f, 0, a, l, mode) \o Words(f, a, b, l, mode)
  <1> DEFINE n == Len(Audio[f])
             K == Heard(f, 0, a)
             M == Heard(f, a, b)
             p == Ascending(n, K)
             q == Ascending(n, M)
             word(u) == [of |-> f, at |-> u, in |-> l, as |-> mode]
             R == Said(f, l, mode)
             P == Says(f, p, l, mode)
             Q == Says(f, q, l, mode)
  <1>1. n \in Nat
    BY AudioFacts
  <1>2. K \in SUBSET (1 .. a) /\ M \in SUBSET ((a + 1) .. n) /\ K \cup M = Heard(f, 0, b)
        /\ a \in 0 .. n /\ K \in SUBSET (1 .. n) /\ M \in SUBSET (1 .. n)
    <2>1. \A u \in K : u \in 1 .. a
      BY DEF Heard
    <2>2. a \in 0 .. n /\ b \in 0 .. n
      BY <1>1
    <2>3. ASSUME NEW u \in M PROVE u \in (a + 1) .. n
      <3>1. u \in (a + 1) .. b
        BY DEF Heard
      <3> HIDE DEF n
      <3>2. b \in Nat /\ n \in Nat /\ b <= n
        BY <1>1, <2>2
      <3> QED  BY <3>1, <3>2
    <2>4. ASSUME NEW u PROVE u \in Heard(f, 0, b) <=> u \in K \/ u \in M
      BY DEF Heard
    <2> HIDE DEF K, M, n
    <2>5. \A u \in K : u \in 1 .. n
      BY <1>1, <2>1, <2>2
    <2>6. \A u \in M : u \in 1 .. n
      BY <1>1, <2>2, <2>3
    <2> QED  BY <2>1, <2>2, <2>3, <2>4, <2>5, <2>6
  <1> HIDE DEF K, M, n
  <1>3. Ascending(n, K \cup M) = p \o q
    <2>1. a \in 0 .. n /\ K \in SUBSET (1 .. a) /\ M \in SUBSET ((a + 1) .. n)
      BY <1>2
    <2> QED  BY <1>1, <2>1, AscendingConcat, ZenonT(40)
  <1>4. p \in Seq(1 .. n) /\ q \in Seq(1 .. n)
    <2>1. p \in Seq(K) /\ q \in Seq(M)
      BY <1>1, <1>2, AscendingFacts
    <2> HIDE DEF p, q
    <2>2. ASSUME NEW J \in SUBSET (1 .. n), NEW s \in Seq(J) PROVE s \in Seq(1 .. n)
      <3>1. Len(s) \in Nat /\ s \in [1 .. Len(s) -> J]
        OBVIOUS
      <3>2. s \in [1 .. Len(s) -> 1 .. n]
        BY <3>1
      <3> QED  BY <3>1, <3>2, FunctionSeq
    <2> QED  BY <1>2, <2>1, <2>2
  <1> HIDE DEF p, q
  <1>5. p \o q \in Seq(1 .. n) /\ Len(p \o q) = Len(p) + Len(q)
        /\ (\A j \in 1 .. Len(p) : (p \o q)[j] = p[j])
        /\ \A j \in 1 .. Len(q) : (p \o q)[Len(p) + j] = q[j]
    BY <1>4, ConcatAt
  <1>6. /\ P \in Seq(R) /\ Len(P) = Len(p) /\ \A j \in 1 .. Len(p) : P[j] = word(p[j])
        /\ Q \in Seq(R) /\ Len(Q) = Len(q) /\ \A j \in 1 .. Len(q) : Q[j] = word(q[j])
    <2>1. p \in Seq(1 .. Len(Audio[f])) /\ q \in Seq(1 .. Len(Audio[f]))
      BY <1>4 DEF n
    <2>2. /\ P \in Seq(R) /\ Len(P) = Len(p)
          /\ \A j \in 1 .. Len(p) : P[j] = [of |-> f, at |-> p[j], in |-> l, as |-> mode]
      BY <2>1, SaysFacts, SMTT(40)
    <2>3. /\ Q \in Seq(R) /\ Len(Q) = Len(q)
          /\ \A j \in 1 .. Len(q) : Q[j] = [of |-> f, at |-> q[j], in |-> l, as |-> mode]
      BY <2>1, SaysFacts
    <2> QED  BY <2>2, <2>3
  <1> DEFINE c == p \o q
             C == Says(f, c, l, mode)
  <1>7. C \in Seq(R) /\ Len(C) = Len(c) /\ \A j \in 1 .. Len(c) : C[j] = word(c[j])
    <2>1. c \in Seq(1 .. Len(Audio[f]))
      BY <1>5 DEF n
    <2> HIDE DEF c
    <2>2. /\ C \in Seq(R) /\ Len(C) = Len(c)
          /\ \A j \in 1 .. Len(c) : C[j] = [of |-> f, at |-> c[j], in |-> l, as |-> mode]
      BY <2>1, SaysFacts
    <2> QED  BY <2>2
  <1> DEFINE D == P \o Q
  <1>8. D \in Seq(R) /\ Len(D) = Len(P) + Len(Q)
        /\ (\A j \in 1 .. Len(P) : D[j] = P[j]) /\ \A j \in 1 .. Len(Q) : D[Len(P) + j] = Q[j]
    <2>1. P \in Seq(R) /\ Q \in Seq(R)
      BY <1>6
    <2> HIDE DEF P, Q, R
    <2> QED  BY <2>1, ConcatAt
  <1>9. C = D
    <2>1. Len(p) \in Nat /\ Len(q) \in Nat
      BY <1>4
    <2> HIDE DEF P, Q, C, D, R, c, word
    <2>2. Len(c) = Len(p) + Len(q) /\ (\A j \in 1 .. Len(p) : c[j] = p[j])
          /\ \A j \in 1 .. Len(q) : c[Len(p) + j] = q[j]
      BY <1>5 DEF c
    <2>3. Len(C) = Len(D)
      BY <1>6, <1>7, <1>8, <2>2
    <2>4. ASSUME NEW j \in 1 .. Len(C) PROVE C[j] = D[j]
      <3>1. CASE j <= Len(p)
        <4>1. j \in 1 .. Len(p) /\ j \in 1 .. Len(P) /\ j \in 1 .. Len(c)
          BY <1>6, <1>7, <2>1, <2>2, <3>1
        <4> QED  BY <1>6, <1>7, <1>8, <2>2, <4>1
      <3>2. CASE ~(j <= Len(p))
        <4> DEFINE k == j - Len(p)
        <4>1. k \in 1 .. Len(q) /\ Len(p) + k = j /\ j \in 1 .. Len(c)
          BY <1>7, <2>1, <2>2, <3>2
        <4> HIDE DEF k
        <4>2. c[j] = q[k] /\ D[j] = Q[k] /\ Q[k] = word(q[k])
          BY <1>6, <1>8, <2>2, <4>1
        <4> QED  BY <1>7, <4>1, <4>2
      <3> QED  BY <2>1, <3>1, <3>2
    <2> QED  BY <1>7, <1>8, <2>3, <2>4, SeqEqual
  <1>10. Words(f, 0, b, l, mode) = C
    BY <1>2, <1>3 DEF Words, n
  <1>11. Words(f, 0, a, l, mode) = P /\ Words(f, a, b, l, mode) = Q
    BY DEF Words, n, p, q, K, M
  <1> QED  BY <1>9, <1>10, <1>11

(* What is said of ranges that follow one another from the start to the end  *)
(* is what is said of the whole.                                             *)
LEMMA ChainWords ==
  ASSUME NEW f \in DOMAIN Audio, NEW r, Chain(r, 0, Len(Audio[f])), NEW l, NEW mode
  PROVE  FlattenSeq([i \in DOMAIN r |-> Words(f, r[i][1], r[i][2], l, mode)])
           = Words(f, 0, Len(Audio[f]), l, mode)
  <1> DEFINE n == Len(Audio[f])
             m == Len(r)
             R == Said(f, l, mode)
             seqs == [i \in DOMAIN r |-> Words(f, r[i][1], r[i][2], l, mode)]
             g == [k \in 0 .. m |-> IF k = 0 THEN <<>> ELSE Words(f, 0, r[k][2], l, mode)]
  <1>1. n \in Nat
    BY AudioFacts
  <1>2. r \in Seq(Stretches(n)) /\ m \in Nat \ {0} /\ DOMAIN r = 1 .. m
    BY DEF Chain
  <1>3. \A k \in 1 .. m : r[k][1] \in Nat /\ r[k][2] \in Nat /\ r[k][1] <= r[k][2] /\ r[k][2] <= n
    <2>1. \A x \in Stretches(n) : x[1] \in Nat /\ x[2] \in Nat /\ x[2] <= n
      <3> SUFFICES ASSUME NEW x \in Stretches(n) PROVE x[1] \in Nat /\ x[2] \in Nat /\ x[2] <= n
        OBVIOUS
      <3> HIDE DEF n
      <3>1. x[1] \in 0 .. n /\ x[2] \in 0 .. n
        BY DEF Stretches
      <3> QED  BY <1>1, <3>1
    <2>2. \A k \in 1 .. m : r[k] \in Stretches(n)
      BY <1>2
    <2> HIDE DEF n
    <2> QED  BY <2>1, <2>2 DEF Chain
  <1>4. r[1][1] = 0 /\ r[m][2] = n /\ \A k \in 1 .. m - 1 : r[k][2] = r[k + 1][1]
    BY DEF Chain
  <1>5. ASSUME NEW k \in 1 .. m PROVE seqs[k] \in Seq(R) /\ Words(f, 0, r[k][2], l, mode) \in Seq(R)
    BY <1>2, <1>3, WordsType
  <1>6. seqs \in Seq(Seq(R)) /\ Len(seqs) = m
    <2>1. seqs \in [1 .. m -> Seq(R)]
      BY <1>2, <1>5
    <2> HIDE DEF seqs, R
    <2> QED  BY <1>2, <2>1, FunctionSeq
  <1>7. ASSUME NEW k \in 1 .. m PROVE g[k] = g[k - 1] \o seqs[k]
    <2>1. g[k] = Words(f, 0, r[k][2], l, mode) /\ seqs[k] = Words(f, r[k][1], r[k][2], l, mode)
      BY <1>2
    <2>2. CASE k = 1
      <3>1. g[0] = <<>> /\ 1 - 1 = 0
        BY <1>2
      <3>2. seqs[1] = g[1]
        BY <1>4, <2>1, <2>2
      <3>3. seqs[1] \in Seq(R)
        BY <1>2, <1>5
      <3> HIDE DEF g, seqs, R
      <3>4. <<>> \o seqs[1] = seqs[1]
        BY <3>3, ConcatEmptySeq
      <3> QED  BY <2>2, <3>1, <3>2, <3>4
    <2>3. CASE k # 1
      <3>1. k - 1 \in 1 .. m - 1 /\ k - 1 \in 1 .. m /\ (k - 1) + 1 = k /\ k - 1 # 0 /\ k - 1 \in 0 .. m
        BY <1>2, <2>3
      <3>2. g[k - 1] = Words(f, 0, r[k - 1][2], l, mode)
        BY <3>1
      <3>3. r[k - 1][2] = r[k][1]
        BY <1>4, <3>1
      <3>4. Words(f, 0, r[k][2], l, mode) = Words(f, 0, r[k][1], l, mode) \o Words(f, r[k][1], r[k][2], l, mode)
        <4> DEFINE a == r[k][1]
                   b == r[k][2]
        <4>1. a \in Nat /\ b \in Nat /\ a <= b /\ b <= Len(Audio[f])
          BY <1>3
        <4> HIDE DEF a, b
        <4>2. Words(f, 0, b, l, mode) = Words(f, 0, a, l, mode) \o Words(f, a, b, l, mode)
          BY <4>1, WordsConcat
        <4> QED  BY <4>2 DEF a, b
      <3> HIDE DEF g, seqs
      <3> QED  BY <2>1, <3>2, <3>3, <3>4
    <2> QED  BY <2>2, <2>3
  <1>8. g[0] = <<>> /\ g[m] = Words(f, 0, n, l, mode)
    BY <1>2, <1>4
  <1> HIDE DEF g, seqs, R, m, n
  <1>9. FlattenSeq(seqs) = g[Len(seqs)]
    BY <1>6, <1>7, <1>8, FlattenBy
  <1> QED  BY <1>6, <1>8, <1>9 DEF seqs, n

(* A text is what is said of its stretch of the file.                        *)
LEMMA TextWords ==
  \A f, range, x, l, mode :
     Text(Row(f, range, x), l, mode) = Words(f, range[1], range[2], l, mode)
  BY DEF Text, Row, Voiced, Words, Says, Heard

(* The calls a list is sent in.                                              *)
LEMMA SliceBounds ==
  ASSUME NEW n \in Nat, NEW d \in Nat \ {0}
  PROVE  LET m == (n + d - 1) \div d
         IN  /\ m \in Nat /\ n <= m * d
             /\ \A b \in 1 .. m : /\ (b - 1) * d \in Nat /\ b * d \in Nat
                                 /\ (b - 1) * d < n /\ b * d = (b - 1) * d + d
  <1> DEFINE m == (n + d - 1) \div d
  <1>1. m \in Nat /\ d * m <= n + d - 1 /\ n + d - 1 < d * m + d
    <2> DEFINE e == n + d - 1
    <2>1. e \in Nat
      OBVIOUS
    <2> HIDE DEF e
    <2>2. e \div d \in Nat /\ d * (e \div d) <= e /\ e < d * (e \div d) + d
      BY <2>1, DivFacts
    <2> QED  BY <2>2 DEF e
  <1> HIDE DEF m
  <1>2. d * m = m * d /\ m * d \in Nat
    BY <1>1
  <1>3. n <= m * d
    <2> DEFINE x == m * d
    <2>1. x \in Nat /\ n + d - 1 < x + d
      BY <1>1, <1>2
    <2> HIDE DEF x
    <2> QED  BY <2>1 DEF x
  <1>4. ASSUME NEW b \in 1 .. m
        PROVE  /\ (b - 1) * d \in Nat /\ b * d \in Nat
               /\ (b - 1) * d < n /\ b * d = (b - 1) * d + d
    <2>1. b \in Nat /\ b - 1 \in Nat /\ m - b \in Nat
      BY <1>1
    <2>2. (b - 1) * d \in Nat /\ b * d \in Nat /\ (m - b) * d \in Nat
      BY <2>1
    <2>3. b * d = (b - 1) * d + d /\ m * d = b * d + (m - b) * d
      BY <1>1, <2>1
    <2> DEFINE x == (b - 1) * d
               y == b * d
               z == m * d
               w == (m - b) * d
    <2>4. x \in Nat /\ y \in Nat /\ w \in Nat /\ y = x + d /\ z = y + w /\ z <= n + d - 1
      BY <1>1, <1>2, <2>2, <2>3
    <2> HIDE DEF x, y, z, w
    <2>5. x < n
      BY <2>4
    <2> QED  BY <2>4, <2>5 DEF x, y
  <1> QED  BY <1>1, <1>3, <1>4 DEF m

(* A list and the stretch of it that follows.                                *)
LEMMA GrowBy ==
  ASSUME NEW Y, NEW n \in Nat, NEW h \in [1 .. n -> Y], NEW y \in Nat, NEW z \in y .. n
  PROVE  /\ [i \in 1 .. y |-> h[i]] \in Seq(Y) /\ [i \in 1 .. z - y |-> h[y + i]] \in Seq(Y)
         /\ [i \in 1 .. y |-> h[i]] \o [i \in 1 .. z - y |-> h[y + i]] = [i \in 1 .. z |-> h[i]]
  <1> DEFINE p == [i \in 1 .. y |-> h[i]]
             q == [i \in 1 .. z - y |-> h[y + i]]
             c == [i \in 1 .. z |-> h[i]]
             d == p \o q
  <1>1. z \in Nat /\ z - y \in Nat /\ y <= n /\ z <= n
    OBVIOUS
  <1>2. p \in Seq(Y) /\ Len(p) = y
    <2>1. p \in [1 .. y -> Y]
      BY <1>1
    <2> HIDE DEF p
    <2> QED  BY <2>1, FunctionSeq
  <1>3. q \in Seq(Y) /\ Len(q) = z - y
    <2> DEFINE k == z - y
    <2>1. q \in [1 .. k -> Y]
      <3>1. \A i \in 1 .. z - y : y + i \in 1 .. n
        BY <1>1
      <3> QED  BY <3>1
    <2>2. k \in Nat
      BY <1>1
    <2> HIDE DEF q, k
    <2>3. q \in Seq(Y) /\ Len(q) = k
      BY <2>1, <2>2, FunctionSeq
    <2> QED  BY <2>3 DEF k
  <1>4. c \in Seq(Y) /\ Len(c) = z
    <2>1. c \in [1 .. z -> Y]
      BY <1>1
    <2> HIDE DEF c
    <2> QED  BY <1>1, <2>1, FunctionSeq
  <1>5. \A i \in 1 .. y : p[i] = h[i]
    OBVIOUS
  <1>6. \A i \in 1 .. z - y : q[i] = h[y + i]
    OBVIOUS
  <1>7. \A i \in 1 .. z : c[i] = h[i]
    OBVIOUS
  <1> HIDE DEF p, q, c
  <1>8. d \in Seq(Y) /\ Len(d) = Len(p) + Len(q)
        /\ (\A j \in 1 .. Len(p) : d[j] = p[j]) /\ \A j \in 1 .. Len(q) : d[Len(p) + j] = q[j]
    <2>1. p \in Seq(Y) /\ q \in Seq(Y)
      BY <1>2, <1>3
    <2> QED  BY <2>1, ConcatAt
  <1> HIDE DEF d
  <1>9. d = c
    <2>1. Len(d) = z
      BY <1>1, <1>2, <1>3, <1>8
    <2>2. ASSUME NEW j \in 1 .. Len(d) PROVE d[j] = c[j]
      <3>1. CASE j <= y
        <4>1. j \in 1 .. y /\ j \in 1 .. z
          BY <1>1, <2>1, <3>1
        <4> QED  BY <1>2, <1>5, <1>7, <1>8, <4>1
      <3>2. CASE ~(j <= y)
        <4>1. j - y \in 1 .. z - y /\ y + (j - y) = j /\ j \in 1 .. z
          BY <1>1, <2>1, <3>2
        <4>2. d[y + (j - y)] = q[j - y]
          BY <1>2, <1>3, <1>8, <4>1
        <4> QED  BY <1>6, <1>7, <4>1, <4>2
      <3> QED  BY <2>1, <1>1, <3>1, <3>2
    <2> QED  BY <1>4, <1>8, <2>1, <2>2, SeqEqual
  <1> QED  BY <1>2, <1>3, <1>9 DEF p, q, c, d

(* Rows sent in several calls are answered as they would be in one.          *)
LEMMA BatchedFacts ==
  ASSUME NEW X, NEW rows \in Seq(X), NEW mode, NEW allowed
  PROVE  Batched(rows, mode, allowed) = TranscribeBatch(rows, mode, allowed)
  <1> DEFINE n == Len(rows)
             d == BatchSize
             m == (n + d - 1) \div d
             Row_(x) == LET id == Identified(x.lang, Top(Wav(x), 5, Candidates(allowed, Nothing)))
                        IN  [text |-> Text(x, id.lang, mode), lid |-> id]
             Y == {Row_(x) : x \in X}
             calls == Slices(rows, d)
             seqs == [b \in DOMAIN calls |-> TranscribeBatch(calls[b], mode, allowed)]
             e(b) == Min({b * d, n})
             g == [b \in 0 .. m |-> [i \in 1 .. IF b = 0 THEN 0 ELSE e(b) |-> Row_(rows[i])]]
  <1>1. n \in Nat /\ d \in Nat \ {0} /\ DOMAIN rows = 1 .. n
    BY RequestAssumption
  <1>2. /\ m \in Nat /\ n <= m * d
        /\ \A b \in 1 .. m : /\ (b - 1) * d \in Nat /\ b * d \in Nat
                            /\ (b - 1) * d < n /\ b * d = (b - 1) * d + d
    <2> HIDE DEF n, d
    <2> QED  BY <1>1, SliceBounds
  <1>3. \A s : TranscribeBatch(s, mode, allowed) = [i \in DOMAIN s |-> Row_(s[i])]
    BY DEF TranscribeBatch
  <1>4. calls = [b \in 1 .. m |-> SubSeq(rows, (b - 1) * d + 1, e(b))]
    BY DEF Slices
  <1> HIDE DEF m, calls, d, n
  <1>5. ASSUME NEW b \in 1 .. m
        PROVE  /\ e(b) \in 1 .. n /\ e(b) \in {b * d, n} /\ e(b) <= n /\ e(b) <= b * d
               /\ (b - 1) * d + 1 <= e(b)
    <2> DEFINE x == b * d
               y == (b - 1) * d
    <2>1. x \in Nat /\ y \in Nat /\ y < n /\ x = y + d
      BY <1>2
    <2> HIDE DEF x, y
    <2> DEFINE T == {x, n}
    <2>2. T \subseteq 0 .. (x + n) /\ T # {} /\ x + n \in Nat
      BY <1>1, <2>1
    <2>3. Min(T) \in T /\ \A t \in T : Min(T) <= t
      BY <2>2, ExtremeFacts
    <2> DEFINE z == Min(T)
    <2>4. z \in {x, n} /\ z <= x /\ z <= n
      BY <2>3
    <2> HIDE DEF z
    <2>5. z \in 1 .. n /\ y + 1 <= z
      BY <1>1, <2>1, <2>4
    <2> QED  BY <2>4, <2>5 DEF x, y, z
  <1>6. ASSUME NEW b \in 2 .. m PROVE e(b - 1) = (b - 1) * d
    <2>1. b - 1 \in 1 .. m /\ b \in 1 .. m
      BY <1>2
    <2>2. (b - 1) * d < n /\ (b - 1) * d \in Nat
      BY <1>2, <2>1
    <2>3. e(b - 1) \in {(b - 1) * d, n} /\ e(b - 1) <= (b - 1) * d
      BY <1>5, <2>1
    <2> DEFINE x == (b - 1) * d
               z == e(b - 1)
    <2>4. x < n /\ x \in Nat /\ z \in {x, n} /\ z <= x
      BY <2>2, <2>3
    <2> HIDE DEF x, z
    <2>5. z = x
      BY <1>1, <2>4
    <2> QED  BY <2>5 DEF x, z
  <1> DEFINE h == [i \in 1 .. n |-> Row_(rows[i])]
             lo(b) == (b - 1) * d
             prev(b) == IF b - 1 = 0 THEN 0 ELSE e(b - 1)
  <1>7. h \in [1 .. n -> Y] /\ n \in Nat
    BY <1>1
  <1>8. ASSUME NEW b \in 1 .. m PROVE prev(b) = lo(b) /\ lo(b) \in Nat /\ e(b) \in lo(b) .. n
    <2>1. CASE b = 1
      <3>1. b - 1 = 0
        BY <2>1
      <3>2. (b - 1) * d = 0
        BY <1>1, <3>1
      <3>3. e(b) \in 1 .. n
        BY <1>5
      <3> HIDE DEF e
      <3> QED  BY <1>7, <3>1, <3>2, <3>3
    <2>2. CASE b # 1
      <3>1. b \in 2 .. m /\ b - 1 # 0
        BY <1>2, <2>2
      <3>2. e(b - 1) = (b - 1) * d
        BY <1>6, <3>1
      <3>3. lo(b) \in Nat /\ lo(b) + 1 <= e(b) /\ e(b) \in 1 .. n
        BY <1>2, <1>5
      <3>4. prev(b) = lo(b)
        BY <3>1, <3>2
      <3> HIDE DEF e, lo, prev
      <3> QED  BY <1>7, <3>3, <3>4
    <2> QED  BY <2>1, <2>2
  <1>9. ASSUME NEW b \in 1 .. m
        PROVE  seqs[b] = [i \in 1 .. e(b) - lo(b) |-> h[lo(b) + i]] /\ seqs[b] \in Seq(Y)
               /\ g[b] = g[b - 1] \o seqs[b]
    <2> DEFINE y == lo(b)
               z == e(b)
               call_ == SubSeq(rows, y + 1, z)
    <2>1. y \in Nat /\ z \in y .. n /\ prev(b) = y
      BY <1>8
    <2>2. call_ = calls[b] /\ seqs[b] = [i \in DOMAIN call_ |-> Row_(call_[i])]
      BY <1>3, <1>4
    <2>3. g[b] = [i \in 1 .. z |-> Row_(rows[i])] /\ g[b - 1] = [i \in 1 .. prev(b) |-> Row_(rows[i])]
      <3>1. b \in 0 .. m /\ b - 1 \in 0 .. m /\ b # 0
        BY <1>2
      <3> HIDE DEF Row_, e
      <3> QED  BY <3>1
    <2> HIDE DEF y, z
    <2>4. DOMAIN call_ = 1 .. z - y /\ \A i \in 1 .. z - y : call_[i] = rows[y + i]
      <3>1. \A i \in y + 1 .. z : rows[i] \in X
        BY <1>1, <2>1
      <3>2. y + 1 \in Int /\ z \in Int /\ y \in Int /\ y <= z
        BY <1>7, <2>1
      <3>3. /\ call_ \in Seq(X)
            /\ Len(call_) = IF y + 1 <= z THEN z - (y + 1) + 1 ELSE 0
            /\ \A i \in 1 .. z - (y + 1) + 1 : call_[i] = rows[(y + 1) + i - 1]
        BY <3>1, <3>2, SubSeqProperties
      <3> HIDE DEF call_
      <3>4. z - (y + 1) + 1 = z - y
        BY <3>2
      <3>5. Len(call_) = z - y
        BY <3>2, <3>3
      <3>6. \A i \in 1 .. z - y : (y + 1) + i - 1 = y + i
        BY <3>2
      <3>7. DOMAIN call_ = 1 .. Len(call_)
        BY <3>3
      <3> QED  BY <3>3, <3>4, <3>5, <3>6, <3>7
    <2> HIDE DEF call_
    <2>5. \A i \in 1 .. z - y : y + i \in 1 .. n
      BY <1>7, <2>1
    <2>6. seqs[b] = [i \in 1 .. z - y |-> h[y + i]]
      <3>1. \A i \in 1 .. z - y : Row_(call_[i]) = h[y + i]
        BY <2>4, <2>5
      <3> HIDE DEF Row_, h, seqs
      <3> QED  BY <2>2, <2>4, <3>1
    <2>7. g[b] = [i \in 1 .. z |-> h[i]] /\ g[b - 1] = [i \in 1 .. y |-> h[i]]
      <3>1. \A i \in 1 .. n : h[i] = Row_(rows[i])
        OBVIOUS
      <3>2. 1 .. z \subseteq 1 .. n /\ 1 .. y \subseteq 1 .. n
        BY <1>7, <2>1
      <3> HIDE DEF g, h, Row_, prev
      <3> QED  BY <2>1, <2>3, <3>1, <3>2
    <2> HIDE DEF g, h, Y, seqs
    <2>8. /\ [i \in 1 .. z - y |-> h[y + i]] \in Seq(Y)
          /\ [i \in 1 .. y |-> h[i]] \o [i \in 1 .. z - y |-> h[y + i]] = [i \in 1 .. z |-> h[i]]
      BY <1>7, <2>1, GrowBy
    <2> QED  BY <2>6, <2>7, <2>8 DEF y, z
  <1>10. seqs \in Seq(Seq(Y)) /\ Len(seqs) = m
    <2>1. DOMAIN calls = 1 .. m
      BY <1>4, SMTT(40)
    <2>2. seqs \in [1 .. m -> Seq(Y)]
      <3> HIDE DEF Y
      <3> QED  BY <1>9, <2>1
    <2> HIDE DEF seqs, Y
    <2> QED  BY <1>2, <2>2, FunctionSeq
  <1>11. g[0] = <<>>
    BY <1>2
  <1>12. g[m] = h
    <2>1. CASE m = 0
      <3>1. n = 0
        BY <1>1, <1>2, <2>1
      <3>2. g[m] = [i \in 1 .. 0 |-> Row_(rows[i])]
        BY <2>1
      <3> QED  BY <3>1, <3>2
    <2>2. CASE m # 0
      <3>1. m \in 1 .. m /\ m \in 0 .. m
        BY <1>2, <2>2
      <3>2. e(m) \in {m * d, n} /\ e(m) <= n /\ m * d \in Nat /\ n <= m * d
        BY <1>2, <1>5, <3>1
      <3>3. e(m) = n
        <4> DEFINE x == m * d
                   z == e(m)
        <4>1. z \in {x, n} /\ z <= n /\ x \in Nat /\ n <= x
          BY <3>2
        <4> HIDE DEF x, z
        <4>2. z = n
          BY <1>1, <4>1
        <4> QED  BY <4>2 DEF z
      <3> HIDE DEF e
      <3> QED  BY <2>2, <3>1, <3>3
    <2> QED  BY <2>1, <2>2
  <1>13. Batched(rows, mode, allowed) = FlattenSeq(seqs)
    BY DEF Batched, calls, d
  <1>14. TranscribeBatch(rows, mode, allowed) = h
    BY <1>1, <1>3
  <1> HIDE DEF seqs, g, h, Y
  <1>15. FlattenSeq(seqs) = g[Len(seqs)]
    <2>1. \A b \in 1 .. Len(seqs) : g[b] = g[b - 1] \o seqs[b]
      BY <1>9, <1>10
    <2> QED  BY <1>10, <1>11, <2>1, FlattenBy
  <1> QED  BY <1>10, <1>12, <1>13, <1>14, <1>15

(* An answer is all that is said of its file, in one language, of those it   *)
(* may be in: the one asked for, or one that LID may name.                   *)
Tongues(given, allowed) == IF given = Nothing THEN Candidates(allowed, Nothing) ELSE {given}
AnswersFor(a, f, mode, L) ==
    a.text = Words(f, 0, Len(Audio[f]), a.lid.lang, mode) /\ a.lid.lang \in L

(* A row that is transcribed at once has the answer of its file.            *)
LEMMA ShortFacts ==
  ASSUME NEW f \in DOMAIN Audio, NEW given, NEW mode, NEW allowed, Candidates(allowed, Nothing) # {},
         NEW rows, NEW i \in DOMAIN rows, rows[i] = Whole(f, given)
  PROVE  AnswersFor(TranscribeBatch(rows, mode, allowed)[i], f, mode, Tongues(given, allowed))
  <1> DEFINE n == Len(Audio[f])
             S == ToSet(Audio[f])
             L == Candidates(allowed, Nothing)
             row == Whole(f, given)
             top == Top(Wav(row), 5, L)
             id == Identified(given, top)
             a == TranscribeBatch(rows, mode, allowed)[i]
  <1>1. a = [text |-> Text(row, id.lang, mode), lid |-> id]
    <2>1. row.lang = given
      BY DEF Whole, Row
    <2> QED  BY <2>1 DEF TranscribeBatch
  <1>2. row = Row(f, <<0, n>>, given) /\ row.of = f /\ row.range = <<0, n>>
    BY DEF Whole, Row
  <1>3. Text(row, id.lang, mode) = Words(f, 0, n, id.lang, mode)
    <2> DEFINE range == <<0, n>>
    <2>1. range[1] = 0 /\ range[2] = n
      OBVIOUS
    <2> HIDE DEF range, id, n, row
    <2>2. row = Row(f, range, given)
      BY <1>2 DEF range
    <2>3. Text(Row(f, range, given), id.lang, mode) = Words(f, range[1], range[2], id.lang, mode)
      BY TextWords
    <2> QED  BY <2>1, <2>2, <2>3
  <1>4. id.lang \in Tongues(given, allowed)
    <2>1. CASE given # Nothing
      BY <2>1 DEF Identified, Tongues
    <2>2. CASE given = Nothing
      <3>1. Audio[f] \in Seq(S) /\ n \in Nat
        BY AudioFacts
      <3>2. Wav(row) = Piece(Audio[f], <<0, n>>)
        BY <1>2 DEF Wav
      <3>3. Piece(Audio[f], <<0, n>>) \in Seq(S)
        <4> DEFINE r == <<0, n>>
        <4>1. r[1] \in Nat /\ r[2] \in Nat /\ r[2] <= Len(Audio[f])
          BY <3>1
        <4> HIDE DEF r, S
        <4> QED  BY <3>1, <4>1, PieceOfFacts DEF r
      <3>4. L \in SUBSET AllLangs /\ L # {} /\ 5 \in Nat \ {0}
        BY CandidatesFacts
      <3> DEFINE wav == Wav(row)
      <3>5. wav \in Seq(S)
        BY <3>2, <3>3
      <3> HIDE DEF wav, L, S
      <3>6. Top(wav, 5, L) \in Seq(Tallied(L)) /\ Len(Top(wav, 5, L)) # 0
        BY <3>4, <3>5, TopFacts
      <3> DEFINE t == Top(wav, 5, L)
      <3> HIDE DEF t
      <3>7. t \in Seq(Tallied(L)) /\ Len(t) # 0
        BY <3>6 DEF t
      <3>8. t[1] \in Tallied(L)
        BY <3>7
      <3>9. t[1].lang \in L
        BY <3>8 DEF Tallied
      <3>10. id.lang = t[1].lang
        BY <2>2 DEF Identified, t, wav
      <3> QED  BY <2>2, <3>9, <3>10 DEF Tongues, L
    <2> QED  BY <2>1, <2>2
  <1> HIDE DEF id, row, a
  <1>5. a.text = Words(f, 0, n, a.lid.lang, mode) /\ a.lid.lang \in Tongues(given, allowed)
    BY <1>1, <1>3, <1>4
  <1> QED  BY <1>5 DEF AnswersFor, a

(* A long file is answered like a short one.                                 *)
LEMMA LongFacts ==
  ASSUME NEW f \in DOMAIN Audio, NEW given, given = Nothing \/ given \in AllLangs, NEW mode,
         NEW allowed, Candidates(allowed, Nothing) # {}, NEW thr, ~(Len(Audio[f]) <= thr)
  PROVE  AnswersFor(TranscribeLong(f, given, thr, mode, allowed), f, mode, Tongues(given, allowed))
  <1> DEFINE n == Len(Audio[f])
             S == ToSet(Audio[f])
             ranges == SplitPoints(Audio[f])
             pieces == [i \in DOMAIN ranges |-> Piece(Audio[f], ranges[i])]
             id == Identified(given, Best(5, Vote(ProbeTops(pieces, allowed))))
             rows(l) == [i \in DOMAIN ranges |-> Row(f, ranges[i], PieceLangs(pieces, l)[i])]
             decoded == [l \in AllLangs |-> Batched(rows(l), mode, Nothing)]
             joined(answers) == FlattenSeq([i \in DOMAIN answers |-> answers[i].text])
             a == TranscribeLong(f, given, thr, mode, allowed)
  <1>1. a = [text |-> joined(decoded[id.lang]), lid |-> id]
    BY DEF TranscribeLong
  <1>2. Audio[f] \in Seq(S) /\ n \in Nat
    BY AudioFacts
  <1>3. Chain(ranges, 0, n)
    <2> HIDE DEF S
    <2> QED  BY <1>2, SplitPointsFacts
  <1>4. ranges \in Seq(Stretches(n)) /\ Len(ranges) \in Nat \ {0} /\ DOMAIN ranges = 1 .. Len(ranges)
    <2> HIDE DEF ranges
    <2> QED  BY <1>3 DEF Chain
  <1> HIDE DEF ranges
  <1>5. pieces \in Seq(Seq(S)) /\ Len(pieces) # 0
    <2>1. ASSUME NEW i \in 1 .. Len(ranges) PROVE Piece(Audio[f], ranges[i]) \in Seq(S)
      <3>1. ranges[i] \in Stretches(n)
        BY <1>4
      <3> DEFINE r == ranges[i]
      <3> HIDE DEF r
      <3>2. r[1] \in 0 .. n /\ r[2] \in 0 .. n
        BY <3>1 DEF Stretches, r
      <3>3. r[1] \in Nat /\ r[2] \in Nat /\ r[2] <= Len(Audio[f])
        BY <1>2, <3>2
      <3> HIDE DEF S
      <3> QED  BY <1>2, <3>3, PieceOfFacts DEF r
    <2>2. pieces \in [1 .. Len(ranges) -> Seq(S)]
      BY <1>4, <2>1
    <2> HIDE DEF pieces, S
    <2> QED  BY <1>4, <2>2, FunctionSeq
  <1>6. id.lang \in Tongues(given, allowed) /\ id.lang \in AllLangs
    <2>1. CASE given # Nothing
      BY <2>1 DEF Identified, Tongues
    <2>2. CASE given = Nothing
      <3> HIDE DEF pieces, S
      <3>1. Best(5, Vote(ProbeTops(pieces, allowed)))[1].lang \in Candidates(allowed, Nothing)
        BY <1>5, LongLang
      <3>2. id.lang = Best(5, Vote(ProbeTops(pieces, allowed)))[1].lang
        BY <2>2 DEF Identified
      <3> QED  BY <2>2, <3>1, <3>2, CandidatesFacts DEF Tongues
    <2> QED  BY <2>1, <2>2
  <1> DEFINE l == id.lang
  <1>7. l \in AllLangs /\ l # Nothing
    BY <1>6, RequestAssumption
  <1>8. DOMAIN pieces = DOMAIN ranges
    OBVIOUS
  <1> HIDE DEF id, pieces
  <1>9. rows(l) = [i \in DOMAIN ranges |-> Row(f, ranges[i], l)]
    BY <1>8 DEF PieceLangs
  <1> DEFINE q == [i \in DOMAIN ranges |-> Row(f, ranges[i], l)]
             X == {Row(f, ranges[i], l) : i \in DOMAIN ranges}
  <1>10. q \in Seq(X)
    <2>1. q \in [1 .. Len(ranges) -> X]
      BY <1>4
    <2> HIDE DEF q, X
    <2> QED  BY <1>4, <2>1, FunctionSeq
  <1>11. decoded[l] = TranscribeBatch(q, mode, Nothing)
    <2>1. decoded[l] = Batched(rows(l), mode, Nothing)
      BY <1>7
    <2> HIDE DEF decoded, rows, q, X, l
    <2>2. rows(l) = q
      BY <1>9 DEF q
    <2> QED  BY <1>10, <2>1, <2>2, BatchedFacts
  <1> DEFINE answers == TranscribeBatch(q, mode, Nothing)
  <1>12. ASSUME NEW i \in DOMAIN ranges
         PROVE  answers[i].text = Words(f, ranges[i][1], ranges[i][2], l, mode)
    <2>1. q[i] = Row(f, ranges[i], l) /\ DOMAIN q = DOMAIN ranges
      OBVIOUS
    <2>2. q[i].lang = l
      BY <2>1 DEF Row
    <2> HIDE DEF q, l
    <2> DEFINE d == Identified(l, Top(Wav(q[i]), 5, Candidates(Nothing, Nothing)))
    <2>3. answers[i] = [text |-> Text(q[i], d.lang, mode), lid |-> d]
      BY <2>1, <2>2 DEF TranscribeBatch
    <2>4. d.lang = l
      BY <1>7 DEF Identified
    <2> HIDE DEF d, answers
    <2>5. answers[i].text = Text(q[i], l, mode)
      BY <2>3, <2>4
    <2> QED  BY <2>1, <2>5, TextWords
  <1>13. DOMAIN answers = DOMAIN ranges
    BY DEF TranscribeBatch
  <1> HIDE DEF answers, decoded, l
  <1>14. joined(answers) = Words(f, 0, n, l, mode)
    <2>1. [i \in DOMAIN answers |-> answers[i].text]
            = [i \in DOMAIN ranges |-> Words(f, ranges[i][1], ranges[i][2], l, mode)]
      BY <1>12, <1>13
    <2>2. FlattenSeq([i \in DOMAIN ranges |-> Words(f, ranges[i][1], ranges[i][2], l, mode)])
            = Words(f, 0, n, l, mode)
      BY <1>3, ChainWords
    <2> QED  BY <2>1, <2>2
  <1>15. joined(decoded[l]) = Words(f, 0, n, l, mode)
    BY <1>11, <1>14 DEF answers
  <1> HIDE DEF joined, a
  <1>16. a.text = Words(f, 0, n, a.lid.lang, mode) /\ a.lid.lang \in Tongues(given, allowed)
    BY <1>1, <1>6, <1>15 DEF l
  <1> QED  BY <1>16 DEF AnswersFor, a

(* Every path has its answer, whichever way its row went.                    *)
LEMMA PathsFacts ==
  ASSUME NEW paths \in Seq(DOMAIN Audio), NEW given, given = Nothing \/ given \in AllLangs,
         NEW thr \in Nat, NEW mode, NEW allowed, Candidates(allowed, Nothing) # {}
  PROVE  LET a == TranscribePaths(paths, given, thr, mode, allowed)
         IN  /\ a = [i \in DOMAIN paths |-> a[i]]
             /\ \A i \in DOMAIN paths :
                   AnswersFor(a[i], paths[i], mode, Tongues(given, allowed))
  <1> DEFINE n == Len(paths)
             K == {i \in DOMAIN paths : ~IsLong(paths[i], thr)}
             short == Ascending(n, K)
             rows == [j \in DOMAIN short |-> Whole(paths[short[j]], given)]
             answered == Batched(rows, mode, allowed)
             place(i) == CHOOSE j \in DOMAIN short : short[j] = i
             a == TranscribePaths(paths, given, thr, mode, allowed)
  <1>1. a = [i \in DOMAIN paths |->
               IF IsLong(paths[i], thr) THEN TranscribeLong(paths[i], given, thr, mode, allowed)
                                        ELSE answered[place(i)]]
    BY DEF TranscribePaths
  <1>2. n \in Nat /\ DOMAIN paths = 1 .. n /\ \A i \in DOMAIN paths : paths[i] \in DOMAIN Audio
    OBVIOUS
  <1>3. K \in SUBSET (1 .. n)
    OBVIOUS
  <1>4. short \in Seq(K) /\ ToSet(short) = K
    <2> HIDE DEF K
    <2> QED  BY <1>2, <1>3, AscendingFacts
  <1>5. Len(short) \in Nat /\ DOMAIN short = 1 .. Len(short) /\ \A j \in DOMAIN short : short[j] \in K
    <2> HIDE DEF short, K
    <2> QED  BY <1>4
  <1> HIDE DEF short
  <1>6. answered = TranscribeBatch(rows, mode, allowed)
    <2> DEFINE X == {Whole(paths[k], given) : k \in K}
    <2>1. rows \in [1 .. Len(short) -> X]
      <3> HIDE DEF K
      <3> QED  BY <1>5
    <2> HIDE DEF rows, X
    <2>2. rows \in Seq(X)
      BY <1>5, <2>1, FunctionSeq
    <2> QED  BY <2>2, BatchedFacts
  <1>7. ASSUME NEW i \in DOMAIN paths PROVE AnswersFor(a[i], paths[i], mode, Tongues(given, allowed))
    <2>1. CASE IsLong(paths[i], thr)
      <3>1. a[i] = TranscribeLong(paths[i], given, thr, mode, allowed)
        BY <1>1, <2>1
      <3> DEFINE f == paths[i]
      <3>2. f \in DOMAIN Audio /\ IsLong(f, thr)
        BY <1>2, <2>1
      <3>3. ~(Len(Audio[f]) <= thr)
        <4> HIDE DEF f
        <4>1. Len(Audio[f]) \in Nat
          BY <3>2, AudioFacts
        <4> QED  BY <3>2, <4>1 DEF IsLong
      <3> HIDE DEF f, a
      <3>4. AnswersFor(TranscribeLong(f, given, thr, mode, allowed), f, mode, Tongues(given, allowed))
        BY <3>2, <3>3, LongFacts
      <3> QED  BY <3>1, <3>4 DEF f
    <2>2. CASE ~IsLong(paths[i], thr)
      <3>1. i \in K
        BY <2>2
      <3>2. \E j \in DOMAIN short : short[j] = i
        <4> HIDE DEF K
        <4> QED  BY <1>4, <3>1 DEF ToSet
      <3>3. place(i) \in DOMAIN short /\ short[place(i)] = i
        BY <3>2
      <3>4. a[i] = answered[place(i)]
        BY <1>1, <2>2
      <3> HIDE DEF place, a, answered, K
      <3>5. rows[place(i)] = Whole(paths[i], given) /\ place(i) \in DOMAIN rows
        BY <3>3
      <3> HIDE DEF rows
      <3> QED  BY <1>2, <1>6, <3>4, <3>5, ShortFacts
    <2> QED  BY <2>1, <2>2
  <1>8. a = [i \in DOMAIN paths |-> a[i]]
    <2> HIDE DEF answered, place
    <2> QED  BY <1>1
  <1> QED  BY <1>7, <1>8

(* What is said of a whole file is its text, in one language.                *)
LEMMA WordsAnswer ==
  ASSUME NEW f \in DOMAIN Audio, NEW l, NEW mode
  PROVE  LET text == Words(f, 0, Len(Audio[f]), l, mode)
         IN  IsTextOf(text, f, mode) /\ InOneTongue(text, l)
  <1> DEFINE n == Len(Audio[f])
             K == Heard(f, 0, n)
             at == Ascending(n, K)
             text == Says(f, at, l, mode)
  <1>1. n \in Nat
    BY AudioFacts
  <1>2. Words(f, 0, n, l, mode) = text
    BY DEF Words
  <1>3. Voiced(f, <<0, n>>) = at
    BY DEF Voiced, Heard
  <1>4. at \in Seq(1 .. n)
    <2>1. K \in SUBSET (1 .. n)
      <3>1. 0 \in Nat /\ n <= Len(Audio[f])
        BY <1>1
      <3> QED  BY <1>1, <3>1, WordsType
    <2> HIDE DEF K, n
    <2>2. at \in Seq(K)
      BY <1>1, <2>1, AscendingFacts
    <2> HIDE DEF at
    <2>3. Len(at) \in Nat /\ at \in [1 .. Len(at) -> K]
      BY <2>2
    <2>4. at \in [1 .. Len(at) -> 1 .. n]
      BY <2>1, <2>3
    <2> QED  BY <2>3, <2>4, FunctionSeq
  <1> HIDE DEF at
  <1>5. DOMAIN at = 1 .. Len(at) /\ Len(at) \in Nat /\ at = [i \in DOMAIN at |-> at[i]]
    BY <1>4
  <1>6. DOMAIN text = DOMAIN at
        /\ \A i \in DOMAIN at : text[i] = [of |-> f, at |-> at[i], in |-> l, as |-> mode]
    BY DEF Says
  <1> HIDE DEF text
  <1>7. [i \in DOMAIN text |-> text[i].at] = at
    <2>1. \A i \in DOMAIN at : text[i].at = at[i]
      BY <1>6
    <2>2. [i \in DOMAIN text |-> text[i].at] = [i \in DOMAIN at |-> at[i]]
      BY <1>6, <2>1
    <2> QED  BY <1>5, <2>2
  <1>8. \A i \in DOMAIN text : text[i].of = f /\ text[i].as = mode /\ text[i].in = l
    BY <1>6
  <1>9. IsTextOf(text, f, mode) /\ InOneTongue(text, l)
    BY <1>3, <1>7, <1>8 DEF IsTextOf, InOneTongue
  <1> QED  BY <1>2, <1>9

(* Whatever a request restricts LID to, a language is left.                  *)
LEMMA AllowedFacts ==
  ASSUME NEW spec, ~BadAllowed(spec), spec # Nothing => spec \in Seq(ToSet(spec))
  PROVE  Candidates(ParseAllowed(spec), Nothing) # {} /\ Candidates(Nothing, Nothing) # {}
  <1>1. AllLangs # {} /\ Trained # {} /\ Recommended # {} /\ Trained \subseteq AllLangs
        /\ Recommended \subseteq AllLangs
    BY RequestAssumption
  <1>2. Candidates(Nothing, Nothing) = AllLangs
    BY DEF Candidates
  <1>3. CASE spec = Nothing \/ spec = <<>>
    <2>1. ParseAllowed(spec) = Nothing
      BY <1>3 DEF ParseAllowed
    <2> QED  BY <1>1, <1>2, <2>1
  <1>4. CASE ~(spec = Nothing \/ spec = <<>>)
    <2> DEFINE R == ParseAllowed(spec)
    <2>1. R = (ToSet(spec) \cap Trained)
              \cup (IF Contains(spec, "trained") THEN Trained ELSE {})
              \cup (IF Contains(spec, "recommended") THEN Recommended ELSE {})
      BY <1>4 DEF ParseAllowed
    <2>2. spec \in Seq(ToSet(spec)) /\ spec # <<>>
      BY <1>4
    <2> DEFINE S == ToSet(spec)
    <2> HIDE DEF S
    <2>3. 1 \in 1 .. Len(spec)
      <3>1. spec \in Seq(S) /\ spec # <<>>
        BY <2>2 DEF S
      <3> QED  BY <3>1, EmptySeq
    <2>4. spec[1] \in Trained \cup {"trained", "recommended"}
      <3>1. spec[1] \in ToSet(spec)
        <4>1. DOMAIN spec = 1 .. Len(spec)
          <5>1. spec \in Seq(S)
            BY <2>2 DEF S
          <5> QED  BY <5>1
        <4> QED  BY <2>3, <4>1 DEF ToSet
      <3> QED  BY <1>4, <3>1 DEF BadAllowed
    <2>5. \A e : spec[1] = e => Contains(spec, e) /\ e \in ToSet(spec)
      <3>1. DOMAIN spec = 1 .. Len(spec)
        <4>1. spec \in Seq(S)
          BY <2>2 DEF S
        <4> QED  BY <4>1
      <3> QED  BY <2>3, <3>1 DEF Contains, ToSet
    <2> HIDE DEF R
    <2>6. R \cap AllLangs # {}
      <3>1. CASE spec[1] \in Trained
        <4>1. spec[1] \in R /\ spec[1] \in AllLangs
          BY <1>1, <2>1, <2>5, <3>1
        <4> QED  BY <4>1
      <3>2. CASE spec[1] = "trained"
        <4>1. Trained \subseteq R
          BY <2>1, <2>5, <3>2
        <4> QED  BY <1>1, <4>1
      <3>3. CASE spec[1] = "recommended"
        <4>1. Recommended \subseteq R
          BY <2>1, <2>5, <3>3
        <4> QED  BY <1>1, <4>1
      <3> QED  BY <2>4, <3>1, <3>2, <3>3
    <2>7. Candidates(R, Nothing) # {}
      BY <1>1, <2>6 DEF Candidates
    <2> QED  BY <1>1, <1>2, <2>7 DEF R
  <1> QED  BY <1>3, <1>4

(* What a good reply says: of an upload, in every mode asked for, and of     *)
(* every path of a request.                                                  *)
ToldUpload(r, p) ==
    /\ r.lidOnly \/ /\ DOMAIN p.modes = ToSet(r.modes)
                    /\ \A m \in ToSet(r.modes) : IsTextOf(p.modes[m], r.paths[1], m)
    /\ r.lang # Nothing => r.lidOnly \/ p.lang = r.lang
    /\ r.lang = Nothing => p.lang \in Candidates(ParseAllowed(r.allowed), Nothing)
    /\ \A m \in DOMAIN p.modes : InOneTongue(p.modes[m], p.lang)
ToldRow(r, i, row) ==
    /\ row.of = r.paths[i] /\ IsTextOf(row.text, r.paths[i], r.modes[1])
    /\ r.lang # Nothing => row.lang = r.lang
    /\ r.lang = Nothing => row.lang \in Candidates(ParseAllowed(r.allowed), Nothing)
    /\ InOneTongue(row.text, row.lang)
ToldRows(r, p) ==
    /\ DOMAIN p.rows = DOMAIN r.paths /\ DOMAIN r.paths # {}
    /\ \A i \in DOMAIN r.paths : ToldRow(r, i, p.rows[i])

(* How far an upload has come: the modes done are told whole, in the         *)
(* language the rest will be asked in, which is there from the first on.     *)
Going ==
    /\ left \in Seq(ToSet(req.modes)) /\ left # <<>>
    /\ DOMAIN out \cup ToSet(left) = ToSet(req.modes)
    /\ req.lang # Nothing => lang = req.lang
    /\ req.lang = Nothing /\ lang # Nothing => lang \in Candidates(Allowed, Nothing)
    /\ lang = Nothing => want /\ lid = Nothing /\ DOMAIN out = {}
    /\ \A m \in DOMAIN out : IsTextOf(out[m], req.paths[1], m) /\ InOneTongue(out[m], lang)

UploadCalls ==
    \/ req.lidOnly /\ job = Call("identify", lang, "native")
    \/ Going /\ ~req.lidOnly /\ lang # Nothing /\ job = Call("is_short", lang, "native")
    \/ Going /\ ~req.lidOnly /\ job = Call("transcribe", lang, Head(left))

AnswerInv ==
    /\ req \in Requests
    /\ pc # "replied" => reply = Nothing
    /\ pc \in {"arriving", "reading"} => lang = req.lang /\ lid = Nothing /\ out = NoMode
    /\ pc \in {"reading", "calling"} => ~BadAllowed(req.allowed)
    /\ pc = "reading" => Upload /\ (req.lidOnly \/ req.modes # <<>>)
    /\ pc = "calling" => IF Upload THEN UploadCalls
                         ELSE req.paths # <<>> /\ job = Call(req.kind, req.lang, req.modes[1])
    /\ RowsAnswered

(* A reply that tells the whole, or nothing of a transcript, keeps the      *)
(* invariant.                                                               *)
LEMMA ReplyStep ==
  ASSUME AnswerInv, NEW answer, Finish(answer), req' = req,
         answer.status = 200 /\ req.kind = "upload" => ToldUpload(req, answer),
         answer.status = 200 /\ req.kind = "transcribe" => ToldRows(req, answer)
  PROVE  AnswerInv'
  <1>1. pc' = "replied" /\ reply' = answer /\ req' = req /\ req \in Requests
    BY DEF Finish, AnswerInv
  <1>2. Transcribed' => answer.status = 200 /\ req.kind \in {"transcribe", "upload"}
    BY <1>1 DEF Transcribed
  <1>3. Upload' <=> req.kind = "upload"
    BY <1>1 DEF Upload
  <1>4. TextsWhole'
    <2>1. ASSUME Transcribed', req.kind = "upload"
          PROVE  req.lidOnly \/ (/\ DOMAIN reply'.modes = ToSet(req.modes)
                                 /\ \A m \in ToSet(req.modes) : IsTextOf(reply'.modes[m], req.paths[1], m))
      BY <1>1, <1>2, <2>1 DEF ToldUpload
    <2>2. ASSUME Transcribed', req.kind # "upload"
          PROVE  /\ DOMAIN reply'.rows = DOMAIN req.paths
                 /\ \A i \in DOMAIN req.paths :
                      /\ reply'.rows[i].of = req.paths[i]
                      /\ IsTextOf(reply'.rows[i].text, req.paths[i], req.modes[1])
      BY <1>1, <1>2, <2>2 DEF ToldRows, ToldRow
    <2> QED  BY <1>1, <1>3, <2>1, <2>2 DEF TextsWhole
  <1>5. OneTongue'
    <2> DEFINE C == Candidates(ParseAllowed(req.allowed), Nothing)
               rows == ToSet(reply'.rows)
    <2>1. ASSUME Transcribed', req.kind = "upload"
          PROVE  /\ req.lang # Nothing /\ ~req.lidOnly => {reply'.lang} = {req.lang}
                 /\ req.lang = Nothing => {reply'.lang} \subseteq C
                 /\ \A m \in DOMAIN reply'.modes : InOneTongue(reply'.modes[m], reply'.lang)
      BY <1>1, <1>2, <2>1 DEF ToldUpload
    <2>2. ASSUME Transcribed', req.kind # "upload"
          PROVE  /\ req.lang # Nothing => {r.lang : r \in rows} = {req.lang}
                 /\ req.lang = Nothing => {r.lang : r \in rows} \subseteq C
                 /\ \A r \in rows : InOneTongue(r.text, r.lang)
      <3>1. ToldRows(req, reply')
        BY <1>1, <1>2, <2>2
      <3>2. \A r \in rows : \E i \in DOMAIN req.paths : ToldRow(req, i, r)
        BY <3>1 DEF ToldRows, ToSet
      <3>3. rows # {}
        BY <3>1 DEF ToldRows, ToSet
      <3> HIDE DEF rows
      <3> QED  BY <3>2, <3>3 DEF ToldRow
    <2>3. Candidates(Allowed', Nothing) = C
      BY <1>1 DEF Allowed
    <2> HIDE DEF C
    <2> QED  BY <1>1, <1>3, <2>1, <2>2, <2>3 DEF OneTongue
  <1> QED  BY <1>1, <1>4, <1>5 DEF AnswerInv, RowsAnswered

(* A refusal tells nothing.                                                  *)
LEMMA RefusalStep ==
  ASSUME AnswerInv, NEW status, status # 200, Finish(Error(status)), req' = req
  PROVE  AnswerInv'
  <1>1. Error(status).status # 200
    BY DEF Error
  <1> QED  BY <1>1, ReplyStep

(* What is asked of a request's paths.                                       *)
LEMMA RequestFacts ==
  ASSUME AnswerInv
  PROVE  /\ req \in Requests /\ req.paths \in Seq(DOMAIN Audio) /\ req.modes \in Seq(ToSet(req.modes))
         /\ (IF req.above = Nothing THEN ChunkAbove ELSE req.above) \in Nat
         /\ req.kind = "upload" => Len(req.paths) = 1
         /\ ~BadAllowed(req.allowed) => Candidates(Allowed, Nothing) # {} /\ Candidates(Nothing, Nothing) # {}
  <1>1. req \in Requests
    BY DEF AnswerInv
  <1>2. /\ req.paths \in Seq(DOMAIN Audio) /\ req.modes \in Seq(ToSet(req.modes))
        /\ req.above \in {Nothing} \cup Nat /\ ChunkAbove \in Nat
        /\ req.kind = "upload" => Len(req.paths) = 1
    BY <1>1, RequestAssumption
  <1>3. req.allowed # Nothing => req.allowed \in Seq(ToSet(req.allowed))
    BY <1>1, RequestAssumption
  <1>4. ~BadAllowed(req.allowed) => Candidates(Allowed, Nothing) # {} /\ Candidates(Nothing, Nothing) # {}
    BY <1>3, AllowedFacts DEF Allowed
  <1> QED  BY <1>1, <1>2, <1>4

(* Every row of the reply is the answer of its own path.                    *)
LEMMA TranscribeStep ==
  ASSUME AnswerInv, TranscribeAnswered
  PROVE  AnswerInv'
  <1>1. pc = "calling" /\ req.kind = "transcribe" /\ req' = req
    BY DEF TranscribeAnswered
  <1>2. /\ ~BadAllowed(req.allowed) /\ req.paths # <<>>
        /\ job = Call("transcribe", req.lang, req.modes[1])
    BY <1>1 DEF AnswerInv, Upload
  <1>3. CASE CallerError(job)
    <2>1. Finish(Error(422))
      BY <1>3 DEF TranscribeAnswered
    <2> QED  BY <1>1, <2>1, RefusalStep
  <1>4. CASE ~CallerError(job)
    <2> DEFINE thr == IF req.above = Nothing THEN ChunkAbove ELSE req.above
               answers == TranscribePaths(req.paths, req.lang, thr, req.modes[1], Allowed)
               rows == [i \in DOMAIN req.paths |-> ReplyRow(req.paths[i], answers[i])]
               answer == [status |-> 200, rows |-> rows]
               C == Candidates(Allowed, Nothing)
    <2>1. /\ job.call = "transcribe" /\ job.paths = req.paths /\ job.asked = req.lang
          /\ job.mode = req.modes[1] /\ job.thr = thr
      BY <1>2 DEF Call
    <2>2. Finish(answer)
      <3> HIDE DEF thr
      <3>1. \E a \in {TranscribePaths(job.paths, job.asked, job.thr, job.mode, Allowed)} :
               Finish([status |-> 200,
                       rows |-> [i \in DOMAIN req.paths |-> ReplyRow(req.paths[i], a[i])]])
        BY <1>4 DEF TranscribeAnswered
      <3> QED  BY <2>1, <3>1
    <2>3. /\ req.paths \in Seq(DOMAIN Audio) /\ thr \in Nat /\ C # {}
          /\ req.lang = Nothing \/ req.lang \in AllLangs
      <3>1. req.lang = Nothing \/ req.lang \in AllLangs
        BY <1>4, <2>1 DEF CallerError, Promptable
      <3> QED  BY <1>2, <3>1, RequestFacts
    <2> HIDE DEF thr
    <2>4. \A i \in DOMAIN req.paths : AnswersFor(answers[i], req.paths[i], req.modes[1], Tongues(req.lang, Allowed))
      BY <2>3, PathsFacts
    <2>5. \A i \in DOMAIN req.paths : req.paths[i] \in DOMAIN Audio
      BY <2>3
    <2> HIDE DEF answers
    <2>6. ASSUME NEW i \in DOMAIN req.paths
          PROVE  ToldRow(req, i, rows[i])
      <3> DEFINE a == answers[i]
                 row == ReplyRow(req.paths[i], a)
      <3>1. rows[i] = row
        OBVIOUS
      <3>2. row.of = req.paths[i] /\ row.text = a.text /\ row.lang = a.lid.lang
        BY DEF ReplyRow
      <3>3. a.text = Words(req.paths[i], 0, Len(Audio[req.paths[i]]), a.lid.lang, req.modes[1])
            /\ a.lid.lang \in Tongues(req.lang, Allowed)
        BY <2>4 DEF AnswersFor
      <3> HIDE DEF a, row
      <3>4. IsTextOf(row.text, req.paths[i], req.modes[1]) /\ InOneTongue(row.text, row.lang)
        BY <2>5, <3>2, <3>3, WordsAnswer
      <3>5. /\ req.lang # Nothing => row.lang = req.lang
            /\ req.lang = Nothing => row.lang \in Candidates(ParseAllowed(req.allowed), Nothing)
        BY <3>2, <3>3 DEF Tongues, Allowed
      <3>6. ToldRow(req, i, row)
        BY <3>2, <3>4, <3>5 DEF ToldRow
      <3> QED  BY <3>1, <3>6
    <2>7. DOMAIN req.paths # {}
      <3>1. 1 \in 1 .. Len(req.paths) /\ DOMAIN req.paths = 1 .. Len(req.paths)
        BY <1>2, <2>3, EmptySeq
      <3> QED  BY <3>1
    <2>8. DOMAIN rows = DOMAIN req.paths
      OBVIOUS
    <2>9. answer.rows = rows
      OBVIOUS
    <2> HIDE DEF rows
    <2>10. ToldRows(req, answer)
      BY <2>6, <2>7, <2>8, <2>9 DEF ToldRows
    <2> HIDE DEF answer
    <2> QED  BY <1>1, <2>2, <2>10, ReplyStep
  <1> QED  BY <1>3, <1>4

(* An upload that is only identified is named a language LID may name.      *)
LEMMA IdentifyStep ==
  ASSUME AnswerInv, IdentifyAnswered
  PROVE  AnswerInv'
  <1>1. pc = "calling" /\ Upload /\ req.kind = "upload" /\ job.call = "identify" /\ req' = req
    BY DEF IdentifyAnswered, Upload
  <1>2. ~BadAllowed(req.allowed) /\ UploadCalls
    BY <1>1 DEF AnswerInv
  <1>3. req.lidOnly /\ job.paths = req.paths
    <2>1. Call("is_short", lang, "native").call = "is_short"
          /\ Call("transcribe", lang, Head(left)).call = "transcribe"
          /\ Call("identify", lang, "native").paths = req.paths
      BY DEF Call
    <2> QED  BY <1>1, <1>2, <2>1 DEF UploadCalls
  <1>4. CASE CallerError(job)
    <2>1. Finish(Error(422))
      BY <1>4 DEF IdentifyAnswered
    <2> QED  BY <1>1, <2>1, RefusalStep
  <1>5. CASE ~CallerError(job)
    <2> DEFINE f == req.paths[1]
               top == FileTop(f, Allowed)
               id == Identified(Nothing, top)
               answer == [status |-> 200, lang |-> id.lang, lid |-> id, modes |-> NoMode]
    <2>1. Finish(answer)
      <3> HIDE DEF top
      <3>1. \E i \in {Identified(Nothing, FileTop(job.paths[1], Allowed))} :
               Finish([status |-> 200, lang |-> i.lang, lid |-> i, modes |-> NoMode])
        BY <1>5 DEF IdentifyAnswered
      <3>2. FileTop(job.paths[1], Allowed) = top
        BY <1>3 DEF top
      <3> QED  BY <3>1, <3>2
    <2>2. f \in DOMAIN Audio /\ Candidates(Allowed, Nothing) # {}
      <3>1. req.paths \in Seq(DOMAIN Audio) /\ Len(req.paths) = 1 /\ Candidates(Allowed, Nothing) # {}
        BY <1>1, <1>2, RequestFacts
      <3> QED  BY <3>1
    <2> HIDE DEF f
    <2>3. top[1].lang \in Candidates(Allowed, Nothing)
      BY <2>2, FileTopFacts
    <2> HIDE DEF top
    <2>4. answer.lang \in Candidates(ParseAllowed(req.allowed), Nothing) /\ answer.modes = NoMode
      BY <2>3 DEF Identified, Allowed
    <2> HIDE DEF answer
    <2>5. DOMAIN NoMode = {}
      BY DEF NoMode
    <2>6. ToldUpload(req, answer)
      BY <1>3, <2>4, <2>5 DEF ToldUpload
    <2> QED  BY <1>1, <2>1, <2>6, ReplyStep
  <1> QED  BY <1>4, <1>5

(* The language is the same after a mode as before it, once there is one.    *)
LEMMA ModeStep ==
  ASSUME AnswerInv, ModeAnswered
  PROVE  AnswerInv'
  <1>1. pc = "calling" /\ Upload /\ req.kind = "upload" /\ job.call = "transcribe" /\ req' = req
        /\ want' = want
    BY DEF ModeAnswered, Upload
  <1>2. ~BadAllowed(req.allowed) /\ UploadCalls /\ reply = Nothing
    BY <1>1 DEF AnswerInv
  <1>3. Going /\ ~req.lidOnly /\ job = Call("transcribe", lang, Head(left))
    <2>1. Call("is_short", lang, "native").call = "is_short"
          /\ Call("identify", lang, "native").call = "identify"
      BY DEF Call
    <2> QED  BY <1>1, <1>2, <2>1 DEF UploadCalls
  <1>4. CASE CallerError(job)
    <2>1. Finish(Error(422))
      BY <1>4 DEF ModeAnswered
    <2> QED  BY <1>1, <2>1, RefusalStep
  <1>5. CASE ~CallerError(job)
    <2> DEFINE f == req.paths[1]
               mode == Head(left)
               thr == IF req.above = Nothing THEN ChunkAbove ELSE req.above
               reports == lid = Nothing /\ want
               allowed == IF reports THEN Allowed ELSE Nothing
               answers == TranscribePaths(req.paths, lang, thr, mode, allowed)
               a == answers[1]
               told == [status |-> 200, lang |-> lang', lid |-> lid', modes |-> out']
    <2>1. job.paths = req.paths /\ job.asked = lang /\ job.mode = mode /\ job.thr = thr
      BY <1>3 DEF Call
    <2>2. /\ lid' = IF reports THEN a.lid ELSE lid
          /\ lang' = IF reports THEN a.lid.lang ELSE lang
          /\ out' = [m \in DOMAIN out \cup {mode} |-> IF m = mode THEN a.text ELSE out[m]]
          /\ left' = Tail(left)
          /\ IF left' = <<>> THEN Finish(told)
             ELSE job' = Call("transcribe", lang', Head(left')) /\ UNCHANGED <<pc, tmp, reply>>
      <3> HIDE DEF thr, mode
      <3>1. \E answer \in {TranscribePaths(job.paths, job.asked, job.thr, job.mode, allowed)[1]} :
              /\ lid' = IF reports THEN answer.lid ELSE lid
              /\ lang' = IF reports THEN LangAfter(lang, answer.lid) ELSE lang
              /\ out' = [m \in DOMAIN out \cup {job.mode} |->
                            IF m = job.mode THEN answer.text ELSE out[m]]
              /\ left' = Tail(left)
              /\ IF left' = <<>> THEN Finish(told)
                 ELSE job' = Call("transcribe", lang', Head(left')) /\ UNCHANGED <<pc, tmp, reply>>
        BY <1>5 DEF ModeAnswered
      <3>2. TranscribePaths(job.paths, job.asked, job.thr, job.mode, allowed)[1] = a
        BY <2>1
      <3> HIDE DEF a, reports, allowed, told
      <3> QED  BY <2>1, <3>1, <3>2 DEF LangAfter
    <2> DEFINE l == a.lid.lang
               C == Candidates(ParseAllowed(req.allowed), Nothing)
    <2>3. /\ req.paths \in Seq(DOMAIN Audio) /\ Len(req.paths) = 1 /\ thr \in Nat
          /\ Candidates(allowed, Nothing) # {} /\ (lang = Nothing \/ lang \in AllLangs)
      <3>1. lang = Nothing \/ lang \in AllLangs
        BY <1>1, <1>5, <2>1 DEF CallerError, Promptable
      <3> QED  BY <1>1, <1>2, <3>1, RequestFacts
    <2>4. f \in DOMAIN Audio /\ 1 \in DOMAIN req.paths
      BY <2>3
    <2>5. AnswersFor(a, f, mode, Tongues(lang, allowed))
      <3> HIDE DEF thr, mode, allowed
      <3>1. \A i \in DOMAIN req.paths : AnswersFor(answers[i], req.paths[i], mode, Tongues(lang, allowed))
        BY <2>3, PathsFacts
      <3> HIDE DEF answers
      <3> QED  BY <2>4, <3>1
    <2>6. a.text = Words(f, 0, Len(Audio[f]), l, mode) /\ l \in Tongues(lang, allowed)
      BY <2>5 DEF AnswersFor
    <2> HIDE DEF a
    <2>7. IsTextOf(a.text, f, mode) /\ InOneTongue(a.text, l)
      BY <2>4, <2>6, WordsAnswer
    <2>8. lang # Nothing => l = lang
      BY <2>6 DEF Tongues
    <2>9. lang = Nothing => reports /\ DOMAIN out = {} /\ req.lang = Nothing /\ l \in C
      <3>1. lang = Nothing => want /\ lid = Nothing /\ DOMAIN out = {} /\ req.lang = Nothing
        BY <1>3 DEF Going
      <3> QED  BY <2>6, <3>1 DEF Tongues, Allowed
    <2> HIDE DEF l, reports
    <2>10. lang' = l
      BY <2>2, <2>8, <2>9 DEF l
    <2>11. l # Nothing
      <3>1. Nothing \notin AllLangs /\ C \subseteq AllLangs
        BY RequestAssumption DEF Candidates
      <3> HIDE DEF C
      <3> QED  BY <2>8, <2>9, <3>1
    <2>12. /\ req.lang # Nothing => l = req.lang
           /\ req.lang = Nothing => l \in C
      BY <1>3, <2>8, <2>9 DEF Going, Allowed
    <2>13. /\ left \in Seq(ToSet(req.modes)) /\ left # <<>>
           /\ DOMAIN out \cup ToSet(left) = ToSet(req.modes)
      BY <1>3 DEF Going
    <2>14. /\ left' \in Seq(ToSet(req.modes)) /\ DOMAIN out' \cup ToSet(left') = ToSet(req.modes)
           /\ left' = <<>> => ToSet(left') = {}
      <3>1. Tail(left) \in Seq(ToSet(req.modes)) /\ ToSet(left) = {Head(left)} \cup ToSet(Tail(left))
        <4> DEFINE S == ToSet(req.modes)
        <4> HIDE DEF S
        <4>1. left \in Seq(S) /\ left # <<>>
          BY <2>13 DEF S
        <4>2. Tail(left) \in Seq(S) /\ ToSet(left) = {Head(left)} \cup ToSet(Tail(left))
          BY <4>1, HeadTailFacts
        <4> QED  BY <4>2 DEF S
      <3>2. DOMAIN out' = DOMAIN out \cup {mode}
        BY <2>2
      <3>3. ToSet(<<>>) = {}
        BY DEF ToSet
      <3> QED  BY <2>2, <2>13, <3>1, <3>2, <3>3
    <2>15. \A m \in DOMAIN out' : IsTextOf(out'[m], f, m) /\ InOneTongue(out'[m], l)
      <3>1. \A m \in DOMAIN out : IsTextOf(out[m], f, m) /\ InOneTongue(out[m], lang)
        BY <1>3 DEF Going
      <3>2. \A m \in DOMAIN out : lang = l
        BY <2>8, <2>9
      <3> HIDE DEF mode
      <3>3. DOMAIN out' = DOMAIN out \cup {mode}
            /\ \A m \in DOMAIN out' : out'[m] = IF m = mode THEN a.text ELSE out[m]
        BY <2>2
      <3>4. ASSUME NEW m \in DOMAIN out'
            PROVE  IsTextOf(out'[m], f, m) /\ InOneTongue(out'[m], l)
        <4>1. CASE m = mode
          <5>1. out'[m] = a.text
            BY <3>3, <4>1
          <5> QED  BY <2>7, <4>1, <5>1
        <4>2. CASE m # mode
          <5>1. out'[m] = out[m] /\ m \in DOMAIN out
            BY <3>3, <4>2
          <5> QED  BY <3>1, <3>2, <5>1
        <4> QED  BY <4>1, <4>2
      <3> QED  BY <3>4
    <2>16. CASE left' = <<>>
      <3>1. Finish(told)
        BY <2>2, <2>16
      <3>2. told.lang = l /\ told.modes = out'
        BY <2>10
      <3>3. DOMAIN out' = ToSet(req.modes)
        BY <2>14, <2>16
      <3> HIDE DEF told, C
      <3>4. ToldUpload(req, told)
        BY <1>3, <2>12, <2>15, <3>2, <3>3 DEF ToldUpload, C
      <3> QED  BY <1>1, <3>1, <3>4, ReplyStep
    <2>17. CASE left' # <<>>
      <3>1. job' = Call("transcribe", lang', Head(left')) /\ pc' = "calling" /\ reply' = Nothing
        BY <1>1, <1>2, <2>2, <2>17
      <3>3. Going'
        BY <1>1, <2>10, <2>11, <2>12, <2>14, <2>15, <2>17 DEF Going, Allowed
      <3>4. UploadCalls'
        BY <1>1, <1>3, <3>1, <3>3 DEF UploadCalls, Call
      <3>5. RowsAnswered'
        BY <3>1 DEF RowsAnswered, TextsWhole, OneTongue, Transcribed
      <3> QED  BY <1>1, <1>2, <3>1, <3>4, <3>5 DEF AnswerInv, Upload
    <2> QED  BY <2>16, <2>17
  <1> QED  BY <1>4, <1>5


(* The body of an upload has been read: its first call is made.              *)
LEMMA SpooledStep ==
  ASSUME AnswerInv, Spooled
  PROVE  AnswerInv'
  <1>1. pc = "reading" /\ req' = req /\ lang' = lang /\ lid' = lid /\ out' = out
    BY DEF Spooled
  <1>2. /\ Upload /\ ~BadAllowed(req.allowed) /\ (req.lidOnly \/ req.modes # <<>>)
        /\ lang = req.lang /\ lid = Nothing /\ out = NoMode /\ reply = Nothing
    BY <1>1 DEF AnswerInv
  <1>3. CASE written = 0
    <2>1. Finish(Error(422))
      BY <1>3 DEF Spooled
    <2> QED  BY <1>1, <2>1, RefusalStep
  <1>4. CASE written # 0
    <2>1. /\ reply' = reply /\ pc' = "calling"
          /\ left' = IF req.lidOnly THEN <<>> ELSE req.modes
          /\ want' = (~req.lidOnly /\ lang = Nothing)
          /\ job' = IF req.lidOnly THEN Call("identify", lang, "native")
                    ELSE IF lang = Nothing THEN Call("transcribe", lang, Head(req.modes))
                    ELSE Call("is_short", lang, "native")
      BY <1>4 DEF Spooled
    <2>2. UploadCalls'
      <3>1. CASE req.lidOnly
        BY <1>1, <2>1, <3>1 DEF UploadCalls, Call
      <3>2. CASE ~req.lidOnly
        <4>1. req.modes \in Seq(ToSet(req.modes)) /\ req.modes # <<>>
          BY <1>2, <3>2, RequestFacts
        <4>2. DOMAIN out' = {} /\ left' = req.modes
          BY <1>1, <1>2, <2>1, <3>2 DEF NoMode
        <4>3. left' \in Seq(ToSet(req'.modes)) /\ left' # <<>>
              /\ DOMAIN out' \cup ToSet(left') = ToSet(req'.modes)
          BY <1>1, <4>1, <4>2
        <4>4. Going'
          BY <1>1, <1>2, <2>1, <3>2, <4>2, <4>3 DEF Going
        <4>5. CASE lang = Nothing
          <5>1. job' = Call("transcribe", lang', Head(left'))
            BY <1>1, <2>1, <3>2, <4>2, <4>5
          <5> QED  BY <1>1, <3>2, <4>4, <5>1 DEF UploadCalls, Call
        <4>6. CASE lang # Nothing
          <5>1. job' = Call("is_short", lang', "native")
            BY <1>1, <2>1, <3>2, <4>6
          <5> QED  BY <1>1, <3>2, <4>4, <4>6, <5>1 DEF UploadCalls, Call
        <4> QED  BY <4>5, <4>6
      <3> QED  BY <3>1, <3>2
    <2>3. RowsAnswered'
      BY <1>2, <2>1 DEF RowsAnswered, TextsWhole, OneTongue, Transcribed
    <2> QED  BY <1>1, <1>2, <2>1, <2>2, <2>3 DEF AnswerInv, Upload
  <1> QED  BY <1>3, <1>4

(* Whether an uploaded file is short changes nothing of what is asked.       *)
LEMMA ShortStep ==
  ASSUME AnswerInv, ShortAnswered
  PROVE  AnswerInv'
  <1>1. /\ pc = "calling" /\ Upload /\ job.call = "is_short"
        /\ req' = req /\ pc' = pc /\ lang' = lang /\ lid' = lid /\ left' = left /\ out' = out
        /\ reply' = reply /\ job' = Call("transcribe", lang, Head(left))
    BY DEF ShortAnswered
  <1>2. ~BadAllowed(req.allowed) /\ UploadCalls /\ reply = Nothing
    BY <1>1 DEF AnswerInv
  <1>3. Going /\ ~req.lidOnly /\ lang # Nothing
    <2>1. Call("transcribe", lang, Head(left)).call = "transcribe"
          /\ Call("identify", lang, "native").call = "identify"
      BY DEF Call
    <2> QED  BY <1>1, <1>2, <2>1 DEF UploadCalls
  <1>4. Going'
    BY <1>1, <1>3 DEF Going, Allowed
  <1>5. UploadCalls'
    BY <1>1, <1>3, <1>4 DEF UploadCalls, Call
  <1>6. RowsAnswered'
    BY <1>1, <1>2 DEF RowsAnswered, TextsWhole, OneTongue, Transcribed
  <1> QED  BY <1>1, <1>2, <1>5, <1>6 DEF AnswerInv, Upload

(* A request that is let in is asked of the replica as it came.             *)
LEMMA ArriveStep ==
  ASSUME AnswerInv, Arrive
  PROVE  AnswerInv'
  <1>1. /\ pc = "arriving" /\ ~Upload /\ req' = req
        /\ written' = written /\ want' = want /\ lang' = lang /\ lid' = lid /\ left' = left /\ out' = out
    BY DEF Arrive, UploadState
  <1>2. CASE Finish(Error(422))
    BY <1>1, <1>2, RefusalStep
  <1>3. CASE ~Finish(Error(422))
    <2>1. /\ req.paths # <<>> /\ ~BadAllowed(req.allowed) /\ pc' = "calling"
          /\ job' = Call(req.kind, req.lang, req.modes[1]) /\ reply' = reply
      BY <1>3 DEF Arrive
    <2>2. reply = Nothing
      BY <1>1 DEF AnswerInv
    <2>3. RowsAnswered'
      BY <2>1, <2>2 DEF RowsAnswered, TextsWhole, OneTongue, Transcribed
    <2> QED  BY <1>1, <2>1, <2>2, <2>3 DEF AnswerInv, Upload, Call
  <1> QED  BY <1>2, <1>3

(* An upload that is let in has modes to be transcribed in, or wants none.  *)
LEMMA UploadArrivesStep ==
  ASSUME AnswerInv, UploadArrives
  PROVE  AnswerInv'
  <1>1. /\ pc = "arriving" /\ Upload /\ req' = req
        /\ written' = written /\ want' = want /\ lang' = lang /\ lid' = lid /\ left' = left /\ out' = out
    BY DEF UploadArrives, UploadState
  <1>2. CASE Finish(Error(422)) \/ Finish(Error(500))
    BY <1>1, <1>2, RefusalStep
  <1>3. CASE ~(Finish(Error(422)) \/ Finish(Error(500)))
    <2>1. /\ ~BadAllowed(req.allowed) /\ (req.lidOnly \/ req.modes # <<>>)
          /\ pc' = "reading" /\ reply' = reply
      BY <1>3 DEF UploadArrives
    <2>2. reply = Nothing /\ lang = req.lang /\ lid = Nothing /\ out = NoMode /\ req \in Requests
      BY <1>1 DEF AnswerInv
    <2>3. RowsAnswered'
      BY <2>1, <2>2 DEF RowsAnswered, TextsWhole, OneTongue, Transcribed
    <2> QED  BY <1>1, <2>1, <2>2, <2>3 DEF AnswerInv, Upload
  <1> QED  BY <1>2, <1>3

(* Reading the body changes nothing of what will be asked.                  *)
LEMMA ReadStep ==
  ASSUME AnswerInv, ReadChunk
  PROVE  AnswerInv'
  <1>1. pc = "reading" /\ req' = req /\ lang' = lang /\ lid' = lid /\ out' = out
    BY DEF ReadChunk
  <1>2. CASE Finish(Error(413)) \/ Finish(Error(500))
    BY <1>1, <1>2, RefusalStep
  <1>3. CASE ~(Finish(Error(413)) \/ Finish(Error(500)))
    <2>1. pc' = pc /\ reply' = reply
      BY <1>3 DEF ReadChunk
    <2>2. reply = Nothing
      BY <1>1 DEF AnswerInv
    <2>3. RowsAnswered'
      BY <2>1, <2>2 DEF RowsAnswered, TextsWhole, OneTongue, Transcribed
    <2> QED  BY <1>1, <2>1, <2>2, <2>3 DEF AnswerInv, Upload
  <1> QED  BY <1>2, <1>3

(* A request that is abandoned is never answered.                           *)
LEMMA LeavingStep ==
  ASSUME AnswerInv, Disconnect \/ OrphanEnds
  PROVE  AnswerInv'
  <1>1. req' = req /\ reply' = reply /\ pc \in {"reading", "calling", "gone"} /\ pc' = "gone"
    BY DEF Disconnect, OrphanEnds
  <1>2. reply = Nothing /\ req \in Requests
    BY <1>1 DEF AnswerInv
  <1>3. RowsAnswered'
    BY <1>1, <1>2 DEF RowsAnswered, TextsWhole, OneTongue, Transcribed
  <1> QED  BY <1>1, <1>2, <1>3 DEF AnswerInv

(* A reply to another call than for a transcript says nothing of one.        *)
LEMMA OtherStep ==
  ASSUME AnswerInv, DetectAnswered \/ StreamStart \/ EngineFails
  PROVE  AnswerInv'
  <1>1. CASE EngineFails
    <2>1. Finish(Error(500)) /\ req' = req
      BY <1>1 DEF EngineFails
    <2> QED  BY <2>1, RefusalStep
  <1>2. CASE DetectAnswered \/ StreamStart
    <2>1. req' = req /\ req.kind \in {"detect", "stream"} /\ \E answer : Finish(answer)
      BY <1>2 DEF DetectAnswered, StreamStart
    <2>2. PICK answer : Finish(answer)
      BY <2>1
    <2> QED  BY <2>1, <2>2, ReplyStep
  <1> QED  BY <1>1, <1>2

(* Every request keeps what it has of its answer whole and in one language.  *)
THEOREM HandlerAnswersInductive == HandlerSpec => []AnswerInv
  <1>1. RequestInit => AnswerInv
    BY DEF RequestInit, Arriving, AnswerInv, RowsAnswered, TextsWhole, OneTongue, Transcribed
  <1>2. AnswerInv /\ [RequestNext]_requestVars => AnswerInv'
    <2> SUFFICES ASSUME AnswerInv, [RequestNext]_requestVars
                 PROVE  AnswerInv'
      OBVIOUS
    <2>1. CASE Arrive
      BY <2>1, ArriveStep
    <2>2. CASE TranscribeAnswered
      BY <2>2, TranscribeStep
    <2>3. CASE DetectAnswered \/ StreamStart \/ EngineFails
      BY <2>3, OtherStep
    <2>4. CASE UploadArrives
      BY <2>4, UploadArrivesStep
    <2>5. CASE ReadChunk
      BY <2>5, ReadStep
    <2>6. CASE Spooled
      BY <2>6, SpooledStep
    <2>7. CASE ShortAnswered
      BY <2>7, ShortStep
    <2>8. CASE IdentifyAnswered
      BY <2>8, IdentifyStep
    <2>9. CASE ModeAnswered
      BY <2>9, ModeStep
    <2>10. CASE Disconnect \/ OrphanEnds
      BY <2>10, LeavingStep
    <2>11. CASE UNCHANGED requestVars
      <3>1. /\ req' = req /\ pc' = pc /\ job' = job /\ want' = want /\ lang' = lang /\ lid' = lid
            /\ left' = left /\ out' = out /\ reply' = reply
        BY <2>11 DEF requestVars
      <3>2. UploadCalls' <=> UploadCalls
        BY <3>1 DEF UploadCalls, Going, Call, Allowed
      <3>3. RowsAnswered' <=> RowsAnswered
        BY <3>1 DEF RowsAnswered, TextsWhole, OneTongue, Transcribed, Upload, Allowed
      <3> QED  BY <3>1, <3>2, <3>3 DEF AnswerInv, Upload, Call
    <2> QED
      BY <2>1, <2>2, <2>3, <2>4, <2>5, <2>6, <2>7, <2>8, <2>9, <2>10, <2>11 DEF RequestNext
  <1> QED  BY <1>1, <1>2, PTL DEF HandlerSpec

(* What a caller is told of a recording is all of it, once, in order, in one *)
(* language and that of the right file, whichever way it came and whatever   *)
(* the requests, the recordings and the sizes of batches and chunks are.     *)
THEOREM HandlerAnswers == HandlerSpec => []RowsAnswered
  <1>1. AnswerInv => RowsAnswered
    BY DEF AnswerInv
  <1> QED  BY <1>1, HandlerAnswersInductive, PTL

-----------------------------------------------------------------------------
(* The page of the ASR server.                                             *)

(* What is on the page, with what a run in flight holds it to: the file    *)
(* cannot be changed, and no transcript stands that is not the run's.      *)
PageInv == OnePage /\ (waiting # Unset => busy /\ shown = Unset)

(* The page belongs together from its start, under every step.             *)
THEOREM PageInductive == DemoSpec => []PageInv
  <1>1. DemoInit => PageInv
    BY DEF DemoInit, PageInv, OnePage
  <1>2. PageInv /\ [DemoNext]_demoVars => PageInv'
    <2> SUFFICES ASSUME PageInv, [DemoNext]_demoVars
                 PROVE  PageInv'
      OBVIOUS
    <2> USE DEF PageInv, OnePage
    <2>1. ASSUME NEW f \in PageFiles, SetFile(f) PROVE PageInv'
      BY <2>1 DEF SetFile, TakesFile
    <2>2. ASSUME NEW l \in Options, Select(l) PROVE PageInv'
      BY <2>2 DEF Select
    <2>3. ASSUME NEW m \in Boxes, Tick(m) PROVE PageInv'
      BY <2>3 DEF Tick
    <2>4. ASSUME NEW lidOnly \in BOOLEAN, NEW l, Ready, Run(lidOnly, l), chosen' = chosen
          PROVE  PageInv'
      <3>1. waiting = Unset
        BY <2>4 DEF Ready
      <3>2. CASE ~lidOnly /\ ticked = {}
        BY <2>4, <3>1, <3>2 DEF Run
      <3>3. CASE ~(~lidOnly /\ ticked = {})
        <4>1. /\ busy' = TRUE /\ shown' = Unset
              /\ detected' = IF lidOnly THEN Unset ELSE detected
          BY <2>4, <3>3 DEF Run
        <4>2. waiting' = [number |-> requests', file |-> chosen, lidOnly |-> lidOnly, sel |-> l,
                          modes |-> ticked]
          BY <2>4, <3>3 DEF Run
        <4>3. waiting'.file = chosen'
          BY <2>4, <4>2
        <4>4. detected' # Unset => detected'.of = chosen'
          BY <2>4, <4>1
        <4> QED  BY <4>1, <4>3, <4>4
      <3> QED  BY <3>2, <3>3
    <2>5. ASSUME NEW lidOnly \in BOOLEAN, Click(lidOnly) PROVE PageInv'
      BY <2>4, <2>5 DEF Click
    <2>6. ASSUME NEW l \in Spoken, ClickChip(l) PROVE PageInv'
      <3>1. Ready /\ Run(FALSE, l) /\ chosen' = chosen
        BY <2>6 DEF ClickChip
      <3> QED  BY <2>4, <3>1
    <2>7. CASE AnswerOk
      <3>1. PICK report, others : detected' = Panel(waiting, report, others)
        BY <2>7 DEF AnswerOk
      <3>2. /\ waiting # Unset /\ waiting.file = chosen
            /\ shown' = Texts(waiting) /\ waiting' = Unset /\ chosen' = chosen
        BY <2>7 DEF AnswerOk
      <3>3. detected' # Unset => detected'.of = waiting.file /\ detected'.number = waiting.number
        BY <3>1 DEF Panel
      <3>4. shown' # Unset => shown'.of = waiting.file /\ shown'.number = waiting.number
        BY <3>2 DEF Texts
      <3> QED  BY <3>2, <3>3, <3>4
    <2>8. CASE AnswerFails
      BY <2>8 DEF AnswerFails
    <2>9. CASE UNCHANGED demoVars
      BY <2>9 DEF demoVars
    <2> QED  BY <2>1, <2>2, <2>3, <2>5, <2>6, <2>7, <2>8, <2>9 DEF DemoNext
  <1> QED  BY <1>1, <1>2, PTL DEF DemoSpec

(* Transcripts, detection and file on the page are always of one another,  *)
(* whatever the user does while a run waits and however it ends.           *)
THEOREM PageOne == DemoSpec => []OnePage
  <1>1. PageInv => OnePage
    BY DEF PageInv
  <1> QED  BY <1>1, PageInductive, PTL

-----------------------------------------------------------------------------
(* The commands that translate.                                            *)

(* The run `requests` does this in its part "text".                        *)
TranslateSpec == TranslateInit /\ FanInit /\ [][TranslateNext]_<<mtVars, fanVars>>

IsList(s) == s \in Seq(ToSet(s))

(* The answers held are those of the requests that were answered, and the  *)
(* requests ask for the segments.                                          *)
AskedInv ==
    /\ IsList(segments)
    /\ asked = [i \in DOMAIN segments |-> BuildConversation(segments[i], target)]
    /\ DOMAIN flight = DOMAIN segments /\ DOMAIN texts = DOMAIN segments
    /\ flight = [i \in DOMAIN flight |-> flight[i]] /\ texts = [i \in DOMAIN texts |-> texts[i]]
    /\ \A i \in DOMAIN segments : texts[i] = IF flight[i] = "ok" THEN i ELSE 0

(* An engine of one's own has answered the first of the list.              *)
UpTo(d) == \A i \in DOMAIN segments :
    IF i <= d THEN flight[i] \in {"ok", "failed"} ELSE flight[i] = "waiting"
EngineInv == mtPc = "translate" /\ ~OnServer => \E d \in 0 .. Len(segments) : UpTo(d)

(* A direction of the benchmark, and the one that is being translated.     *)
Directions == {Direction(from, to) : from \in In22Columns, to \in In22Columns}
TaskInv ==
    /\ tasks \in Seq(Directions)
    /\ IF ask.kind = "in22"
       THEN mtPc = "translate" => /\ tasks # <<>>
                                  /\ segments = tasks[1].sources /\ target = tasks[1].to
       ELSE segments # <<>> => target = ask.to

(* What was scored is of one direction, row by row.                        *)
Scored(pair, from, to) ==
    /\ pair = <<LanguageNames[from], LanguageNames[to]>>
    /\ references[pair] = Column(to)
    /\ \A i \in 1 .. In22Rows :
          predictions[pair][i] \in {<<>>, <<[text |-> <<i, from>>, to |-> LanguageNames[to]]>>}
ScoreInv ==
    /\ DOMAIN references = DOMAIN predictions
    /\ \A pair \in DOMAIN predictions : \E from, to \in In22Columns : Scored(pair, from, to)

(* What was written are the results, and the exit code is of them.         *)
OutputInv ==
    /\ mtPc = "start" => segments = <<>>
    /\ mtPc \in {"exit0", "exit1"} /\ segments # <<>> /\ ask.kind # "in22" =>
          output = WriteResults /\ mtPc = Exit

TranslateInv ==
    /\ ask \in MtCommands /\ AskedInv /\ EngineInv /\ TaskInv /\ ScoreInv /\ OutputInv

(* A function from 1 on is a list.                                         *)
LEMMA ListFacts ==
  ASSUME NEW n \in Nat, NEW f, DOMAIN f = 1 .. n, f = [i \in 1 .. n |-> f[i]]
  PROVE  IsList(f) /\ Len(f) = n
  <1>1. \A i \in 1 .. n : f[i] \in ToSet(f)
    BY DEF ToSet
  <1>2. f \in [1 .. n -> ToSet(f)]
    BY <1>1
  <1> QED  BY <1>2, FunctionSeq DEF IsList

(* A list that is asked for anew.                                          *)
LEMMA AskFacts ==
  ASSUME NEW list, IsList(list), NEW to, AskFor(list, to)
  PROVE  /\ AskedInv' /\ segments' = list /\ target' = to
         /\ (\E d \in 0 .. Len(segments) : UpTo(d))'
  <1> DEFINE wanted == [i \in DOMAIN list |-> BuildConversation(list[i], to)]
  <1>1. /\ segments' = list /\ target' = to /\ asked' = wanted
        /\ flight' = [i \in DOMAIN wanted |-> "waiting"]
        /\ texts' = [i \in DOMAIN wanted |-> 0]
    BY DEF AskFor, Ask
  <1>2. DOMAIN wanted = DOMAIN list
    OBVIOUS
  <1>3. asked' = [i \in DOMAIN segments' |-> BuildConversation(segments'[i], target')]
    BY <1>1
  <1> HIDE DEF wanted
  <1>4. /\ DOMAIN flight' = DOMAIN segments' /\ DOMAIN texts' = DOMAIN segments'
        /\ flight' = [i \in DOMAIN flight' |-> flight'[i]]
        /\ texts' = [i \in DOMAIN texts' |-> texts'[i]]
        /\ \A i \in DOMAIN segments' : flight'[i] = "waiting" /\ texts'[i] = 0
    BY <1>1, <1>2
  <1>5. AskedInv'
    BY <1>1, <1>3, <1>4 DEF AskedInv, IsList, BuildConversation, ResolveLanguage
  <1>6. UpTo(0)' /\ 0 \in 0 .. Len(segments')
    <2>1. DOMAIN segments' = 1 .. Len(segments') /\ Len(segments') \in Nat
      BY <1>1 DEF IsList
    <2>2. \A i \in DOMAIN segments' : ~(i <= 0)
      BY <2>1
    <2>3. UpTo(0)'
      BY <1>4, <2>2 DEF UpTo
    <2> QED  BY <2>1, <2>3
  <1> QED  BY <1>1, <1>5, <1>6

(* What is read is a list.                                                 *)
LEMMA ReadFacts ==
  ASSUME ask \in MtCommands
  PROVE  IsList(ReadInputs) /\ IsList(ReadPrompt)
  <1> DEFINE lines == ask.lines
             n == Len(lines)
  <1>1. lines \in Seq(ToSet(lines)) /\ n \in Nat /\ DOMAIN lines = 1 .. n
    <2>1. lines \in Seq(ToSet(lines))
      BY TranslateAssumption
    <2> HIDE DEF lines
    <2> QED  BY <2>1
  <1>2. IsList(ReadInputs)
    <2> DEFINE said == Written(lines)
               kept == PickAt(lines, said)
               whole == <<IF said = {} THEN <<>> ELSE SubSeq(lines, Min(said), Max(said))>>
               each == [i \in DOMAIN kept |-> <<kept[i]>>]
    <2>1. ReadInputs = IF ask.document THEN whole ELSE each
      BY DEF ReadInputs
    <2>2. said \in SUBSET (1 .. n)
      BY <1>1 DEF Written
    <2> HIDE DEF lines, said
    <2>3. kept \in Seq(ToSet(lines))
      BY <1>1, <2>2, PickAtFacts
    <2>4. Len(kept) \in Nat /\ DOMAIN kept = 1 .. Len(kept)
      BY <2>3
    <2> HIDE DEF kept
    <2>5. DOMAIN each = 1 .. Len(kept) /\ each = [i \in 1 .. Len(kept) |-> each[i]]
      BY <2>4
    <2>6. IsList(each)
      <3> HIDE DEF each
      <3> QED  BY <2>4, <2>5, ListFacts
    <2>7. DOMAIN whole = 1 .. 1 /\ whole = [i \in 1 .. 1 |-> whole[i]] /\ 1 \in Nat
      OBVIOUS
    <2>8. IsList(whole)
      <3> HIDE DEF whole
      <3> QED  BY <2>7, ListFacts
    <2> QED  BY <2>1, <2>6, <2>8
  <1>3. IsList(ReadPrompt)
    <2> DEFINE blank == {i \in DOMAIN lines : Blank(lines[i])}
               upTo == IF blank = {} THEN n ELSE Min(blank) - 1
               each == [i \in 1 .. upTo |-> <<lines[i]>>]
    <2>1. ReadPrompt = each
      BY DEF ReadPrompt
    <2>2. upTo \in Nat
      <3>1. blank \subseteq 1 .. n
        BY <1>1
      <3> HIDE DEF blank, n
      <3>2. CASE blank = {}
        BY <1>1, <3>2
      <3>3. CASE blank # {}
        <4>1. blank \subseteq 0 .. n
          BY <3>1
        <4>2. Min(blank) \in blank
          BY <1>1, <3>3, <4>1, ExtremeFacts
        <4>3. Min(blank) \in 1 .. n
          BY <3>1, <4>2
        <4> QED  BY <1>1, <3>3, <4>3
      <3> QED  BY <3>2, <3>3
    <2>3. DOMAIN each = 1 .. upTo /\ each = [i \in 1 .. upTo |-> each[i]]
      OBVIOUS
    <2> HIDE DEF each, upTo
    <2> QED  BY <2>1, <2>2, <2>3, ListFacts
  <1> QED  BY <1>2, <1>3

(* The directions of the benchmark.                                        *)
LEMMA TaskFacts ==
  ASSUME ask \in MtCommands
  PROVE  BuildTasks \in Seq(Directions)
  <1> DEFINE all == ask.langs
             K == {i \in DOMAIN all : all[i] \in In22Columns \ {Pivot}}
             langs == PickAt(all, K)
             forth(l) == IF "en-xx" \in ask.directions THEN <<Direction(Pivot, l)>> ELSE <<>>
             back(l) == IF "xx-en" \in ask.directions THEN <<Direction(l, Pivot)>> ELSE <<>>
             of(l) == forth(l) \o back(l)
             seqs == [i \in DOMAIN langs |-> of(langs[i])]
  <1>1. all \in Seq(ToSet(all)) /\ DOMAIN all = 1 .. Len(all)
    <2>1. all \in Seq(ToSet(all))
      BY TranslateAssumption
    <2> HIDE DEF all
    <2> QED  BY <2>1
  <1>2. BuildTasks = FlattenSeq(seqs)
    BY DEF BuildTasks
  <1> HIDE DEF all
  <1>3. K \in SUBSET (1 .. Len(all))
    BY <1>1
  <1>4. \A i \in K : all[i] \in In22Columns
    OBVIOUS
  <1> HIDE DEF K
  <1>5. langs \in Seq(ToSet(all)) /\ ToSet(langs) = {all[k] : k \in K}
    BY <1>1, <1>3, PickAtFacts, PickedSet
  <1>6. Len(langs) \in Nat /\ DOMAIN langs = 1 .. Len(langs)
    BY <1>5
  <1>7. \A i \in 1 .. Len(langs) : langs[i] \in In22Columns
    BY <1>4, <1>5, <1>6 DEF ToSet
  <1> HIDE DEF langs
  <1>8. \A l \in In22Columns : of(l) \in Seq(Directions)
    <2> TAKE l \in In22Columns
    <2>1. Pivot \in In22Columns
      BY TranslateAssumption
    <2>2. Direction(Pivot, l) \in Directions /\ Direction(l, Pivot) \in Directions
      BY <2>1 DEF Directions
    <2>3. forth(l) \in Seq(Directions) /\ back(l) \in Seq(Directions)
      BY <2>2
    <2> HIDE DEF forth, back
    <2> QED  BY <2>3, ConcatAt
  <1> HIDE DEF of
  <1>9. seqs \in Seq(Seq(Directions))
    <2>1. seqs \in [1 .. Len(langs) -> Seq(Directions)]
      BY <1>6, <1>7, <1>8
    <2> QED  BY <1>6, <2>1, FunctionSeq
  <1> HIDE DEF seqs
  <1> QED  BY <1>2, <1>9, FlattenFacts

(* A request goes out.                                                     *)
LEMMA TakeKeeps ==
  ASSUME AskedInv, Take, UNCHANGED mtVars
  PROVE  AskedInv'
  <1>1. PICK i \in DOMAIN flight : flight[i] = "waiting" /\ flight' = [flight EXCEPT ![i] = "sent"]
    BY DEF Take
  <1>2. asked' = asked /\ texts' = texts /\ segments' = segments /\ target' = target
    BY DEF Take, mtVars
  <1>3. /\ DOMAIN flight' = DOMAIN flight
        /\ flight' = [j \in DOMAIN flight' |-> flight'[j]]
        /\ \A j \in DOMAIN flight : flight'[j] = "ok" <=> flight[j] = "ok"
    BY <1>1 DEF AskedInv
  <1> QED  BY <1>2, <1>3 DEF AskedInv, IsList, BuildConversation, ResolveLanguage

(* An answer lands at the place of its request.                            *)
LEMMA ReplyKeeps ==
  ASSUME AskedInv, NEW i \in DOMAIN flight, NEW outcomes, Reply(i, outcomes), UNCHANGED mtVars
  PROVE  AskedInv'
  <1>1. PICK outcome \in outcomes :
          /\ flight' = [flight EXCEPT ![i] = outcome]
          /\ texts' = IF outcome = "ok" THEN [texts EXCEPT ![i] = i] ELSE texts
    BY DEF Reply, Place
  <1>2. asked' = asked /\ segments' = segments /\ target' = target /\ flight[i] = "sent"
    BY DEF Reply, mtVars
  <1>3. /\ DOMAIN flight = DOMAIN segments /\ DOMAIN texts = DOMAIN segments
        /\ flight = [j \in DOMAIN flight |-> flight[j]] /\ texts = [j \in DOMAIN texts |-> texts[j]]
        /\ \A j \in DOMAIN segments : texts[j] = IF flight[j] = "ok" THEN j ELSE 0
    BY DEF AskedInv
  <1>4. /\ DOMAIN flight' = DOMAIN segments
        /\ flight' = [j \in DOMAIN flight' |-> flight'[j]]
        /\ flight'[i] = outcome /\ \A j \in DOMAIN segments : j # i => flight'[j] = flight[j]
    BY <1>1, <1>3
  <1>5. /\ DOMAIN texts' = DOMAIN segments /\ texts' = [j \in DOMAIN texts' |-> texts'[j]]
        /\ texts'[i] = (IF outcome = "ok" THEN i ELSE 0)
        /\ \A j \in DOMAIN segments : j # i => texts'[j] = texts[j]
    BY <1>1, <1>2, <1>3
  <1>6. \A j \in DOMAIN segments : texts'[j] = IF flight'[j] = "ok" THEN j ELSE 0
    BY <1>3, <1>4, <1>5
  <1> QED  BY <1>2, <1>4, <1>5, <1>6 DEF AskedInv, IsList, BuildConversation, ResolveLanguage

(* As many are answered as the engine has gone through.                    *)
LEMMA CountedUpTo ==
  ASSUME AskedInv, NEW d \in 0 .. Len(segments), UpTo(d)
  PROVE  Count("ok") + Count("failed") = d
  <1> DEFINE A == {i \in DOMAIN flight : flight[i] = "ok"}
             B == {i \in DOMAIN flight : flight[i] = "failed"}
  <1>1. DOMAIN flight = 1 .. Len(segments) /\ Len(segments) \in Nat /\ d \in Nat
    BY DEF AskedInv, IsList
  <1>2. A \cup B = 1 .. d /\ A \cap B = {}
    BY <1>1 DEF UpTo, AskedInv
  <1>3. IsFiniteSet(1 .. d) /\ Cardinality(1 .. d) = d
    BY <1>1, PlacesOfList
  <1>4. IsFiniteSet(A) /\ IsFiniteSet(B)
    BY <1>2, <1>3, FS_Subset
  <1> HIDE DEF A, B
  <1>5. /\ Cardinality(A \cup B) = Cardinality(A) + Cardinality(B) - Cardinality(A \cap B)
        /\ Cardinality(A \cap B) = 0 /\ Cardinality(A) \in Nat /\ Cardinality(B) \in Nat
    BY <1>2, <1>4, FS_Union, FS_EmptySet, FS_CardinalityType
  <1>6. Cardinality(A \cup B) = d
    BY <1>2, <1>3
  <1>7. Cardinality(A) + Cardinality(B) = d
    BY <1>1, <1>5, <1>6
  <1> QED  BY <1>7 DEF Count, A, B

(* The engine answers the next of the list.                                *)
LEMMA GenerateKeeps ==
  ASSUME AskedInv, NEW d \in 0 .. Len(segments), UpTo(d), NEW size \in Nat,
         Generate(size, {"ok", "failed"}), UNCHANGED mtVars
  PROVE  AskedInv' /\ \E e \in 0 .. Len(segments') : UpTo(e)'
  <1> DEFINE n == Len(segments)
             now == {i \in 1 .. n : d < i /\ i <= d + size}
             e == IF d + size <= n THEN d + size ELSE n
  <1>1. /\ DOMAIN segments = 1 .. n /\ n \in Nat /\ d \in Nat /\ d <= n
        /\ DOMAIN asked = 1 .. n /\ DOMAIN flight = 1 .. n /\ DOMAIN texts = 1 .. n
        /\ \A i \in 1 .. n : texts[i] = IF flight[i] = "ok" THEN i ELSE 0
    <2>1. DOMAIN segments = 1 .. n /\ n \in Nat
      BY DEF AskedInv, IsList
    <2> QED  BY <2>1 DEF AskedInv
  <1>2. Count("ok") + Count("failed") = d
    BY CountedUpTo
  <1>3. PICK outcome \in {"ok", "failed"} :
          /\ flight' = [i \in 1 .. n |-> IF i \in now THEN outcome ELSE flight[i]]
          /\ texts' = [i \in 1 .. n |-> IF i \in now /\ outcome = "ok" THEN i ELSE texts[i]]
    BY <1>1, <1>2 DEF Generate
  <1>4. asked' = asked /\ segments' = segments /\ target' = target
    BY DEF Generate, mtVars
  <1>5. \A i \in now : flight[i] = "waiting" /\ texts[i] = 0
    <2> TAKE i \in now
    <2>1. i \in 1 .. n /\ ~(i <= d)
      BY <1>1
    <2> QED  BY <1>1, <2>1 DEF UpTo
  <1>6. \A i \in 1 .. n : texts'[i] = IF flight'[i] = "ok" THEN i ELSE 0
    BY <1>1, <1>3, <1>5
  <1>7. AskedInv'
    <2>1. /\ DOMAIN flight' = 1 .. n /\ DOMAIN texts' = 1 .. n
          /\ flight' = [i \in DOMAIN flight' |-> flight'[i]] /\ texts' = [i \in DOMAIN texts' |-> texts'[i]]
      BY <1>3
    <2> HIDE DEF now
    <2> QED  BY <1>1, <1>4, <1>6, <2>1 DEF AskedInv, IsList, BuildConversation, ResolveLanguage
  <1>8. e \in 0 .. n /\ d <= e /\ \A i \in 1 .. n : i \in now <=> d < i /\ i <= e
    BY <1>1
  <1> HIDE DEF now, e
  <1>9. PICK k \in 0 .. n : k = e
    BY <1>8
  <1>10. \A i \in 1 .. n : IF i <= k THEN flight'[i] \in {"ok", "failed"} ELSE flight'[i] = "waiting"
    <2> TAKE i \in 1 .. n
    <2>1. i \in now <=> d < i /\ i <= k
      BY <1>8, <1>9
    <2>2. IF i <= d THEN flight[i] \in {"ok", "failed"} ELSE flight[i] = "waiting"
      BY <1>1 DEF UpTo
    <2>3. flight'[i] = IF i \in now THEN outcome ELSE flight[i]
      BY <1>3
    <2>4. d <= k /\ k \in Int /\ d \in Int /\ i \in Int
      BY <1>1, <1>8, <1>9
    <2>5. CASE i <= k /\ i \in now
      BY <2>3, <2>5
    <2>6. CASE i <= k /\ i \notin now
      BY <2>1, <2>2, <2>3, <2>4, <2>6
    <2>7. CASE ~(i <= k)
      BY <2>1, <2>2, <2>3, <2>4, <2>7
    <2> QED  BY <2>5, <2>6, <2>7
  <1>11. \A i \in DOMAIN segments' : IF i <= k THEN flight'[i] \in {"ok", "failed"} ELSE flight'[i] = "waiting"
    BY <1>1, <1>4, <1>10
  <1>12. UpTo(k)'
    BY <1>11 DEF UpTo
  <1>13. k \in 0 .. Len(segments')
    BY <1>4
  <1> QED  BY <1>7, <1>12, <1>13

(* What is held of a segment is its translation, or nothing.               *)
LEMMA ResultFacts ==
  ASSUME AskedInv, NEW i \in DOMAIN segments
  PROVE  /\ Result(i).source = segments[i] /\ Result(i).to = ResolveLanguage(target)
         /\ Result(i).ok <=> flight[i] = "ok"
         /\ Result(i).text = IF flight[i] = "ok"
                             THEN <<[text |-> segments[i], to |-> ResolveLanguage(target)]>>
                             ELSE <<>>
  <1>1. DOMAIN segments = 1 .. Len(segments) /\ Len(segments) \in Nat
    BY DEF AskedInv, IsList
  <1>2. i \in Nat /\ i # 0
    BY <1>1
  <1>3. texts[i] = (IF flight[i] = "ok" THEN i ELSE 0)
        /\ asked[i] = [text |-> segments[i], to |-> ResolveLanguage(target)]
    BY DEF AskedInv, BuildConversation
  <1>4. CASE flight[i] = "ok"
    <2>1. texts[i] = i /\ texts[i] # 0
      BY <1>2, <1>3, <1>4
    <2> QED  BY <1>3, <1>4, <2>1 DEF Result
  <1>5. CASE flight[i] # "ok"
    BY <1>3, <1>5 DEF Result
  <1> QED  BY <1>4, <1>5

(* What is left alone stays as it was.                                     *)
LEMMA TextStays ==
  ASSUME TranslateInv, ask' = ask, segments' = segments, target' = target, fanVars' = fanVars
  PROVE  /\ AskedInv' /\ ask' \in MtCommands
         /\ (mtPc' = "translate" => mtPc = "translate") => EngineInv'
         /\ scored' = scored => ScoreInv'
  <1>1. asked' = asked /\ flight' = flight /\ texts' = texts
    BY DEF fanVars
  <1>2. AskedInv'
    BY <1>1 DEF TranslateInv, AskedInv, IsList, BuildConversation, ResolveLanguage
  <1>3. (mtPc' = "translate" => mtPc = "translate") => EngineInv'
    BY <1>1 DEF TranslateInv, EngineInv, OnServer, UpTo
  <1>4. scored' = scored => ScoreInv'
    BY DEF TranslateInv, ScoreInv, Scored, scored, Column
  <1> QED  BY <1>2, <1>3, <1>4 DEF TranslateInv

(* A command begins.                                                       *)
LEMMA BeginKeepsText ==
  ASSUME TranslateInv, BeginTranslate
  PROVE  TranslateInv'
  <1>1. /\ mtPc = "start" /\ ask' = ask /\ output' = output /\ scored' = scored
        /\ segments = <<>> /\ TaskInv /\ ask \in MtCommands /\ ScoreInv
    BY DEF BeginTranslate, TranslateInv, OutputInv
  <1>2. CASE /\ mtPc' \in {"exit1", "raised"}
             /\ segments' = segments /\ target' = target /\ tasks' = tasks /\ fanVars' = fanVars
    <2>1. TaskInv'
      BY <1>1, <1>2 DEF TaskInv
    <2>2. OutputInv'
      BY <1>1, <1>2 DEF OutputInv
    <2>3. AskedInv' /\ ask' \in MtCommands /\ EngineInv' /\ ScoreInv'
      BY <1>1, <1>2, TextStays
    <2> QED  BY <2>1, <2>2, <2>3 DEF TranslateInv
  <1>3. CASE /\ ask.kind # "in22" /\ mtPc' = "translate" /\ tasks' = tasks
             /\ AskFor(IF ask.kind = "talk" THEN ReadPrompt ELSE ReadInputs, ask.to)
    <2> DEFINE list == IF ask.kind = "talk" THEN ReadPrompt ELSE ReadInputs
               to == ask.to
    <2>1. IsList(list)
      BY <1>1, ReadFacts
    <2>2. AskFor(list, to)
      BY <1>3
    <2>3. to = ask.to
      OBVIOUS
    <2> HIDE DEF list, to
    <2>4. AskedInv' /\ segments' = list /\ target' = to /\ (\E d \in 0 .. Len(segments) : UpTo(d))'
      BY <2>1, <2>2, AskFacts
    <2>5. EngineInv'
      BY <2>4 DEF EngineInv
    <2>6. TaskInv'
      BY <1>1, <1>3, <2>3, <2>4 DEF TaskInv
    <2>7. OutputInv'
      BY <1>3 DEF OutputInv
    <2>8. ScoreInv'
      BY <1>1 DEF ScoreInv, Scored, scored, Column
    <2> QED  BY <1>1, <2>4, <2>5, <2>6, <2>7, <2>8 DEF TranslateInv
  <1> QED  BY <1>2, <1>3 DEF BeginTranslate

(* The next direction of the benchmark.                                    *)
LEMMA StartsDirection ==
  ASSUME NEW todo \in Seq(Directions), todo # <<>>, Start22(todo), ask' = ask, ask.kind = "in22",
         ask \in MtCommands, ScoreInv'
  PROVE  TranslateInv'
  <1> DEFINE list == todo[1].sources
             to == todo[1].to
  <1>1. 1 \in DOMAIN todo /\ todo[1] \in Directions
    BY DEF Directions
  <1>2. PICK from \in In22Columns : list = Column(from)
    BY <1>1 DEF Directions, Direction
  <1>3. IsList(list)
    <2>1. /\ In22Rows \in Nat /\ DOMAIN Column(from) = 1 .. In22Rows
          /\ Column(from) = [row \in 1 .. In22Rows |-> Column(from)[row]]
      BY TranslateAssumption DEF Column
    <2>2. IsList(Column(from))
      BY <2>1, ListFacts
    <2> QED  BY <1>2, <2>2
  <1>4. tasks' = todo /\ mtPc' = "translate" /\ AskFor(list, to)
    BY DEF Start22
  <1>5. list = tasks'[1].sources /\ to = tasks'[1].to
    BY <1>4
  <1> HIDE DEF list, to
  <1>6. AskedInv' /\ segments' = list /\ target' = to
    BY <1>3, <1>4, AskFacts
  <1>7. EngineInv'
    BY DEF EngineInv, OnServer
  <1>8. TaskInv'
    BY <1>4, <1>5, <1>6 DEF TaskInv
  <1>9. OutputInv'
    BY <1>4 DEF OutputInv
  <1> QED  BY <1>6, <1>7, <1>8, <1>9 DEF TranslateInv

(* The benchmark begins.                                                   *)
LEMMA BenchBegins ==
  ASSUME TranslateInv, BeginIn22
  PROVE  TranslateInv'
  <1>1. /\ ask.kind = "in22" /\ ask' = ask /\ output' = output /\ scored' = scored
        /\ TaskInv /\ ask \in MtCommands /\ ScoreInv
    BY DEF BeginIn22, TranslateInv
  <1>2. CASE BuildTasks # <<>>
    <2>1. Start22(BuildTasks) /\ BuildTasks \in Seq(Directions)
      BY <1>1, <1>2, TaskFacts DEF BeginIn22
    <2>2. ScoreInv'
      BY <1>1 DEF ScoreInv, Scored, scored, Column
    <2> QED  BY <1>1, <1>2, <2>1, <2>2, StartsDirection
  <1>3. CASE BuildTasks = <<>>
    <2>1. /\ mtPc' = "exit1" /\ segments' = segments /\ target' = target /\ tasks' = tasks
          /\ fanVars' = fanVars
      BY <1>3 DEF BeginIn22
    <2>2. AskedInv' /\ ask' \in MtCommands /\ EngineInv' /\ ScoreInv'
      BY <1>1, <2>1, TextStays
    <2>3. TaskInv' /\ OutputInv'
      BY <1>1, <2>1 DEF TaskInv, OutputInv
    <2> QED  BY <2>2, <2>3 DEF TranslateInv
  <1> QED  BY <1>2, <1>3

(* A direction is scored under its own name.                               *)
LEMMA TaskScored ==
  ASSUME TranslateInv, TaskDone, ~(Count("broken") > 0)
  PROVE  ScoreInv'
  <1> DEFINE task == tasks[1]
             pair == <<ResolveLanguage(task.from), ResolveLanguage(task.to)>>
             preds == [i \in DOMAIN segments |-> Result(i).text]
  <1>1. /\ mtPc = "translate" /\ ask.kind = "in22" /\ tasks \in Seq(Directions) /\ tasks # <<>>
        /\ segments = task.sources /\ target = task.to /\ AskedInv /\ ScoreInv
    BY DEF TranslateInv, TaskInv, TaskDone
  <1>2. predictions' = Store(predictions, pair, preds) /\ references' = Store(references, pair, task.refs)
    BY DEF TaskDone
  <1>3. PICK from \in In22Columns, to \in In22Columns : task = Direction(from, to)
    BY <1>1 DEF Directions
  <1>4. /\ task.from = from /\ task.to = to /\ task.refs = Column(to) /\ segments = Column(from)
        /\ target = to
    BY <1>1, <1>3 DEF Direction
  <1>5. ResolveLanguage(from) = LanguageNames[from] /\ ResolveLanguage(to) = LanguageNames[to]
    BY TranslateAssumption DEF ResolveLanguage
  <1>6. pair = <<LanguageNames[from], LanguageNames[to]>>
    BY <1>4, <1>5
  <1>7. DOMAIN segments = 1 .. In22Rows /\ \A i \in 1 .. In22Rows : segments[i] = <<i, from>>
    BY <1>4 DEF Column
  <1>8. \A i \in 1 .. In22Rows :
          preds[i] \in {<<>>, <<[text |-> <<i, from>>, to |-> LanguageNames[to]]>>}
    <2> TAKE i \in 1 .. In22Rows
    <2>1. preds[i] = Result(i).text
      BY <1>7
    <2>2. Result(i).text = IF flight[i] = "ok"
                           THEN <<[text |-> segments[i], to |-> ResolveLanguage(target)]>>
                           ELSE <<>>
      BY <1>1, <1>7, ResultFacts
    <2> QED  BY <1>4, <1>5, <1>7, <2>1, <2>2
  <1> HIDE DEF pair, preds, task
  <1>9. /\ DOMAIN predictions' = {pair} \cup DOMAIN predictions
        /\ predictions'[pair] = preds
        /\ \A q \in DOMAIN predictions : q # pair => predictions'[q] = predictions[q]
    BY <1>2 DEF Store
  <1>10. /\ DOMAIN references' = {pair} \cup DOMAIN references
         /\ references'[pair] = task.refs
         /\ \A q \in DOMAIN references : q # pair => references'[q] = references[q]
    BY <1>2 DEF Store
  <1>11. DOMAIN references = DOMAIN predictions
         /\ \A q \in DOMAIN predictions : \E a, b \in In22Columns : Scored(q, a, b)
    BY <1>1 DEF ScoreInv
  <1>12. ASSUME NEW q \in DOMAIN predictions'
         PROVE  \E a, b \in In22Columns : Scored(q, a, b)'
    <2>1. CASE q = pair
      <3>1. Scored(q, from, to)'
        BY <1>4, <1>6, <1>8, <1>9, <1>10, <2>1 DEF Scored, Column
      <3> QED  BY <3>1
    <2>2. CASE q # pair
      <3>1. q \in DOMAIN predictions /\ predictions'[q] = predictions[q] /\ references'[q] = references[q]
        BY <1>9, <1>10, <1>11, <1>12, <2>2
      <3>2. PICK a \in In22Columns, b \in In22Columns : Scored(q, a, b)
        BY <1>11, <3>1
      <3>3. Scored(q, a, b)'
        BY <3>1, <3>2 DEF Scored, Column
      <3> QED  BY <3>3
    <2> QED  BY <2>1, <2>2
  <1>13. DOMAIN references' = DOMAIN predictions'
    BY <1>9, <1>10, <1>11
  <1> QED  BY <1>12, <1>13 DEF ScoreInv

(* The threads of the client.                                              *)
LEMMA ClientKeepsText ==
  ASSUME TranslateInv, ClientTranslates
  PROVE  TranslateInv'
  <1>1. /\ mtPc = "translate" /\ OnServer /\ UNCHANGED mtVars /\ AskedInv
    BY DEF ClientTranslates, TranslateInv
  <1>2. AskedInv'
    <2>1. CASE Take
      BY <1>1, <2>1, TakeKeeps
    <2>2. CASE \E i \in DOMAIN flight : Reply(i, {"ok", "failed", "broken"})
      BY <1>1, <2>2, ReplyKeeps
    <2> QED  BY <2>1, <2>2 DEF ClientTranslates
  <1>3. EngineInv'
    BY <1>1 DEF EngineInv, OnServer, mtVars
  <1>4. TaskInv' /\ ScoreInv' /\ OutputInv' /\ ask' \in MtCommands
    <2>1. /\ ask' = ask /\ mtPc' = mtPc /\ segments' = segments /\ target' = target
          /\ output' = output /\ tasks' = tasks /\ predictions' = predictions
          /\ references' = references
      BY <1>1 DEF mtVars
    <2>2. TaskInv'
      BY <2>1 DEF TranslateInv, TaskInv
    <2>3. ScoreInv'
      BY <2>1 DEF TranslateInv, ScoreInv, Scored, Column
    <2>4. OutputInv'
      BY <1>1, <2>1 DEF OutputInv
    <2> QED  BY <2>1, <2>2, <2>3, <2>4 DEF TranslateInv
  <1> QED  BY <1>2, <1>3, <1>4 DEF TranslateInv

(* The engine of one's own.                                                *)
LEMMA EngineKeepsText ==
  ASSUME TranslateInv, EngineTranslates
  PROVE  TranslateInv'
  <1> DEFINE size == CASE ask.kind = "vllm" -> Len(asked) [] ask.kind = "hf" -> HfBatch [] OTHER -> 1
  <1>1. /\ mtPc = "translate" /\ ~OnServer /\ UNCHANGED mtVars /\ AskedInv /\ EngineInv
        /\ Generate(size, {"ok", "failed"})
    BY DEF EngineTranslates, TranslateInv
  <1>2. size \in Nat
    <2>1. DOMAIN segments = 1 .. Len(segments) /\ Len(segments) \in Nat
      BY <1>1 DEF AskedInv, IsList
    <2>2. DOMAIN asked = 1 .. Len(segments) /\ asked = [i \in 1 .. Len(segments) |-> asked[i]]
      BY <1>1, <2>1 DEF AskedInv
    <2>3. Len(asked) \in Nat
      BY <2>1, <2>2, ListFacts
    <2>4. HfBatch \in Nat
      BY TranslateAssumption
    <2> QED  BY <2>3, <2>4
  <1> HIDE DEF size
  <1>3. PICK d \in 0 .. Len(segments) : UpTo(d)
    BY <1>1 DEF EngineInv
  <1>4. AskedInv' /\ \E e \in 0 .. Len(segments') : UpTo(e)'
    BY <1>1, <1>2, <1>3, GenerateKeeps
  <1>5. EngineInv'
    BY <1>4 DEF EngineInv
  <1>6. TaskInv' /\ ScoreInv' /\ OutputInv' /\ ask' \in MtCommands
    <2>1. /\ ask' = ask /\ mtPc' = mtPc /\ segments' = segments /\ target' = target
          /\ output' = output /\ tasks' = tasks /\ predictions' = predictions
          /\ references' = references
      BY <1>1 DEF mtVars
    <2>2. TaskInv'
      BY <2>1 DEF TranslateInv, TaskInv
    <2>3. ScoreInv'
      BY <2>1 DEF TranslateInv, ScoreInv, Scored, Column
    <2>4. OutputInv'
      BY <1>1, <2>1 DEF OutputInv
    <2> QED  BY <2>1, <2>2, <2>3, <2>4 DEF TranslateInv
  <1> QED  BY <1>4, <1>5, <1>6 DEF TranslateInv

(* The records are written.                                                *)
LEMMA WritingKeepsText ==
  ASSUME TranslateInv, Translated
  PROVE  TranslateInv'
  <1>1. /\ mtPc = "translate" /\ ask.kind # "in22" /\ ask' = ask /\ segments' = segments
        /\ target' = target /\ tasks' = tasks /\ scored' = scored /\ fanVars' = fanVars
        /\ TaskInv
    BY DEF Translated, TranslateInv
  <1>2. Exit \in {"exit0", "exit1"}
    BY DEF Exit
  <1>3. mtPc' # "translate" /\ mtPc' # "start"
    BY <1>2 DEF Translated
  <1>4. AskedInv' /\ ask' \in MtCommands /\ EngineInv' /\ ScoreInv'
    BY <1>1, <1>3, TextStays
  <1>5. TaskInv'
    BY <1>1 DEF TaskInv
  <1>6. OutputInv'
    <2>1. CASE mtPc' = "raised"
      BY <2>1 DEF OutputInv
    <2>2. CASE mtPc' = Exit /\ output' = WriteResults
      <3>1. asked' = asked /\ flight' = flight /\ texts' = texts
        BY <1>1 DEF fanVars
      <3>2. Exit' = Exit
        BY <1>1, <3>1 DEF Exit
      <3>3. WriteResults' = WriteResults
        BY <1>1, <3>1 DEF WriteResults, Results, Result, ResolveLanguage
      <3> QED  BY <1>3, <2>2, <3>2, <3>3 DEF OutputInv
    <2> QED  BY <2>1, <2>2 DEF Translated
  <1> QED  BY <1>4, <1>5, <1>6 DEF TranslateInv

(* A direction of the benchmark is over.                                   *)
LEMMA TaskKeepsText ==
  ASSUME TranslateInv, TaskDone
  PROVE  TranslateInv'
  <1>1. /\ mtPc = "translate" /\ ask.kind = "in22" /\ ask' = ask /\ TaskInv
        /\ tasks \in Seq(Directions) /\ tasks # <<>> /\ ask \in MtCommands
    BY DEF TranslateInv, TaskInv, TaskDone
  <1>2. CASE Count("broken") > 0
    <2>1. /\ mtPc' = "raised" /\ segments' = segments /\ target' = target /\ tasks' = tasks
          /\ scored' = scored /\ fanVars' = fanVars
      BY <1>2 DEF TaskDone
    <2>2. AskedInv' /\ ask' \in MtCommands /\ EngineInv' /\ ScoreInv'
      BY <1>1, <2>1, TextStays
    <2>3. TaskInv' /\ OutputInv'
      BY <1>1, <2>1 DEF TaskInv, OutputInv
    <2> QED  BY <2>2, <2>3 DEF TranslateInv
  <1>3. CASE ~(Count("broken") > 0)
    <2>1. ScoreInv'
      BY <1>3, TaskScored
    <2>2. CASE Len(tasks) > 1
      <3>1. Start22(Tail(tasks))
        BY <1>3, <2>2 DEF TaskDone
      <3>2. Tail(tasks) \in Seq(Directions) /\ Len(Tail(tasks)) # 0 /\ Tail(tasks) # <<>>
        <4>1. tasks \in Seq(Directions) /\ Len(tasks) \in Nat
          BY <1>1
        <4>2. Tail(tasks) \in Seq(Directions) /\ Len(Tail(tasks)) = Len(tasks) - 1
          BY <1>1, <4>1
        <4> DEFINE rest == Tail(tasks)
                   m == Len(tasks)
        <4>3. rest \in Seq(Directions) /\ Len(rest) = m - 1 /\ m \in Nat /\ m > 1
          BY <2>2, <4>1, <4>2
        <4> HIDE DEF rest, m
        <4>4. Len(rest) # 0
          BY <4>3
        <4>5. rest # <<>>
          BY <4>4
        <4> QED  BY <4>3, <4>4, <4>5 DEF rest
      <3> QED  BY <1>1, <2>1, <3>1, <3>2, StartsDirection
    <2>3. CASE ~(Len(tasks) > 1)
      <3>1. /\ mtPc' = "exit0" /\ segments' = segments /\ target' = target /\ tasks' = tasks
            /\ fanVars' = fanVars
        BY <1>3, <2>3 DEF TaskDone
      <3>2. AskedInv' /\ ask' \in MtCommands /\ EngineInv'
        BY <1>1, <3>1, TextStays
      <3>3. TaskInv' /\ OutputInv'
        BY <1>1, <3>1 DEF TaskInv, OutputInv
      <3> QED  BY <2>1, <3>2, <3>3 DEF TranslateInv
    <2> QED  BY <2>2, <2>3
  <1> QED  BY <1>2, <1>3

(* The commands that translate hold each answer at its request, score each *)
(* direction row by row, and write what they hold.                         *)
THEOREM TranslateInductive == TranslateSpec => []TranslateInv
  <1>1. TranslateInit /\ FanInit => TranslateInv
    <2> SUFFICES ASSUME TranslateInit, FanInit PROVE TranslateInv
      OBVIOUS
    <2>1. /\ ask \in MtCommands /\ mtPc = "start" /\ segments = <<>> /\ tasks = <<>>
          /\ predictions = << >> /\ references = << >> /\ asked = <<>> /\ flight = <<>> /\ texts = <<>>
      BY DEF TranslateInit, FanInit
    <2>2. DOMAIN segments = {} /\ DOMAIN flight = {} /\ DOMAIN texts = {} /\ DOMAIN asked = {}
          /\ DOMAIN predictions = {} /\ DOMAIN references = {}
      BY <2>1
    <2>3. AskedInv
      <3>1. IsList(segments)
        BY <2>1 DEF IsList
      <3>2. /\ asked = [i \in DOMAIN segments |-> BuildConversation(segments[i], target)]
            /\ flight = [i \in DOMAIN flight |-> flight[i]] /\ texts = [i \in DOMAIN texts |-> texts[i]]
        BY <2>1, <2>2
      <3> QED  BY <2>2, <3>1, <3>2 DEF AskedInv
    <2>4. TaskInv
      BY <2>1 DEF TaskInv
    <2>5. ScoreInv
      BY <2>2 DEF ScoreInv
    <2> QED  BY <2>1, <2>3, <2>4, <2>5 DEF TranslateInv, EngineInv, OutputInv
  <1>2. TranslateInv /\ [TranslateNext]_<<mtVars, fanVars>> => TranslateInv'
    <2> SUFFICES ASSUME TranslateInv, [TranslateNext]_<<mtVars, fanVars>> PROVE TranslateInv'
      OBVIOUS
    <2>1. CASE BeginTranslate
      BY <2>1, BeginKeepsText
    <2>2. CASE ClientTranslates
      BY <2>2, ClientKeepsText
    <2>3. CASE EngineTranslates
      BY <2>3, EngineKeepsText
    <2>4. CASE Translated
      BY <2>4, WritingKeepsText
    <2>5. CASE BeginIn22
      BY <2>5, BenchBegins
    <2>6. CASE TaskDone
      BY <2>6, TaskKeepsText
    <2>7. CASE UNCHANGED <<mtVars, fanVars>>
      <3>1. /\ ask' = ask /\ mtPc' = mtPc /\ segments' = segments /\ target' = target
            /\ output' = output /\ tasks' = tasks /\ scored' = scored /\ fanVars' = fanVars
            /\ asked' = asked /\ flight' = flight /\ texts' = texts
        BY <2>7 DEF mtVars, fanVars, scored
      <3>2. AskedInv' /\ ask' \in MtCommands /\ EngineInv' /\ ScoreInv'
        BY <3>1, TextStays
      <3>3. TaskInv'
        BY <3>1 DEF TranslateInv, TaskInv
      <3>4. OutputInv'
        <4>1. Exit' = Exit
          BY <3>1 DEF Exit
        <4>2. WriteResults' = WriteResults
          BY <3>1 DEF WriteResults, Results, Result, ResolveLanguage
        <4> QED  BY <3>1, <4>1, <4>2 DEF TranslateInv, OutputInv
      <3> QED  BY <3>2, <3>3, <3>4 DEF TranslateInv
    <2> QED  BY <2>1, <2>2, <2>3, <2>4, <2>5, <2>6, <2>7 DEF TranslateNext
  <1> QED  BY <1>1, <1>2, PTL DEF TranslateSpec

(* Whatever order the answers come in and whichever fail, a file holds one *)
(* record for each segment in its order and stdout those translated; a     *)
(* record is its own source's translation or has failed; the client exits  *)
(* with 0 only if none failed; and a row of the benchmark is scored        *)
(* against the same row of the column of its target.                       *)
THEOREM TranslateAligned == TranslateSpec => []Aligned
  <1>1. TranslateInv => Aligned
    <2> SUFFICES ASSUME TranslateInv PROVE Aligned
      OBVIOUS
    <2> DEFINE n == Len(segments)
               K == {i \in DOMAIN segments : ask.toFile \/ flight[i] = "ok"}
    <2>1. /\ AskedInv /\ n \in Nat /\ DOMAIN segments = 1 .. n /\ segments \in Seq(ToSet(segments))
          /\ DOMAIN flight = 1 .. n /\ segments = [i \in 1 .. n |-> segments[i]]
      <3>1. AskedInv /\ segments \in Seq(ToSet(segments)) /\ DOMAIN flight = DOMAIN segments
        BY DEF TranslateInv, AskedInv, IsList
      <3>2. n \in Nat /\ DOMAIN segments = 1 .. n /\ segments = [i \in 1 .. n |-> segments[i]]
        BY <3>1
      <3> QED  BY <3>1, <3>2
    <2>2. DOMAIN Results = 1 .. n /\ \A i \in 1 .. n : Results[i] = Result(i)
      BY <2>1 DEF Results
    <2>3. Results \in Seq(ToSet(Results)) /\ Len(Results) = n
      <3>1. Results = [i \in 1 .. n |-> Results[i]]
        BY <2>1, <2>2 DEF Results
      <3> QED  BY <2>1, <2>2, <3>1, ListFacts DEF IsList
    <2>4. \A i \in 1 .. n :
            /\ Results[i].source = segments[i] /\ Results[i].to = ResolveLanguage(target)
            /\ Results[i].ok <=> flight[i] = "ok"
            /\ Results[i].text = IF flight[i] = "ok"
                                 THEN <<[text |-> segments[i], to |-> ResolveLanguage(target)]>>
                                 ELSE <<>>
      BY <2>1, <2>2, ResultFacts
    <2>5. K \in SUBSET (1 .. n)
      BY <2>1
    <2>6. ASSUME mtPc \in {"exit0", "exit1"}, segments # <<>>, ask.kind # "in22"
          PROVE  /\ \A i \in DOMAIN output :
                      /\ output[i].to = ResolveLanguage(ask.to)
                      /\ output[i].ok => output[i].text = <<[text |-> output[i].source, to |-> output[i].to]>>
                      /\ ~output[i].ok => output[i].text = <<>> /\ ask.toFile
                 /\ [i \in DOMAIN output |-> output[i].source] = PickAt(segments, K)
                 /\ ask.kind = "client" /\ ask.toFile =>
                      ((mtPc = "exit0") <=> \A i \in DOMAIN output : output[i].ok)
      <3>1. output = WriteResults /\ mtPc = Exit /\ target = ask.to
        BY <2>6 DEF TranslateInv, OutputInv, TaskInv
      <3>2. CASE ask.toFile
        <4>1. output = Results
          BY <3>1, <3>2 DEF WriteResults
        <4>2. K = 1 .. n
          BY <2>1, <3>2
        <4>3. PickAt(segments, K) = segments
          <5>1. Cardinality(1 .. n) = n
            BY <2>1, PlacesOfList
          <5> HIDE DEF K
          <5> QED  BY <2>1, <2>5, <4>2, <5>1, PickAll
        <4> HIDE DEF K
        <4>4. [i \in DOMAIN output |-> output[i].source] = [i \in 1 .. n |-> segments[i]]
          BY <2>2, <2>4, <4>1
        <4>5. ask.kind = "client" =>
                ((mtPc = "exit0") <=> \A i \in DOMAIN output : output[i].ok)
          BY <2>1, <2>2, <2>4, <3>1, <4>1 DEF Exit
        <4>6. ASSUME NEW i \in DOMAIN output
              PROVE  /\ output[i].to = ResolveLanguage(ask.to)
                     /\ output[i].ok => output[i].text = <<[text |-> output[i].source, to |-> output[i].to]>>
                     /\ ~output[i].ok => output[i].text = <<>>
          <5>1. i \in 1 .. n /\ output[i] = Results[i]
            BY <2>2, <4>1, <4>6
          <5>2. CASE flight[i] = "ok"
            <6>1. Results[i].ok /\ Results[i].to = ResolveLanguage(target)
              BY <2>4, <5>1, <5>2
            <6>2. Results[i].text = <<[text |-> Results[i].source, to |-> Results[i].to]>>
              BY <2>4, <5>1, <5>2
            <6>3. ResolveLanguage(target) = ResolveLanguage(ask.to)
              BY <3>1
            <6> QED  BY <5>1, <6>1, <6>2, <6>3
          <5>3. CASE flight[i] # "ok"
            BY <2>4, <3>1, <5>1, <5>3
          <5> QED  BY <5>2, <5>3
        <4>7. [i \in DOMAIN output |-> output[i].source] = PickAt(segments, K)
          BY <2>1, <4>3, <4>4
        <4> QED  BY <3>2, <4>5, <4>6, <4>7
      <3>3. CASE ~ask.toFile
        <4> DEFINE c == Cardinality(K)
                   at == PlaceOf(K)
        <4>1. K = {i \in DOMAIN Results : Results[i].ok}
          BY <2>1, <2>2, <2>4, <3>3
        <4>2. output = PickAt(Results, K)
          BY <3>1, <3>3, <4>1 DEF WriteResults
        <4>3. \A k \in K : flight[k] = "ok" /\ k \in 1 .. n
          BY <2>1, <3>3
        <4> HIDE DEF K
        <4>4. /\ c \in Nat /\ output \in Seq(ToSet(Results)) /\ Len(output) = c
              /\ \A a \in 1 .. c : output[a] = Results[at[a]]
          BY <2>3, <2>5, <4>2, PickAtFacts
        <4>5. /\ PickAt(segments, K) \in Seq(ToSet(segments)) /\ Len(PickAt(segments, K)) = c
              /\ \A a \in 1 .. c : PickAt(segments, K)[a] = segments[at[a]]
          BY <2>1, <2>5, PickAtFacts
        <4>6. at \in [1 .. c -> K]
          BY <2>1, <2>5, PlacesFacts
        <4> HIDE DEF c, at
        <4>7. DOMAIN output = 1 .. c
          BY <4>4
        <4>8. \A a \in 1 .. c : at[a] \in 1 .. n /\ flight[at[a]] = "ok"
          BY <4>3, <4>6
        <4>9. \A a \in 1 .. c : output[a].source = PickAt(segments, K)[a]
          <5> TAKE a \in 1 .. c
          <5>1. PICK k \in 1 .. n : k = at[a]
            BY <4>8
          <5>2. output[a] = Results[k] /\ PickAt(segments, K)[a] = segments[k]
            BY <4>4, <4>5, <5>1
          <5> QED  BY <2>4, <5>2
        <4>10. [i \in DOMAIN output |-> output[i].source] = PickAt(segments, K)
          <5> DEFINE picked == PickAt(segments, K)
          <5>1. picked \in Seq(ToSet(segments)) /\ Len(picked) = c
            BY <4>5
          <5>2. \A a \in 1 .. c : output[a].source = picked[a]
            BY <4>9
          <5> HIDE DEF picked
          <5>3. picked = [a \in 1 .. c |-> picked[a]]
            BY <5>1
          <5>4. [a \in 1 .. c |-> output[a].source] = [a \in 1 .. c |-> picked[a]]
            BY <5>2
          <5>5. [i \in DOMAIN output |-> output[i].source] = picked
            BY <4>7, <5>3, <5>4
          <5> QED  BY <5>5 DEF picked
        <4>11. \A a \in 1 .. c :
                 /\ output[a].to = ResolveLanguage(ask.to) /\ output[a].ok
                 /\ output[a].text = <<[text |-> output[a].source, to |-> output[a].to]>>
          <5> TAKE a \in 1 .. c
          <5>1. PICK k \in 1 .. n : output[a] = Results[k] /\ flight[k] = "ok"
            BY <4>4, <4>8
          <5>2. Results[k].ok /\ Results[k].to = ResolveLanguage(target)
            BY <2>4, <5>1
          <5>3. Results[k].text = <<[text |-> Results[k].source, to |-> Results[k].to]>>
            BY <2>4, <5>1
          <5>4. ResolveLanguage(target) = ResolveLanguage(ask.to)
            BY <3>1
          <5> QED  BY <5>1, <5>2, <5>3, <5>4
        <4> QED  BY <3>3, <4>7, <4>10, <4>11
      <3> QED  BY <3>2, <3>3
    <2>7. ASSUME NEW pair \in DOMAIN predictions, NEW i \in 1 .. In22Rows
          PROVE  /\ references[pair][i][1] = i /\ LanguageNames[references[pair][i][2]] = pair[2]
                 /\ predictions[pair][i] # <<>> =>
                      /\ predictions[pair][i][1].to = pair[2]
                      /\ predictions[pair][i][1].text[1] = i
                      /\ LanguageNames[predictions[pair][i][1].text[2]] = pair[1]
      <3>1. PICK from \in In22Columns, to \in In22Columns : Scored(pair, from, to)
        BY DEF TranslateInv, ScoreInv
      <3>2. pair[1] = LanguageNames[from] /\ pair[2] = LanguageNames[to]
        BY <3>1 DEF Scored
      <3>3. references[pair][i] = <<i, to>>
        BY <3>1 DEF Scored, Column
      <3>4. predictions[pair][i] \in {<<>>, <<[text |-> <<i, from>>, to |-> LanguageNames[to]]>>}
        BY <3>1 DEF Scored
      <3> QED  BY <3>2, <3>3, <3>4
    <2> HIDE DEF K
    <2> QED  BY <2>6, <2>7 DEF Aligned, K
  <1> QED  BY <1>1, TranslateInductive, PTL
=============================================================================
