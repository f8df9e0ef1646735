------------------------------ MODULE TtsService ------------------------------
(***************************************************************************)
(* The TTS server's calls (tts/serving/service.py, with replica.py and      *)
(* protocol.py), their clients (tts/serving/client.py) and the credential   *)
(* before both (_serving_auth.py).  Handlers of one replica interleave at   *)
(* their awaits; a call may be cut off at any of them; finished utterances  *)
(* go to background writers; and a replica whose engine has died fails its  *)
(* health checks and is replaced.                                           *)
(*                                                                         *)
(* What an utterance sounds like is external: a frame is known by its call, *)
(* the engine method that rendered it and its position.                     *)
(***************************************************************************)
EXTENDS Naturals, Sequences, SequencesExt, FiniteSetsExt

CONSTANTS
    Callers,
    CallChoices,    \* what a caller may ask: path, valid, dialogue, chunked, frames, known
    ChunkedDefault, \* cfg.chunked_default
    Strikes,        \* REPLICA_HEALTH_CHECK_UNHEALTHY_THRESHOLD: 3
    MaxDeaths       \* bound of the model: engines that die

ASSUME ServiceAssumption ==
    /\ Strikes \in Nat \ {0} /\ MaxDeaths \in Nat
    /\ \A choice \in CallChoices : choice.frames \in Nat

VARIABLES
    auth,       \* TTS_AUTH_FILE: "unset", "good" or "malformed"
    recording,  \* whether a record_dir is set
    call,       \* what each caller asks
    handler,    \* where its handler is: "arriving", "streaming", "closing" or "over"
    wire,       \* what it has been sent
    chunks,     \* the frames its handler has drawn
    linked,     \* whether its connection stands
    client,     \* what its client wrote: <<>> for no file, else one WavFile
    counter,    \* _rec_counter
    jobs,       \* recordings submitted
    disk,       \* the recordings by number
    alive,      \* whether the engine is
    strikes,    \* health checks failed in a row
    deaths

callVars == <<auth, recording, call>>
replicaVars == <<alive, strikes, deaths>>
recordVars == <<counter, jobs, disk>>
ttsServiceVars == <<callVars, handler, wire, chunks, linked, client, recordVars, replicaVars>>

ServiceInit ==
    /\ auth \in {"unset", "good", "malformed"} /\ recording \in BOOLEAN
    /\ call \in [Callers -> CallChoices]
    /\ handler = [c \in Callers |-> "arriving"]
    /\ wire = [c \in Callers |-> <<>>] /\ chunks = [c \in Callers |-> <<>>]
    /\ linked = [c \in Callers |-> TRUE] /\ client = [c \in Callers |-> <<>>]
    /\ counter = 0 /\ jobs = {} /\ disk = << >>
    /\ alive = TRUE /\ strikes = 0 /\ deaths = 0

(***************************************************************************)
(* The replica: which method of which engine renders a request.             *)
(***************************************************************************)
Websocket(c) == call[c].path \in {"/tts", "/tts/chunked"}
Streams(c) == Websocket(c) \/ call[c].path = "/tts/sse"

UseChunked(c) ==
    IF call[c].path = "/tts/chunked" THEN TRUE
    ELSE IF call[c].chunked = "default" THEN ChunkedDefault ELSE call[c].chunked = "yes"

Method(c) ==
    CASE call[c].dialogue /\ UseChunked(c) -> "stream_conversation_long"
      [] call[c].dialogue /\ ~UseChunked(c) -> "stream_conversation"
      [] ~call[c].dialogue /\ UseChunked(c) -> "stream_long"
      [] OTHER -> "stream"

FrameOf(c, k) == [of |-> c, by |-> Method(c), at |-> k]

(***************************************************************************)
(* Events.                                                                  *)
(***************************************************************************)
Event(name) == [event |-> name]
AudioOf(frame) == [event |-> "audio", frame |-> frame]
End(n) == [event |-> "end", frames |-> n]
Status(n) == [event |-> "status", status |-> n]

Send(c, e) == wire' = [wire EXCEPT ![c] = Append(@, e)]
Goes(c, to) == handler' = [handler EXCEPT ![c] = to]

(***************************************************************************)
(* Arrival.  A malformed credential file keeps the server from starting.    *)
(***************************************************************************)
Admitted(c) == auth = "unset" \/ call[c].known

Refuse(c) ==
    /\ auth # "malformed" /\ handler[c] = "arriving" /\ ~Admitted(c)
    /\ Send(c, Status(IF Websocket(c) THEN 403 ELSE 401)) /\ Goes(c, "over")
    /\ UNCHANGED <<callVars, chunks, linked, client, recordVars, replicaVars>>

\* Exactly one of text and messages: told on the websocket, a status elsewhere.
Admit(c) ==
    /\ auth # "malformed" /\ handler[c] = "arriving" /\ Admitted(c)
    /\ IF call[c].valid
       THEN /\ Goes(c, "streaming")
            /\ IF Streams(c) THEN Send(c, Event("start")) ELSE UNCHANGED wire
       ELSE /\ Goes(c, "over")
            /\ Send(c, IF Websocket(c) THEN Event("error") ELSE Status(422))
    /\ UNCHANGED <<callVars, chunks, linked, client, recordVars, replicaVars>>

(***************************************************************************)
(* Streaming.                                                               *)
(***************************************************************************)
Proceeds(c) == linked[c] \/ ~Streams(c)

DrawFrame(c) ==
    /\ handler[c] = "streaming" /\ Proceeds(c) /\ alive /\ Len(chunks[c]) < call[c].frames
    /\ LET frame == FrameOf(c, Len(chunks[c]) + 1)
       IN  /\ chunks' = [chunks EXCEPT ![c] = Append(@, frame)]
           /\ IF Streams(c) THEN Send(c, AudioOf(frame)) ELSE UNCHANGED wire
    /\ UNCHANGED <<callVars, handler, linked, client, recordVars, replicaVars>>

\* The stream is drained; the websocket is closed next, the body ended, the WAV made.
Drained(c) ==
    /\ handler[c] = "streaming" /\ Proceeds(c) /\ Len(chunks[c]) = call[c].frames
    /\ Goes(c, "closing")
    /\ IF Streams(c) THEN Send(c, End(Len(chunks[c]))) ELSE UNCHANGED wire
    /\ UNCHANGED <<callVars, chunks, linked, client, recordVars, replicaVars>>

\* synthesize raises, before the first frame or after some.
Raises(c) ==
    /\ handler[c] = "streaming" /\ Proceeds(c) /\ Goes(c, "over")
    /\ Send(c, IF Streams(c) THEN Event("error") ELSE Status(500))
    /\ UNCHANGED <<callVars, chunks, linked, client, recordVars, replicaVars>>

(***************************************************************************)
(* Recording.                                                               *)
(***************************************************************************)
\* A recording of whatever was drawn.
ToRecordDrawn(c, ok) == recording /\ chunks[c] # <<>>
ToRecord(c, ok) == recording /\ ok /\ chunks[c] # <<>>

SubmitRecording(c, ok) ==
    /\ IF ToRecord(c, ok)
       THEN counter' = counter + 1 /\ jobs' = jobs \cup {[number |-> counter', pcm |-> chunks[c]]}
       ELSE UNCHANGED <<counter, jobs>>
    /\ UNCHANGED disk

\* The call is done: the websocket closes, the event stream ends, the response is made.
Complete(c) ==
    /\ handler[c] = "closing" /\ Proceeds(c) /\ Goes(c, "over") /\ SubmitRecording(c, TRUE)
    /\ IF Streams(c) THEN UNCHANGED wire ELSE Send(c, Status(200))
    /\ UNCHANGED <<callVars, chunks, linked, client, replicaVars>>

\* The connection is gone at the handler's next await: a send or a close raises, or the
\* generator of events is closed.
CutOff(c) ==
    /\ handler[c] \in {"streaming", "closing"} /\ ~Proceeds(c) /\ Goes(c, "over")
    /\ IF Websocket(c) THEN SubmitRecording(c, FALSE) ELSE UNCHANGED recordVars
    /\ UNCHANGED <<callVars, wire, chunks, linked, client, replicaVars>>

\* A writer process finishes one.
WriteWav ==
    /\ \E job \in jobs :
        /\ jobs' = jobs \ {job}
        /\ disk' = [n \in DOMAIN disk \cup {job.number} |-> IF n = job.number THEN job.pcm ELSE disk[n]]
    /\ UNCHANGED <<callVars, handler, wire, chunks, linked, client, counter, replicaVars>>

(***************************************************************************)
(* The clients.                                                             *)
(***************************************************************************)
Played(events) ==
    LET audio == {i \in DOMAIN events : events[i].event = "audio"}
        nth(k) == CHOOSE i \in audio : Cardinality({j \in audio : j < i}) = k - 1
    IN  [k \in 1..Cardinality(audio) |-> events[nth(k)].frame]

\* A file a client wrote, and whether an end event or a 200 had told it that this is all.
WavFile(frames, told) == [pcm |-> frames, told |-> told]

\* run_ws stops at the end event, run_sse reads to the end of the body and run_offline
\* takes the response: each writes a file unless it was told of an error or got a status,
\* and run_sse none without audio.
ClientFile(c) ==
    LET last == Last(wire[c])
    IN  CASE last.event = "end" /\ (Websocket(c) \/ Played(wire[c]) # <<>>) ->
               <<WavFile(Played(wire[c]), TRUE)>>
          [] last = Status(200) -> <<WavFile(chunks[c], TRUE)>>
          [] OTHER -> <<>>

ClientReads(c) ==
    /\ wire[c] # <<>> /\ linked[c]
    /\ Last(wire[c]).event = "end" => Websocket(c) \/ handler[c] = "over"
    /\ Last(wire[c]).event \in {"end", "error", "status"}
    /\ client' = [client EXCEPT ![c] = ClientFile(c)]
    /\ linked' = [linked EXCEPT ![c] = FALSE]
    /\ UNCHANGED <<callVars, handler, wire, chunks, recordVars, replicaVars>>

\* The connection is closed in good order, by the server's shutdown or a proxy, before the
\* client has read how the call ended: the loop of run_ws and of run_sse ends as it does at
\* the end of an utterance, and what has been read so far is written.
ClosedEarly(c) ==
    /\ Streams(c) /\ Admitted(c) /\ linked[c] /\ handler[c] # "arriving"
    /\ \E n \in 0..Len(wire[c]) :
        LET got == SubSeq(wire[c], 1, n)
        IN  /\ \A i \in 1..n : got[i].event \in {"start", "audio"}
            /\ client' = [client EXCEPT ![c] =
                IF Websocket(c) \/ Played(got) # <<>> THEN <<WavFile(Played(got), FALSE)>> ELSE <<>>]
    /\ linked' = [linked EXCEPT ![c] = FALSE]
    /\ UNCHANGED <<callVars, handler, wire, chunks, recordVars, replicaVars>>

\* The connection breaks, or the client goes: its read raises and it writes nothing.
Sever(c) ==
    /\ linked[c] /\ handler[c] # "arriving" /\ linked' = [linked EXCEPT ![c] = FALSE]
    /\ UNCHANGED <<callVars, handler, wire, chunks, client, recordVars, replicaVars>>

(***************************************************************************)
(* The engine dies; its replica is replaced at the third failed check, and  *)
(* the new one numbers its recordings from the start.  A submitted          *)
(* recording may be lost with the old one.                                  *)
(***************************************************************************)
EngineDies ==
    /\ alive /\ deaths < MaxDeaths /\ alive' = FALSE /\ deaths' = deaths + 1
    /\ UNCHANGED <<callVars, handler, wire, chunks, linked, client, recordVars, strikes>>

CheckHealth ==
    /\ ~alive /\ UNCHANGED <<callVars, wire, chunks, client, disk, deaths>>
    /\ IF strikes + 1 < Strikes
       THEN strikes' = strikes + 1 /\ UNCHANGED <<alive, handler, linked, counter, jobs>>
       ELSE /\ alive' = TRUE /\ strikes' = 0 /\ counter' = 0
            /\ \E kept \in SUBSET jobs : jobs' = kept
            /\ LET gone == {c \in Callers : handler[c] \in {"streaming", "closing"}}
               IN  /\ handler' = [c \in Callers |-> IF c \in gone THEN "over" ELSE handler[c]]
                   /\ linked' = [c \in Callers |-> linked[c] /\ c \notin gone]

ServiceNext ==
    \/ \E c \in Callers :
        \/ Refuse(c) \/ Admit(c) \/ DrawFrame(c) \/ Drained(c) \/ Raises(c) \/ Complete(c)
        \/ CutOff(c) \/ ClientReads(c) \/ ClosedEarly(c) \/ Sever(c)
    \/ WriteWav \/ EngineDies \/ CheckHealth

(***************************************************************************)
(* Properties.                                                              *)
(***************************************************************************)
Utterance(c) == [k \in 1..call[c].frames |-> FrameOf(c, k)]

\* However calls interleave, fail, are cut off or lose their replica: an end event, or a
\* 200, comes last, once, and only after every frame of the call's own utterance in order.
\* A file whose client was told so is that utterance; one written because the connection
\* was closed early, which run_ws and run_sse do not tell apart, is the beginning of it.
\* Every recording is a whole utterance, of a call that had been told it was complete.
EndMeansWhole ==
    /\ \A c \in Callers :
        /\ \A i \in DOMAIN wire[c] :
            /\ wire[c][i].event \in {"end", "error", "status"} => i = Len(wire[c])
            /\ wire[c][i].event = "end" =>
                Played(wire[c]) = Utterance(c) /\ wire[c][i].frames = Len(Utterance(c))
        /\ \A wav \in Range(client[c]) :
            IF wav.told THEN wav.pcm = Utterance(c) ELSE IsPrefix(wav.pcm, Utterance(c))
    /\ \A pcm \in Range(disk) \cup {job.pcm : job \in jobs} : \E c \in Callers :
        /\ pcm = Utterance(c)
        /\ wire[c] # <<>> /\ (Last(wire[c]) = End(Len(pcm)) \/ Last(wire[c]) = Status(200))
===============================================================================
