----------------------------- MODULE StreamBridge -----------------------------
(* stream_sync: threads that block for audio while the generators they drive   *)
(* run on one private event loop in a thread of its own (_SyncStreamBridge of  *)
(* tts/engine/streaming.py), and shutdown(), which stops that loop.  What a    *)
(* generator does between two frames is the business of TtsStream.             *)
EXTENDS Integers, Sequences

CONSTANTS
    Blocked,      \* calls of stream_sync or stream_conversation_sync
    Askings,      \* bound: how many frames the calls would get
    MaxLoops,     \* bound: private loops made
    MaxShutdowns  \* bound: calls of shutdown()

ASSUME BridgeAssumption ==
    Askings \subseteq [Blocked -> Nat] /\ MaxLoops \in Nat \ {0} /\ MaxShutdowns \in Nat

NoLoop == 0
AppLoop == -1                       \* the event loop of somebody else
Loops == 1 .. MaxLoops

VARIABLES
    wanted,       \* frames each call would get: none for a blank text
    caller,       \* "new", "bound", "wait", "yielded", "ended", "raised", "left"
    mine,         \* the loop its run() holds
    heardSync,    \* frames it has been handed
    outBox,       \* its queue.Queue: frames, then the sentinel with the verdict
    pump,         \* its pump task: "none", "born", "running" or "done"
    cancelled,    \* pumps with a cancellation on its way
    early,        \* history: calls interrupted before their task was made
    loopOf,       \* _loop: the private loop of the bridge
    loopPc,       \* each private loop: "none", "running", "stopping", "stopped", "closed"
    calledSoon,   \* its callbacks, by call_soon_threadsafe
    owner,        \* _owner_loop
    dead,         \* _engine_dead
    shutPc, shutDone, shutdowns, victim, torn   \* shutdown() and stop()

syncVars == <<wanted, caller, mine, heardSync, outBox, pump, cancelled, early>>
loopVars == <<loopOf, loopPc, calledSoon>>
ownerVars == <<owner, dead>>
shutVars == <<shutPc, shutDone, shutdowns, victim, torn>>
bridgeVars == <<syncVars, loopVars, ownerVars, shutVars>>

BridgeInit ==
    /\ wanted \in Askings
    /\ caller = [c \in Blocked |-> "new"]
    /\ mine = [c \in Blocked |-> NoLoop]
    /\ heardSync = [c \in Blocked |-> <<>>] /\ outBox = [c \in Blocked |-> <<>>]
    /\ pump = [c \in Blocked |-> "none"]
    /\ cancelled = {} /\ early = {}
    /\ loopOf = NoLoop
    /\ loopPc = [g \in Loops |-> "none"] /\ calledSoon = [g \in Loops |-> <<>>]
    /\ owner = NoLoop /\ dead = FALSE
    /\ shutPc = "idle" /\ shutDone = FALSE /\ shutdowns = 0 /\ victim = NoLoop /\ torn = FALSE

LoopRuns(g) == loopPc[g] \in {"running", "stopping"}
CallSoon(g, callback) == calledSoon' = [calledSoon EXCEPT ![g] = Append(@, callback)]

-----------------------------------------------------------------------------
(* The calling thread.                                                         *)

(* _ensure_loop, under the lock: the private loop, or a new one.               *)
EnsureLoop(c) ==
    /\ caller[c] = "new"
    /\ \/ loopOf # NoLoop /\ mine' = [mine EXCEPT ![c] = loopOf] /\ UNCHANGED <<loopOf, loopPc>>
       \/ /\ loopOf = NoLoop
          /\ \E g \in Loops :
               /\ loopPc[g] = "none" /\ \A h \in 1 .. g - 1 : loopPc[h] # "none"
               /\ loopOf' = g /\ loopPc' = [loopPc EXCEPT ![g] = "running"]
               /\ mine' = [mine EXCEPT ![c] = g]
    /\ caller' = [caller EXCEPT ![c] = "bound"]
    /\ UNCHANGED <<wanted, heardSync, outBox, pump, cancelled, early, calledSoon, ownerVars, shutVars>>

(* run(): the pump is started on the loop; a closed loop refuses.              *)
StartPump(c) ==
    /\ caller[c] = "bound"
    /\ \/ /\ loopPc[mine[c]] = "closed" /\ caller' = [caller EXCEPT ![c] = "raised"]
          /\ UNCHANGED calledSoon
       \/ /\ loopPc[mine[c]] # "closed" /\ caller' = [caller EXCEPT ![c] = "wait"]
          /\ CallSoon(mine[c], <<"start", c>>)
    /\ UNCHANGED <<wanted, mine, heardSync, outBox, pump, cancelled, early, loopOf, loopPc,
                   ownerVars, shutVars>>

(* out.get() has a frame, which is yielded, or the sentinel with its verdict.  *)
(* The pump puts the sentinel last, so that a cancel after it changes nothing. *)
TakeItem(c) ==
    /\ caller[c] = "wait" /\ outBox[c] # <<>>
    /\ LET item == Head(outBox[c]) IN
         \/ /\ item[1] = "frame"
            /\ heardSync' = [heardSync EXCEPT ![c] = Append(@, item[2])]
            /\ caller' = [caller EXCEPT ![c] = "yielded"]
         \/ /\ item[1] = "sentinel"
            /\ caller' = [caller EXCEPT ![c] = IF item[2] = "error" THEN "raised" ELSE "ended"]
            /\ UNCHANGED heardSync
    /\ outBox' = [outBox EXCEPT ![c] = Tail(@)]
    /\ UNCHANGED <<wanted, mine, pump, cancelled, early, loopVars, ownerVars, shutVars>>

NextFrame(c) ==
    /\ caller[c] = "yielded"
    /\ caller' = [caller EXCEPT ![c] = "wait"]
    /\ UNCHANGED <<wanted, mine, heardSync, outBox, pump, cancelled, early, loopVars, ownerVars, shutVars>>

(* task is not None and not task.done().                                       *)
InFlight(c) == pump[c] \in {"born", "running"}

(* Leaving the generator: a pump in flight is cancelled.                       *)
LeaveRun(c) ==
    IF ~InFlight(c) THEN caller' = [caller EXCEPT ![c] = "left"] /\ UNCHANGED calledSoon
    ELSE IF loopPc[mine[c]] = "closed"
    THEN caller' = [caller EXCEPT ![c] = "raised"] /\ UNCHANGED calledSoon
    ELSE caller' = [caller EXCEPT ![c] = "left"] /\ CallSoon(mine[c], <<"cancel", c>>)

(* generator.close() or an early break, at a yield.                            *)
CloseSync(c) ==
    /\ caller[c] = "yielded"
    /\ LeaveRun(c)
    /\ UNCHANGED <<wanted, mine, heardSync, outBox, pump, cancelled, early, loopOf, loopPc,
                   ownerVars, shutVars>>

(* A keyboard interrupt of the blocked get; the task may not have been made.   *)
Interrupt(c) ==
    /\ caller[c] = "wait" /\ outBox[c] = <<>>
    /\ LeaveRun(c)
    /\ early' = IF pump[c] = "none" THEN early \cup {c} ELSE early
    /\ UNCHANGED <<wanted, mine, heardSync, outBox, pump, cancelled, loopOf, loopPc, ownerVars, shutVars>>

-----------------------------------------------------------------------------
(* The loop's thread: callbacks in order, and the tasks.                       *)

RunCallback(g) ==
    /\ LoopRuns(g) /\ calledSoon[g] # <<>>
    /\ LET what == Head(calledSoon[g])[1]
           c == Head(calledSoon[g])[2]
       IN
         \/ /\ what = "start" /\ pump' = [pump EXCEPT ![c] = "born"]
            /\ UNCHANGED <<cancelled, loopPc, torn>>
         \/ /\ what = "cancel" /\ cancelled' = IF pump[c] = "done" THEN cancelled ELSE cancelled \cup {c}
            /\ UNCHANGED <<pump, loopPc, torn>>
         \/ /\ what = "teardown" /\ torn' = TRUE
            /\ UNCHANGED <<pump, cancelled, loopPc>>
         \/ /\ what = "stop" /\ loopPc' = [loopPc EXCEPT ![g] = "stopping"]
            /\ UNCHANGED <<pump, cancelled, torn>>
    /\ calledSoon' = [calledSoon EXCEPT ![g] = Tail(@)]
    /\ UNCHANGED <<wanted, caller, mine, heardSync, outBox, early, loopOf, ownerVars, shutPc, shutDone,
                   shutdowns, victim>>

(* loop.stop() lets the round that has begun finish.                           *)
LoopExits(g) ==
    /\ loopPc[g] = "stopping"
    /\ loopPc' = [loopPc EXCEPT ![g] = "stopped"]
    /\ UNCHANGED <<syncVars, loopOf, calledSoon, ownerVars, shutVars>>

FinishPump(c, verdict) ==
    /\ outBox' = [outBox EXCEPT ![c] = Append(@, <<"sentinel", verdict>>)]
    /\ pump' = [pump EXCEPT ![c] = "done"]
    /\ cancelled' = cancelled \ {c}

(* _ensure_started: the first stream binds the engine to its loop.             *)
Foreign(g) == owner \notin {NoLoop, g}

(* Mutant: the pump keeps the error of the generator to itself.                *)
VerdictLost(err) == "none"

(* out.put((_SENTINEL, err)).                                                  *)
Verdict(err) == err

(* A blank text or an empty dialogue gives no prompt and no audio.             *)
EndsAtOnce(c) == wanted[c] = 0

(* The pump begins: stream() refuses on a dead engine, ends at once without a  *)
(* prompt, and else starts the engine on this loop.  A task cancelled          *)
(* before its first step never enters the coroutine and puts no sentinel.      *)
BeginPump(c) ==
    /\ pump[c] = "born" /\ LoopRuns(mine[c])
    /\ \/ /\ c \in cancelled
          /\ pump' = [pump EXCEPT ![c] = "done"] /\ cancelled' = cancelled \ {c}
          /\ UNCHANGED <<outBox, owner>>
       \/ /\ c \notin cancelled /\ (dead \/ (~EndsAtOnce(c) /\ Foreign(mine[c])))
          /\ FinishPump(c, Verdict("error"))
          /\ UNCHANGED owner
       \/ /\ c \notin cancelled /\ ~dead /\ EndsAtOnce(c)
          /\ FinishPump(c, Verdict("none"))
          /\ UNCHANGED owner
       \/ /\ c \notin cancelled /\ ~dead /\ ~EndsAtOnce(c) /\ ~Foreign(mine[c])
          /\ pump' = [pump EXCEPT ![c] = "running"] /\ owner' = mine[c]
          /\ UNCHANGED <<outBox, cancelled>>
    /\ UNCHANGED <<wanted, caller, mine, heardSync, early, loopVars, dead, shutVars>>

(* The frames a running pump has put: no sentinel is among them yet.           *)
Put(c) == Len(heardSync[c]) + Len(outBox[c])

(* The generator yields a frame, ends, fails, perhaps because the engine died, *)
(* or is cancelled where it waits.                                             *)
PumpStep(c) ==
    /\ pump[c] = "running" /\ LoopRuns(mine[c])
    /\ \/ /\ c \notin cancelled /\ Put(c) < wanted[c]
          /\ outBox' = [outBox EXCEPT ![c] = Append(@, <<"frame", Put(c) + 1>>)]
          /\ UNCHANGED <<pump, cancelled, dead>>
       \/ /\ c \notin cancelled /\ Put(c) = wanted[c]
          /\ FinishPump(c, Verdict("none")) /\ UNCHANGED dead
       \/ /\ c \notin cancelled
          /\ FinishPump(c, Verdict("error")) /\ dead' \in {dead, TRUE}
       \/ /\ c \in cancelled
          /\ FinishPump(c, Verdict("cancelled")) /\ UNCHANGED dead
    /\ UNCHANGED <<wanted, caller, mine, heardSync, early, loopVars, owner, shutVars>>

(* Somebody streams on a loop of their own first.                              *)
StreamOnApp ==
    /\ owner = NoLoop /\ ~dead
    /\ owner' = AppLoop
    /\ UNCHANGED <<syncVars, loopVars, dead, shutVars>>

-----------------------------------------------------------------------------
(* shutdown(), on a loop of its own: once, the teardown on the loop the engine *)
(* is bound to; each time, stop() of the bridge.                               *)
CallShutdown ==
    /\ shutPc = "idle" /\ shutdowns < MaxShutdowns
    /\ shutdowns' = shutdowns + 1 /\ shutDone' = TRUE
    /\ \/ shutDone /\ shutPc' = "stop" /\ UNCHANGED <<calledSoon, torn>>
       \/ /\ ~shutDone /\ loopOf # NoLoop /\ owner = loopOf
          /\ CallSoon(loopOf, <<"teardown", 0>>)
          /\ shutPc' = "teardown" /\ UNCHANGED torn
       \/ /\ ~shutDone /\ (loopOf = NoLoop \/ owner # loopOf)
          /\ torn' = TRUE /\ shutPc' = "stop" /\ UNCHANGED calledSoon
    /\ UNCHANGED <<syncVars, loopOf, loopPc, ownerVars, victim>>

TeardownDone ==
    /\ shutPc = "teardown" /\ torn
    /\ shutPc' = "stop"
    /\ UNCHANGED <<syncVars, loopVars, ownerVars, shutDone, shutdowns, victim, torn>>

(* stop(), under the lock: the loop is taken from the bridge.                  *)
TakeLoop ==
    /\ shutPc = "stop"
    /\ \/ loopOf = NoLoop /\ shutPc' = "idle" /\ UNCHANGED <<loopOf, calledSoon, victim>>
       \/ /\ loopOf # NoLoop
          /\ victim' = loopOf /\ loopOf' = NoLoop
          /\ CallSoon(loopOf, <<"stop", 0>>)
          /\ shutPc' = "join"
    /\ UNCHANGED <<syncVars, loopPc, ownerVars, shutDone, shutdowns, torn>>

(* The join ends; after 5 seconds it gives up, and a running loop cannot be    *)
(* closed.                                                                     *)
JoinLoop ==
    /\ shutPc = "join"
    /\ loopPc' = IF loopPc[victim] = "stopped" THEN [loopPc EXCEPT ![victim] = "closed"] ELSE loopPc
    /\ shutPc' = "idle"
    /\ UNCHANGED <<syncVars, loopOf, calledSoon, ownerVars, shutDone, shutdowns, victim, torn>>

(* stream_sync and stream_conversation_sync: the thread and its pump.          *)
StreamSync(c) ==
    \/ EnsureLoop(c) \/ StartPump(c) \/ TakeItem(c) \/ NextFrame(c) \/ CloseSync(c) \/ Interrupt(c)
    \/ BeginPump(c) \/ PumpStep(c)

BridgeNext ==
    \/ \E c \in Blocked : StreamSync(c)
    \/ \E g \in Loops : RunCallback(g) \/ LoopExits(g)
    \/ StreamOnApp \/ CallShutdown \/ TeardownDone \/ TakeLoop \/ JoinLoop

BridgeSpec == BridgeInit /\ [][BridgeNext]_bridgeVars

-----------------------------------------------------------------------------
CancelOnItsWay(c) == c \in cancelled \/ \E k \in DOMAIN calledSoon[mine[c]] :
                                            calledSoon[mine[c]][k] = <<"cancel", c>>

(* A blocked caller is handed its own frames, each once and in order; one that *)
(* sees its stream end without an error has them all, whatever the others do   *)
(* and however shutdown() takes the loop from under it; one that left, unless  *)
(* it was interrupted before its task was made, has no pump that keeps on      *)
(* generating for nobody on a loop that goes on; and all the pumps that have   *)
(* entered the engine did so on one loop ("asyncio queues/tasks are not        *)
(* loop-portable").                                                            *)
BlockingHearsAll ==
    \A c \in Blocked :
        /\ \A k \in DOMAIN heardSync[c] : heardSync[c][k] = k
        /\ caller[c] = "ended" => Len(heardSync[c]) = wanted[c]
        /\ caller[c] = "left" /\ c \notin early /\ pump[c] \in {"born", "running"} /\ loopPc[mine[c]] = "running"
             => CancelOnItsWay(c)
        /\ pump[c] = "running" => mine[c] = owner
===============================================================================
