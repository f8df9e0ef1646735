------------------------- MODULE Synthesis_proofs -------------------------
(***************************************************************************)
(* Proofs about StreamBridge, for any number of blocking callers, private  *)
(* loops and shutdowns, about StreamWindows, for any emission, any cut of  *)
(* it into steps and any size of window, and about TtsEngine, for any      *)
(* recordings, texts of a call and size of the decoder's batches.          *)
(***************************************************************************)
EXTENDS StreamBridge, StreamWindows, TtsEngine, SequenceFacts

USE BridgeAssumption

(* What the variables hold, and what waits in a loop's and a caller's queue. *)
CallerPcs == {"new", "bound", "wait", "yielded", "ended", "raised", "left"}
PumpPcs == {"none", "born", "running", "done"}
LoopPcs == {"none", "running", "stopping", "stopped", "closed"}
Callback == ({"start", "cancel"} \X Blocked) \cup ({"teardown", "stop"} \X {0})
Item == ({"frame"} \X Nat) \cup ({"sentinel"} \X {"none", "error", "cancelled"})

(* The types of the variables; a shutdown that joins has a loop to join.   *)
TypeInv ==
    /\ wanted \in [Blocked -> Nat]
    /\ caller \in [Blocked -> CallerPcs]
    /\ mine \in [Blocked -> {NoLoop} \cup Loops]
    /\ heardSync \in [Blocked -> Seq(Nat)]
    /\ outBox \in [Blocked -> Seq(Item)]
    /\ pump \in [Blocked -> PumpPcs]
    /\ cancelled \subseteq Blocked /\ early \subseteq Blocked
    /\ loopOf \in {NoLoop} \cup Loops
    /\ loopPc \in [Loops -> LoopPcs]
    /\ calledSoon \in [Loops -> Seq(Callback)]
    /\ owner \in {NoLoop, AppLoop} \cup Loops
    /\ victim \in {NoLoop} \cup Loops
    /\ shutPc = "join" => victim \in Loops

(* A caller past its first step holds a loop that has been made; the       *)
(* bridge's own loop has been made too.                                    *)
LoopInv ==
    /\ \A c \in Blocked : caller[c] # "new" => mine[c] \in Loops /\ loopPc[mine[c]] # "none"
    /\ loopOf # NoLoop => loopPc[loopOf] # "none"

(* Where a callback waits in a queue.                                      *)
Places(q, x) == {k \in DOMAIN q : q[k] = x}
AtMostOne(S) == \A k, l \in S : k = l

StartOf(c) == <<"start", c>>
CancelOf(c) == <<"cancel", c>>

(* A pump is asked for once, on its caller's loop, and is not there yet.   *)
StartOnce ==
    \A g \in Loops : \A c \in Blocked :
        /\ Places(calledSoon[g], StartOf(c)) # {} =>
            g = mine[c] /\ caller[c] \notin {"new", "bound"} /\ pump[c] = "none"
        /\ AtMostOne(Places(calledSoon[g], StartOf(c)))
StartLate ==
    \A c \in Blocked : /\ caller[c] \in {"new", "bound"} => pump[c] = "none"
                       /\ caller[c] = "yielded" => pump[c] \in {"running", "done"}
StartInv == StartOnce /\ StartLate

(* Only callers that left are cancelled, and those whose pump was there,   *)
(* while it is on a loop that goes on.                                     *)
CancelInv ==
    /\ \A c \in cancelled : caller[c] = "left"
    /\ \A g \in Loops : \A c \in Blocked :
        Places(calledSoon[g], CancelOf(c)) # {} => caller[c] = "left"
    /\ \A c \in Blocked :
        caller[c] = "left" /\ c \notin early =>
            /\ pump[c] # "none"
            /\ pump[c] \in {"born", "running"} /\ loopPc[mine[c]] = "running" =>
                    c \in cancelled \/ Places(calledSoon[mine[c]], CancelOf(c)) # {}

(* What is in the queue continues what was heard; a sentinel is the last,  *)
(* says nothing is wrong only behind all frames, and speaks of a           *)
(* cancellation only to nobody.                                            *)
InBox(c, k) ==
    \/ outBox[c][k] = <<"frame", Len(heardSync[c]) + k>>
    \/ /\ outBox[c][k][1] = "sentinel"
       /\ k = Len(outBox[c]) /\ pump[c] = "done"
       /\ outBox[c][k][2] = "none" => Len(heardSync[c]) + k - 1 = wanted[c]
       /\ outBox[c][k][2] = "cancelled" => caller[c] = "left"

BoxInv ==
    \A c \in Blocked :
        /\ \A k \in DOMAIN heardSync[c] : heardSync[c][k] = k
        /\ \A k \in DOMAIN outBox[c] : InBox(c, k)
        /\ pump[c] \in {"none", "born"} => heardSync[c] = <<>> /\ outBox[c] = <<>>
        /\ caller[c] = "ended" => Len(heardSync[c]) = wanted[c]

(* The pumps that have entered the engine are on the loop it is bound to.  *)
OneLoop == \A c \in Blocked : pump[c] = "running" => mine[c] = owner

BridgeInv == TypeInv /\ LoopInv /\ StartInv /\ CancelInv /\ BoxInv /\ OneLoop

-----------------------------------------------------------------------------
(* Lemmas about the queues.                                                *)

(* The callbacks are told apart by what they are and whom they are       *)
(* about.                                                                *)
LEMMA CallbackFacts ==
  /\ \A c \in Blocked : StartOf(c) \in Callback /\ CancelOf(c) \in Callback
  /\ \A c, d \in Blocked : /\ StartOf(c) # CancelOf(d)
                           /\ StartOf(c) = StartOf(d) => c = d
                           /\ CancelOf(c) = CancelOf(d) => c = d
  /\ \A what \in {"teardown", "stop"} :
         /\ <<what, 0>> \in Callback
         /\ \A c \in Blocked : <<what, 0>> \notin {StartOf(c), CancelOf(c)}
  /\ \A x \in Callback : /\ x[1] = "start" => x[2] \in Blocked /\ x = StartOf(x[2])
                         /\ x[1] = "cancel" => x[2] \in Blocked /\ x = CancelOf(x[2])
  BY DEF Callback, StartOf, CancelOf

(* A queue with x put behind it: only the places of x change.            *)
LEMMA AppendPlaces ==
  ASSUME NEW S, NEW q \in Seq(S), NEW x \in S
  PROVE  /\ \A y : y # x => Places(Append(q, x), y) = Places(q, y)
         /\ Places(Append(q, x), x) # {}
         /\ Places(q, x) = {} => AtMostOne(Places(Append(q, x), x))
  <1> DEFINE r == Append(q, x)
             n == Len(q) + 1
  <1>1. /\ DOMAIN r = DOMAIN q \cup {n} /\ n \notin DOMAIN q
        /\ \A k \in DOMAIN q : r[k] = q[k]
        /\ r[n] = x
    OBVIOUS
  <1> HIDE DEF n, r
  <1>2. \A y : y # x => Places(r, y) = Places(q, y)
    BY <1>1 DEF Places
  <1>3. n \in Places(r, x) /\ (Places(q, x) = {} => Places(r, x) = {n})
    BY <1>1 DEF Places
  <1> QED  BY <1>2, <1>3 DEF AtMostOne, r

(* A queue without its head: only the head can have lost its last place. *)
LEMMA TailPlaces ==
  ASSUME NEW S, NEW q \in Seq(S), q # <<>>
  PROVE  /\ Head(q) \in S
         /\ \A y : /\ y # Head(q) => (Places(Tail(q), y) # {} <=> Places(q, y) # {})
                   /\ Places(Tail(q), y) # {} => Places(q, y) # {}
                   /\ AtMostOne(Places(q, y)) => AtMostOne(Places(Tail(q), y))
         /\ Places(q, Head(q)) # {}
         /\ AtMostOne(Places(q, Head(q))) => Places(Tail(q), Head(q)) = {}
  <1> DEFINE r == Tail(q)
  <1>1. /\ Len(q) \in Nat \ {0} /\ DOMAIN q = 1 .. Len(q)
        /\ DOMAIN r = 1 .. Len(q) - 1
        /\ \A k \in 1 .. Len(q) - 1 : r[k] = q[k + 1]
        /\ Head(q) = q[1] /\ Head(q) \in S
    OBVIOUS
  <1> HIDE DEF r
  <1>2. ASSUME NEW y
        PROVE  /\ \A k \in Places(r, y) : k + 1 \in Places(q, y) /\ k + 1 # 1 /\ k \in Int
               /\ \A k \in Places(q, y) : k # 1 => k - 1 \in Places(r, y)
               /\ 1 \in Places(q, y) <=> Head(q) = y
    BY <1>1 DEF Places
  <1>3. ASSUME NEW y, AtMostOne(Places(q, y)) PROVE AtMostOne(Places(r, y))
    <2>1. ASSUME NEW k \in Places(r, y), NEW l \in Places(r, y) PROVE k = l
      <3>1. k + 1 = l + 1 /\ k \in Int /\ l \in Int
        BY <1>2, <1>3 DEF AtMostOne
      <3> QED  BY <3>1
    <2> QED  BY <2>1 DEF AtMostOne
  <1>4. AtMostOne(Places(q, Head(q))) => Places(r, Head(q)) = {}
    BY <1>2 DEF AtMostOne
  <1> QED  BY <1>1, <1>2, <1>3, <1>4 DEF r

(* call_soon_threadsafe: the callback goes behind the others.              *)
LEMMA SoonFacts ==
  ASSUME calledSoon \in [Loops -> Seq(Callback)], NEW g \in Loops, NEW x \in Callback,
         CallSoon(g, x)
  PROVE  /\ \A h \in Loops : \A y : h # g \/ y # x =>
                Places(calledSoon'[h], y) = Places(calledSoon[h], y)
         /\ Places(calledSoon'[g], x) # {}
         /\ Places(calledSoon[g], x) = {} => AtMostOne(Places(calledSoon'[g], x))
  <1>1. /\ calledSoon[g] \in Seq(Callback) /\ calledSoon'[g] = Append(calledSoon[g], x)
        /\ \A h \in Loops : h # g => calledSoon'[h] = calledSoon[h]
    BY DEF CallSoon
  <1>2. /\ \A y : y # x => Places(calledSoon'[g], y) = Places(calledSoon[g], y)
        /\ Places(calledSoon'[g], x) # {}
        /\ Places(calledSoon[g], x) = {} => AtMostOne(Places(calledSoon'[g], x))
    BY <1>1, AppendPlaces
  <1> QED  BY <1>1, <1>2

(* A callback is run: the others move up.                                  *)
LEMMA NextFacts ==
  ASSUME calledSoon \in [Loops -> Seq(Callback)], NEW g \in Loops, calledSoon[g] # <<>>,
         calledSoon' = [calledSoon EXCEPT ![g] = Tail(@)]
  PROVE  /\ Head(calledSoon[g]) \in Callback
         /\ \A h \in Loops : \A y :
                /\ h # g \/ y # Head(calledSoon[g]) =>
                       (Places(calledSoon'[h], y) # {} <=> Places(calledSoon[h], y) # {})
                /\ Places(calledSoon'[h], y) # {} => Places(calledSoon[h], y) # {}
                /\ AtMostOne(Places(calledSoon[h], y)) => AtMostOne(Places(calledSoon'[h], y))
         /\ Places(calledSoon[g], Head(calledSoon[g])) # {}
         /\ AtMostOne(Places(calledSoon[g], Head(calledSoon[g]))) =>
                Places(calledSoon'[g], Head(calledSoon[g])) = {}
  <1>1. /\ calledSoon[g] \in Seq(Callback) /\ calledSoon'[g] = Tail(calledSoon[g])
        /\ \A h \in Loops : h # g => calledSoon'[h] = calledSoon[h]
    OBVIOUS
  <1> DEFINE q == calledSoon[g]
  <1>2. /\ Head(q) \in Callback
        /\ \A y : /\ y # Head(q) => (Places(Tail(q), y) # {} <=> Places(q, y) # {})
                  /\ Places(Tail(q), y) # {} => Places(q, y) # {}
                  /\ AtMostOne(Places(q, y)) => AtMostOne(Places(Tail(q), y))
        /\ Places(q, Head(q)) # {}
        /\ AtMostOne(Places(q, Head(q))) => Places(Tail(q), Head(q)) = {}
    BY <1>1, TailPlaces
  <1>3. ASSUME NEW h \in Loops, NEW y
        PROVE  /\ h # g \/ y # Head(q) =>
                      (Places(calledSoon'[h], y) # {} <=> Places(calledSoon[h], y) # {})
               /\ Places(calledSoon'[h], y) # {} => Places(calledSoon[h], y) # {}
               /\ AtMostOne(Places(calledSoon[h], y)) => AtMostOne(Places(calledSoon'[h], y))
    <2>1. CASE h = g
      BY <1>1, <1>2, <2>1
    <2>2. CASE h # g
      BY <1>1, <2>2
    <2> QED  BY <2>1, <2>2
  <1> QED  BY <1>1, <1>2, <1>3

-----------------------------------------------------------------------------
(* Types.                                                                  *)

(* A callback that is put in a queue leaves the queues of their type.    *)
LEMMA SoonType ==
  ASSUME calledSoon \in [Loops -> Seq(Callback)], NEW g, NEW x \in Callback, CallSoon(g, x)
  PROVE  calledSoon' \in [Loops -> Seq(Callback)]
  <1>1. \A h \in Loops : /\ calledSoon[h] \in Seq(Callback)
                         /\ Append(calledSoon[h], x) \in Seq(Callback)
    OBVIOUS
  <1> QED  BY <1>1 DEF CallSoon

(* Every step keeps the variables of their types.                        *)
LEMMA TypeStep == TypeInv /\ [BridgeNext]_bridgeVars => TypeInv'
  <1> SUFFICES ASSUME TypeInv, [BridgeNext]_bridgeVars PROVE TypeInv'
    OBVIOUS
  <1> USE DEF TypeInv
  <1> DEFINE CalledType == calledSoon' \in [Loops -> Seq(Callback)]
             CallerType == caller' \in [Blocked -> CallerPcs]
             PumpType == pump' \in [Blocked -> PumpPcs]
             LoopType == loopPc' \in [Loops -> LoopPcs]
             BoxType == outBox' \in [Blocked -> Seq(Item)]
  <1>1. ASSUME NEW c \in Blocked, EnsureLoop(c) PROVE TypeInv'
    <2>1. CallerType /\ LoopType
      BY <1>1 DEF EnsureLoop, CallerPcs, LoopPcs
    <2>2. mine' \in [Blocked -> {NoLoop} \cup Loops] /\ loopOf' \in {NoLoop} \cup Loops
      BY <1>1, ZenonT(40) DEF EnsureLoop
    <2> QED  BY <1>1, <2>1, <2>2 DEF EnsureLoop, ownerVars, shutVars
  <1>2. ASSUME NEW c \in Blocked, StartPump(c) PROVE TypeInv'
    <2>1. CallerType
      BY <1>2 DEF StartPump, CallerPcs
    <2>2. CalledType
      BY <1>2, SoonType DEF StartPump, Callback
    <2> QED  BY <1>2, <2>1, <2>2 DEF StartPump, ownerVars, shutVars
  <1>3. ASSUME NEW c \in Blocked, TakeItem(c) PROVE TypeInv'
    <2>1. Head(outBox[c]) \in Item /\ Tail(outBox[c]) \in Seq(Item)
      BY <1>3 DEF TakeItem
    <2>2. Head(outBox[c])[1] = "frame" => Head(outBox[c])[2] \in Nat
      BY <2>1 DEF Item
    <2>3. heardSync' \in [Blocked -> Seq(Nat)]
      <3>1. CASE UNCHANGED heardSync
        BY <3>1
      <3>2. CASE /\ Head(outBox[c])[1] = "frame"
                 /\ heardSync' = [heardSync EXCEPT ![c] = Append(@, Head(outBox[c])[2])]
        <4>1. Append(heardSync[c], Head(outBox[c])[2]) \in Seq(Nat)
          BY <2>2, <3>2
        <4> QED  BY <3>2, <4>1
      <3> QED  BY <1>3, <3>1, <3>2 DEF TakeItem
    <2>4. BoxType
      BY <1>3, <2>1 DEF TakeItem
    <2>5. CallerType
      BY <1>3 DEF TakeItem, CallerPcs
    <2> QED  BY <1>3, <2>3, <2>4, <2>5 DEF TakeItem, loopVars, ownerVars, shutVars
  <1>4. ASSUME NEW c \in Blocked, NextFrame(c) PROVE TypeInv'
    <2>1. CallerType
      BY <1>4 DEF NextFrame, CallerPcs
    <2> QED  BY <1>4, <2>1 DEF NextFrame, loopVars, ownerVars, shutVars
  <1>5. ASSUME NEW c \in Blocked, CloseSync(c) \/ Interrupt(c) PROVE TypeInv'
    <2>1. LeaveRun(c)
      BY <1>5 DEF CloseSync, Interrupt
    <2>2. CallerType
      BY <2>1 DEF LeaveRun, CallerPcs
    <2>3. CalledType
      BY <2>1, SoonType DEF LeaveRun, Callback
    <2>4. early' \subseteq Blocked
      BY <1>5 DEF CloseSync, Interrupt
    <2> QED  BY <1>5, <2>2, <2>3, <2>4 DEF CloseSync, Interrupt, ownerVars, shutVars
  <1>6. ASSUME NEW c \in Blocked, NEW v \in {"none", "error", "cancelled"}, FinishPump(c, v)
        PROVE  BoxType /\ PumpType /\ cancelled' \subseteq Blocked
    <2>1. <<"sentinel", v>> \in Item
      BY DEF Item
    <2>2. BoxType
      BY <1>6, <2>1 DEF FinishPump
    <2>3. PumpType /\ cancelled' \subseteq Blocked
      BY <1>6 DEF FinishPump, PumpPcs
    <2> QED  BY <2>2, <2>3
  <1>7. ASSUME NEW c \in Blocked, BeginPump(c) PROVE TypeInv'
    <2>1. BoxType /\ PumpType /\ cancelled' \subseteq Blocked
      <3>1. CASE \E v \in {"none", "error", "cancelled"} : FinishPump(c, v)
        BY <1>6, <3>1
      <3>2. CASE /\ outBox' = outBox
                 /\ pump' \in {[pump EXCEPT ![c] = x] : x \in {"running", "done"}}
                 /\ cancelled' \subseteq cancelled
        BY <3>2 DEF PumpPcs
      <3> QED  BY <1>7, <3>1, <3>2 DEF BeginPump, Verdict
    <2>2. owner' \in {NoLoop, AppLoop} \cup Loops
      BY <1>7 DEF BeginPump
    <2> QED  BY <1>7, <2>1, <2>2 DEF BeginPump, loopVars, shutVars
  <1>8. ASSUME NEW c \in Blocked, PumpStep(c) PROVE TypeInv'
    <2>1. BoxType /\ PumpType /\ cancelled' \subseteq Blocked
      <3>1. CASE \E v \in {"none", "error", "cancelled"} : FinishPump(c, v)
        BY <1>6, <3>1
      <3>2. CASE /\ outBox' = [outBox EXCEPT ![c] = Append(@, <<"frame", Put(c) + 1>>)]
                 /\ UNCHANGED <<pump, cancelled>>
        <4>1. <<"frame", Put(c) + 1>> \in Item
          BY DEF Item, Put
        <4> QED  BY <3>2, <4>1
      <3> QED  BY <1>8, <3>1, <3>2 DEF PumpStep, Verdict
    <2> QED  BY <1>8, <2>1 DEF PumpStep, loopVars, shutVars
  <1>9. ASSUME NEW g \in Loops, RunCallback(g) PROVE TypeInv'
    <2>1. CalledType /\ Head(calledSoon[g]) \in Callback
      BY <1>9, NextFacts DEF RunCallback
    <2>2. Head(calledSoon[g])[1] \in {"start", "cancel"} => Head(calledSoon[g])[2] \in Blocked
      BY <2>1 DEF Callback
    <2>3. PumpType /\ LoopType /\ cancelled' \subseteq Blocked
      BY <1>9, <2>2 DEF RunCallback, PumpPcs, LoopPcs
    <2> QED  BY <1>9, <2>1, <2>3 DEF RunCallback, ownerVars
  <1>10. ASSUME NEW g \in Loops, LoopExits(g) PROVE TypeInv'
    <2>1. LoopType
      BY <1>10 DEF LoopExits, LoopPcs
    <2> QED  BY <1>10, <2>1 DEF LoopExits, syncVars, ownerVars, shutVars
  <1>11. CASE StreamOnApp
    BY <1>11 DEF StreamOnApp, syncVars, loopVars, shutVars
  <1>12. CASE CallShutdown
    <2>1. CalledType
      BY <1>12, SoonType DEF CallShutdown, Callback
    <2> QED  BY <1>12, <2>1 DEF CallShutdown, syncVars, ownerVars
  <1>13. CASE TeardownDone
    BY <1>13 DEF TeardownDone, syncVars, loopVars, ownerVars
  <1>14. CASE TakeLoop
    <2>1. CalledType
      BY <1>14, SoonType DEF TakeLoop, Callback
    <2> QED  BY <1>14, <2>1 DEF TakeLoop, syncVars, ownerVars
  <1>15. CASE JoinLoop
    <2>1. LoopType
      BY <1>15 DEF JoinLoop, LoopPcs
    <2> QED  BY <1>15, <2>1 DEF JoinLoop, syncVars, ownerVars
  <1>16. CASE UNCHANGED bridgeVars
    BY <1>16 DEF bridgeVars, syncVars, loopVars, ownerVars, shutVars
  <1> QED
    BY <1>1, <1>2, <1>3, <1>4, <1>5, <1>7, <1>8, <1>9, <1>10, <1>11, <1>12, <1>13, <1>14,
       <1>15, <1>16
    DEF BridgeNext, StreamSync

-----------------------------------------------------------------------------
(* The loops, and the requests for a pump.                                 *)

(* A loop that was made stays made, and a caller keeps the one it took.  *)
LEMMA LoopStep == TypeInv /\ LoopInv /\ [BridgeNext]_bridgeVars => LoopInv'
  <1> SUFFICES ASSUME TypeInv, LoopInv, [BridgeNext]_bridgeVars PROVE LoopInv'
    OBVIOUS
  <1> USE DEF TypeInv, LoopInv
  <1>1. ASSUME NEW c \in Blocked, EnsureLoop(c) PROVE LoopInv'
    <2>1. CASE loopOf # NoLoop
      BY <1>1, <2>1 DEF EnsureLoop
    <2>2. CASE loopOf = NoLoop
      <3>1. PICK g \in Loops : /\ loopPc[g] = "none" /\ loopOf' = g
                               /\ loopPc' = [loopPc EXCEPT ![g] = "running"]
                               /\ mine' = [mine EXCEPT ![c] = g]
        BY <1>1, <2>2 DEF EnsureLoop
      <3> QED  BY <1>1, <3>1 DEF EnsureLoop
    <2> QED  BY <2>1, <2>2
  <1>2. ASSUME NEW c \in Blocked, caller[c] # "new", UNCHANGED <<mine, loopOf, loopPc>>,
               \A d \in Blocked : d # c => caller'[d] = caller[d]
        PROVE  LoopInv'
    BY <1>2
  <1>3. ASSUME NEW c \in Blocked,
               \/ StartPump(c) \/ TakeItem(c) \/ NextFrame(c) \/ CloseSync(c) \/ Interrupt(c)
        PROVE  LoopInv'
    <2>1. caller[c] # "new" /\ UNCHANGED <<mine, loopOf, loopPc>>
      BY <1>3 DEF StartPump, TakeItem, NextFrame, CloseSync, Interrupt, loopVars
    <2>2. \A d \in Blocked : d # c => caller'[d] = caller[d]
      BY <1>3 DEF StartPump, TakeItem, NextFrame, CloseSync, Interrupt, LeaveRun
    <2> QED  BY <1>2, <2>1, <2>2
  <1>4. ASSUME UNCHANGED <<caller, mine>>, loopOf' \in {loopOf, NoLoop},
               \A g \in Loops : loopPc'[g] = "none" => loopPc[g] = "none"
        PROVE  LoopInv'
    BY <1>4
  <1>5. ASSUME NEW c \in Blocked, BeginPump(c) \/ PumpStep(c) PROVE LoopInv'
    BY <1>4, <1>5 DEF BeginPump, PumpStep, loopVars
  <1>6. ASSUME NEW g \in Loops, RunCallback(g) \/ LoopExits(g) PROVE LoopInv'
    BY <1>4, <1>6 DEF RunCallback, LoopExits, syncVars
  <1>7. CASE StreamOnApp \/ CallShutdown \/ TeardownDone \/ TakeLoop \/ UNCHANGED bridgeVars
    BY <1>4, <1>7 DEF StreamOnApp, CallShutdown, TeardownDone, TakeLoop, bridgeVars,
                         syncVars, loopVars
  <1>8. CASE JoinLoop
    BY <1>4, <1>8 DEF JoinLoop, syncVars
  <1> QED  BY <1>1, <1>3, <1>5, <1>6, <1>7, <1>8 DEF BridgeNext, StreamSync

(* What keeps the requests for a pump as they are: the queues hold the same  *)
(* ones, and the pumps that are not there yet stay away.                       *)
LEMMA SameStart ==
  ASSUME StartOnce,
         \A g \in Loops : \A c \in Blocked :
             Places(calledSoon'[g], StartOf(c)) = Places(calledSoon[g], StartOf(c)),
         \A c \in Blocked : pump[c] = "none" /\ caller[c] \notin {"new", "bound"} =>
             pump'[c] = "none" /\ mine'[c] = mine[c] /\ caller'[c] \notin {"new", "bound"}
  PROVE  StartOnce'
  BY DEF StartOnce

(* Every step keeps the request for a pump single, and before its pump.  *)
LEMMA StartStep ==
  TypeInv /\ LoopInv /\ StartInv /\ BoxInv /\ [BridgeNext]_bridgeVars => StartInv'
  <1> SUFFICES ASSUME TypeInv, LoopInv, StartInv, BoxInv, [BridgeNext]_bridgeVars PROVE StartInv'
    OBVIOUS
  <1> USE DEF TypeInv, StartInv
  <1>1. ASSUME NEW c \in Blocked, EnsureLoop(c) PROVE StartInv'
    <2>1. /\ caller[c] = "new" /\ caller' = [caller EXCEPT ![c] = "bound"]
          /\ \A d \in Blocked : d # c => mine'[d] = mine[d]
          /\ UNCHANGED <<calledSoon, pump>>
      BY <1>1 DEF EnsureLoop
    <2>2. StartOnce'
      BY <2>1, SameStart
    <2> QED  BY <2>1, <2>2 DEF StartLate
  <1>2. ASSUME NEW c \in Blocked, StartPump(c) PROVE StartInv'
    <2>1. caller[c] = "bound" /\ mine[c] \in Loops /\ pump[c] = "none" /\ UNCHANGED <<mine, pump>>
      BY <1>2 DEF StartPump, LoopInv, StartLate
    <2>2. CASE caller' = [caller EXCEPT ![c] = "raised"] /\ UNCHANGED calledSoon
      BY <2>1, <2>2, SameStart DEF StartLate
    <2>3. CASE caller' = [caller EXCEPT ![c] = "wait"] /\ CallSoon(mine[c], StartOf(c))
      <3>1. \A g \in Loops : Places(calledSoon[g], StartOf(c)) = {}
        BY <2>1 DEF StartOnce
      <3>2. /\ \A g \in Loops : \A y : g # mine[c] \/ y # StartOf(c) =>
                   Places(calledSoon'[g], y) = Places(calledSoon[g], y)
            /\ AtMostOne(Places(calledSoon'[mine[c]], StartOf(c)))
        BY <2>1, <2>3, <3>1, CallbackFacts, SoonFacts
      <3>3. StartOnce'
        BY <2>1, <2>3, <3>1, <3>2, CallbackFacts DEF StartOnce
      <3> QED  BY <2>1, <2>3, <3>3 DEF StartLate
    <2> QED  BY <1>2, <2>2, <2>3 DEF StartPump, StartOf
  <1>3. ASSUME NEW c \in Blocked, TakeItem(c) PROVE StartInv'
    <2>1. /\ caller[c] = "wait" /\ outBox[c] # <<>> /\ UNCHANGED <<calledSoon, mine, pump>>
          /\ \E pc \in {"yielded", "raised", "ended"} : caller' = [caller EXCEPT ![c] = pc]
      BY <1>3 DEF TakeItem, loopVars
    <2>2. pump[c] \in {"running", "done"}
      BY <2>1 DEF BoxInv, PumpPcs
    <2> QED  BY <2>1, <2>2, SameStart DEF StartLate
  <1>4. ASSUME NEW c \in Blocked, NextFrame(c) PROVE StartInv'
    <2>1. /\ caller[c] = "yielded" /\ UNCHANGED <<calledSoon, mine, pump>>
          /\ caller' = [caller EXCEPT ![c] = "wait"]
      BY <1>4 DEF NextFrame, loopVars
    <2> QED  BY <2>1, SameStart DEF StartLate
  <1>5. ASSUME NEW c \in Blocked, CloseSync(c) \/ Interrupt(c) PROVE StartInv'
    <2>1. caller[c] \in {"yielded", "wait"} /\ LeaveRun(c) /\ UNCHANGED <<mine, pump>>
      BY <1>5 DEF CloseSync, Interrupt
    <2>2. \E pc \in {"left", "raised"} : caller' = [caller EXCEPT ![c] = pc]
      BY <2>1 DEF LeaveRun
    <2>3. UNCHANGED calledSoon \/ CallSoon(mine[c], CancelOf(c))
      BY <2>1 DEF LeaveRun, CancelOf
    <2>4. \A g \in Loops : \A d \in Blocked :
              Places(calledSoon'[g], StartOf(d)) = Places(calledSoon[g], StartOf(d))
      <3>1. CASE CallSoon(mine[c], CancelOf(c))
        <4>1. CancelOf(c) \in Callback /\ \A d \in Blocked : StartOf(d) # CancelOf(c)
          BY CallbackFacts
        <4>2. mine[c] \in Loops
          BY <2>1 DEF LoopInv
        <4>3. \A g \in Loops : \A y : g # mine[c] \/ y # CancelOf(c) =>
                  Places(calledSoon'[g], y) = Places(calledSoon[g], y)
          BY <3>1, <4>1, <4>2, SoonFacts
        <4> QED  BY <4>1, <4>3
      <3> QED  BY <2>3, <3>1
    <2>5. StartOnce'
      BY <2>1, <2>2, <2>4, SameStart
    <2> QED  BY <2>1, <2>2, <2>5 DEF StartLate
  <1>6. ASSUME NEW c \in Blocked, BeginPump(c) \/ PumpStep(c) PROVE StartInv'
    <2>1. /\ pump[c] \in {"born", "running"} /\ UNCHANGED <<calledSoon, mine, caller>>
          /\ \E pc \in {pump[c], "running", "done"} : pump' = [pump EXCEPT ![c] = pc]
      BY <1>6 DEF BeginPump, PumpStep, FinishPump, loopVars
    <2> QED  BY <2>1, SameStart DEF StartLate
  <1>7. ASSUME NEW g \in Loops, RunCallback(g) PROVE StartInv'
    <2> DEFINE x == Head(calledSoon[g])
    <2>1. /\ calledSoon[g] # <<>> /\ calledSoon' = [calledSoon EXCEPT ![g] = Tail(@)]
          /\ UNCHANGED <<mine, caller>>
      BY <1>7 DEF RunCallback
    <2>2. UNCHANGED pump \/ (x[1] = "start" /\ pump' = [pump EXCEPT ![x[2]] = "born"])
      BY <1>7 DEF RunCallback
    <2>3. /\ x \in Callback
          /\ \A h \in Loops : \A y :
                /\ Places(calledSoon'[h], y) # {} => Places(calledSoon[h], y) # {}
                /\ AtMostOne(Places(calledSoon[h], y)) => AtMostOne(Places(calledSoon'[h], y))
          /\ Places(calledSoon[g], x) # {}
          /\ AtMostOne(Places(calledSoon[g], x)) => Places(calledSoon'[g], x) = {}
      BY <2>1, NextFacts
    <2> HIDE DEF x
    <2>4. CASE UNCHANGED pump
      <3>1. StartOnce'
        BY <2>1, <2>3, <2>4 DEF StartOnce
      <3> QED  BY <2>1, <2>4, <3>1 DEF StartLate
    <2>5. CASE x[1] = "start" /\ pump' = [pump EXCEPT ![x[2]] = "born"]
      <3>1. PICK c \in Blocked : x = StartOf(c) /\ pump' = [pump EXCEPT ![c] = "born"]
        BY <2>3, <2>5, CallbackFacts
      <3>2. /\ g = mine[c] /\ caller[c] \notin {"new", "bound"} /\ pump[c] = "none"
            /\ AtMostOne(Places(calledSoon[g], StartOf(c)))
        BY <2>3, <3>1 DEF StartOnce
      <3>3. \A h \in Loops : Places(calledSoon'[h], StartOf(c)) = {}
        BY <2>3, <3>1, <3>2 DEF StartOnce
      <3>4. ASSUME NEW h \in Loops, NEW d \in Blocked, Places(calledSoon'[h], StartOf(d)) # {}
            PROVE  h = mine'[d] /\ caller'[d] \notin {"new", "bound"} /\ pump'[d] = "none"
        <4>1. Places(calledSoon[h], StartOf(d)) # {} /\ d # c
          BY <2>3, <3>3, <3>4
        <4>2. h = mine[d] /\ caller[d] \notin {"new", "bound"} /\ pump[d] = "none"
          BY <4>1 DEF StartOnce
        <4> QED  BY <2>1, <3>1, <4>1, <4>2
      <3>5. \A h \in Loops : \A d \in Blocked : AtMostOne(Places(calledSoon'[h], StartOf(d)))
        BY <2>3 DEF StartOnce
      <3>6. StartOnce'
        BY <3>4, <3>5 DEF StartOnce
      <3> QED  BY <2>1, <3>1, <3>2, <3>6 DEF StartLate
    <2> QED  BY <2>2, <2>4, <2>5
  <1>8. ASSUME NEW g \in Loops, LoopExits(g) PROVE StartInv'
    BY <1>8, SameStart DEF LoopExits, syncVars, StartLate
  <1>9. CASE StreamOnApp \/ TeardownDone \/ JoinLoop \/ UNCHANGED bridgeVars
    <2>1. UNCHANGED <<calledSoon, mine, caller, pump>>
      BY <1>9 DEF StreamOnApp, TeardownDone, JoinLoop, bridgeVars, syncVars, loopVars
    <2> QED  BY <2>1, SameStart DEF StartLate
  <1>10. CASE CallShutdown \/ TakeLoop
    <2>1. UNCHANGED <<caller, mine, pump>>
      BY <1>10 DEF CallShutdown, TakeLoop, syncVars
    <2>2. \/ UNCHANGED calledSoon
          \/ loopOf \in Loops /\ \E what \in {"teardown", "stop"} : CallSoon(loopOf, <<what, 0>>)
      BY <1>10 DEF CallShutdown, TakeLoop
    <2>3. \A g \in Loops : \A d \in Blocked :
              Places(calledSoon'[g], StartOf(d)) = Places(calledSoon[g], StartOf(d))
      BY <2>2, CallbackFacts, SoonFacts
    <2> QED  BY <2>1, <2>3, SameStart DEF StartLate
  <1> QED
    BY <1>1, <1>2, <1>3, <1>4, <1>5, <1>6, <1>7, <1>8, <1>9, <1>10 DEF BridgeNext, StreamSync

-----------------------------------------------------------------------------
(* Cancellations.                                                          *)

(* What keeps them: who left, who is cancelled and the cancellations in    *)
(* the queues stay, pumps at most end and loops at most stop.              *)
LEMMA SameCancel ==
  ASSUME CancelInv, UNCHANGED <<cancelled, early>>,
         \A g \in Loops : \A c \in Blocked :
             Places(calledSoon'[g], CancelOf(c)) = Places(calledSoon[g], CancelOf(c)),
         \A c \in Blocked :
             /\ caller'[c] = "left" <=> caller[c] = "left"
             /\ caller[c] = "left" =>
                    /\ mine'[c] = mine[c] /\ mine[c] \in Loops /\ pump'[c] = pump[c]
                    /\ loopPc'[mine[c]] = "running" => loopPc[mine[c]] = "running",
         cancelled \subseteq Blocked
  PROVE  CancelInv'
  BY DEF CancelInv

(* Every step keeps the cancellations of the pumps nobody listens to.    *)
LEMMA CancelStep ==
  TypeInv /\ LoopInv /\ StartInv /\ CancelInv /\ [BridgeNext]_bridgeVars => CancelInv'
  <1> SUFFICES ASSUME TypeInv, LoopInv, StartInv, CancelInv, [BridgeNext]_bridgeVars
               PROVE  CancelInv'
    OBVIOUS
  <1> USE DEF TypeInv
  <1>0. \A c \in Blocked : caller[c] # "new" => mine[c] \in Loops /\ loopPc[mine[c]] # "none"
    BY DEF LoopInv
  <1>1. ASSUME NEW c \in Blocked, EnsureLoop(c) PROVE CancelInv'
    <2>1. /\ caller[c] = "new" /\ caller' = [caller EXCEPT ![c] = "bound"]
          /\ UNCHANGED <<calledSoon, pump, cancelled, early>>
          /\ \A d \in Blocked : d # c => mine'[d] = mine[d]
          /\ \A g \in Loops : loopPc[g] # "none" => loopPc'[g] = loopPc[g]
      BY <1>1 DEF EnsureLoop
    <2> QED  BY <2>1, <1>0, SameCancel
  <1>2. ASSUME NEW c \in Blocked, StartPump(c) PROVE CancelInv'
    <2>1. /\ caller[c] = "bound" /\ mine[c] \in Loops
          /\ UNCHANGED <<mine, pump, cancelled, early, loopPc>>
          /\ \E pc \in {"raised", "wait"} : caller' = [caller EXCEPT ![c] = pc]
          /\ UNCHANGED calledSoon \/ CallSoon(mine[c], StartOf(c))
      BY <1>2, <1>0 DEF StartPump, StartOf
    <2>2. \A g \in Loops : \A d \in Blocked :
              Places(calledSoon'[g], CancelOf(d)) = Places(calledSoon[g], CancelOf(d))
      <3>1. CASE CallSoon(mine[c], StartOf(c))
        <4>1. StartOf(c) \in Callback /\ \A d \in Blocked : CancelOf(d) # StartOf(c)
          BY CallbackFacts
        <4>2. \A g \in Loops : \A y : g # mine[c] \/ y # StartOf(c) =>
                  Places(calledSoon'[g], y) = Places(calledSoon[g], y)
          BY <3>1, <4>1, <2>1, SoonFacts
        <4> QED  BY <4>1, <4>2
      <3> QED  BY <2>1, <3>1
    <2> QED  BY <2>1, <2>2, <1>0, SameCancel
  <1>3. ASSUME NEW c \in Blocked, TakeItem(c) \/ NextFrame(c) PROVE CancelInv'
    <2>1. /\ caller[c] \in {"wait", "yielded"}
          /\ UNCHANGED <<mine, pump, cancelled, early, loopPc, calledSoon>>
          /\ \E pc \in {"raised", "wait", "ended", "yielded"} : caller' = [caller EXCEPT ![c] = pc]
      BY <1>3 DEF TakeItem, NextFrame, loopVars
    <2> QED  BY <2>1, <1>0, SameCancel
  <1>4. ASSUME NEW c \in Blocked, CloseSync(c) \/ Interrupt(c) PROVE CancelInv'
    <2>1. /\ caller[c] \in {"yielded", "wait"} /\ LeaveRun(c)
          /\ UNCHANGED <<mine, pump, cancelled, loopPc>> /\ mine[c] \in Loops
      BY <1>4, <1>0 DEF CloseSync, Interrupt
    <2>2. /\ early \subseteq early' /\ early' \subseteq early \cup {c}
          /\ pump[c] = "none" => c \in early'
      BY <1>4 DEF CloseSync, Interrupt, StartInv, StartLate
    <2>3. CASE ~InFlight(c) /\ caller' = [caller EXCEPT ![c] = "left"] /\ UNCHANGED calledSoon
      BY <2>1, <2>2, <2>3 DEF CancelInv, InFlight
    <2>4. CASE caller' = [caller EXCEPT ![c] = "raised"] /\ UNCHANGED calledSoon
      BY <2>1, <2>2, <2>4 DEF CancelInv
    <2>5. CASE /\ InFlight(c) /\ caller' = [caller EXCEPT ![c] = "left"]
               /\ CallSoon(mine[c], CancelOf(c))
      <3>1. CancelOf(c) \in Callback /\ \A d \in Blocked : d # c => CancelOf(d) # CancelOf(c)
        BY CallbackFacts
      <3>2. /\ \A g \in Loops : \A y : g # mine[c] \/ y # CancelOf(c) =>
                  Places(calledSoon'[g], y) = Places(calledSoon[g], y)
            /\ Places(calledSoon'[mine[c]], CancelOf(c)) # {}
        BY <3>1, <2>1, <2>5, SoonFacts, ZenonT(40)
      <3>3. \A g \in Loops : \A d \in Blocked : d # c =>
                Places(calledSoon'[g], CancelOf(d)) = Places(calledSoon[g], CancelOf(d))
        BY <3>1, <3>2
      <3>4. pump[c] # "none"
        BY <2>5 DEF InFlight
      <3>5. \A d \in Blocked : d # c => caller'[d] = caller[d]
        BY <2>5
      <3>6. caller'[c] = "left"
        BY <2>5
      <3>7. \A d \in cancelled' : caller'[d] = "left"
        BY <2>1, <3>5, <3>6 DEF CancelInv
      <3>8. ASSUME NEW g \in Loops, NEW d \in Blocked, Places(calledSoon'[g], CancelOf(d)) # {}
            PROVE  caller'[d] = "left"
        <4>1. CASE d = c
          BY <3>6, <4>1
        <4>2. CASE d # c
          BY <3>3, <3>5, <3>8, <4>2 DEF CancelInv
        <4> QED  BY <4>1, <4>2
      <3>9. ASSUME NEW d \in Blocked, caller'[d] = "left", d \notin early'
            PROVE  /\ pump'[d] # "none"
                   /\ pump'[d] \in {"born", "running"} /\ loopPc'[mine'[d]] = "running" =>
                        d \in cancelled' \/ Places(calledSoon'[mine'[d]], CancelOf(d)) # {}
        <4>1. CASE d = c
          BY <2>1, <3>2, <3>4, <4>1
        <4>2. CASE d # c
          <5>1. caller[d] = "left" /\ d \notin early /\ mine[d] \in Loops
            BY <1>0, <2>2, <3>5, <3>9, <4>2
          <5>2. Places(calledSoon'[mine[d]], CancelOf(d)) = Places(calledSoon[mine[d]], CancelOf(d))
            BY <3>3, <4>2, <5>1
          <5> QED  BY <2>1, <5>1, <5>2 DEF CancelInv
        <4> QED  BY <4>1, <4>2
      <3> QED  BY <3>7, <3>8, <3>9 DEF CancelInv
    <2> QED  BY <2>1, <2>3, <2>4, <2>5 DEF LeaveRun, CancelOf
  <1>5. ASSUME NEW c \in Blocked, BeginPump(c) \/ PumpStep(c) PROVE CancelInv'
    <2>1. /\ pump[c] \in {"born", "running"}
          /\ UNCHANGED <<caller, mine, early, loopPc, calledSoon>>
          /\ \/ pump' = [pump EXCEPT ![c] = "done"] /\ cancelled' = cancelled \ {c}
             \/ pump' \in {pump, [pump EXCEPT ![c] = "running"]} /\ UNCHANGED cancelled
      BY <1>5 DEF BeginPump, PumpStep, FinishPump, loopVars
    <2> QED  BY <2>1 DEF CancelInv
  <1>6. ASSUME NEW g \in Loops, RunCallback(g) PROVE CancelInv'
    <2> DEFINE x == Head(calledSoon[g])
               Born(d) == pump' = [pump EXCEPT ![d] = "born"] /\ UNCHANGED cancelled
               Cancelling(d) ==
                   /\ cancelled' = IF pump[d] = "done" THEN cancelled ELSE cancelled \cup {d}
                   /\ UNCHANGED pump
    <2>1. /\ calledSoon[g] # <<>> /\ calledSoon' = [calledSoon EXCEPT ![g] = Tail(@)]
          /\ UNCHANGED <<mine, caller, early>>
          /\ loopPc' \in {loopPc, [loopPc EXCEPT ![g] = "stopping"]}
      BY <1>6 DEF RunCallback
    <2>2. \/ x[1] = "start" /\ Born(x[2])
          \/ x[1] = "cancel" /\ Cancelling(x[2])
          \/ x[1] \in {"teardown", "stop"} /\ UNCHANGED <<pump, cancelled>>
      BY <1>6 DEF RunCallback
    <2>3. /\ x \in Callback /\ Places(calledSoon[g], x) # {}
          /\ \A h \in Loops : \A y :
                /\ h # g \/ y # x =>
                       (Places(calledSoon'[h], y) # {} <=> Places(calledSoon[h], y) # {})
                /\ Places(calledSoon'[h], y) # {} => Places(calledSoon[h], y) # {}
      BY <2>1, NextFacts
    <2> HIDE DEF x, Born, Cancelling
    <2>4. \A h \in Loops : \A d \in Blocked :
              Places(calledSoon'[h], CancelOf(d)) # {} => caller'[d] = "left"
      BY <2>1, <2>3 DEF CancelInv
    <2>5. \A c \in Blocked : caller[c] = "left" =>
              mine[c] \in Loops /\ (loopPc'[mine[c]] = "running" => loopPc[mine[c]] = "running")
      BY <1>0, <2>1
    <2>6. ASSUME \A c \in cancelled' : caller[c] = "left",
                 \A c \in Blocked : caller[c] = "left" /\ c \notin early =>
                     /\ pump'[c] = pump[c]
                     /\ c \in cancelled \/ Places(calledSoon[mine[c]], CancelOf(c)) # {} =>
                           \/ c \in cancelled' \/ pump[c] = "done"
                           \/ Places(calledSoon'[mine[c]], CancelOf(c)) # {}
          PROVE  CancelInv'
      <3>1. ASSUME NEW c \in Blocked, caller'[c] = "left", c \notin early'
            PROVE  /\ pump'[c] # "none"
                   /\ pump'[c] \in {"born", "running"} /\ loopPc'[mine'[c]] = "running" =>
                        c \in cancelled' \/ Places(calledSoon'[mine'[c]], CancelOf(c)) # {}
        <4>1. caller[c] = "left" /\ c \notin early /\ mine'[c] = mine[c]
          BY <2>1, <3>1
        <4>2. /\ pump[c] # "none"
              /\ pump[c] \in {"born", "running"} /\ loopPc[mine[c]] = "running" =>
                    c \in cancelled \/ Places(calledSoon[mine[c]], CancelOf(c)) # {}
          BY <4>1 DEF CancelInv
        <4> QED  BY <2>5, <2>6, <4>1, <4>2
      <3>2. \A c \in cancelled' : caller'[c] = "left"
        BY <2>1, <2>6
      <3> QED  BY <2>4, <3>1, <3>2 DEF CancelInv
    <2>7. \A c \in cancelled : caller[c] = "left"
      BY DEF CancelInv
    <2>8. ASSUME NEW d \in Blocked, x = StartOf(d), Born(d) PROVE CancelInv'
      <3>1. x = StartOf(d) /\ pump' = [pump EXCEPT ![d] = "born"] /\ UNCHANGED cancelled
        BY <2>8 DEF Born
      <3>2. pump[d] = "none" /\ (caller[d] = "left" => d \in early)
        BY <2>3, <3>1 DEF StartInv, StartOnce, CancelInv
      <3>3. \A h \in Loops : \A c \in Blocked :
                Places(calledSoon'[h], CancelOf(c)) # {}
                    <=> Places(calledSoon[h], CancelOf(c)) # {}
        BY <2>3, <3>1, CallbackFacts
      <3>4. \A c \in Blocked : caller[c] = "left" /\ c \notin early => pump'[c] = pump[c]
        BY <3>1, <3>2
      <3> QED  BY <2>5, <2>6, <2>7, <3>1, <3>3, <3>4, ZenonT(40)
    <2>9. ASSUME NEW d \in Blocked, x = CancelOf(d), Cancelling(d) PROVE CancelInv'
      <3>1. /\ x = CancelOf(d) /\ UNCHANGED pump
            /\ cancelled' = IF pump[d] = "done" THEN cancelled ELSE cancelled \cup {d}
        BY <2>9 DEF Cancelling
      <3>2. caller[d] = "left"
        BY <2>3, <3>1 DEF CancelInv
      <3>3. \A h \in Loops : \A c \in Blocked : c # d =>
                (Places(calledSoon'[h], CancelOf(c)) # {}
                    <=> Places(calledSoon[h], CancelOf(c)) # {})
        BY <2>3, <3>1, CallbackFacts
      <3>4. \A c \in cancelled' : caller[c] = "left"
        BY <2>7, <3>1, <3>2
      <3>5. ASSUME NEW c \in Blocked, caller[c] = "left",
                   c \in cancelled \/ Places(calledSoon[mine[c]], CancelOf(c)) # {}
            PROVE  \/ c \in cancelled' \/ pump[c] = "done"
                   \/ Places(calledSoon'[mine[c]], CancelOf(c)) # {}
        BY <2>5, <3>1, <3>3, <3>5
      <3> QED  BY <2>6, <3>1, <3>4, <3>5
    <2>10. CASE x[1] \in {"teardown", "stop"} /\ UNCHANGED <<pump, cancelled>>
      <3>1. \A c \in Blocked : x # CancelOf(c)
        BY <2>10 DEF CancelOf
      <3>2. \A h \in Loops : \A c \in Blocked :
                Places(calledSoon'[h], CancelOf(c)) # {}
                    <=> Places(calledSoon[h], CancelOf(c)) # {}
        BY <2>3, <3>1
      <3> QED  BY <2>10, <2>5, <2>6, <2>7, <3>2
    <2>11. /\ x[1] = "start" => x[2] \in Blocked /\ x = StartOf(x[2])
           /\ x[1] = "cancel" => x[2] \in Blocked /\ x = CancelOf(x[2])
      BY <2>3, CallbackFacts
    <2> QED  BY <2>2, <2>8, <2>9, <2>10, <2>11
  <1>7. ASSUME NEW g \in Loops, LoopExits(g) PROVE CancelInv'
    BY <1>0, <1>7, SameCancel DEF LoopExits, syncVars
  <1>8. CASE StreamOnApp \/ TeardownDone \/ JoinLoop \/ UNCHANGED bridgeVars
    <2>1. /\ UNCHANGED <<calledSoon, mine, caller, pump, cancelled, early>>
          /\ \A g \in Loops : loopPc'[g] = "running" => loopPc[g] = "running"
      BY <1>8 DEF StreamOnApp, TeardownDone, JoinLoop, bridgeVars, syncVars, loopVars
    <2> QED  BY <2>1, <1>0, SameCancel
  <1>9. CASE CallShutdown \/ TakeLoop
    <2>1. UNCHANGED <<caller, mine, pump, cancelled, early, loopPc>>
      BY <1>9 DEF CallShutdown, TakeLoop, syncVars
    <2>2. \/ UNCHANGED calledSoon
          \/ loopOf \in Loops /\ \E what \in {"teardown", "stop"} : CallSoon(loopOf, <<what, 0>>)
      BY <1>9 DEF CallShutdown, TakeLoop
    <2>3. \A g \in Loops : \A d \in Blocked :
              Places(calledSoon'[g], CancelOf(d)) = Places(calledSoon[g], CancelOf(d))
      BY <2>2, CallbackFacts, SoonFacts
    <2> QED  BY <2>1, <2>3, <1>0, SameCancel
  <1> QED
    BY <1>1, <1>2, <1>3, <1>4, <1>5, <1>6, <1>7, <1>8, <1>9 DEF BridgeNext, StreamSync

-----------------------------------------------------------------------------
(* What is heard, and what waits to be heard.                              *)

(* What keeps the boxes as they are: nothing is put or taken, nobody     *)
(* ends, and no pump that ended or was absent changes its mind.          *)
LEMMA SameBox ==
  ASSUME BoxInv, UNCHANGED <<heardSync, outBox, wanted>>,
         \A c \in Blocked :
             /\ caller[c] = "left" => caller'[c] = "left"
             /\ caller'[c] = "ended" => caller[c] = "ended"
             /\ pump[c] = "done" => pump'[c] = "done"
             /\ pump'[c] \in {"none", "born"} => pump[c] \in {"none", "born"}
  PROVE  BoxInv'
  BY DEF BoxInv, InBox

(* A pump puts an item behind the others, which are frames all.            *)
LEMMA PutItem ==
  ASSUME TypeInv, BoxInv, UNCHANGED <<heardSync, wanted, caller>>,
         NEW c \in Blocked, pump[c] \in {"born", "running"}, NEW item \in Item,
         outBox' = [outBox EXCEPT ![c] = Append(@, item)],
         \/ item = <<"frame", Put(c) + 1>> /\ pump[c] = "running" /\ UNCHANGED pump
         \/ /\ item[1] = "sentinel" /\ pump' = [pump EXCEPT ![c] = "done"]
            /\ item[2] = "none" => Put(c) = wanted[c]
            /\ item[2] = "cancelled" => caller[c] = "left"
  PROVE  BoxInv'
  <1> USE DEF TypeInv
  <1> DEFINE n == Len(outBox[c])
             h == Len(heardSync[c])
  <1>1. /\ n \in Nat /\ h \in Nat /\ DOMAIN outBox[c] = 1 .. n
        /\ Len(outBox'[c]) = n + 1 /\ DOMAIN outBox'[c] = 1 .. n + 1
        /\ outBox'[c][n + 1] = item /\ \A k \in 1 .. n : outBox'[c][k] = outBox[c][k]
    BY DEF Item
  <1>2. \A k \in 1 .. n : outBox[c][k] = <<"frame", h + k>>
    BY <1>1 DEF BoxInv, InBox
  <1>3. ASSUME NEW k \in DOMAIN outBox'[c] PROVE InBox(c, k)'
    <2>1. CASE k \in 1 .. n
      BY <1>1, <1>2, <2>1 DEF InBox
    <2>2. CASE k = n + 1 /\ item = <<"frame", Put(c) + 1>>
      BY <1>1, <2>2 DEF InBox, Put
    <2>3. CASE k = n + 1 /\ item # <<"frame", Put(c) + 1>>
      <3>1. /\ item[1] = "sentinel" /\ pump'[c] = "done"
            /\ item[2] = "none" => h + n = wanted[c]
            /\ item[2] = "cancelled" => caller[c] = "left"
        BY <2>3 DEF Put, PumpPcs
      <3>2. h + k - 1 = h + n
        BY <1>1, <2>3
      <3> QED  BY <1>1, <2>3, <3>1, <3>2 DEF InBox
    <2> QED  BY <1>1, <2>1, <2>2, <2>3
  <1>4. ASSUME NEW d \in Blocked, d # c
        PROVE  UNCHANGED <<outBox[d], heardSync[d], pump[d], caller[d], wanted[d]>>
    BY <1>4
  <1>5. ASSUME NEW d \in Blocked, d # c, NEW k \in DOMAIN outBox'[d] PROVE InBox(d, k)'
    BY <1>4, <1>5 DEF InBox, BoxInv
  <1>6. pump'[c] \notin {"none", "born"}
    OBVIOUS
  <1>7. ASSUME NEW d \in Blocked
        PROVE  /\ \A k \in DOMAIN heardSync'[d] : heardSync'[d][k] = k
               /\ caller'[d] = "ended" => Len(heardSync'[d]) = wanted'[d]
    BY DEF BoxInv
  <1>8. ASSUME NEW d \in Blocked, pump'[d] \in {"none", "born"}
        PROVE  heardSync'[d] = <<>> /\ outBox'[d] = <<>>
    BY <1>4, <1>6, <1>8 DEF BoxInv
  <1> QED  BY <1>3, <1>5, <1>7, <1>8 DEF BoxInv

(* out.get(): the first item goes to the caller.                           *)
LEMMA GetItem ==
  ASSUME TypeInv, BoxInv, NEW c \in Blocked, TakeItem(c)
  PROVE  BoxInv'
  <1> DEFINE n == Len(outBox[c])
             h == Len(heardSync[c])
             item == Head(outBox[c])
  <1>1. /\ caller[c] = "wait" /\ outBox[c] # <<>> /\ UNCHANGED <<wanted, pump>>
        /\ outBox' = [outBox EXCEPT ![c] = Tail(@)]
        /\ \/ /\ item[1] = "frame" /\ caller' = [caller EXCEPT ![c] = "yielded"]
              /\ heardSync' = [heardSync EXCEPT ![c] = Append(@, item[2])]
           \/ /\ item[1] = "sentinel" /\ UNCHANGED heardSync
              /\ caller' = [caller EXCEPT ![c] = IF item[2] = "error" THEN "raised" ELSE "ended"]
    BY DEF TakeItem
  <1>2. /\ caller \in [Blocked -> CallerPcs] /\ heardSync \in [Blocked -> Seq(Nat)]
        /\ outBox \in [Blocked -> Seq(Item)] /\ pump[c] \in PumpPcs
    BY DEF TypeInv
  <1>3. outBox'[c] = Tail(outBox[c]) /\ outBox[c] \in Seq(Item) /\ heardSync[c] \in Seq(Nat)
    BY <1>1, <1>2
  <1>4. /\ n \in Nat \ {0} /\ h \in Nat /\ DOMAIN outBox[c] = 1 .. n
        /\ item = outBox[c][1] /\ item \in Item
        /\ Len(outBox'[c]) = n - 1 /\ DOMAIN outBox'[c] = 1 .. n - 1
        /\ \A k \in 1 .. n - 1 : outBox'[c][k] = outBox[c][k + 1]
        /\ DOMAIN heardSync[c] = 1 .. h
    <2>1. ASSUME NEW S, NEW q \in Seq(S), q # <<>>
          PROVE  /\ Len(q) \in Nat \ {0} /\ DOMAIN q = 1 .. Len(q)
                 /\ Head(q) = q[1] /\ Head(q) \in S
                 /\ Len(Tail(q)) = Len(q) - 1 /\ DOMAIN Tail(q) = 1 .. Len(q) - 1
                 /\ \A k \in 1 .. Len(q) - 1 : Tail(q)[k] = q[k + 1]
      BY <2>1
    <2>2. h \in Nat /\ DOMAIN heardSync[c] = 1 .. h
      BY <1>3
    <2> DEFINE q == outBox[c]
    <2>3. q \in Seq(Item) /\ q # <<>>
      BY <1>1, <1>3
    <2>4. outBox'[c] = Tail(q)
      BY <1>3
    <2> HIDE DEF q
    <2>5. /\ Len(q) \in Nat \ {0} /\ DOMAIN q = 1 .. Len(q) /\ Head(q) = q[1] /\ Head(q) \in Item
          /\ Len(Tail(q)) = Len(q) - 1 /\ DOMAIN Tail(q) = 1 .. Len(q) - 1
          /\ \A k \in 1 .. Len(q) - 1 : Tail(q)[k] = q[k + 1]
      BY <2>1, <2>3
    <2> QED  BY <2>2, <2>4, <2>5 DEF q
  <1>5. /\ \A k \in 1 .. h : heardSync[c][k] = k
        /\ pump[c] \in {"none", "born"} => outBox[c] = <<>>
        /\ \A k \in 1 .. n : InBox(c, k)
    BY <1>4 DEF BoxInv
  <1>6. ASSUME NEW k \in 1 .. n
        PROVE  \/ outBox[c][k] = <<"frame", h + k>>
               \/ /\ outBox[c][k][1] = "sentinel" /\ k = n /\ pump[c] = "done"
                  /\ outBox[c][k][2] = "none" => h + k - 1 = wanted[c]
                  /\ outBox[c][k][2] # "cancelled"
    <2>1. InBox(c, k) /\ caller[c] = "wait"
      BY <1>1, <1>5
    <2> QED  BY <2>1 DEF InBox
  <1>7. ASSUME NEW d \in Blocked, d # c
        PROVE  /\ outBox'[d] = outBox[d] /\ heardSync'[d] = heardSync[d] /\ pump'[d] = pump[d]
               /\ caller'[d] = caller[d] /\ wanted'[d] = wanted[d]
    BY <1>1, <1>2, <1>7
  <1> HIDE DEF n, h, item
  <1>8. ASSUME NEW d \in Blocked, d # c
        PROVE  /\ \A k \in DOMAIN heardSync'[d] : heardSync'[d][k] = k
               /\ \A k \in DOMAIN outBox'[d] : InBox(d, k)'
               /\ pump'[d] \in {"none", "born"} => heardSync'[d] = <<>> /\ outBox'[d] = <<>>
               /\ caller'[d] = "ended" => Len(heardSync'[d]) = wanted'[d]
    BY <1>7, <1>8 DEF BoxInv, InBox
  <1>9. pump'[c] = pump[c] /\ pump[c] \notin {"none", "born"} /\ wanted'[c] = wanted[c]
    BY <1>1, <1>5
  <1>10. CASE item[1] = "frame"
    <2>1. item[2] = h + 1
      <3>1. 1 \in 1 .. n /\ item # <<"sentinel", item[2]>> /\ item[1] # "sentinel"
        BY <1>4, <1>10
      <3>2. item = <<"frame", h + 1>>
        BY <1>4, <1>6, <3>1
      <3> QED  BY <3>2
    <2>2. heardSync'[c] = Append(heardSync[c], h + 1) /\ caller'[c] = "yielded"
      BY <1>1, <1>2, <1>10, <2>1
    <2>3. /\ Len(heardSync'[c]) = h + 1 /\ DOMAIN heardSync'[c] = 1 .. h + 1
          /\ heardSync'[c][h + 1] = h + 1 /\ \A k \in 1 .. h : heardSync'[c][k] = heardSync[c][k]
      <3> DEFINE q == heardSync[c]
      <3>1. q \in Seq(Nat) /\ h + 1 \in Nat /\ h = Len(q)
        BY <1>3, <1>4 DEF h
      <3>2. heardSync'[c] = Append(q, h + 1) /\ caller'[c] = "yielded"
        BY <2>2
      <3> HIDE DEF q
      <3>3. ASSUME NEW x \in Nat
            PROVE  /\ Len(Append(q, x)) = Len(q) + 1 /\ DOMAIN Append(q, x) = 1 .. Len(q) + 1
                   /\ Append(q, x)[Len(q) + 1] = x /\ \A k \in 1 .. Len(q) : Append(q, x)[k] = q[k]
        BY <3>1, <3>3
      <3> QED  BY <3>1, <3>2, <3>3 DEF q
    <2>4. ASSUME NEW k \in DOMAIN heardSync'[c] PROVE heardSync'[c][k] = k
      <3>1. h \in Nat /\ k \in 1 .. h + 1
        BY <1>4, <2>3
      <3>2. k \in 1 .. h \/ k = h + 1
        BY <3>1
      <3> QED  BY <1>5, <2>3, <3>2
    <2>5. ASSUME NEW k \in DOMAIN outBox'[c] PROVE InBox(c, k)'
      <3>1. k \in 1 .. n - 1 /\ k + 1 \in 1 .. n /\ outBox'[c][k] = outBox[c][k + 1]
        BY <1>4
      <3>2. /\ h + (k + 1) = (h + 1) + k /\ h + (k + 1) - 1 = (h + 1) + k - 1
            /\ k + 1 = n => k = n - 1
        BY <1>4, <3>1
      <3>3. \/ outBox'[c][k] = <<"frame", (h + 1) + k>>
            \/ /\ outBox'[c][k][1] = "sentinel" /\ k = n - 1 /\ pump'[c] = "done"
               /\ outBox'[c][k][2] = "none" => (h + 1) + k - 1 = wanted'[c]
               /\ outBox'[c][k][2] # "cancelled"
        BY <1>6, <1>9, <3>1, <3>2
      <3> QED  BY <1>4, <2>3, <3>3 DEF InBox
    <2> QED  BY <1>8, <1>9, <2>2, <2>4, <2>5 DEF BoxInv
  <1>11. CASE item[1] # "frame"
    <2>1. 1 \in 1 .. n /\ item = outBox[c][1] /\ item # <<"frame", h + 1>>
      BY <1>4, <1>11
    <2>2. /\ item[1] = "sentinel" /\ 1 = n /\ item[2] # "cancelled"
          /\ item[2] = "none" => h + 1 - 1 = wanted[c]
      BY <1>6, <2>1
    <2>3. item[2] \in {"none", "error"}
      BY <1>4, <2>2 DEF Item
    <2>4. /\ heardSync' = heardSync
          /\ caller'[c] = "ended" => item[2] = "none"
      BY <1>1, <1>2, <1>11, <2>3
    <2>5. DOMAIN outBox'[c] = {} /\ h + 1 - 1 = h
      BY <1>4, <2>2
    <2>6. caller'[c] = "ended" => Len(heardSync'[c]) = wanted'[c]
      BY <1>9, <2>2, <2>4, <2>5 DEF h
    <2>7. \A k \in DOMAIN heardSync'[c] : heardSync'[c][k] = k
      BY <1>4, <1>5, <2>4
    <2> QED  BY <1>8, <1>9, <2>5, <2>6, <2>7 DEF BoxInv
  <1> QED  BY <1>10, <1>11

(* Every step keeps what is heard and what waits to be heard in order.   *)
LEMMA BoxStep ==
  TypeInv /\ StartInv /\ CancelInv /\ BoxInv /\ [BridgeNext]_bridgeVars => BoxInv'
  <1> SUFFICES ASSUME TypeInv, StartInv, CancelInv, BoxInv, [BridgeNext]_bridgeVars
               PROVE  BoxInv'
    OBVIOUS
  <1>0. /\ caller \in [Blocked -> CallerPcs] /\ pump \in [Blocked -> PumpPcs]
        /\ outBox \in [Blocked -> Seq(Item)] /\ cancelled \subseteq Blocked
    BY DEF TypeInv
  <1>1. ASSUME NEW c \in Blocked,
               EnsureLoop(c) \/ StartPump(c) \/ NextFrame(c) \/ CloseSync(c) \/ Interrupt(c)
        PROVE  BoxInv'
    <2>1. UNCHANGED <<heardSync, outBox, wanted, pump>>
      BY <1>1 DEF EnsureLoop, StartPump, NextFrame, CloseSync, Interrupt
    <2>2. /\ caller[c] # "left"
          /\ \E pc \in {"bound", "wait", "raised", "left"} : caller' = [caller EXCEPT ![c] = pc]
      BY <1>1 DEF EnsureLoop, StartPump, NextFrame, CloseSync, Interrupt, LeaveRun
    <2> QED  BY <1>0, <2>1, <2>2, SameBox
  <1>2. ASSUME NEW c \in Blocked, TakeItem(c) PROVE BoxInv'
    BY <1>2, GetItem
  <1>3. ASSUME NEW c \in Blocked, NEW v \in {"none", "error", "cancelled"}, FinishPump(c, v),
               pump[c] \in {"born", "running"}, UNCHANGED <<heardSync, wanted, caller>>,
               v = "none" => Put(c) = wanted[c], v = "cancelled" => c \in cancelled
        PROVE  BoxInv'
    <2> DEFINE item == <<"sentinel", v>>
    <2>1. item \in Item /\ item[1] = "sentinel" /\ item[2] = v
      BY DEF Item
    <2>2. outBox' = [outBox EXCEPT ![c] = Append(@, item)] /\ pump' = [pump EXCEPT ![c] = "done"]
      BY <1>3 DEF FinishPump
    <2>3. v = "cancelled" => caller[c] = "left"
      BY <1>3 DEF CancelInv
    <2> HIDE DEF item
    <2> QED  BY <1>3, <2>1, <2>2, <2>3, PutItem
  <1>4. ASSUME NEW c \in Blocked, BeginPump(c) PROVE BoxInv'
    <2>1. pump[c] = "born" /\ UNCHANGED <<heardSync, wanted, caller>>
      BY <1>4 DEF BeginPump
    <2>2. CASE FinishPump(c, "error")
      BY <1>3, <2>1, <2>2
    <2>3. CASE FinishPump(c, "none") /\ EndsAtOnce(c)
      <3>1. Put(c) = wanted[c]
        <4>1. heardSync[c] = <<>> /\ outBox[c] = <<>>
          BY <2>1 DEF BoxInv
        <4> QED  BY <2>3, <4>1 DEF Put, EndsAtOnce
      <3> QED  BY <1>3, <2>1, <2>3, <3>1
    <2>4. CASE UNCHANGED outBox /\ \E x \in {"done", "running"} : pump' = [pump EXCEPT ![c] = x]
      BY <1>0, <2>1, <2>4, SameBox
    <2> QED  BY <1>4, <2>2, <2>3, <2>4 DEF BeginPump, Verdict
  <1>5. ASSUME NEW c \in Blocked, PumpStep(c) PROVE BoxInv'
    <2>1. pump[c] = "running" /\ UNCHANGED <<heardSync, wanted, caller>>
      BY <1>5 DEF PumpStep
    <2>2. CASE FinishPump(c, "error")
      BY <1>3, <2>1, <2>2
    <2>3. CASE FinishPump(c, "none") /\ Put(c) = wanted[c]
      BY <1>3, <2>1, <2>3
    <2>4. CASE FinishPump(c, "cancelled") /\ c \in cancelled
      BY <1>3, <2>1, <2>4
    <2>5. CASE /\ outBox' = [outBox EXCEPT ![c] = Append(@, <<"frame", Put(c) + 1>>)]
               /\ UNCHANGED pump
      <3>1. <<"frame", Put(c) + 1>> \in Item
        BY DEF Item, Put, TypeInv
      <3> QED  BY <2>1, <2>5, <3>1, PutItem
    <2> QED  BY <1>5, <2>2, <2>3, <2>4, <2>5 DEF PumpStep, Verdict
  <1>6. ASSUME NEW g \in Loops, RunCallback(g) PROVE BoxInv'
    <2> DEFINE x == Head(calledSoon[g])
    <2>1. /\ calledSoon[g] # <<>> /\ calledSoon' = [calledSoon EXCEPT ![g] = Tail(@)]
          /\ UNCHANGED <<heardSync, outBox, wanted, caller>>
          /\ UNCHANGED pump \/ (x[1] = "start" /\ pump' = [pump EXCEPT ![x[2]] = "born"])
      BY <1>6 DEF RunCallback
    <2>2. x \in Callback /\ Places(calledSoon[g], x) # {}
      BY <2>1, NextFacts DEF TypeInv
    <2> HIDE DEF x
    <2>3. CASE UNCHANGED pump
      BY <2>1, <2>3, SameBox
    <2>4. CASE x[1] = "start" /\ pump' = [pump EXCEPT ![x[2]] = "born"]
      <3>1. x[2] \in Blocked /\ x = StartOf(x[2])
        BY <2>2, <2>4, CallbackFacts
      <3>2. pump[x[2]] = "none"
        BY <2>2, <3>1 DEF StartInv, StartOnce
      <3> QED  BY <1>0, <2>1, <2>4, <3>1, <3>2, SameBox
    <2> QED  BY <2>1, <2>3, <2>4
  <1>7. CASE \/ \E g \in Loops : LoopExits(g)
             \/ StreamOnApp \/ CallShutdown \/ TeardownDone \/ TakeLoop \/ JoinLoop
             \/ UNCHANGED bridgeVars
    <2>1. UNCHANGED <<heardSync, outBox, wanted, pump, caller>>
      BY <1>7 DEF LoopExits, StreamOnApp, CallShutdown, TeardownDone, TakeLoop, JoinLoop,
                  bridgeVars, syncVars
    <2> QED  BY <2>1, SameBox
  <1> QED
    BY <1>1, <1>2, <1>4, <1>5, <1>6, <1>7 DEF BridgeNext, StreamSync

-----------------------------------------------------------------------------
(* The engine is bound to one loop for good.                               *)

(* _ensure_started refuses a second loop: the pumps in the engine share  *)
(* one.                                                                  *)
LEMMA OneLoopStep ==
  TypeInv /\ LoopInv /\ StartInv /\ OneLoop /\ [BridgeNext]_bridgeVars => OneLoop'
  <1> SUFFICES ASSUME TypeInv, LoopInv, StartInv, OneLoop, [BridgeNext]_bridgeVars
               PROVE  OneLoop'
    OBVIOUS
  <1>0. pump \in [Blocked -> PumpPcs] /\ mine \in [Blocked -> {NoLoop} \cup Loops]
    BY DEF TypeInv
  <1>1. \A c \in Blocked : pump[c] # "none" => mine[c] \in Loops /\ mine[c] # NoLoop
    BY DEF StartInv, StartLate, LoopInv, Loops, NoLoop
  <1>2. ASSUME UNCHANGED <<owner, mine>>,
               \A c \in Blocked : pump'[c] = "running" => pump[c] = "running"
        PROVE  OneLoop'
    BY <1>2 DEF OneLoop
  <1>3. ASSUME NEW c \in Blocked, EnsureLoop(c) PROVE OneLoop'
    <2>1. /\ caller[c] = "new" /\ UNCHANGED <<pump, owner>>
          /\ \A d \in Blocked : d # c => mine'[d] = mine[d]
      <3>1. caller[c] = "new" /\ UNCHANGED <<pump, owner>>
        BY <1>3 DEF EnsureLoop, ownerVars
      <3>2. \E g \in {loopOf} \cup Loops : mine' = [mine EXCEPT ![c] = g]
        BY <1>3 DEF EnsureLoop
      <3> QED  BY <1>0, <3>1, <3>2
    <2>2. pump[c] = "none"
      BY <2>1 DEF StartInv, StartLate
    <2> QED  BY <2>1, <2>2 DEF OneLoop
  <1>4. ASSUME NEW c \in Blocked, BeginPump(c) PROVE OneLoop'
    <2>1. CASE UNCHANGED owner /\ pump' = [pump EXCEPT ![c] = "done"]
      BY <1>0, <1>2, <1>4, <2>1 DEF BeginPump
    <2>2. CASE ~Foreign(mine[c]) /\ pump' = [pump EXCEPT ![c] = "running"] /\ owner' = mine[c]
      <3>1. UNCHANGED mine /\ owner \in {NoLoop, mine[c]}
        BY <1>4, <2>2 DEF BeginPump, Foreign
      <3>2. \A d \in Blocked : pump[d] = "running" => mine[d] = owner /\ owner # NoLoop
        BY <1>1 DEF OneLoop
      <3> QED  BY <1>0, <2>2, <3>1, <3>2 DEF OneLoop
    <2> QED  BY <1>4, <2>1, <2>2 DEF BeginPump, FinishPump
  <1>5. ASSUME NEW c \in Blocked,
               \/ StartPump(c) \/ TakeItem(c) \/ NextFrame(c)
               \/ CloseSync(c) \/ Interrupt(c) \/ PumpStep(c)
        PROVE  OneLoop'
    <2>1. UNCHANGED <<owner, mine>> /\ pump' \in {pump, [pump EXCEPT ![c] = "done"]}
      BY <1>5 DEF StartPump, TakeItem, NextFrame, CloseSync, Interrupt, PumpStep, FinishPump,
                         ownerVars
    <2> QED  BY <1>0, <1>2, <2>1
  <1>6. ASSUME NEW g \in Loops, RunCallback(g) PROVE OneLoop'
    <2> DEFINE d == Head(calledSoon[g])[2]
    <2>1. UNCHANGED <<owner, mine>> /\ pump' \in {pump, [pump EXCEPT ![d] = "born"]}
      BY <1>6 DEF RunCallback, ownerVars
    <2> HIDE DEF d
    <2> QED  BY <1>0, <1>2, <2>1
  <1>7. CASE StreamOnApp
    <2>1. owner = NoLoop /\ UNCHANGED <<mine, pump>>
      BY <1>7 DEF StreamOnApp, syncVars
    <2> QED  BY <1>1, <2>1 DEF OneLoop
  <1>8. CASE \/ \E g \in Loops : LoopExits(g)
             \/ CallShutdown \/ TeardownDone \/ TakeLoop \/ JoinLoop \/ UNCHANGED bridgeVars
    <2>1. UNCHANGED <<owner, mine, pump>>
      BY <1>8 DEF LoopExits, CallShutdown, TeardownDone, TakeLoop, JoinLoop,
                  bridgeVars, syncVars, ownerVars
    <2> QED  BY <1>2, <2>1
  <1> QED
    BY <1>3, <1>4, <1>5, <1>6, <1>7, <1>8 DEF BridgeNext, StreamSync

-----------------------------------------------------------------------------
(* The invariant holds at the start.                                     *)
LEMMA BridgeInvInit == BridgeInit => BridgeInv
  <1> SUFFICES ASSUME BridgeInit PROVE BridgeInv
    OBVIOUS
  <1> USE DEF BridgeInit
  <1>1. TypeInv
    <2>1. wanted \in [Blocked -> Nat]
      BY DEF BridgeAssumption
    <2> QED  BY <2>1 DEF TypeInv, CallerPcs, PumpPcs, LoopPcs
  <1>2. LoopInv
    BY DEF LoopInv
  <1>3. \A g \in Loops : \A x : Places(calledSoon[g], x) = {}
    BY DEF Places
  <1>4. StartInv
    BY <1>3 DEF StartInv, StartOnce, StartLate, AtMostOne
  <1>5. CancelInv
    BY <1>3 DEF CancelInv
  <1>6. BoxInv
    <2>1. \A c \in Blocked : heardSync[c] = <<>> /\ outBox[c] = <<>> /\ caller[c] = "new"
      OBVIOUS
    <2>2. ASSUME NEW q, q = <<>> PROVE DOMAIN q = {}
      BY <2>2
    <2>3. \A c \in Blocked : DOMAIN heardSync[c] = {} /\ DOMAIN outBox[c] = {}
      BY <2>1, <2>2
    <2> HIDE DEF BridgeInit
    <2> QED  BY <2>1, <2>3 DEF BoxInv
  <1>7. OneLoop
    BY DEF OneLoop
  <1> QED  BY <1>1, <1>2, <1>4, <1>5, <1>6, <1>7 DEF BridgeInv

(* Every step of a caller, a pump, a loop or shutdown() keeps the        *)
(* invariant.                                                            *)
LEMMA BridgeInvStep == BridgeInv /\ [BridgeNext]_bridgeVars => BridgeInv'
  BY TypeStep, LoopStep, StartStep, CancelStep, BoxStep, OneLoopStep DEF BridgeInv

(* The invariant says all that a blocked caller is promised.             *)
LEMMA BridgeInvSafe == BridgeInv => BlockingHearsAll
  <1> SUFFICES ASSUME BridgeInv, NEW c \in Blocked
               PROVE  /\ \A k \in DOMAIN heardSync[c] : heardSync[c][k] = k
                      /\ caller[c] = "ended" => Len(heardSync[c]) = wanted[c]
                      /\ /\ caller[c] = "left" /\ c \notin early /\ pump[c] \in {"born", "running"}
                         /\ loopPc[mine[c]] = "running"
                         => CancelOnItsWay(c)
                      /\ pump[c] = "running" => mine[c] = owner
    BY DEF BlockingHearsAll
  <1>1. ASSUME c \in cancelled \/ Places(calledSoon[mine[c]], CancelOf(c)) # {}
        PROVE  CancelOnItsWay(c)
    <2>1. CASE c \in cancelled
      BY <2>1 DEF CancelOnItsWay
    <2>2. CASE Places(calledSoon[mine[c]], CancelOf(c)) # {}
      <3>1. PICK k \in DOMAIN calledSoon[mine[c]] : calledSoon[mine[c]][k] = CancelOf(c)
        BY <2>2 DEF Places
      <3> QED  BY <3>1 DEF CancelOf, CancelOnItsWay
    <2> QED  BY <1>1, <2>1, <2>2
  <1> QED  BY <1>1 DEF BridgeInv, BoxInv, CancelInv, OneLoop

(* The variables of the bridge keep their types.                         *)
THEOREM BridgeType == BridgeSpec => []TypeInv
  <1>1. BridgeInv => TypeInv
    BY DEF BridgeInv
  <1> QED  BY <1>1, BridgeInvInit, BridgeInvStep, PTL DEF BridgeSpec

(* Whatever the callers, the loops and shutdown() do, and however many     *)
(* there are: a blocked caller hears its own frames in order and all of    *)
(* them before a clean end, one that left is not generated for, and the    *)
(* engine runs on one loop.                                                *)
THEOREM BlockingStreams == BridgeSpec => []BlockingHearsAll
  BY BridgeInvInit, BridgeInvStep, BridgeInvSafe, PTL DEF BridgeSpec

-----------------------------------------------------------------------------
(***************************************************************************)
(* StreamWindows: however the engine cuts a request's tokens into steps,   *)
(* the windows are those of the frames an offline parser reads.            *)
(***************************************************************************)

(* An emission with one start marker, where its audio ends, and how much   *)
(* of it is among the first n tokens.                                      *)
OneStart(e, p) ==
    p \in DOMAIN e /\ e[p] = StartId /\ \A i \in DOMAIN e : e[i] = StartId => i = p
AudioEnd(e, p) == Min({i \in DOMAIN e : i > p /\ e[i] = EndId} \cup {Len(e) + 1})
AudioLen(e, p, n) ==
    IF n <= p THEN 0 ELSE IF n < AudioEnd(e, p) THEN n - p ELSE AudioEnd(e, p) - 1 - p

LEMMA AudioEndFacts ==
  ASSUME NEW e \in Seq(Nat), NEW p \in 1 .. Len(e)
  PROVE  /\ AudioEnd(e, p) \in p + 1 .. Len(e) + 1
         /\ \A i \in p + 1 .. AudioEnd(e, p) - 1 : e[i] # EndId
         /\ AudioEnd(e, p) <= Len(e) => e[AudioEnd(e, p)] = EndId
  <1> DEFINE m == Len(e)
             T == {i \in DOMAIN e : i > p /\ e[i] = EndId} \cup {Len(e) + 1}
             d == Min(T)
  <1>1. m \in Nat /\ DOMAIN e = 1 .. m /\ p \in 1 .. m
    OBVIOUS
  <1>2. \A i : i \in T <=> \/ i \in 1 .. m /\ i > p /\ e[i] = EndId
                           \/ i = m + 1
    BY <1>1
  <1>3. T \subseteq 0 .. m + 1 /\ T # {} /\ m + 1 \in Nat
    BY <1>1, <1>2
  <1> HIDE DEF T, m
  <1>4. d \in T /\ \A i \in T : d <= i
    BY <1>3, ExtremeFacts
  <1> HIDE DEF d
  <1>5. d \in p + 1 .. m + 1
    BY <1>1, <1>2, <1>4
  <1>6. ASSUME NEW i \in p + 1 .. d - 1 PROVE e[i] # EndId
    <2>1. i \in 1 .. m /\ i > p /\ ~(d <= i)
      BY <1>1, <1>5, <1>6
    <2> QED  BY <1>2, <1>4, <2>1
  <1>7. d <= m => e[d] = EndId
    BY <1>1, <1>2, <1>4
  <1>8. AudioEnd(e, p) = d
    BY DEF AudioEnd, d, T
  <1> QED  BY <1>5, <1>6, <1>7, <1>8 DEF m

(* The first place of an id in a list.                                     *)
LEMMA FirstFacts ==
  ASSUME NEW q \in Seq(Nat), NEW id
  PROVE  /\ FirstOf(id, q) \in 1 .. Len(q) + 1
         /\ \A i \in 1 .. FirstOf(id, q) - 1 : q[i] # id
         /\ FirstOf(id, q) <= Len(q) => q[FirstOf(id, q)] = id
  <1> DEFINE m == Len(q)
             T == {i \in DOMAIN q : q[i] = id} \cup {Len(q) + 1}
             d == Min(T)
  <1>1. m \in Nat /\ DOMAIN q = 1 .. m
    OBVIOUS
  <1>2. \A i : i \in T <=> (i \in 1 .. m /\ q[i] = id) \/ i = m + 1
    BY <1>1
  <1>3. T \subseteq 0 .. m + 1 /\ T # {} /\ m + 1 \in Nat
    BY <1>1, <1>2
  <1> HIDE DEF T, m
  <1>4. d \in T /\ \A i \in T : d <= i
    BY <1>3, ExtremeFacts
  <1> HIDE DEF d
  <1>5. d \in 1 .. m + 1
    BY <1>1, <1>2, <1>4
  <1>6. ASSUME NEW i \in 1 .. d - 1 PROVE q[i] # id
    <2>1. i \in 1 .. m /\ ~(d <= i)
      BY <1>1, <1>5, <1>6
    <2> QED  BY <1>2, <1>4, <2>1
  <1>7. d <= m => q[d] = id
    BY <1>1, <1>2, <1>4
  <1>8. FirstOf(id, q) = d
    BY DEF FirstOf, d, T
  <1> QED  BY <1>5, <1>6, <1>7, <1>8 DEF m

(* A piece of a list.                                                      *)
LEMMA PieceFacts ==
  ASSUME NEW q \in Seq(Nat), NEW a \in 0 .. Len(q), NEW b \in a .. Len(q)
  PROVE  /\ SubSeq(q, a + 1, b) \in Seq(Nat) /\ Len(SubSeq(q, a + 1, b)) = b - a
         /\ \A j \in 1 .. b - a : SubSeq(q, a + 1, b)[j] = q[a + j]
  <1> DEFINE s == SubSeq(q, a + 1, b)
             k == Len(q)
  <1>1. k \in Nat /\ a \in 0 .. k /\ b \in a .. k /\ \A i \in 1 .. k : q[i] \in Nat
    OBVIOUS
  <1>2. s = [i \in 1 .. b - (a + 1) + 1 |-> q[i + (a + 1) - 1]]
    OBVIOUS
  <1>3. b - (a + 1) + 1 = b - a /\ b - a \in Nat
    BY <1>1
  <1>4. \A i \in 1 .. b - a : i + (a + 1) - 1 = a + i /\ a + i \in 1 .. k
    BY <1>1
  <1>5. s \in [1 .. b - a -> Nat] /\ \A i \in 1 .. b - a : s[i] = q[a + i]
    BY <1>1, <1>2, <1>3, <1>4
  <1> HIDE DEF s, k
  <1>6. s \in Seq(Nat) /\ Len(s) = b - a
    BY <1>3, <1>5, FunctionSeq
  <1> QED  BY <1>5, <1>6 DEF s

(* What follows the first marker of a list, and what precedes it.          *)
LEMMA AfterFirst ==
  ASSUME NEW q \in Seq(Nat), NEW id, NEW t, t = SubSeq(q, FirstOf(id, q) + 1, Len(q))
  PROVE  /\ t \in Seq(Nat)
         /\ FirstOf(id, q) <= Len(q) => Len(t) = Len(q) - FirstOf(id, q)
         /\ FirstOf(id, q) > Len(q) => Len(t) = 0
         /\ \A j \in 1 .. Len(q) - FirstOf(id, q) : t[j] = q[FirstOf(id, q) + j]
  <1> DEFINE f == FirstOf(id, q)
             m == Len(q)
  <1>1. m \in Nat /\ f \in 1 .. m + 1 /\ \A i \in 1 .. m : q[i] \in Nat
    BY FirstFacts
  <1>2. t = SubSeq(q, f + 1, m)
    OBVIOUS
  <1> HIDE DEF f, m
  <1>3. f + 1 \in Int /\ m \in Int /\ \A i \in f + 1 .. m : q[i] \in Nat
    BY <1>1
  <1>4. /\ t \in Seq(Nat)
        /\ Len(t) = IF f + 1 <= m THEN m - (f + 1) + 1 ELSE 0
        /\ \A i \in 1 .. m - (f + 1) + 1 : t[i] = q[(f + 1) + i - 1]
    <2> DEFINE u == SubSeq(q, f + 1, m)
    <2>1. /\ u \in Seq(Nat)
          /\ Len(u) = IF f + 1 <= m THEN m - (f + 1) + 1 ELSE 0
          /\ \A i \in 1 .. m - (f + 1) + 1 : u[i] = q[(f + 1) + i - 1]
      BY <1>3, SubSeqProperties
    <2> QED  BY <1>2, <2>1
  <1>5. /\ f <= m => Len(t) = m - f
        /\ f > m => Len(t) = 0
    <2>1. CASE f + 1 <= m
      <3>1. Len(t) = m - (f + 1) + 1
        BY <1>4, <2>1
      <3>2. m - (f + 1) + 1 = m - f /\ ~(f > m)
        BY <1>1, <2>1
      <3> QED  BY <3>1, <3>2
    <2>2. CASE ~(f + 1 <= m)
      <3>1. Len(t) = 0
        BY <1>4, <2>2
      <3>2. f <= m => m - f = 0
        BY <1>1, <2>2
      <3> QED  BY <3>1, <3>2
    <2> QED  BY <2>1, <2>2
  <1>6. ASSUME NEW i \in 1 .. m - f PROVE t[i] = q[f + i]
    <2>1. i \in 1 .. m - (f + 1) + 1 /\ (f + 1) + i - 1 = f + i
      BY <1>1
    <2> QED  BY <1>4, <2>1
  <1> QED  BY <1>4, <1>5, <1>6 DEF f, m

LEMMA BeforeFirst ==
  ASSUME NEW q \in Seq(Nat), NEW id
  PROVE  LET f == FirstOf(id, q)
             u == SubSeq(q, 1, f - 1)
         IN  u \in Seq(Nat) /\ Len(u) = f - 1 /\ \A j \in 1 .. f - 1 : u[j] = q[j]
  <1> DEFINE f == FirstOf(id, q)
             m == Len(q)
             u == SubSeq(q, 1, f - 1)
  <1>1. m \in Nat /\ f \in 1 .. m + 1
    BY FirstFacts
  <1>2. 0 \in 0 .. m /\ f - 1 \in 0 .. m /\ 0 + 1 = 1 /\ (f - 1) - 0 = f - 1
    BY <1>1
  <1> HIDE DEF f
  <1>3. SubSeq(q, 0 + 1, f - 1) \in Seq(Nat) /\ Len(SubSeq(q, 0 + 1, f - 1)) = (f - 1) - 0
        /\ \A j \in 1 .. (f - 1) - 0 : SubSeq(q, 0 + 1, f - 1)[j] = q[0 + j]
    BY <1>2, PieceFacts
  <1>4. \A j \in 1 .. f - 1 : q[0 + j] = q[j]
    BY <1>1
  <1> QED  BY <1>2, <1>3, <1>4 DEF f

(* push only ever collects token ids.                                      *)
LEMMA IngestedType ==
  ASSUME NEW new \in Seq(Nat), undrained \in Seq(Nat)
  PROVE  Heard(new) \in Seq(Nat) /\ Ingested(new) \in Seq(Nat)
  <1>1. Heard(new) \in Seq(Nat)
    <2>1. SubSeq(new, FirstOf(StartId, new) + 1, Len(new)) \in Seq(Nat)
      BY AfterFirst
    <2> QED  BY <2>1 DEF Heard
  <1>2. SubSeq(Heard(new), 1, FirstOf(EndId, Heard(new)) - 1) \in Seq(Nat)
    BY <1>1, BeforeFirst
  <1>3. undrained \o SubSeq(Heard(new), 1, FirstOf(EndId, Heard(new)) - 1) \in Seq(Nat)
    BY <1>2, ConcatAt
  <1> QED  BY <1>1, <1>3 DEF Ingested

(* The last place before what a push of tokens lo + 1 .. hi takes in.      *)
HeardFrom(p, lo, hi) == IF p <= lo THEN lo ELSE IF p <= hi THEN p ELSE hi

(* The new tokens of a step past the start marker.                         *)
HeardRight(p, new, b, hi) ==
    /\ new \in Seq(Nat)
    /\ (started \/ Contains(new, StartId)) <=> p <= hi
    /\ Heard(new) \in Seq(Nat) /\ Len(Heard(new)) = hi - b
    /\ \A j \in 1 .. hi - b : Heard(new)[j] = emission[b + j]

LEMMA HeardFacts ==
  ASSUME emission \in Seq(Nat), NEW p, OneStart(emission, p), fed \in 0 .. Len(emission),
         NEW n \in 1 .. Len(emission) - fed, started <=> p <= fed
  PROVE  HeardRight(p, SubSeq(emission, fed + 1, fed + n), HeardFrom(p, fed, fed + n), fed + n)
  <1> SUFFICES ASSUME NEW new, new = SubSeq(emission, fed + 1, fed + n),
                      NEW b, b = HeardFrom(p, fed, fed + n)
               PROVE  HeardRight(p, new, b, fed + n)
    OBVIOUS
  <1> DEFINE m == Len(emission)
             f == FirstOf(StartId, new)
             t == SubSeq(new, f + 1, Len(new))
  <1>1. m \in Nat /\ DOMAIN emission = 1 .. m
    OBVIOUS
  <1>2. fed \in 0 .. m /\ n \in 1 .. m - fed
    OBVIOUS
  <1>3. p \in 1 .. m /\ emission[p] = StartId /\ \A i \in 1 .. m : emission[i] = StartId => i = p
    BY <1>1 DEF OneStart
  <1>4. fed + n \in fed .. m /\ (fed + n) - fed = n
    BY <1>1, <1>2
  <1>5. new \in Seq(Nat) /\ Len(new) = n /\ \A j \in 1 .. n : new[j] = emission[fed + j]
    BY <1>4, PieceFacts
  <1> HIDE DEF m
  <1>6. Contains(new, StartId) <=> \E j \in 1 .. n : emission[fed + j] = StartId
    BY <1>5 DEF Contains
  <1>7. Contains(new, StartId) <=> p \in fed + 1 .. fed + n
    <2>1. ASSUME NEW j \in 1 .. n, emission[fed + j] = StartId PROVE p \in fed + 1 .. fed + n
      <3>1. fed + j \in 1 .. m
        BY <1>1, <1>2
      <3>2. fed + j = p
        BY <1>3, <2>1, <3>1
      <3> QED  BY <1>1, <1>2, <3>2
    <2>2. ASSUME p \in fed + 1 .. fed + n PROVE \E j \in 1 .. n : emission[fed + j] = StartId
      <3>1. p - fed \in 1 .. n /\ fed + (p - fed) = p
        BY <1>1, <1>2, <1>3, <2>2
      <3> QED  BY <1>3, <3>1
    <2> QED  BY <1>6, <2>1, <2>2
  <1>8. (started \/ Contains(new, StartId)) <=> p <= fed + n
    BY <1>1, <1>2, <1>3, <1>7
  <1>9. CASE p <= fed
    <2>1. Heard(new) = new /\ b = fed
      BY <1>9 DEF Heard, HeardFrom
    <2>2. (fed + n) - b = n
      BY <1>1, <1>2, <2>1
    <2> QED  BY <1>5, <1>8, <2>1, <2>2 DEF HeardRight
  <1>10. CASE ~(p <= fed)
    <2>1. Heard(new) = t
      BY <1>10 DEF Heard
    <2>2. /\ f \in 1 .. n + 1
          /\ \A i \in 1 .. f - 1 : new[i] # StartId
          /\ f <= n => new[f] = StartId
      BY <1>5, FirstFacts
    <2>3. /\ t \in Seq(Nat)
          /\ f <= n => Len(t) = n - f
          /\ f > n => Len(t) = 0
          /\ \A j \in 1 .. n - f : t[j] = new[f + j]
      <3> HIDE DEF t
      <3>1. /\ t \in Seq(Nat)
            /\ FirstOf(StartId, new) <= Len(new) => Len(t) = Len(new) - FirstOf(StartId, new)
            /\ FirstOf(StartId, new) > Len(new) => Len(t) = 0
            /\ \A j \in 1 .. Len(new) - FirstOf(StartId, new) : t[j] = new[FirstOf(StartId, new) + j]
        <4>1. t = SubSeq(new, FirstOf(StartId, new) + 1, Len(new))
          BY DEF t
        <4>2. new \in Seq(Nat)
          BY <1>5
        <4> HIDE DEF f
        <4> QED  BY ONLY <4>1, <4>2, AfterFirst
      <3> QED  BY <1>5, <3>1
    <2> HIDE DEF f, t
    <2>4. CASE p <= fed + n
      <3>1. p - fed \in 1 .. n /\ fed + (p - fed) = p
        BY <1>1, <1>2, <1>3, <1>10, <2>4
      <3>2. b = p
        BY <1>10, <2>4 DEF HeardFrom
      <3>3. new[p - fed] = StartId
        BY <1>3, <1>5, <3>1
      <3>4. ~(p - fed < f)
        <4>1. p - fed < f => p - fed \in 1 .. f - 1
          BY <2>2, <3>1
        <4> QED  BY <2>2, <3>3, <4>1
      <3>5. f \in 1 .. n
        BY <1>2, <2>2, <3>1, <3>4
      <3>6. emission[fed + f] = StartId /\ fed + f \in 1 .. m
        BY <1>1, <1>2, <1>5, <2>2, <3>5
      <3>7. fed + f = p
        BY <1>3, <3>6
      <3>8. f <= n /\ n - f = (fed + n) - b /\ n - f \in Nat
        BY <1>1, <1>2, <3>2, <3>5, <3>7
      <3>9. ASSUME NEW j \in 1 .. (fed + n) - b PROVE t[j] = emission[b + j]
        <4>1. j \in 1 .. n - f /\ f + j \in 1 .. n /\ fed + (f + j) = b + j
          BY <1>1, <1>2, <3>2, <3>5, <3>7, <3>8
        <4> QED  BY <1>5, <2>3, <4>1
      <3>10. Len(t) = (fed + n) - b
        BY <2>3, <3>8
      <3> QED  BY <1>5, <1>8, <2>1, <2>3, <3>9, <3>10 DEF HeardRight
    <2>5. CASE ~(p <= fed + n)
      <3>1. b = fed + n /\ (fed + n) - b = 0
        BY <1>1, <1>2, <1>10, <2>5 DEF HeardFrom
      <3>2. ~(f <= n)
        <4> SUFFICES ASSUME f <= n PROVE FALSE
          OBVIOUS
        <4>0. new[f] = StartId
          BY <2>2
        <4>1. f \in 1 .. n
          <5>1. f \in 1 .. n + 1 /\ n \in Nat
            BY <1>1, <1>2, <2>2
          <5> QED  BY <5>1
        <4>2. emission[fed + f] = StartId /\ fed + f \in 1 .. m
          <5>1. fed + f \in 1 .. m
            BY <1>1, <1>2, <4>1
          <5>2. new[f] = emission[fed + f]
            BY <1>5, <4>1
          <5> QED  BY <4>0, <5>1, <5>2
        <4>3. fed + f = p
          BY <1>3, <4>2
        <4> QED  BY <1>2, <2>5, <4>1, <4>3
      <3>3. f > n
        BY <1>2, <2>2, <3>2
      <3>4. Len(t) = (fed + n) - b
        BY <2>3, <3>1, <3>3
      <3>5. \A j \in 1 .. (fed + n) - b : FALSE
        BY <3>1
      <3> QED  BY <1>5, <1>8, <2>1, <2>3, <3>4, <3>5 DEF HeardRight
    <2> QED  BY <2>4, <2>5
  <1> QED  BY <1>9, <1>10

(* The audio of the first n tokens, and where its end falls.               *)
LEMMA AudioLenFacts ==
  ASSUME NEW e \in Seq(Nat), NEW p \in 1 .. Len(e), NEW n \in 0 .. Len(e)
  PROVE  /\ AudioLen(e, p, n) \in Nat
         /\ AudioLen(e, p, n) > 0 => p + AudioLen(e, p, n) <= n
         /\ p + AudioLen(e, p, n) < AudioEnd(e, p)
  <1> DEFINE m == Len(e)
             d == AudioEnd(e, p)
             a == AudioLen(e, p, n)
  <1>1. m \in Nat /\ p \in 1 .. m /\ n \in 0 .. m
    OBVIOUS
  <1>2. d \in p + 1 .. m + 1
    BY AudioEndFacts
  <1>3. a = IF n <= p THEN 0 ELSE IF n < d THEN n - p ELSE d - 1 - p
    BY DEF AudioLen
  <1> HIDE DEF m, d, a
  <1>4. CASE n <= p
    <2>1. a = 0
      BY <1>3, <1>4
    <2> QED  BY <1>1, <1>2, <2>1 DEF a, d
  <1>5. CASE ~(n <= p) /\ n < d
    <2>1. a = n - p
      BY <1>3, <1>5
    <2>2. a \in Nat /\ p + a <= n /\ p + a < d
      BY <1>1, <1>2, <1>5, <2>1
    <2> QED  BY <2>2 DEF a, d
  <1>6. CASE ~(n <= p) /\ ~(n < d)
    <2>1. a = d - 1 - p
      BY <1>3, <1>6
    <2>2. a \in Nat /\ p + a <= n /\ p + a < d
      BY <1>1, <1>2, <1>6, <2>1
    <2> QED  BY <2>2 DEF a, d
  <1> QED  BY <1>4, <1>5, <1>6

(* The end marker in what a push has heard: at most one place, its first.  *)
LEMMA HeardEnd ==
  ASSUME NEW e \in Seq(Nat), NEW p \in 1 .. Len(e), NEW hi \in 0 .. Len(e),
         NEW b \in p .. hi, b < AudioEnd(e, p),
         NEW h \in Seq(Nat), Len(h) = hi - b, \A j \in 1 .. hi - b : h[j] = e[b + j]
  PROVE  /\ Contains(h, EndId) <=> AudioEnd(e, p) <= hi
         /\ AudioEnd(e, p) <= hi => FirstOf(EndId, h) = AudioEnd(e, p) - b
         /\ ~(AudioEnd(e, p) <= hi) => FirstOf(EndId, h) = hi - b + 1
  <1> DEFINE m == Len(e)
             d == AudioEnd(e, p)
             g == FirstOf(EndId, h)
             L == hi - b
  <1>1. m \in Nat /\ p \in 1 .. m /\ hi \in 0 .. m /\ b \in p .. hi /\ L \in Nat /\ b + L = hi
    OBVIOUS
  <1>2. /\ d \in p + 1 .. m + 1
        /\ \A i \in p + 1 .. d - 1 : e[i] # EndId
        /\ d <= m => e[d] = EndId
    BY AudioEndFacts
  <1>3. /\ g \in 1 .. L + 1
        /\ \A i \in 1 .. g - 1 : h[i] # EndId
        /\ g <= L => h[g] = EndId
    BY FirstFacts
  <1>4. Contains(h, EndId) <=> \E j \in 1 .. L : h[j] = EndId
    BY DEF Contains
  <1>5. b < d /\ \A j \in 1 .. L : h[j] = e[b + j]
    OBVIOUS
  <1> HIDE DEF m, d, g, L
  <1>6. ASSUME NEW j \in 1 .. L, b + j < d PROVE h[j] # EndId
    <2>1. b + j \in p + 1 .. d - 1
      BY <1>1, <1>2, <1>6
    <2> QED  BY <1>2, <1>5, <2>1
  <1>7. CASE d <= hi
    <2>1. d - b \in 1 .. L /\ b + (d - b) = d /\ d <= m
      <3>1. d \in Int /\ b < d
        BY <1>1, <1>2, <1>5
      <3> QED  BY ONLY <1>1, <1>7, <3>1
    <2>2. h[d - b] = EndId
      BY <1>2, <1>5, <2>1
    <2>3. ~(g < d - b)
      <3> SUFFICES ASSUME g < d - b PROVE FALSE
        OBVIOUS
      <3>1. g \in 1 .. L /\ g <= L /\ b + g < d
        BY <1>1, <1>2, <1>3, <2>1
      <3> QED  BY <1>3, <1>6, <3>1
    <2>4. ~(d - b < g)
      <3> SUFFICES ASSUME d - b < g PROVE FALSE
        OBVIOUS
      <3>1. d - b \in 1 .. g - 1
        BY <1>1, <1>3, <2>1
      <3> QED  BY <1>3, <2>2, <3>1
    <2>5. g = d - b
      <3>1. g \in Int /\ d - b \in Int
        BY <1>1, <1>2, <1>3
      <3> QED  BY <2>3, <2>4, <3>1
    <2> QED  BY <1>4, <1>7, <2>1, <2>2, <2>5 DEF d, g
  <1>8. CASE ~(d <= hi)
    <2>1. \A j \in 1 .. L : b + j < d
      BY <1>1, <1>2, <1>8
    <2>2. ~Contains(h, EndId)
      BY <1>4, <1>6, <2>1
    <2>3. ~(g <= L)
      <3> SUFFICES ASSUME g <= L PROVE FALSE
        OBVIOUS
      <3>0. h[g] = EndId
        BY <1>3
      <3>1. g \in 1 .. L
        <4>1. g \in 1 .. L + 1 /\ L \in Nat
          BY <1>1, <1>3
        <4> QED  BY <4>1
      <3> QED  BY <1>6, <2>1, <3>0, <3>1
    <2>4. g = L + 1
      <3>1. g \in 1 .. L + 1 /\ L \in Nat
        BY <1>1, <1>3
      <3> QED  BY <2>3, <3>1
    <2> QED  BY <1>8, <2>2, <2>4 DEF d, g, L
  <1> QED  BY <1>7, <1>8

(* Where the audio of a push starts, by how much it grows, and where in the *)
(* push an end marker falls.                                               *)
LEMMA PushArith ==
  ASSUME NEW m \in Nat, NEW p \in 1 .. m, NEW lo \in 0 .. m, NEW hi \in lo .. m,
         NEW d \in p + 1 .. m + 1,
         NEW a, a = IF lo <= p THEN 0 ELSE IF lo < d THEN lo - p ELSE d - 1 - p,
         NEW c, c = IF hi <= p THEN 0 ELSE IF hi < d THEN hi - p ELSE d - 1 - p,
         NEW b, b = IF p <= lo THEN lo ELSE IF p <= hi THEN p ELSE hi
  PROVE  /\ a \in Nat /\ c - a \in Nat
         /\ d <= lo => c - a = 0
         /\ ~(d <= lo) /\ p <= hi => b \in p .. hi /\ b < d /\ p + a = b
         /\ ~(d <= lo) /\ p <= hi /\ d <= hi => (d - b) - 1 = c - a
         /\ ~(d <= lo) /\ p <= hi /\ ~(d <= hi) => hi - b = c - a
         /\ ~(p <= hi) => hi - b = 0 /\ c - a = 0 /\ ~(d <= hi)
  <1>1. CASE hi <= p
    <2>1. a = 0 /\ c = 0 /\ ~(d <= hi) /\ ~(d <= lo)
      BY <1>1
    <2>2. p <= lo => b = lo /\ lo = p /\ hi = p
      BY <1>1
    <2>3. ~(p <= lo) => b = hi
      BY <1>1
    <2> QED  BY <1>1, <2>1, <2>2, <2>3
  <1>2. CASE ~(hi <= p) /\ lo <= p
    <2>1. a = 0 /\ b = p /\ ~(d <= lo)
      BY <1>2
    <2>2. hi < d => c = hi - p
      BY <1>2
    <2>3. ~(hi < d) => c = d - 1 - p
      BY <1>2
    <2> QED  BY <1>2, <2>1, <2>2, <2>3
  <1>3. CASE ~(hi <= p) /\ ~(lo <= p)
    <2>1. b = lo
      BY <1>3
    <2>2. /\ hi < d => c = hi - p
          /\ lo < d => a = lo - p
      BY <1>3
    <2>3. /\ ~(hi < d) => c = d - 1 - p
          /\ ~(lo < d) => a = d - 1 - p
      BY <1>3
    <2> QED  BY <1>3, <2>1, <2>2, <2>3
  <1> QED  BY <1>1, <1>2, <1>3

(* A push takes in the audio that is new, and no other token.              *)
Ingests(p, new, a, c, hi) ==
    /\ a \in Nat /\ c - a \in Nat
    /\ (ended \/ Contains(Heard(new), EndId)) <=> AudioEnd(emission, p) <= hi
    /\ Ingested(new) \in Seq(Nat) /\ Len(Ingested(new)) = Len(undrained) + (c - a)
    /\ \A j \in 1 .. Len(undrained) : Ingested(new)[j] = undrained[j]
    /\ \A j \in 1 .. c - a : Ingested(new)[Len(undrained) + j] = emission[p + a + j]

LEMMA IngestFacts ==
  ASSUME emission \in Seq(Nat), NEW p, OneStart(emission, p), fed \in 0 .. Len(emission),
         NEW n \in 1 .. Len(emission) - fed, undrained \in Seq(Nat),
         started <=> p <= fed, ended <=> AudioEnd(emission, p) <= fed
  PROVE  Ingests(p, SubSeq(emission, fed + 1, fed + n),
                 AudioLen(emission, p, fed), AudioLen(emission, p, fed + n), fed + n)
  <1> SUFFICES ASSUME NEW new, new = SubSeq(emission, fed + 1, fed + n),
                      NEW a, a = AudioLen(emission, p, fed),
                      NEW c, c = AudioLen(emission, p, fed + n)
               PROVE  Ingests(p, new, a, c, fed + n)
    OBVIOUS
  <1> DEFINE m == Len(emission)
             d == AudioEnd(emission, p)
             hi == fed + n
             b == HeardFrom(p, fed, hi)
             h == Heard(new)
             g == FirstOf(EndId, h)
             u == SubSeq(h, 1, g - 1)
             L == Len(undrained)
  <1>0. emission \in Seq(Nat) /\ undrained \in Seq(Nat) /\ L \in Nat
    OBVIOUS
  <1>1. m \in Nat /\ fed \in 0 .. m /\ hi \in fed .. m /\ hi \in 0 .. m
    OBVIOUS
  <1>2. p \in 1 .. m
    BY DEF OneStart
  <1>3. d \in p + 1 .. m + 1
    BY <1>2, AudioEndFacts
  <1>4. /\ a = IF fed <= p THEN 0 ELSE IF fed < d THEN fed - p ELSE d - 1 - p
        /\ c = IF hi <= p THEN 0 ELSE IF hi < d THEN hi - p ELSE d - 1 - p
        /\ b = IF p <= fed THEN fed ELSE IF p <= hi THEN p ELSE hi
    BY DEF AudioLen, HeardFrom
  <1>5. h \in Seq(Nat) /\ Len(h) = hi - b /\ \A j \in 1 .. hi - b : h[j] = emission[b + j]
    BY HeardFacts DEF HeardRight
  <1>6. /\ u \in Seq(Nat) /\ Len(u) = g - 1 /\ \A j \in 1 .. g - 1 : u[j] = h[j]
        /\ g \in 1 .. Len(h) + 1
    <2> HIDE DEF h
    <2> QED  BY <1>5, BeforeFirst, FirstFacts
  <1>7. Ingested(new) = IF ended THEN undrained ELSE undrained \o u
    BY DEF Ingested
  <1>8. ended <=> d <= fed
    OBVIOUS
  <1> HIDE DEF m, d, hi, b, h, g, u, L
  <1>9. /\ a \in Nat /\ c - a \in Nat
        /\ d <= fed => c - a = 0
        /\ ~(d <= fed) /\ p <= hi => b \in p .. hi /\ b < d /\ p + a = b
        /\ ~(d <= fed) /\ p <= hi /\ d <= hi => (d - b) - 1 = c - a
        /\ ~(d <= fed) /\ p <= hi /\ ~(d <= hi) => hi - b = c - a
        /\ ~(p <= hi) => hi - b = 0 /\ c - a = 0 /\ ~(d <= hi)
    BY ONLY <1>1, <1>2, <1>3, <1>4, PushArith
  <1>10. CASE ended
    <2>1. Ingested(new) = undrained /\ d <= fed
      BY ONLY <1>7, <1>8, <1>10
    <2>2. c - a = 0 /\ d <= hi
      BY ONLY <1>1, <1>2, <1>3, <1>9, <2>1
    <2>3. \A j \in 1 .. c - a : FALSE
      BY ONLY <2>2
    <2>4. Len(Ingested(new)) = L + (c - a)
      BY ONLY <1>0, <2>1, <2>2 DEF L
    <2>5. \A j \in 1 .. L : Ingested(new)[j] = undrained[j]
      BY ONLY <2>1
    <2>6. \A j \in 1 .. c - a : Ingested(new)[L + j] = emission[p + a + j]
      BY ONLY <2>3
    <2>7. (ended \/ Contains(h, EndId)) <=> d <= hi
      BY ONLY <1>10, <2>2
    <2>8. Ingested(new) \in Seq(Nat)
      BY ONLY <1>0, <2>1
    <2> QED  BY ONLY <1>9, <2>4, <2>5, <2>6, <2>7, <2>8 DEF L, h, d, hi, Ingests
  <1>11. CASE ~ended
    <2>1. Ingested(new) = undrained \o u /\ ~(d <= fed)
      BY ONLY <1>7, <1>8, <1>11
    <2>2. /\ Contains(h, EndId) <=> d <= hi
          /\ g - 1 = c - a
          /\ \A j \in 1 .. c - a : h[j] = emission[p + a + j]
      <3>1. CASE p <= hi
        <4>1. b \in p .. hi /\ b < d /\ p + a = b
          BY ONLY <1>9, <2>1, <3>1
        <4>2. /\ Contains(h, EndId) <=> d <= hi
              /\ d <= hi => g = d - b
              /\ ~(d <= hi) => g = hi - b + 1
          <5>1. p \in 1 .. Len(emission) /\ hi \in 0 .. Len(emission)
                /\ b < AudioEnd(emission, p)
            BY ONLY <1>1, <1>2, <4>1 DEF m, d
          <5>2. /\ Contains(h, EndId) <=> AudioEnd(emission, p) <= hi
                /\ AudioEnd(emission, p) <= hi => FirstOf(EndId, h) = AudioEnd(emission, p) - b
                /\ ~(AudioEnd(emission, p) <= hi) => FirstOf(EndId, h) = hi - b + 1
            BY ONLY <1>0, <1>5, <4>1, <5>1, HeardEnd
          <5> QED  BY ONLY <5>2 DEF d, g
        <4>3. g - 1 = c - a /\ c - a <= hi - b
          <5>1. CASE d <= hi
            <6>1. g - 1 = c - a
              BY ONLY <1>9, <2>1, <3>1, <4>2, <5>1
            <6>2. (d - b) - 1 <= hi - b
              BY ONLY <1>1, <1>3, <1>2, <4>1, <5>1
            <6>3. (d - b) - 1 = c - a
              BY ONLY <1>9, <2>1, <3>1, <5>1
            <6> QED  BY ONLY <6>1, <6>2, <6>3
          <5>2. CASE ~(d <= hi)
            <6>1. g = hi - b + 1 /\ hi - b = c - a
              BY ONLY <1>9, <2>1, <3>1, <4>2, <5>2
            <6>2. c - a \in Nat
              BY ONLY <1>9
            <6> QED  BY ONLY <6>1, <6>2
          <5> QED  BY ONLY <5>1, <5>2
        <4>4. ASSUME NEW j \in 1 .. c - a PROVE h[j] = emission[p + a + j]
          <5>1. hi - b \in Int
            BY ONLY <1>1, <1>2, <4>1
          <5>2. j \in 1 .. hi - b
            BY ONLY <1>9, <4>3, <4>4, <5>1
          <5>3. h[j] = emission[b + j]
            BY ONLY <1>5, <5>2
          <5> QED  BY ONLY <4>1, <5>3
        <4> QED  BY ONLY <4>2, <4>3, <4>4
      <3>2. CASE ~(p <= hi)
        <4>1. hi - b = 0 /\ c - a = 0 /\ ~(d <= hi)
          BY ONLY <1>9, <3>2
        <4>2. Len(h) = 0 /\ g - 1 = c - a
          BY ONLY <1>5, <1>6, <4>1
        <4>3. ~Contains(h, EndId)
          BY ONLY <1>5, <4>2 DEF Contains
        <4>4. \A j \in 1 .. c - a : FALSE
          BY ONLY <4>1
        <4> QED  BY ONLY <4>1, <4>2, <4>3, <4>4
      <3> QED  BY ONLY <3>1, <3>2
    <2>3. /\ undrained \o u \in Seq(Nat) /\ Len(undrained \o u) = L + Len(u)
          /\ \A j \in 1 .. L : (undrained \o u)[j] = undrained[j]
          /\ \A j \in 1 .. Len(u) : (undrained \o u)[L + j] = u[j]
      <3>1. undrained \in Seq(Nat) /\ u \in Seq(Nat) /\ L = Len(undrained)
        BY <1>0, <1>6 DEF L
      <3>2. /\ undrained \o u \in Seq(Nat) /\ Len(undrained \o u) = Len(undrained) + Len(u)
            /\ \A j \in 1 .. Len(undrained) : (undrained \o u)[j] = undrained[j]
            /\ \A j \in 1 .. Len(u) : (undrained \o u)[Len(undrained) + j] = u[j]
        BY ONLY <3>1, ConcatAt
      <3> QED  BY ONLY <3>1, <3>2
    <2>4. Len(u) = c - a /\ \A j \in 1 .. c - a : u[j] = emission[p + a + j]
      BY ONLY <1>6, <2>2
    <2>5. \A j \in 1 .. c - a : Ingested(new)[L + j] = emission[p + a + j]
      BY ONLY <2>1, <2>3, <2>4
    <2>6. /\ Ingested(new) \in Seq(Nat) /\ Len(Ingested(new)) = L + (c - a)
          /\ \A j \in 1 .. L : Ingested(new)[j] = undrained[j]
      BY ONLY <2>1, <2>3, <2>4
    <2>7. (ended \/ Contains(h, EndId)) <=> d <= hi
      BY ONLY <1>11, <2>2
    <2> QED  BY ONLY <1>9, <2>5, <2>6, <2>7 DEF L, h, d, hi, Ingests
  <1> QED  BY ONLY <1>10, <1>11

(* The frame an emission gives at a place, each code clipped.              *)
Frame7 == [Positions -> Codes]
FrameAt(e, p, k) ==
    [x \in Positions |-> Clip(e[p + 7 * (k - 1) + x] - Base - (x - 1) * CodebookSize)]

LEMMA ClipFacts ==
  ASSUME NEW c \in Int
  PROVE  Clip(c) \in Codes /\ (c \in Codes => Clip(c) = c)
  BY CodecAssumption DEF Clip, Codes

LEMMA RawFacts ==
  ASSUME NEW ids \in Seq(Nat)
  PROVE  /\ RawFrames(ids) \in Seq([Positions -> Int])
         /\ Len(RawFrames(ids)) = Len(ids) \div 7 /\ Len(ids) \div 7 \in Nat
         /\ \A i \in 1 .. Len(ids) \div 7 : \A x \in Positions :
              RawFrames(ids)[i][x] = ids[7 * (i - 1) + x] - Base - (x - 1) * CodebookSize
  <1> DEFINE m == Len(ids)
             n == m \div 7
             raw == RawFrames(ids)
             fr(i) == [x \in Positions |-> ids[(i - 1) * 7 + x] - Base - (x - 1) * CodebookSize]
  <1>1. m \in Nat /\ \A i \in 1 .. m : ids[i] \in Nat
    OBVIOUS
  <1> HIDE DEF m
  <1>2. n \in Nat /\ 7 * n <= m
    BY <1>1
  <1>3. raw = [i \in 1 .. n |-> fr(i)]
    BY DEF RawFrames, m, SNAC_NUM_CODEBOOKS
  <1>4. ASSUME NEW i \in 1 .. n PROVE fr(i) \in [Positions -> Int]
    <2>1. ASSUME NEW x \in Positions
          PROVE  ids[(i - 1) * 7 + x] - Base - (x - 1) * CodebookSize \in Int
      <3>1. (i - 1) * 7 + x \in 1 .. m
        BY <1>1, <1>2 DEF Positions, SNAC_NUM_CODEBOOKS
      <3>2. ids[(i - 1) * 7 + x] \in Nat
        BY <1>1, <3>1
      <3>3. (x - 1) * CodebookSize \in Int
        BY CodecAssumption DEF Positions, SNAC_NUM_CODEBOOKS
      <3> DEFINE y == ids[(i - 1) * 7 + x]
                 z == (x - 1) * CodebookSize
      <3>4. y \in Int /\ z \in Int /\ Base \in Int
        BY <3>2, <3>3, CodecAssumption
      <3> HIDE DEF y, z
      <3>5. y - Base - z \in Int
        BY ONLY <3>4
      <3> QED  BY <3>5 DEF y, z
    <2> QED  BY <2>1
  <1> HIDE DEF n
  <1>5. ASSUME NEW i \in 1 .. n, NEW x \in Positions
        PROVE  raw[i][x] = ids[7 * (i - 1) + x] - Base - (x - 1) * CodebookSize
    <2>1. raw[i] = fr(i)
      BY <1>3
    <2>2. (i - 1) * 7 + x = 7 * (i - 1) + x
      BY <1>2
    <2> QED  BY <2>1, <2>2
  <1>6. raw \in [1 .. n -> [Positions -> Int]]
    <2> HIDE DEF fr, raw
    <2> QED  BY <1>3, <1>4
  <1> HIDE DEF raw, fr
  <1>7. raw \in Seq([Positions -> Int]) /\ Len(raw) = n
    BY <1>2, <1>6, FunctionSeq
  <1> QED  BY <1>2, <1>5, <1>7 DEF raw, n, m

(* _drain_frames takes whole frames and leaves the rest.                   *)
LEMMA DrainFacts ==
  ASSUME NEW ids \in Seq(Nat)
  PROVE  /\ Drained(ids) \in Seq(Frame7)
         /\ Len(Drained(ids)) = Len(ids) \div 7
         /\ \A i \in 1 .. Len(ids) \div 7 : Drained(ids)[i] = FrameAt(ids, 0, i)
         /\ Rest(ids) \in Seq(Nat) /\ Len(Rest(ids)) = Len(ids) % 7
         /\ \A j \in 1 .. Len(ids) % 7 : Rest(ids)[j] = ids[7 * (Len(ids) \div 7) + j]
  <1> DEFINE m == Len(ids)
             n == m \div 7
             raw == RawFrames(ids)
             dr == Drained(ids)
             re == Rest(ids)
             cl(i) == [x \in Positions |-> Clip(raw[i][x])]
  <1>1. m \in Nat
    OBVIOUS
  <1>2. /\ raw \in Seq([Positions -> Int]) /\ Len(raw) = n /\ n \in Nat
        /\ \A i \in 1 .. n : \A x \in Positions :
             raw[i][x] = ids[7 * (i - 1) + x] - Base - (x - 1) * CodebookSize
    BY RawFacts
  <1>3. dr = [i \in DOMAIN raw |-> cl(i)]
    BY DEF Drained
  <1> HIDE DEF raw, n, m, dr
  <1>4. DOMAIN raw = 1 .. n /\ \A i \in 1 .. n : raw[i] \in [Positions -> Int]
    BY <1>2
  <1>5. ASSUME NEW i \in 1 .. n PROVE cl(i) \in Frame7 /\ cl(i) = FrameAt(ids, 0, i)
    <2>1. \A x \in Positions : raw[i][x] \in Int
      BY <1>4
    <2>2. \A x \in Positions : Clip(raw[i][x]) \in Codes
      BY <2>1, ClipFacts
    <2>3. ASSUME NEW x \in Positions
          PROVE  raw[i][x] = ids[0 + 7 * (i - 1) + x] - Base - (x - 1) * CodebookSize
      <3>1. 0 + 7 * (i - 1) + x = 7 * (i - 1) + x
        BY DEF Positions, SNAC_NUM_CODEBOOKS
      <3>2. raw[i][x] = ids[7 * (i - 1) + x] - Base - (x - 1) * CodebookSize
        BY <1>2
      <3> QED  BY ONLY <3>1, <3>2
    <2>4. \A x \in Positions :
            Clip(raw[i][x]) = Clip(ids[0 + 7 * (i - 1) + x] - Base - (x - 1) * CodebookSize)
      BY ONLY <2>3
    <2>5. cl(i) = FrameAt(ids, 0, i)
      BY ONLY <2>4 DEF FrameAt
    <2> QED  BY <2>2, <2>5 DEF Frame7
  <1> HIDE DEF cl
  <1>6. dr \in [1 .. n -> Frame7]
    BY <1>3, <1>4, <1>5
  <1>7. dr \in Seq(Frame7) /\ Len(dr) = n
    BY <1>2, <1>6, FunctionSeq
  <1>8. \A i \in 1 .. n : dr[i] = FrameAt(ids, 0, i)
    BY <1>3, <1>4, <1>5
  <1>9. re \in Seq(Nat) /\ Len(re) = m % 7 /\ \A j \in 1 .. m % 7 : re[j] = ids[7 * n + j]
    <2>1. 7 * n \in 0 .. m /\ m - 7 * n = m % 7 /\ m \in 7 * n .. m
      BY <1>1 DEF n
    <2>2. re = SubSeq(ids, 7 * n + 1, m)
      BY DEF Rest, n, m, SNAC_NUM_CODEBOOKS
    <2> DEFINE k == 7 * n
               v == SubSeq(ids, k + 1, m)
    <2> HIDE DEF re, k
    <2>3. k \in 0 .. Len(ids) /\ m \in k .. Len(ids)
      BY <2>1 DEF k, m
    <2>4. v \in Seq(Nat) /\ Len(v) = m - k /\ \A j \in 1 .. m - k : v[j] = ids[k + j]
      BY <2>3, PieceFacts
    <2> QED  BY <2>1, <2>2, <2>4 DEF k
  <1> QED  BY <1>7, <1>8, <1>9 DEF dr, n, m

(* What the windower holds of the audio pushed so far: the frames it has    *)
(* whole, and the tokens of the next.                                      *)
CaughtUp(p) ==
    LET a == AudioLen(emission, p, fed)
    IN  /\ started <=> p <= fed
        /\ ended <=> AudioEnd(emission, p) <= fed
        /\ Len(codes) = a \div 7
        /\ \A k \in 1 .. a \div 7 : codes[k] = FrameAt(emission, p, k)
        /\ Len(undrained) = a % 7
        /\ \A j \in 1 .. a % 7 : undrained[j] = emission[p + 7 * (a \div 7) + j]

(* A push keeps the frames and the rest of a frame in step with the audio. *)
LEMMA CaughtUpStep ==
  ASSUME emission \in Seq(Nat), NEW p, OneStart(emission, p), fed \in 0 .. Len(emission),
         undrained \in Seq(Nat), codes \in Seq(Frame7), CaughtUp(p),
         NEW n \in 1 .. Len(emission) - fed, PushDelta(n)
  PROVE  CaughtUp(p)'
  <1> DEFINE e == emission
             hi == fed + n
             new == SubSeq(e, fed + 1, hi)
             ids == Ingested(new)
             a == AudioLen(e, p, fed)
             c == AudioLen(e, p, hi)
             q == a \div 7
             l == Len(ids)
             dr == Drained(ids)
  <1>1. /\ (started' <=> started \/ (~ended /\ Contains(new, StartId)))
        /\ (ended' <=> ended \/ Contains(Heard(new), EndId))
        /\ undrained' = Rest(ids) /\ codes' = codes \o dr
        /\ fed' = hi /\ emission' = e
    BY DEF PushDelta, Ingest
  <1>2. /\ started <=> p <= fed
        /\ ended <=> AudioEnd(e, p) <= fed
        /\ Len(codes) = q /\ \A k \in 1 .. q : codes[k] = FrameAt(e, p, k)
        /\ Len(undrained) = a % 7
        /\ \A j \in 1 .. a % 7 : undrained[j] = e[p + 7 * q + j]
    BY DEF CaughtUp
  <1>3. HeardRight(p, new, HeardFrom(p, fed, hi), hi)
    BY <1>2, HeardFacts
  <1>4. Ingests(p, new, a, c, hi)
    BY <1>2, IngestFacts
  <1>5. p \in 1 .. Len(e) /\ AudioEnd(e, p) \in p + 1 .. Len(e) + 1
    <2>1. p \in 1 .. Len(e)
      BY DEF OneStart
    <2> QED  BY <2>1, AudioEndFacts
  <1>6. fed \in Nat /\ hi \in Nat /\ fed <= hi
    OBVIOUS
  <1>7. (started' <=> p <= hi) /\ (ended' <=> AudioEnd(e, p) <= hi)
    <2>1. (started \/ Contains(new, StartId)) <=> p <= hi
      BY <1>3 DEF HeardRight
    <2>2. ended => started
      BY ONLY <1>2, <1>5, <1>6
    <2>3. (ended \/ Contains(Heard(new), EndId)) <=> AudioEnd(e, p) <= hi
      BY <1>4 DEF Ingests
    <2> HIDE DEF hi, new, e
    <2> QED  BY ONLY <1>1, <2>1, <2>2, <2>3
  <1>8. /\ a \in Nat /\ c - a \in Nat /\ ids \in Seq(Nat) /\ l = Len(undrained) + (c - a)
        /\ \A j \in 1 .. Len(undrained) : ids[j] = undrained[j]
        /\ \A j \in 1 .. c - a : ids[Len(undrained) + j] = e[p + a + j]
    BY <1>4 DEF Ingests
  <1>9. c \in Nat
    <2>1. hi \in 0 .. Len(e)
      OBVIOUS
    <2> HIDE DEF hi
    <2> QED  BY <1>5, <2>1, AudioLenFacts
  <1>10. l \in Nat
    <2> HIDE DEF ids
    <2> QED  BY <1>8
  <1>11. /\ dr \in Seq(Frame7) /\ Len(dr) = l \div 7
         /\ \A i \in 1 .. l \div 7 : dr[i] = FrameAt(ids, 0, i)
         /\ Rest(ids) \in Seq(Nat) /\ Len(Rest(ids)) = l % 7
         /\ \A j \in 1 .. l % 7 : Rest(ids)[j] = ids[7 * (l \div 7) + j]
    <2> HIDE DEF ids
    <2> QED  BY <1>8, DrainFacts
  <1> HIDE DEF ids, a, c, l, dr, new, hi, e
  <1>12. l = (a % 7) + (c - a)
    BY ONLY <1>2, <1>8
  <1>13. /\ a = 7 * q + (a % 7) /\ a % 7 \in Nat /\ q \in Nat
         /\ c \div 7 = q + l \div 7 /\ l \div 7 \in Nat
         /\ c % 7 = l % 7
    <2>1. a \in Nat /\ c \in Nat /\ l \in Nat
      BY ONLY <1>8, <1>9, <1>10
    <2> QED  BY ONLY <1>12, <2>1
  <1> HIDE DEF q
  <1>14. ASSUME NEW j \in 1 .. l PROVE ids[j] = e[p + 7 * q + j]
    <2>1. CASE j <= a % 7
      <3>1. j \in 1 .. Len(undrained) /\ j \in 1 .. a % 7
        BY ONLY <1>2, <1>10, <1>13, <1>14, <2>1
      <3> QED  BY ONLY <1>2, <1>8, <3>1
    <2>2. CASE ~(j <= a % 7)
      <3> DEFINE i == j - (a % 7)
      <3>1. i \in 1 .. c - a /\ Len(undrained) + i = j /\ p + a + i = p + 7 * q + j
        BY ONLY <1>2, <1>5, <1>8, <1>9, <1>10, <1>12, <1>13, <1>14, <2>2
      <3> HIDE DEF i
      <3>2. ids[Len(undrained) + i] = e[p + a + i]
        BY ONLY <1>8, <3>1
      <3> QED  BY ONLY <3>1, <3>2
    <2> QED  BY ONLY <2>1, <2>2
  <1>15. ASSUME NEW i \in 1 .. l \div 7 PROVE dr[i] = FrameAt(e, p, q + i)
    <2>1. ASSUME NEW x \in Positions
          PROVE  ids[0 + 7 * (i - 1) + x] = e[p + 7 * ((q + i) - 1) + x]
      <3> DEFINE j == 0 + 7 * (i - 1) + x
      <3>1. x \in 1 .. 7
        BY ONLY <2>1 DEF Positions, SNAC_NUM_CODEBOOKS
      <3>2. j \in 1 .. l /\ p + 7 * q + j = p + 7 * ((q + i) - 1) + x
        <4>1. p \in Int /\ q \in Int /\ l \in Nat
          BY ONLY <1>5, <1>10, <1>13
        <4>2. 7 * (l \div 7) <= l /\ i <= l \div 7 /\ i \in Nat /\ i >= 1
          BY ONLY <1>15, <4>1
        <4>3. j \in 1 .. l
          BY ONLY <3>1, <4>1, <4>2
        <4>4. j = 7 * (i - 1) + x /\ 7 * ((q + i) - 1) + x = 7 * q + (7 * (i - 1) + x)
          BY ONLY <3>1, <4>1, <4>2
        <4> HIDE DEF j
        <4>5. 7 * ((q + i) - 1) + x = 7 * q + j /\ j \in Int
          BY ONLY <4>3, <4>4
        <4>6. p + 7 * q + j = p + (7 * q + j)
          BY ONLY <4>1, <4>5
        <4>7. p + 7 * ((q + i) - 1) + x = p + (7 * ((q + i) - 1) + x)
          BY ONLY <3>1, <4>1, <4>2
        <4> QED  BY ONLY <4>3, <4>5, <4>6, <4>7
      <3> HIDE DEF j
      <3>3. ids[j] = e[p + 7 * q + j]
        BY ONLY <1>14, <3>2
      <3> QED  BY ONLY <3>2, <3>3 DEF j
    <2>2. dr[i] = FrameAt(ids, 0, i)
      BY ONLY <1>11, <1>15
    <2>3. FrameAt(ids, 0, i) = FrameAt(e, p, q + i)
      BY ONLY <2>1 DEF FrameAt
    <2> QED  BY ONLY <2>2, <2>3
  <1>16. /\ codes \o dr \in Seq(Frame7) /\ Len(codes \o dr) = q + l \div 7
         /\ \A j \in 1 .. q : (codes \o dr)[j] = codes[j]
         /\ \A j \in 1 .. l \div 7 : (codes \o dr)[q + j] = dr[j]
    <2>1. codes \in Seq(Frame7) /\ dr \in Seq(Frame7)
      BY <1>11
    <2>2. /\ codes \o dr \in Seq(Frame7) /\ Len(codes \o dr) = Len(codes) + Len(dr)
          /\ \A j \in 1 .. Len(codes) : (codes \o dr)[j] = codes[j]
          /\ \A j \in 1 .. Len(dr) : (codes \o dr)[Len(codes) + j] = dr[j]
      BY ONLY <2>1, ConcatAt
    <2> QED  BY ONLY <1>2, <1>11, <2>2
  <1>17. Len(codes') = c \div 7
    BY ONLY <1>1, <1>13, <1>16
  <1>18. ASSUME NEW k \in 1 .. c \div 7 PROVE codes'[k] = FrameAt(e, p, k)
    <2>1. CASE k <= q
      <3>1. k \in 1 .. q
        BY ONLY <1>13, <1>18, <2>1
      <3> QED  BY ONLY <1>1, <1>2, <1>16, <3>1
    <2>2. CASE ~(k <= q)
      <3> DEFINE i == k - q
      <3>1. i \in 1 .. l \div 7 /\ q + i = k
        BY ONLY <1>13, <1>18, <2>2
      <3> HIDE DEF i
      <3>2. (codes \o dr)[q + i] = dr[i] /\ dr[i] = FrameAt(e, p, q + i)
        BY ONLY <1>15, <1>16, <3>1
      <3> QED  BY ONLY <1>1, <3>1, <3>2
    <2> QED  BY ONLY <2>1, <2>2
  <1>19. Len(undrained') = c % 7
    BY ONLY <1>1, <1>11, <1>13
  <1>20. ASSUME NEW j \in 1 .. c % 7 PROVE undrained'[j] = e[p + 7 * (c \div 7) + j]
    <2> DEFINE i == 7 * (l \div 7) + j
    <2>1. j \in 1 .. l % 7
      BY ONLY <1>13, <1>20
    <2>2. i \in 1 .. l
      BY ONLY <1>10, <2>1
    <2>3. p + 7 * q + i = p + 7 * (c \div 7) + j
      <3>1. p \in Int /\ q \in Int /\ j \in Int /\ l \div 7 \in Int /\ c \div 7 = q + l \div 7
        BY ONLY <1>5, <1>13, <1>20
      <3> DEFINE y == l \div 7
                 z == c \div 7
      <3> HIDE DEF y, z
      <3>2. p \in Int /\ q \in Int /\ j \in Int /\ y \in Int /\ z = q + y
        BY ONLY <3>1 DEF y, z
      <3>3. p + 7 * q + (7 * y + j) = p + 7 * z + j
        BY ONLY <3>2
      <3> QED  BY ONLY <3>3 DEF y, z
    <2>4. undrained'[j] = ids[i]
      BY ONLY <1>1, <1>11, <2>1
    <2> HIDE DEF i
    <2>5. ids[i] = e[p + 7 * q + i]
      BY ONLY <1>14, <2>2
    <2> QED  BY ONLY <2>3, <2>4, <2>5
  <1>21. AudioLen(emission', p, fed') = c /\ AudioEnd(emission', p) = AudioEnd(e, p)
         /\ emission' = e /\ fed' = hi
    BY ONLY <1>1 DEF c
  <1> QED  BY ONLY <1>7, <1>17, <1>18, <1>19, <1>20, <1>21 DEF CaughtUp

(* What a request that reads n tokens at once is given: the audio of them. *)
ExtractRight(e, p, n, s) ==
    /\ s \in Seq(Nat) /\ Len(s) = AudioLen(e, p, n)
    /\ \A j \in 1 .. AudioLen(e, p, n) : s[j] = e[p + j]

LEMMA ExtractFacts ==
  ASSUME NEW e \in Seq(Nat), NEW p, OneStart(e, p), NEW n \in 0 .. Len(e)
  PROVE  ExtractRight(e, p, n, ExtractAudio(SubSeq(e, 1, n)))
  <1> DEFINE m == Len(e)
             g == SubSeq(e, 1, n)
             d == AudioEnd(e, p)
             a == AudioLen(e, p, n)
             starts == {i \in DOMAIN g : g[i] = StartId}
             ends(x) == {i \in DOMAIN g : i > x /\ g[i] = EndId}
             upto(x) == IF ends(x) = {} THEN Len(g) ELSE Min(ends(x)) - 1
             s == ExtractAudio(g)
  <1>1. m \in Nat /\ n \in 0 .. m /\ DOMAIN e = 1 .. m
    OBVIOUS
  <1>2. p \in 1 .. m /\ e[p] = StartId /\ \A i \in 1 .. m : e[i] = StartId => i = p
    BY <1>1 DEF OneStart
  <1>3. /\ d \in p + 1 .. m + 1
        /\ \A i \in p + 1 .. d - 1 : e[i] # EndId
        /\ d <= m => e[d] = EndId
    BY <1>2, AudioEndFacts
  <1>4. a = IF n <= p THEN 0 ELSE IF n < d THEN n - p ELSE d - 1 - p
    BY DEF AudioLen
  <1>5. g \in Seq(Nat) /\ Len(g) = n /\ \A j \in 1 .. n : g[j] = e[j]
    BY SplitAt
  <1>6. s = IF starts = {} THEN <<>> ELSE SubSeq(g, Max(starts) + 1, upto(Max(starts)))
    BY DEF ExtractAudio
  <1> HIDE DEF g, m, d, a, s
  <1>7. DOMAIN g = 1 .. n
    BY <1>5
  <1>8. \A i : i \in starts <=> i \in 1 .. n /\ e[i] = StartId
    BY <1>5, <1>7
  <1>9. CASE ~(p <= n)
    <2>1. ASSUME NEW i \in starts PROVE FALSE
      <3>1. i \in 1 .. n /\ e[i] = StartId
        BY <1>8, <2>1
      <3>2. i \in 1 .. m
        BY ONLY <1>1, <3>1
      <3> QED  BY ONLY <1>1, <1>2, <1>9, <3>1, <3>2
    <2>2. s = <<>>
      BY <1>6, <2>1
    <2>3. a = 0
      BY ONLY <1>1, <1>2, <1>4, <1>9
    <2>4. s \in Seq(Nat) /\ Len(s) = 0 /\ \A j \in 1 .. a : FALSE
      BY ONLY <2>2, <2>3
    <2> QED  BY ONLY <2>3, <2>4 DEF ExtractRight, a, s, g
  <1>10. CASE p <= n
    <2>1. p \in 1 .. n
      BY ONLY <1>1, <1>2, <1>10
    <2>2. p \in starts /\ starts \subseteq 0 .. n
      BY <1>2, <1>8, <2>1
    <2>3. Max(starts) = p
      <3>1. Max(starts) \in starts
        <4> HIDE DEF starts
        <4>1. n \in Nat /\ starts # {}
          BY <1>1, <2>2
        <4> QED  BY ONLY <2>2, <4>1, ExtremeFacts
      <3>2. Max(starts) \in 1 .. n /\ e[Max(starts)] = StartId
        BY <1>8, <3>1
      <3> HIDE DEF starts
      <3>3. Max(starts) \in 1 .. m
        BY ONLY <1>1, <3>2
      <3> QED  BY ONLY <1>2, <3>2, <3>3
    <2>4. s = SubSeq(g, p + 1, upto(p))
      BY <1>6, <2>2, <2>3
    <2> DEFINE T == ends(p)
    <2>5. upto(p) = IF T = {} THEN n ELSE Min(T) - 1
      BY <1>5
    <2>6. \A i : i \in T <=> i \in 1 .. n /\ i > p /\ e[i] = EndId
      BY <1>5, <1>7
    <2> DEFINE b == upto(p)
    <2> HIDE DEF T, starts, ends, upto
    <2>7. b \in p .. n /\ b - p = a
      <3>1. CASE d <= n
        <4>1. d \in 1 .. n /\ d > p /\ e[d] = EndId
          BY ONLY <1>1, <1>2, <1>3, <3>1
        <4>2. d \in T
          BY ONLY <2>6, <4>1
        <4>3. T \subseteq 0 .. n /\ T # {} /\ n \in Nat
          BY ONLY <1>1, <2>6, <4>2
        <4>4. Min(T) \in T /\ \A i \in T : Min(T) <= i
          BY ONLY <4>3, ExtremeFacts
        <4> DEFINE x == Min(T)
        <4>5. x \in 1 .. n /\ x > p /\ e[x] = EndId /\ x <= d
          BY ONLY <2>6, <4>2, <4>4
        <4> HIDE DEF x
        <4>6. ~(x < d)
          <5> SUFFICES ASSUME x < d PROVE FALSE
            OBVIOUS
          <5>1. x \in p + 1 .. d - 1
            BY ONLY <1>1, <1>2, <1>3, <4>5, x < d
          <5> QED  BY ONLY <1>3, <4>5, <5>1
        <4>7. x = d
          BY ONLY <1>1, <1>2, <1>3, <4>5, <4>6
        <4>8. b = d - 1
          BY ONLY <2>5, <4>3, <4>7 DEF b, x
        <4>9. a = d - 1 - p
          BY ONLY <1>1, <1>2, <1>3, <1>4, <3>1
        <4> QED  BY ONLY <1>1, <1>2, <1>3, <3>1, <4>8, <4>9
      <3>2. CASE ~(d <= n)
        <4>1. ASSUME NEW i \in T PROVE FALSE
          <5>1. i \in 1 .. n /\ i > p /\ e[i] = EndId
            BY ONLY <2>6, <4>1
          <5>2. i \in p + 1 .. d - 1
            BY ONLY <1>1, <1>2, <1>3, <3>2, <5>1
          <5> QED  BY ONLY <1>3, <5>1, <5>2
        <4>2. b = n
          BY ONLY <2>5, <4>1 DEF b
        <4>3. a = n - p
          BY ONLY <1>1, <1>2, <1>3, <1>4, <1>10, <3>2
        <4> QED  BY ONLY <1>1, <2>1, <4>2, <4>3
      <3> QED  BY ONLY <3>1, <3>2
    <2> HIDE DEF b
    <2>8. p \in 0 .. Len(g) /\ b \in p .. Len(g) /\ g \in Seq(Nat)
      BY ONLY <1>1, <1>5, <2>1, <2>7
    <2>9. /\ SubSeq(g, p + 1, b) \in Seq(Nat) /\ Len(SubSeq(g, p + 1, b)) = b - p
          /\ \A j \in 1 .. b - p : SubSeq(g, p + 1, b)[j] = g[p + j]
      BY ONLY <2>8, PieceFacts
    <2>10. s = SubSeq(g, p + 1, b)
      BY ONLY <2>4 DEF b
    <2>11. \A j \in 1 .. a : s[j] = e[p + j]
      <3>1. ASSUME NEW j \in 1 .. a PROVE p + j \in 1 .. n
        BY ONLY <1>1, <2>1, <2>7, <3>1
      <3> QED  BY ONLY <1>5, <2>7, <2>9, <2>10, <3>1
    <2> QED  BY ONLY <2>7, <2>9, <2>10, <2>11 DEF ExtractRight, a, s, g
  <1> QED  BY <1>9, <1>10 DEF s, g

(* A frame in the places of its codes.                                     *)
LEMMA FrameOf ==
  ASSUME NEW f \in Frame7
  PROVE  f = <<f[1], f[2], f[3], f[4], f[5], f[6], f[7]>> /\ \A x \in 1 .. 7 : f[x] \in Codes
  <1>1. f \in [1 .. 7 -> Codes]
    BY DEF Frame7, Positions, SNAC_NUM_CODEBOOKS
  <1> QED  BY <1>1

(* Streams taken apart and put together again.                             *)
LEMMA DecodeStreams ==
  ASSUME NEW fr \in Seq(Frame7)
  PROVE  SnacDecode(Streams(fr)) = fr
  <1> DEFINE n == Len(fr)
             c0 == [i \in 1 .. n |-> fr[i][1]]
             c1 == [i \in 1 .. 2 * n |-> LET x == fr[(i + 1) \div 2]
                                         IN  IF i % 2 = 1 THEN x[2] ELSE x[5]]
             c2 == [i \in 1 .. 4 * n |-> LET x == fr[(i + 3) \div 4]
                                         IN  CASE i % 4 = 1 -> x[3] [] i % 4 = 2 -> x[4]
                                               [] i % 4 = 3 -> x[6] [] i % 4 = 0 -> x[7]]
  <1>1. n \in Nat /\ fr \in [1 .. n -> Frame7]
    OBVIOUS
  <1>2. Streams(fr) = <<c0, c1, c2>>
    BY DEF Streams
  <1> HIDE DEF n
  <1>3. Len(c0) = n
    <2>1. \A i \in 1 .. n : fr[i][1] \in Codes
      BY <1>1, FrameOf
    <2>2. c0 \in [1 .. n -> Codes]
      BY <2>1
    <2> HIDE DEF c0
    <2> QED  BY <1>1, <2>2, FunctionSeq
  <1>4. ASSUME NEW i \in 1 .. n PROVE Frame(<<c0, c1, c2>>, i) = fr[i]
    <2> DEFINE f == fr[i]
    <2>1. c0[i] = f[1]
      BY <1>4
    <2>2. /\ (2 * i - 1 + 1) \div 2 = i /\ (2 * i - 1) % 2 = 1 /\ 2 * i - 1 \in 1 .. 2 * n
          /\ (2 * i + 1) \div 2 = i /\ (2 * i) % 2 = 0 /\ 2 * i \in 1 .. 2 * n
      BY <1>1, <1>4
    <2>3. c1[2 * i - 1] = f[2] /\ c1[2 * i] = f[5]
      BY <2>2
    <2>4. /\ (4 * i - 3 + 3) \div 4 = i /\ (4 * i - 3) % 4 = 1 /\ 4 * i - 3 \in 1 .. 4 * n
          /\ (4 * i - 2 + 3) \div 4 = i /\ (4 * i - 2) % 4 = 2 /\ 4 * i - 2 \in 1 .. 4 * n
          /\ (4 * i - 1 + 3) \div 4 = i /\ (4 * i - 1) % 4 = 3 /\ 4 * i - 1 \in 1 .. 4 * n
          /\ (4 * i + 3) \div 4 = i /\ (4 * i) % 4 = 0 /\ 4 * i \in 1 .. 4 * n
      BY <1>1, <1>4
    <2>5. c2[4 * i - 3] = f[3] /\ c2[4 * i - 2] = f[4] /\ c2[4 * i - 1] = f[6] /\ c2[4 * i] = f[7]
      <3> DEFINE code(k) == CASE k % 4 = 1 -> fr[(k + 3) \div 4][3] [] k % 4 = 2 -> fr[(k + 3) \div 4][4]
                              [] k % 4 = 3 -> fr[(k + 3) \div 4][6] [] k % 4 = 0 -> fr[(k + 3) \div 4][7]
      <3>1. \A k \in 1 .. 4 * n : c2[k] = code(k)
        OBVIOUS
      <3>2. \A k : k % 4 = 1 => code(k) = fr[(k + 3) \div 4][3]
        OBVIOUS
      <3>3. \A k : k % 4 = 2 => code(k) = fr[(k + 3) \div 4][4]
        OBVIOUS
      <3>4. \A k : k % 4 = 3 => code(k) = fr[(k + 3) \div 4][6]
        OBVIOUS
      <3>5. \A k : k % 4 = 0 => code(k) = fr[(k + 3) \div 4][7]
        OBVIOUS
      <3> HIDE DEF code, c2, n
      <3>6. code(4 * i - 3) = f[3]
        BY <2>4, <3>2
      <3>7. code(4 * i - 2) = f[4]
        BY <2>4, <3>3
      <3>8. code(4 * i - 1) = f[6]
        BY <2>4, <3>4
      <3>9. code(4 * i) = f[7]
        BY <2>4, <3>5
      <3> HIDE DEF f
      <3> QED  BY <2>4, <3>1, <3>6, <3>7, <3>8, <3>9
    <2> HIDE DEF c0, c1, c2
    <2>6. Frame(<<c0, c1, c2>>, i) = <<f[1], f[2], f[3], f[4], f[5], f[6], f[7]>>
      BY <2>1, <2>3, <2>5 DEF Frame
    <2>7. f \in Frame7
      BY <1>1, <1>4
    <2> HIDE DEF f
    <2>8. f = <<f[1], f[2], f[3], f[4], f[5], f[6], f[7]>>
      <3>1. \A g \in Frame7 : g = <<g[1], g[2], g[3], g[4], g[5], g[6], g[7]>>
        BY FrameOf
      <3> QED  BY ONLY <2>7, <3>1
    <2>9. Frame(<<c0, c1, c2>>, i) = f
      BY ONLY <2>6, <2>8
    <2> QED  BY <2>9 DEF f
  <1> HIDE DEF c0, c1, c2
  <1>5. SnacDecode(Streams(fr)) = [i \in 1 .. n |-> Frame(<<c0, c1, c2>>, i)]
    BY <1>2, <1>3 DEF SnacDecode, Frames
  <1> QED  BY <1>1, <1>4, <1>5

(* A window as the decoder cuts it: of its frames, the second.             *)
LEMMA SecondFrame ==
  ASSUME NEW w \in Nat, w >= 2, NEW frames \in [1 .. w -> Frame7]
  PROVE  DecodeWindow(frames) = frames[2]
  <1>1. frames \in Seq(Frame7)
    BY FunctionSeq
  <1>2. SnacDecode(Streams(frames)) = frames
    BY <1>1, DecodeStreams
  <1> QED  BY <1>2 DEF DecodeWindow

(* The windows around the first n of the frames, as lists.                 *)
Window(w, k, fr) ==
    [x \in 1 .. w |-> LET f == k - 2 + x
                      IN  IF f \in 0 .. Len(fr) - 1 THEN fr[f + 1] ELSE ZeroFrame]
Windows(w, n, fr) == [i \in 1 .. n |-> Window(w, i - 1, fr)]

LEMMA WindowFacts ==
  ASSUME NEW w \in Nat, NEW k \in Int, NEW fr \in Seq(Frame7)
  PROVE  /\ Window(w, k, fr) \in [1 .. w -> Frame7]
         /\ w >= 2 /\ k + 1 \in 1 .. Len(fr) => Window(w, k, fr)[2] = fr[k + 1]
  <1> DEFINE at(x) == LET f == k - 2 + x
                      IN  IF f \in 0 .. Len(fr) - 1 THEN fr[f + 1] ELSE ZeroFrame
  <1>1. Window(w, k, fr) = [x \in 1 .. w |-> at(x)]
    BY DEF Window
  <1>2. Len(fr) \in Nat /\ \A j \in 1 .. Len(fr) : fr[j] \in Frame7
    OBVIOUS
  <1>3. ZeroFrame \in Frame7
    BY CodecAssumption DEF ZeroFrame, Frame7, Codes
  <1>4. ASSUME NEW x \in 1 .. w PROVE at(x) \in Frame7
    <2> DEFINE f == k - 2 + x
    <2>1. CASE f \in 0 .. Len(fr) - 1
      <3>1. f + 1 \in 1 .. Len(fr)
        BY <1>2, <2>1
      <3> QED  BY <1>2, <2>1, <3>1
    <2>2. CASE ~(f \in 0 .. Len(fr) - 1)
      BY <1>3, <2>2
    <2> QED  BY <2>1, <2>2
  <1>5. ASSUME w >= 2, k + 1 \in 1 .. Len(fr) PROVE at(2) = fr[k + 1]
    <2>1. k - 2 + 2 = k /\ k \in 0 .. Len(fr) - 1
      BY <1>2, <1>5
    <2> QED  BY <2>1
  <1> HIDE DEF at
  <1>6. [x \in 1 .. w |-> at(x)] \in [1 .. w -> Frame7]
    BY <1>4
  <1>7. w >= 2 => 2 \in 1 .. w
    OBVIOUS
  <1> QED  BY <1>1, <1>5, <1>6, <1>7

(* A window all of whose frames have come does not change any more.        *)
LEMMA WindowSettled ==
  ASSUME NEW w \in Nat, NEW k \in Nat, NEW f1 \in Seq(Frame7), NEW f2 \in Seq(Frame7),
         Len(f1) <= Len(f2), \A j \in 1 .. Len(f1) : f2[j] = f1[j],
         k + w - 1 <= Len(f1)
  PROVE  Window(w, k, f1) = Window(w, k, f2)
  <1> DEFINE m1 == Len(f1)
             m2 == Len(f2)
             at(fr, x) == LET f == k - 2 + x
                          IN  IF f \in 0 .. Len(fr) - 1 THEN fr[f + 1] ELSE ZeroFrame
  <1>1. m1 \in Nat /\ m2 \in Nat /\ m1 <= m2 /\ k + w - 1 <= m1
        /\ \A j \in 1 .. m1 : f2[j] = f1[j]
    OBVIOUS
  <1> HIDE DEF m1, m2
  <1>2. ASSUME NEW x \in 1 .. w PROVE at(f1, x) = at(f2, x)
    <2> DEFINE f == k - 2 + x
    <2>1. f \in Int /\ f + 1 <= m1
      BY ONLY <1>1, <1>2, w \in Nat, k \in Nat
    <2> HIDE DEF f
    <2>2. CASE f \in 0 .. m1 - 1
      <3>1. f \in 0 .. m2 - 1 /\ f + 1 \in 1 .. m1
        BY ONLY <1>1, <2>2
      <3> QED  BY <1>1, <2>2, <3>1 DEF f, m1, m2
    <2>3. CASE ~(f \in 0 .. m1 - 1)
      <3>1. ~(f \in 0 .. m2 - 1)
        BY ONLY <1>1, <2>1, <2>3
      <3> QED  BY <2>3, <3>1 DEF f, m1, m2
    <2> QED  BY <2>2, <2>3
  <1>3. /\ Window(w, k, f1) = [x \in 1 .. w |-> at(f1, x)]
        /\ Window(w, k, f2) = [x \in 1 .. w |-> at(f2, x)]
    BY DEF Window
  <1> HIDE DEF at
  <1> QED  BY <1>2, <1>3

(* The windows already sent and those sent now are the windows up to there. *)
LEMMA WindowsJoin ==
  ASSUME wf \in Nat, NEW from \in Nat, NEW upto \in Nat, from <= upto, NEW fr \in Seq(Frame7)
  PROVE  Windows(wf, from, fr) \o WindowsFor(from, upto, fr) = Windows(wf, upto, fr)
  <1> DEFINE S == [1 .. wf -> Frame7]
             p == Windows(wf, from, fr)
             q == WindowsFor(from, upto, fr)
             r == Windows(wf, upto, fr)
             n == upto - from
  <1>1. n \in Nat /\ from + n = upto
    OBVIOUS
  <1>2. \A k \in Int : Window(wf, k, fr) \in S
    BY WindowFacts
  <1>3. /\ p = [i \in 1 .. from |-> Window(wf, i - 1, fr)]
        /\ q = [i \in 1 .. n |-> Window(wf, from + i - 1, fr)]
        /\ r = [i \in 1 .. upto |-> Window(wf, i - 1, fr)]
    BY DEF Windows, WindowsFor, WindowFor, Window
  <1> HIDE DEF S, p, q, r, n
  <1>4. p \in [1 .. from -> S] /\ q \in [1 .. n -> S] /\ r \in [1 .. upto -> S]
    <2>1. \A i \in Nat : i - 1 \in Int /\ from + i - 1 \in Int
      OBVIOUS
    <2> QED  BY <1>1, <1>2, <1>3, <2>1
  <1>5. p \in Seq(S) /\ Len(p) = from /\ q \in Seq(S) /\ Len(q) = n
        /\ r \in Seq(S) /\ Len(r) = upto
    BY <1>1, <1>4, FunctionSeq
  <1>6. /\ p \o q \in Seq(S) /\ Len(p \o q) = from + n
        /\ \A j \in 1 .. from : (p \o q)[j] = p[j]
        /\ \A j \in 1 .. n : (p \o q)[from + j] = q[j]
    <2>1. /\ p \o q \in Seq(S) /\ Len(p \o q) = Len(p) + Len(q)
          /\ \A j \in 1 .. Len(p) : (p \o q)[j] = p[j]
          /\ \A j \in 1 .. Len(q) : (p \o q)[Len(p) + j] = q[j]
      <3>1. p \in Seq(S) /\ q \in Seq(S)
        BY ONLY <1>5
      <3> QED  BY ONLY <3>1, ConcatAt
    <2> QED  BY ONLY <1>5, <2>1
  <1>7. ASSUME NEW j \in 1 .. upto PROVE (p \o q)[j] = r[j]
    <2>1. CASE j \in 1 .. from
      BY <1>3, <1>6, <2>1
    <2>2. CASE ~(j \in 1 .. from)
      <3> DEFINE i == j - from
      <3>1. i \in 1 .. n /\ from + i = j /\ from + i - 1 = j - 1
        BY <1>1, <1>7, <2>2
      <3> HIDE DEF i
      <3>2. q[i] = Window(wf, j - 1, fr) /\ r[j] = Window(wf, j - 1, fr)
        BY <1>3, <3>1
      <3> QED  BY <1>6, <3>1, <3>2
    <2> QED  BY <2>1, <2>2
  <1>8. Len(p \o q) = Len(r)
    BY <1>1, <1>5, <1>6
  <1>9. \A j \in 1 .. Len(p \o q) : (p \o q)[j] = r[j]
    BY <1>1, <1>6, <1>7
  <1>10. p \o q = r
    BY ONLY <1>5, <1>6, <1>8, <1>9, SeqEqual
  <1> QED  BY <1>10 DEF p, q, r

-----------------------------------------------------------------------------
(* The inductive invariant: what is held is what has come, and what is sent *)
(* is every window whose frames have all come, or all of them at the end.  *)
WindowTypes ==
    /\ wf \in WindowSizes /\ emission \in Emissions /\ fed \in 0 .. Len(emission)
    /\ started \in BOOLEAN /\ ended \in BOOLEAN /\ flushed \in BOOLEAN
    /\ undrained \in Seq(Nat) /\ codes \in Seq(Frame7)

ReadyWindows(w, n) == IF n - w + 2 > 0 THEN n - w + 2 ELSE 0
SentInv ==
    /\ dispatched = IF flushed THEN Len(codes) ELSE ReadyWindows(wf, Len(codes))
    /\ jobs = Windows(wf, dispatched, codes)

WindowInv ==
    /\ WindowTypes /\ SentInv
    /\ \A p \in DOMAIN emission : OneStart(emission, p) => CaughtUp(p)

LEMMA WindowSizeFacts ==
  ASSUME wf \in WindowSizes, emission \in Emissions
  PROVE  wf \in Nat /\ wf >= 2 /\ emission \in Seq(Nat)
  BY WindowAssumption

(* The next window to send, before and after a push.                       *)
LEMMA ReadyArith ==
  ASSUME NEW w \in Nat, w >= 2, NEW m \in Nat, NEW n \in Nat, m <= n
  PROVE  /\ ReadyWindows(w, m) \in 0 .. m /\ ReadyWindows(w, m) <= ReadyWindows(w, n)
         /\ \A i \in 1 .. ReadyWindows(w, m) : (i - 1) + w - 1 <= m
         /\ n - w + 2 > ReadyWindows(w, m) => ReadyWindows(w, n) = n - w + 2
         /\ ~(n - w + 2 > ReadyWindows(w, m)) => ReadyWindows(w, n) = ReadyWindows(w, m)
  <1>1. CASE m - w + 2 > 0
    <2>1. ReadyWindows(w, m) = m - w + 2
      BY ONLY <1>1 DEF ReadyWindows
    <2>2. ReadyWindows(w, n) = n - w + 2 /\ n - w + 2 >= m - w + 2
      <3>1. n - w + 2 > 0 /\ n - w + 2 >= m - w + 2
        BY <1>1
      <3> QED  BY ONLY <3>1 DEF ReadyWindows
    <2>3. n - w + 2 > m - w + 2 \/ n - w + 2 = m - w + 2
      BY <2>2
    <2> QED  BY <1>1, <2>1, <2>2, <2>3
  <1>2. CASE ~(m - w + 2 > 0)
    <2>1. ReadyWindows(w, m) = 0
      BY ONLY <1>2 DEF ReadyWindows
    <2>2. ReadyWindows(w, n) = IF n - w + 2 > 0 THEN n - w + 2 ELSE 0
      BY DEF ReadyWindows
    <2>3. ReadyWindows(w, n) \in Nat
      BY <2>2
    <2> QED  BY <2>1, <2>2, <2>3
  <1> QED  BY <1>1, <1>2

LEMMA WindowInvInit == WindowInit => WindowInv
  <1> SUFFICES ASSUME WindowInit PROVE WindowInv
    OBVIOUS
  <1>1. wf \in Nat /\ wf >= 2 /\ emission \in Seq(Nat)
    BY WindowSizeFacts DEF WindowInit
  <1>2. WindowTypes
    <2>1. wf \in WindowSizes /\ emission \in Emissions /\ fed = 0 /\ Len(emission) \in Nat
      BY <1>1 DEF WindowInit
    <2>2. /\ started = FALSE /\ ended = FALSE /\ flushed = FALSE
          /\ undrained = <<>> /\ codes = <<>>
      BY DEF WindowInit
    <2>3. undrained \in Seq(Nat) /\ codes \in Seq(Frame7)
      BY ONLY <2>2
    <2>4. fed \in 0 .. Len(emission)
      BY ONLY <2>1
    <2> QED  BY ONLY <2>1, <2>2, <2>3, <2>4 DEF WindowTypes
  <1>3. SentInv
    <2>1. ReadyWindows(wf, 0) = 0
      <3>1. ReadyWindows(wf, 0) \in 0 .. 0
        BY <1>1, ReadyArith
      <3> QED  BY <3>1
    <2>2. Windows(wf, 0, codes) = <<>>
      BY DEF Windows
    <2>3. dispatched = 0 /\ jobs = <<>> /\ flushed = FALSE /\ Len(codes) = 0
      BY DEF WindowInit
    <2> QED  BY <2>1, <2>2, <2>3 DEF SentInv
  <1>4. ASSUME NEW p \in DOMAIN emission, OneStart(emission, p) PROVE CaughtUp(p)
    <2>1. p \in 1 .. Len(emission)
      BY <1>1
    <2>2. AudioEnd(emission, p) \in p + 1 .. Len(emission) + 1
      BY <1>1, <2>1, AudioEndFacts
    <2>3. /\ started = FALSE /\ ended = FALSE /\ fed = 0
          /\ Len(codes) = 0 /\ Len(undrained) = 0
      BY DEF WindowInit
    <2>4. AudioLen(emission, p, fed) = 0
      BY <2>1, <2>3 DEF AudioLen
    <2>5. ~(p <= fed) /\ ~(AudioEnd(emission, p) <= fed)
      BY <2>1, <2>2, <2>3
    <2>6. 0 \div 7 = 0 /\ 0 % 7 = 0 /\ 1 .. 0 = {}
      OBVIOUS
    <2> QED  BY ONLY <2>3, <2>4, <2>5, <2>6 DEF CaughtUp
  <1> QED  BY <1>2, <1>3, <1>4 DEF WindowInv

(* A push keeps the types, and only ever adds frames.                      *)
LEMMA PushTypes ==
  ASSUME WindowTypes, NEW n \in 1 .. Len(emission) - fed, PushDelta(n)
  PROVE  /\ WindowTypes'
         /\ Len(codes) <= Len(codes') /\ \A j \in 1 .. Len(codes) : codes'[j] = codes[j]
  <1> DEFINE new == SubSeq(emission, fed + 1, fed + n)
             ids == Ingested(new)
             dr == Drained(ids)
  <1>1. /\ wf \in Nat /\ emission \in Seq(Nat) /\ fed \in 0 .. Len(emission)
        /\ undrained \in Seq(Nat) /\ codes \in Seq(Frame7)
    BY WindowSizeFacts DEF WindowTypes
  <1>2. /\ undrained' = Rest(ids) /\ codes' = codes \o dr
        /\ fed' = fed + n /\ UNCHANGED <<wf, emission, flushed>>
        /\ IF ended THEN UNCHANGED <<started, ended>> ELSE Ingest(new)
    BY DEF PushDelta
  <1>3. new \in Seq(Nat)
    <2>1. fed \in 0 .. Len(emission) /\ fed + n \in fed .. Len(emission)
      BY <1>1
    <2> QED  BY <1>1, <2>1, PieceFacts
  <1> HIDE DEF new
  <1>4. ids \in Seq(Nat)
    BY <1>1, <1>3, IngestedType
  <1> HIDE DEF ids
  <1>5. dr \in Seq(Frame7) /\ Rest(ids) \in Seq(Nat) /\ Len(dr) \in Nat
    BY <1>4, DrainFacts
  <1> HIDE DEF dr
  <1>6. /\ codes \o dr \in Seq(Frame7) /\ Len(codes \o dr) = Len(codes) + Len(dr)
        /\ \A j \in 1 .. Len(codes) : (codes \o dr)[j] = codes[j]
    BY <1>1, <1>5, ConcatAt
  <1>7. started' \in BOOLEAN /\ ended' \in BOOLEAN
    <2>1. started \in BOOLEAN /\ ended \in BOOLEAN
      BY DEF WindowTypes
    <2> QED  BY <1>2, <2>1 DEF Ingest
  <1>8. fed' \in 0 .. Len(emission')
    BY <1>1, <1>2
  <1>9. WindowTypes'
    <2>1. /\ wf' = wf /\ emission' = emission /\ flushed' = flushed
          /\ undrained' \in Seq(Nat) /\ codes' \in Seq(Frame7)
      BY <1>2, <1>5, <1>6
    <2> QED  BY <1>7, <1>8, <2>1 DEF WindowTypes
  <1>10. Len(codes) <= Len(codes') /\ \A j \in 1 .. Len(codes) : codes'[j] = codes[j]
    <2>1. Len(codes) \in Nat
      BY <1>1
    <2> QED  BY <1>2, <1>5, <1>6, <2>1
  <1> QED  BY <1>9, <1>10

(* A push sends the windows that it completes.                             *)
LEMMA PushSent ==
  ASSUME WindowTypes, SentInv, NEW n \in 1 .. Len(emission) - fed, PushDelta(n)
  PROVE  SentInv'
  <1> DEFINE m == Len(codes)
             k == Len(codes')
  <1>1. /\ wf \in Nat /\ wf >= 2 /\ codes \in Seq(Frame7)
    BY WindowSizeFacts DEF WindowTypes
  <1>2. /\ codes' \in Seq(Frame7) /\ m <= k /\ \A j \in 1 .. m : codes'[j] = codes[j]
    BY PushTypes DEF WindowTypes
  <1>3. m \in Nat /\ k \in Nat
    BY <1>1, <1>2
  <1>4. /\ flushed = FALSE /\ flushed' = FALSE /\ wf' = wf
        /\ dispatched' = DispatchedAfter(k)
        /\ jobs' = jobs \o WindowsFor(dispatched, dispatched', codes')
    <2>1. flushed \in BOOLEAN
      BY DEF WindowTypes
    <2> QED  BY <2>1 DEF PushDelta
  <1>5. dispatched = ReadyWindows(wf, m) /\ jobs = Windows(wf, dispatched, codes)
    BY <1>4 DEF SentInv
  <1> HIDE DEF m, k
  <1>6. /\ ReadyWindows(wf, m) \in 0 .. m /\ ReadyWindows(wf, m) <= ReadyWindows(wf, k)
        /\ \A i \in 1 .. ReadyWindows(wf, m) : (i - 1) + wf - 1 <= m
        /\ k - wf + 2 > ReadyWindows(wf, m) => ReadyWindows(wf, k) = k - wf + 2
        /\ ~(k - wf + 2 > ReadyWindows(wf, m)) => ReadyWindows(wf, k) = ReadyWindows(wf, m)
    <2>1. wf \in Nat /\ wf >= 2 /\ m \in Nat /\ k \in Nat /\ m <= k
      BY ONLY <1>1, <1>2, <1>3
    <2> QED  BY ONLY <2>1, ReadyArith
  <1>7. dispatched' = ReadyWindows(wf, k)
    BY ONLY <1>4, <1>5, <1>6 DEF DispatchedAfter
  <1>8. ReadyWindows(wf, k) \in Nat
    <2>1. k <= k
      BY <1>3
    <2>2. ReadyWindows(wf, k) \in 0 .. k
      BY ONLY <1>1, <1>3, <2>1, ReadyArith
    <2> QED  BY <1>3, <2>2
  <1>9. Windows(wf, dispatched, codes) = Windows(wf, dispatched, codes')
    <2>1. ASSUME NEW i \in 1 .. dispatched
          PROVE  Window(wf, i - 1, codes) = Window(wf, i - 1, codes')
      <3>1. i - 1 \in Nat /\ (i - 1) + wf - 1 <= m
        BY <1>3, <1>5, <1>6
      <3> DEFINE j == i - 1
      <3> HIDE DEF j
      <3>2. j \in Nat /\ j + wf - 1 <= Len(codes)
        BY ONLY <3>1 DEF j, m
      <3>3. Len(codes) <= Len(codes') /\ \A x \in 1 .. Len(codes) : codes'[x] = codes[x]
        BY <1>2 DEF m, k
      <3>4. Window(wf, j, codes) = Window(wf, j, codes')
        BY ONLY <1>1, <1>2, <3>2, <3>3, WindowSettled
      <3> QED  BY ONLY <3>4 DEF j
    <2> QED  BY ONLY <2>1 DEF Windows
  <1>10. jobs' = Windows(wf, dispatched', codes')
    <2>1. /\ dispatched \in Nat /\ dispatched' \in Nat /\ dispatched <= dispatched'
      BY <1>3, <1>5, <1>6, <1>7, <1>8
    <2>2. Windows(wf, dispatched, codes') \o WindowsFor(dispatched, dispatched', codes')
            = Windows(wf, dispatched', codes')
      BY ONLY <1>1, <1>2, <2>1, WindowsJoin
    <2> QED  BY ONLY <1>4, <1>5, <1>9, <2>2
  <1> QED  BY ONLY <1>4, <1>7, <1>10 DEF SentInv, k

(* Every step keeps the invariant.                                         *)
LEMMA WindowInvStep == WindowInv /\ [WindowNext]_windowVars => WindowInv'
  <1> SUFFICES ASSUME WindowInv, [WindowNext]_windowVars PROVE WindowInv'
    OBVIOUS
  <1>1. /\ WindowTypes /\ SentInv
        /\ \A p \in DOMAIN emission : OneStart(emission, p) => CaughtUp(p)
    BY DEF WindowInv
  <1>2. /\ wf \in Nat /\ wf >= 2 /\ emission \in Seq(Nat) /\ fed \in 0 .. Len(emission)
        /\ undrained \in Seq(Nat) /\ codes \in Seq(Frame7)
    BY <1>1, WindowSizeFacts DEF WindowTypes
  <1>3. ASSUME NEW n \in 1 .. Len(emission) - fed, PushDelta(n) PROVE WindowInv'
    <2>1. WindowTypes'
      BY <1>1, <1>3, PushTypes
    <2>2. SentInv'
      BY <1>1, <1>3, PushSent
    <2>3. emission' = emission
      BY <1>3 DEF PushDelta
    <2>4. ASSUME NEW p \in DOMAIN emission, OneStart(emission, p) PROVE CaughtUp(p)'
      BY <1>1, <1>2, <1>3, <2>4, CaughtUpStep
    <2> QED  BY <2>1, <2>2, <2>3, <2>4 DEF WindowInv
  <1>4. CASE FlushTail
    <2>1. /\ UNCHANGED <<wf, emission, fed, started, ended, undrained, codes>>
          /\ flushed = FALSE /\ flushed' = TRUE /\ dispatched' = Len(codes)
          /\ jobs' = jobs \o WindowsFor(dispatched, Len(codes), codes)
      <3>1. flushed \in BOOLEAN
        BY <1>1 DEF WindowTypes
      <3> QED  BY <1>4, <3>1 DEF FlushTail
    <2>2. WindowTypes'
      BY <1>1, <2>1 DEF WindowTypes
    <2>3. dispatched = ReadyWindows(wf, Len(codes)) /\ jobs = Windows(wf, dispatched, codes)
      BY <1>1, <2>1 DEF SentInv
    <2>4. Len(codes) \in Nat /\ Len(codes) <= Len(codes)
      BY <1>2
    <2>5. ReadyWindows(wf, Len(codes)) \in 0 .. Len(codes)
      BY ONLY <1>2, <2>4, ReadyArith
    <2>6. dispatched \in Nat /\ dispatched <= Len(codes)
      BY <2>3, <2>4, <2>5
    <2>7. Windows(wf, dispatched, codes) \o WindowsFor(dispatched, Len(codes), codes)
            = Windows(wf, Len(codes), codes)
      BY ONLY <1>2, <2>4, <2>6, WindowsJoin
    <2>8. SentInv'
      BY ONLY <2>1, <2>3, <2>7 DEF SentInv
    <2>9. ASSUME NEW p \in DOMAIN emission, OneStart(emission, p) PROVE CaughtUp(p)'
      <3>1. CaughtUp(p)
        BY <1>1, <2>9
      <3> QED  BY ONLY <2>1, <3>1 DEF CaughtUp
    <2> QED  BY <2>1, <2>2, <2>8, <2>9 DEF WindowInv
  <1>5. CASE UNCHANGED windowVars
    <2>1. /\ wf' = wf /\ emission' = emission /\ fed' = fed /\ started' = started
          /\ ended' = ended /\ undrained' = undrained /\ codes' = codes
          /\ dispatched' = dispatched /\ jobs' = jobs /\ flushed' = flushed
      BY <1>5 DEF windowVars
    <2> QED  BY <1>1, <2>1 DEF WindowInv, WindowTypes, SentInv, CaughtUp
  <1> QED  BY <1>3, <1>4, <1>5 DEF WindowNext

(* A well-formed request has its one start marker.                         *)
LEMMA OneStartFacts ==
  ASSUME NEW e \in Seq(Nat), Cardinality({i \in DOMAIN e : e[i] = StartId}) = 1
  PROVE  \E p \in DOMAIN e : OneStart(e, p)
  <1> DEFINE T == {i \in DOMAIN e : e[i] = StartId}
             m == Len(e)
  <1>1. m \in Nat /\ DOMAIN e = 1 .. m
    OBVIOUS
  <1>2. T \subseteq 1 .. m
    BY <1>1
  <1> HIDE DEF m
  <1>3. IsFiniteSet(1 .. m)
    BY <1>1, PlacesOfList
  <1>4. IsFiniteSet(T)
    <2> HIDE DEF T
    <2> QED  BY <1>2, <1>3, FS_Subset
  <1>5. \E p : T = {p}
    <2>1. Cardinality(T) = 1
      OBVIOUS
    <2> HIDE DEF T
    <2> QED  BY <1>4, <2>1, FS_Singleton
  <1>6. PICK p : T = {p}
    BY <1>5
  <1>7. p \in DOMAIN e /\ e[p] = StartId /\ \A i \in DOMAIN e : e[i] = StartId => i = p
    BY <1>6
  <1> QED  BY <1>7 DEF OneStart

(* If no whole frame of a request's audio is out of range, the offline      *)
(* parser reads the frames that the windower has.                          *)
LEMMA ParseFacts ==
  ASSUME NEW e \in Seq(Nat), NEW p \in DOMAIN e, NEW s \in Seq(Nat),
         \A j \in 1 .. Len(s) : s[j] = e[p + j],
         Len(ParseFrames(s)) = Len(s) \div 7,
         NEW fr \in Seq(Frame7), Len(fr) = Len(s) \div 7,
         \A k \in 1 .. Len(s) \div 7 : fr[k] = FrameAt(e, p, k)
  PROVE  ParseFrames(s) = fr
  <1> DEFINE a == Len(s)
             n == a \div 7
             raw == RawFrames(s)
             K == {i \in DOMAIN raw : \A x \in Positions : raw[i][x] \in Codes}
  <1>0. a \in Nat /\ p \in Nat
    OBVIOUS
  <1>1. /\ \A j \in 1 .. a : s[j] = e[p + j]
        /\ Len(ParseFrames(s)) = n /\ fr \in Seq(Frame7) /\ Len(fr) = n
        /\ \A k \in 1 .. n : fr[k] = FrameAt(e, p, k)
    OBVIOUS
  <1>2. /\ raw \in Seq([Positions -> Int]) /\ Len(raw) = n /\ n \in Nat
        /\ \A i \in 1 .. n : \A x \in Positions :
             raw[i][x] = s[7 * (i - 1) + x] - Base - (x - 1) * CodebookSize
    BY RawFacts
  <1>3. ParseFrames(s) = Failed \/ ParseFrames(s) = PickAt(raw, K)
    BY DEF ParseFrames
  <1>4. 7 * n <= a
    BY <1>0
  <1> HIDE DEF raw, n, a
  <1>5. CASE ParseFrames(s) = Failed
    <2>1. ParseFrames(s) = <<>> /\ n = 0
      BY <1>1, <1>5 DEF Failed
    <2>2. fr = <<>>
      BY <1>1, <2>1
    <2> QED  BY <2>1, <2>2
  <1>6. CASE ParseFrames(s) = PickAt(raw, K)
    <2>1. K \in SUBSET (1 .. Len(raw))
      BY <1>2
    <2>2. \A i \in K : \A x \in Positions : raw[i][x] \in Codes
      OBVIOUS
    <2> HIDE DEF K
    <2>3. Cardinality(K) = Len(raw)
      <3>1. Len(PickAt(raw, K)) = Cardinality(K)
        BY <1>2, <2>1, PickAtFacts
      <3> QED  BY <1>1, <1>2, <1>6, <3>1
    <2>4. PickAt(raw, K) = raw /\ K = 1 .. Len(raw)
      BY <1>2, <2>1, <2>3, PickAll
    <2>5. ASSUME NEW i \in 1 .. n PROVE raw[i] = fr[i]
      <3>1. raw[i] \in [Positions -> Int] /\ fr[i] = FrameAt(e, p, i) /\ i \in K
        BY <1>1, <1>2, <2>4
      <3>2. ASSUME NEW x \in Positions
            PROVE  raw[i][x] = Clip(e[p + 7 * (i - 1) + x] - Base - (x - 1) * CodebookSize)
        <4> DEFINE j == 7 * (i - 1) + x
        <4>1. x \in 1 .. 7
          BY <3>2 DEF Positions, SNAC_NUM_CODEBOOKS
        <4>2. j \in 1 .. a /\ p + 7 * (i - 1) + x = p + j
          <5>1. a \in Nat /\ p \in Nat /\ n \in Nat
            BY ONLY <1>0, <1>2
          <5>2. i \in 1 .. n
            BY ONLY <2>5
          <5> DEFINE y == 7 * (i - 1)
          <5>3. y \in Nat /\ y + 7 <= 7 * n
            BY ONLY <5>1, <5>2
          <5> HIDE DEF y
          <5>4. y + x \in 1 .. a
            BY ONLY <1>4, <4>1, <5>1, <5>3
          <5>5. p + y + x = p + (y + x)
            BY ONLY <4>1, <5>1, <5>3
          <5> QED  BY ONLY <5>4, <5>5 DEF y, j
        <4> HIDE DEF j
        <4>3. s[j] = e[p + 7 * (i - 1) + x]
          BY ONLY <1>1, <4>2
        <4>4. raw[i][x] = e[p + 7 * (i - 1) + x] - Base - (x - 1) * CodebookSize
          <5>1. raw[i][x] = s[j] - Base - (x - 1) * CodebookSize
            BY <1>2 DEF j
          <5> QED  BY ONLY <4>3, <5>1
        <4>5. raw[i][x] \in Codes /\ raw[i][x] \in Int
          BY <2>2, <3>1
        <4>6. Clip(raw[i][x]) = raw[i][x]
          BY ONLY <4>5, ClipFacts
        <4> QED  BY ONLY <4>4, <4>6
      <3>3. FrameAt(e, p, i) \in [Positions -> Int]
        <4>1. FrameAt(e, p, i) = [x \in Positions |-> raw[i][x]]
          BY ONLY <3>2 DEF FrameAt
        <4> QED  BY <3>1, <4>1
      <3>4. \A x \in Positions : raw[i][x] = FrameAt(e, p, i)[x]
        BY ONLY <3>2 DEF FrameAt
      <3> QED  BY ONLY <3>1, <3>3, <3>4
    <2>6. fr \in Seq([Positions -> Int])
      <3>1. Frame7 \subseteq [Positions -> Int]
        BY CodecAssumption DEF Frame7, Codes
      <3> QED  BY <1>1, <3>1
    <2>7. Len(raw) = Len(fr) /\ \A i \in 1 .. Len(raw) : raw[i] = fr[i]
      BY <1>1, <1>2, <2>5
    <2>8. raw = fr
      BY ONLY <1>2, <2>6, <2>7, SeqEqual
    <2> QED  BY <1>6, <2>4, <2>8
  <1> QED  BY <1>3, <1>5, <1>6

(* The invariant gives what the windows of a finished request are.         *)
LEMMA WindowInvSafe == WindowInv => InContext
  <1> SUFFICES ASSUME WindowInv, flushed, WellFormed,
                      NEW frames, frames = ParseFrames(SoFar)
               PROVE  /\ jobs = WindowsFor(0, Len(frames), frames)
                      /\ \A k \in DOMAIN jobs : DecodeWindow(jobs[k]) = frames[k]
    BY DEF InContext
  <1>1. WindowTypes /\ SentInv
    BY DEF WindowInv
  <1>2. /\ wf \in Nat /\ wf >= 2 /\ emission \in Seq(Nat) /\ fed \in 0 .. Len(emission)
        /\ codes \in Seq(Frame7)
    BY <1>1, WindowSizeFacts DEF WindowTypes
  <1>3. PICK p \in DOMAIN emission : OneStart(emission, p)
    BY <1>2, OneStartFacts DEF WellFormed
  <1>4. CaughtUp(p)
    BY <1>3 DEF WindowInv
  <1> DEFINE s == SoFar
             a == AudioLen(emission, p, fed)
  <1>5. s \in Seq(Nat) /\ Len(s) = a /\ \A j \in 1 .. a : s[j] = emission[p + j]
    BY <1>2, <1>3, ExtractFacts DEF SoFar, ExtractRight
  <1>6. Len(codes) = a \div 7 /\ \A k \in 1 .. a \div 7 : codes[k] = FrameAt(emission, p, k)
    BY <1>4 DEF CaughtUp
  <1>7. Len(ParseFrames(s)) = Len(s) \div 7
    BY DEF WellFormed, SNAC_NUM_CODEBOOKS
  <1>8. frames = ParseFrames(s)
    OBVIOUS
  <1> HIDE DEF s, a
  <1>9. frames = codes
    <2>1. /\ \A j \in 1 .. Len(s) : s[j] = emission[p + j]
          /\ Len(codes) = Len(s) \div 7
          /\ \A k \in 1 .. Len(s) \div 7 : codes[k] = FrameAt(emission, p, k)
      BY ONLY <1>5, <1>6
    <2>2. ParseFrames(s) = codes
      BY ONLY <1>2, <1>3, <1>5, <1>7, <2>1, ParseFacts
    <2> QED  BY ONLY <1>8, <2>2
  <1>10. jobs = Windows(wf, Len(codes), codes)
    BY <1>1 DEF SentInv
  <1>11. WindowsFor(0, Len(codes), codes) = Windows(wf, Len(codes), codes)
    <2>1. Len(codes) \in Nat
      BY <1>2
    <2>2. Len(codes) - 0 = Len(codes) /\ \A i \in 1 .. Len(codes) : 0 + i - 1 = i - 1
      BY <2>1
    <2> QED  BY <2>2 DEF Windows, WindowsFor, Window, WindowFor
  <1>12. ASSUME NEW k \in DOMAIN jobs PROVE DecodeWindow(jobs[k]) = codes[k]
    <2>1. Len(codes) \in Nat
      BY <1>2
    <2>2. k \in 1 .. Len(codes) /\ jobs[k] = Window(wf, k - 1, codes)
      BY <1>10, <1>12 DEF Windows
    <2>3. k - 1 \in Int /\ (k - 1) + 1 = k
      BY <2>2
    <2>4. /\ Window(wf, k - 1, codes) \in [1 .. wf -> Frame7]
          /\ Window(wf, k - 1, codes)[2] = codes[k]
      BY <1>2, <2>2, <2>3, WindowFacts
    <2> QED  BY <1>2, <2>2, <2>4, SecondFrame
  <1> QED  BY <1>9, <1>10, <1>11, <1>12

(* For every emission, every cut of it into steps and every window size:   *)
(* the windows of a well-formed request are those of the frames that the    *)
(* offline parser reads, and the decoder keeps the right frame of each.    *)
THEOREM WindowsInContext == WindowSpec => []InContext
  BY WindowInvInit, WindowInvStep, WindowInvSafe, PTL DEF WindowSpec

(***************************************************************************)
(* What the codec gives back of what it made.                              *)
(***************************************************************************)

(* The token of one code of a frame.                                       *)
TokenOf(f, x) == f[x] + Base + (x - 1) * CodebookSize

(* Every token of a list of frames is in its place and in the vocabulary.  *)
LEMMA TokensFacts ==
  ASSUME NEW fr \in Seq(Frame7)
  PROVE  /\ TokensOf(fr) \in Seq(Nat) /\ Len(TokensOf(fr)) = 7 * Len(fr)
         /\ \A i \in 1 .. Len(fr) : \A x \in 1 .. 7 : TokensOf(fr)[7 * (i - 1) + x] = TokenOf(fr[i], x)
         /\ \A k \in 1 .. 7 * Len(fr) : InVocabulary(TokensOf(fr)[k])
  <1> DEFINE n == Len(fr)
             place(k) == (k - 1) \div 7 + 1
             code(k) == ((k - 1) % 7) + 1
             s == TokensOf(fr)
  <1>1. n \in Nat /\ \A i \in 1 .. n : fr[i] \in Frame7
    OBVIOUS
  <1> HIDE DEF n
  <1>2. s = [k \in 1 .. 7 * n |-> TokenOf(fr[place(k)], code(k))]
    <2>1. \A k \in 1 .. 7 * n : ((k - 1) % 7) + 1 - 1 = (k - 1) % 7
      BY <1>1
    <2> QED  BY <2>1 DEF TokensOf, Position, SNAC_NUM_CODEBOOKS, TokenOf, n
  <1>3. ASSUME NEW k \in 1 .. 7 * n
        PROVE  place(k) \in 1 .. n /\ code(k) \in 1 .. 7
    BY <1>1
  <1> HIDE DEF place, code
  <1>4. ASSUME NEW f \in Frame7, NEW x \in 1 .. 7
        PROVE  TokenOf(f, x) \in Nat /\ InVocabulary(TokenOf(f, x))
    <2> DEFINE y == f[x]
               z == (x - 1) * CodebookSize
    <2>1. y \in Codes
      BY FrameOf
    <2>2. CodebookSize \in Nat /\ CodebookSize > 0 /\ Base \in Nat
      BY CodecAssumption
    <2>3. z \in Nat /\ z + CodebookSize <= 7 * CodebookSize
      <3>1. x = 1 \/ x = 2 \/ x = 3 \/ x = 4 \/ x = 5 \/ x = 6 \/ x = 7
        OBVIOUS
      <3> QED  BY <2>2, <3>1
    <2>4. TokenOf(f, x) = y + Base + z
      BY DEF TokenOf
    <2>5. y \in 0 .. CodebookSize - 1
      BY <2>1 DEF Codes
    <2> HIDE DEF y, z
    <2> QED  BY <2>2, <2>3, <2>4, <2>5 DEF InVocabulary, SNAC_NUM_CODEBOOKS
  <1>5. ASSUME NEW k \in 1 .. 7 * n PROVE s[k] \in Nat /\ InVocabulary(s[k])
    <2>1. s[k] = TokenOf(fr[place(k)], code(k))
      BY <1>2
    <2> QED  BY <1>1, <1>3, <1>4, <2>1
  <1>6. ASSUME NEW i \in 1 .. n, NEW x \in 1 .. 7 PROVE s[7 * (i - 1) + x] = TokenOf(fr[i], x)
    <2> DEFINE k == 7 * (i - 1) + x
    <2>1. k \in 1 .. 7 * n /\ place(k) = i /\ code(k) = x
      BY <1>1 DEF place, code
    <2> HIDE DEF k
    <2>2. s[k] = TokenOf(fr[i], x)
      BY <1>2, <2>1
    <2> QED  BY <2>2 DEF k
  <1>7. s \in [1 .. 7 * n -> Nat] /\ 7 * n \in Nat
    BY <1>1, <1>2, <1>5
  <1> HIDE DEF s
  <1>8. s \in Seq(Nat) /\ Len(s) = 7 * n
    BY <1>7, FunctionSeq
  <1> QED  BY <1>5, <1>6, <1>8 DEF s, n

(* The first tokens of some frames are read as the frames that are whole.  *)
LEMMA ParsePrefix ==
  ASSUME NEW fr \in Seq(Frame7), NEW a \in 0 .. 7 * Len(fr)
  PROVE  /\ ParseFrames(SubSeq(TokensOf(fr), 1, a)) = SubSeq(fr, 1, a \div 7)
         /\ SubSeq(fr, 1, a \div 7) \in Seq(Frame7) /\ a \div 7 \in 0 .. Len(fr)
         /\ Len(SubSeq(fr, 1, a \div 7)) = a \div 7
  <1> DEFINE n == Len(fr)
             T == TokensOf(fr)
             s == SubSeq(T, 1, a)
             m == a \div 7
             pre == SubSeq(fr, 1, m)
             raw == RawFrames(s)
             K == {i \in DOMAIN raw : \A x \in Positions : raw[i][x] \in Codes}
  <1>1. /\ n \in Nat /\ T \in Seq(Nat) /\ Len(T) = 7 * n
        /\ \A i \in 1 .. n : \A x \in 1 .. 7 : T[7 * (i - 1) + x] = TokenOf(fr[i], x)
        /\ \A k \in 1 .. 7 * n : InVocabulary(T[k])
    BY TokensFacts
  <1>2. \A i \in 1 .. n : fr[i] \in Frame7
    OBVIOUS
  <1>3. a \in 0 .. 7 * n
    OBVIOUS
  <1> HIDE DEF T, n
  <1>4. a \in Nat /\ m \in 0 .. n /\ 7 * m <= a /\ (a < 7 => m = 0) /\ (m = 0 => a < 7)
    BY <1>1, <1>3
  <1> HIDE DEF m
  <1>5. s \in Seq(Nat) /\ Len(s) = a /\ DOMAIN s = 1 .. a /\ \A j \in 1 .. a : s[j] = T[j]
    <2>1. 0 \in 0 .. Len(T) /\ a \in 0 .. Len(T)
      BY <1>1, <1>3
    <2>2. SubSeq(T, 0 + 1, a) \in Seq(Nat) /\ Len(SubSeq(T, 0 + 1, a)) = a - 0
          /\ \A j \in 1 .. a - 0 : SubSeq(T, 0 + 1, a)[j] = T[0 + j]
      BY <1>1, <2>1, PieceFacts
    <2>3. 0 + 1 = 1 /\ a - 0 = a /\ \A j \in 1 .. a : 0 + j = j
      BY <1>4
    <2> QED  BY <2>2, <2>3
  <1>6. pre \in Seq(Frame7) /\ Len(pre) = m /\ \A i \in 1 .. m : pre[i] = fr[i]
    BY <1>4, SplitAt DEF n
  <1>7. /\ raw \in Seq([Positions -> Int]) /\ Len(raw) = m /\ DOMAIN raw = 1 .. m
        /\ \A i \in 1 .. m : \A x \in Positions :
             raw[i][x] = s[7 * (i - 1) + x] - Base - (x - 1) * CodebookSize
    <2>1. /\ raw \in Seq([Positions -> Int]) /\ Len(raw) = Len(s) \div 7
          /\ \A i \in 1 .. Len(s) \div 7 : \A x \in Positions :
               raw[i][x] = s[7 * (i - 1) + x] - Base - (x - 1) * CodebookSize
      BY <1>5, RawFacts
    <2>2. Len(s) \div 7 = m
      BY <1>5 DEF m
    <2> HIDE DEF raw, s
    <2> QED  BY <2>1, <2>2
  <1> HIDE DEF s, raw, pre
  <1>8. ASSUME NEW i \in 1 .. m, NEW x \in Positions PROVE raw[i][x] = fr[i][x]
    <2>1. x \in 1 .. 7 /\ i \in 1 .. n
      <3>1. x \in 1 .. 7
        BY DEF Positions, SNAC_NUM_CODEBOOKS
      <3>2. i \in 1 .. n
        BY ONLY <1>1, <1>4, <1>8
      <3> QED  BY <3>1, <3>2
    <2>2. 7 * (i - 1) + x \in 1 .. a
      BY <1>4, <2>1
    <2>3. s[7 * (i - 1) + x] = TokenOf(fr[i], x)
      BY <1>1, <1>5, <2>1, <2>2
    <2> DEFINE y == fr[i][x]
               z == (x - 1) * CodebookSize
    <2>4. y \in Codes
      BY <1>2, <2>1, FrameOf
    <2>5. y \in Int /\ z \in Int /\ Base \in Int
      BY <2>1, <2>4, CodecAssumption DEF Codes
    <2>6. s[7 * (i - 1) + x] = y + Base + z
      BY <2>3 DEF TokenOf
    <2>7. raw[i][x] = s[7 * (i - 1) + x] - Base - z
      BY <1>7
    <2> DEFINE w == s[7 * (i - 1) + x]
    <2> HIDE DEF y, z, w
    <2>8. y + Base + z - Base - z = y
      BY ONLY <2>5
    <2>9. raw[i][x] = y
      <3>1. w = y + Base + z /\ raw[i][x] = w - Base - z
        BY <2>6, <2>7 DEF w
      <3> QED  BY ONLY <2>5, <2>8, <3>1
    <2> QED  BY <2>9 DEF y
  <1>9. K = 1 .. m
    <2>1. ASSUME NEW i \in 1 .. m, NEW x \in Positions PROVE raw[i][x] \in Codes
      <3>1. fr[i] \in Frame7
        BY <1>2, <1>4
      <3>2. fr[i][x] \in Codes
        BY <3>1 DEF Frame7
      <3> QED  BY <1>8, <3>2
    <2> QED  BY <1>7, <2>1
  <1>10. PickAt(raw, K) = raw
    <2>1. Cardinality(1 .. m) = m
      BY <1>4, PlacesOfList
    <2>2. K \in SUBSET (1 .. Len(raw)) /\ Cardinality(K) = Len(raw)
      BY <1>7, <1>9, <2>1
    <2> HIDE DEF K
    <2> QED  BY <1>7, <2>2, PickAll
  <1>11. raw = pre
    <2>1. ASSUME NEW i \in 1 .. m PROVE raw[i] = pre[i]
      <3>1. raw[i] \in [Positions -> Int] /\ pre[i] \in [Positions -> Codes] /\ pre[i] = fr[i]
        BY <1>6, <1>7 DEF Frame7
      <3> QED  BY <1>8, <3>1
    <2>2. pre \in Seq([Positions -> Int])
      <3>1. Frame7 \subseteq [Positions -> Int]
        BY CodecAssumption DEF Frame7, Codes
      <3> QED  BY <1>6, <3>1
    <2>3. Len(raw) = Len(pre) /\ \A i \in 1 .. Len(raw) : raw[i] = pre[i]
      BY <1>6, <1>7, <2>1
    <2> QED  BY ONLY <1>7, <2>2, <2>3, SeqEqual
  <1>12. CASE a < 7
    <2>1. ParseFrames(s) = <<>>
      BY <1>5, <1>12 DEF ParseFrames, SNAC_NUM_CODEBOOKS, Failed
    <2>2. pre = <<>>
      BY <1>4, <1>6, <1>12
    <2> QED  BY <1>4, <1>6, <2>1, <2>2 DEF s, T, pre, m, n
  <1>13. CASE ~(a < 7)
    <2>1. \A k \in DOMAIN s : InVocabulary(s[k])
      BY <1>1, <1>3, <1>5
    <2>2. ~(Len(s) < SNAC_NUM_CODEBOOKS)
      BY <1>5, <1>13 DEF SNAC_NUM_CODEBOOKS
    <2>3. ParseFrames(s) = PickAt(raw, K)
      BY <2>1, <2>2 DEF ParseFrames, raw
    <2>4. ParseFrames(s) = pre
      BY <1>10, <1>11, <2>3
    <2> QED  BY <1>4, <1>6, <2>4 DEF s, T, pre, m, n
  <1> QED  BY <1>12, <1>13

(* In a batch every row that parses is decoded to its own frames.          *)
LEMMA BatchDecodes ==
  ASSUME NEW m \in Nat, NEW lists \in [1 .. m -> Seq(Nat)], NEW size \in Nat \ {0},
         \A i \in 1 .. m : ParseFrames(lists[i]) \in Seq(Frame7)
  PROVE  BatchDecode(lists, size) = [i \in 1 .. m |-> ParseFrames(lists[i])]
  <1> DEFINE parsed == [i \in 1 .. m |-> ParseFrames(lists[i])]
             good == {i \in 1 .. m : parsed[i] # Failed}
             before(i, j) == \/ Len(parsed[i]) < Len(parsed[j])
                             \/ Len(parsed[i]) = Len(parsed[j]) /\ i <= j
             place(i) == Cardinality({j \in good : before(j, i)}) - 1
             chunk(i) == {j \in good : place(j) \div size = place(i) \div size}
             lengths(i) == {Len(parsed[j]) : j \in chunk(i)}
             longest(i) == Max(lengths(i))
             wave(i) == SubSeq(SnacDecode(Streams(Pad(parsed[i], longest(i)))), 1, Len(parsed[i]))
  <1>1. DOMAIN lists = 1 .. m
    OBVIOUS
  <1>2. BatchDecode(lists, size) = [i \in 1 .. m |-> IF i \notin good THEN Failed ELSE wave(i)]
    BY <1>1 DEF BatchDecode
  <1>3. \A i \in 1 .. m : parsed[i] \in Seq(Frame7)
    OBVIOUS
  <1>4. \A i \in 1 .. m : i \notin good => parsed[i] = Failed
    OBVIOUS
  <1>5. good \subseteq 1 .. m
    OBVIOUS
  <1> HIDE DEF parsed
  <1>6. ASSUME NEW i \in good PROVE i \in chunk(i) /\ chunk(i) \subseteq 1 .. m
    BY <1>5
  <1> HIDE DEF chunk, good
  <1>7. PICK b \in Nat : \A i \in 1 .. m : Len(parsed[i]) <= b
    <2> DEFINE h == [i \in 1 .. m |-> Len(parsed[i])]
    <2>1. h \in [1 .. m -> Nat]
      BY <1>3
    <2>2. \A i \in 1 .. m : h[i] = Len(parsed[i])
      OBVIOUS
    <2> HIDE DEF h
    <2>3. \E b \in Nat : \A i \in 1 .. m : h[i] <= b
      BY <2>1, BoundedList
    <2> QED  BY <2>2, <2>3
  <1>8. ASSUME NEW i \in good PROVE wave(i) = parsed[i]
    <2> DEFINE f == parsed[i]
               n == longest(i)
               zeros == [k \in 1 .. n - Len(f) |-> ZeroFrame]
    <2>1. f \in Seq(Frame7) /\ Len(f) \in Nat
      BY <1>3, <1>5
    <2>2. n \in Nat /\ Len(f) <= n
      <3>1. lengths(i) \subseteq 0 .. b /\ lengths(i) # {} /\ Len(f) \in lengths(i)
        <4>1. ASSUME NEW j \in chunk(i) PROVE Len(parsed[j]) \in 0 .. b
          <5>1. j \in 1 .. m
            BY <1>6
          <5> QED  BY <1>3, <1>7, <5>1
        <4>2. i \in chunk(i)
          BY <1>6
        <4> QED  BY <4>1, <4>2
      <3> HIDE DEF lengths, f
      <3>2. n \in lengths(i) /\ \A x \in lengths(i) : x <= n
        BY <1>7, <3>1, ExtremeFacts
      <3> QED  BY <1>7, <3>1, <3>2
    <2>3. zeros \in Seq(Frame7)
      <3>1. n - Len(f) \in Nat
        BY <2>1, <2>2
      <3>2. ZeroFrame \in Frame7
        BY CodecAssumption DEF ZeroFrame, Frame7, Codes
      <3> HIDE DEF n, f
      <3>3. zeros \in [1 .. n - Len(f) -> Frame7]
        BY <3>2
      <3> HIDE DEF zeros
      <3> QED  BY <3>1, <3>3, FunctionSeq
    <2>4. wave(i) = SubSeq(SnacDecode(Streams(f \o zeros)), 1, Len(f))
      BY DEF Pad
    <2> HIDE DEF f, zeros
    <2>5. f \o zeros \in Seq(Frame7)
      BY <2>1, <2>3, ConcatProperties
    <2>6. SnacDecode(Streams(f \o zeros)) = f \o zeros
      BY <2>5, DecodeStreams
    <2>7. SubSeq(f \o zeros, 1, Len(f)) = f
      BY <2>1, <2>3, CutConcat
    <2> QED  BY <2>4, <2>6, <2>7 DEF f
  <1> HIDE DEF wave
  <1>9. BatchDecode(lists, size) = [i \in 1 .. m |-> parsed[i]]
    BY <1>2, <1>4, <1>8
  <1> QED  BY <1>9 DEF parsed

(* What the model emits after a prompt, and what is read out of the start  *)
(* of it: the start of the audio.                                          *)
LEMMA EmittedFacts ==
  ASSUME NEW T \in Seq(Nat), \A k \in 1 .. Len(T) : InVocabulary(T[k])
  PROVE  LET e == Emitted(TrainingTarget(T))
         IN  /\ e \in Seq(Nat) /\ Len(e) = Len(T) + 2 /\ e[1] = StartId
             /\ \A n \in 0 .. Len(e) :
                  \E a \in 0 .. Len(T) : /\ ExtractAudio(SubSeq(e, 1, n)) = SubSeq(T, 1, a)
                                         /\ n = Len(e) => a = Len(T)
  <1> DEFINE t == Len(T)
             u == TrainingTarget(T)
             stops == {i \in DOMAIN u : u[i] = EndId}
             e == Emitted(u)
  <1>1. t \in Nat /\ \A k \in 1 .. t : T[k] \in Nat /\ InVocabulary(T[k])
    OBVIOUS
  <1>2. /\ StartId \in Nat /\ EndId \in Nat /\ Marker \in Nat /\ Base \in Nat
        /\ StartId < Base /\ EndId < Base /\ StartId # EndId /\ Marker # EndId
    BY CodecAssumption
  <1>3. \A k \in 1 .. t : T[k] # StartId /\ T[k] # EndId
    BY <1>1, <1>2 DEF InVocabulary
  <1> HIDE DEF t
  <1>4. /\ u \in Seq(Nat) /\ Len(u) = t + 3 /\ u[1] = StartId /\ u[t + 2] = EndId
        /\ u[t + 3] = Marker /\ \A j \in 1 .. t : u[1 + j] = T[j]
    <2> DEFINE x == <<StartId>>
               z == <<EndId, Marker>>
               y == x \o T
               N == Nat
    <2>1. x \in Seq(Nat) /\ z \in Seq(Nat) /\ Len(x) = 1 /\ Len(z) = 2
          /\ x[1] = StartId /\ z[1] = EndId /\ z[2] = Marker /\ T \in Seq(Nat) /\ Len(T) = t
      BY <1>2 DEF t
    <2> HIDE DEF x, z, N
    <2>1a. x \in Seq(N) /\ z \in Seq(N) /\ T \in Seq(N)
      BY <2>1 DEF N
    <2>2. /\ y \in Seq(N) /\ Len(y) = Len(x) + Len(T)
          /\ (\A j \in 1 .. Len(x) : y[j] = x[j]) /\ \A j \in 1 .. Len(T) : y[Len(x) + j] = T[j]
      BY ONLY <2>1a, ConcatAt
    <2> HIDE DEF y
    <2>3. /\ y \o z \in Seq(N) /\ Len(y \o z) = Len(y) + Len(z)
          /\ (\A j \in 1 .. Len(y) : (y \o z)[j] = y[j])
          /\ \A j \in 1 .. Len(z) : (y \o z)[Len(y) + j] = z[j]
      <3>1. y \in Seq(N) /\ z \in Seq(N)
        BY ONLY <2>1a, <2>2
      <3> QED  BY ONLY <3>1, ConcatAt
    <2> DEFINE w == y \o z
    <2>4. w \in Seq(Nat) /\ Len(w) = t + 3 /\ Len(y) = t + 1
      <3>1. Len(y) = 1 + t /\ Len(w) = Len(y) + 2 /\ w \in Seq(N)
        BY ONLY <2>1, <2>2, <2>3
      <3> QED  BY <1>1, <3>1 DEF N
    <2>5. w[1] = StartId /\ \A j \in 1 .. t : w[1 + j] = T[j]
      <3>1. 1 \in 1 .. Len(y) /\ \A j \in 1 .. t : 1 + j \in 1 .. Len(y)
        BY <1>1, <2>4
      <3>2. w[1] = y[1] /\ \A j \in 1 .. t : w[1 + j] = y[1 + j]
        BY ONLY <2>3, <3>1
      <3>3. y[1] = x[1] /\ \A j \in 1 .. t : y[1 + j] = T[j]
        <4>1. 1 \in 1 .. 1
          OBVIOUS
        <4> QED  BY ONLY <2>1, <2>2, <4>1
      <3> HIDE DEF w
      <3> QED  BY <2>1, <3>2, <3>3
    <2>6. w[t + 2] = EndId /\ w[t + 3] = Marker
      <3>1. t + 2 = (t + 1) + 1 /\ t + 3 = (t + 1) + 2 /\ 1 \in 1 .. 2 /\ 2 \in 1 .. 2
        BY <1>1
      <3> QED  BY <2>1, <2>3, <2>4, <3>1
    <2>7. u = w
      BY DEF TrainingTarget, y, x, z
    <2> HIDE DEF w
    <2> QED  BY <2>4, <2>5, <2>6, <2>7
  <1> HIDE DEF u
  <1>5. stops = {t + 2}
    <2>1. ASSUME NEW i \in 1 .. t + 3 PROVE u[i] = EndId <=> i = t + 2
      <3>1. CASE i = 1 \/ i = t + 2 \/ i = t + 3
        BY <1>1, <1>2, <1>4, <3>1
      <3>2. CASE i # 1 /\ i # t + 2 /\ i # t + 3
        <4>1. i - 1 \in 1 .. t /\ 1 + (i - 1) = i
          BY <1>1, <2>1, <3>2
        <4>2. u[i] # EndId
          BY <1>3, <1>4, <4>1
        <4> QED  BY <3>2, <4>2
      <3> QED  BY <3>1, <3>2
    <2>2. DOMAIN u = 1 .. t + 3 /\ t + 2 \in 1 .. t + 3
      BY <1>1, <1>4
    <2> QED  BY <2>1, <2>2
  <1>6. e = SubSeq(u, 1, t + 2)
    <2>1. Min(stops) = t + 2
      <3>1. {t + 2} \subseteq 0 .. t + 2 /\ {t + 2} # {} /\ t + 2 \in Nat
        BY <1>1
      <3>2. Min({t + 2}) \in {t + 2}
        BY <3>1, ExtremeFacts
      <3> QED  BY <1>5, <3>2
    <2>2. stops # {}
      BY <1>5
    <2> QED  BY <2>1, <2>2 DEF Emitted
  <1>7. /\ e \in Seq(Nat) /\ Len(e) = t + 2 /\ e[1] = StartId /\ e[t + 2] = EndId
        /\ \A j \in 1 .. t : e[1 + j] = T[j]
    <2>1. t + 2 \in 0 .. Len(u) /\ 1 \in 1 .. t + 2 /\ t + 2 \in 1 .. t + 2
          /\ \A j \in 1 .. t : 1 + j \in 1 .. t + 2
      BY <1>1, <1>4
    <2>2. /\ SubSeq(u, 1, t + 2) \in Seq(Nat) /\ Len(SubSeq(u, 1, t + 2)) = t + 2
          /\ \A j \in 1 .. t + 2 : SubSeq(u, 1, t + 2)[j] = u[j]
      BY <1>4, <2>1, SplitAt
    <2> HIDE DEF e
    <2> QED  BY <1>4, <1>6, <2>1, <2>2
  <1> HIDE DEF e
  <1>8. ASSUME NEW i \in 2 .. t + 1 PROVE e[i] # StartId /\ e[i] # EndId
    <2>1. i - 1 \in 1 .. t /\ 1 + (i - 1) = i
      BY <1>1, <1>8
    <2> QED  BY <1>3, <1>7, <2>1
  <1>9. DOMAIN e = 1 .. t + 2 /\ 1 \in 1 .. t + 2
    BY <1>1, <1>7
  <1>10. OneStart(e, 1)
    <2>1. ASSUME NEW i \in 1 .. t + 2, e[i] = StartId PROVE i = 1
      <3>1. i = 1 \/ i \in 2 .. t + 1 \/ i = t + 2
        BY <1>1, <2>1
      <3> QED  BY <1>2, <1>7, <1>8, <2>1, <3>1
    <2> QED  BY <1>7, <1>9, <2>1 DEF OneStart
  <1>11. AudioEnd(e, 1) = t + 2
    <2> DEFINE d == AudioEnd(e, 1)
    <2>1. /\ d \in 1 + 1 .. Len(e) + 1 /\ (\A i \in 1 + 1 .. d - 1 : e[i] # EndId)
          /\ d <= Len(e) => e[d] = EndId
      BY <1>7, <1>9, AudioEndFacts
    <2> HIDE DEF d
    <2>2. d \in 2 .. t + 3 /\ (\A i \in 2 .. d - 1 : e[i] # EndId) /\ (d <= t + 2 => e[d] = EndId)
      BY <1>1, <1>7, <2>1
    <2>3. ~(d \in 2 .. t + 1)
      BY <1>1, <1>8, <2>2
    <2>4. ~(d = t + 3)
      <3>1. d = t + 3 => t + 2 \in 2 .. d - 1
        BY <1>1
      <3> QED  BY <1>7, <2>2, <3>1
    <2>5. d = t + 2
      BY <1>1, <2>2, <2>3, <2>4
    <2> QED  BY <2>5 DEF d
  <1>12. ASSUME NEW n \in 0 .. t + 2
         PROVE  \E a \in 0 .. t : ExtractAudio(SubSeq(e, 1, n)) = SubSeq(T, 1, a) /\ (n = t + 2 => a = t)
    <2> DEFINE a == AudioLen(e, 1, n)
               s == ExtractAudio(SubSeq(e, 1, n))
    <2>1. a = IF n <= 1 THEN 0 ELSE IF n < t + 2 THEN n - 1 ELSE t
      <3>1. t + 2 - 1 - 1 = t
        BY <1>1
      <3>2. a = IF n <= 1 THEN 0 ELSE IF n < AudioEnd(e, 1) THEN n - 1 ELSE AudioEnd(e, 1) - 1 - 1
        BY DEF AudioLen
      <3> HIDE DEF a
      <3> QED  BY ONLY <1>1, <1>11, <1>12, <3>1, <3>2
    <2>2. ExtractRight(e, 1, n, s)
      BY <1>7, <1>10, <1>12, ExtractFacts
    <2>3. s \in Seq(Nat) /\ Len(s) = a /\ \A j \in 1 .. a : s[j] = e[1 + j]
      BY <2>2 DEF ExtractRight
    <2> HIDE DEF a, s
    <2>4. a \in 0 .. t /\ (n = t + 2 => a = t)
      BY <1>1, <1>12, <2>1
    <2>5. /\ SubSeq(T, 1, a) \in Seq(Nat) /\ Len(SubSeq(T, 1, a)) = a
          /\ \A j \in 1 .. a : SubSeq(T, 1, a)[j] = T[j]
      BY <2>4, SplitAt DEF t
    <2>6. Len(s) = Len(SubSeq(T, 1, a)) /\ \A j \in 1 .. Len(s) : s[j] = SubSeq(T, 1, a)[j]
      <3>1. \A j \in 1 .. a : j \in 1 .. t
        BY <1>1, <2>4
      <3> QED  BY <1>7, <2>3, <2>5, <3>1
    <2>7. s = SubSeq(T, 1, a)
      BY ONLY <2>3, <2>5, <2>6, SeqEqual
    <2> QED  BY <2>4, <2>7 DEF s
  <1>13. Len(T) = t
    BY DEF t
  <1> QED  BY <1>7, <1>12, <1>13 DEF e, u

(* Without a start there is no audio.                                      *)
LEMMA NoAudio ==
  ASSUME NEW g, g = <<>> \/ g = <<Marker>>
  PROVE  ExtractAudio(g) = <<>>
  <1>1. {i \in DOMAIN g : g[i] = StartId} = {}
    BY CodecAssumption
  <1> QED  BY <1>1 DEF ExtractAudio

(* The frames of three streams, and the frames of them that are kept.      *)
LEMMA FramesFacts ==
  ASSUME NEW r, r[1] \in Seq(Codes), r[2] \in Seq(Codes), r[3] \in Seq(Codes),
         Len(r[2]) = 2 * Len(r[1]), Len(r[3]) = 4 * Len(r[1]), NEW n \in 0 .. Len(r[1])
  PROVE  Frames(r, n) \in Seq(Frame7) /\ Len(Frames(r, n)) = n
  <1> DEFINE c0 == r[1]
             c1 == r[2]
             c2 == r[3]
             m == Len(c0)
  <1>1. /\ m \in Nat /\ n \in 0 .. m
        /\ (\A i \in 1 .. m : c0[i] \in Codes) /\ (\A i \in 1 .. 2 * m : c1[i] \in Codes)
        /\ \A i \in 1 .. 4 * m : c2[i] \in Codes
    OBVIOUS
  <1> HIDE DEF m
  <1>2. ASSUME NEW i \in 1 .. n PROVE Frame(r, i) \in Frame7
    <2>1. /\ i \in 1 .. m /\ 2 * i - 1 \in 1 .. 2 * m /\ 2 * i \in 1 .. 2 * m
          /\ 4 * i - 3 \in 1 .. 4 * m /\ 4 * i - 2 \in 1 .. 4 * m
          /\ 4 * i - 1 \in 1 .. 4 * m /\ 4 * i \in 1 .. 4 * m
      <3>1. i \in 1 .. m /\ m \in Nat
        BY ONLY <1>1, <1>2
      <3> QED  BY ONLY <3>1
    <2> DEFINE f == <<c0[i], c1[2 * i - 1], c2[4 * i - 3], c2[4 * i - 2], c1[2 * i], c2[4 * i - 1], c2[4 * i]>>
    <2>2. f \in [1 .. 7 -> Codes]
      <3>1. /\ c0[i] \in Codes /\ c1[2 * i - 1] \in Codes /\ c1[2 * i] \in Codes
            /\ c2[4 * i - 3] \in Codes /\ c2[4 * i - 2] \in Codes
            /\ c2[4 * i - 1] \in Codes /\ c2[4 * i] \in Codes
        BY ONLY <1>1, <2>1
      <3> HIDE DEF c0, c1, c2
      <3> QED  BY ONLY <3>1
    <2>3. Frame(r, i) = f
      BY DEF Frame
    <2> QED  BY <2>2, <2>3 DEF Frame7, Positions, SNAC_NUM_CODEBOOKS
  <1>3. Frames(r, n) \in [1 .. n -> Frame7]
    BY <1>2 DEF Frames
  <1>4. n \in Nat
    BY <1>1
  <1> QED  BY <1>3, <1>4, FunctionSeq

(* What is left without repeated frames is frames.                         *)
LEMMA DistinctFacts ==
  ASSUME NEW fr \in Seq(Frame7)
  PROVE  RemoveDuplicates(fr) \in Seq(Frame7) /\ (Len(fr) = 0 => RemoveDuplicates(fr) = <<>>)
  <1> DEFINE K == {i \in DOMAIN fr : i = 1 \/ fr[i][1] # fr[i - 1][1]}
  <1>1. K \in SUBSET (1 .. Len(fr))
    OBVIOUS
  <1>2. RemoveDuplicates(fr) = PickAt(fr, K)
    BY DEF RemoveDuplicates
  <1> HIDE DEF K
  <1>3. /\ PickAt(fr, K) \in Seq(Frame7) /\ Len(PickAt(fr, K)) = Cardinality(K)
    BY <1>1, PickAtFacts
  <1>4. Len(fr) = 0 => PickAt(fr, K) = <<>>
    <2>1. ASSUME Len(fr) = 0 PROVE PickAt(fr, K) = <<>>
      <3>1. K = {}
        BY <1>1, <2>1
      <3>2. Cardinality(K) = 0
        BY <3>1, FS_EmptySet
      <3> QED  BY <1>3, <3>2, EmptySeq
    <2> QED  BY <2>1
  <1> QED  BY <1>2, <1>3, <1>4

(* The frames a text was trained with: those of its own recording, also    *)
(* when the tokenizer encoded it in a batch.                               *)
Own(t) == RemoveDuplicates(Frames(Recordings[t], Len(Recordings[t][1])))

(* The streams of a recording.                                             *)
LEMMA RecordedFacts ==
  ASSUME NEW t \in Texts
  PROVE  /\ Recordings[t][1] \in Seq(Codes) /\ Recordings[t][2] \in Seq(Codes)
         /\ Recordings[t][3] \in Seq(Codes) /\ Len(Recordings[t][1]) \in Nat
         /\ Len(Recordings[t][2]) = 2 * Len(Recordings[t][1])
         /\ Len(Recordings[t][3]) = 4 * Len(Recordings[t][1])
  <1>1. /\ Recordings[t] \in Seq(Codes) \X Seq(Codes) \X Seq(Codes)
        /\ Len(Recordings[t][2]) = 2 * Len(Recordings[t][1])
        /\ Len(Recordings[t][3]) = 4 * Len(Recordings[t][1])
    BY EngineAssumption
  <1> DEFINE r == Recordings[t]
  <1>2. r[1] \in Seq(Codes) /\ r[2] \in Seq(Codes) /\ r[3] \in Seq(Codes)
    <2> HIDE DEF r
    <2>1. r \in Seq(Codes) \X Seq(Codes) \X Seq(Codes)
      BY <1>1 DEF r
    <2> QED  BY <2>1
  <1> QED  BY <1>1, <1>2

(* No recording of the batch is longer than it is padded to.               *)
LEMMA LongestFacts ==
  ASSUME NEW t \in Texts \ LongRecordings
  PROVE  Longest \in Nat /\ Len(Recordings[t][1]) <= Longest
  <1> DEFINE S == Texts \ LongRecordings
             h == [u \in S |-> Len(Recordings[u][1])]
             L == {Len(Recordings[u][1]) : u \in S}
  <1>1. IsFiniteSet(S)
    BY EngineAssumption, FS_Subset
  <1>2. h \in [S -> Nat] /\ \A u \in S : h[u] = Len(Recordings[u][1])
    BY RecordedFacts
  <1>3. PICK b \in Nat : \A u \in S : h[u] <= b
    <2> HIDE DEF h, S
    <2> QED  BY <1>1, <1>2, BoundedFamily
  <1>4. L \subseteq 0 .. b /\ L # {} /\ Len(Recordings[t][1]) \in L
    <2>1. ASSUME NEW u \in S PROVE Len(Recordings[u][1]) \in 0 .. b
      <3>1. h[u] \in Nat /\ h[u] <= b
        BY <1>2, <1>3
      <3> QED  BY <1>2, <1>3, <3>1
    <2> QED  BY <2>1
  <1> HIDE DEF L
  <1>5. Max(L) \in L /\ \A x \in L : x <= Max(L)
    BY <1>3, <1>4, ExtremeFacts
  <1>6. Max(L) \in Nat /\ Len(Recordings[t][1]) <= Max(L)
    <2> DEFINE q == Len(Recordings[t][1])
    <2>1. Max(L) \in 0 .. b /\ q <= Max(L)
      BY <1>4, <1>5
    <2> HIDE DEF q
    <2> QED  BY <1>3, <2>1 DEF q
  <1> QED  BY <1>6 DEF Longest, L

(* Training tokens are those of the frames kept of the own recording.      *)
LEMMA OwnFacts ==
  ASSUME NEW t \in Texts
  PROVE  Own(t) \in Seq(Frame7) /\ EncodeWaveform(t) = TokensOf(Own(t))
  <1> DEFINE r == Recordings[t]
             n == Len(r[1])
             p == PaddedStreams(r)
             fr == Frames(r, n)
  <1>1. /\ r[1] \in Seq(Codes) /\ r[2] \in Seq(Codes) /\ r[3] \in Seq(Codes)
        /\ Len(r[2]) = 2 * Len(r[1]) /\ Len(r[3]) = 4 * Len(r[1]) /\ n \in Nat
    BY RecordedFacts
  <1> HIDE DEF r
  <1>2. fr \in Seq(Frame7) /\ Len(fr) = n
    <2>1. Len(r[1]) \in 0 .. Len(r[1])
      BY <1>1
    <2> QED  BY <1>1, <2>1, FramesFacts
  <1>3. Own(t) = RemoveDuplicates(fr)
    BY DEF Own, r
  <1> HIDE DEF fr
  <1>4. Own(t) \in Seq(Frame7) /\ (n = 0 => Own(t) = <<>>)
    BY <1>2, <1>3, DistinctFacts
  <1>5. CASE t \in LongRecordings
    BY <1>3, <1>4, <1>5 DEF EncodeWaveform, EncodeAudio, r, fr
  <1>6. CASE t \notin LongRecordings
    <2> DEFINE x == Longest - n
               z0 == [k \in 1 .. x |-> 0]
               z1 == [k \in 1 .. 2 * x |-> 0]
               z2 == [k \in 1 .. 4 * x |-> 0]
    <2>1. Longest \in Nat /\ n <= Longest
      BY <1>6, LongestFacts DEF r
    <2>2. x \in Nat /\ n + x = Longest
      BY <1>1, <2>1
    <2>3. p = <<r[1] \o z0, r[2] \o z1, r[3] \o z2>>
      BY DEF PaddedStreams
    <2> HIDE DEF x, n
    <2>4. 0 \in Codes /\ 2 * x \in Nat /\ 4 * x \in Nat
      BY <2>2, CodecAssumption DEF Codes
    <2>5. /\ z0 \in Seq(Codes) /\ Len(z0) = x /\ z1 \in Seq(Codes) /\ z2 \in Seq(Codes)
      <3>1. z0 \in [1 .. x -> Codes] /\ z1 \in [1 .. 2 * x -> Codes] /\ z2 \in [1 .. 4 * x -> Codes]
        BY <2>4
      <3> HIDE DEF z0, z1, z2
      <3> QED  BY <2>2, <2>4, <3>1, FunctionSeq
    <2> HIDE DEF z0, z1, z2
    <2>6. Len(r[1] \o z0) = n + x /\ \A i \in 1 .. n : (r[1] \o z0)[i] = r[1][i]
      <3>1. /\ Len(r[1] \o z0) = Len(r[1]) + Len(z0)
            /\ \A i \in 1 .. Len(r[1]) : (r[1] \o z0)[i] = r[1][i]
        <4>1. r[1] \in Seq(Codes) /\ z0 \in Seq(Codes)
          BY ONLY <1>1, <2>5
        <4> QED  BY ONLY <4>1, ConcatAt
      <3> QED  BY ONLY <2>5, <3>1 DEF n
    <2>7. \A i \in 1 .. 2 * n : (r[2] \o z1)[i] = r[2][i]
      <3>1. \A i \in 1 .. Len(r[2]) : (r[2] \o z1)[i] = r[2][i]
        <4>1. r[2] \in Seq(Codes) /\ z1 \in Seq(Codes)
          BY ONLY <1>1, <2>5
        <4> QED  BY ONLY <4>1, ConcatAt
      <3> QED  BY ONLY <1>1, <3>1 DEF n
    <2>8. \A i \in 1 .. 4 * n : (r[3] \o z2)[i] = r[3][i]
      <3>1. \A i \in 1 .. Len(r[3]) : (r[3] \o z2)[i] = r[3][i]
        <4>1. r[3] \in Seq(Codes) /\ z2 \in Seq(Codes)
          BY ONLY <1>1, <2>5
        <4> QED  BY ONLY <4>1, ConcatAt
      <3> QED  BY ONLY <1>1, <3>1 DEF n
    <2>9. Frames(p, n) = fr
      <3> DEFINE d0 == r[1] \o z0
                 d1 == r[2] \o z1
                 d2 == r[3] \o z2
      <3>0. p[1] = d0 /\ p[2] = d1 /\ p[3] = d2
        BY <2>3
      <3> HIDE DEF p
      <3>1. ASSUME NEW i \in 1 .. n PROVE Frame(p, i) = Frame(r, i)
        <4>1. /\ i \in 1 .. n /\ 2 * i - 1 \in 1 .. 2 * n /\ 2 * i \in 1 .. 2 * n
              /\ 4 * i - 3 \in 1 .. 4 * n /\ 4 * i - 2 \in 1 .. 4 * n
              /\ 4 * i - 1 \in 1 .. 4 * n /\ 4 * i \in 1 .. 4 * n
          BY <1>1, <3>1
        <4>2. /\ d0[i] = r[1][i] /\ d1[2 * i - 1] = r[2][2 * i - 1] /\ d1[2 * i] = r[2][2 * i]
              /\ d2[4 * i - 3] = r[3][4 * i - 3] /\ d2[4 * i - 2] = r[3][4 * i - 2]
              /\ d2[4 * i - 1] = r[3][4 * i - 1] /\ d2[4 * i] = r[3][4 * i]
          BY ONLY <2>6, <2>7, <2>8, <4>1
        <4> HIDE DEF d0, d1, d2
        <4> QED  BY ONLY <3>0, <4>2 DEF Frame
      <3> QED  BY <3>1 DEF Frames, fr
    <2>10. Len(p[1]) = n + x /\ n + x = Longest
      BY <2>2, <2>3, <2>6
    <2> HIDE DEF p
    <2>11. EncodeInBatch(p, n) = TokensOf(Own(t))
      <3>1. (IF n < Len(p[1]) THEN n ELSE Len(p[1])) = n
        BY <1>1, <2>1, <2>10
      <3>2. EncodeInBatch(p, n) = IF n = 0 THEN <<>> ELSE TokensOf(RemoveDuplicates(Frames(p, n)))
        BY <3>1 DEF EncodeInBatch
      <3>3. TokensOf(<<>>) = <<>>
        <4>1. <<>> \in Seq(Frame7) /\ 7 * Len(<<>>) = 0
          OBVIOUS
        <4>2. TokensOf(<<>>) \in Seq(Nat) /\ Len(TokensOf(<<>>)) = 7 * Len(<<>>)
          BY <4>1, TokensFacts
        <4> QED  BY <4>1, <4>2, EmptySeq
      <3>4. CASE n = 0
        BY <1>4, <3>2, <3>3, <3>4
      <3>5. CASE n # 0
        BY <1>3, <2>9, <3>2, <3>5
      <3> QED  BY <3>4, <3>5
    <2> QED  BY <1>4, <1>6, <2>11 DEF EncodeWaveform, p, r, n
  <1> QED  BY <1>5, <1>6

(* The prompt of a text, and what the model emits after it.                *)
Prompt == PromptSegment(Meta, <<Marker>>)
Tok(t) == TokensOf(Own(t))

LEMMA PromptFacts ==
  Prompt \in Seq(Nat) /\ BuildPrompt(Meta, <<Marker>>) = Prompt
  <1>1. StartId \in Nat /\ EndId \in Nat /\ Marker \in Nat
    BY CodecAssumption
  <1>2. /\ <<Marker, Marker>> \in Seq(Nat) /\ <<Marker>> \in Seq(Nat)
        /\ <<Marker, Marker, Marker>> \in Seq(Nat) /\ <<StartId>> \in Seq(Nat)
        /\ <<0>> \in Seq(Nat) /\ <<EndId, Marker>> \in Seq(Nat)
    BY <1>1
  <1>3. Prompt \in Seq(Nat)
    <2>1. Prompt = ((<<Marker, Marker>> \o <<Marker>>) \o <<Marker>>) \o <<Marker, Marker, Marker>>
      BY DEF Prompt, PromptSegment, Meta
    <2> QED  BY <1>2, <2>1, ConcatProperties
  <1> DEFINE x == TrainingTarget(<<0>>)
  <1>4. x \in Seq(Nat)
    BY <1>2, ConcatProperties DEF TrainingTarget
  <1>5. BuildSequence(Meta, <<Marker>>, <<0>>) = [ids |-> Prompt \o x, promptEnd |-> Len(Prompt)]
    BY DEF BuildSequence, Prompt
  <1> HIDE DEF x
  <1>6. SubSeq(Prompt \o x, 1, Len(Prompt)) = Prompt
    BY <1>3, <1>4, CutConcat
  <1>7. BuildPrompt(Meta, <<Marker>>) = SubSeq(Prompt \o x, 1, Len(Prompt))
    <2> DEFINE b == BuildSequence(Meta, <<Marker>>, <<0>>)
    <2>1. b.ids = Prompt \o x /\ b.promptEnd = Len(Prompt)
      BY <1>5
    <2> HIDE DEF b
    <2>2. BuildPrompt(Meta, <<Marker>>) = SubSeq(b.ids, 1, b.promptEnd)
      BY DEF BuildPrompt, b
    <2> QED  BY <2>1, <2>2
  <1> QED  BY <1>3, <1>6, <1>7

(* The tokens a text was trained with.                                     *)
LEMMA TokFacts ==
  ASSUME NEW t \in Texts
  PROVE  /\ Own(t) \in Seq(Frame7) /\ Tok(t) \in Seq(Nat) /\ Len(Tok(t)) = 7 * Len(Own(t))
         /\ Len(Tok(t)) \in Nat /\ \A k \in 1 .. Len(Tok(t)) : InVocabulary(Tok(t)[k])
  <1>1. Own(t) \in Seq(Frame7)
    BY OwnFacts
  <1>2. Tok(t) \in Seq(Nat) /\ Len(Tok(t)) = 7 * Len(Own(t))
        /\ \A k \in 1 .. 7 * Len(Own(t)) : InVocabulary(Tok(t)[k])
    BY <1>1, TokensFacts DEF Tok
  <1> QED  BY <1>1, <1>2

(* The training sequence goes on after the prompt with the audio.          *)
LEMMA ContinuationFacts ==
  ASSUME NEW t \in Texts
  PROVE  Continuation(t, Prompt) = IF Tok(t) = <<>> THEN <<>> ELSE Emitted(TrainingTarget(Tok(t)))
  <1> DEFINE T == Tok(t)
             n == Len(Prompt)
  <1>1. EncodeWaveform(t) = T /\ T \in Seq(Nat)
    BY OwnFacts, TokFacts DEF Tok
  <1>2. TextIds(t) = <<Marker>>
    BY EngineAssumption DEF TextIds
  <1>3. n \in Nat
    BY PromptFacts
  <1> HIDE DEF T
  <1>4. CASE T = <<>>
    <2>1. TrainingIds(t) = <<>>
      BY <1>1, <1>4 DEF TrainingIds, BuildSequence
    <2>2. SubSeq(<<>>, n + 1, 0) = <<>>
      BY <1>3, SubSeqEmpty
    <2>3. Emitted(<<>>) = <<>>
      <3>1. {i \in DOMAIN <<>> : <<>>[i] = EndId} = {}
        OBVIOUS
      <3> QED  BY <3>1 DEF Emitted
    <2>4. Len(<<>>) = 0
      OBVIOUS
    <2> QED  BY <1>4, <2>1, <2>2, <2>3, <2>4 DEF Continuation, T
  <1>5. CASE T # <<>>
    <2> DEFINE x == TrainingTarget(T)
    <2>1. TrainingIds(t) = Prompt \o x
      BY <1>1, <1>2, <1>5 DEF TrainingIds, BuildSequence, Prompt
    <2>2. x \in Seq(Nat)
      <3>1. <<StartId>> \in Seq(Nat) /\ <<EndId, Marker>> \in Seq(Nat)
        BY CodecAssumption
      <3> QED  BY <1>1, <3>1, ConcatProperties DEF TrainingTarget
    <2> HIDE DEF x
    <2>3. SubSeq(Prompt \o x, Len(Prompt) + 1, Len(Prompt \o x)) = x
      BY <2>2, PromptFacts, CutConcat
    <2> QED  BY <1>5, <2>1, <2>3 DEF Continuation, x, T
  <1> QED  BY <1>4, <1>5

(* What is read out of a generation is the start of the text's own audio,  *)
(* and all of it if the generation was not cut.                            *)
LEMMA GeneratedFacts ==
  ASSUME NEW t \in Texts, NEW g \in Generated(t, Prompt)
  PROVE  \E a \in 0 .. Len(Tok(t)) : /\ ExtractAudio(g) = SubSeq(Tok(t), 1, a)
                                     /\ g = Continuation(t, Prompt) => a = Len(Tok(t))
  <1> DEFINE T == Tok(t)
             c == Len(T)
             all == Continuation(t, Prompt)
             n == Min({Len(all), SNAC_NUM_CODEBOOKS + 3})
  <1>1. /\ T \in Seq(Nat) /\ c \in Nat /\ (\A k \in 1 .. Len(T) : InVocabulary(T[k])) /\ Len(T) = c
    BY TokFacts
  <1>2. all = IF T = <<>> THEN <<>> ELSE Emitted(TrainingTarget(T))
    BY ContinuationFacts
  <1>3. g = all \/ g = SubSeq(all, 1, n) \/ g = <<Marker>>
    BY DEF Generated
  <1>4. SubSeq(T, 1, 0) = <<>>
    BY SubSeqEmpty
  <1>5. Len(all) \in Nat => n \in 0 .. Len(all)
    <2> DEFINE l == Len(all)
               L == {l, 10}
    <2>1. n = Min(L)
      BY DEF SNAC_NUM_CODEBOOKS
    <2>2. ASSUME l \in Nat PROVE n \in 0 .. l
      <3>1. L \subseteq 0 .. l + 10 /\ L # {} /\ l + 10 \in Nat /\ l \in L
        BY <2>2
      <3> HIDE DEF L, l, n
      <3>2. n \in L /\ n <= l
        BY <2>1, <3>1, ExtremeFacts
      <3> QED  BY <2>2, <3>1, <3>2
    <2> QED  BY <2>2
  <1> HIDE DEF T, n, c
  <1>6. CASE T = <<>>
    <2>1. all = <<>> /\ Len(all) = 0 /\ c = 0
      BY <1>1, <1>2, <1>6
    <2> HIDE DEF all
    <2>2. n = 0
      BY <1>5, <2>1
    <2>3. SubSeq(all, 1, n) = <<>>
      BY <2>2, SubSeqEmpty
    <2>4. g = <<>> \/ g = <<Marker>>
      BY <1>3, <2>1, <2>3
    <2>5. ExtractAudio(g) = SubSeq(T, 1, 0)
      BY <1>4, <2>4, NoAudio
    <2> QED  BY <2>1, <2>5 DEF T, c
  <1>7. CASE T # <<>>
    <2>1. all = Emitted(TrainingTarget(T))
      BY <1>2, <1>7
    <2> HIDE DEF all
    <2>2. /\ all \in Seq(Nat) /\ Len(all) = c + 2 /\ all[1] = StartId
          /\ \A k \in 0 .. Len(all) :
               \E a \in 0 .. c : ExtractAudio(SubSeq(all, 1, k)) = SubSeq(T, 1, a)
                                 /\ (k = Len(all) => a = c)
      BY <1>1, <2>1, EmittedFacts
    <2>3. ASSUME NEW k \in 0 .. Len(all), g = SubSeq(all, 1, k)
          PROVE  \E a \in 0 .. c : ExtractAudio(g) = SubSeq(T, 1, a) /\ (g = all => a = c)
      <3>1. PICK a \in 0 .. c : ExtractAudio(SubSeq(all, 1, k)) = SubSeq(T, 1, a)
                                /\ (k = Len(all) => a = c)
        BY <2>2, <2>3
      <3>2. Len(SubSeq(all, 1, k)) = k
        BY <2>2, <2>3, SplitAt
      <3>3. g = all => k = Len(all)
        BY <2>3, <3>2, SMTT(40)
      <3> QED  BY <2>3, <3>1, <3>3
    <2>4. CASE g = all
      <3>1. all = SubSeq(all, 1, Len(all)) /\ Len(all) \in 0 .. Len(all)
        BY <1>1, <2>2, SubSeqFull
      <3> QED  BY <2>3, <2>4, <3>1 DEF all, T, c
    <2>5. CASE g = SubSeq(all, 1, n)
      <3>1. n \in 0 .. Len(all)
        BY <1>1, <1>5, <2>2
      <3> QED  BY <2>3, <2>5, <3>1 DEF all, T, c
    <2>6. CASE g = <<Marker>>
      <3>1. ExtractAudio(g) = SubSeq(T, 1, 0)
        BY <1>4, <2>6, NoAudio
      <3>2. g # all
        <4>1. g[1] = Marker /\ Marker # StartId
          BY <2>6, CodecAssumption
        <4> QED  BY <2>2, <4>1
      <3>3. 0 \in 0 .. c
        BY <1>1
      <3> QED  BY <3>1, <3>2, <3>3 DEF all, T, c
    <2> QED  BY <1>3, <2>4, <2>5, <2>6
  <1> QED  BY <1>6, <1>7

(* The invariant of the engine: the places that are still worked on, each  *)
(* once, are the rows without an error, and what is held for one of them   *)
(* is its prompt and then the start of its own audio.                      *)
Errors == {"none", "prompt build failed", "empty prompt", "no audio tokens", "decode failed"}
EngineTypes ==
    /\ enginePc \in {"ready", "generate", "decode", "returned"}
    /\ texts \in Seq(Inputs) /\ rowError \in [DOMAIN texts -> Errors]
    /\ complete \in [DOMAIN texts -> BOOLEAN]
    /\ pending \in Seq(DOMAIN texts) /\ IsInjective(pending)
    /\ tokenLists \in Seq(Seq(Nat)) /\ DOMAIN tokenLists = DOMAIN pending
StillAsked ==
    /\ \A i \in DOMAIN texts : i \notin ToSet(pending) => rowError[i] # "none"
    /\ \A k \in DOMAIN pending : rowError[pending[k]] = "none" /\ texts[pending[k]] \in Texts
Prompted ==
    /\ \A k \in DOMAIN pending : tokenLists[k] = Prompt
    /\ \A i \in DOMAIN texts : rowAudio[i] = Failed
SlotStart(k) ==
    LET i == pending[k]
    IN  \E a \in 0 .. Len(Tok(texts[i])) : /\ tokenLists[k] = SubSeq(Tok(texts[i]), 1, a)
                                           /\ complete[i] => a = Len(Tok(texts[i]))
EngineInv ==
    /\ EngineTypes
    /\ enginePc \in {"generate", "decode"} => StillAsked
    /\ enginePc = "generate" => Prompted
    /\ enginePc = "decode" => \A k \in DOMAIN pending : SlotStart(k)
    /\ SpokenAsRecorded

LEMMA EngineInvInit == EngineInit => EngineInv
  <1> SUFFICES ASSUME EngineInit PROVE EngineInv
    OBVIOUS
  <1>1. /\ enginePc = "ready" /\ texts = <<>> /\ rowError = <<>> /\ complete = <<>>
        /\ pending = <<>> /\ tokenLists = <<>>
    BY DEF EngineInit
  <1>2. IsInjective(<<>>)
    BY ShortSeqFacts
  <1>3. EngineTypes
    BY <1>1, <1>2 DEF EngineTypes
  <1> QED  BY <1>1, <1>3 DEF EngineInv, SpokenAsRecorded

(* The rows that are asked of the model.                                   *)
LEMMA SynthesizeStep == EngineInv /\ Synthesize => EngineInv'
  <1> SUFFICES ASSUME Synthesize PROVE EngineInv'
    OBVIOUS
  <1>1. PICK rows \in UNION {[1 .. n -> Inputs] : n \in 1 .. MaxRows} :
           LET valid == PickAt([i \in DOMAIN rows |-> i], {i \in DOMAIN rows : BuildError(rows[i]) = "none"})
           IN  /\ texts' = rows
               /\ rowError' = [i \in DOMAIN rows |-> BuildError(rows[i])]
               /\ rowAudio' = [i \in DOMAIN rows |-> Failed]
               /\ complete' = [i \in DOMAIN rows |-> FALSE]
               /\ pending' = valid
               /\ tokenLists' = [k \in DOMAIN valid |-> BuildPrompt(Meta, TextIds(rows[valid[k]]))]
               /\ enginePc' = IF valid = <<>> THEN "returned" ELSE "generate"
    BY DEF Synthesize
  <1> DEFINE V == {i \in DOMAIN rows : BuildError(rows[i]) = "none"}
             id == [i \in DOMAIN rows |-> i]
             valid == PickAt(id, V)
  <1>2. PICK m \in 1 .. MaxRows : rows \in [1 .. m -> Inputs]
    OBVIOUS
  <1>3. m \in Nat /\ DOMAIN rows = 1 .. m /\ rows \in Seq(Inputs)
    BY <1>2, EngineAssumption, FunctionSeq
  <1>4. id \in Seq(1 .. m) /\ Len(id) = m /\ \A i \in 1 .. m : id[i] = i
    <2>1. id \in [1 .. m -> 1 .. m] /\ \A i \in 1 .. m : id[i] = i
      BY <1>3
    <2> HIDE DEF id
    <2> QED  BY <1>3, <2>1, FunctionSeq
  <1>5. V \in SUBSET (1 .. Len(id))
    BY <1>3, <1>4
  <1>6. /\ texts' = rows /\ rowError' = [i \in 1 .. m |-> BuildError(rows[i])]
        /\ rowAudio' = [i \in 1 .. m |-> Failed] /\ complete' = [i \in 1 .. m |-> FALSE]
        /\ pending' = valid
        /\ tokenLists' = [k \in DOMAIN valid |-> BuildPrompt(Meta, TextIds(rows[valid[k]]))]
        /\ enginePc' = IF valid = <<>> THEN "returned" ELSE "generate"
    BY <1>1, <1>3
  <1>7. \A i \in 1 .. m : i \in V <=> BuildError(rows[i]) = "none"
    BY <1>3
  <1> HIDE DEF id, V
  <1>8. valid \in Seq(1 .. m)
    BY <1>4, <1>5, PickAtFacts
  <1>9. ToSet(valid) = V
    <2>1. ToSet(valid) = {id[k] : k \in V}
      BY <1>4, <1>5, PickedSet
    <2>2. \A k \in V : id[k] = k
      BY <1>4, <1>5
    <2> QED  BY <2>1, <2>2
  <1>10. IsInjective(valid)
    <2>1. \A i, j \in V : id[i] = id[j] => i = j
      BY <1>4, <1>5
    <2> QED  BY <1>4, <1>5, <2>1, PickInjective
  <1> HIDE DEF valid
  <1>11. \A k \in DOMAIN valid : valid[k] \in V
    BY <1>9 DEF ToSet
  <1>12. \A t \in Inputs : BuildError(t) \in Errors /\ (BuildError(t) = "none" => t \in Texts)
    BY DEF Inputs, BuildError, Errors
  <1>13. \A i \in 1 .. m : rows[i] \in Inputs
    BY <1>2
  <1>14. ASSUME NEW k \in DOMAIN valid
         PROVE  /\ valid[k] \in 1 .. m /\ rows[valid[k]] \in Texts /\ rowError'[valid[k]] = "none"
                /\ tokenLists'[k] = Prompt
    <2>1. valid[k] \in V /\ valid[k] \in 1 .. m
      BY <1>4, <1>5, <1>11
    <2>2. rows[valid[k]] \in Texts
      BY <1>7, <1>12, <1>13, <2>1
    <2>3. TextIds(rows[valid[k]]) = <<Marker>>
      BY <2>2, EngineAssumption DEF TextIds
    <2> QED  BY <1>6, <1>7, <2>1, <2>2, <2>3, PromptFacts
  <1>15. EngineTypes'
    <2>1. rowError' \in [1 .. m -> Errors]
      BY <1>6, <1>12, <1>13
    <2>2. complete' \in [1 .. m -> BOOLEAN]
      BY <1>6
    <2>3. tokenLists' \in Seq(Seq(Nat)) /\ DOMAIN tokenLists' = DOMAIN pending'
      <3> DEFINE n == Len(valid)
      <3>1. DOMAIN valid = 1 .. n /\ n \in Nat
        BY <1>8
      <3>2. \A k \in 1 .. n : tokenLists'[k] = Prompt
        BY <1>14, <3>1
      <3> HIDE DEF n
      <3>3. tokenLists' \in [1 .. n -> Seq(Nat)]
        BY <1>6, <3>1, <3>2, PromptFacts
      <3> QED  BY <1>6, <3>1, <3>3, FunctionSeq
    <2>4. pending' \in Seq(DOMAIN texts') /\ IsInjective(pending')
      BY <1>3, <1>6, <1>8, <1>10
    <2>5. enginePc' \in {"ready", "generate", "decode", "returned"} /\ DOMAIN texts' = 1 .. m
          /\ texts' \in Seq(Inputs)
      BY <1>3, <1>6
    <2> QED  BY <2>1, <2>2, <2>3, <2>4, <2>5 DEF EngineTypes
  <1>16. StillAsked'
    <2>1. \A i \in DOMAIN texts' : i \notin ToSet(pending)' => rowError'[i] # "none"
      BY <1>3, <1>6, <1>7, <1>9
    <2>2. \A k \in DOMAIN pending' : rowError'[pending'[k]] = "none" /\ texts'[pending'[k]] \in Texts
      BY <1>6, <1>14
    <2> QED  BY <2>1, <2>2 DEF StillAsked
  <1>17. \A i \in DOMAIN texts' : rowAudio'[i] = Failed
    BY <1>3, <1>6
  <1>18. Prompted'
    BY <1>6, <1>14, <1>17 DEF Prompted
  <1>19. SpokenAsRecorded'
    <2>1. enginePc' = "returned" => \A i \in DOMAIN texts' : rowError'[i] # "none"
      <3>1. ASSUME valid = <<>> PROVE V = {}
        BY <1>9, <3>1, ShortSeqFacts
      <3> QED  BY <1>3, <1>6, <1>7, <3>1
    <2> QED  BY <1>17, <2>1 DEF SpokenAsRecorded
  <1>20. enginePc' # "decode"
    BY <1>6
  <1> QED  BY <1>15, <1>16, <1>18, <1>19, <1>20 DEF EngineInv

(* What stays of them: the rows whose generation has audio, each with the  *)
(* start of its own.                                                       *)
LEMMA GenerateStep == EngineInv /\ Generate => EngineInv'
  <1> SUFFICES ASSUME EngineInv, Generate PROVE EngineInv'
    OBVIOUS
  <1> DEFINE l == Len(pending)
  <1>1. /\ enginePc = "generate" /\ EngineTypes /\ StillAsked /\ Prompted
        /\ texts \in Seq(Inputs) /\ pending \in Seq(DOMAIN texts) /\ IsInjective(pending)
    BY DEF EngineInv, EngineTypes, Generate
  <1>2. l \in Nat /\ DOMAIN pending = 1 .. l /\ (\A k \in 1 .. l : pending[k] \in DOMAIN texts)
        /\ \A j, k \in 1 .. l : pending[j] = pending[k] => j = k
    <2>1. l \in Nat /\ DOMAIN pending = 1 .. l
      BY <1>1
    <2>2. \A k \in 1 .. l : pending[k] \in DOMAIN texts
      BY <1>1, <2>1
    <2>3. \A j, k \in DOMAIN pending : pending[j] = pending[k] => j = k
      BY <1>1, ZenonT(40) DEF IsInjective
    <2> QED  BY <2>1, <2>2, <2>3
  <1>3. PICK gens :
          /\ \A k \in DOMAIN pending : gens[k] \in Generated(texts[pending[k]], tokenLists[k])
          /\ DOMAIN gens = DOMAIN pending
          /\ LET audio == [k \in DOMAIN gens |-> ExtractAudio(gens[k])]
                 kept  == {k \in DOMAIN gens : audio[k] # <<>>}
             IN  /\ rowError' = [i \in DOMAIN texts |->
                      IF \E k \in DOMAIN pending : pending[k] = i /\ audio[k] = <<>>
                      THEN "no audio tokens" ELSE rowError[i]]
                 /\ complete' = [i \in DOMAIN texts |->
                      \E k \in DOMAIN pending :
                         pending[k] = i /\ gens[k] = Continuation(texts[i], tokenLists[k])]
                 /\ pending' = PickAt(pending, kept)
                 /\ tokenLists' = PickAt(audio, kept)
                 /\ enginePc' = IF kept = {} THEN "returned" ELSE "decode"
    BY DEF Generate
  <1>4. texts' = texts /\ rowAudio' = rowAudio
    BY DEF Generate
  <1> DEFINE audio == [k \in 1 .. l |-> ExtractAudio(gens[k])]
             kept == {k \in 1 .. l : audio[k] # <<>>}
  <1>5. /\ rowError' = [i \in DOMAIN texts |->
              IF \E k \in 1 .. l : pending[k] = i /\ audio[k] = <<>> THEN "no audio tokens" ELSE rowError[i]]
        /\ complete' = [i \in DOMAIN texts |->
              \E k \in 1 .. l : pending[k] = i /\ gens[k] = Continuation(texts[i], tokenLists[k])]
        /\ pending' = PickAt(pending, kept) /\ tokenLists' = PickAt(audio, kept)
        /\ enginePc' = IF kept = {} THEN "returned" ELSE "decode"
    BY <1>2, <1>3
  <1>6. ASSUME NEW k \in 1 .. l
        PROVE  \E a \in 0 .. Len(Tok(texts[pending[k]])) :
                 /\ audio[k] = SubSeq(Tok(texts[pending[k]]), 1, a)
                 /\ gens[k] = Continuation(texts[pending[k]], tokenLists[k]) => a = Len(Tok(texts[pending[k]]))
    <2>1. texts[pending[k]] \in Texts /\ tokenLists[k] = Prompt
      BY <1>1, <1>2 DEF StillAsked, Prompted
    <2>2. gens[k] \in Generated(texts[pending[k]], Prompt)
      BY <1>2, <1>3, <2>1
    <2> HIDE DEF l
    <2>3. audio[k] = ExtractAudio(gens[k])
      BY <1>6
    <2> HIDE DEF audio
    <2>4. \E a \in 0 .. Len(Tok(texts[pending[k]])) :
             /\ ExtractAudio(gens[k]) = SubSeq(Tok(texts[pending[k]]), 1, a)
             /\ gens[k] = Continuation(texts[pending[k]], Prompt) => a = Len(Tok(texts[pending[k]]))
      BY <2>1, <2>2, GeneratedFacts
    <2> QED  BY <2>1, <2>3, <2>4
  <1>7. audio \in Seq(Seq(Nat)) /\ Len(audio) = l
    <2>1. ASSUME NEW k \in 1 .. l PROVE audio[k] \in Seq(Nat)
      <3>1. PICK a \in 0 .. Len(Tok(texts[pending[k]])) : audio[k] = SubSeq(Tok(texts[pending[k]]), 1, a)
        BY <1>6
      <3>2. texts[pending[k]] \in Texts
        BY <1>1, <1>2 DEF StillAsked
      <3>3. Tok(texts[pending[k]]) \in Seq(Nat)
        BY <3>2, TokFacts
      <3> HIDE DEF audio
      <3> QED  BY <3>1, <3>3, SplitAt
    <2>2. audio \in [1 .. l -> Seq(Nat)]
      BY <2>1
    <2> HIDE DEF audio, l
    <2> QED  BY <1>2, <2>2, FunctionSeq
  <1>8. kept \in SUBSET (1 .. l) /\ \A k \in 1 .. l : k \in kept <=> audio[k] # <<>>
    OBVIOUS
  <1> HIDE DEF audio, kept
  <1> DEFINE c == Cardinality(kept)
             at == PlaceOf(kept)
  <1>9. /\ c \in Nat /\ pending' \in Seq(DOMAIN texts) /\ Len(pending') = c
        /\ \A n \in 1 .. c : pending'[n] = pending[at[n]]
    <2>1. kept \in SUBSET (1 .. Len(pending))
      BY <1>8
    <2> QED  BY <1>1, <1>5, <2>1, PickAtFacts
  <1>10. /\ tokenLists' \in Seq(Seq(Nat)) /\ Len(tokenLists') = c
         /\ \A n \in 1 .. c : tokenLists'[n] = audio[at[n]]
    <2>1. kept \in SUBSET (1 .. Len(audio))
      BY <1>7, <1>8
    <2> QED  BY <1>5, <1>7, <2>1, PickAtFacts
  <1>11. /\ at \in [1 .. c -> kept] /\ \A k \in kept : \E n \in 1 .. c : at[n] = k
    <2> HIDE DEF l
    <2> QED  BY <1>2, <1>8, PlacesFacts
  <1> HIDE DEF c, at
  <1>12. IsInjective(pending')
    <2>1. \A j, k \in kept : pending[j] = pending[k] => j = k
      BY <1>2, <1>8
    <2>2. IsInjective(PickAt(pending, kept))
      BY <1>1, <1>8, <2>1, PickInjective
    <2> QED  BY <1>5, <2>2
  <1>13. DOMAIN pending' = 1 .. c /\ DOMAIN tokenLists' = 1 .. c
    BY <1>9, <1>10
  <1> HIDE DEF l
  <1>14. EngineTypes'
    <2>1. rowError' \in [DOMAIN texts -> Errors]
      BY <1>1, <1>5 DEF EngineTypes, Errors
    <2>2. complete' \in [DOMAIN texts -> BOOLEAN]
      BY <1>5
    <2>3. enginePc' \in {"ready", "generate", "decode", "returned"}
      BY <1>5
    <2> QED  BY <1>1, <1>4, <1>9, <1>10, <1>12, <1>13, <2>1, <2>2, <2>3 DEF EngineTypes
  <1>15. ASSUME NEW i \in DOMAIN texts, \A n \in 1 .. c : pending'[n] # i
         PROVE  rowError'[i] # "none"
    <2>1. CASE \E k \in 1 .. l : pending[k] = i
      <3>1. PICK k \in 1 .. l : pending[k] = i
        BY <2>1
      <3>2. k \notin kept
        BY <1>9, <1>11, <1>15, <3>1
      <3>3. audio[k] = <<>>
        BY <1>8, <3>2
      <3> QED  BY <1>5, <3>1, <3>3
    <2>2. CASE ~\E k \in 1 .. l : pending[k] = i
      <3>1. i \notin ToSet(pending)
        BY <1>2, <2>2 DEF ToSet
      <3>2. rowError[i] # "none"
        BY <1>1, <3>1 DEF StillAsked
      <3> QED  BY <1>5, <2>2, <3>2
    <2> QED  BY <2>1, <2>2
  <1>16. ASSUME NEW n \in 1 .. c
         PROVE  /\ rowError'[pending'[n]] = "none" /\ texts'[pending'[n]] \in Texts
                /\ SlotStart(n)'
    <2> DEFINE k == at[n]
               i == pending[k]
    <2>1. k \in kept /\ k \in 1 .. l /\ i \in DOMAIN texts /\ pending'[n] = i /\ tokenLists'[n] = audio[k]
      BY <1>2, <1>8, <1>9, <1>10, <1>11
    <2> HIDE DEF k
    <2>2. rowError[i] = "none" /\ texts[i] \in Texts
      BY <1>1, <1>2, <2>1 DEF StillAsked
    <2>3. ~\E j \in 1 .. l : pending[j] = i /\ audio[j] = <<>>
      BY <1>2, <1>8, <2>1
    <2>4. PICK a \in 0 .. Len(Tok(texts[i])) :
             /\ audio[k] = SubSeq(Tok(texts[i]), 1, a)
             /\ gens[k] = Continuation(texts[i], tokenLists[k]) => a = Len(Tok(texts[i]))
      BY <1>6, <2>1
    <2>5. complete'[i] => a = Len(Tok(texts[i]))
      <3>1. complete'[i] => \E j \in 1 .. l : pending[j] = i /\ gens[j] = Continuation(texts[i], tokenLists[j])
        BY <1>5, <2>1
      <3>2. \A j \in 1 .. l : pending[j] = i => j = k
        BY <1>2, <2>1
      <3> QED  BY <2>4, <3>1, <3>2
    <2>6. rowError'[i] = "none"
      BY <1>5, <2>1, <2>2, <2>3
    <2> HIDE DEF i
    <2>7. \E b \in 0 .. Len(Tok(texts'[pending'[n]])) :
             /\ tokenLists'[n] = SubSeq(Tok(texts'[pending'[n]]), 1, b)
             /\ complete'[pending'[n]] => b = Len(Tok(texts'[pending'[n]]))
      BY <1>4, <2>1, <2>4, <2>5
    <2> QED  BY <1>4, <2>1, <2>2, <2>6, <2>7 DEF SlotStart, Tok, Own
  <1>17. StillAsked'
    <2>1. ASSUME NEW i \in DOMAIN texts', i \notin ToSet(pending)' PROVE rowError'[i] # "none"
      <3>1. \A n \in 1 .. c : pending'[n] # i
        BY <1>13, <2>1 DEF ToSet
      <3> QED  BY <1>4, <1>15, <2>1, <3>1
    <2> QED  BY <1>13, <1>16, <2>1 DEF StillAsked
  <1>18. SpokenAsRecorded'
    <2>1. \A i \in DOMAIN texts' : rowAudio'[i] = Failed
      BY <1>1, <1>4 DEF Prompted
    <2>2. enginePc' = "returned" => \A i \in DOMAIN texts' : rowError'[i] # "none"
      <3>1. ASSUME kept = {} PROVE c = 0
        BY <3>1, FS_EmptySet DEF c
      <3>2. kept = {} => \A i \in DOMAIN texts : \A n \in 1 .. c : pending'[n] # i
        BY <3>1
      <3> QED  BY <1>4, <1>5, <1>15, <3>2
    <2> QED  BY <2>1, <2>2 DEF SpokenAsRecorded
  <1>19. enginePc' # "generate"
    BY <1>5
  <1> QED  BY <1>13, <1>14, <1>16, <1>17, <1>18, <1>19 DEF EngineInv

(* What is returned: every row's own audio.                                *)
LEMMA DecodeStep == EngineInv /\ DecodeRows => EngineInv'
  <1> SUFFICES ASSUME EngineInv, DecodeRows PROVE EngineInv'
    OBVIOUS
  <1> DEFINE l == Len(pending)
             waves == BatchDecode(tokenLists, DecodeBatch)
             of(i) == {k \in DOMAIN pending : pending[k] = i}
  <1>1. /\ enginePc = "decode" /\ EngineTypes /\ StillAsked /\ (\A k \in DOMAIN pending : SlotStart(k))
        /\ texts \in Seq(Inputs) /\ pending \in Seq(DOMAIN texts) /\ DOMAIN tokenLists = DOMAIN pending
    BY DEF EngineInv, EngineTypes, DecodeRows
  <1>2. /\ rowAudio' = [i \in DOMAIN texts |->
                IF of(i) = {} THEN Failed ELSE waves[CHOOSE k \in of(i) : TRUE]]
        /\ rowError' = [i \in DOMAIN texts |->
                IF of(i) # {} /\ waves[CHOOSE k \in of(i) : TRUE] = Failed
                THEN "decode failed" ELSE rowError[i]]
        /\ enginePc' = "returned"
        /\ texts' = texts /\ pending' = pending /\ tokenLists' = tokenLists /\ complete' = complete
    BY DEF DecodeRows
  <1>3. l \in Nat /\ DOMAIN pending = 1 .. l /\ \A k \in 1 .. l : pending[k] \in DOMAIN texts
    BY <1>1
  <1> HIDE DEF l
  <1>4. ASSUME NEW k \in 1 .. l
        PROVE  /\ tokenLists[k] \in Seq(Nat)
               /\ \E b \in 0 .. Len(Own(texts[pending[k]])) :
                    /\ ParseFrames(tokenLists[k]) = SubSeq(Own(texts[pending[k]]), 1, b)
                    /\ complete[pending[k]] => b = Len(Own(texts[pending[k]]))
    <2> DEFINE t == texts[pending[k]]
    <2>1. t \in Texts
      BY <1>1, <1>3 DEF StillAsked
    <2>2. PICK a \in 0 .. Len(Tok(t)) : tokenLists[k] = SubSeq(Tok(t), 1, a)
                                        /\ (complete[pending[k]] => a = Len(Tok(t)))
      BY <1>1, <1>3 DEF SlotStart
    <2> HIDE DEF t
    <2>3. /\ Own(t) \in Seq(Frame7) /\ Tok(t) \in Seq(Nat) /\ Len(Tok(t)) = 7 * Len(Own(t))
          /\ Tok(t) = TokensOf(Own(t)) /\ Len(Own(t)) \in Nat
      BY <2>1, TokFacts DEF Tok
    <2>4. tokenLists[k] \in Seq(Nat)
      BY <2>2, <2>3, SplitAt
    <2> DEFINE b == a \div 7
               o == Own(t)
    <2>5. a \in 0 .. 7 * Len(o)
      BY <2>2, <2>3
    <2>6. ParseFrames(SubSeq(TokensOf(o), 1, a)) = SubSeq(o, 1, b) /\ b \in 0 .. Len(o)
      BY <2>3, <2>5, ParsePrefix
    <2>7. a = 7 * Len(o) => b = Len(o)
      BY <2>3
    <2> HIDE DEF b, o
    <2>8. ParseFrames(tokenLists[k]) = SubSeq(o, 1, b) /\ b \in 0 .. Len(o)
          /\ (complete[pending[k]] => b = Len(o))
      BY <2>2, <2>3, <2>6, <2>7 DEF o
    <2> QED  BY <2>4, <2>8 DEF o, t
  <1>5. waves = [k \in 1 .. l |-> ParseFrames(tokenLists[k])]
    <2>1. tokenLists \in [1 .. l -> Seq(Nat)]
      <3>1. tokenLists \in Seq(Seq(Nat)) /\ DOMAIN tokenLists = 1 .. l
        BY <1>1, <1>3 DEF EngineTypes
      <3> DEFINE S == Seq(Nat)
      <3>2. tokenLists \in Seq(S)
        BY <3>1
      <3> HIDE DEF S
      <3>3. tokenLists \in [1 .. Len(tokenLists) -> S] /\ DOMAIN tokenLists = 1 .. Len(tokenLists)
        BY ONLY <3>2
      <3>4. tokenLists \in [1 .. l -> S]
        BY ONLY <3>1, <3>3
      <3> QED  BY <3>4 DEF S
    <2>2. ASSUME NEW k \in 1 .. l PROVE ParseFrames(tokenLists[k]) \in Seq(Frame7)
      <3>1. PICK b \in 0 .. Len(Own(texts[pending[k]])) :
               ParseFrames(tokenLists[k]) = SubSeq(Own(texts[pending[k]]), 1, b)
        BY <1>4
      <3>2. texts[pending[k]] \in Texts
        BY <1>1, <1>3 DEF StillAsked
      <3>3. Own(texts[pending[k]]) \in Seq(Frame7)
        BY <3>2, OwnFacts
      <3> QED  BY <3>1, <3>3, SplitAt
    <2>3. DecodeBatch \in Nat \ {0}
      BY EngineAssumption
    <2> QED  BY <1>3, <2>1, <2>2, <2>3, BatchDecodes
  <1> HIDE DEF waves
  <1>6. ASSUME NEW i \in DOMAIN texts
        PROVE  IF rowAudio'[i] = Failed THEN rowError'[i] # "none"
               ELSE /\ rowError'[i] = "none" /\ IsPrefix(rowAudio'[i], Own(texts[i]))
                    /\ complete[i] => rowAudio'[i] = Own(texts[i])
    <2>1. CASE of(i) = {}
      <3>1. rowAudio'[i] = Failed /\ rowError'[i] = rowError[i]
        BY <1>2, <2>1
      <3>2. i \notin ToSet(pending)
        BY <2>1 DEF ToSet
      <3> QED  BY <1>1, <3>1, <3>2 DEF StillAsked
    <2>2. CASE of(i) # {}
      <3> DEFINE k == CHOOSE k \in of(i) : TRUE
      <3>1. k \in of(i)
        BY <2>2
      <3>2. /\ rowAudio'[i] = waves[k]
            /\ rowError'[i] = IF waves[k] = Failed THEN "decode failed" ELSE rowError[i]
        BY <1>2, <2>2
      <3>3. k \in 1 .. l /\ pending[k] = i
        BY <1>3, <3>1
      <3> HIDE DEF k
      <3>4. waves[k] = ParseFrames(tokenLists[k])
        BY <1>5, <3>3
      <3>5. rowError[i] = "none" /\ texts[i] \in Texts
        BY <1>1, <1>3, <3>3 DEF StillAsked
      <3> DEFINE o == Own(texts[i])
      <3>6. PICK b \in 0 .. Len(o) : waves[k] = SubSeq(o, 1, b) /\ (complete[i] => b = Len(o))
        BY <1>4, <3>3, <3>4
      <3>7. o \in Seq(Frame7)
        BY <3>5, OwnFacts
      <3> HIDE DEF o
      <3>8. IsPrefix(SubSeq(o, 1, b), o)
        <4>1. Len(SubSeq(o, 1, b)) = b /\ Len(o) \in Nat /\ SubSeq(o, 1, b) \in Seq(Frame7)
          BY <3>7, SplitAt
        <4>2. SubSeq(SubSeq(o, 1, b), 1, b) = SubSeq(o, 1, b)
          BY <4>1, SubSeqFull
        <4> QED  BY <4>1, <4>2 DEF IsPrefix
      <3>9. b = Len(o) => SubSeq(o, 1, b) = o
        BY <3>7, SubSeqFull
      <3> QED  BY <3>2, <3>5, <3>6, <3>8, <3>9 DEF o
    <2> QED  BY <2>1, <2>2
  <1>7. SpokenAsRecorded'
    BY <1>2, <1>6 DEF SpokenAsRecorded, Own
  <1>8. EngineTypes'
    BY <1>1, <1>2 DEF EngineTypes, Errors
  <1> QED  BY <1>2, <1>7, <1>8 DEF EngineInv

(* Every step of the engine keeps the invariant.                           *)
LEMMA EngineInvStep == EngineInv /\ [EngineNext]_engineVars => EngineInv'
  <1> SUFFICES ASSUME EngineInv, [EngineNext]_engineVars PROVE EngineInv'
    OBVIOUS
  <1>1. ASSUME enginePc' = "ready" /\ texts' = <<>> /\ rowError' = <<>> /\ complete' = <<>>
               /\ pending' = <<>> /\ tokenLists' = <<>>
        PROVE  EngineInv'
    <2>1. EngineTypes'
      BY <1>1, ShortSeqFacts DEF EngineTypes
    <2> QED  BY <1>1, <2>1 DEF EngineInv, SpokenAsRecorded
  <1>2. ASSUME /\ enginePc' = enginePc /\ texts' = texts /\ rowError' = rowError
               /\ rowAudio' = rowAudio /\ pending' = pending /\ tokenLists' = tokenLists
               /\ complete' = complete
        PROVE  EngineInv'
    BY <1>2 DEF EngineInv, EngineTypes, StillAsked, Prompted, SlotStart, SpokenAsRecorded
  <1>3. CASE Synthesize
    BY <1>3, SynthesizeStep
  <1>4. CASE Generate
    BY <1>4, GenerateStep
  <1>5. CASE DecodeRows
    BY <1>5, DecodeStep
  <1>6. CASE Raises \/ Take
    BY <1>1, <1>6 DEF Raises, Take
  <1>7. CASE Close \/ UNCHANGED engineVars
    BY <1>2, <1>7 DEF Close, engineVars
  <1> QED  BY <1>3, <1>4, <1>5, <1>6, <1>7 DEF EngineNext

(* For every set of recordings, texts of a call, batch size and bound on a  *)
(* call's rows: what is returned for a text is the start of the audio of   *)
(* its own recording, all of it if the generation was not cut, or an error. *)
THEOREM EngineSpeaksOwn == EngineSpec => []SpokenAsRecorded
  <1>1. EngineInv => SpokenAsRecorded
    BY DEF EngineInv
  <1> QED  BY <1>1, EngineInvInit, EngineInvStep, PTL DEF EngineSpec
=============================================================================
