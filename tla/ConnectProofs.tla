--------------------------- MODULE ConnectProofs ---------------------------
(***************************************************************************)
(* Proofs about ConnectCall, for all goroutines, channels and bounds.      *)
(***************************************************************************)
EXTENDS ConnectCall, TLAPS

(* What the induction needs: goroutines have a place and a goal, and a     *)
(* channel in waitConnect has a goroutine that will delete it.             *)
WaiterInv ==
    /\ pc \in [Handlers -> Labels]
    /\ goal \in [Handlers -> Goals]
    /\ NoWaiterLeft

(* A step of h that installs no channel keeps NoWaiterLeft if h stays in   *)
(* connectCall when it was there, or deletes the entry.                    *)
LEMMA WaiterStep ==
    ASSUME NEW h \in Handlers, NoWaiterLeft,
           \A g \in Handlers \ {h} : pc'[g] = pc[g] /\ goal'[g] = goal[g],
           \/ waitConnect' = None
           \/ waitConnect' = waitConnect /\ (Connecting(h) => Connecting(h)')
    PROVE  NoWaiterLeft'
<1>1. CASE waitConnect' = None
  BY <1>1 DEF NoWaiterLeft
<1>2. CASE waitConnect' = waitConnect /\ (Connecting(h) => Connecting(h)')
  <2> SUFFICES ASSUME waitConnect # None
               PROVE  \E g \in Handlers : Connecting(g)'
    BY <1>2 DEF NoWaiterLeft
  <2>1. PICK g \in Handlers : Connecting(g)
    BY DEF NoWaiterLeft
  <2>2. Connecting(g)'
    BY <1>2, <2>1 DEF Connecting
  <2> QED
    BY <2>2
<1> QED
  BY <1>1, <1>2

(* A step that moves no goroutine and leaves waitConnect alone.            *)
LEMMA WaiterStutter ==
    ASSUME WaiterInv, pc' = pc, goal' = goal, waitConnect' = waitConnect
    PROVE  WaiterInv'
  BY DEF WaiterInv, NoWaiterLeft, Connecting

(* connectCall installs its channel and is inside.                         *)
LEMMA WaiterMade ==
    ASSUME WaiterInv, NEW h \in Handlers, NEW g \in {"play", "reconnect"},
           pc[h] = "idle", MakeChannel(h, g)
    PROVE  WaiterInv'
<1>1. pc' = [pc EXCEPT ![h] = "create"] /\ goal' = [goal EXCEPT ![h] = g]
  BY DEF MakeChannel, Goto
<1>2. pc' \in [Handlers -> Labels] /\ goal' \in [Handlers -> Goals]
  BY <1>1 DEF WaiterInv, Labels, Goals
<1>3. Connecting(h)'
  BY <1>1 DEF WaiterInv, Connecting, ConnectLabels
<1> QED
  BY <1>2, <1>3 DEF WaiterInv, NoWaiterLeft

(* The goroutine h moves to l and pursues what it did.                     *)
LEMMA WaiterMoves ==
    ASSUME WaiterInv, NEW h \in Handlers, NEW l \in Labels,
           pc' = [pc EXCEPT ![h] = l], goal' = goal,
           \/ waitConnect' = None
           \/ waitConnect' = waitConnect /\ (Connecting(h) => l \in ConnectLabels)
    PROVE  WaiterInv'
<1>1. pc' \in [Handlers -> Labels] /\ goal' \in [Handlers -> Goals]
  BY DEF WaiterInv
<1>2. \A g \in Handlers \ {h} : pc'[g] = pc[g] /\ goal'[g] = goal[g]
  BY DEF WaiterInv
<1>3. Connecting(h) /\ l \in ConnectLabels => Connecting(h)'
  BY DEF WaiterInv, Connecting
<1>4. NoWaiterLeft'
  BY <1>2, <1>3, WaiterStep DEF WaiterInv
<1> QED
  BY <1>1, <1>4 DEF WaiterInv

(* The same for a goroutine outside connectCall, whose goal may change.    *)
LEMMA WaiterTurns ==
    ASSUME WaiterInv, NEW h \in Handlers, NEW l \in Labels, NEW g \in Goals,
           pc' = [pc EXCEPT ![h] = l], goal' = [goal EXCEPT ![h] = g],
           pc[h] \notin ConnectLabels, waitConnect' = waitConnect
    PROVE  WaiterInv'
<1>1. pc' \in [Handlers -> Labels] /\ goal' \in [Handlers -> Goals]
  BY DEF WaiterInv
<1>2. \A k \in Handlers \ {h} : pc'[k] = pc[k] /\ goal'[k] = goal[k]
  BY DEF WaiterInv
<1>3. NoWaiterLeft'
  BY <1>2, WaiterStep DEF WaiterInv, Connecting
<1> QED
  BY <1>1, <1>3 DEF WaiterInv

LEMMA WaiterBegins ==
    ASSUME WaiterInv, NEW h \in Handlers, Begin(h)
    PROVE  WaiterInv'
<1>1. CASE Play(h)
  BY <1>1, WaiterMade DEF Play
<1>2. CASE PlayAgain(h)
  BY <1>2, WaiterMoves DEF PlayAgain, Goto, storeVars, localVars, Connecting,
     ConnectLabels, Labels
<1>3. CASE Stop(h)
  <2>1. PICK l \in {"hungup", "return"} : pc' = [pc EXCEPT ![h] = l]
    BY <1>3 DEF Stop, Goto, Fail
  <2> QED
    BY <1>3, <2>1, WaiterTurns DEF Stop, storeVars, ConnectLabels, Labels, Goals
<1>4. CASE Unmuted(h)
  BY <1>4, WaiterMade DEF Unmuted
<1> QED
  BY <1>1, <1>2, <1>3, <1>4 DEF Begin

(* Every step of connectCall leads to another one, until Undo deletes the  *)
(* entry.  Only updateSources, whose goal is another, leaves in between.   *)
LEMMA WaiterConnects ==
    ASSUME WaiterInv, NEW h \in Handlers, ConnectSteps(h)
    PROVE  WaiterInv'
<1>1. CASE LookUp(h) \/ Fetch(h) \/ Store(h)
  <2>1. PICK l \in {"fetch", "store", "participants", "join", "return", "abort"} :
          /\ pc' = [pc EXCEPT ![h] = l]
          /\ goal[h] = "sources" \/ l \in ConnectLabels
    BY <1>1 DEF LookUp, Fetch, Store, GotCall, Goto, Fail, AfterFound,
       AfterMissed, ConnectLabels
  <2>2. goal' = goal /\ waitConnect' = waitConnect
    BY <1>1 DEF LookUp, Fetch, Store, storeVars
  <2>3. Connecting(h) => l \in ConnectLabels
    BY <2>1 DEF Connecting
  <2>4. l \in Labels
    BY <2>1 DEF Labels
  <2> QED
    BY <2>1, <2>2, <2>3, <2>4, WaiterMoves
<1>2. CASE \/ CreateCall(h) \/ SetSources(h) \/ JoinGroupCall(h) \/ Connect(h)
           \/ ConnectionMode(h) \/ Pend(h) \/ ReadChannel(h) \/ Receive(h)
           \/ Timeout(h) \/ Abort(h)
  <2>1. PICK l \in ConnectLabels : pc' = [pc EXCEPT ![h] = l]
    BY <1>2 DEF CreateCall, SetSources, JoinGroupCall, Connect, ConnectionMode,
       Pend, ReadChannel, Receive, Timeout, Abort, Goto, Fail, ConnectLabels
  <2>2. goal' = goal /\ waitConnect' = waitConnect
    BY <1>2 DEF CreateCall, SetSources, JoinGroupCall, Connect, ConnectionMode,
       Pend, ReadChannel, Receive, Timeout, Abort, storeVars, localVars
  <2>3. l \in Labels
    BY DEF ConnectLabels, Labels
  <2> QED
    BY <2>1, <2>2, <2>3, WaiterMoves
<1>3. CASE Undo(h)
  <2>1. PICK l \in {"presentation", "return"} : pc' = [pc EXCEPT ![h] = l]
    BY <1>3 DEF Undo, Goto
  <2> QED
    BY <1>3, <2>1, WaiterMoves DEF Undo, Labels
<1> QED
  BY <1>1, <1>2, <1>3 DEF ConnectSteps

LEMMA WaiterPlays ==
    ASSUME WaiterInv, NEW h \in Handlers,
           PlaySteps(h) \/ StopLookUp(h) \/ LeaveGroupCall(h) \/ Return(h)
    PROVE  WaiterInv'
<1>1. CASE \/ Resource(h) \/ JoinPresentation(h) \/ UpdateSources(h)
           \/ StopLookUp(h) \/ LeaveGroupCall(h)
  <2>1. PICK l \in {"return", "forget", "leave"} : pc' = [pc EXCEPT ![h] = l]
    BY <1>1 DEF Resource, JoinPresentation, UpdateSources, StopLookUp,
       LeaveGroupCall, Goto, Fail
  <2>2. goal' = goal /\ waitConnect' = waitConnect /\ pc[h] \notin ConnectLabels
    BY <1>1 DEF Resource, JoinPresentation, UpdateSources, StopLookUp,
       LeaveGroupCall, storeVars, ConnectLabels
  <2> QED
    BY <2>1, <2>2, WaiterMoves DEF Labels, Connecting
<1>2. CASE Forget(h)
  <2>1. PICK l \in {"participants", "return"} : pc' = [pc EXCEPT ![h] = l]
    BY <1>2 DEF Forget, Goto
  <2> QED
    BY <1>2, <2>1, WaiterMoves DEF Forget, localVars, Labels
<1>3. CASE StaleParticipants(h)
  BY <1>3, WaiterTurns DEF StaleParticipants, Goto, storeVars, ConnectLabels,
     Labels, Goals
<1>4. CASE Return(h)
  BY <1>4, WaiterTurns DEF Return, Goto, storeVars, ConnectLabels, Labels, Goals
<1> QED
  BY <1>1, <1>2, <1>3, <1>4 DEF PlaySteps

LEMMA WaiterNext ==
    ASSUME WaiterInv, [Next]_vars
    PROVE  WaiterInv'
<1>1. CASE \E h \in Handlers : Begin(h)
  BY <1>1, WaiterBegins
<1>2. CASE \E h \in Handlers : Continue(h)
  BY <1>2, WaiterConnects, WaiterPlays DEF Continue
<1>3. CASE HandleUpdate
  BY <1>3, WaiterStutter DEF HandleUpdate, Opened, Discarded, DiscardedStop,
     storeVars, localVars
<1>4. CASE \E s \in Slots : Notify(s)
  BY <1>4, WaiterStutter DEF Notify, NoticeRead, NoticeSend, storeVars, localVars
<1>5. CASE Environment
  BY <1>5, WaiterStutter DEF Environment, OpenCall, CloseCall, Established,
     Broken, storeVars, localVars
<1>6. CASE UNCHANGED vars
  BY <1>6, WaiterStutter DEF vars, storeVars, localVars
<1> QED
  BY <1>1, <1>2, <1>3, <1>4, <1>5, <1>6 DEF Next

(* No entry of waitConnect outlives the connectCalls of its chat, whatever *)
(* fails, however many overlap and whenever notifications arrive.          *)
THEOREM NoWaiterLeftCorrect == Spec => []NoWaiterLeft
<1>1. Init => WaiterInv
  BY DEF Init, WaiterInv, NoWaiterLeft, Labels, Goals
<1>2. WaiterInv /\ [Next]_vars => WaiterInv'
  BY WaiterNext
<1>3. WaiterInv => NoWaiterLeft
  BY DEF WaiterInv
<1> QED
  BY <1>1, <1>2, <1>3, PTL DEF Spec

-----------------------------------------------------------------------------
(* While commands do not overlap.                                          *)

(* The group call has ended and the goroutines that say so still run.      *)
NewsOfEnd == \E u \in updates : u.kind # "opened"

(* The call in ntgcalls is up, or will be without another look at Telegram.*)
Live ==
    \/ call \in {"connecting", "up"}
    \/ call = "created" /\ \E h \in Handlers : pc[h] = "connect"

BeforeConnect == {"sources", "cache", "fetch", "store", "join", "connect", "abort"}

(* What a goroutine knows of the call by where it is: Stop has ended it,   *)
(* and Play has found none and made one.                                   *)
KnowsCall(h) ==
    /\ pc[h] \in {"hungup", "leave"} => call = "none"
    /\ goal[h] = "play" /\ pc[h] = "create" => call = "none"
    /\ goal[h] = "play" /\ pc[h] \in BeforeConnect => call \in {"none", "created"}

CallInv ==
    alone =>
        /\ \A g, h \in Handlers : pc[g] # "idle" /\ pc[h] # "idle" => g = h
        /\ \A h \in Handlers : KnowsCall(h)
        /\ Live => joined \/ NewsOfEnd

(* A step of h while the others rest.                                      *)
LEMMA CallStep ==
    ASSUME WaiterInv, CallInv, NEW h \in Handlers, NEW l \in Labels, alone,
           \A g \in Handlers \ {h} : pc[g] = "idle",
           pc' = [pc EXCEPT ![h] = l],
           \A g \in Handlers \ {h} : goal'[g] = goal[g],
           updates' = updates,
           l \in {"hungup", "leave"} => call' = "none",
           goal'[h] = "play" /\ l = "create" => call' = "none",
           goal'[h] = "play" /\ l \in BeforeConnect => call' \in {"none", "created"},
           call' \in {"connecting", "up"} \/ (l = "connect" /\ call' = "created")
               => joined' \/ NewsOfEnd
    PROVE  CallInv'
<1>1. pc'[h] = l /\ \A g \in Handlers \ {h} : pc'[g] = "idle"
  BY DEF WaiterInv
<1>2. \A g, k \in Handlers : pc'[g] # "idle" /\ pc'[k] # "idle" => g = k
  BY <1>1
<1>3. ASSUME NEW g \in Handlers PROVE KnowsCall(g)'
  <2>1. CASE g = h
    BY <1>1, <2>1 DEF KnowsCall
  <2>2. CASE g # h
    BY <1>1, <2>2 DEF KnowsCall, BeforeConnect
  <2> QED
    BY <2>1, <2>2
<1>4. Live' => joined' \/ NewsOfEnd'
  <2>1. NewsOfEnd' = NewsOfEnd
    BY DEF NewsOfEnd
  <2>2. Live' => call' \in {"connecting", "up"} \/ (l = "connect" /\ call' = "created")
    BY <1>1 DEF Live
  <2> QED
    BY <2>1, <2>2
<1> QED
  BY <1>2, <1>3, <1>4 DEF CallInv

(* A step that leaves the call alone and does not lead to the connection.  *)
LEMMA CallQuiet ==
    ASSUME WaiterInv, CallInv, NEW h \in Handlers, NEW l \in Labels \ {"connect"}, alone,
           \A g \in Handlers \ {h} : pc[g] = "idle",
           pc' = [pc EXCEPT ![h] = l],
           \A g \in Handlers \ {h} : goal'[g] = goal[g],
           updates' = updates, joined' = joined, call' = call,
           l \in {"hungup", "leave"} => call = "none",
           goal'[h] = "play" /\ l = "create" => call = "none",
           goal'[h] = "play" /\ l \in BeforeConnect => call \in {"none", "created"}
    PROVE  CallInv'
<1>1. Live => joined \/ NewsOfEnd
  BY DEF CallInv
<1>2. call' \in {"connecting", "up"} => joined' \/ NewsOfEnd
  BY <1>1 DEF Live
<1>3. /\ l # "connect"
      /\ l \in {"hungup", "leave"} => call' = "none"
      /\ goal'[h] = "play" /\ l = "create" => call' = "none"
      /\ goal'[h] = "play" /\ l \in BeforeConnect => call' \in {"none", "created"}
  OBVIOUS
<1>4. call' \in {"connecting", "up"} \/ (l = "connect" /\ call' = "created")
          => joined' \/ NewsOfEnd
  BY <1>2, <1>3
<1> QED
  BY <1>3, <1>4, CallStep

LEMMA CallBegins ==
    ASSUME WaiterInv, CallInv, NEW h \in Handlers, Begin(h), alone'
    PROVE  CallInv'
<1>1. alone /\ \A g \in Handlers \ {h} : pc[g] = "idle"
  BY DEF Begin
<1>2. pc[h] = "idle"
  BY DEF Begin, Play, PlayAgain, Stop, Unmuted
<1>3. CASE Play(h) \/ Unmuted(h)
  <2>1. PICK g \in {"play", "reconnect"} :
            /\ pc' = [pc EXCEPT ![h] = "create"] /\ goal' = [goal EXCEPT ![h] = g]
            /\ g = "play" => call = "none"
    BY <1>3 DEF Play, Unmuted, MakeChannel, Goto
  <2>2. updates' = updates /\ joined' = joined /\ call' = call
    BY <1>3 DEF Play, Unmuted, MakeChannel, bindingVars, telegramVars
  <2>3. goal'[h] = g /\ \A k \in Handlers \ {h} : goal'[k] = goal[k]
    BY <2>1 DEF WaiterInv
  <2> QED
    BY <1>1, <2>1, <2>2, <2>3, CallQuiet DEF Labels, BeforeConnect
<1>4. CASE PlayAgain(h)
  BY <1>1, <1>4, CallQuiet
  DEF PlayAgain, Goto, bindingVars, telegramVars, localVars, Labels, BeforeConnect
<1>5. CASE Stop(h)
  <2>1. goal' = [goal EXCEPT ![h] = "stop"] /\ updates' = updates /\ joined' = joined
    BY <1>5 DEF Stop, telegramVars
  <2>2. goal'[h] = "stop" /\ \A k \in Handlers \ {h} : goal'[k] = goal[k]
    BY <2>1 DEF WaiterInv, Goals
  <2>3. CASE BindingStop /\ Goto(h, "hungup")
    BY <1>1, <2>1, <2>2, <2>3, CallStep DEF BindingStop, Goto, Labels, BeforeConnect
  <2>4. CASE Fail(h, "return") /\ UNCHANGED bindingVars
    BY <1>1, <2>1, <2>2, <2>4, CallQuiet DEF Fail, Goto, bindingVars, Labels, BeforeConnect
  <2> QED
    BY <1>5, <2>3, <2>4 DEF Stop
<1> QED
  BY <1>3, <1>4, <1>5 DEF Begin

LEMMA CallContinues ==
    ASSUME WaiterInv, CallInv, NEW h \in Handlers, Continue(h), alone
    PROVE  CallInv'
<1>1. pc[h] # "idle"
  BY DEF Continue, ConnectSteps, PlaySteps, CreateCall, SetSources, LookUp, Fetch, Store,
         JoinGroupCall, Connect, ConnectionMode, Pend, ReadChannel, Receive, Timeout, Abort,
         Undo, Resource, JoinPresentation, Forget, StaleParticipants, UpdateSources,
         StopLookUp, LeaveGroupCall, Return
<1>2. pc \in [Handlers -> Labels] /\ goal \in [Handlers -> Goals]
  BY DEF WaiterInv
<1>3. /\ \A g \in Handlers \ {h} : pc[g] = "idle"
      /\ KnowsCall(h)
      /\ Live => joined \/ NewsOfEnd
  BY <1>1 DEF CallInv
<1>4. CASE SetSources(h) \/ LookUp(h) \/ Fetch(h) \/ Store(h)
  <2>1. PICK l \in {"cache", "abort", "fetch", "store", "join", "participants", "return"} :
            pc' = [pc EXCEPT ![h] = l]
    BY <1>4 DEF SetSources, LookUp, Fetch, Store, GotCall, AfterFound, AfterMissed, Goto, Fail
  <2>2. /\ goal' = goal /\ updates' = updates /\ joined' = joined /\ call' = call
        /\ pc[h] \in BeforeConnect
    BY <1>4 DEF SetSources, LookUp, Fetch, Store, bindingVars, telegramVars, BeforeConnect
  <2> QED
    BY <1>3, <2>1, <2>2, CallQuiet DEF KnowsCall, Labels
<1>5. CASE \/ ConnectionMode(h) \/ Pend(h) \/ ReadChannel(h) \/ Receive(h) \/ Timeout(h)
           \/ Undo(h) \/ Resource(h) \/ JoinPresentation(h) \/ Forget(h) \/ UpdateSources(h)
  <2>1. PICK l \in {"pend", "read", "undo", "wait", "presentation", "return", "forget",
                    "participants"} :
            pc' = [pc EXCEPT ![h] = l]
    BY <1>5 DEF ConnectionMode, Pend, ReadChannel, Receive, Timeout, Undo, Resource,
       JoinPresentation, Forget, UpdateSources, Goto, Fail
  <2>2. goal' = goal /\ updates' = updates /\ joined' = joined /\ call' = call
    BY <1>5 DEF ConnectionMode, Pend, ReadChannel, Receive, Timeout, Undo, Resource,
       JoinPresentation, Forget, UpdateSources, bindingVars, telegramVars, localVars
  <2> QED
    BY <1>3, <2>1, <2>2, CallQuiet DEF Labels, BeforeConnect
<1>6. CASE StaleParticipants(h) \/ Return(h)
  <2>1. PICK l \in {"cache", "idle"} :
            /\ pc' = [pc EXCEPT ![h] = l]
            /\ \E g \in Goals : goal' = [goal EXCEPT ![h] = g] /\ (l = "cache" => g = "sources")
    BY <1>6 DEF StaleParticipants, Return, Goto, Goals
  <2>2. /\ updates' = updates /\ joined' = joined /\ call' = call
        /\ \A g \in Handlers \ {h} : goal'[g] = goal[g]
        /\ l = "cache" => goal'[h] = "sources"
    BY <1>2, <1>6, <2>1 DEF StaleParticipants, Return, bindingVars, telegramVars
  <2> QED
    BY <1>3, <2>1, <2>2, CallQuiet DEF Labels, BeforeConnect
<1>7. CASE CreateCall(h)
  <2>1. goal' = goal /\ updates' = updates /\ joined' = joined
    BY <1>7 DEF CreateCall, telegramVars
  <2>2. CASE call' = "created" /\ Goto(h, "sources")
    BY <1>3, <2>1, <2>2, CallStep DEF Goto, Labels, BeforeConnect
  <2>3. CASE Fail(h, "abort") /\ UNCHANGED bindingVars
    BY <1>3, <1>7, <2>1, <2>3, CallQuiet
    DEF CreateCall, KnowsCall, Fail, Goto, bindingVars, Labels, BeforeConnect
  <2> QED
    BY <1>7, <2>2, <2>3 DEF CreateCall
<1>8. CASE JoinGroupCall(h)
  <2>1. goal' = goal /\ updates' = updates /\ call' = call /\ pc[h] = "join"
    BY <1>8 DEF JoinGroupCall, bindingVars
  <2>2. CASE joined' = TRUE /\ Goto(h, "connect")
    BY <1>3, <2>1, <2>2, CallStep DEF KnowsCall, Goto, Labels, BeforeConnect
  <2>3. CASE Fail(h, "undo") /\ UNCHANGED joined
    BY <1>3, <2>1, <2>3, CallQuiet DEF Fail, Goto, Labels, BeforeConnect
  <2> QED
    BY <1>8, <2>2, <2>3 DEF JoinGroupCall
<1>9. CASE Connect(h)
  <2>1. goal' = goal /\ updates' = updates /\ joined' = joined /\ pc[h] = "connect"
    BY <1>9 DEF Connect, telegramVars
  <2>2. CASE call = "created" /\ call' = "connecting" /\ Goto(h, "mode")
    <3>1. Live
      BY <2>1, <2>2 DEF Live
    <3> QED
      BY <1>3, <2>1, <2>2, <3>1, CallStep DEF Goto, Labels, BeforeConnect
  <2>3. CASE Goto(h, "mode") /\ UNCHANGED bindingVars
    BY <1>3, <2>1, <2>3, CallQuiet DEF Goto, bindingVars, Labels, BeforeConnect
  <2>4. CASE Fail(h, "undo") /\ UNCHANGED bindingVars
    BY <1>3, <2>1, <2>4, CallQuiet DEF Fail, Goto, bindingVars, Labels, BeforeConnect
  <2> QED
    BY <1>9, <2>2, <2>3, <2>4 DEF Connect
<1>10. CASE Abort(h)
  BY <1>3, <1>10, CallStep
  DEF Abort, BindingStop, Goto, telegramVars, localVars, Labels, BeforeConnect
<1>11. CASE StopLookUp(h) \/ LeaveGroupCall(h)
  <2>1. PICK l \in {"leave", "return"} :
            pc' = [pc EXCEPT ![h] = l]
    BY <1>11 DEF StopLookUp, LeaveGroupCall, Goto, Fail
  <2>2. goal' = goal /\ updates' = updates /\ call' = call /\ call = "none"
    BY <1>3, <1>11 DEF StopLookUp, LeaveGroupCall, KnowsCall, bindingVars
  <2> QED
    BY <1>3, <2>1, <2>2, CallStep DEF Labels, BeforeConnect
<1> QED
  BY <1>4, <1>5, <1>6, <1>7, <1>8, <1>9, <1>10, <1>11 DEF Continue, ConnectSteps, PlaySteps

(* Telegram lists the assistant, or it is on its way that it does not.      *)
Excused == joined \/ NewsOfEnd

(* What happens to the call beside the goroutines.                         *)
LEMMA CallOutside ==
    ASSUME CallInv, alone, pc' = pc, goal' = goal,
           \/ call' = "none"
           \/ call' = call /\ (Excused => Excused')
           \/ call \in {"connecting", "up"} /\ call' \in {"up", "down"} /\ (Excused => Excused')
    PROVE  CallInv'
<1>1. \A h \in Handlers : KnowsCall(h)'
  BY DEF CallInv, KnowsCall
<1>2. Live' => Excused'
  <2>1. Live => Excused
    BY DEF CallInv, Excused
  <2>2. Live' => Live /\ (Excused => Excused')
    BY DEF Live
  <2> QED
    BY <2>1, <2>2
<1>3. Live' => joined' \/ NewsOfEnd'
  BY <1>2 DEF Excused
<1> QED
  BY <1>1, <1>3 DEF CallInv

LEMMA CallNext ==
    ASSUME WaiterInv, CallInv, [Next]_vars
    PROVE  CallInv'
<1> SUFFICES ASSUME alone' PROVE CallInv'
  BY DEF CallInv
<1>1. CASE \E h \in Handlers : Begin(h)
  BY <1>1, CallBegins
<1>2. CASE alone' = alone /\ \E h \in Handlers : Continue(h)
  BY <1>2, CallContinues
<1>3. CASE alone' = alone /\ HandleUpdate
  <2>1. PICK u \in updates : Opened(u) \/ Discarded(u) \/ DiscardedStop(u)
    BY <1>3 DEF HandleUpdate
  <2>2. pc' = pc /\ goal' = goal /\ joined' = joined
    BY <2>1 DEF Opened, Discarded, DiscardedStop, telegramVars, localVars
  <2>3. CASE Opened(u)
    <3>1. call' = call /\ u.kind = "opened" /\ updates' = updates \ {u}
      BY <2>3 DEF Opened, bindingVars
    <3>2. NewsOfEnd => NewsOfEnd'
      BY <3>1 DEF NewsOfEnd
    <3>3. Excused => Excused'
      BY <2>2, <3>2 DEF Excused
    <3> QED
      BY <1>3, <2>2, <3>1, <3>3, CallOutside
  <2>4. CASE Discarded(u)
    <3>1. call' = call /\ [kind |-> "stopping", id |-> u.id] \in updates'
      BY <2>4 DEF Discarded, bindingVars
    <3>2. Excused'
      BY <3>1 DEF Excused, NewsOfEnd
    <3> QED
      BY <1>3, <2>2, <3>1, <3>2, CallOutside
  <2>5. CASE DiscardedStop(u)
    <3>1. call' = "none"
      BY <2>5 DEF DiscardedStop, BindingStop
    <3> QED
      BY <1>3, <2>2, <3>1, CallOutside
  <2> QED
    BY <2>1, <2>3, <2>4, <2>5
<1>4. CASE alone' = alone /\ \E s \in Slots : Notify(s)
  <2>1. /\ pc' = pc /\ goal' = goal /\ joined' = joined /\ call' = call
        /\ updates' = updates
    BY <1>4 DEF Notify, NoticeRead, NoticeSend, bindingVars, telegramVars, localVars
  <2>2. Excused => Excused'
    BY <2>1 DEF Excused, NewsOfEnd
  <2> QED
    BY <1>4, <2>1, <2>2, CallOutside
<1>5. CASE alone' = alone /\ Environment
  <2>1. pc' = pc /\ goal' = goal
    BY <1>5 DEF Environment, OpenCall, CloseCall, Established, Broken, localVars
  <2>2. CASE OpenCall
    <3>1. call' = call /\ joined' = joined /\ updates \subseteq updates'
      BY <2>2 DEF OpenCall, bindingVars
    <3>2. Excused => Excused'
      BY <3>1 DEF Excused, NewsOfEnd
    <3> QED
      BY <1>5, <2>1, <3>1, <3>2, CallOutside
  <2>3. CASE CloseCall
    <3>1. call' = call /\ [kind |-> "discarded", id |-> open] \in updates'
      BY <2>3 DEF CloseCall, bindingVars
    <3>2. Excused'
      BY <3>1 DEF Excused, NewsOfEnd
    <3> QED
      BY <1>5, <2>1, <3>1, <3>2, CallOutside
  <2>4. CASE Established \/ Broken
    <3>1. /\ call \in {"connecting", "up"} /\ call' \in {"up", "down", "none"}
          /\ joined' = joined /\ updates' = updates
      BY <2>4 DEF Established, Broken, telegramVars
    <3>2. Excused => Excused'
      BY <3>1 DEF Excused, NewsOfEnd
    <3> QED
      BY <1>5, <2>1, <3>1, <3>2, CallOutside
  <2> QED
    BY <1>5, <2>2, <2>3, <2>4 DEF Environment
<1>6. CASE UNCHANGED vars
  <2>1. /\ pc' = pc /\ goal' = goal /\ joined' = joined /\ call' = call
        /\ updates' = updates /\ alone' = alone
    BY <1>6 DEF vars, bindingVars, telegramVars, localVars
  <2>2. Excused => Excused'
    BY <2>1 DEF Excused, NewsOfEnd
  <2> QED
    BY <2>1, <2>2, CallOutside
<1> QED
  BY <1>1, <1>2, <1>3, <1>4, <1>5, <1>6 DEF Next

(* What a goroutine knows of the call it sets up or ends; and, as long as  *)
(* commands do not overlap, that a call which is up or about to be is one  *)
(* that the assistant has joined, or its end is being told.                *)
THEOREM CallInvCorrect == Spec => [](WaiterInv /\ CallInv)
<1>1. Init => WaiterInv /\ CallInv
  BY DEF Init, WaiterInv, NoWaiterLeft, Labels, Goals, CallInv, KnowsCall, BeforeConnect, Live
<1>2. WaiterInv /\ CallInv /\ [Next]_vars => WaiterInv' /\ CallInv'
  BY WaiterNext, CallNext
<1> QED
  BY <1>1, <1>2, PTL DEF Spec

(* While commands do not overlap, a call that is up is one in which        *)
(* Telegram lists the assistant, or the news of its end are on their way:  *)
(* errors, late updates and a stale entry of the cache leave no stream     *)
(* that nobody hears.                                                      *)
THEOREM UpMeansJoinedCorrect == Spec => []UpMeansJoined
<1>1. CallInv => UpMeansJoined
  BY DEF CallInv, UpMeansJoined, Live, NewsOfEnd
<1> QED
  BY <1>1, CallInvCorrect, PTL

(* A step of Play does not end a call that is up: while commands do not    *)
(* overlap, Play aborts only the call that it has created itself.          *)
LEMMA PlaySpares ==
    ASSUME WaiterInv, CallInv, [Next]_vars, NEW h \in Handlers,
           alone', goal[h] = "play", call = "up", pc'[h] # pc[h]
    PROVE  call' = "up" \/ pc'[h] = "hungup"
<1>1. alone /\ KnowsCall(h)
  BY DEF CallInv, Next, Begin, vars
<1>2. CASE \E g \in Handlers : Begin(g)
  <2>1. PICK g \in Handlers : Begin(g)
    BY <1>2
  <2>2. \A k \in Handlers \ {g} : pc'[k] = pc[k]
    BY <2>1 DEF WaiterInv, Begin, Play, PlayAgain, Stop, Unmuted, MakeChannel, Goto, Fail
  <2>3. g = h
    BY <2>2
  <2>4. CASE Play(h) \/ PlayAgain(h) \/ Unmuted(h)
    BY <2>4 DEF Play, PlayAgain, Unmuted, MakeChannel, bindingVars
  <2>5. CASE Stop(h)
    BY <2>5 DEF Stop, BindingStop, Goto, Fail, bindingVars, WaiterInv
  <2> QED
    BY <2>1, <2>3, <2>4, <2>5 DEF Begin
<1>3. CASE \E g \in Handlers : Continue(g)
  <2>1. PICK g \in Handlers : Continue(g)
    BY <1>3
  <2>2. \A k \in Handlers \ {g} : pc'[k] = pc[k]
    BY <2>1 DEF WaiterInv, Continue, ConnectSteps, PlaySteps, CreateCall, SetSources, LookUp,
       GotCall, Fetch, Store, JoinGroupCall, Connect, ConnectionMode, Pend, ReadChannel, Receive,
       Timeout, Abort, Undo, Resource, JoinPresentation, Forget, StaleParticipants,
       UpdateSources, StopLookUp, LeaveGroupCall, Return, Goto, Fail
  <2>3. g = h
    BY <2>2
  <2>4. ~ CreateCall(h) /\ ~ Abort(h)
    BY <1>1 DEF KnowsCall, CreateCall, Abort, BeforeConnect
  <2>5. call' = call
    BY <2>1, <2>3, <2>4 DEF Continue, ConnectSteps, PlaySteps, SetSources, LookUp,
       Fetch, Store, JoinGroupCall, Connect, ConnectionMode, Pend, ReadChannel, Receive,
       Timeout, Undo, Resource, JoinPresentation, Forget, StaleParticipants,
       UpdateSources, StopLookUp, LeaveGroupCall, Return, bindingVars
  <2> QED
    BY <2>5
<1>4. CASE pc' = pc
  BY <1>4
<1> QED
  BY <1>2, <1>3, <1>4 DEF Next, vars, HandleUpdate, Opened, Discarded, DiscardedStop, Notify,
     NoticeRead, NoticeSend, Environment, OpenCall, CloseCall, Established, Broken

(* While commands do not overlap, no step of Play ends a call that is up.  *)
THEOREM PlaySparesCallCorrect == Spec => PlaySparesCall
<1>1. WaiterInv /\ CallInv /\ [Next]_vars =>
        [\A h \in Handlers :
           alone' /\ goal[h] = "play" /\ call = "up" /\ pc'[h] # pc[h] =>
             call' = "up" \/ pc'[h] = "hungup"]_vars
  BY PlaySpares
<1> QED
  BY <1>1, CallInvCorrect, PTL DEF Spec, PlaySparesCall

-----------------------------------------------------------------------------
(* Type correctness.                                                       *)

(* Collecting garbage leaves a function from channels to answers.          *)
LEMMA CollectTyped ==
    ASSUME NEW b \in [Channels -> Answers \cup {None}], Collect(b)
    PROVE  buffer' \in [Channels -> Answers \cup {None}]
  BY DEF Collect

LEMMA PostTyped ==
    ASSUME TypeOK, NEW a \in Answers, Post(a)
    PROVE  notices' \in [Slots -> Notices \cup {None}]
<1>1. [at |-> "new", answer |-> a] \in Notices
  BY DEF Notices
<1> QED
  BY <1>1 DEF TypeOK, DataOK, Post

LEMMA BindingStopTyped ==
    ASSUME TypeOK, BindingStop
    PROVE  /\ call' \in CallStates /\ mode' = None
           /\ notices' \in [Slots -> Notices \cup {None}]
<1>1. UNCHANGED notices => notices' \in [Slots -> Notices \cup {None}]
  BY DEF TypeOK, DataOK
<1>2. Post("failed") => notices' \in [Slots -> Notices \cup {None}]
  BY PostTyped DEF Answers
<1> QED
  BY <1>1, <1>2 DEF BindingStop, CallStates

LEMMA MakeChannelTyped ==
    ASSUME TypeOK, NEW h \in Handlers, NEW g \in {"play", "reconnect"}, MakeChannel(h, g),
           alone' \in BOOLEAN
    PROVE  TypeOK'
<1>1. buffer' \in [Channels -> Answers \cup {None}]
  BY CollectTyped DEF MakeChannel, TypeOK, DataOK
<1>2. DataOK'
  BY <1>1 DEF MakeChannel, bindingVars, telegramVars, TypeOK, DataOK
<1>3. ControlOK'
  BY DEF MakeChannel, Goto, TypeOK, ControlOK, Labels, Goals
<1> QED
  BY <1>2, <1>3 DEF TypeOK

LEMMA BeginTyped ==
    ASSUME TypeOK, NEW h \in Handlers, Begin(h)
    PROVE  TypeOK'
<1>1. alone' \in BOOLEAN
  <2>1. CASE alone /\ \A g \in Handlers \ {h} : pc[g] = "idle"
    BY <2>1 DEF Begin
  <2>2. CASE ~ (alone /\ \A g \in Handlers \ {h} : pc[g] = "idle")
    BY <2>2 DEF Begin
  <2> QED
    BY <2>1, <2>2
<1>2. CASE Play(h) \/ Unmuted(h)
  BY <1>1, <1>2, MakeChannelTyped DEF Play, Unmuted
<1>3. CASE PlayAgain(h)
  <2>1. DataOK'
    BY <1>1, <1>3 DEF PlayAgain, TypeOK, DataOK, storeVars, bindingVars, telegramVars
  <2>2. ControlOK'
    BY <1>3 DEF PlayAgain, TypeOK, ControlOK, localVars, Goto, Labels
  <2> QED
    BY <2>1, <2>2 DEF TypeOK
<1>4. CASE Stop(h)
  <2>1. /\ call' \in CallStates /\ mode' \in {"rtc", "stream", None}
        /\ notices' \in [Slots -> Notices \cup {None}]
    <3>1. CASE BindingStop
      BY <3>1, BindingStopTyped
    <3>2. CASE UNCHANGED <<bindingVars, notices>>
      BY <3>2 DEF bindingVars, TypeOK, DataOK
    <3> QED
      BY <1>4, <3>1, <3>2 DEF Stop
  <2>2. DataOK'
    BY <1>1, <1>4, <2>1 DEF Stop, TypeOK, DataOK, storeVars, telegramVars
  <2>3. ControlOK'
    BY <1>4 DEF Stop, TypeOK, ControlOK, Goto, Fail, Labels, Goals
  <2> QED
    BY <2>2, <2>3 DEF TypeOK
<1> QED
  BY <1>2, <1>3, <1>4 DEF Begin

(* What a goroutine is, whatever its step.                                 *)
LEMMA ControlTyped ==
    ASSUME TypeOK, NEW h \in Handlers, Continue(h)
    PROVE  ControlOK'
<1>1. cached # Missing => cached \in Ids \cup {None}
  BY DEF TypeOK, DataOK, CacheValues
<1>2. CASE LookUp(h) \/ Fetch(h) \/ Store(h) \/ StopLookUp(h)
  BY <1>1, <1>2 DEF LookUp, Fetch, Store, StopLookUp, GotCall, AfterFound, AfterMissed, Goto, Fail,
     TypeOK, DataOK, ControlOK, Labels
<1>3. CASE ReadChannel(h) \/ Receive(h) \/ Undo(h) \/ Return(h) \/ StaleParticipants(h)
  BY <1>3 DEF ReadChannel, Receive, Undo, Return, StaleParticipants, Goto, TypeOK, DataOK,
     ControlOK, Labels, Goals
<1>4. CASE \/ CreateCall(h) \/ SetSources(h) \/ JoinGroupCall(h) \/ Connect(h)
           \/ ConnectionMode(h) \/ Pend(h) \/ Timeout(h) \/ Abort(h)
  BY <1>4 DEF CreateCall, SetSources, JoinGroupCall, Connect, ConnectionMode, Pend, Timeout, Abort,
     localVars, Goto, Fail, TypeOK, ControlOK, Labels
<1>5. CASE Resource(h) \/ JoinPresentation(h) \/ Forget(h) \/ UpdateSources(h) \/ LeaveGroupCall(h)
  BY <1>5 DEF Resource, JoinPresentation, Forget, UpdateSources, LeaveGroupCall,
     localVars, Goto, Fail, TypeOK, ControlOK, Labels
<1> QED
  BY <1>2, <1>3, <1>4, <1>5 DEF Continue, ConnectSteps, PlaySteps

LEMMA ContinueTyped ==
    ASSUME TypeOK, NEW h \in Handlers, Continue(h), alone' = alone
    PROVE  TypeOK'
<1> SUFFICES DataOK'
  BY ControlTyped DEF TypeOK
<1>1. CASE \/ SetSources(h) \/ LookUp(h) \/ Fetch(h) \/ ConnectionMode(h) \/ ReadChannel(h)
           \/ Timeout(h) \/ Resource(h) \/ JoinPresentation(h) \/ StaleParticipants(h)
           \/ UpdateSources(h) \/ StopLookUp(h) \/ Return(h)
  BY <1>1 DEF SetSources, LookUp, Fetch, ConnectionMode, ReadChannel, Timeout, Resource,
     JoinPresentation, StaleParticipants, UpdateSources, StopLookUp, Return,
     TypeOK, DataOK, storeVars, bindingVars, telegramVars
<1>2. CASE Store(h)
  BY <1>2 DEF Store, TypeOK, DataOK, ControlOK, CacheValues, bindingVars, telegramVars
<1>3. CASE CreateCall(h) \/ Connect(h)
  BY <1>3 DEF CreateCall, Connect, TypeOK, DataOK, CallStates, storeVars, bindingVars, telegramVars
<1>4. CASE JoinGroupCall(h) \/ LeaveGroupCall(h) \/ Pend(h)
  BY <1>4 DEF JoinGroupCall, LeaveGroupCall, Pend, TypeOK, DataOK, storeVars, bindingVars,
     telegramVars, localVars
<1>5. CASE Receive(h)
  BY <1>5 DEF Receive, TypeOK, DataOK, ControlOK, bindingVars, telegramVars
<1>6. CASE Abort(h)
  BY <1>6, BindingStopTyped DEF Abort, TypeOK, DataOK, storeVars, telegramVars
<1>7. CASE Undo(h) \/ Forget(h)
  <2>1. buffer' \in [Channels -> Answers \cup {None}]
    BY <1>7, CollectTyped DEF Undo, Forget, TypeOK, DataOK
  <2> QED
    BY <1>7, <2>1 DEF Undo, Forget, TypeOK, DataOK, bindingVars, telegramVars, localVars
<1> QED
  BY <1>1, <1>2, <1>3, <1>4, <1>5, <1>6, <1>7 DEF Continue, ConnectSteps, PlaySteps

LEMMA UpdateTyped ==
    ASSUME TypeOK, HandleUpdate, alone' = alone
    PROVE  TypeOK'
<1>1. PICK u \in updates : Opened(u) \/ Discarded(u) \/ DiscardedStop(u)
  BY DEF HandleUpdate
<1>2. ControlOK'
  BY <1>1 DEF Opened, Discarded, DiscardedStop, localVars, TypeOK, ControlOK
<1>3. u.id \in Ids
  BY DEF TypeOK, DataOK
<1>4. CASE Opened(u)
  BY <1>2, <1>3, <1>4 DEF Opened, TypeOK, DataOK, CacheValues, bindingVars, telegramVars
<1>5. CASE Discarded(u)
  BY <1>2, <1>3, <1>5 DEF Discarded, TypeOK, DataOK, CacheValues, bindingVars, telegramVars
<1>6. CASE DiscardedStop(u)
  BY <1>2, <1>6, BindingStopTyped DEF DiscardedStop, TypeOK, DataOK, storeVars, telegramVars
<1> QED
  BY <1>1, <1>4, <1>5, <1>6

(* A notification has a channel once it has passed the test for nil.       *)
LEMMA NotifyTyped ==
    ASSUME TypeOK, NEW s \in Slots, Notify(s), alone' = alone
    PROVE  TypeOK'
<1>1. ControlOK'
  BY DEF Notify, NoticeRead, NoticeSend, localVars, TypeOK, ControlOK
<1>2. CASE NoticeRead(s)
  <2>1. waitConnect # None
            => [at |-> "send", answer |-> notices[s].answer, chan |-> waitConnect] \in Notices
    BY <1>2 DEF NoticeRead, TypeOK, DataOK, Notices
  <2>2. notices' \in [Slots -> Notices \cup {None}]
    BY <1>2, <2>1 DEF NoticeRead, TypeOK, DataOK
  <2> QED
    BY <1>1, <1>2, <2>2 DEF NoticeRead, TypeOK, DataOK, storeVars, bindingVars, telegramVars
<1>3. CASE NoticeSend(s)
  <2>1. notices[s].chan \in Channels /\ notices[s].answer \in Answers
    BY <1>3 DEF NoticeSend, TypeOK, DataOK, Notices
  <2>2. [buffer EXCEPT ![notices[s].chan] = notices[s].answer]
            \in [Channels -> Answers \cup {None}]
    BY <2>1 DEF TypeOK, DataOK
  <2>3. buffer' \in [Channels -> Answers \cup {None}]
    BY <1>3, <2>2, CollectTyped DEF NoticeSend
  <2> QED
    BY <1>1, <1>3, <2>3 DEF NoticeSend, TypeOK, DataOK, bindingVars, telegramVars
<1> QED
  BY <1>2, <1>3 DEF Notify

LEMMA EnvironmentTyped ==
    ASSUME TypeOK, Environment, alone' = alone
    PROVE  TypeOK'
<1>1. ControlOK'
  BY DEF Environment, OpenCall, CloseCall, Established, Broken, localVars, TypeOK, ControlOK
<1>2. CASE OpenCall
  <2>1. last' \in Ids /\ open' \in Ids /\ last' \in 0..MaxCalls
    BY <1>2, ConnectAssumption DEF ConnectAssumption, OpenCall, TypeOK, DataOK, Ids
  <2>2. [kind |-> "opened", id |-> last'] \in
            [kind : {"opened", "discarded", "stopping"}, id : Ids]
    BY <2>1
  <2> QED
    BY <1>1, <1>2, <2>1, <2>2 DEF OpenCall, TypeOK, DataOK, storeVars, bindingVars
<1>3. CASE CloseCall
  <2>1. open \in Ids
    BY <1>3 DEF CloseCall, TypeOK, DataOK
  <2>2. [kind |-> "discarded", id |-> open] \in
            [kind : {"opened", "discarded", "stopping"}, id : Ids]
    BY <2>1
  <2> QED
    BY <1>1, <1>3, <2>2 DEF CloseCall, TypeOK, DataOK, storeVars, bindingVars
<1>4. CASE Established \/ Broken
  <2>1. notices' \in [Slots -> Notices \cup {None}]
    BY <1>4, PostTyped DEF Established, Broken, Answers
  <2>2. call' \in CallStates /\ mode' \in {"rtc", "stream", None}
    BY <1>4 DEF Established, Broken, CallStates, TypeOK, DataOK
  <2> QED
    BY <1>1, <1>4, <2>1, <2>2 DEF Established, Broken, TypeOK, DataOK, storeVars, telegramVars
<1> QED
  BY <1>2, <1>3, <1>4 DEF Environment

(* Type correctness: in particular a notification that is about to be sent *)
(* has a channel, whichever connectCall has replaced or deleted the entry  *)
(* of the chat since the notification came in.                             *)
THEOREM TypeCorrect == Spec => []TypeOK
<1>1. Init => TypeOK
  <2> SUFFICES ASSUME Init PROVE TypeOK
    OBVIOUS
  <2>1. DataOK
    <3>1. last \in 0..MaxCalls
      BY ConnectAssumption DEF ConnectAssumption, Init
    <3>2. /\ waitConnect \in Channels \cup {None}
          /\ buffer \in [Channels -> Answers \cup {None}]
          /\ notices \in [Slots -> Notices \cup {None}]
          /\ updates = {}
      BY DEF Init
    <3>3. pending \in BOOLEAN /\ joined \in BOOLEAN /\ alone \in BOOLEAN
      BY DEF Init
    <3>4. /\ cached \in CacheValues /\ call \in CallStates
          /\ mode \in {"rtc", "stream", None} /\ open \in Ids \cup {None}
      BY DEF Init, CacheValues, CallStates
    <3> QED
      BY <3>1, <3>2, <3>3, <3>4 DEF DataOK
  <2>2. ControlOK
    BY DEF Init, ControlOK, Labels, Goals
  <2> QED
    BY <2>1, <2>2 DEF TypeOK
<1>2. TypeOK /\ [Next]_vars => TypeOK'
  <2> SUFFICES ASSUME TypeOK, [Next]_vars PROVE TypeOK'
    OBVIOUS
  <2>1. CASE Next
    BY <2>1, BeginTyped, ContinueTyped, UpdateTyped, NotifyTyped, EnvironmentTyped DEF Next
  <2>2. CASE UNCHANGED vars
    BY <2>2 DEF vars, storeVars, bindingVars, telegramVars, localVars, TypeOK, DataOK, ControlOK
  <2> QED
    BY <2>1, <2>2
<1> QED
  BY <1>1, <1>2, PTL DEF Spec
=============================================================================
