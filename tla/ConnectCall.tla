---------------------------- MODULE ConnectCall ----------------------------
(***************************************************************************)
(* How an assistant gets into the video chat of one group and out again:   *)
(* Play, connectCall, Stop and the update handlers of src/src/vc/ubot.     *)
(*                                                                         *)
(* A member of Handlers is a goroutine in Play, in Stop or in the handler  *)
(* of a participants update about the assistant itself.  Updates about the *)
(* group call and the connection notifications of ntgcalls run in          *)
(* goroutines of their own: a message in updates, a slot of notices.       *)
(* ntgcalls and Telegram are external: call, mode, open and joined say     *)
(* what the code can see of them.                                          *)
(*                                                                         *)
(* Left out: what is streamed, the screen share (no media description of   *)
(* the bot has one, so joinPresentation never joins) and private calls.    *)
(***************************************************************************)
EXTENDS Naturals

CONSTANTS None, Missing,
          Handlers,   \* goroutines in Play, Stop or a participants update
          Channels,   \* channels of connectCall that exist at one time
          Slots,      \* notifications of ntgcalls on their way at one time
          MaxCalls,   \* group calls that are opened one after the other
          Faults      \* calls that may fail for no reason of the code's

(* "rpc": a request to Telegram fails; "binding": a call of ntgcalls fails.*)
FaultKinds == {"rpc", "binding"}

ASSUME ConnectAssumption ==
    /\ None \notin Channels
    /\ None \notin Nat
    /\ MaxCalls \in Nat
    /\ Faults \subseteq FaultKinds

VARIABLES
    waitConnect,  \* the chat's entry of waitConnect: a channel, or None
    buffer,       \* what a channel holds: an answer, or None
    cached,       \* the chat's entry of inputGroupCalls, see CacheValues
    pending,      \* does pendingConnections have an entry of the chat
    call,         \* the call in ntgcalls
    mode,         \* and its connection mode
    open,         \* the id of the group call that is open, or None
    last,         \* ids up to last have been used
    joined,       \* does Telegram list the assistant in the open group call
    updates,      \* goroutines of UpdateGroupCall: [kind, id]
    notices,      \* goroutines of OnConnectionChange, one in a slot
    pc,           \* where a goroutine is,
    goal,         \* what it wants,
    found,        \* the group call it has found,
    chan,         \* the channel it waits for
    result,       \* and what it is going to return
    alone         \* history: no two goroutines of Handlers have overlapped

storeVars == <<waitConnect, buffer, cached, pending>>
bindingVars == <<call, mode>>
telegramVars == <<open, last, joined>>
localVars == <<goal, found, chan, result>>
vars == <<storeVars, bindingVars, telegramVars, updates, notices, pc, localVars, alone>>

Ids == 1..MaxCalls

Answers == {"connected", "failed"}

(* Missing: no entry; None: an entry that says the group call is closed. *)
CacheValues == Ids \cup {None, Missing}

CallStates == {"none", "created", "connecting", "up", "down"}

Notices == [at : {"new"}, answer : Answers]
             \cup [at : {"send"}, answer : Answers, chan : Channels]

(* Why a goroutine runs: Play, Play once connected, connectCall for an     *)
(* unmuted assistant, Stop.                                                *)
Goals == {"play", "sources", "reconnect", "stop"}

Labels == {"idle", "create", "sources", "cache", "fetch", "store", "join",
           "connect", "mode", "pend", "read", "wait", "abort", "undo",
           "resource", "presentation", "forget", "participants", "hungup",
           "leave", "return"}

DataOK ==
    /\ waitConnect \in Channels \cup {None}
    /\ buffer \in [Channels -> Answers \cup {None}]
    /\ cached \in CacheValues
    /\ pending \in BOOLEAN /\ joined \in BOOLEAN /\ alone \in BOOLEAN
    /\ call \in CallStates
    /\ mode \in {"rtc", "stream", None}
    /\ open \in Ids \cup {None}
    /\ last \in 0..MaxCalls
    /\ updates \subseteq [kind : {"opened", "discarded", "stopping"}, id : Ids]
    /\ notices \in [Slots -> Notices \cup {None}]

ControlOK ==
    /\ pc \in [Handlers -> Labels]
    /\ goal \in [Handlers -> Goals]
    /\ found \in [Handlers -> Ids \cup {None}]
    /\ chan \in [Handlers -> Channels \cup {None}]
    /\ result \in [Handlers -> {"ok", "error"}]

(* The type invariant: in particular a notification that is to be sent has *)
(* a channel, which takes the nil test of OnConnectionChange.              *)
TypeOK == DataOK /\ ControlOK

Init ==
    /\ waitConnect = None
    /\ buffer = [c \in Channels |-> None]
    /\ cached = Missing
    /\ pending = FALSE /\ joined = FALSE
    /\ call = "none" /\ mode = None
    /\ open = None /\ last = 0
    /\ updates = {}
    /\ notices = [s \in Slots |-> None]
    /\ pc = [h \in Handlers |-> "idle"]
    /\ goal = [h \in Handlers |-> "play"]
    /\ found = [h \in Handlers |-> None]
    /\ chan = [h \in Handlers |-> None]
    /\ result = [h \in Handlers |-> "ok"]
    /\ alone = TRUE

-----------------------------------------------------------------------------
(* Control of one goroutine, and what it shares with the others.           *)

Goto(h, l) == pc' = [pc EXCEPT ![h] = l]

(* Go on at l with an error to return.                                     *)
Fail(h, l) == Goto(h, l) /\ result' = [result EXCEPT ![h] = "error"]

(* ntgcalls starts the goroutine of a notification.                        *)
Post(a) == \E s \in Slots :
    /\ notices[s] = None
    /\ notices' = [notices EXCEPT ![s] = [at |-> "new", answer |-> a]]

(* binding.Stop: the call is gone; ntgcalls may report it as closed.       *)
BindingStop ==
    /\ call' = "none" /\ mode' = None
    /\ UNCHANGED notices \/ (call \in {"connecting", "up"} /\ Post("failed"))

(* A channel nobody refers to any more.                                    *)
Unused(c) ==
    /\ c # waitConnect
    /\ \A h \in Handlers : chan[h] # c
    /\ \A s \in Slots : notices[s] # None /\ notices[s].at = "send" => notices[s].chan # c

(* A channel that nobody refers to is garbage.                             *)
Collect(b) == buffer' = [c \in Channels |-> IF Unused(c)' THEN None ELSE b[c]]

-----------------------------------------------------------------------------
(* Play.                                                                   *)

(* connectCall begins: a new channel replaces the one another connectCall  *)
(* of the chat may be waiting for.                                         *)
MakeChannel(h, g) ==
    /\ \E c \in Channels : Unused(c) /\ waitConnect' = c
    /\ Goto(h, "create")
    /\ goal' = [goal EXCEPT ![h] = g]
    /\ UNCHANGED <<cached, pending, bindingVars, telegramVars, updates, notices,
                   found, chan, result>>
    /\ Collect(buffer)

(* Mutant: Play does not ask for a call that exists.                       *)
PlayAnyway(h) == pc[h] = "idle" /\ MakeChannel(h, "play")

(* Play in a chat that has no call in ntgcalls ...                         *)
Play(h) == pc[h] = "idle" /\ call = "none" /\ MakeChannel(h, "play")

(* ... and in one that has.                                                *)
PlayAgain(h) ==
    /\ pc[h] = "idle" /\ call # "none"
    /\ Goto(h, "resource")
    /\ UNCHANGED <<storeVars, bindingVars, telegramVars, updates, notices, localVars>>

(* SetStreamSources replaces what the call streams.                        *)
Resource(h) ==
    /\ pc[h] = "resource"
    /\ \/ call # "none" /\ Goto(h, "return") /\ UNCHANGED result
       \/ (call = "none" \/ "binding" \in Faults) /\ Fail(h, "return")
    /\ UNCHANGED <<storeVars, bindingVars, telegramVars, updates, notices, goal, found, chan>>

-----------------------------------------------------------------------------
(* connectCall, step by step.                                              *)

(* ntgcalls refuses or replaces a call that it has already.                *)
CreateCall(h) ==
    /\ pc[h] = "create"
    /\ \/ call' = "created" /\ mode' = None /\ Goto(h, "sources") /\ UNCHANGED result
       \/ /\ call # "none" \/ "binding" \in Faults
          /\ Fail(h, "abort")
          /\ UNCHANGED bindingVars
    /\ UNCHANGED <<storeVars, telegramVars, updates, notices, goal, found, chan>>

SetSources(h) ==
    /\ pc[h] = "sources"
    /\ \/ call # "none" /\ Goto(h, "cache") /\ UNCHANGED result
       \/ (call = "none" \/ "binding" \in Faults) /\ Fail(h, "abort")
    /\ UNCHANGED <<storeVars, bindingVars, telegramVars, updates, notices, goal, found, chan>>

(* Where getInputGroupCall returns to: connectCall joins or stops the call;*)
(* GetParticipants asks for the participants or returns the error.         *)
AfterFound(h) == IF goal[h] = "sources" THEN "participants" ELSE "join"
AfterMissed(h) == IF goal[h] = "sources" THEN "return" ELSE "abort"

GotCall(h, id) ==
    /\ found' = [found EXCEPT ![h] = id]
    /\ IF id = None THEN Fail(h, AfterMissed(h))
                    ELSE Goto(h, AfterFound(h)) /\ UNCHANGED result

(* getInputGroupCall: an entry is used, one that says "closed" as well.    *)
LookUp(h) ==
    /\ pc[h] = "cache"
    /\ IF cached = Missing
       THEN Goto(h, "fetch") /\ UNCHANGED <<found, result>>
       ELSE GotCall(h, cached)
    /\ UNCHANGED <<storeVars, bindingVars, telegramVars, updates, notices, goal, chan>>

(* Telegram is asked without a lock ...                                    *)
Fetch(h) ==
    /\ pc[h] = "fetch"
    /\ \/ Goto(h, "store") /\ found' = [found EXCEPT ![h] = open] /\ UNCHANGED result
       \/ "rpc" \in Faults /\ Fail(h, AfterMissed(h)) /\ UNCHANGED found
    /\ UNCHANGED <<storeVars, bindingVars, telegramVars, updates, notices, goal, chan>>

(* ... and the answer overwrites what updates have brought meanwhile.      *)
Store(h) ==
    /\ pc[h] = "store"
    /\ cached' = found[h]
    /\ GotCall(h, found[h])
    /\ UNCHANGED <<waitConnect, buffer, pending, bindingVars, telegramVars,
                   updates, notices, goal, chan>>

(* PhoneJoinGroupCall.  An error leaves the call in ntgcalls as it is.     *)
JoinGroupCall(h) ==
    /\ pc[h] = "join"
    /\ \/ found[h] = open /\ joined' = TRUE /\ Goto(h, "connect") /\ UNCHANGED result
       \/ /\ found[h] # open \/ "rpc" \in Faults
          /\ Fail(h, "undo")
          /\ UNCHANGED joined
    /\ UNCHANGED <<storeVars, bindingVars, open, last, updates, notices, goal, found, chan>>

(* binding.Connect with the parameters of the answer.                      *)
Connect(h) ==
    /\ pc[h] = "connect"
    /\ \/ call = "created" /\ call' = "connecting" /\ mode' \in {"rtc", "stream"}
          /\ Goto(h, "mode") /\ UNCHANGED result
       \/ call \notin {"none", "created"} /\ Goto(h, "mode") /\ UNCHANGED <<bindingVars, result>>
       \/ (call # "created" \/ "binding" \in Faults) /\ Fail(h, "undo") /\ UNCHANGED bindingVars
    /\ UNCHANGED <<storeVars, telegramVars, updates, notices, goal, found, chan>>

ConnectionMode(h) ==
    /\ pc[h] = "mode"
    /\ \/ mode = "stream" /\ Goto(h, "pend") /\ UNCHANGED result
       \/ mode = "rtc" /\ Goto(h, "read") /\ UNCHANGED result
       \/ (mode = None \/ "binding" \in Faults) /\ Fail(h, "undo")
    /\ UNCHANGED <<storeVars, bindingVars, telegramVars, updates, notices, goal, found, chan>>

Pend(h) ==
    /\ pc[h] = "pend"
    /\ pending' = TRUE
    /\ Goto(h, "read")
    /\ UNCHANGED <<waitConnect, buffer, cached, bindingVars, telegramVars,
                   updates, notices, localVars>>

(* Only now connectCall looks up its channel.  It may find the one of a    *)
(* later connectCall, or none.                                             *)
ReadChannel(h) ==
    /\ pc[h] = "read"
    /\ chan' = [chan EXCEPT ![h] = waitConnect]
    /\ Goto(h, "wait")
    /\ UNCHANGED <<storeVars, bindingVars, telegramVars, updates, notices, goal, found, result>>

Receive(h) ==
    /\ pc[h] = "wait" /\ chan[h] # None
    /\ buffer[chan[h]] # None
    /\ buffer' = [buffer EXCEPT ![chan[h]] = None]
    /\ Goto(h, "undo")
    /\ result' = [result EXCEPT ![h] = IF buffer[chan[h]] = "connected" THEN "ok" ELSE "error"]
    /\ UNCHANGED <<waitConnect, cached, pending, bindingVars, telegramVars,
                   updates, notices, goal, found, chan>>

(* 15 seconds.  The call stays in ntgcalls.                                *)
Timeout(h) ==
    /\ pc[h] = "wait"
    /\ Fail(h, "undo")
    /\ UNCHANGED <<storeVars, bindingVars, telegramVars, updates, notices, goal, found, chan>>

(* binding.Stop after an error before the join.                            *)
Abort(h) ==
    /\ pc[h] = "abort"
    /\ BindingStop
    /\ Goto(h, "undo")
    /\ UNCHANGED <<storeVars, telegramVars, updates, localVars>>

(* Mutant: the entry is deleted on the way to success only.                *)
UndoSuccess(h) ==
    /\ pc[h] = "undo"
    /\ waitConnect' = IF result[h] = "ok" THEN None ELSE waitConnect
    /\ chan' = [chan EXCEPT ![h] = None]
    /\ Goto(h, IF goal[h] = "play" /\ result[h] = "ok" THEN "presentation" ELSE "return")
    /\ UNCHANGED <<cached, pending, bindingVars, telegramVars, updates, notices,
                   goal, found, result>>
    /\ Collect(buffer)

(* The deferred delete, whoever the entry belongs to.                      *)
Undo(h) ==
    /\ pc[h] = "undo"
    /\ waitConnect' = None
    /\ chan' = [chan EXCEPT ![h] = None]
    /\ Goto(h, IF goal[h] = "play" /\ result[h] = "ok" THEN "presentation" ELSE "return")
    /\ UNCHANGED <<cached, pending, bindingVars, telegramVars, updates, notices,
                   goal, found, result>>
    /\ Collect(buffer)

-----------------------------------------------------------------------------
(* What Play does after connectCall.                                       *)

(* joinPresentation without a screen: the mode is asked for ...            *)
JoinPresentation(h) ==
    /\ pc[h] = "presentation"
    /\ \/ mode # None /\ Goto(h, "forget") /\ UNCHANGED result
       \/ (mode = None \/ "binding" \in Faults) /\ Fail(h, "forget")
    /\ UNCHANGED <<storeVars, bindingVars, telegramVars, updates, notices, goal, found, chan>>

(* ... and the entry of waitConnect is deleted once more.                  *)
Forget(h) ==
    /\ pc[h] = "forget"
    /\ waitConnect' = None
    /\ Goto(h, IF result[h] = "ok" THEN "participants" ELSE "return")
    /\ UNCHANGED <<cached, pending, bindingVars, telegramVars, updates, notices, localVars>>
    /\ Collect(buffer)

(* updateSources: participants older than a minute are fetched again, for  *)
(* which the group call is looked up.                                      *)
StaleParticipants(h) ==
    /\ pc[h] = "participants" /\ goal[h] = "play"
    /\ goal' = [goal EXCEPT ![h] = "sources"]
    /\ Goto(h, "cache")
    /\ UNCHANGED <<storeVars, bindingVars, telegramVars, updates, notices, found, chan, result>>

(* It may fail to fetch the participants, or at the video of one of them.  *)
UpdateSources(h) ==
    /\ pc[h] = "participants"
    /\ \/ Goto(h, "return") /\ UNCHANGED result
       \/ /\ \/ Faults # {} \/ call = "none"
             \/ goal[h] = "sources" /\ found[h] # open
          /\ Fail(h, "return")
    /\ UNCHANGED <<storeVars, bindingVars, telegramVars, updates, notices, goal, found, chan>>

-----------------------------------------------------------------------------
(* Stop.                                                                   *)

(* binding.Stop fails when there is no call in ntgcalls.                   *)
Stop(h) ==
    /\ pc[h] = "idle"
    /\ goal' = [goal EXCEPT ![h] = "stop"]
    /\ \/ call # "none" /\ BindingStop /\ Goto(h, "hungup") /\ UNCHANGED result
       \/ (call = "none" \/ "binding" \in Faults) /\ Fail(h, "return")
          /\ UNCHANGED <<bindingVars, notices>>
    /\ UNCHANGED <<storeVars, telegramVars, updates, found, chan>>

StopLookUp(h) ==
    /\ pc[h] = "hungup"
    /\ IF cached \in Ids
       THEN Goto(h, "leave") /\ found' = [found EXCEPT ![h] = cached] /\ UNCHANGED result
       ELSE Fail(h, "return") /\ UNCHANGED found
    /\ UNCHANGED <<storeVars, bindingVars, telegramVars, updates, notices, goal, chan>>

LeaveGroupCall(h) ==
    /\ pc[h] = "leave"
    /\ \/ found[h] = open /\ joined' = FALSE /\ Goto(h, "return") /\ UNCHANGED result
       \/ (found[h] # open \/ "rpc" \in Faults) /\ Fail(h, "return") /\ UNCHANGED joined
    /\ UNCHANGED <<storeVars, bindingVars, open, last, updates, notices, goal, found, chan>>

-----------------------------------------------------------------------------
(* The goroutine ends; what its locals hold no longer matters.             *)
Return(h) ==
    /\ pc[h] = "return"
    /\ Goto(h, "idle")
    /\ goal' = [goal EXCEPT ![h] = "play"]
    /\ found' = [found EXCEPT ![h] = None]
    /\ result' = [result EXCEPT ![h] = "ok"]
    /\ UNCHANGED <<storeVars, bindingVars, telegramVars, updates, notices, chan>>

-----------------------------------------------------------------------------
(* UpdateGroupCallParticipants about the assistant itself.                 *)

Known == cached \in Ids   \* convertGroupCallId finds the chat

(* Allowed to speak in a call that streams: connect once more.             *)
Unmuted(h) ==
    /\ pc[h] = "idle" /\ Known
    /\ mode = "stream" /\ pending
    /\ MakeChannel(h, "reconnect")

-----------------------------------------------------------------------------
(* UpdateGroupCall and OnConnectionChange.                                 *)

Opened(u) ==
    /\ u \in updates /\ u.kind = "opened"
    /\ cached' = u.id
    /\ updates' = updates \ {u}
    /\ UNCHANGED <<waitConnect, buffer, pending, bindingVars, telegramVars,
                   notices, pc, localVars>>

Discarded(u) ==
    /\ u \in updates /\ u.kind = "discarded"
    /\ cached' = Missing
    /\ updates' = (updates \ {u}) \cup {[kind |-> "stopping", id |-> u.id]}
    /\ UNCHANGED <<waitConnect, buffer, pending, bindingVars, telegramVars,
                   notices, pc, localVars>>

(* Mutant: a discarded group call does not end the call in ntgcalls.       *)
DiscardedOnly(u) ==
    /\ u \in updates /\ u.kind = "stopping"
    /\ updates' = updates \ {u}
    /\ UNCHANGED <<storeVars, bindingVars, notices, telegramVars, pc, localVars>>

DiscardedStop(u) ==
    /\ u \in updates /\ u.kind = "stopping"
    /\ BindingStop
    /\ updates' = updates \ {u}
    /\ UNCHANGED <<storeVars, telegramVars, pc, localVars>>

(* Mutant: OnConnectionChange does not test the channel for nil.           *)
NoticeReadUnchecked(s) ==
    /\ notices[s] # None /\ notices[s].at = "new"
    /\ notices' = [notices EXCEPT ![s] =
         [at |-> "send", answer |-> notices[s].answer, chan |-> waitConnect]]
    /\ UNCHANGED <<storeVars, bindingVars, telegramVars, updates, pc, localVars>>

(* A notification goes to the channel that waitConnect names when it runs, *)
NoticeRead(s) ==
    /\ notices[s] # None /\ notices[s].at = "new"
    /\ notices' = [notices EXCEPT ![s] =
         IF waitConnect = None THEN None
         ELSE [at |-> "send", answer |-> notices[s].answer, chan |-> waitConnect]]
    /\ UNCHANGED <<storeVars, bindingVars, telegramVars, updates, pc, localVars>>

(* and waits while that channel is full.                                   *)
NoticeSend(s) ==
    /\ notices[s] # None /\ notices[s].at = "send"
    /\ buffer[notices[s].chan] = None
    /\ notices' = [notices EXCEPT ![s] = None]
    /\ UNCHANGED <<waitConnect, cached, pending, bindingVars, telegramVars,
                   updates, pc, localVars>>
    /\ Collect([buffer EXCEPT ![notices[s].chan] = notices[s].answer])

-----------------------------------------------------------------------------
(* Telegram and ntgcalls.                                                  *)

OpenCall ==
    /\ open = None /\ last < MaxCalls
    /\ last' = last + 1 /\ open' = last'
    /\ updates' = updates \cup {[kind |-> "opened", id |-> last']}
    /\ UNCHANGED <<joined, storeVars, bindingVars, notices, pc, localVars>>

CloseCall ==
    /\ open # None
    /\ open' = None /\ joined' = FALSE
    /\ updates' = updates \cup {[kind |-> "discarded", id |-> open]}
    /\ UNCHANGED <<last, storeVars, bindingVars, notices, pc, localVars>>

Established ==
    /\ call = "connecting"
    /\ call' = "up"
    /\ Post("connected")
    /\ UNCHANGED <<mode, storeVars, telegramVars, updates, pc, localVars>>

(* ntgcalls keeps a broken call, or forgets it.                            *)
Broken ==
    /\ call \in {"connecting", "up"}
    /\ \/ call' = "down" /\ UNCHANGED mode
       \/ call' = "none" /\ mode' = None
    /\ Post("failed")
    /\ UNCHANGED <<storeVars, telegramVars, updates, pc, localVars>>

-----------------------------------------------------------------------------
ConnectSteps(h) ==
    \/ CreateCall(h) \/ SetSources(h) \/ LookUp(h) \/ Fetch(h) \/ Store(h)
    \/ JoinGroupCall(h) \/ Connect(h) \/ ConnectionMode(h) \/ Pend(h)
    \/ ReadChannel(h) \/ Receive(h) \/ Timeout(h) \/ Abort(h) \/ Undo(h)

PlaySteps(h) ==
    \/ Resource(h) \/ JoinPresentation(h) \/ Forget(h)
    \/ StaleParticipants(h) \/ UpdateSources(h)

Continue(h) ==
    \/ ConnectSteps(h) \/ PlaySteps(h)
    \/ StopLookUp(h) \/ LeaveGroupCall(h) \/ Return(h)

Begin(h) ==
    /\ Play(h) \/ PlayAgain(h) \/ Stop(h) \/ Unmuted(h)
    /\ alone' = (alone /\ \A g \in Handlers \ {h} : pc[g] = "idle")

HandleUpdate == \E u \in updates : Opened(u) \/ Discarded(u) \/ DiscardedStop(u)

Notify(s) == NoticeRead(s) \/ NoticeSend(s)

Environment == OpenCall \/ CloseCall \/ Established \/ Broken

Next ==
    \/ \E h \in Handlers : Begin(h)
    \/ /\ \/ \E h \in Handlers : Continue(h)
          \/ HandleUpdate
          \/ \E s \in Slots : Notify(s)
          \/ Environment
       /\ UNCHANGED alone

Spec == Init /\ [][Next]_vars

-----------------------------------------------------------------------------
ConnectLabels == {"create", "sources", "cache", "fetch", "store", "join",
                  "connect", "mode", "pend", "read", "wait", "abort", "undo"}

(* In connectCall (updateSources looks group calls up as well).            *)
Connecting(h) == pc[h] \in ConnectLabels /\ goal[h] # "sources"

(* An entry of waitConnect never outlives connectCall: whichever way it    *)
(* returns and however many overlap, the last one to return leaves nothing *)
(* that a later notification could be sent to.                             *)
NoWaiterLeft == waitConnect # None => \E h \in Handlers : Connecting(h)

(* While commands do not overlap, a call that is up is one in which        *)
(* Telegram lists the assistant, unless the news of its end are still on   *)
(* their way: errors, late updates and a stale group call leave no stream  *)
(* that nobody could hear.                                                 *)
UpMeansJoined ==
    alone /\ call = "up" => joined \/ \E u \in updates : u.kind # "opened"

(* Play takes a call that is up as it is: while commands do not overlap,   *)
(* no step of Play ends the call.                                          *)
PlaySparesCall ==
    [][\A h \in Handlers :
         alone' /\ goal[h] = "play" /\ call = "up" /\ pc'[h] # pc[h] =>
            call' = "up" \/ pc'[h] = "hungup"]_vars

(* A song is announced as playing when Play returns without an error       *)
(* (playSong, "once playback begins"): the call is connected by then.      *)
PlaybackBegins ==
    \A h \in Handlers :
        pc[h] = "return" /\ goal[h] = "play" /\ result[h] = "ok" => call # "created"
=============================================================================
