---------------------------- MODULE PrivateCall ----------------------------
(***************************************************************************)
(* Private calls: one user calls the assistant                             *)
(* (src/src/vc/ubot/handle_updates.go, connect_call.go,                    *)
(* get_p2p_configs.go, convert_call_id.go, play.go, and the callback of    *)
(* src/src/vc/calls.go that answers).                                      *)
(*                                                                         *)
(* Telegram's updates of calls are each handled in a goroutine of its own, *)
(* in any order; an incoming call starts another one, the player, which    *)
(* prepares the media and connects.  They share the user's entries in      *)
(* p2pConfigs and inputCalls, and the channel in the first.                *)
(***************************************************************************)
EXTENDS Naturals, Sequences

CONSTANTS None,      \* no entry
          MaxDials,  \* bound: calls of the user,
          MaxCalls,  \* and calls either way
          Faults     \* what may fail

(* "error": Telegram or the binding refuses a request, or the media cannot *)
(* be had.                                                                 *)
FaultKinds == {"error"}

VARIABLES
    calls,       \* what Telegram knows: every call so far
    handler,     \* where the goroutine of an update is,
    sends,       \* and the configuration whose channel it sends on
    configs,     \* every P2PConfig that was made
    p2pConfigs,  \* the user's entry, a place in configs, or None
    inputCalls,  \* the user's entry, a call, or None
    bound,       \* has the binding a call with the user?
    player,      \* where the player of an incoming call is,
    waitData,    \* and the configuration whose channel it waits on
    orderly,     \* history: no update was handled at a bad moment
    abandoned,   \* history: a player ended without connectCall
    crashed      \* a nil configuration was used, which ends the program

updating == <<handler, sends>>
playing == <<player, waitData>>
entries == <<configs, p2pConfigs, inputCalls, bound>>
history == <<orderly, abandoned>>
vars == <<calls, updating, entries, playing, history, crashed>>

Calls == 1..MaxCalls

CallStates == {"requested", "accepted", "up", "over"}

(* The updates of calls.  A call has at most one of a kind.                *)
Kinds == {"requested", "waiting", "accepted", "obj", "discarded"}
Updates == Calls \X Kinds

HandlerLabels == {"none", "start", "config", "send", "cleanup", "done"}

PlayerLabels == {"none", "prepare", "play", "config", "request", "create", "exchange",
                 "call", "wait", "keys", "confirm", "connect", "connecting", "done"}

(* out: the assistant calls; pc: has it the PhoneCall that ConnectP2P      *)
(* needs?                                                                  *)
P2PConfig == [out : BOOLEAN, pc : BOOLEAN]

(* Every call has one configuration, and a player may make another.        *)
Places == 1..(2 * MaxCalls)

TypeOK ==
    /\ calls \in Seq([out : BOOLEAN, state : CallStates]) /\ Len(calls) <= MaxCalls
    /\ handler \in [Updates -> HandlerLabels]
    /\ sends \in [Updates -> Places \cup {None}]
    /\ configs \in Seq(P2PConfig) /\ Len(configs) <= 2 * MaxCalls
    /\ p2pConfigs \in DOMAIN configs \cup {None}
    /\ inputCalls \in Calls \cup {None}
    /\ bound \in BOOLEAN
    /\ player \in [Calls -> PlayerLabels]
    /\ waitData \in [Calls -> Places \cup {None}]
    /\ orderly \in BOOLEAN
    /\ abandoned \in BOOLEAN
    /\ crashed \in BOOLEAN

Init ==
    /\ calls = <<>>
    /\ handler = [u \in Updates |-> "none"]
    /\ sends = [u \in Updates |-> None]
    /\ configs = <<>>
    /\ p2pConfigs = None
    /\ inputCalls = None
    /\ bound = FALSE
    /\ player = [k \in Calls |-> "none"]
    /\ waitData = [k \in Calls |-> None]
    /\ orderly = TRUE
    /\ abandoned = FALSE
    /\ crashed = FALSE

-----------------------------------------------------------------------------
(* Telegram and the user.                                                  *)

Working(k) == player[k] \notin {"none", "done"}

(* An update of call k is on its way.                                      *)
Send(k, kind) == handler' = [handler EXCEPT ![<<k, kind>>] = "start"]

(* Two users have at most one call with each other.                        *)
Free == Len(calls) < MaxCalls /\ \A k \in DOMAIN calls : calls[k].state = "over"

Now(k, state) == calls' = [calls EXCEPT ![k].state = state]

User == UNCHANGED <<sends, entries, playing, history, crashed>>

Dial ==
    /\ Free /\ Len(SelectSeq(calls, LAMBDA c : ~c.out)) < MaxDials
    /\ calls' = Append(calls, [out |-> FALSE, state |-> "requested"])
    /\ Send(Len(calls'), "requested")
    /\ User

(* The caller's client confirms what the assistant accepted.               *)
Confirmed(k) ==
    /\ ~calls[k].out /\ calls[k].state = "accepted"
    /\ Now(k, "up")
    /\ Send(k, "obj")
    /\ User

(* The user answers a call of the assistant.                               *)
Answer(k) ==
    /\ calls[k].out /\ calls[k].state = "requested"
    /\ Now(k, "accepted")
    /\ Send(k, "accepted")
    /\ User

(* The user hangs up, or nobody answered for long.                         *)
HangUp(k) ==
    /\ calls[k].state # "over"
    /\ Now(k, "over")
    /\ Send(k, "discarded")
    /\ User

-----------------------------------------------------------------------------
(* The handlers of updates.                                                *)

Handling == UNCHANGED <<calls, playing, abandoned, crashed>>

HandlerGoto(u, l) == handler' = [handler EXCEPT ![u] = l]

(* Handlers that have still something to do, but for those that wait for a *)
(* receiver.                                                               *)
Pending(us) == \E u \in us : handler[u] \in {"start", "config", "cleanup"}

(* A new call comes when all is over with the last one.                    *)
OrderlyRequest(k) ==
    /\ p2pConfigs = None
    /\ ~Pending((Calls \X Kinds) \ {<<k, "requested">>})
    /\ \A j \in Calls : ~Working(j)

(* Its number is noted, and the call ignored if there is a configuration.  *)
Requested(k) ==
    LET u == <<k, "requested">>
    IN /\ handler[u] = "start"
       /\ inputCalls' = k
       /\ HandlerGoto(u, IF p2pConfigs = None THEN "config" ELSE "done")
       /\ orderly' = (orderly /\ OrderlyRequest(k))
       /\ UNCHANGED <<sends, configs, p2pConfigs, bound>>
       /\ Handling

(* Mutant: the callback starts though there is no configuration.           *)
RequestedAnyway(k) ==
    LET u == <<k, "requested">>
    IN /\ handler[u] = "config"
       /\ HandlerGoto(u, "done")
       /\ player' = [player EXCEPT ![k] = "prepare"]
       /\ UNCHANGED <<calls, sends, entries, waitData, history, crashed>>

(* getP2PConfigs asks Telegram; then another may have been quicker, and    *)
(* the callback starts all the same.                                       *)
RequestedConfig(k) ==
    LET u == <<k, "requested">>
    IN /\ handler[u] = "config"
       /\ HandlerGoto(u, "done")
       /\ \/ /\ IF p2pConfigs = None
                THEN /\ configs' = Append(configs, [out |-> FALSE, pc |-> FALSE])
                     /\ p2pConfigs' = Len(configs')
                ELSE UNCHANGED <<configs, p2pConfigs>>
             /\ player' = [player EXCEPT ![k] = "prepare"]
          \/ "error" \in Faults /\ UNCHANGED <<configs, p2pConfigs, player>>
       /\ UNCHANGED <<calls, sends, inputCalls, bound, waitData, history, crashed>>

(* With a configuration the handler sends on its channel, which blocks.    *)
Deliver(u) ==
    IF p2pConfigs = None
    THEN HandlerGoto(u, "done") /\ UNCHANGED sends
    ELSE HandlerGoto(u, "send") /\ sends' = [sends EXCEPT ![u] = p2pConfigs]

(* The other side was told of the assistant's call, accepted it, or has    *)
(* confirmed its own, whose PhoneCall is kept; nothing tells whether it is *)
(* the call that the configuration was made for.                           *)
Told(k, kind) ==
    LET u == <<k, kind>>
    IN /\ handler[u] = "start" /\ kind \in {"waiting", "accepted", "obj"}
       /\ inputCalls' = IF kind = "obj" THEN inputCalls ELSE k
       /\ IF kind = "waiting" THEN HandlerGoto(u, "done") /\ UNCHANGED sends ELSE Deliver(u)
       /\ configs' = IF kind = "obj" /\ p2pConfigs # None
                     THEN [configs EXCEPT ![p2pConfigs].pc = TRUE]
                     ELSE configs
       /\ UNCHANGED <<p2pConfigs, bound, orderly>>
       /\ Handling

(* The user is found by the call's number; for no user there is nothing to *)
(* do.                                                                     *)
Discarded(k) ==
    LET u == <<k, "discarded">>
    IN /\ handler[u] = "start"
       /\ IF inputCalls # k
          THEN HandlerGoto(u, "done") /\ UNCHANGED sends
          ELSE IF p2pConfigs = None
          THEN HandlerGoto(u, "cleanup") /\ UNCHANGED sends
          ELSE Deliver(u)
       /\ orderly' = (orderly /\ ~Pending({k} \X (Kinds \ {"discarded"})))
       /\ UNCHANGED entries
       /\ Handling

(* Only when the error was received is the call forgotten.                 *)
Cleanup(k) ==
    LET u == <<k, "discarded">>
    IN /\ handler[u] = "cleanup"
       /\ inputCalls' = None
       /\ bound' = FALSE
       /\ HandlerGoto(u, "done")
       /\ UNCHANGED <<sends, configs, p2pConfigs, orderly>>
       /\ Handling

-----------------------------------------------------------------------------
(* The player: OnIncomingCall's callback, PlayMedia, Play, connectCall.    *)

PlayerGoto(k, l) == player' = [player EXCEPT ![k] = l]

(* Mutant: connectCall leaves the configuration.                           *)
FinishKeeping(k) ==
    /\ PlayerGoto(k, "done")
    /\ waitData' = [waitData EXCEPT ![k] = None]
    /\ UNCHANGED p2pConfigs

(* connectCall returns: its deferred calls delete the configuration that   *)
(* is there.  The binding keeps its call, whatever came of it.             *)
Finish(k) ==
    /\ PlayerGoto(k, "done")
    /\ waitData' = [waitData EXCEPT ![k] = None]
    /\ p2pConfigs' = None

(* A message is sent, the media found and downloaded, an assistant chosen  *)
(* for the user, which need not be this one.  The configuration stays when *)
(* this ends otherwise.                                                    *)
Prepare(k) ==
    /\ player[k] = "prepare"
    /\ \/ PlayerGoto(k, "play") /\ UNCHANGED abandoned
       \/ "error" \in Faults /\ PlayerGoto(k, "done") /\ abandoned' = TRUE
    /\ UNCHANGED <<calls, updating, entries, waitData, orderly, crashed>>

(* Play: where the binding has a call with the user it only gets the media.*)
Play(k) ==
    /\ player[k] = "play"
    /\ PlayerGoto(k, IF bound THEN "done" ELSE "config")
    /\ abandoned' = (abandoned \/ bound)
    /\ UNCHANGED <<calls, updating, entries, waitData, orderly, crashed>>

(* connectCall calls the user if there is no configuration.                *)
Config(k) ==
    /\ player[k] = "config"
    /\ PlayerGoto(k, IF p2pConfigs = None THEN "request" ELSE "create")
    /\ UNCHANGED <<calls, updating, entries, waitData, history, crashed>>

Request(k) ==
    /\ player[k] = "request"
    /\ \/ /\ configs' = Append(configs, [out |-> TRUE, pc |-> FALSE])
          /\ p2pConfigs' = Len(configs')
          /\ PlayerGoto(k, "create")
          /\ UNCHANGED waitData
       \/ "error" \in Faults /\ Finish(k) /\ UNCHANGED configs
    /\ UNCHANGED <<calls, updating, inputCalls, bound, history, crashed>>

(* CreateP2PCall fails if there is a call; then the media.                 *)
Create(k) ==
    /\ player[k] = "create"
    /\ bound' = TRUE
    /\ \/ ~bound /\ PlayerGoto(k, "exchange") /\ UNCHANGED <<waitData, p2pConfigs>>
       \/ (bound \/ "error" \in Faults) /\ Finish(k)
    /\ UNCHANGED <<calls, updating, configs, inputCalls, history, crashed>>

(* A request to the binding or Telegram, with the configuration that is    *)
(* there: InitExchange, ExchangeKeys, ConnectP2P.                          *)
Use(k) ==
    /\ player[k] \in {"exchange", "keys", "connect"}
    /\ IF p2pConfigs = None \/ (player[k] = "connect" /\ ~configs[p2pConfigs].pc)
       THEN crashed' = TRUE /\ UNCHANGED <<playing, p2pConfigs>>
       ELSE /\ \/ /\ PlayerGoto(k, CASE player[k] = "exchange" -> "call"
                                     [] player[k] = "connect" -> "connecting"
                                     [] OTHER -> IF configs[p2pConfigs].out THEN "confirm" ELSE "connect")
                  /\ UNCHANGED <<waitData, p2pConfigs>>
               \/ "error" \in Faults /\ Finish(k)
            /\ UNCHANGED crashed
    /\ UNCHANGED <<calls, updating, configs, inputCalls, bound, history>>

(* The channel that is waited on.                                          *)
Await(k) ==
    /\ PlayerGoto(k, "wait")
    /\ waitData' = [waitData EXCEPT ![k] = p2pConfigs]
    /\ UNCHANGED p2pConfigs

(* PhoneAcceptCall, of the call that was noted last.                       *)
Accept(k) ==
    /\ ~configs[p2pConfigs].out
    /\ \/ /\ inputCalls # None /\ ~calls[inputCalls].out /\ calls[inputCalls].state = "requested"
          /\ Now(inputCalls, "accepted")
          /\ Await(k)
       \/ /\ \/ inputCalls = None \/ "error" \in Faults
             \/ inputCalls # None /\ (calls[inputCalls].out \/ calls[inputCalls].state # "requested")
          /\ Finish(k)
          /\ UNCHANGED calls
    /\ UNCHANGED handler

(* PhoneRequestCall.                                                       *)
Call(k) ==
    /\ configs[p2pConfigs].out
    /\ \/ /\ Free
          /\ calls' = Append(calls, [out |-> TRUE, state |-> "requested"])
          /\ Send(Len(calls'), "waiting")
          /\ Await(k)
       \/ (~Free \/ "error" \in Faults) /\ Finish(k) /\ UNCHANGED <<calls, handler>>

AcceptOrCall(k) ==
    /\ player[k] = "call"
    /\ IF p2pConfigs = None
       THEN crashed' = TRUE /\ UNCHANGED <<calls, handler, playing, p2pConfigs>>
       ELSE (Accept(k) \/ Call(k)) /\ UNCHANGED crashed
    /\ UNCHANGED <<sends, configs, inputCalls, bound, history>>

(* A handler that blocks on the channel goes on, and so does the player.   *)
Receive(k) ==
    /\ player[k] = "wait"
    /\ \E u \in Updates :
          /\ handler[u] = "send" /\ sends[u] = waitData[k]
          /\ sends' = [sends EXCEPT ![u] = None]
          /\ IF u[2] = "discarded"
             THEN HandlerGoto(u, "cleanup") /\ Finish(k)
             ELSE HandlerGoto(u, "done") /\ PlayerGoto(k, "keys") /\ UNCHANGED <<waitData, p2pConfigs>>
    /\ UNCHANGED <<calls, configs, inputCalls, bound, history, crashed>>

(* Mutant: the other side is waited for without a limit.                   *)
TimeOutNever(k) ==
    /\ player[k] = "connecting"
    /\ Finish(k)
    /\ UNCHANGED <<calls, updating, configs, inputCalls, bound, history, crashed>>

(* Ten seconds have passed; or, after ConnectP2P, it is connected, it      *)
(* failed, or 15 seconds have passed: see ConnectCall.                     *)
TimeOut(k) ==
    /\ player[k] \in {"wait", "connecting"}
    /\ Finish(k)
    /\ UNCHANGED <<calls, updating, configs, inputCalls, bound, history, crashed>>

(* PhoneConfirmCall, by the side that calls.                               *)
Confirm(k) ==
    LET answered == inputCalls # None /\ calls[inputCalls].out /\ calls[inputCalls].state = "accepted"
    IN /\ player[k] = "confirm"
       /\ \/ /\ answered
             /\ IF p2pConfigs = None
                THEN crashed' = TRUE /\ UNCHANGED <<calls, configs, player>>
                ELSE /\ Now(inputCalls, "up")
                     /\ configs' = [configs EXCEPT ![p2pConfigs].pc = TRUE]
                     /\ PlayerGoto(k, "connect")
                     /\ UNCHANGED crashed
             /\ UNCHANGED <<p2pConfigs, waitData>>
          \/ /\ ~answered \/ "error" \in Faults
             /\ Finish(k)
             /\ UNCHANGED <<calls, configs, crashed>>
       /\ UNCHANGED <<updating, inputCalls, bound, history>>

-----------------------------------------------------------------------------
UserStep == Dial \/ \E k \in DOMAIN calls : Confirmed(k) \/ Answer(k) \/ HangUp(k)

HandlerStep(k) ==
    \/ Requested(k) \/ RequestedConfig(k) \/ Discarded(k) \/ Cleanup(k)
    \/ \E kind \in Kinds : Told(k, kind)

PlayerStep(k) ==
    \/ Prepare(k) \/ Play(k) \/ Config(k) \/ Request(k) \/ Create(k)
    \/ Use(k) \/ AcceptOrCall(k) \/ Receive(k) \/ TimeOut(k) \/ Confirm(k)

Next == ~crashed /\ (UserStep \/ \E k \in Calls : HandlerStep(k) \/ PlayerStep(k))

Spec == Init /\ [][Next]_vars

(* Goroutines run on; users do what they like.                             *)
Fairness == \A k \in Calls : WF_vars(~crashed /\ HandlerStep(k)) /\ WF_vars(~crashed /\ PlayerStep(k))

FairSpec == Spec /\ Fairness

-----------------------------------------------------------------------------
(* What is expected.                                                       *)

(* The assistant answers and never calls, and no configuration is missed,  *)
(* as long as a user's updates are handled in order and a new call comes   *)
(* after the last one was dealt with.                                      *)
AnswersOnly == orderly => ~crashed /\ \A i \in DOMAIN configs : ~configs[i].out

(* When all calls are over, their handlers done and nobody is waiting to   *)
(* tell of a hang-up, nothing is left of them that would make the next one *)
(* fail: no call in the binding, no entry; a configuration only where a    *)
(* player gave up before connectCall.                                      *)
NothingStays ==
    /\ orderly /\ ~crashed
    /\ \A k \in DOMAIN calls : calls[k].state = "over" /\ handler[<<k, "discarded">>] = "done"
    /\ ~Pending(Updates)
    /\ \A k \in Calls : ~Working(k)
    => ~bound /\ inputCalls = None /\ (p2pConfigs # None => abandoned)

(* connectCall always returns, whatever the other side does, or does not:  *)
(* there is again and again a time when no player is at it.                *)
PlayersEnd == []<>(crashed \/ \A k \in Calls : ~Working(k))
=============================================================================
