---------------------------- MODULE CallSources ----------------------------
(***************************************************************************)
(* The participants of one group call and their videos: Telegram's updates *)
(* of participants (src/src/vc/ubot/handle_updates.go), updateSources,     *)
(* which Play calls when the assistant has joined, Stop, and the end of    *)
(* the group call.                                                         *)
(*                                                                         *)
(* Every update is handled in a goroutine of its own.  Three records of    *)
(* the videos are kept: callParticipants, a cache of what Telegram says;   *)
(* callSources; and the incoming videos of the binding, which is called    *)
(* without a lock.                                                         *)
(***************************************************************************)
EXTENDS Naturals, Sequences

CONSTANTS None,       \* not in the call, nothing kept
          Self,       \* the assistant
          Others,     \* other participants
          Kinds,      \* of video: "camera", "screen"
          MaxEvents,  \* bound: changes in the call
          Faults      \* what may fail

(* "error": Telegram or the binding refuses a request.                     *)
FaultKinds == {"error"}

VARIABLES
    call,              \* the participants, as Telegram has them
    events,            \* how often they changed
    updates,           \* those changes the assistant is told, and their handlers
    callParticipants,  \* the cached participants, or None
    fresh,             \* was the cache updated within the last minute?
    callSources,       \* the videos noted, or None
    bound,             \* has the binding the call?
    incoming,          \* the videos it was told of
    stream,            \* is it a connection to a stream?
    mutedByAdmin,      \* is the chat in that list?
    at,                \* where Play is; it holds participantsMutex in "visit"
    todo,              \* what it has still to look at,
    adding,            \* and the video it tells the binding of
    stopping,          \* where Stop is
    ending,            \* where the handler is that is told the group call ended
    leftovers,         \* history: videos of participants who left
    earlier,           \* history: videos noted before the binding's call began
    complete,          \* history: the cache was fetched, and no change missed since
    clean,             \* history: nothing the binding is told failed, no two handlers
                       \* overlapped, nor was one outdated
    crashed            \* a nil map or an error ended the program

binding == <<bound, incoming, stream>>
kept == <<callParticipants, fresh, callSources>>
going == <<at, todo, adding, stopping, ending>>
history == <<leftovers, earlier, complete, clean>>
vars == <<call, events, updates, kept, binding, mutedByAdmin, going, history, crashed>>

People == Others \cup {Self}

Videos == People \X Kinds

(* muted: the participant cannot unmute itself.                            *)
Participant == [video : SUBSET Kinds, muted : BOOLEAN]

UpdateLabels == {"sent", "video", "self", "done"}

Update == [who : People, left : BOOLEAN, says : Participant, at : UpdateLabels,
           add : SUBSET Videos, remove : SUBSET Videos]

(* Of an update that is done nothing is kept.                              *)
Done == [who |-> Self, left |-> FALSE, says |-> [video |-> {}, muted |-> FALSE], at |-> "done",
         add |-> {}, remove |-> {}]

Calls == [People -> Participant \cup {None}]

TypeOK ==
    /\ call \in Calls
    /\ events \in 0..MaxEvents
    /\ updates \in Seq(Update) /\ Len(updates) <= MaxEvents
    /\ callParticipants \in Calls \cup {None}
    /\ fresh \in BOOLEAN
    /\ callSources \in (SUBSET Videos) \cup {None}
    /\ bound \in BOOLEAN /\ incoming \subseteq Videos /\ stream \in BOOLEAN
    /\ mutedByAdmin \in BOOLEAN
    /\ at \in {"idle", "connect", "participants", "sources", "visit", "add"}
    /\ todo \subseteq Videos \cup {Self}
    /\ adding \in Videos \cup {None}
    /\ stopping \in {"idle", "stop", "leave"}
    /\ ending \in {"idle", "ended", "stop"}
    /\ leftovers \subseteq Videos /\ earlier \subseteq Videos
    /\ complete \in BOOLEAN /\ clean \in BOOLEAN /\ crashed \in BOOLEAN

Nobody == [p \in People |-> None]

Init ==
    /\ call \in [People -> {None, [video |-> {}, muted |-> FALSE], [video |-> Kinds, muted |-> FALSE]}]
    /\ call[Self] = None
    /\ events = 0
    /\ updates = <<>>
    /\ callParticipants = None
    /\ fresh = FALSE
    /\ callSources = None
    /\ bound = FALSE /\ incoming = {} /\ stream = FALSE
    /\ mutedByAdmin = FALSE
    /\ at = "idle" /\ todo = {} /\ adding = None
    /\ stopping = "idle" /\ ending = "idle"
    /\ leftovers = {} /\ earlier = {}
    /\ complete = FALSE
    /\ clean = TRUE
    /\ crashed = FALSE

-----------------------------------------------------------------------------
VideosOf(c) == {v \in Videos : c[v[1]] # None /\ v[2] \in c[v[1]].video}

(* p becomes x, or leaves and is said to have been x.  Only who is in the  *)
(* call is told.                                                           *)
Event(p, left, x) ==
    /\ events < MaxEvents /\ events' = events + 1
    /\ call' = [call EXCEPT ![p] = IF left THEN None ELSE x]
    /\ IF call[Self] # None \/ p = Self
       THEN /\ updates' = Append(updates, [who |-> p, left |-> left, says |-> x, at |-> "sent",
                                           add |-> {}, remove |-> {}])
            /\ UNCHANGED complete
       ELSE complete' = FALSE /\ UNCHANGED updates

(* A change of p is missed while an update of p is on its way: nothing in  *)
(* an update tells the handler that it is older than what was fetched.     *)
Outdated(p) ==
    call[Self] = None /\ \E i \in DOMAIN updates : updates[i].who = p /\ updates[i].at # "done"

(* Others come, change and leave; the assistant is muted or may unmute.    *)
Change ==
    /\ \/ \E p \in Others, k \in SUBSET Kinds :
             /\ call[p] # [video |-> k, muted |-> FALSE]
             /\ Event(p, FALSE, [video |-> k, muted |-> FALSE])
             /\ clean' = (clean /\ ~Outdated(p))
       \/ \E p \in Others :
             /\ call[p] # None /\ Event(p, TRUE, [call[p] EXCEPT !.video = {}])
             /\ clean' = (clean /\ ~Outdated(p))
       \/ /\ call[Self] # None /\ Event(Self, FALSE, [call[Self] EXCEPT !.muted = ~@])
          /\ UNCHANGED clean
    /\ UNCHANGED <<kept, binding, mutedByAdmin, going, leftovers, earlier, crashed>>

(* The cache counts as old.                                                *)
Minute ==
    /\ fresh /\ fresh' = FALSE
    /\ UNCHANGED <<call, events, updates, callParticipants, callSources, binding, mutedByAdmin,
                   going, history, crashed>>

-----------------------------------------------------------------------------
(* Updates of participants.                                                *)

(* The updates before i are done, those after it wait, and neither Play    *)
(* nor Stop is at the videos, nor Play about to be at ones noted before.   *)
Alone(i) ==
    /\ \A j \in DOMAIN updates \ {i} : updates[j].at = IF j < i THEN "done" ELSE "sent"
    /\ at \in {"idle", "connect"} \/ (at = "participants" /\ callSources = None)
    /\ stopping = "idle"

(* Mutant: the videos of who has left stay noted.                          *)
NotedAlways(u) ==
    IF callSources = None \/ u.left
    THEN callSources
    ELSE (callSources \ ({u.who} \X Kinds)) \cup ({u.who} \X u.says.video)

(* callSources after an update: a participant's videos are those it has.   *)
Noted(u) ==
    IF callSources = None
    THEN None
    ELSE (callSources \ ({u.who} \X Kinds)) \cup IF u.left THEN {} ELSE {u.who} \X u.says.video

(* Under the lock the cache and callSources are updated; the cache counts  *)
(* as fresh, whatever is in it.                                            *)
Apply(i) ==
    LET u == updates[i]
        was == IF callSources = None THEN {} ELSE callSources \cap ({u.who} \X Kinds)
        is == IF callSources = None THEN {} ELSE {u.who} \X u.says.video
    IN /\ u.at = "sent" /\ at # "visit"
       /\ callParticipants' = [IF callParticipants = None THEN Nobody ELSE callParticipants
                               EXCEPT ![u.who] = IF u.left THEN None ELSE u.says]
       /\ fresh' = TRUE
       /\ callSources' = Noted(u)
       /\ updates' = [updates EXCEPT ![i].at = "video",
                                     ![i].add = IF u.left THEN {} ELSE is \ was,
                                     ![i].remove = IF u.left THEN {} ELSE was \ is]
       /\ leftovers' = IF u.left THEN leftovers \cup was ELSE leftovers
       /\ earlier' = {v \in earlier : v[1] = u.who => ~u.left /\ v[2] \in u.says.video}
       /\ clean' = (clean /\ Alone(i))
       /\ UNCHANGED <<call, events, binding, mutedByAdmin, going, complete, crashed>>

(* The binding is told, if it has the call and nothing fails.              *)
Tell(videos) ==
    \/ bound /\ incoming' = videos /\ UNCHANGED clean
    \/ (~bound \/ "error" \in Faults) /\ UNCHANGED incoming /\ clean' = FALSE

(* Then the binding is told, of new videos first.                          *)
Video(i) ==
    LET u == updates[i]
    IN /\ u.at = "video"
       /\ \/ \E v \in u.add :
                updates' = [updates EXCEPT ![i].add = @ \ {v}] /\ Tell(incoming \cup {v})
          \/ \E v \in u.remove :
                /\ u.add = {}
                /\ updates' = [updates EXCEPT ![i].remove = @ \ {v}] /\ Tell(incoming \ {v})
          \/ /\ u.add = {} /\ u.remove = {}
             /\ updates' = [updates EXCEPT ![i] = IF u.who = Self THEN [u EXCEPT !.at = "self"] ELSE Done]
             /\ UNCHANGED <<incoming, clean>>
       /\ UNCHANGED <<call, events, kept, bound, stream, mutedByAdmin, going, leftovers, earlier,
                      complete, crashed>>

(* Mutant: the chat stays in the list.                                     *)
UnmutedKept(ok) == crashed' = ~ok /\ UNCHANGED <<mutedByAdmin, clean>>

(* Who was muted by an administrator and may speak again: the state of the *)
(* call is sent to Telegram.  An error, also that there is no call, is a   *)
(* panic.                                                                  *)
Unmuted(ok) ==
    IF mutedByAdmin
    THEN crashed' = ~ok /\ mutedByAdmin' = ~ok /\ clean' = (clean /\ ok)
    ELSE UNCHANGED <<mutedByAdmin, clean, crashed>>

(* Last the assistant itself.  A stream of which no connection is pending  *)
(* is left alone.                                                          *)
Oneself(i) ==
    LET u == updates[i]
    IN /\ u.at = "self"
       /\ updates' = [updates EXCEPT ![i] = Done]
       /\ at # "visit"
       /\ IF bound /\ stream /\ ~u.says.muted
          THEN UNCHANGED <<mutedByAdmin, clean, crashed>>
          ELSE IF u.says.muted
          THEN mutedByAdmin' = TRUE /\ UNCHANGED <<clean, crashed>>
          ELSE \E ok \in (IF bound THEN {TRUE} ELSE {}) \cup
                          (IF bound /\ Faults = {} THEN {} ELSE {FALSE}) : Unmuted(ok)
       /\ UNCHANGED <<call, events, kept, binding, going, leftovers, earlier, complete>>

(* A stream is connected anew when the assistant may speak.  How this and  *)
(* Play overlap is in ConnectCall.                                         *)
Reconnect(i) ==
    /\ updates[i].at = "self" /\ bound /\ stream /\ ~updates[i].says.muted
    /\ updates' = [updates EXCEPT ![i] = Done]
    /\ at = "idle" /\ at' = "connect"
    /\ clean' = (clean /\ stopping = "idle" /\ ending = "idle")
    /\ UNCHANGED <<call, events, kept, binding, mutedByAdmin, todo, adding, stopping, ending,
                   leftovers, earlier, complete, crashed>>

-----------------------------------------------------------------------------
(* connectCall, for Play and for a stream, then updateSources for Play.    *)

(* The binding's call is a new one, and the assistant joins.  What is      *)
(* noted stays noted.                                                      *)
Joined ==
    /\ \E m \in BOOLEAN : Event(Self, FALSE, [video |-> {}, muted |-> m])
    /\ bound' = TRUE /\ incoming' = {} /\ stream' \in BOOLEAN
    /\ leftovers' = {}
    /\ earlier' = IF callSources = None THEN {} ELSE callSources
    /\ clean' = (/\ clean /\ stopping = "idle" /\ ending = "idle"
                 /\ \A i \in DOMAIN updates : updates[i].add = {} /\ updates[i].remove = {})
    /\ UNCHANGED <<kept, mutedByAdmin, todo, adding, stopping, ending, crashed>>

(* Play goes on, unless an error comes after the join.                     *)
Join ==
    /\ at = "idle" /\ ~bound
    /\ Joined
    /\ at' = "participants" \/ ("error" \in Faults /\ at' = "idle")

Reconnected == at = "connect" /\ Joined /\ at' = "idle"

(* An error before the join ends the binding's call; if the join itself is *)
(* refused, the call stays.  Either way callSources is left alone.         *)
NotConnected ==
    /\ at = "connect" \/ (at = "idle" /\ ~bound)
    /\ "error" \in Faults
    /\ at' = "idle"
    /\ incoming' = {}
    /\ \/ bound' = FALSE /\ UNCHANGED clean
       \/ bound' = TRUE /\ clean' = FALSE
    /\ UNCHANGED <<call, events, updates, kept, stream, mutedByAdmin, todo, adding, stopping, ending,
                   leftovers, earlier, complete, crashed>>

(* GetParticipants asks Telegram, under the lock, unless the cache counts  *)
(* as fresh.  A failure leaves an empty cache, unless it is that of        *)
(* getInputGroupCall.                                                      *)
Participants ==
    LET look(c) ==
            /\ at' = "sources"
            /\ todo' = VideosOf(c) \cup IF c[Self] # None /\ c[Self].muted THEN {Self} ELSE {}
    IN /\ at = "participants"
       /\ \/ fresh /\ look(callParticipants) /\ UNCHANGED <<callParticipants, fresh, complete>>
          \/ /\ ~fresh
             /\ callParticipants' = call /\ fresh' = TRUE /\ complete' = TRUE
             /\ look(call)
          \/ /\ ~fresh /\ "error" \in Faults
             /\ \/ callParticipants' = Nobody /\ complete' = FALSE
                \/ /\ callParticipants' = IF callParticipants = None THEN Nobody ELSE callParticipants
                   /\ UNCHANGED complete
             /\ at' = "idle"
             /\ UNCHANGED <<fresh, todo>>
       /\ UNCHANGED <<call, events, updates, callSources, binding, mutedByAdmin, adding, stopping, ending,
                      leftovers, earlier, clean, crashed>>

Sources ==
    /\ at = "sources"
    /\ callSources' = IF callSources = None THEN {} ELSE callSources
    /\ at' = "visit"
    /\ UNCHANGED <<call, events, updates, callParticipants, fresh, binding, mutedByAdmin,
                   todo, adding, stopping, ending, history, crashed>>

(* A video that was not noted; Stop may have taken the map away.           *)
VisitVideo(v) ==
    IF callSources = None
    THEN crashed' = TRUE /\ UNCHANGED <<callSources, at, adding>>
    ELSE /\ callSources' = callSources \cup {v}
         /\ at' = "add" /\ adding' = v
         /\ UNCHANGED crashed

(* Under the lock: a video that is not yet noted is noted, and the lock    *)
(* given up to tell the binding.                                           *)
Visit ==
    /\ at = "visit"
    /\ \/ /\ todo = {} /\ at' = "idle"
          /\ UNCHANGED <<callSources, mutedByAdmin, todo, adding, crashed>>
       \/ /\ Self \in todo /\ todo' = todo \ {Self}
          /\ mutedByAdmin' = TRUE
          /\ UNCHANGED <<callSources, at, adding, crashed>>
       \/ \E v \in todo \ {Self} :
             /\ todo' = todo \ {v}
             /\ IF callSources # None /\ v \in callSources
                THEN UNCHANGED <<callSources, at, adding, crashed>>
                ELSE VisitVideo(v)
             /\ UNCHANGED mutedByAdmin
    /\ UNCHANGED <<call, events, updates, callParticipants, fresh, binding, stopping, ending, history>>

(* An error ends Play; the video stays noted.                              *)
Add ==
    /\ at = "add"
    /\ Tell(incoming \cup {adding})
    /\ IF clean' = clean /\ bound
       THEN at' = "visit" /\ UNCHANGED todo
       ELSE at' = "idle" /\ todo' = {}
    /\ adding' = None
    /\ UNCHANGED <<call, events, updates, kept, bound, stream, mutedByAdmin, stopping, ending,
                   leftovers, earlier, complete, crashed>>

-----------------------------------------------------------------------------
(* Stop forgets the videos, ends the binding's call, leaves.  That the     *)
(* binding has no call is found after the videos are forgotten.            *)

Stop ==
    /\ stopping = "idle" /\ at # "visit"
    /\ stopping' = "stop"
    /\ callSources' = None
    /\ clean' = (clean /\ at = "idle" /\ \A i \in DOMAIN updates : updates[i].at \in {"sent", "done"})
    /\ UNCHANGED <<call, events, updates, callParticipants, fresh, binding, mutedByAdmin,
                   at, todo, adding, ending, leftovers, earlier, complete, crashed>>

StopBinding ==
    /\ stopping = "stop"
    /\ \/ bound /\ bound' = FALSE /\ incoming' = {} /\ stopping' = "leave"
       \/ (~bound \/ "error" \in Faults) /\ stopping' = "idle" /\ UNCHANGED <<bound, incoming>>
    /\ UNCHANGED <<call, events, updates, kept, stream, mutedByAdmin, at, todo, adding, ending,
                   history, crashed>>

Leave ==
    /\ stopping = "leave"
    /\ stopping' = "idle"
    /\ \/ call[Self] # None /\ Event(Self, TRUE, call[Self])
       \/ UNCHANGED <<call, events, updates, complete>>
    /\ UNCHANGED <<kept, binding, mutedByAdmin, at, todo, adding, ending, leftovers, earlier, clean,
                   crashed>>

-----------------------------------------------------------------------------
(* The group call ends: nobody is in it, and nobody is told who left.  The *)
(* chat has no group call any more, so that what is told of it later is of *)
(* no chat, and the binding's call ends; callSources is left alone.        *)

End ==
    /\ ending = "idle" /\ call # Nobody
    /\ events < MaxEvents /\ events' = events + 1
    /\ call' = Nobody /\ complete' = FALSE
    /\ ending' = "ended"
    /\ clean' = (clean /\ at = "idle")
    /\ UNCHANGED <<updates, kept, binding, mutedByAdmin, at, todo, adding, stopping, leftovers,
                   earlier, crashed>>

(* The updates that are not handled yet are dropped, but those that have   *)
(* found their chat already.                                               *)
Forget ==
    /\ ending = "ended"
    /\ ending' = "stop"
    /\ \E late \in SUBSET {i \in DOMAIN updates : updates[i].at = "sent"} :
          /\ updates' = [i \in DOMAIN updates |->
                            IF updates[i].at = "sent" /\ i \notin late THEN Done ELSE updates[i]]
          /\ clean' = (clean /\ \A i \in DOMAIN updates : updates'[i].at = "done")
    /\ UNCHANGED <<call, events, kept, binding, mutedByAdmin, at, todo, adding, stopping, leftovers,
                   earlier, complete, crashed>>

EndStop ==
    /\ ending = "stop"
    /\ ending' = "idle"
    /\ bound' = FALSE /\ incoming' = {}
    /\ clean' = (clean /\ at = "idle")
    /\ UNCHANGED <<call, events, updates, kept, stream, mutedByAdmin, at, todo, adding, stopping,
                   leftovers, earlier, complete, crashed>>

-----------------------------------------------------------------------------
Next ==
    /\ ~crashed
    /\ \/ Change \/ Minute
       \/ \E i \in DOMAIN updates : Apply(i) \/ Video(i) \/ Oneself(i) \/ Reconnect(i)
       \/ Join \/ Reconnected \/ NotConnected
       \/ Participants \/ Sources \/ Visit \/ Add
       \/ Stop \/ StopBinding \/ Leave
       \/ End \/ Forget \/ EndStop

Spec == Init /\ [][Next]_vars

-----------------------------------------------------------------------------
(* What is expected.                                                       *)

Quiet ==
    /\ ~crashed /\ at = "idle" /\ stopping = "idle" /\ ending = "idle"
    /\ \A i \in DOMAIN updates : updates[i].at = "done"

(* When all is done, and no update was handled at the same time as         *)
(* another, as updateSources or as the end of the call, nor was one left   *)
(* over from an earlier stay in the call that was no longer true, the      *)
(* binding has been told of all the videos noted, and of no others but     *)
(* those of who has left; and if the participants were asked for, all      *)
(* videos of the call are noted, and no others.  Excepted are videos that  *)
(* were noted in an earlier call, which ended or failed without Stop: the  *)
(* binding is not told of them again, nor is it noticed that they are      *)
(* gone.                                                                   *)
SourcesInStep ==
    Quiet /\ clean /\ bound /\ callSources # None =>
        /\ incoming \subseteq callSources \cup leftovers
        /\ callSources \subseteq incoming \cup earlier
        /\ complete => /\ VideosOf(call) \subseteq callSources
                       /\ callSources \subseteq VideosOf(call) \cup earlier

(* Then the chat is listed as muted by an administrator if the assistant   *)
(* cannot unmute itself, and only then, unless it is a stream.             *)
MutedInStep ==
    Quiet /\ clean /\ bound /\ callSources # None /\ call[Self] # None =>
        mutedByAdmin = call[Self].muted \/ (stream /\ mutedByAdmin)
=============================================================================
