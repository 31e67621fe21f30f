----------------------------- MODULE Membership -----------------------------
(***************************************************************************)
(* The assistant's membership of one chat: how it joins before a song      *)
(* (src/src/vc/userbot.go), what the bot is told of it                     *)
(* (src/src/handlers/participant.go), and /leaveall                        *)
(* (src/src/vc/leave_all.go).  The cached status and the chat's being      *)
(* active are shared by all of them.                                       *)
(*                                                                         *)
(* Every update is handled in a goroutine of its own.  A member of         *)
(* Handlers is a goroutine that plays a song at a time.                    *)
(***************************************************************************)
EXTENDS Naturals, Sequences

CONSTANTS None,        \* nothing cached
          Handlers,    \* goroutines
          MaxUpdates,  \* bound: changes of the membership
          Faults       \* what may fail

(* "error": Telegram refuses a request, or the bot lacks a right.          *)
FaultKinds == {"error"}

VARIABLES
    where,        \* the assistant's standing in the chat
    updates,      \* every change of it, and where its handler is
    statusCache,  \* the cached status, or None
    active,       \* is the chat active, that is in the chat cache?
    at,           \* where a goroutine is,
    status,       \* and the status it was told
    leaving,      \* where /leaveall is,
    spared,       \* and whether the chat was active when it looked
    overtaken,    \* history: has an update been cached since the goroutine was told?
    clean,        \* history: nothing failed or came at a bad moment
    muted         \* history: has the assistant ever been restricted?

joining == <<at, status>>
leaveAll == <<leaving, spared>>
history == <<overtaken, clean, muted>>
vars == <<where, updates, statusCache, active, joining, leaveAll, history>>

Statuses == {"left", "member", "administrator", "restricted", "kicked"}

(* A ban that Telegram shows as "left", since the user has left, and one   *)
(* that it shows as "kicked".                                              *)
Standings == Statuses \cup {"banned"}

UpdateLabels == {"sent", "cache", "done"}

Labels == {"idle", "queue", "check", "fetch", "store", "rights", "link", "join", "member",
           "joined", "failed"}

TypeOK ==
    /\ where \in Standings
    /\ updates \in Seq([old : Statuses, new : Statuses, at : UpdateLabels])
    /\ Len(updates) <= MaxUpdates
    /\ statusCache \in Statuses \cup {None}
    /\ active \in BOOLEAN
    /\ at \in [Handlers -> Labels]
    /\ status \in [Handlers -> Statuses \cup {None}]
    /\ leaving \in {"idle", "chats", "leave"}
    /\ spared \in BOOLEAN
    /\ overtaken \in [Handlers -> BOOLEAN]
    /\ clean \in BOOLEAN
    /\ muted \in BOOLEAN

Init ==
    /\ where = "left"
    /\ updates = <<>>
    /\ statusCache = None
    /\ active = FALSE
    /\ at = [h \in Handlers |-> "idle"]
    /\ status = [h \in Handlers |-> None]
    /\ leaving = "idle"
    /\ spared = FALSE
    /\ overtaken = [h \in Handlers |-> FALSE]
    /\ clean = TRUE
    /\ muted = FALSE

-----------------------------------------------------------------------------
(* Telegram.                                                               *)

InChat(s) == s \in {"member", "administrator", "restricted"}

(* getStatusFromParticipant: whoever has left has left.                    *)
StatusOf(s) == IF s = "banned" THEN "left" ELSE s

(* The standing changes, and the bot is told.                              *)
Becomes(s) ==
    /\ Len(updates) < MaxUpdates
    /\ where' = s
    /\ updates' = Append(updates, [old |-> StatusOf(where), new |-> StatusOf(s), at |-> "sent"])
    /\ muted' = (muted \/ s = "restricted")

(* What the chat's administrators can make of a standing.                  *)
Choices(s) ==
    IF s \in {"banned", "kicked"}
    THEN {"left"}
    ELSE Standings \ (IF s = "member" THEN {s} ELSE {s, "administrator"})

Change ==
    /\ \E s \in Choices(where) : Becomes(s)
    /\ UNCHANGED <<statusCache, active, joining, leaveAll, overtaken, clean>>

(* Two hours have passed since the last Set.                               *)
Expire ==
    /\ statusCache # None /\ statusCache' = None
    /\ UNCHANGED <<where, updates, active, joining, leaveAll, history>>

(* The song ends, or /stop.                                                *)
Ended ==
    /\ active /\ active' = FALSE
    /\ UNCHANGED <<where, updates, statusCache, joining, leaveAll, history>>

-----------------------------------------------------------------------------
(* Updates of the participant.                                             *)

Present(s) == s \in {"member", "administrator"}

Joins(u) == u.old = "left" /\ Present(u.new)
Leaves(u) == Present(u.old) /\ u.new = "left"
Bans(u) == u.new = "kicked" /\ ~Joins(u) /\ ~Leaves(u)
Unbans(u) == u.old = "kicked" /\ u.new = "left"
Promotes(u) == (u.old = "administrator") # (u.new = "administrator")

(* Mutant: leaving does not end the chat's songs.                          *)
EndsWithBan(u) == Bans(u)

(* handleLeave and handleBan end the chat's songs before all else.         *)
Ends(u) == Leaves(u) \/ Bans(u)

(* Mutant: leaving is not noted.                                           *)
NotesJoins(u) == Joins(u) \/ Bans(u) \/ Unbans(u) \/ Promotes(u)

(* handleParticipantStatusChange: what is neither of these is ignored.     *)
Notes(u) == Joins(u) \/ Leaves(u) \/ Bans(u) \/ Unbans(u) \/ Promotes(u)

(* Of an update that is done nothing is kept.                              *)
Done == [old |-> "left", new |-> "left", at |-> "done"]

(* An update is looked at, when the ones before it are done or not.  A ban *)
(* is told to the chat, and not noted if that fails.                       *)
Update(i) ==
    LET u == updates[i]
    IN /\ u.at = "sent"
       /\ active' = (active /\ ~Ends(u))
       /\ \E l \in {"cache", "done"} :
             /\ updates' = [updates EXCEPT ![i] = IF l = "done" THEN Done ELSE [u EXCEPT !.at = l]]
             /\ l = "cache" => Notes(u)
             /\ l = "done" => ~Notes(u) \/ (Bans(u) /\ "error" \in Faults)
             /\ clean' = (/\ clean
                          /\ Bans(u) => l = "cache"
                          /\ \A j \in 1..(i - 1) : updates[j].at = "done")
       /\ UNCHANGED <<where, statusCache, joining, leaveAll, overtaken, muted>>

(* updateStatusCache; whoever joins is a member.                           *)
Cache(i) ==
    LET u == updates[i]
    IN /\ u.at = "cache"
       /\ statusCache' = IF Joins(u) THEN "member" ELSE u.new
       /\ updates' = [updates EXCEPT ![i] = Done]
       /\ overtaken' = [h \in Handlers |-> at[h] \in {"store", "member"}]
       /\ UNCHANGED <<where, active, joining, leaveAll, clean, muted>>

-----------------------------------------------------------------------------
(* A song that is asked for: where the chat is active it is queued; else   *)
(* it makes the chat active, and PlayMedia joins.                          *)

Goto(h, l) == at' = [at EXCEPT ![h] = l]

Elsewhere == UNCHANGED <<where, updates, leaveAll, muted>>

(* The chat is active, as far as the handler can see ...                   *)
Request(h) ==
    /\ at[h] = "idle" /\ active
    /\ Goto(h, "queue")
    /\ UNCHANGED <<statusCache, active, status, overtaken, clean>>
    /\ Elsewhere

(* ... and AddSong makes it active again if its songs have ended since;    *)
(* nobody looks if the assistant is there.  So it is with a song that      *)
(* makes the chat active and fails before PlayMedia joins: its message is  *)
(* not sent, or the database does not tell which assistant is to play it.  *)
Enqueue(h) ==
    /\ at[h] = "queue" \/ (at[h] = "idle" /\ "error" \in Faults)
    /\ active' = TRUE
    /\ clean' = (clean /\ (active \/ InChat(where)))
    /\ Goto(h, "idle")
    /\ UNCHANGED <<statusCache, status, overtaken>>
    /\ Elsewhere

Play(h) ==
    /\ at[h] = "idle"
    /\ active' = TRUE
    /\ Goto(h, "check")
    /\ UNCHANGED <<statusCache, status, overtaken, clean>>
    /\ Elsewhere

(* joinAssistant goes by the status.                                       *)
Decide(h, s) ==
    /\ Goto(h, IF Present(s) THEN "joined" ELSE IF s = "left" THEN "link" ELSE "rights")
    /\ status' = [status EXCEPT ![h] = IF Present(s) \/ s = "left" THEN None ELSE s]

(* checkUserStats: the cache, which a handler that has ended the chat's    *)
(* songs may be about to change ...                                        *)
Check(h) ==
    /\ at[h] = "check"
    /\ IF statusCache # None THEN Decide(h, statusCache) ELSE Goto(h, "fetch") /\ UNCHANGED status
    /\ clean' = (clean /\ \A i \in DOMAIN updates : updates[i].at # "cache")
    /\ UNCHANGED <<statusCache, active, overtaken>>
    /\ Elsewhere

(* ... or Telegram; an error counts as left.                               *)
Fetch(h) ==
    /\ at[h] = "fetch"
    /\ \E s \in {StatusOf(where)} \cup (IF where = "banned" THEN {"kicked"} ELSE {})
                                  \cup (IF "error" \in Faults THEN {"left"} ELSE {}) :
          /\ status' = [status EXCEPT ![h] = s]
          /\ clean' = (clean /\ InChat(s) = InChat(where))
    /\ overtaken' = [overtaken EXCEPT ![h] = FALSE]
    /\ Goto(h, "store")
    /\ UNCHANGED <<statusCache, active>>
    /\ Elsewhere

(* What is cached may be older than what an update said meanwhile.         *)
Remember(h, s) ==
    /\ statusCache' = s
    /\ clean' = (clean /\ (overtaken[h] => InChat(s) = InChat(where)))

Store(h) ==
    /\ at[h] = "store"
    /\ Remember(h, status[h])
    /\ Decide(h, status[h])
    /\ UNCHANGED <<active, overtaken>>
    /\ Elsewhere

(* The bot lifts a ban, or a restriction; for whom there is none nothing   *)
(* changes.                                                                *)
Unban(h) ==
    LET banned == status[h] = "kicked"
    IN /\ at[h] = "rights"
       /\ \/ /\ IF banned /\ where \in {"kicked", "banned"} THEN Becomes("left")
                ELSE IF ~banned /\ where = "restricted" THEN Becomes("member")
                ELSE UNCHANGED <<where, updates, muted>>
             /\ Goto(h, IF banned THEN "link" ELSE "joined")
          \/ "error" \in Faults /\ Goto(h, "failed") /\ UNCHANGED <<where, updates, muted>>
       /\ UNCHANGED <<statusCache, active, status, leaveAll, overtaken, clean>>

(* joinUb needs a link, cached or not.                                     *)
Link(h) ==
    /\ at[h] = "link"
    /\ Goto(h, "join") \/ ("error" \in Faults /\ Goto(h, "failed"))
    /\ UNCHANGED <<statusCache, active, status, overtaken, clean>>
    /\ Elsewhere

(* It joins, or it is there already, or its request is granted, which is   *)
(* not noted; who is banned cannot join.                                   *)
Join(h) ==
    /\ at[h] = "join"
    /\ \/ /\ where = "left" /\ Becomes("member")
          /\ Goto(h, "member") \/ Goto(h, "joined")
       \/ InChat(where) /\ Goto(h, "member") /\ UNCHANGED <<where, updates, muted>>
       \/ /\ where \in {"banned", "kicked"} \/ "error" \in Faults
          /\ Goto(h, "failed") /\ UNCHANGED <<where, updates, muted>>
    /\ overtaken' = [overtaken EXCEPT ![h] = FALSE]
    /\ UNCHANGED <<statusCache, active, status, leaveAll, clean>>

Member(h) ==
    /\ at[h] = "member"
    /\ Remember(h, "member")
    /\ Goto(h, "joined")
    /\ UNCHANGED <<active, status, overtaken>>
    /\ Elsewhere

(* The song plays, or PlayMedia clears the chat.                           *)
Return(h) ==
    /\ at[h] \in {"joined", "failed"}
    /\ active' = (active /\ at[h] = "joined")
    /\ Goto(h, "idle")
    /\ status' = [status EXCEPT ![h] = None]
    /\ UNCHANGED <<statusCache, overtaken, clean>>
    /\ Elsewhere

-----------------------------------------------------------------------------
(* /leaveall: the dialogs, then the active chats, then one by one.         *)

Dialogs ==
    /\ leaving = "idle" /\ InChat(where)
    /\ leaving' = "chats"
    /\ UNCHANGED <<where, updates, statusCache, active, joining, spared, history>>

Chats ==
    /\ leaving = "chats"
    /\ leaving' = "leave"
    /\ spared' = active
    /\ UNCHANGED <<where, updates, statusCache, active, joining, history>>

(* The dialogs have positive numbers and the active chats negative ones:   *)
(* none is skipped.  Who is not in the chat, or must not leave, goes on.   *)
Leave ==
    /\ leaving = "leave"
    /\ leaving' = "idle"
    /\ spared' = FALSE
    /\ \/ InChat(where) /\ Becomes("left")
       \/ (~InChat(where) \/ "error" \in Faults) /\ UNCHANGED <<where, updates, muted>>
    /\ UNCHANGED <<statusCache, active, joining, overtaken, clean>>

-----------------------------------------------------------------------------
Step(h) ==
    \/ Request(h) \/ Enqueue(h)
    \/ Play(h) \/ Check(h) \/ Fetch(h) \/ Store(h) \/ Unban(h)
    \/ Link(h) \/ Join(h) \/ Member(h) \/ Return(h)

Next ==
    \/ Change \/ Expire \/ Ended
    \/ \E i \in DOMAIN updates : Update(i) \/ Cache(i)
    \/ \E h \in Handlers : Step(h)
    \/ Dialogs \/ Chats \/ Leave

Spec == Init /\ [][Next]_vars

-----------------------------------------------------------------------------
(* What is expected.                                                       *)

(* All updates are handled, and nobody is about to cache what it was told. *)
Quiet ==
    /\ \A i \in DOMAIN updates : updates[i].at = "done"
    /\ \A h \in Handlers : at[h] \notin {"store", "member"}

(* When all is quiet the cache says rightly whether the assistant is in    *)
(* the chat; but not after it was restricted, for then leaving and coming  *)
(* back are ignored, nor after a failure, or steps of several updates or   *)
(* of an update and a goroutine in an unlucky order.                       *)
CacheInStep ==
    Quiet /\ clean /\ ~muted /\ statusCache # None => InChat(statusCache) = InChat(where)

(* Then a chat where nobody is about to join is active only with its       *)
(* assistant in it, who may have left, been banned or been taken out by    *)
(* /leaveall while the song was on or began; unless a song was queued just *)
(* after the end of those it was to follow, or failed before the join:     *)
(* neither brings an assistant.                                            *)
ActiveMeansIn ==
    /\ Quiet /\ clean /\ ~muted
    /\ \A h \in Handlers : at[h] = "idle"
    => (active => InChat(where))

(* "Skip if this is an active chat": /leaveall takes the assistant only    *)
(* out of chats that were not active when it looked.                       *)
ActiveSpared == [][spared /\ ~spared' => where' = where]_vars
=============================================================================
