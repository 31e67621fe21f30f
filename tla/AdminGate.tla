----------------------------- MODULE AdminGate -----------------------------
(***************************************************************************)
(* Who may use a command of the bot in a chat: the filters                 *)
(* (src/src/handlers/filters.go), the cached list of the chat's            *)
(* administrators they rely on (src/src/core/cache/admin_cache.go), and    *)
(* what refreshes the list or changes the mode and the authorised users    *)
(* (src/src/handlers/admins.go, auth.go, settings.go, participant.go).     *)
(*                                                                         *)
(* A list is named by the revision of the chat's administrators it shows.  *)
(* A member of Handlers is a goroutine that handles one update at a time;  *)
(* every access to the cache and every request is a step.                  *)
(***************************************************************************)
EXTENDS Naturals, Sequences

CONSTANTS None,        \* nothing cached, nobody, no mode read yet
          Bot,         \* the bot itself
          Handlers,    \* goroutines
          Members,     \* users of the chat
          MaxChanges,  \* bound: changes of administrators, mode, auth_users
          Faults       \* what may fail

(* "error": Telegram refuses a request.                                    *)
FaultKinds == {"error"}

VARIABLES
    admins,      \* who administers the chat: every revision so far
    entry,       \* the cached list: a revision, 0 if it is empty, or None
    mode,        \* the chat's admin_mode or play_mode, see ModeOf
    authorised,  \* its auth_users
    changes,     \* history: changes so far
    at,          \* where a goroutine is,
    job,         \* what it handles,
    held,        \* the list it was sent,
    seen,        \* the mode it has read,
    begun,       \* history: the revision when it began,
    upset,       \* history: has the entry gone or been emptied since?
    excused,     \* history: might the user have passed at some time since?
    reloaded,    \* history: when the last list that was forced was asked for
    apart        \* history: no forced list was overtaken by an older one

chat == <<admins, mode, authorised, changes>>
locals == <<at, job, held, seen>>
history == <<begun, upset, excused, reloaded, apart>>
vars == <<chat, entry, locals, history>>

(* The bot counts as an administrator if it may invite users.              *)
People == Members \cup {Bot}

(* A chat has one mode for /play and one for the other commands.  No       *)
(* filter looks at both, so the model has the one that is looked at.       *)
ModeOf == {"everyone", "admins", "auth"}

ASSUME GateAssumption ==
    /\ MaxChanges \in Nat
    /\ None \notin Nat /\ None \notin ModeOf

(* A command or button behind adminMode or adminModeCB, one behind         *)
(* playMode; a button of the settings; /reload; updates of the bot's own   *)
(* rights.                                                                 *)
Gates == [op : {"admin", "play"}, user : Members]
Jobs == Gates \cup [op : {"setting"}, user : Members]
              \cup [op : {"reload", "promoted", "demoted"}, user : {None}]

Idle == [op |-> "demoted", user |-> None]

Labels == {"idle", "reload", "clear", "look", "fetch", "put", "negate", "mode", "member",
           "authorise", "set", "passed", "refused"}

Revision == 0..(MaxChanges + 1)

TypeOK ==
    /\ admins \in Seq(SUBSET People) /\ Len(admins) \in Revision
    /\ entry \in Revision \cup {None}
    /\ mode \in ModeOf
    /\ authorised \subseteq Members
    /\ changes \in 0..MaxChanges
    /\ at \in [Handlers -> Labels]
    /\ job \in [Handlers -> Jobs]
    /\ held \in [Handlers -> Revision]
    /\ seen \in [Handlers -> ModeOf \cup {None}]
    /\ begun \in [Handlers -> Revision]
    /\ upset \in [Handlers -> BOOLEAN]
    /\ excused \in [Handlers -> BOOLEAN]
    /\ reloaded \in Revision
    /\ apart \in BOOLEAN
    /\ \A h \in Handlers :
          /\ at[h] = "put" => held[h] # 0
          /\ at[h] = "member" => job[h] \in Gates /\ seen[h] \in {"admins", "auth"}
          /\ at[h] = "set" => job[h].op = "setting"

Init ==
    /\ \E s \in SUBSET People : admins = <<s>>
    /\ entry = None
    /\ mode \in ModeOf
    /\ authorised = {}
    /\ changes = 0
    /\ at = [h \in Handlers |-> "idle"]
    /\ job = [h \in Handlers |-> Idle]
    /\ held = [h \in Handlers |-> 0]
    /\ seen = [h \in Handlers |-> None]
    /\ begun = [h \in Handlers |-> 0]
    /\ upset = [h \in Handlers |-> FALSE]
    /\ excused = [h \in Handlers |-> FALSE]
    /\ reloaded = 0
    /\ apart = TRUE

-----------------------------------------------------------------------------
(* The people in list r.                                                   *)
Listed(r) == IF r \in {0, None} THEN {} ELSE admins[r]

Goto(h, l) == at' = [at EXCEPT ![h] = l] /\ UNCHANGED <<held, seen>>

(* The handler is done; what it found out is forgotten.                    *)
Verdict(h, pass) ==
    /\ at' = [at EXCEPT ![h] = IF pass THEN "passed" ELSE "refused"]
    /\ held' = [held EXCEPT ![h] = 0]
    /\ seen' = [seen EXCEPT ![h] = None]

Return(h) ==
    /\ at[h] \in {"passed", "refused"}
    /\ Goto(h, "idle")
    /\ job' = [job EXCEPT ![h] = Idle]
    /\ begun' = [begun EXCEPT ![h] = 0]
    /\ upset' = [upset EXCEPT ![h] = FALSE]
    /\ excused' = [excused EXCEPT ![h] = FALSE]
    /\ UNCHANGED <<chat, entry, reloaded, apart>>

(* The list is lost for all who are at it.                                 *)
Upset == upset' = [h \in Handlers |-> at[h] # "idle" /\ job[h] \in Gates]

(* A user for whom nobody needs a list.                                    *)
Free(u, m, auth) == m = "everyone" \/ u \in auth

(* Who forces GetAdmins to ask Telegram.                                   *)
Forced(h) == job[h].op \in {"reload", "promoted"}

Counted == changes < MaxChanges /\ changes' = changes + 1

(* Somebody is promoted or demoted.                                        *)
Change ==
    /\ Counted
    /\ \E p \in People :
          LET last == admins[Len(admins)]
          IN admins' = Append(admins, IF p \in last THEN last \ {p} ELSE last \cup {p})
    /\ UNCHANGED <<entry, mode, authorised, locals, history>>

(* An hour has passed since the last Set, or 20 minutes if it was an empty *)
(* list.                                                                   *)
Expire ==
    /\ entry # None /\ entry' = None
    /\ Upset
    /\ UNCHANGED <<chat, locals, begun, excused, reloaded, apart>>

(* An update is handled.  That /reload is refused for three minutes after  *)
(* it was used is left out: how long things take is not in the model.      *)
Call(h) ==
    /\ at[h] = "idle"
    /\ \E j \in Jobs :
          /\ job' = [job EXCEPT ![h] = j]
          /\ Goto(h, CASE j.op = "reload" -> "reload"
                       [] j.op = "demoted" -> "clear"
                       [] j.op = "promoted" -> "fetch"
                       [] OTHER -> "look")
          /\ begun' = [begun EXCEPT ![h] = IF j.op \in {"reload", "promoted"} THEN Len(admins) ELSE 0]
          /\ upset' = [upset EXCEPT ![h] = j \in Gates /\ entry = 0]
          /\ excused' = [excused EXCEPT ![h] = j \in Gates /\ Free(j.user, mode, authorised)]
    /\ UNCHANGED <<chat, entry, reloaded, apart>>

-----------------------------------------------------------------------------
(* /reload, and the bot's own rights.                                      *)

(* /reload says that it begins.                                            *)
Reload(h) ==
    /\ at[h] = "reload"
    /\ \/ Goto(h, "clear")
       \/ "error" \in Faults /\ Verdict(h, FALSE)
    /\ UNCHANGED <<chat, entry, job, history>>

(* ClearAdminCache, by /reload or because the bot was demoted.             *)
Clear(h) ==
    /\ at[h] = "clear"
    /\ entry' = None
    /\ Upset
    /\ IF job[h].op = "reload" THEN Goto(h, "fetch") ELSE Verdict(h, TRUE)
    /\ UNCHANGED <<chat, job, begun, excused, reloaded, apart>>

-----------------------------------------------------------------------------
(* GetAdmins.                                                              *)

(* Mutant: the mode is not read.                                           *)
BotOnly(h, r) == IF Bot \in Listed(r) THEN Goto(h, "member") ELSE Verdict(h, FALSE)

(* adminMode, adminModeCB and playMode first look for the bot.             *)
BotGot(h, r) == IF Bot \in Listed(r) THEN Goto(h, "mode") ELSE Verdict(h, FALSE)

(* playMode, unless the mode is "everyone", then looks for the user.       *)
UserGot(h, r) ==
    IF job[h].user \notin Listed(r) /\ seen[h] = "auth"
    THEN Goto(h, "member")
    ELSE Verdict(h, job[h].user \in Listed(r))

(* The settings want an administrator who may manage calls.                *)
SettingGot(h, r) ==
    \/ job[h].user \in Listed(r) /\ Goto(h, "set")
    \/ Verdict(h, FALSE)

Got(h, r) ==
    \/ job[h] \in Gates /\ IF seen[h] = None THEN BotGot(h, r) ELSE UserGot(h, r)
    \/ job[h].op = "setting" /\ SettingGot(h, r)
    \/ Forced(h) /\ Verdict(h, TRUE)

(* The cache first ...                                                     *)
Look(h) ==
    /\ at[h] = "look"
    /\ IF entry # None THEN Got(h, entry) ELSE Goto(h, "fetch")
    /\ UNCHANGED <<chat, entry, job, history>>

(* ... then Telegram.  An error is final for those who asked GetAdmins;    *)
(* GetUserAdmin, where the filters look for the bot, caches an empty list. *)
Fetch(h) ==
    /\ at[h] = "fetch"
    /\ \/ /\ at' = [at EXCEPT ![h] = "put"]
          /\ held' = [held EXCEPT ![h] = Len(admins)]
          /\ UNCHANGED <<seen, upset>>
       \/ /\ "error" \in Faults
          /\ IF job[h] \in Gates /\ seen[h] = None THEN Goto(h, "negate") ELSE Verdict(h, FALSE)
          /\ upset' = [upset EXCEPT ![h] = job[h] \in Gates]
    /\ UNCHANGED <<chat, entry, job, begun, excused, reloaded, apart>>

(* Mutant: an answer does not replace what is cached.                      *)
PutUnlessCached(h) ==
    /\ at[h] = "put"
    /\ entry' = IF entry = None THEN held[h] ELSE entry
    /\ Got(h, held[h])
    /\ reloaded' = IF Forced(h) THEN begun[h] ELSE reloaded
    /\ UNCHANGED <<chat, job, begun, upset, excused, apart>>

(* The answer goes into the cache, whatever is there by now.               *)
Put(h) ==
    /\ at[h] = "put"
    /\ entry' = held[h]
    /\ Got(h, held[h])
    /\ reloaded' = IF Forced(h) THEN begun[h] ELSE reloaded
    /\ apart' = (apart /\ (Forced(h) => \A g \in Handlers \ {h} : at[g] # "put"))
    /\ UNCHANGED <<chat, job, begun, upset, excused>>

(* The empty list replaces also a list that another was sent meanwhile.    *)
Negate(h) ==
    /\ at[h] = "negate"
    /\ entry' = 0
    /\ Upset
    /\ Verdict(h, FALSE)
    /\ UNCHANGED <<chat, job, begun, excused, reloaded, apart>>

-----------------------------------------------------------------------------
(* The filters, once the bot was found in the list.                        *)

(* A command that was let through.                                         *)
Through(h) == IF job[h].op = "admin" THEN Goto(h, "authorise") ELSE Verdict(h, TRUE)

(* For "everyone" this was all; playMode calls GetAdmins again.            *)
Mode(h) ==
    /\ at[h] = "mode"
    /\ IF mode = "everyone"
       THEN Through(h)
       ELSE /\ at' = [at EXCEPT ![h] = IF job[h].op = "play" THEN "look" ELSE "member"]
            /\ seen' = [seen EXCEPT ![h] = mode]
            /\ UNCHANGED held
    /\ UNCHANGED <<chat, entry, job, history>>

(* Mutant: in mode "auth" the administrators do not count.                 *)
MemberAuthorised(h) ==
    /\ at[h] = "member"
    /\ IF job[h].user \in (IF seen[h] = "auth" THEN authorised ELSE Listed(entry))
       THEN Through(h)
       ELSE Verdict(h, FALSE)
    /\ UNCHANGED <<chat, entry, job, history>>

(* Mutant: without a list the user is let through.                         *)
MemberUnknown(h) ==
    /\ at[h] = "member"
    /\ IF entry = None \/ job[h].user \in Listed(entry) THEN Through(h) ELSE Verdict(h, FALSE)
    /\ UNCHANGED <<chat, entry, job, history>>

(* IsAdmin and IsAuthUser look into the cache only: without an entry there *)
(* are no administrators.                                                  *)
Member(h) ==
    /\ at[h] = "member"
    /\ IF \/ job[h].user \in Listed(entry)
          \/ seen[h] = "auth" /\ job[h].user \in authorised
       THEN Through(h)
       ELSE Verdict(h, FALSE)
    /\ UNCHANGED <<chat, entry, job, history>>

-----------------------------------------------------------------------------
(* What handlers change.                                                   *)

Excuse == excused' = [h \in Handlers |->
    excused[h] \/ (job[h] \in Gates /\ Free(job[h].user, mode', authorised'))]

(* /addauth and /removeauth, of somebody else, or a command that changes   *)
(* nothing of this.                                                        *)
Authorise(h) ==
    /\ at[h] = "authorise"
    /\ \/ /\ Counted
          /\ \E u \in Members \ {job[h].user} : authorised' \in {authorised \cup {u}, authorised \ {u}}
          /\ UNCHANGED <<admins, mode>>
       \/ UNCHANGED chat
    /\ Excuse
    /\ Verdict(h, TRUE)
    /\ UNCHANGED <<entry, job, begun, upset, reloaded, apart>>

(* A button of the settings.                                               *)
Set(h) ==
    /\ at[h] = "set"
    /\ \/ Counted /\ mode' \in ModeOf \ {mode} /\ UNCHANGED <<admins, authorised>>
       \/ UNCHANGED chat
    /\ Excuse
    /\ Verdict(h, TRUE)
    /\ UNCHANGED <<entry, job, begun, upset, reloaded, apart>>

-----------------------------------------------------------------------------
Step(h) ==
    \/ Reload(h) \/ Clear(h)
    \/ Look(h) \/ Fetch(h) \/ Put(h) \/ Negate(h)
    \/ Mode(h) \/ Member(h) \/ Authorise(h) \/ Set(h) \/ Return(h)

Next == Change \/ Expire \/ \E h \in Handlers : Call(h) \/ Step(h)

Spec == Init /\ [][Next]_vars

-----------------------------------------------------------------------------
(* What is expected.                                                       *)

Always(p) == \A r \in DOMAIN admins : p \in admins[r]

Never(p) == \A r \in DOMAIN admins : p \notin admins[r]

(* A list older than the last /reload, or than the bot's promotion, is not *)
(* used again, unless it was on its way when the new one came: a demoted   *)
(* administrator cannot be shut out more surely than that.                 *)
ReloadLasts == apart /\ entry \notin {None, 0} => entry >= reloaded

(* In a chat where the bot and a user have always been administrators the  *)
(* user is let through, whatever the mode is and however it changes; but   *)
(* not if the list is lost while the filter is at it, since it looks       *)
(* twice, nor for 20 minutes after an error.                               *)
AdminsPass ==
    \A h \in Handlers :
        at[h] = "refused" /\ job[h] \in Gates /\ ~upset[h] =>
            ~Always(job[h].user) \/ ~Always(Bot)

(* Who never was an administrator passes only if the mode was "everyone"   *)
(* or the user authorised at some time while the filter was at it; and no  *)
(* such user changes the settings.                                         *)
StrangersRefused ==
    \A h \in Handlers :
        at[h] \in {"passed", "authorise", "set"} /\ job[h].user # None =>
            \/ ~Never(job[h].user)
            \/ job[h] \in Gates /\ excused[h]
=============================================================================
