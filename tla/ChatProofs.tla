----------------------------- MODULE ChatProofs -----------------------------
(***************************************************************************)
(* Proofs about the parts of MCChat: the assistant's membership of a chat, *)
(* for all goroutines and bounds; the videos of a call, for all            *)
(* participants, kinds of video and bounds; and that a run of MCChat is    *)
(* one of each part.                                                       *)
(***************************************************************************)
EXTENDS MCChat, PlaylistProofs

-----------------------------------------------------------------------------
(* The assistant's membership.                                             *)

MemberUpdate == [old : Assistant!Statuses, new : Assistant!Statuses, at : Assistant!UpdateLabels]

LEMMA StatusNames ==
    /\ None \notin Assistant!Statuses
    /\ \A s \in Assistant!Standings : Assistant!StatusOf(s) \in Assistant!Statuses
    /\ \A s \in Assistant!Standings \ {"restricted"} :
          /\ Assistant!StatusOf(s) # "restricted"
          /\ Assistant!InChat(Assistant!StatusOf(s)) = Assistant!InChat(s)
    /\ MaxUpdates \in Nat
  BY ChatAssumption
     DEF ChatAssumption, Assistant!Statuses, Assistant!Standings, Assistant!StatusOf, Assistant!InChat

LEMMA MemberUpdates ==
    ASSUME Assistant!TypeOK
    PROVE  /\ updates \in Seq(MemberUpdate) /\ Len(updates) \in Nat /\ Len(updates) <= MaxUpdates
           /\ DOMAIN updates = 1..Len(updates)
           /\ \A i \in DOMAIN updates : updates[i] \in MemberUpdate
  BY LenProperties, ElementOfSeq DEF Assistant!TypeOK, MemberUpdate

(* An update moves on.                                                     *)
LEMMA UpdateMoves ==
    ASSUME Assistant!TypeOK, NEW i \in DOMAIN updates, NEW u \in MemberUpdate,
           updates' = [updates EXCEPT ![i] = u]
    PROVE  /\ updates' \in Seq(MemberUpdate) /\ Len(updates') <= MaxUpdates
           /\ DOMAIN updates' = DOMAIN updates /\ updates'[i] = u
           /\ \A j \in DOMAIN updates : j # i => updates'[j] = updates[j]
<1>1. updates \in Seq(MemberUpdate) /\ i \in 1..Len(updates) /\ Len(updates) <= MaxUpdates
  BY MemberUpdates
<1>2. updates' \in Seq(MemberUpdate) /\ Len(updates') = Len(updates)
  BY <1>1, ExceptSeq
<1> QED
  BY <1>1, <1>2, LenProperties

(* A change of the standing sends one more.                                *)
LEMMA UpdateSent ==
    ASSUME Assistant!TypeOK, NEW s \in Assistant!Standings, Assistant!Becomes(s)
    PROVE  LET n == Len(updates) + 1
               u == [old |-> Assistant!StatusOf(where), new |-> Assistant!StatusOf(s), at |-> "sent"]
           IN  /\ updates' \in Seq(MemberUpdate) /\ Len(updates') <= MaxUpdates
               /\ n \notin DOMAIN updates /\ DOMAIN updates' = DOMAIN updates \cup {n}
               /\ updates'[n] = u /\ where' = s /\ muted' = (muted \/ s = "restricted")
               /\ \A i \in DOMAIN updates : i < n /\ updates'[i] = updates[i]
<1> DEFINE n == Len(updates) + 1
           u == [old |-> Assistant!StatusOf(where), new |-> Assistant!StatusOf(s), at |-> "sent"]
<1>1. updates \in Seq(MemberUpdate) /\ Len(updates) \in Nat /\ DOMAIN updates = 1..Len(updates)
  BY MemberUpdates
<1>2. u \in MemberUpdate
  BY StatusNames DEF Assistant!TypeOK, MemberUpdate, Assistant!UpdateLabels
<1>3. /\ updates' = Append(updates, u) /\ Len(updates) < MaxUpdates
      /\ where' = s /\ muted' = (muted \/ s = "restricted")
  BY DEF Assistant!Becomes
<1> HIDE DEF u
<1>4. /\ updates' \in Seq(MemberUpdate) /\ Len(updates') = n
      /\ \A i \in 1..Len(updates) : updates'[i] = updates[i]
      /\ updates'[n] = u
  BY <1>1, <1>2, <1>3, AppendProperties
<1>5. DOMAIN updates' = 1..n /\ Len(updates') <= MaxUpdates
  BY <1>1, <1>3, <1>4, LenProperties, StatusNames
<1> QED
  BY <1>1, <1>3, <1>4, <1>5 DEF u

-----------------------------------------------------------------------------
(* Where the updates are what they were, or one more is sent.              *)
LEMMA StandingTypes ==
    ASSUME Assistant!TypeOK,
           UNCHANGED <<where, updates, muted>> \/
               \E s \in Assistant!Standings : Assistant!Becomes(s)
    PROVE  /\ where' \in Assistant!Standings /\ muted' \in BOOLEAN
           /\ updates' \in Seq(MemberUpdate) /\ Len(updates') <= MaxUpdates
<1>1. CASE UNCHANGED <<where, updates, muted>>
  BY <1>1 DEF Assistant!TypeOK, MemberUpdate
<1>2. CASE \E s \in Assistant!Standings : Assistant!Becomes(s)
  <2>1. PICK s \in Assistant!Standings : Assistant!Becomes(s)
    BY <1>2
  <2> QED
    BY <2>1, UpdateSent DEF Assistant!TypeOK
<1> QED
  BY <1>1, <1>2

LEMMA UpdateTypes ==
    ASSUME Assistant!TypeOK, NEW i \in DOMAIN updates,
           Assistant!Update(i) \/ Assistant!Cache(i)
    PROVE  Assistant!TypeOK'
<1>1. updates[i] \in MemberUpdate
  BY MemberUpdates
<1>2. Assistant!Done \in MemberUpdate
  BY DEF Assistant!Done, MemberUpdate, Assistant!Statuses, Assistant!UpdateLabels
<1>3. CASE Assistant!Update(i)
  <2> DEFINE u == updates[i]
  <2>1. PICK l \in {"cache", "done"} :
            /\ updates' = [updates EXCEPT ![i] = IF l = "done" THEN Assistant!Done
                                                               ELSE [u EXCEPT !.at = l]]
            /\ memberClean' \in BOOLEAN
    BY <1>3 DEF Assistant!Update
  <2>2. [u EXCEPT !.at = "cache"] \in MemberUpdate
    BY <1>1 DEF MemberUpdate, Assistant!UpdateLabels
  <2>3. updates' \in Seq(MemberUpdate) /\ Len(updates') <= MaxUpdates
    BY <1>2, <2>1, <2>2, UpdateMoves
  <2> QED
    BY <1>3, <2>1, <2>3
       DEF Assistant!Update, Assistant!TypeOK, MemberUpdate, Assistant!joining, Assistant!leaveAll
<1>4. CASE Assistant!Cache(i)
  <2>1. updates' \in Seq(MemberUpdate) /\ Len(updates') <= MaxUpdates
    BY <1>2, <1>4, UpdateMoves DEF Assistant!Cache
  <2>2. statusCache' \in Assistant!Statuses
    BY <1>1, <1>4 DEF Assistant!Cache, MemberUpdate, Assistant!Statuses
  <2> QED
    BY <1>4, <2>1, <2>2
       DEF Assistant!Cache, Assistant!TypeOK, MemberUpdate, Assistant!joining, Assistant!leaveAll
<1> QED
  BY <1>3, <1>4

LEMMA GotoTypes ==
    ASSUME Assistant!TypeOK, NEW h \in Handlers, NEW l \in Assistant!Labels, Assistant!Goto(h, l)
    PROVE  /\ memberAt' \in [Handlers -> Assistant!Labels]
           /\ memberAt'[h] = l /\ \A g \in Handlers : g # h => memberAt'[g] = memberAt[g]
  BY DEF Assistant!Goto, Assistant!TypeOK

LEMMA StepTypes ==
    ASSUME Assistant!TypeOK, NEW h \in Handlers, Assistant!Step(h)
    PROVE  Assistant!TypeOK'
<1>1. \/ UNCHANGED <<where, updates, muted>>
      \/ \E s \in Assistant!Standings : Assistant!Becomes(s)
  <2>1. {"left", "member"} \subseteq Assistant!Standings
    BY DEF Assistant!Standings, Assistant!Statuses
  <2> QED
    BY <2>1
       DEF Assistant!Step, Assistant!Request, Assistant!Enqueue, Assistant!Play,
           Assistant!Check, Assistant!Fetch, Assistant!Store,
           Assistant!Unban, Assistant!Link, Assistant!Join, Assistant!Member, Assistant!Return,
           Assistant!Elsewhere
<1>2. \E l \in Assistant!Labels : Assistant!Goto(h, l)
  BY DEF Assistant!Step, Assistant!Request, Assistant!Enqueue, Assistant!Play,
         Assistant!Check, Assistant!Fetch, Assistant!Store,
         Assistant!Unban, Assistant!Link, Assistant!Join, Assistant!Member, Assistant!Return,
         Assistant!Decide, Assistant!Labels
<1>3. status' \in [Handlers -> Assistant!Statuses \cup {None}]
  <2>1. \/ status' = status
        \/ \E s \in Assistant!Statuses \cup {None} : status' = [status EXCEPT ![h] = s]
    <3>1. CASE Assistant!Fetch(h)
      BY <3>1, StatusNames
         DEF Assistant!Fetch, Assistant!TypeOK, Assistant!Statuses
    <3>2. CASE Assistant!Check(h) \/ Assistant!Store(h)
      BY <3>2 DEF Assistant!Check, Assistant!Store, Assistant!Decide, Assistant!TypeOK
    <3> QED
      BY <3>1, <3>2
         DEF Assistant!Step, Assistant!Request, Assistant!Enqueue, Assistant!Play,
             Assistant!Unban, Assistant!Link, Assistant!Join,
             Assistant!Member, Assistant!Return
  <2> QED
    BY <2>1 DEF Assistant!TypeOK
<1>4. statusCache' \in Assistant!Statuses \cup {None}
  BY DEF Assistant!Step, Assistant!Request, Assistant!Enqueue, Assistant!Play,
         Assistant!Check, Assistant!Fetch, Assistant!Store,
         Assistant!Unban, Assistant!Link, Assistant!Join, Assistant!Member, Assistant!Return,
         Assistant!Remember, Assistant!TypeOK, Assistant!Statuses
<1>5. active' \in BOOLEAN /\ memberClean' \in BOOLEAN
  BY DEF Assistant!Step, Assistant!Request, Assistant!Enqueue, Assistant!Play,
         Assistant!Check, Assistant!Fetch, Assistant!Store,
         Assistant!Unban, Assistant!Link, Assistant!Join, Assistant!Member, Assistant!Return,
         Assistant!Remember, Assistant!TypeOK
<1>6. overtaken' \in [Handlers -> BOOLEAN]
  BY DEF Assistant!Step, Assistant!Request, Assistant!Enqueue, Assistant!Play,
         Assistant!Check, Assistant!Fetch, Assistant!Store,
         Assistant!Unban, Assistant!Link, Assistant!Join, Assistant!Member, Assistant!Return,
         Assistant!TypeOK
<1>7. UNCHANGED <<leaving, spared>>
  BY DEF Assistant!Step, Assistant!Request, Assistant!Enqueue, Assistant!Play,
         Assistant!Check, Assistant!Fetch, Assistant!Store,
         Assistant!Unban, Assistant!Link, Assistant!Join, Assistant!Member, Assistant!Return,
         Assistant!Elsewhere, Assistant!leaveAll
<1>8. /\ where' \in Assistant!Standings /\ muted' \in BOOLEAN
      /\ updates' \in Seq(MemberUpdate) /\ Len(updates') <= MaxUpdates
  BY <1>1, StandingTypes
<1>9. memberAt' \in [Handlers -> Assistant!Labels]
  BY <1>2, GotoTypes
<1> QED
  BY <1>3, <1>4, <1>5, <1>6, <1>7, <1>8, <1>9 DEF Assistant!TypeOK, MemberUpdate

LEMMA MemberTypes ==
    ASSUME Assistant!TypeOK, [Assistant!Next]_(Assistant!vars)
    PROVE  Assistant!TypeOK'
<1>1. CASE UNCHANGED Assistant!vars
  BY <1>1 DEF Assistant!vars, Assistant!joining, Assistant!leaveAll, Assistant!history, Assistant!TypeOK
<1>2. CASE \/ Assistant!Change \/ Assistant!Expire \/ Assistant!Ended
           \/ Assistant!Dialogs \/ Assistant!Chats \/ Assistant!Leave
  <2>1. \/ UNCHANGED <<where, updates, muted>>
        \/ \E s \in Assistant!Standings : Assistant!Becomes(s)
    BY <1>2
       DEF Assistant!Change, Assistant!Choices, Assistant!Expire, Assistant!Ended, Assistant!Dialogs,
           Assistant!Chats, Assistant!Leave, Assistant!history, Assistant!Standings, Assistant!Statuses
  <2>2. /\ where' \in Assistant!Standings /\ muted' \in BOOLEAN
        /\ updates' \in Seq(MemberUpdate) /\ Len(updates') <= MaxUpdates
    BY <2>1, StandingTypes
  <2>3. UNCHANGED <<memberAt, status, overtaken, memberClean>>
    BY <1>2
       DEF Assistant!Change, Assistant!Expire, Assistant!Ended, Assistant!Dialogs,
           Assistant!Chats, Assistant!Leave, Assistant!history, Assistant!joining
  <2>4. /\ statusCache' \in {statusCache, None} /\ active' \in BOOLEAN /\ spared' \in BOOLEAN
        /\ leaving' \in {"idle", "chats", "leave"}
    BY <1>2
       DEF Assistant!Change, Assistant!Expire, Assistant!Ended, Assistant!Dialogs,
           Assistant!Chats, Assistant!Leave, Assistant!leaveAll, Assistant!TypeOK
  <2> QED
    BY <2>2, <2>3, <2>4 DEF Assistant!TypeOK, MemberUpdate
<1> QED
  BY <1>1, <1>2, UpdateTypes, StepTypes DEF Assistant!Next
(* Nothing is known of what it means that the assistant was restricted.    *)
Unrestricted ==
    /\ where # "restricted" /\ statusCache # "restricted"
    /\ \A i \in DOMAIN updates : updates[i].old # "restricted" /\ updates[i].new # "restricted"
    /\ \A h \in Handlers :
          /\ status[h] # "restricted"
          /\ memberAt[h] = "store" => status[h] # None
          /\ memberAt[h] = "rights" => status[h] = "kicked"

(* An update is begun when those before it are done.                       *)
InOrder ==
    \A i, j \in DOMAIN updates : i < j /\ updates[j].at # "sent" => updates[i].at = "done"

Pending(i) == updates[i].at # "done"

(* The update is about the assistant's coming or going.                    *)
Moves(i) == Assistant!InChat(updates[i].old) # Assistant!InChat(updates[i].new)
Leaving(i) == Assistant!InChat(updates[i].old) /\ ~Assistant!InChat(updates[i].new)

(* It will be cached, and tells what is the case.                          *)
Leads(i) ==
    Pending(i) /\ Moves(i) /\ Assistant!InChat(updates[i].new) = Assistant!InChat(where)

(* An update that tells something else has one behind it that puts it      *)
(* right, and what is about coming and going is noted.                     *)
Chained ==
    \A i \in DOMAIN updates : Pending(i) =>
        /\ \/ Assistant!InChat(updates[i].new) = Assistant!InChat(where)
           \/ \E j \in DOMAIN updates : j > i /\ Leads(j)
        /\ Moves(i) \/ updates[i].at = "cache" => Assistant!Notes(updates[i])

(* Whoever thinks that the assistant is in the chat, or not, is right or   *)
(* will hear of it.                                                        *)
Right(in) == in = Assistant!InChat(where) \/ \E i \in DOMAIN updates : Leads(i)

Told ==
    /\ statusCache # None => Right(Assistant!InChat(statusCache))
    /\ \A h \in Handlers : ~overtaken[h] =>
          /\ memberAt[h] = "store" => Right(Assistant!InChat(status[h]))
          /\ memberAt[h] = "member" => Right(TRUE)

(* A song goes on without the assistant only until the update that tells   *)
(* of it, or until a goroutine that plays has got it in or given up; and   *)
(* then, if it began while that update was handled, the goroutine is yet   *)
(* to look at the cache.                                                   *)
InOrLeaving ==
    \/ Assistant!InChat(where)
    \/ \E i \in DOMAIN updates : updates[i].at = "sent" /\ Leaving(i)

Late(i) == updates[i].at = "cache" /\ Leaving(i)

Joining(h) == memberAt[h] \notin {"idle", "queue", "joined"}

SongEnds ==
    active =>
        \/ InOrLeaving
        \/ /\ \E h \in Handlers : Joining(h)
           /\ \A i \in DOMAIN updates : Late(i) => \E h \in Handlers : memberAt[h] = "check"

MemberSafe == Unrestricted /\ InOrder /\ Chained /\ Told /\ SongEnds

MemberInv == Assistant!TypeOK /\ (memberClean /\ ~muted => MemberSafe)

-----------------------------------------------------------------------------
(* One more update: who is right so far stays right or hears of the        *)
(* change.                                                                 *)
LEMMA SentKeeps ==
    ASSUME Assistant!TypeOK, InOrder, Chained, where # "restricted",
           NEW s \in Assistant!Standings \ {"restricted"}, Assistant!Becomes(s),
           where = "kicked" => s = "left"
    PROVE  /\ InOrder' /\ Chained'
           /\ \A in \in BOOLEAN : Right(in) => Right(in)'
           /\ InOrLeaving => InOrLeaving'
           /\ \A i \in DOMAIN updates : i \in DOMAIN updates' /\ updates'[i] = updates[i]
           /\ \A i \in DOMAIN updates' : updates'[i].at = "sent" \/ (i \in DOMAIN updates /\ updates'[i] = updates[i])
           /\ (\A i \in DOMAIN updates : updates[i].old # "restricted" /\ updates[i].new # "restricted")
              => (\A i \in DOMAIN updates' : updates'[i].old # "restricted" /\ updates'[i].new # "restricted")
<1> DEFINE In(x) == Assistant!InChat(x)
<1>0. PICK n \in Nat : n = Len(updates) + 1
  BY MemberUpdates
<1>1. /\ n \notin DOMAIN updates /\ DOMAIN updates' = DOMAIN updates \cup {n}
      /\ where' = s
      /\ \A i \in DOMAIN updates : i \in Nat /\ i < n /\ updates'[i] = updates[i]
  <2>1. \A i \in DOMAIN updates : i \in Nat
    BY MemberUpdates
  <2> QED
    BY <1>0, <2>1, UpdateSent
<1>2. updates'[n] = [old |-> Assistant!StatusOf(where), new |-> Assistant!StatusOf(s), at |-> "sent"]
  BY <1>0, UpdateSent
<1>3. /\ updates'[n].at = "sent" /\ updates'[n].old # "restricted" /\ updates'[n].new # "restricted"
      /\ In(updates'[n].old) = In(where) /\ In(updates'[n].new) = In(where')
  BY <1>1, <1>2, StatusNames DEF Assistant!TypeOK
<1>4. updates'[n].old \in Assistant!Statuses /\ updates'[n].new \in Assistant!Statuses
  BY <1>2, StatusNames DEF Assistant!TypeOK
<1>5. Moves(n)' => Assistant!Notes(updates'[n])
  <2>1. updates'[n].old = "kicked" => updates'[n].new = "left"
    BY <1>2 DEF Assistant!StatusOf
  <2> QED
    BY <1>3, <1>4, <2>1
       DEF Moves, Assistant!InChat, Assistant!Notes, Assistant!Joins, Assistant!Leaves, Assistant!Bans,
           Assistant!Unbans, Assistant!Promotes, Assistant!Present, Assistant!Statuses
<1>6. Moves(n)' = (In(where) # In(where')) /\ Leaving(n)' = (In(where) /\ ~In(where'))
  BY <1>3 DEF Moves, Leaving
<1>7. InOrder'
  BY <1>1, <1>3 DEF InOrder
<1>8. In(where) # In(where') => Leads(n)'
  BY <1>3, <1>6 DEF Leads, Pending
<1>9. In(where) = In(where') => \A i \in DOMAIN updates : Leads(i) => Leads(i)'
  BY <1>1 DEF Leads, Pending, Moves
<1>10. Chained'
  <2> SUFFICES ASSUME NEW i \in DOMAIN updates', Pending(i)'
               PROVE  /\ \/ In(updates'[i].new) = In(where')
                         \/ \E j \in DOMAIN updates' : j > i /\ Leads(j)'
                      /\ Moves(i)' \/ updates'[i].at = "cache" => Assistant!Notes(updates'[i])
    BY DEF Chained
  <2>1. CASE i = n
    BY <1>3, <1>5, <2>1
  <2>2. CASE i \in DOMAIN updates
    <3>1. Pending(i) /\ Moves(i)' = Moves(i)
      BY <1>1, <2>2 DEF Pending, Moves
    <3>2. /\ In(updates[i].new) = In(where) \/ \E j \in DOMAIN updates : j > i /\ Leads(j)
          /\ Moves(i) \/ updates[i].at = "cache" => Assistant!Notes(updates[i])
      BY <2>2, <3>1 DEF Chained
    <3>3. In(where) # In(where') => n > i /\ Leads(n)'
      BY <1>1, <1>8, <2>2
    <3> QED
      BY <1>1, <1>9, <2>2, <3>1, <3>2, <3>3
  <2> QED
    BY <1>1, <2>1, <2>2
<1>11. \A in \in BOOLEAN : Right(in) => Right(in)'
  BY <1>1, <1>8, <1>9 DEF Right, Assistant!InChat
<1>12. InOrLeaving => InOrLeaving'
  <2>1. In(where) => In(where') \/ (updates'[n].at = "sent" /\ Leaving(n)')
    BY <1>3, <1>6
  <2>2. \A i \in DOMAIN updates : updates[i].at = "sent" /\ Leaving(i) =>
           updates'[i].at = "sent" /\ Leaving(i)'
    BY <1>1 DEF Leaving
  <2> QED
    BY <1>1, <2>1, <2>2 DEF InOrLeaving
<1> QED
  BY <1>1, <1>3, <1>7, <1>10, <1>11, <1>12
(* The same if there may or may not be one more.                           *)
LEMMA StandingKeeps ==
    ASSUME Assistant!TypeOK, MemberSafe, ~muted',
           \/ UNCHANGED <<where, updates, muted>>
           \/ \E s \in Assistant!Standings :
                 Assistant!Becomes(s) /\ (where = "kicked" => s = "left")
    PROVE  /\ InOrder' /\ Chained' /\ where' # "restricted"
           /\ \A in \in BOOLEAN : Right(in) => Right(in)'
           /\ InOrLeaving => InOrLeaving'
           /\ \A i \in DOMAIN updates' : Late(i)' => i \in DOMAIN updates /\ Late(i)
           /\ \A i \in DOMAIN updates' : updates'[i].old # "restricted" /\ updates'[i].new # "restricted"
<1>1. CASE UNCHANGED <<where, updates, muted>>
  BY <1>1
     DEF MemberSafe, Unrestricted, InOrder, Chained, Pending, Moves, Leaving, Leads, Right, InOrLeaving, Late
<1>2. CASE \E s \in Assistant!Standings :
              Assistant!Becomes(s) /\ (where = "kicked" => s = "left")
  <2>1. PICK s \in Assistant!Standings : Assistant!Becomes(s) /\ (where = "kicked" => s = "left")
    BY <1>2
  <2>2. s # "restricted" /\ where' = s
    BY <2>1 DEF Assistant!Becomes
  <2>3. \A i \in DOMAIN updates' : updates'[i].at = "sent" \/ (i \in DOMAIN updates /\ updates'[i] = updates[i])
    BY <2>1, <2>2, SentKeeps DEF MemberSafe, Unrestricted
  <2>4. \A i \in DOMAIN updates' : Late(i)' => i \in DOMAIN updates /\ Late(i)
    BY <2>3 DEF Late, Leaving
  <2> QED
    BY <2>1, <2>2, <2>4, SentKeeps DEF MemberSafe, Unrestricted
<1> QED
  BY <1>1, <1>2

(* Steps that are neither an update's nor a goroutine's.                   *)
LEMMA OtherKeeps ==
    ASSUME Assistant!TypeOK, MemberSafe, ~muted',
           \/ Assistant!Change \/ Assistant!Expire \/ Assistant!Ended
           \/ Assistant!Dialogs \/ Assistant!Chats \/ Assistant!Leave
    PROVE  MemberSafe'
<1>1. \/ UNCHANGED <<where, updates, muted>>
      \/ \E s \in Assistant!Standings :
            Assistant!Becomes(s) /\ (where = "kicked" => s = "left")
  BY DEF Assistant!Change, Assistant!Choices, Assistant!Expire, Assistant!Ended, Assistant!Dialogs,
         Assistant!Chats, Assistant!Leave, Assistant!history, Assistant!Standings, Assistant!Statuses
<1>2. UNCHANGED <<memberAt, status, overtaken>>
  BY DEF Assistant!Change, Assistant!Expire, Assistant!Ended, Assistant!Dialogs,
         Assistant!Chats, Assistant!Leave, Assistant!history, Assistant!joining
<1>3. statusCache' \in {statusCache, None} /\ (active' => active)
  BY DEF Assistant!Change, Assistant!Expire, Assistant!Ended, Assistant!Dialogs,
         Assistant!Chats, Assistant!Leave
<1>4. Unrestricted'
  BY <1>1, <1>2, <1>3, StandingKeeps, StatusNames
     DEF MemberSafe, Unrestricted, Assistant!Statuses
<1>5. Told'
  <2>1. \A x : Assistant!InChat(x) \in BOOLEAN
    BY DEF Assistant!InChat
  <2>2. \A in \in BOOLEAN : Right(in) => \/ in = Assistant!InChat(where')
                                          \/ \E i \in DOMAIN updates' : Leads(i)'
    BY <1>1, StandingKeeps DEF Right
  <2>3. Right(TRUE) => Right(TRUE)'
    BY <1>1, StandingKeeps
  <2>4. statusCache # None /\ Right(Assistant!InChat(statusCache)) =>
           \/ Assistant!InChat(statusCache) = Assistant!InChat(where')
           \/ \E i \in DOMAIN updates' : Leads(i)'
    BY <2>1, <2>2
  <2>5. \A h \in Handlers : Right(Assistant!InChat(status[h])) =>
           \/ Assistant!InChat(status[h]) = Assistant!InChat(where')
           \/ \E i \in DOMAIN updates' : Leads(i)'
    BY <2>1, <2>2
  <2> QED
    BY <1>2, <1>3, <2>3, <2>4, <2>5 DEF MemberSafe, Told, Right
<1>6. SongEnds'
  BY <1>1, <1>2, <1>3, StandingKeeps DEF MemberSafe, SongEnds, Joining
<1> QED
  BY <1>1, <1>4, <1>5, <1>6, StandingKeeps DEF MemberSafe

(* An update is looked at.                                                 *)
LEMMA UpdateKeeps ==
    ASSUME Assistant!TypeOK, MemberSafe, NEW i \in DOMAIN updates, Assistant!Update(i), memberClean'
    PROVE  MemberSafe'
<1> DEFINE u == updates[i]
<1>1. u \in MemberUpdate /\ u.at = "sent"
  BY MemberUpdates DEF Assistant!Update
<1>2. PICK l \in {"cache", "done"} :
          /\ updates' = [updates EXCEPT ![i] = IF l = "done" THEN Assistant!Done
                                                             ELSE [u EXCEPT !.at = l]]
          /\ l = "cache" => Assistant!Notes(u)
          /\ l = "done" => ~Assistant!Notes(u)
          /\ \A j \in 1..(i - 1) : updates[j].at = "done"
  BY DEF Assistant!Update
<1>3. /\ Assistant!Done \in MemberUpdate
      /\ [u EXCEPT !.at = "cache"] \in MemberUpdate
  BY <1>1 DEF MemberUpdate, Assistant!Done, Assistant!Statuses, Assistant!UpdateLabels
<1>4. /\ DOMAIN updates' = DOMAIN updates
      /\ updates'[i] = IF l = "done" THEN Assistant!Done ELSE [u EXCEPT !.at = l]
      /\ \A j \in DOMAIN updates : j # i => updates'[j] = updates[j]
  BY <1>2, <1>3, UpdateMoves
<1>5. /\ updates'[i].at = l
      /\ updates'[i].old # "restricted" /\ updates'[i].new # "restricted"
      /\ l = "cache" => updates'[i].old = u.old /\ updates'[i].new = u.new
  BY <1>1, <1>4 DEF MemberUpdate, Assistant!Done, MemberSafe, Unrestricted
<1>6. UNCHANGED <<where, statusCache, memberAt, status, overtaken>> /\ active' = (active /\ ~Assistant!Ends(u))
  BY DEF Assistant!Update, Assistant!joining
<1>7. /\ l = "done" => ~Moves(i)
      /\ \A j \in DOMAIN updates : Leads(j) => Leads(j)'
  BY <1>1, <1>2, <1>4, <1>5, <1>6 DEF MemberSafe, Chained, Leads, Pending, Moves
<1>8. \A j \in DOMAIN updates : j \in Nat /\ (j < i => updates[j].at = "done")
  BY <1>2, MemberUpdates
<1>9. InOrder'
  BY <1>1, <1>2, <1>4, <1>5, <1>8 DEF MemberSafe, InOrder
<1>10. Unrestricted'
  BY <1>4, <1>5, <1>6 DEF MemberSafe, Unrestricted
<1>11. Chained'
  <2> SUFFICES ASSUME NEW j \in DOMAIN updates, Pending(j)'
               PROVE  /\ \/ Assistant!InChat(updates'[j].new) = Assistant!InChat(where')
                         \/ \E k \in DOMAIN updates : k > j /\ Leads(k)'
                      /\ Moves(j)' \/ updates'[j].at = "cache" => Assistant!Notes(updates'[j])
    BY <1>4 DEF Chained
  <2>1. updates'[j].new = updates[j].new /\ updates'[j].old = updates[j].old /\ Pending(j)
    BY <1>1, <1>4, <1>5 DEF Pending
  <2>2. Moves(j)' = Moves(j)
    BY <2>1 DEF Moves
  <2>3. Assistant!Notes(updates'[j]) = Assistant!Notes(updates[j])
    BY <2>1
       DEF Assistant!Notes, Assistant!Joins, Assistant!Leaves, Assistant!Bans,
           Assistant!Unbans, Assistant!Promotes
  <2>4. updates'[j].at = "cache" => updates[j].at = "cache" \/ Assistant!Notes(updates[j])
    BY <1>2, <1>4, <1>5
  <2> QED
    BY <1>6, <1>7, <2>1, <2>2, <2>3, <2>4 DEF MemberSafe, Chained
<1>12. Told'
  BY <1>4, <1>6, <1>7 DEF MemberSafe, Told, Right
<1>13. SongEnds'
  <2> SUFFICES ASSUME active, ~Assistant!Ends(u)
               PROVE  \/ InOrLeaving'
                      \/ /\ \E h \in Handlers : Joining(h)
                         /\ \A j \in DOMAIN updates : Late(j)' => \E h \in Handlers : memberAt[h] = "check"
    BY <1>4, <1>6 DEF SongEnds, Joining
  <2>1. ~Leaving(i)
    <3>1. Leaving(i) => Assistant!Ends(u)
      BY <1>1
         DEF Leaving, MemberUpdate, MemberSafe, Unrestricted, Assistant!InChat, Assistant!Ends, Assistant!Leaves,
             Assistant!Bans, Assistant!Present, Assistant!Joins, Assistant!Statuses
    <3> QED
      BY <3>1
  <2>2. InOrLeaving => InOrLeaving'
    BY <1>4, <1>6, <2>1 DEF InOrLeaving, Leaving
  <2>3. \A j \in DOMAIN updates : Late(j)' => Late(j)
    BY <1>4, <1>5, <2>1 DEF Late, Leaving
  <2> QED
    BY <2>2, <2>3 DEF MemberSafe, SongEnds
<1> QED
  BY <1>9, <1>10, <1>11, <1>12, <1>13 DEF MemberSafe

(* An update is cached: goroutines that know something older are noted.    *)
LEMMA CacheKeeps ==
    ASSUME Assistant!TypeOK, MemberSafe, NEW i \in DOMAIN updates, Assistant!Cache(i)
    PROVE  MemberSafe'
<1> DEFINE u == updates[i]
<1>1. u \in MemberUpdate /\ u.at = "cache" /\ \A j \in DOMAIN updates : j \in Nat
  BY MemberUpdates DEF Assistant!Cache
<1>2. /\ DOMAIN updates' = DOMAIN updates /\ updates'[i] = Assistant!Done
      /\ \A j \in DOMAIN updates : j # i => updates'[j] = updates[j]
  BY UpdateMoves
     DEF Assistant!Cache, Assistant!Done, MemberUpdate, Assistant!Statuses, Assistant!UpdateLabels
<1>3. /\ UNCHANGED <<where, memberAt, status, active>>
      /\ statusCache' = IF Assistant!Joins(u) THEN "member" ELSE u.new
      /\ overtaken' = [h \in Handlers |-> memberAt[h] \in {"store", "member"}]
  BY DEF Assistant!Cache, Assistant!joining
<1>4. Assistant!InChat(statusCache') = Assistant!InChat(u.new)
  BY <1>3 DEF Assistant!Joins, Assistant!Present, Assistant!InChat
<1>5. \A j \in DOMAIN updates : j < i => updates[j].at = "done"
  BY <1>1 DEF MemberSafe, InOrder
<1>6. /\ Assistant!InChat(u.new) = Assistant!InChat(where) \/ \E j \in DOMAIN updates : j > i /\ Leads(j)
      /\ \A j \in DOMAIN updates : j > i /\ Leads(j) => Leads(j)'
  BY <1>1, <1>2, <1>3 DEF MemberSafe, Chained, Pending, Leads, Moves
<1>7. Told'
  BY <1>2, <1>3, <1>4, <1>6 DEF Told, Right
<1>8. InOrder'
  BY <1>1, <1>2, <1>5 DEF MemberSafe, InOrder, Assistant!Done
<1>9. Unrestricted'
  BY <1>2, <1>3 DEF MemberSafe, Unrestricted, Assistant!Done
<1>10. Chained'
  <2> SUFFICES ASSUME NEW j \in DOMAIN updates, Pending(j)'
               PROVE  /\ \/ Assistant!InChat(updates'[j].new) = Assistant!InChat(where')
                         \/ \E k \in DOMAIN updates : k > j /\ Leads(k)'
                      /\ Moves(j)' \/ updates'[j].at = "cache" => Assistant!Notes(updates'[j])
    BY <1>2 DEF Chained
  <2>1. j # i /\ updates'[j] = updates[j] /\ Pending(j)
    BY <1>2 DEF Pending, Assistant!Done
  <2>2. j > i
    BY <1>1, <1>5, <2>1 DEF Pending
  <2>3. \A k \in DOMAIN updates : k > j => k > i
    BY <1>1, <2>2
  <2> QED
    BY <1>3, <1>6, <2>1, <2>3 DEF MemberSafe, Chained, Moves
<1>11. SongEnds'
  BY <1>1, <1>2, <1>3 DEF MemberSafe, SongEnds, Joining, InOrLeaving, Late, Leaving, Assistant!Done
<1> QED
  BY <1>7, <1>8, <1>9, <1>10, <1>11 DEF MemberSafe
(* Whoever finds the assistant in the chat does so rightly, or the song    *)
(* will be ended, or is another goroutine's too.                           *)
LEMMA FoundIn ==
    ASSUME Assistant!TypeOK, MemberSafe, active, Right(TRUE)
    PROVE  InOrLeaving \/ \E g \in Handlers : memberAt[g] = "check"
<1> SUFFICES ASSUME ~Assistant!InChat(where)
             PROVE  InOrLeaving \/ \E g \in Handlers : memberAt[g] = "check"
  BY DEF InOrLeaving
<1>1. PICK i \in DOMAIN updates : Leads(i)
  BY DEF Right, Assistant!InChat
<1>2. Leaving(i) /\ updates[i].at \in {"sent", "cache"}
  BY <1>1, MemberUpdates
     DEF Leads, Leaving, Moves, Pending, MemberUpdate, Assistant!UpdateLabels, Assistant!InChat
<1> QED
  BY <1>1, <1>2 DEF InOrLeaving, Late, MemberSafe, SongEnds

(* What the step of a goroutine has to observe.                            *)
LEMMA StepSafe ==
    ASSUME Assistant!TypeOK, MemberSafe, ~muted', NEW h \in Handlers,
           \/ UNCHANGED <<where, updates, muted>>
           \/ \E s \in Assistant!Standings :
                 Assistant!Becomes(s) /\ (where = "kicked" => s = "left"),
           \A g \in Handlers : g # h => /\ memberAt'[g] = memberAt[g] /\ status'[g] = status[g]
                                        /\ overtaken'[g] = overtaken[g],
           \/ statusCache' = statusCache \/ Assistant!InChat(statusCache') = Assistant!InChat(where')
           \/ \E i \in DOMAIN updates' : Leads(i)',
           statusCache' # "restricted" /\ status'[h] # "restricted",
           memberAt'[h] = "store" => status'[h] # None /\ Assistant!InChat(status'[h]) = Assistant!InChat(where'),
           memberAt'[h] = "rights" => status'[h] = "kicked",
           memberAt'[h] = "member" => Assistant!InChat(where'),
           active' => active \/ memberAt'[h] = "check" \/ InOrLeaving',
           memberAt[h] = "check" => \A i \in DOMAIN updates : ~Late(i),
           active' /\ memberAt'[h] \in {"idle", "queue", "joined"} =>
               \/ memberAt[h] \in {"idle", "queue", "joined"} \/ InOrLeaving'
               \/ \E g \in Handlers : g # h /\ memberAt[g] = "check"
    PROVE  MemberSafe'
<1>1. Unrestricted'
  BY StandingKeeps DEF MemberSafe, Unrestricted
<1>2. Told'
  <2>1. \A x : Assistant!InChat(x) \in BOOLEAN
    BY DEF Assistant!InChat
  <2>2. \A in \in BOOLEAN : Right(in) => \/ in = Assistant!InChat(where')
                                          \/ \E i \in DOMAIN updates' : Leads(i)'
    BY StandingKeeps DEF Right
  <2>3. Right(TRUE) => Right(TRUE)'
    BY StandingKeeps
  <2>4. statusCache' # None => Right(Assistant!InChat(statusCache))'
    <3>1. CASE statusCache' = statusCache
      <4>1. statusCache # None /\ Right(Assistant!InChat(statusCache)) =>
               \/ Assistant!InChat(statusCache) = Assistant!InChat(where')
               \/ \E i \in DOMAIN updates' : Leads(i)'
        BY <2>1, <2>2
      <4> QED
        BY <3>1, <4>1 DEF MemberSafe, Told, Right
    <3> QED
      BY <3>1 DEF Right
  <2>5. \A g \in Handlers : Right(Assistant!InChat(status[g])) =>
           \/ Assistant!InChat(status[g]) = Assistant!InChat(where')
           \/ \E i \in DOMAIN updates' : Leads(i)'
    BY <2>1, <2>2
  <2>6. \A g \in Handlers : g # h /\ ~overtaken'[g] =>
           /\ memberAt'[g] = "store" => Right(Assistant!InChat(status[g]))'
           /\ memberAt'[g] = "member" => Right(TRUE)'
    BY <2>3, <2>5 DEF MemberSafe, Told, Right
  <2>7. /\ memberAt'[h] = "store" => Right(Assistant!InChat(status[h]))'
        /\ memberAt'[h] = "member" => Right(TRUE)'
    BY DEF Right, Assistant!InChat
  <2> QED
    BY <2>4, <2>6, <2>7 DEF Told
<1>3. SongEnds'
  <2>1. InOrLeaving => InOrLeaving'
    BY StandingKeeps
  <2> SUFFICES ASSUME active', ~InOrLeaving'
               PROVE  /\ \E g \in Handlers : Joining(g)'
                      /\ \A i \in DOMAIN updates' : Late(i)' => \E g \in Handlers : memberAt'[g] = "check"
    BY DEF SongEnds
  <2>2. CASE memberAt'[h] = "check"
    BY <2>2 DEF Joining
  <2>3. CASE memberAt'[h] # "check"
    <3>1. active /\ ~InOrLeaving
      BY <2>1, <2>3
    <3>2. /\ \E g \in Handlers : Joining(g)
          /\ \A i \in DOMAIN updates : Late(i) => \E g \in Handlers : memberAt[g] = "check"
      BY <3>1 DEF MemberSafe, SongEnds
    <3>3. \E g \in Handlers : Joining(g)'
      BY <3>2 DEF Joining
    <3>4. \A i \in DOMAIN updates' : Late(i)' => \E g \in Handlers : memberAt'[g] = "check"
      BY <3>2, StandingKeeps
    <3> QED
      BY <3>3, <3>4
  <2> QED
    BY <2>2, <2>3
<1> QED
  BY <1>1, <1>2, <1>3, StandingKeeps DEF MemberSafe
(* joinAssistant goes by a status that is right or will be put right.      *)
LEMMA DecideRight ==
    ASSUME Assistant!TypeOK, NEW h \in Handlers, NEW s \in Assistant!Statuses \ {"restricted"},
           Assistant!Decide(h, s)
    PROVE  /\ memberAt'[h] \in {"joined", "link", "rights"}
           /\ memberAt'[h] = "joined" => Assistant!InChat(s)
           /\ memberAt'[h] = "rights" => status'[h] = "kicked"
           /\ status'[h] # "restricted"
           /\ \A g \in Handlers : g # h => memberAt'[g] = memberAt[g] /\ status'[g] = status[g]
<1>1. status' = [status EXCEPT ![h] = IF Assistant!Present(s) \/ s = "left" THEN None ELSE s]
  BY DEF Assistant!Decide
<1>2. /\ status'[h] = IF Assistant!Present(s) \/ s = "left" THEN None ELSE s
      /\ \A g \in Handlers : g # h => status'[g] = status[g]
  BY <1>1 DEF Assistant!TypeOK
<1>3. ~Assistant!Present(s) /\ s # "left" => s = "kicked"
  BY DEF Assistant!Present, Assistant!Statuses
<1>4. /\ memberAt'[h] = IF Assistant!Present(s) THEN "joined" ELSE IF s = "left" THEN "link" ELSE "rights"
      /\ \A g \in Handlers : g # h => memberAt'[g] = memberAt[g]
  BY DEF Assistant!Decide, Assistant!Goto, Assistant!TypeOK
<1>5. None # "restricted"
  BY StatusNames DEF Assistant!Statuses
<1> QED
  BY <1>2, <1>3, <1>4, <1>5 DEF Assistant!Present, Assistant!InChat

LEMMA CheckKeeps ==
    ASSUME Assistant!TypeOK, MemberSafe, ~muted, NEW h \in Handlers, Assistant!Check(h), memberClean'
    PROVE  MemberSafe'
<1>1. /\ memberAt[h] = "check" /\ \A i \in DOMAIN updates : updates[i].at # "cache"
      /\ UNCHANGED <<where, updates, muted, statusCache, active, overtaken>>
  BY DEF Assistant!Check, Assistant!Elsewhere
<1>2. CASE statusCache # None
  <2>1. statusCache \in Assistant!Statuses \ {"restricted"}
    BY <1>2 DEF Assistant!TypeOK, MemberSafe, Unrestricted
  <2>2. Assistant!Decide(h, statusCache)
    BY <1>2 DEF Assistant!Check
  <2>3. active' /\ memberAt'[h] = "joined" => InOrLeaving'
    <3>1. Assistant!InChat(statusCache) => Right(TRUE)
      BY <1>2 DEF MemberSafe, Told, Right
    <3>2. \A i \in DOMAIN updates : Leads(i) /\ ~Assistant!InChat(where) =>
             updates[i].at = "sent" /\ Leaving(i)
      BY <1>1, MemberUpdates
         DEF Leads, Pending, Leaving, Moves, MemberUpdate, Assistant!UpdateLabels, Assistant!InChat
    <3>3. Right(TRUE) => InOrLeaving
      BY <3>2 DEF Right, InOrLeaving, Assistant!InChat
    <3>4. InOrLeaving => InOrLeaving'
      BY <1>1 DEF InOrLeaving, Leaving
    <3> QED
      BY <2>1, <2>2, <3>1, <3>3, <3>4, DecideRight
  <2> QED
    BY <1>1, <2>1, <2>2, <2>3, DecideRight, StepSafe DEF Late
<1>3. CASE statusCache = None
  <2>1. /\ memberAt'[h] = "fetch" /\ status' = status
        /\ \A g \in Handlers : g # h => memberAt'[g] = memberAt[g]
    BY <1>3 DEF Assistant!Check, Assistant!Goto, Assistant!TypeOK
  <2> QED
    BY <1>1, <2>1, StepSafe DEF Late, MemberSafe, Unrestricted
<1> QED
  BY <1>2, <1>3

LEMMA FetchKeeps ==
    ASSUME Assistant!TypeOK, MemberSafe, ~muted, NEW h \in Handlers, Assistant!Fetch(h), memberClean'
    PROVE  MemberSafe'
<1>1. /\ memberAt[h] = "fetch"
      /\ UNCHANGED <<where, updates, muted, statusCache, active>>
  BY DEF Assistant!Fetch, Assistant!Elsewhere
<1>2. PICK s \in {Assistant!StatusOf(where), "kicked", "left"} :
          /\ status' = [status EXCEPT ![h] = s]
          /\ Assistant!InChat(s) = Assistant!InChat(where)
  BY DEF Assistant!Fetch
<1>3. s # "restricted" /\ s # None
  BY StatusNames DEF MemberSafe, Unrestricted, Assistant!StatusOf, Assistant!TypeOK, Assistant!Statuses,
     Assistant!Standings
<1>4. /\ memberAt'[h] = "store" /\ status'[h] = s
      /\ \A g \in Handlers : g # h => /\ memberAt'[g] = memberAt[g] /\ status'[g] = status[g]
                                      /\ overtaken'[g] = overtaken[g]
  BY <1>2 DEF Assistant!Fetch, Assistant!Goto, Assistant!TypeOK
<1> QED
  BY <1>1, <1>2, <1>3, <1>4, StepSafe DEF MemberSafe, Unrestricted

(* What a goroutine caches unless it was overtaken, or was right by chance.*)
LEMMA RememberRight ==
    ASSUME Assistant!TypeOK, MemberSafe, NEW h \in Handlers, NEW s, Assistant!Remember(h, s), memberClean',
           UNCHANGED <<where, updates>>,
           ~overtaken[h] => Right(Assistant!InChat(s))
    PROVE  /\ Right(Assistant!InChat(s))
           /\ \/ Assistant!InChat(statusCache') = Assistant!InChat(where')
              \/ \E i \in DOMAIN updates' : Leads(i)'
<1>1. statusCache' = s /\ (overtaken[h] => Assistant!InChat(s) = Assistant!InChat(where))
  BY DEF Assistant!Remember
<1>2. Right(Assistant!InChat(s))
  BY <1>1 DEF Right
<1> QED
  BY <1>1, <1>2 DEF Right, Leads, Pending, Moves

LEMMA StoreKeeps ==
    ASSUME Assistant!TypeOK, MemberSafe, ~muted, NEW h \in Handlers, Assistant!Store(h), memberClean'
    PROVE  MemberSafe'
<1> DEFINE s == status[h]
<1>1. /\ memberAt[h] = "store" /\ statusCache' = s
      /\ UNCHANGED <<where, updates, muted, active, overtaken>>
  BY DEF Assistant!Store, Assistant!Elsewhere, Assistant!Remember
<1>2. s \in Assistant!Statuses \ {"restricted"}
  BY <1>1 DEF MemberSafe, Unrestricted, Assistant!TypeOK
<1>3. Assistant!Decide(h, s) /\ Assistant!Remember(h, s)
  BY DEF Assistant!Store
<1>4. ~overtaken[h] => Right(Assistant!InChat(s))
  BY <1>1 DEF MemberSafe, Told
<1>5. /\ Right(Assistant!InChat(s))
      /\ \/ Assistant!InChat(statusCache') = Assistant!InChat(where')
         \/ \E i \in DOMAIN updates' : Leads(i)'
  BY <1>1, <1>3, <1>4, RememberRight
<1>6. active' /\ memberAt'[h] \in {"idle", "queue", "joined"} =>
          InOrLeaving' \/ \E g \in Handlers : g # h /\ memberAt[g] = "check"
  <2> SUFFICES ASSUME active, Assistant!InChat(s)
               PROVE  InOrLeaving' \/ \E g \in Handlers : g # h /\ memberAt[g] = "check"
    BY <1>1, <1>2, <1>3, DecideRight
  <2>1. Right(TRUE)
    BY <1>5 DEF Assistant!InChat, Right
  <2>2. InOrLeaving => InOrLeaving'
    BY <1>1 DEF InOrLeaving, Leaving
  <2> QED
    BY <1>1, <2>1, <2>2, FoundIn
<1> HIDE DEF s
<1> QED
  BY <1>1, <1>2, <1>3, <1>5, <1>6, DecideRight, StepSafe

LEMMA MemberKeeps ==
    ASSUME Assistant!TypeOK, MemberSafe, ~muted, NEW h \in Handlers, Assistant!Member(h), memberClean'
    PROVE  MemberSafe'
<1>1. /\ memberAt[h] = "member" /\ statusCache' = "member"
      /\ UNCHANGED <<where, updates, muted, active, status, overtaken>>
      /\ Assistant!Remember(h, "member")
  BY DEF Assistant!Member, Assistant!Elsewhere, Assistant!Remember
<1>2. Assistant!InChat("member") = TRUE
  BY DEF Assistant!InChat
<1>3. ~overtaken[h] => Right(Assistant!InChat("member"))
  BY <1>1, <1>2 DEF MemberSafe, Told
<1>4. /\ Right(Assistant!InChat("member"))
      /\ \/ Assistant!InChat(statusCache') = Assistant!InChat(where')
         \/ \E i \in DOMAIN updates' : Leads(i)'
  BY <1>1, <1>3, RememberRight
<1>5. /\ memberAt'[h] = "joined"
      /\ \A g \in Handlers : g # h => memberAt'[g] = memberAt[g]
  BY DEF Assistant!Member, Assistant!Goto, Assistant!TypeOK
<1>6. active' => InOrLeaving' \/ \E g \in Handlers : g # h /\ memberAt[g] = "check"
  <2>1. InOrLeaving => InOrLeaving'
    BY <1>1 DEF InOrLeaving, Leaving
  <2>2. Right(TRUE)
    BY <1>2, <1>4
  <2> QED
    BY <1>1, <2>1, <2>2, FoundIn
<1> QED
  BY <1>1, <1>4, <1>5, <1>6, StepSafe DEF MemberSafe, Unrestricted

(* Joining, and getting the right to.                                      *)
LEMMA JoinKeeps ==
    ASSUME Assistant!TypeOK, MemberSafe, ~muted', NEW h \in Handlers,
           Assistant!Unban(h) \/ Assistant!Link(h) \/ Assistant!Join(h)
    PROVE  MemberSafe'
<1>1. UNCHANGED <<statusCache, active, status>> /\ memberAt[h] \in {"rights", "link", "join"}
  BY DEF Assistant!Unban, Assistant!Link, Assistant!Join
<1>2. memberAt[h] = "rights" => status[h] = "kicked"
  BY DEF MemberSafe, Unrestricted
<1>3. \/ UNCHANGED <<where, updates, muted>>
      \/ \E s \in Assistant!Standings : Assistant!Becomes(s) /\ (where = "kicked" => s = "left")
  <2>1. {"left", "member"} \subseteq Assistant!Standings
    BY DEF Assistant!Standings, Assistant!Statuses
  <2> QED
    BY <1>2, <2>1 DEF Assistant!Unban, Assistant!Link, Assistant!Join, Assistant!Elsewhere
<1>4. /\ memberAt'[h] \in {"link", "join", "member", "joined", "failed"}
      /\ \A g \in Handlers : g # h => memberAt'[g] = memberAt[g] /\ overtaken'[g] = overtaken[g]
  BY <1>1, <1>2 DEF Assistant!Unban, Assistant!Link, Assistant!Join, Assistant!Goto, Assistant!TypeOK
<1>5. memberAt'[h] \in {"member", "joined"} => Assistant!InChat(where')
  BY <1>1, <1>2
     DEF Assistant!Unban, Assistant!Link, Assistant!Join, Assistant!Goto, Assistant!TypeOK,
         Assistant!Becomes, Assistant!InChat
<1> QED
  BY <1>1, <1>3, <1>4, <1>5, StepSafe DEF MemberSafe, Unrestricted, InOrLeaving

LEMMA PlayReturnKeeps ==
    ASSUME Assistant!TypeOK, MemberSafe, ~muted, NEW h \in Handlers,
           Assistant!Play(h) \/ Assistant!Return(h)
    PROVE  MemberSafe'
<1>1. UNCHANGED <<where, updates, muted, statusCache, overtaken>>
  BY DEF Assistant!Play, Assistant!Return, Assistant!Elsewhere
<1>2. None # "restricted"
  BY StatusNames DEF Assistant!Statuses
<1>3. CASE Assistant!Play(h)
  <2>1. /\ status' = status /\ memberAt[h] = "idle" /\ memberAt'[h] = "check"
        /\ \A g \in Handlers : g # h => memberAt'[g] = memberAt[g]
    BY <1>3 DEF Assistant!Play, Assistant!Goto, Assistant!TypeOK
  <2> QED
    BY <1>1, <2>1, StepSafe DEF MemberSafe, Unrestricted
<1>4. CASE Assistant!Return(h)
  <2>1. /\ memberAt[h] \in {"joined", "failed"} /\ memberAt'[h] = "idle" /\ status'[h] = None
        /\ active' = (active /\ memberAt[h] = "joined")
        /\ \A g \in Handlers : g # h => memberAt'[g] = memberAt[g] /\ status'[g] = status[g]
    BY <1>4 DEF Assistant!Return, Assistant!Goto, Assistant!TypeOK
  <2> QED
    BY <1>1, <1>2, <2>1, StepSafe DEF MemberSafe, Unrestricted
<1> QED
  BY <1>3, <1>4

(* A song is queued: where the chat was active it still is, and else the   *)
(* assistant is there.                                                     *)
LEMMA QueueKeeps ==
    ASSUME Assistant!TypeOK, MemberSafe, ~muted, NEW h \in Handlers,
           Assistant!Request(h) \/ Assistant!Enqueue(h), memberClean'
    PROVE  MemberSafe'
<1>1. /\ UNCHANGED <<where, updates, muted, statusCache, overtaken, status>>
      /\ memberAt[h] \in {"idle", "queue"}
      /\ active' => active \/ Assistant!InChat(where)
  BY DEF Assistant!Request, Assistant!Enqueue, Assistant!Elsewhere
<1>2. /\ memberAt'[h] \in {"idle", "queue"}
      /\ \A g \in Handlers : g # h => memberAt'[g] = memberAt[g]
  BY DEF Assistant!Request, Assistant!Enqueue, Assistant!Goto, Assistant!TypeOK
<1>3. active' => active \/ InOrLeaving'
  BY <1>1 DEF InOrLeaving
<1> QED
  BY <1>1, <1>2, <1>3, StepSafe DEF MemberSafe, Unrestricted

(* What the bot knows of the assistant's membership is right or will be    *)
(* put right, and songs end with it.                                       *)
THEOREM MemberInvCorrect == Assistant!Spec => []MemberInv
<1>1. Assistant!Init => MemberInv
  <2> SUFFICES ASSUME Assistant!Init PROVE MemberInv
    OBVIOUS
  <2>1. Assistant!TypeOK
    <3>1. updates \in Seq(MemberUpdate) /\ Len(updates) <= MaxUpdates
      BY EmptySeq, StatusNames DEF Assistant!Init
    <3>2. where \in Assistant!Standings /\ memberAt \in [Handlers -> Assistant!Labels]
      BY DEF Assistant!Init, Assistant!Standings, Assistant!Statuses, Assistant!Labels
    <3> QED
      BY <3>1, <3>2 DEF Assistant!Init, Assistant!TypeOK, MemberUpdate
  <2>2. DOMAIN updates = {}
    BY EmptySeq, MemberUpdates, <2>1 DEF Assistant!Init
  <2>3. None # "restricted"
    BY StatusNames DEF Assistant!Statuses
  <2>4. MemberSafe
    BY <2>2, <2>3
       DEF Assistant!Init, MemberSafe, Unrestricted, InOrder, Chained, Told, SongEnds
  <2> QED
    BY <2>1, <2>4 DEF MemberInv
<1>2. MemberInv /\ [Assistant!Next]_(Assistant!vars) => MemberInv'
  <2> SUFFICES ASSUME MemberInv, [Assistant!Next]_(Assistant!vars), memberClean', ~muted'
               PROVE  MemberSafe'
    BY MemberTypes DEF MemberInv
  <2>1. Assistant!TypeOK
    BY DEF MemberInv
  <2>2. memberClean /\ ~muted
    <3>1. muted => muted'
      BY DEF Assistant!Next, Assistant!Step, Assistant!Change, Assistant!Expire, Assistant!Ended,
             Assistant!Update, Assistant!Cache, Assistant!Request, Assistant!Enqueue,
             Assistant!Play, Assistant!Check, Assistant!Fetch,
             Assistant!Store, Assistant!Unban, Assistant!Link, Assistant!Join, Assistant!Member,
             Assistant!Return, Assistant!Dialogs, Assistant!Chats, Assistant!Leave,
             Assistant!Elsewhere, Assistant!Becomes, Assistant!vars, Assistant!history
    <3>2. memberClean' => memberClean
      <4>1. CASE \E h \in Handlers : Assistant!Step(h)
        BY <4>1
           DEF Assistant!Step, Assistant!Request, Assistant!Enqueue, Assistant!Play,
               Assistant!Check, Assistant!Fetch, Assistant!Store,
               Assistant!Remember, Assistant!Unban, Assistant!Link, Assistant!Join, Assistant!Member,
               Assistant!Return
      <4>2. CASE \E i \in DOMAIN updates : Assistant!Update(i) \/ Assistant!Cache(i)
        BY <4>2 DEF Assistant!Update, Assistant!Cache
      <4> QED
        BY <4>1, <4>2
           DEF Assistant!Next, Assistant!Change, Assistant!Expire, Assistant!Ended, Assistant!Dialogs,
               Assistant!Chats, Assistant!Leave, Assistant!vars, Assistant!history
    <3> QED
      BY <3>1, <3>2
  <2>3. MemberSafe
    BY <2>2 DEF MemberInv
  <2>4. CASE UNCHANGED Assistant!vars
    BY <2>3, <2>4
       DEF Assistant!vars, Assistant!joining, Assistant!history, MemberSafe, Unrestricted, InOrder, Chained,
           Told, SongEnds, Joining, Pending, Moves, Leaving, Leads, Right, InOrLeaving, Late
  <2>5. CASE \E h \in Handlers : Assistant!Step(h)
    BY <2>1, <2>2, <2>3, <2>5, CheckKeeps, FetchKeeps, StoreKeeps, MemberKeeps, JoinKeeps,
       QueueKeeps, PlayReturnKeeps
       DEF Assistant!Step
  <2> QED
    BY <2>1, <2>3, <2>4, <2>5, OtherKeeps, UpdateKeeps, CacheKeeps DEF Assistant!Next
<1> QED
  BY <1>1, <1>2, PTL DEF Assistant!Spec

(* As long as updates and goroutines do not overtake each other, nothing   *)
(* failed and the assistant was never restricted, the cached status tells  *)
(* rightly whether it is in the chat when all updates are handled.         *)
THEOREM CacheInStepCorrect == Assistant!Spec => []CacheInStep
<1>1. MemberInv => CacheInStep
  BY DEF MemberInv, MemberSafe, Told, Right, Leads, Pending, CacheInStep, Assistant!CacheInStep,
         Assistant!Quiet
<1> QED
  BY <1>1, MemberInvCorrect, PTL

(* Then a chat that nobody is about to join is active only with the        *)
(* assistant in it.                                                        *)
THEOREM ActiveMeansInCorrect == Assistant!Spec => []ActiveMeansIn
<1>1. MemberInv => ActiveMeansIn
  BY DEF MemberInv, MemberSafe, SongEnds, Joining, InOrLeaving, ActiveMeansIn, Assistant!ActiveMeansIn,
         Assistant!Quiet
<1> QED
  BY <1>1, MemberInvCorrect, PTL
-----------------------------------------------------------------------------
(* The videos of a call: types.                                            *)

LEMMA CallNames ==
    /\ None \notin Videos!Participant /\ None \notin Videos!Calls /\ None \notin SUBSET Videos!Videos
    /\ None \notin Videos!Videos /\ Self \notin Others /\ Self \notin Videos!Videos
    /\ Self \in Videos!People /\ Others \subseteq Videos!People
    /\ MaxEvents \in Nat
    /\ Videos!Nobody \in Videos!Calls
  BY ChatAssumption DEF ChatAssumption, Videos!People, Videos!Nobody, Videos!Calls

(* There are no more updates than there were changes, and Add has a video. *)
CallTypes ==
    /\ Videos!TypeOK
    /\ Len(callUpdates) <= events
    /\ callAt = "add" => adding # None

LEMMA CallUpdates ==
    ASSUME Videos!TypeOK
    PROVE  /\ callUpdates \in Seq(Videos!Update) /\ Len(callUpdates) \in Nat
           /\ DOMAIN callUpdates = 1..Len(callUpdates)
           /\ \A i \in DOMAIN callUpdates : callUpdates[i] \in Videos!Update
           /\ \A i \in DOMAIN callUpdates : i \in Nat
  BY LenProperties, ElementOfSeq DEF Videos!TypeOK

(* An update of participants moves on.                                     *)
LEMMA CallUpdateMoves ==
    ASSUME Videos!TypeOK, NEW i \in DOMAIN callUpdates, NEW u \in Videos!Update,
           callUpdates' = [callUpdates EXCEPT ![i] = u]
    PROVE  /\ callUpdates' \in Seq(Videos!Update) /\ Len(callUpdates') = Len(callUpdates)
           /\ DOMAIN callUpdates' = DOMAIN callUpdates /\ callUpdates'[i] = u
           /\ \A j \in DOMAIN callUpdates : j # i => callUpdates'[j] = callUpdates[j]
<1>1. callUpdates \in Seq(Videos!Update) /\ i \in 1..Len(callUpdates)
  BY CallUpdates
<1>2. callUpdates' \in Seq(Videos!Update) /\ Len(callUpdates') = Len(callUpdates)
  BY <1>1, ExceptSeq
<1> QED
  BY <1>1, <1>2, LenProperties

(* What a change in the call sends, if anything.                           *)
News(p, left, x) ==
    [who |-> p, left |-> left, says |-> x, at |-> "sent", add |-> {}, remove |-> {}]

LEMMA EventSends ==
    ASSUME CallTypes, NEW p \in Videos!People, NEW left \in BOOLEAN, NEW x \in Videos!Participant,
           Videos!Event(p, left, x)
    PROVE  /\ events' \in 0..MaxEvents
           /\ call' \in Videos!Calls /\ call'[p] = IF left THEN None ELSE x
           /\ \A q \in Videos!People : q # p => call'[q] = call[q]
           /\ callUpdates' \in Seq(Videos!Update) /\ Len(callUpdates') <= events'
           /\ \/ /\ call[Self] = None /\ p # Self
                 /\ complete' = FALSE /\ callUpdates' = callUpdates
              \/ /\ complete' = complete
                 /\ \E n \in Nat :
                       /\ DOMAIN callUpdates' = DOMAIN callUpdates \cup {n}
                       /\ callUpdates'[n] = News(p, left, x)
                       /\ \A i \in DOMAIN callUpdates : i < n /\ callUpdates'[i] = callUpdates[i]
<1> DEFINE u == News(p, left, x)
<1>1. /\ callUpdates \in Seq(Videos!Update) /\ Len(callUpdates) \in Nat
      /\ DOMAIN callUpdates = 1..Len(callUpdates)
  BY CallUpdates DEF CallTypes
<1>2. u \in Videos!Update
  BY DEF News, Videos!Update, Videos!UpdateLabels
<1>3. /\ events \in 0..MaxEvents /\ events < MaxEvents /\ events' = events + 1
      /\ call \in Videos!Calls
      /\ call' = [call EXCEPT ![p] = IF left THEN None ELSE x]
  BY DEF Videos!Event, CallTypes, Videos!TypeOK
<1>4. /\ call' \in Videos!Calls /\ call'[p] = IF left THEN None ELSE x
      /\ \A q \in Videos!People : q # p => call'[q] = call[q]
  BY <1>3 DEF Videos!Calls
<1>5. events' \in 0..MaxEvents /\ Len(callUpdates) <= events /\ events \in Nat
  BY <1>3, CallNames DEF CallTypes
<1>6. CASE call[Self] = None /\ p # Self
  <2>1. complete' = FALSE /\ callUpdates' = callUpdates
    BY <1>6 DEF Videos!Event
  <2> QED
    BY <1>1, <1>3, <1>4, <1>5, <1>6, <2>1
<1>7. CASE ~(call[Self] = None /\ p # Self)
  <2>1. complete' = complete /\ callUpdates' = Append(callUpdates, u)
    BY <1>7 DEF Videos!Event, News
  <2> HIDE DEF u
  <2>2. /\ callUpdates' \in Seq(Videos!Update) /\ Len(callUpdates') = Len(callUpdates) + 1
        /\ \A i \in 1..Len(callUpdates) : callUpdates'[i] = callUpdates[i]
        /\ callUpdates'[Len(callUpdates) + 1] = u
    BY <1>1, <1>2, <2>1, AppendProperties
  <2>3. PICK n \in Nat : n = Len(callUpdates) + 1
    BY <1>1
  <2>4. DOMAIN callUpdates' = DOMAIN callUpdates \cup {n}
    BY <1>1, <2>2, <2>3, LenProperties
  <2>5. /\ callUpdates'[n] = u
        /\ \A i \in DOMAIN callUpdates : i < n /\ callUpdates'[i] = callUpdates[i]
    BY <1>1, <2>2, <2>3
  <2>6. Len(callUpdates') <= events'
    BY <1>1, <1>3, <1>5, <2>2
  <2> QED
    BY <1>4, <1>5, <2>1, <2>2, <2>4, <2>5, <2>6 DEF u
<1> QED
  BY <1>6, <1>7

LEMMA ChangeEvents ==
    ASSUME CallTypes, Videos!Change
    PROVE  \E p \in Videos!People, left \in BOOLEAN, x \in Videos!Participant :
              /\ Videos!Event(p, left, x)
              /\ p # Self => callClean' = (callClean /\ ~Videos!Outdated(p))
              /\ p = Self => UNCHANGED callClean /\ ~left /\ call[Self] # None
<1>1. /\ \A p \in Videos!People : call[p] # None => call[p] \in Videos!Participant
      /\ \A p \in Others : p \in Videos!People /\ p # Self
      /\ Self \in Videos!People
  BY CallNames DEF CallTypes, Videos!TypeOK, Videos!Calls
<1>2. CASE \E p \in Others, k \in SUBSET Kinds :
              /\ Videos!Event(p, FALSE, [video |-> k, muted |-> FALSE])
              /\ callClean' = (callClean /\ ~Videos!Outdated(p))
  <2>1. \A k \in SUBSET Kinds : [video |-> k, muted |-> FALSE] \in Videos!Participant
    BY DEF Videos!Participant
  <2> QED
    BY <1>1, <1>2, <2>1
<1>3. CASE \E p \in Others :
              /\ call[p] # None /\ Videos!Event(p, TRUE, [call[p] EXCEPT !.video = {}])
              /\ callClean' = (callClean /\ ~Videos!Outdated(p))
  <2>1. \A x \in Videos!Participant : [x EXCEPT !.video = {}] \in Videos!Participant
    BY DEF Videos!Participant
  <2> QED
    BY <1>1, <1>3, <2>1
<1>4. CASE /\ call[Self] # None /\ Videos!Event(Self, FALSE, [call[Self] EXCEPT !.muted = ~@])
           /\ UNCHANGED callClean
  <2>1. \A x \in Videos!Participant : [x EXCEPT !.muted = ~@] \in Videos!Participant
    BY DEF Videos!Participant
  <2>2. [call[Self] EXCEPT !.muted = ~@] \in Videos!Participant
    BY <1>1, <1>4, <2>1
  <2> QED
    BY <1>1, <1>4, <2>2
<1> QED
  BY <1>2, <1>3, <1>4 DEF Videos!Change
(* What stays when no update of participants moves and nobody comes.       *)
LEMMA StillTypes ==
    ASSUME CallTypes, UNCHANGED <<call, events, callUpdates>>,
           callParticipants' \in Videos!Calls \cup {None}, fresh' \in BOOLEAN,
           callSources' \in (SUBSET Videos!Videos) \cup {None},
           bound' \in BOOLEAN, incoming' \subseteq Videos!Videos, stream' \in BOOLEAN,
           mutedByAdmin' \in BOOLEAN,
           callAt' \in {"idle", "connect", "participants", "sources", "visit", "add"},
           todo' \subseteq Videos!Videos \cup {Self}, adding' \in Videos!Videos \cup {None},
           callAt' = "add" => adding' # None,
           stopping' \in {"idle", "stop", "leave"}, ending' \in {"idle", "ended", "stop"},
           leftovers' \subseteq Videos!Videos, earlier' \subseteq Videos!Videos,
           complete' \in BOOLEAN, callClean' \in BOOLEAN, crashed' \in BOOLEAN
    PROVE  CallTypes'
  BY DEF CallTypes, Videos!TypeOK

LEMMA EventTypes ==
    ASSUME CallTypes, NEW p \in Videos!People, NEW left \in BOOLEAN, NEW x \in Videos!Participant,
           Videos!Event(p, left, x),
           UNCHANGED <<callParticipants, fresh, callSources, mutedByAdmin, todo, adding, ending, crashed>>,
           bound' \in BOOLEAN, incoming' \subseteq Videos!Videos, stream' \in BOOLEAN,
           callAt' \in {callAt, "idle", "participants"},
           stopping' \in {"idle", "stop", "leave"}, leftovers' \subseteq Videos!Videos,
           earlier' \subseteq Videos!Videos, callClean' \in BOOLEAN
    PROVE  CallTypes'
<1>1. /\ events' \in 0..MaxEvents /\ call' \in Videos!Calls
      /\ callUpdates' \in Seq(Videos!Update) /\ Len(callUpdates') <= events'
      /\ complete' \in {FALSE, complete}
  BY EventSends
<1>2. Len(callUpdates') <= MaxEvents
  BY <1>1, CallNames, LenProperties
<1>3. callAt' \in {"idle", "connect", "participants", "sources", "visit", "add"}
  BY DEF CallTypes, Videos!TypeOK
<1>4. callAt' = "add" => adding' # None
  BY DEF CallTypes
<1>5. /\ callParticipants' \in Videos!Calls \cup {None} /\ fresh' \in BOOLEAN
      /\ callSources' \in (SUBSET Videos!Videos) \cup {None} /\ mutedByAdmin' \in BOOLEAN
      /\ todo' \subseteq Videos!Videos \cup {Self} /\ adding' \in Videos!Videos \cup {None}
      /\ ending' \in {"idle", "ended", "stop"} /\ crashed' \in BOOLEAN
      /\ complete' \in BOOLEAN
  BY <1>1 DEF CallTypes, Videos!TypeOK
<1> QED
  BY <1>1, <1>2, <1>3, <1>4, <1>5 DEF CallTypes, Videos!TypeOK

(* One update moves on, to u.                                              *)
LEMMA MoveTypes ==
    ASSUME CallTypes, NEW i \in DOMAIN callUpdates, NEW u \in Videos!Update,
           callUpdates' = [callUpdates EXCEPT ![i] = u],
           UNCHANGED <<call, events, bound, stream, todo, adding, stopping, ending, complete>>,
           callAt' \in {callAt, "connect"},
           callParticipants' \in Videos!Calls \cup {None}, fresh' \in BOOLEAN,
           callSources' \in (SUBSET Videos!Videos) \cup {None},
           incoming' \subseteq Videos!Videos, mutedByAdmin' \in BOOLEAN,
           leftovers' \subseteq Videos!Videos, earlier' \subseteq Videos!Videos,
           callClean' \in BOOLEAN, crashed' \in BOOLEAN
    PROVE  CallTypes'
  BY CallUpdateMoves DEF CallTypes, Videos!TypeOK

(* The parts of an update, and what becomes of it.                         *)
LEMMA UpdateParts ==
    ASSUME NEW u \in Videos!Update
    PROVE  /\ u.who \in Videos!People /\ u.left \in BOOLEAN /\ u.says \in Videos!Participant
           /\ u.says.video \subseteq Kinds /\ u.says.muted \in BOOLEAN
           /\ u.add \subseteq Videos!Videos /\ u.remove \subseteq Videos!Videos
           /\ u.at \in {"sent", "video", "self", "done"}
           /\ {u.who} \X u.says.video \subseteq Videos!Videos
           /\ {u.who} \X Kinds \subseteq Videos!Videos
           /\ \A a, r \in SUBSET Videos!Videos :
                 [u EXCEPT !.at = "video", !.add = a, !.remove = r] \in Videos!Update
           /\ \A a \in SUBSET Videos!Videos : [u EXCEPT !.add = a] \in Videos!Update
           /\ \A r \in SUBSET Videos!Videos : [u EXCEPT !.remove = r] \in Videos!Update
           /\ [u EXCEPT !.at = "self"] \in Videos!Update
<1>1. /\ u.who \in Videos!People /\ u.left \in BOOLEAN /\ u.says \in Videos!Participant
      /\ u.add \subseteq Videos!Videos /\ u.remove \subseteq Videos!Videos
      /\ u.at \in {"sent", "video", "self", "done"}
  BY DEF Videos!Update, Videos!UpdateLabels
<1>2. u.says.video \subseteq Kinds /\ u.says.muted \in BOOLEAN
  BY <1>1 DEF Videos!Participant
<1>3. /\ {u.who} \X u.says.video \subseteq Videos!Videos
      /\ {u.who} \X Kinds \subseteq Videos!Videos
  BY <1>1, <1>2 DEF Videos!Videos
<1>4. /\ \A a, r \in SUBSET Videos!Videos :
            [u EXCEPT !.at = "video", !.add = a, !.remove = r] \in Videos!Update
      /\ \A a \in SUBSET Videos!Videos : [u EXCEPT !.add = a] \in Videos!Update
      /\ \A r \in SUBSET Videos!Videos : [u EXCEPT !.remove = r] \in Videos!Update
      /\ [u EXCEPT !.at = "self"] \in Videos!Update
  BY DEF Videos!Update, Videos!UpdateLabels
<1> QED
  BY <1>1, <1>2, <1>3, <1>4

LEMMA DoneIsUpdate == Videos!Done \in Videos!Update
  BY CallNames DEF Videos!Done, Videos!Update, Videos!UpdateLabels, Videos!Participant

(* What Apply makes of an update.                                          *)
Was(u) == IF callSources = None THEN {} ELSE callSources \cap ({u.who} \X Kinds)
Is(u) == IF callSources = None THEN {} ELSE {u.who} \X u.says.video

Applied(u) ==
    [u EXCEPT !.at = "video",
              !.add = IF u.left THEN {} ELSE Is(u) \ Was(u),
              !.remove = IF u.left THEN {} ELSE Was(u) \ Is(u)]

LEMMA ApplyMoves ==
    ASSUME CallTypes, NEW i \in DOMAIN callUpdates, Videos!Apply(i)
    PROVE  LET u == callUpdates[i]
           IN  /\ callUpdates' = [callUpdates EXCEPT ![i] = Applied(u)]
               /\ Applied(u) \in Videos!Update
               /\ Was(u) \subseteq Videos!Videos /\ Is(u) \subseteq Videos!Videos
               /\ callSources' \in (SUBSET Videos!Videos) \cup {None}
               /\ callParticipants' \in Videos!Calls
<1> DEFINE u == callUpdates[i]
<1>1. u \in Videos!Update /\ callSources \in (SUBSET Videos!Videos) \cup {None}
  BY CallUpdates DEF CallTypes, Videos!TypeOK
<1>2. Was(u) \subseteq Videos!Videos /\ Is(u) \subseteq Videos!Videos
  BY <1>1, UpdateParts DEF Was, Is
<1>3. Applied(u) \in Videos!Update
  BY <1>1, <1>2, UpdateParts DEF Applied
<1>4. callUpdates' = [callUpdates EXCEPT ![i] = Applied(u)]
  BY CallUpdates DEF CallTypes, Videos!Apply, Applied, Was, Is
<1>5. callSources' \in (SUBSET Videos!Videos) \cup {None}
  BY <1>1, UpdateParts DEF Videos!Apply, Videos!Noted
<1>6. callParticipants' \in Videos!Calls
  <2> DEFINE c == IF callParticipants = None THEN Videos!Nobody ELSE callParticipants
             r == IF u.left THEN None ELSE u.says
  <2>1. c \in Videos!Calls
    BY CallNames DEF CallTypes, Videos!TypeOK
  <2>2. callParticipants' = [c EXCEPT ![u.who] = r]
    BY DEF Videos!Apply
  <2>3. u.who \in Videos!People /\ r \in Videos!Participant \cup {None}
    BY <1>1, UpdateParts
  <2> HIDE DEF c, r
  <2> QED
    BY <2>1, <2>2, <2>3 DEF Videos!Calls
<1> QED
  BY <1>2, <1>3, <1>4, <1>5, <1>6
(* What Video makes of it; u.add and u.remove shrink before it moves on.   *)
LEMMA VideoMoves ==
    ASSUME CallTypes, NEW i \in DOMAIN callUpdates, Videos!Video(i)
    PROVE  LET u == callUpdates[i]
               moved(new) == new \in Videos!Update /\ callUpdates' = [callUpdates EXCEPT ![i] = new]
           IN  \/ \E v \in u.add :
                     moved([u EXCEPT !.add = @ \ {v}]) /\ Videos!Tell(incoming \cup {v})
               \/ \E v \in u.remove :
                     moved([u EXCEPT !.remove = @ \ {v}]) /\ Videos!Tell(incoming \ {v})
               \/ /\ u.add = {} /\ u.remove = {}
                  /\ moved(IF u.who = Self THEN [u EXCEPT !.at = "self"] ELSE Videos!Done)
                  /\ UNCHANGED <<incoming, callClean>>
<1> DEFINE u == callUpdates[i]
<1>1. u \in Videos!Update /\ callUpdates \in Seq(Videos!Update)
  BY CallUpdates DEF CallTypes
<1>2. CASE \E v \in u.add :
              /\ callUpdates' = [callUpdates EXCEPT ![i].add = @ \ {v}]
              /\ Videos!Tell(incoming \cup {v})
  <2>1. PICK v \in u.add :
            /\ callUpdates' = [callUpdates EXCEPT ![i].add = @ \ {v}]
            /\ Videos!Tell(incoming \cup {v})
    BY <1>2
  <2>2. u.add \ {v} \subseteq Videos!Videos
    BY <1>1, UpdateParts
  <2>3. [u EXCEPT !.add = @ \ {v}] \in Videos!Update
    BY <1>1, <2>2, UpdateParts
  <2>4. callUpdates' = [callUpdates EXCEPT ![i] = [u EXCEPT !.add = @ \ {v}]]
    BY <2>1
  <2> QED
    BY <2>1, <2>3, <2>4
<1>3. CASE \E v \in u.remove :
              /\ callUpdates' = [callUpdates EXCEPT ![i].remove = @ \ {v}]
              /\ Videos!Tell(incoming \ {v})
  <2>1. PICK v \in u.remove :
            /\ callUpdates' = [callUpdates EXCEPT ![i].remove = @ \ {v}]
            /\ Videos!Tell(incoming \ {v})
    BY <1>3
  <2>2. u.remove \ {v} \subseteq Videos!Videos
    BY <1>1, UpdateParts
  <2>3. [u EXCEPT !.remove = @ \ {v}] \in Videos!Update
    BY <1>1, <2>2, UpdateParts
  <2>4. callUpdates' = [callUpdates EXCEPT ![i] = [u EXCEPT !.remove = @ \ {v}]]
    BY <2>1
  <2> QED
    BY <2>1, <2>3, <2>4
<1>4. CASE /\ u.add = {} /\ u.remove = {}
           /\ callUpdates' = [callUpdates EXCEPT ![i] =
                                 IF u.who = Self THEN [u EXCEPT !.at = "self"] ELSE Videos!Done]
           /\ UNCHANGED <<incoming, callClean>>
  <2>1. [u EXCEPT !.at = "self"] \in Videos!Update
    BY <1>1, UpdateParts
  <2> QED
    BY <1>4, <2>1, DoneIsUpdate
<1> QED
  BY <1>2, <1>3, <1>4 DEF Videos!Video

LEMMA TellTypes ==
    ASSUME CallTypes, NEW videos \in SUBSET Videos!Videos, Videos!Tell(videos)
    PROVE  incoming' \in SUBSET Videos!Videos /\ callClean' \in BOOLEAN
  BY DEF Videos!Tell, CallTypes, Videos!TypeOK

LEMMA HandlerTypes ==
    ASSUME CallTypes, NEW i \in DOMAIN callUpdates,
           Videos!Apply(i) \/ Videos!Video(i) \/ Videos!Oneself(i) \/ Videos!Reconnect(i)
    PROVE  CallTypes'
<1> DEFINE u == callUpdates[i]
<1>1. u \in Videos!Update /\ incoming \subseteq Videos!Videos
  BY CallUpdates DEF CallTypes, Videos!TypeOK
<1>2. CASE Videos!Apply(i)
  <2>1. /\ leftovers' \subseteq Videos!Videos /\ earlier' \subseteq Videos!Videos
        /\ callClean' \in BOOLEAN /\ fresh' \in BOOLEAN
    <3>1. /\ leftovers' = IF u.left THEN leftovers \cup Was(u) ELSE leftovers
          /\ earlier' \subseteq earlier
      BY <1>2 DEF Videos!Apply, Was
    <3> QED
      BY <1>2, <3>1, ApplyMoves DEF Videos!Apply, CallTypes, Videos!TypeOK, Videos!Alone
  <2>2. UNCHANGED <<call, events, bound, stream, callAt, todo, adding, stopping, ending, complete,
                    incoming, mutedByAdmin, crashed>>
    BY <1>2 DEF Videos!Apply, Videos!binding, Videos!going
  <2> QED
    BY <1>2, <2>1, <2>2, ApplyMoves, MoveTypes DEF CallTypes, Videos!TypeOK
<1>3. CASE Videos!Video(i)
  <2>1. UNCHANGED <<call, events, bound, stream, callAt, todo, adding, stopping, ending, complete,
                    callParticipants, fresh, callSources, mutedByAdmin, leftovers, earlier, crashed>>
    BY <1>3 DEF Videos!Video, Videos!kept, Videos!going
  <2>2. PICK new \in Videos!Update : /\ callUpdates' = [callUpdates EXCEPT ![i] = new]
                                     /\ incoming' \in SUBSET Videos!Videos /\ callClean' \in BOOLEAN
    <3>1. u.add \subseteq Videos!Videos /\ u.remove \subseteq Videos!Videos
      BY <1>1, UpdateParts
    <3>2. \A v \in u.add : incoming \cup {v} \in SUBSET Videos!Videos
      BY <1>1, <3>1
    <3>3. \A v \in u.remove : incoming \ {v} \in SUBSET Videos!Videos
      BY <1>1, <3>1
    <3>4. callClean \in BOOLEAN
      BY DEF CallTypes, Videos!TypeOK
    <3> QED
      BY <1>1, <1>3, <3>2, <3>3, <3>4, VideoMoves, TellTypes
  <2> QED
    BY <2>1, <2>2, MoveTypes DEF CallTypes, Videos!TypeOK
<1>4. CASE Videos!Oneself(i)
  <2>1. UNCHANGED <<call, events, bound, stream, callAt, todo, adding, stopping, ending, complete,
                    callParticipants, fresh, callSources, incoming, leftovers, earlier>>
    BY <1>4 DEF Videos!Oneself, Videos!kept, Videos!going, Videos!binding
  <2>2. mutedByAdmin' \in BOOLEAN /\ callClean' \in BOOLEAN /\ crashed' \in BOOLEAN
    BY <1>4 DEF Videos!Oneself, Videos!Unmuted, CallTypes, Videos!TypeOK
  <2>3. callUpdates' = [callUpdates EXCEPT ![i] = Videos!Done]
    BY <1>4 DEF Videos!Oneself
  <2> QED
    BY <2>1, <2>2, <2>3, DoneIsUpdate, MoveTypes DEF CallTypes, Videos!TypeOK
<1>5. CASE Videos!Reconnect(i)
  <2>1. UNCHANGED <<call, events, bound, stream, todo, adding, stopping, ending, complete, incoming,
                    callParticipants, fresh, callSources, mutedByAdmin, leftovers, earlier, crashed>>
    BY <1>5 DEF Videos!Reconnect, Videos!kept, Videos!binding
  <2>2. callClean' \in BOOLEAN /\ callAt' = "connect"
    BY <1>5 DEF Videos!Reconnect, CallTypes, Videos!TypeOK
  <2>3. callUpdates' = [callUpdates EXCEPT ![i] = Videos!Done]
    BY <1>5 DEF Videos!Reconnect
  <2> QED
    BY <2>1, <2>2, <2>3, DoneIsUpdate, MoveTypes DEF CallTypes, Videos!TypeOK
<1> QED
  BY <1>2, <1>3, <1>4, <1>5

LEMMA VideosIn ==
    ASSUME NEW c
    PROVE  Videos!VideosOf(c) \subseteq Videos!Videos
  BY DEF Videos!VideosOf

LEMMA PlayTypes ==
    ASSUME CallTypes,
           \/ Videos!Minute \/ Videos!NotConnected \/ Videos!Participants \/ Videos!Sources
           \/ Videos!Visit \/ Videos!Add \/ Videos!Stop \/ Videos!StopBinding \/ Videos!EndStop
    PROVE  CallTypes'
<1>1. UNCHANGED <<call, events, callUpdates, stream, leftovers, earlier>>
  BY DEF Videos!Minute, Videos!NotConnected, Videos!Participants, Videos!Sources, Videos!Visit, Videos!Add,
         Videos!Stop, Videos!StopBinding, Videos!EndStop, Videos!binding, Videos!history
<1>2. /\ bound \in BOOLEAN /\ mutedByAdmin \in BOOLEAN
      /\ stopping \in {"idle", "stop", "leave"} /\ ending \in {"idle", "ended", "stop"}
      /\ callParticipants \in Videos!Calls \cup {None} /\ fresh \in BOOLEAN /\ complete \in BOOLEAN
      /\ callSources \in (SUBSET Videos!Videos) \cup {None} /\ incoming \subseteq Videos!Videos
      /\ callClean \in BOOLEAN /\ crashed \in BOOLEAN
  BY DEF CallTypes, Videos!TypeOK
<1>3. CASE \/ Videos!Minute \/ Videos!NotConnected \/ Videos!Sources
           \/ Videos!Stop \/ Videos!StopBinding \/ Videos!EndStop
  <2>1. /\ fresh' \in BOOLEAN /\ bound' \in BOOLEAN
        /\ stopping' \in {"idle", "stop", "leave"} /\ ending' \in {"idle", "ended", "stop"}
        /\ callSources' \in {callSources, {}, None} /\ incoming' \in {incoming, {}}
        /\ callAt' \in {callAt, "idle", "visit"} /\ callClean' \in BOOLEAN
    <3>1. CASE Videos!Minute
      BY <1>2, <3>1 DEF Videos!Minute, Videos!binding, Videos!going, Videos!history
    <3>2. CASE Videos!Sources
      BY <1>2, <3>2 DEF Videos!Sources, Videos!binding, Videos!history
    <3>3. CASE Videos!Stop
      BY <1>2, <3>3 DEF Videos!Stop, Videos!binding
    <3>4. CASE Videos!StopBinding
      BY <1>2, <3>4 DEF Videos!StopBinding, Videos!kept, Videos!history
    <3>5. CASE Videos!NotConnected
      BY <1>2, <3>5 DEF Videos!NotConnected, Videos!kept
    <3>6. CASE Videos!EndStop
      BY <1>2, <3>6 DEF Videos!EndStop, Videos!kept
    <3> QED
      BY <1>3, <3>1, <3>2, <3>3, <3>4, <3>5, <3>6
  <2>2. UNCHANGED <<callParticipants, mutedByAdmin, todo, adding, complete, crashed>>
    BY <1>3
       DEF Videos!Minute, Videos!NotConnected, Videos!Sources, Videos!Stop, Videos!StopBinding,
           Videos!EndStop, Videos!binding, Videos!kept, Videos!going, Videos!history
  <2> QED
    BY <1>1, <1>2, <2>1, <2>2, StillTypes DEF CallTypes, Videos!TypeOK
<1>4. CASE Videos!Participants
  <2>1. todo' \subseteq Videos!Videos \cup {Self} /\ callAt' \in {"idle", "sources"}
    BY <1>4, VideosIn DEF Videos!Participants, CallTypes, Videos!TypeOK
  <2>2. callParticipants' \in Videos!Calls \cup {None} /\ fresh' \in BOOLEAN /\ complete' \in BOOLEAN
    BY <1>4, CallNames DEF Videos!Participants, CallTypes, Videos!TypeOK
  <2> QED
    BY <1>1, <1>2, <1>4, <2>1, <2>2, StillTypes
       DEF Videos!Participants, Videos!binding, CallTypes, Videos!TypeOK
<1>5. CASE Videos!Visit
  <2>1. /\ todo' \subseteq Videos!Videos \cup {Self} /\ callAt' \in {"idle", "visit", "add"}
        /\ adding' \in Videos!Videos \cup {None} /\ callSources' \in (SUBSET Videos!Videos) \cup {None}
        /\ crashed' \in BOOLEAN /\ mutedByAdmin' \in BOOLEAN /\ (callAt' = "add" => adding' # None)
    BY <1>5, CallNames DEF Videos!Visit, Videos!VisitVideo, CallTypes, Videos!TypeOK
  <2> QED
    BY <1>1, <1>2, <1>5, <2>1, StillTypes
       DEF Videos!Visit, Videos!binding, Videos!history, CallTypes, Videos!TypeOK
<1>6. CASE Videos!Add
  <2>1. todo' \in {todo, {}} /\ callAt' \in {"idle", "visit"} /\ adding' = None
    BY <1>6 DEF Videos!Add
  <2>2. callAt = "add" => incoming' \in SUBSET Videos!Videos /\ callClean' \in BOOLEAN
    BY <1>6, CallNames DEF Videos!Add, Videos!Tell, CallTypes, Videos!TypeOK
  <2> QED
    BY <1>1, <1>2, <1>6, <2>1, <2>2, StillTypes
       DEF Videos!Add, Videos!kept, CallTypes, Videos!TypeOK
<1> QED
  BY <1>3, <1>4, <1>5, <1>6

(* Joining and Leave are changes in the call, too; Leave may be none.      *)
LEMMA JoinEvents ==
    ASSUME CallTypes, Videos!Joined
    PROVE  \E x \in Videos!Participant : Videos!Event(Self, FALSE, x)
  BY DEF Videos!Joined, Videos!Participant

LEMMA LeaveEvents ==
    ASSUME CallTypes, Videos!Leave
    PROVE  \/ UNCHANGED <<call, events, callUpdates, complete>>
           \/ call[Self] # None /\ \E x \in Videos!Participant : Videos!Event(Self, TRUE, x)
<1>1. call[Self] # None => call[Self] \in Videos!Participant
  BY CallNames DEF CallTypes, Videos!TypeOK, Videos!Calls
<1> QED
  BY <1>1 DEF Videos!Leave

LEMMA ComeTypes ==
    ASSUME CallTypes, Videos!Change \/ Videos!Join \/ Videos!Reconnected \/ Videos!Leave
    PROVE  CallTypes'
<1>1. CASE Videos!Change
  <2>1. UNCHANGED <<callParticipants, fresh, callSources, bound, incoming, stream, mutedByAdmin,
                    callAt, todo, adding, stopping, ending, leftovers, earlier, crashed>>
    BY <1>1 DEF Videos!Change, Videos!kept, Videos!binding, Videos!going
  <2>2. PICK p \in Videos!People, left \in BOOLEAN, x \in Videos!Participant :
            /\ Videos!Event(p, left, x)
            /\ p # Self => callClean' = (callClean /\ ~Videos!Outdated(p))
            /\ p = Self => UNCHANGED callClean
    BY <1>1, ChangeEvents
  <2>3. callClean' \in BOOLEAN
    BY <2>2 DEF CallTypes, Videos!TypeOK
  <2>4. /\ bound' \in BOOLEAN /\ incoming' \subseteq Videos!Videos /\ stream' \in BOOLEAN
        /\ callAt' \in {callAt, "idle", "participants"}
        /\ stopping' \in {"idle", "stop", "leave"} /\ leftovers' \subseteq Videos!Videos
        /\ earlier' \subseteq Videos!Videos
    BY <2>1 DEF CallTypes, Videos!TypeOK
  <2>5. UNCHANGED <<callParticipants, fresh, callSources, mutedByAdmin, todo, adding, ending, crashed>>
    BY <2>1
  <2>6. Videos!Event(p, left, x)
    BY <2>2
  <2> QED
    BY <2>3, <2>4, <2>5, <2>6, EventTypes
<1>2. CASE Videos!Join \/ Videos!Reconnected
  <2>1. Videos!Joined /\ callAt' \in {"idle", "participants"}
    BY <1>2 DEF Videos!Join, Videos!Reconnected
  <2>2. /\ UNCHANGED <<callParticipants, fresh, callSources, mutedByAdmin, todo, adding, stopping, ending, crashed>>
        /\ bound' \in BOOLEAN /\ incoming' = {} /\ stream' \in BOOLEAN
        /\ leftovers' = {} /\ earlier' \subseteq Videos!Videos /\ callClean' \in BOOLEAN
    BY <2>1 DEF Videos!Joined, Videos!kept, CallTypes, Videos!TypeOK
  <2> QED
    BY <2>1, <2>2, CallNames, JoinEvents, EventTypes DEF CallTypes, Videos!TypeOK
<1>3. CASE Videos!Leave
  <2>1. /\ UNCHANGED <<callParticipants, fresh, callSources, bound, incoming, stream, mutedByAdmin,
                       callAt, todo, adding, ending, leftovers, earlier, callClean, crashed>>
        /\ stopping' = "idle"
    BY <1>3 DEF Videos!Leave, Videos!kept, Videos!binding
  <2>2. CASE UNCHANGED <<call, events, callUpdates, complete>>
    BY <2>1, <2>2 DEF CallTypes, Videos!TypeOK
  <2>3. CASE \E x \in Videos!Participant : Videos!Event(Self, TRUE, x)
    <3>1. /\ bound' \in BOOLEAN /\ incoming' \subseteq Videos!Videos /\ stream' \in BOOLEAN
          /\ callAt' \in {callAt, "idle", "participants"}
          /\ stopping' \in {"idle", "stop", "leave"} /\ leftovers' \subseteq Videos!Videos
          /\ earlier' \subseteq Videos!Videos /\ callClean' \in BOOLEAN
      BY <2>1 DEF CallTypes, Videos!TypeOK
    <3>2. UNCHANGED <<callParticipants, fresh, callSources, mutedByAdmin, todo, adding, ending, crashed>>
      BY <2>1
    <3> QED
      BY <2>3, <3>1, <3>2, CallNames, EventTypes
  <2> QED
    BY <1>3, <2>2, <2>3, LeaveEvents
<1> QED
  BY <1>1, <1>2, <1>3

(* The end of the group call sends nothing; updates are dropped then.      *)
LEMMA Dropped ==
    ASSUME CallTypes, Videos!Forget
    PROVE  /\ callUpdates' \in Seq(Videos!Update) /\ Len(callUpdates') = Len(callUpdates)
           /\ DOMAIN callUpdates' = DOMAIN callUpdates
<1>1. /\ callUpdates \in Seq(Videos!Update) /\ Len(callUpdates) \in Nat
      /\ DOMAIN callUpdates = 1..Len(callUpdates)
      /\ \A i \in DOMAIN callUpdates : callUpdates[i] \in Videos!Update
  BY CallUpdates DEF CallTypes
<1>2. PICK late \in SUBSET (DOMAIN callUpdates) :
          callUpdates' = [i \in DOMAIN callUpdates |->
                             IF callUpdates[i].at = "sent" /\ i \notin late
                             THEN Videos!Done ELSE callUpdates[i]]
  BY DEF Videos!Forget
<1>3. callUpdates' \in [1..Len(callUpdates) -> Videos!Update]
  BY <1>1, <1>2, DoneIsUpdate
<1> QED
  BY <1>1, <1>3, SeqDef, LenProperties

LEMMA EndTypes ==
    ASSUME CallTypes, Videos!End \/ Videos!Forget
    PROVE  CallTypes'
<1>1. CASE Videos!End
  <2>1. /\ events' \in 0..MaxEvents /\ Len(callUpdates') <= events'
        /\ callUpdates' = callUpdates
    BY <1>1, CallUpdates, CallNames DEF Videos!End, CallTypes, Videos!TypeOK
  <2>2. call' \in Videos!Calls /\ complete' \in BOOLEAN /\ ending' \in {"idle", "ended", "stop"}
    BY <1>1, CallNames DEF Videos!End
  <2>3. callClean' \in BOOLEAN
    BY <1>1 DEF Videos!End, CallTypes, Videos!TypeOK
  <2>4. UNCHANGED <<callParticipants, fresh, callSources, bound, incoming, stream, mutedByAdmin,
                    callAt, todo, adding, stopping, leftovers, earlier, crashed>>
    BY <1>1 DEF Videos!End, Videos!kept, Videos!binding
  <2> QED
    BY <2>1, <2>2, <2>3, <2>4 DEF CallTypes, Videos!TypeOK
<1>2. CASE Videos!Forget
  <2>1. callClean' \in BOOLEAN /\ ending' = "stop"
    BY <1>2 DEF Videos!Forget, CallTypes, Videos!TypeOK
  <2> QED
    BY <1>2, <2>1, Dropped DEF Videos!Forget, Videos!kept, Videos!binding, CallTypes, Videos!TypeOK
<1> QED
  BY <1>1, <1>2

LEMMA CallTypesKept ==
    ASSUME CallTypes, [Videos!Next]_(Videos!vars)
    PROVE  CallTypes'
<1>1. CASE UNCHANGED Videos!vars
  BY <1>1
     DEF Videos!vars, Videos!kept, Videos!binding, Videos!going, Videos!history, CallTypes, Videos!TypeOK
<1> QED
  BY <1>1, HandlerTypes, PlayTypes, ComeTypes, EndTypes DEF Videos!Next

-----------------------------------------------------------------------------
(* The videos of a call: what is known of the participants.                *)

(* The update has not been handled, or not even begun.                     *)
Unhandled(i) == callUpdates[i].at # "done"
Unread(i) == callUpdates[i].at = "sent"

Result(u) == IF u.left THEN None ELSE u.says

(* It tells what is the case.                                              *)
Latest(i) == Unread(i) /\ Result(callUpdates[i]) = call[callUpdates[i].who]

(* Updates are handled one after the other.                                *)
OneByOne ==
    /\ \A i, j \in DOMAIN callUpdates : i < j /\ ~Unread(j) => ~Unhandled(i)
    /\ \A i \in DOMAIN callUpdates :
          /\ callUpdates[i].at # "video" => callUpdates[i].add = {} /\ callUpdates[i].remove = {}
          /\ callUpdates[i].at = "self" => callUpdates[i].who = Self

(* The last unread update of a participant tells what is the case.         *)
Explained ==
    \A i \in DOMAIN callUpdates : Unread(i) =>
        \/ Latest(i)
        \/ \E j \in DOMAIN callUpdates :
              j > i /\ callUpdates[j].who = callUpdates[i].who /\ Latest(j)

(* What the cache has of p is the case, or will be when the updates are    *)
(* read.                                                                   *)
Cached(p) == IF callParticipants = None THEN None ELSE callParticipants[p]

Settles(p) ==
    \/ Cached(p) = call[p]
    \/ \E i \in DOMAIN callUpdates : callUpdates[i].who = p /\ Latest(i)

(* So it is for all if none was missed, and for the assistant itself while *)
(* Play looks at the participants.                                         *)
Looking == {"participants", "sources", "visit", "add"}

Known ==
    /\ \/ fresh \/ complete \/ callAt \in {"sources", "visit", "add"} \/ callSources # None
       => callParticipants # None
    /\ complete => \A p \in Videos!People : Settles(p)
    /\ callAt \in Looking => Settles(Self)

(* When the group call has ended the updates on their way tell of what was.*)
Ended ==
    /\ ending = "ended" => call[Self] = None /\ ~complete
    /\ ending # "ended" => Explained

(* An update that is yet to be handled says whether the assistant is muted *)
(* by now; where the list of muted chats is not right, there is one.       *)
Speaks(i) ==
    Unhandled(i) /\ callUpdates[i].who = Self /\ callUpdates[i].says.muted = call[Self].muted

MuteKnown ==
    call[Self] # None /\ bound =>
        /\ \/ mutedByAdmin = call[Self].muted \/ (stream /\ mutedByAdmin)
           \/ \E i \in DOMAIN callUpdates : Speaks(i)
        /\ \A i \in DOMAIN callUpdates : Unhandled(i) /\ callUpdates[i].who = Self =>
              Speaks(i) \/ \E j \in DOMAIN callUpdates : j > i /\ Speaks(j)

-----------------------------------------------------------------------------
(* A change in the call: one more update is unread, unless the change was  *)
(* missed and no update of that participant is on its way.                 *)
LEMMA EventKnown ==
    ASSUME CallTypes, OneByOne,
           NEW p \in Videos!People, NEW left \in BOOLEAN, NEW x \in Videos!Participant,
           Videos!Event(p, left, x), p # Self => ~Videos!Outdated(p),
           UNCHANGED callParticipants
    PROVE  /\ OneByOne' /\ (Explained => Explained')
           /\ complete' => complete
           /\ \A q \in Videos!People : q # p \/ complete' \/ p = Self => (Settles(q) => Settles(q)')
           /\ p = Self => Settles(Self)'
           /\ \A i \in DOMAIN callUpdates : i \in DOMAIN callUpdates' /\ callUpdates'[i] = callUpdates[i]
           /\ \A i \in DOMAIN callUpdates' :
                 \/ i \in DOMAIN callUpdates /\ callUpdates'[i] = callUpdates[i]
                 \/ callUpdates'[i] = News(p, left, x) /\ \A j \in DOMAIN callUpdates : j < i
           /\ call'[p] = IF left THEN None ELSE x
           /\ p = Self => \E n \in DOMAIN callUpdates' :
                  /\ callUpdates'[n] = News(p, left, x)
                  /\ \A i \in DOMAIN callUpdates : i < n /\ callUpdates'[i] = callUpdates[i]
                  /\ \A i \in DOMAIN callUpdates' : i = n \/ i \in DOMAIN callUpdates
<1>1. /\ call'[p] = IF left THEN None ELSE x
      /\ \A q \in Videos!People : q # p => call'[q] = call[q]
  BY EventSends
<1>2. \A i \in DOMAIN callUpdates : callUpdates[i].who \in Videos!People
  BY CallUpdates, UpdateParts DEF CallTypes
<1>3. CASE /\ call[Self] = None /\ p # Self
           /\ complete' = FALSE /\ callUpdates' = callUpdates
  <2>1. \A i \in DOMAIN callUpdates : callUpdates[i].who = p => callUpdates[i].at = "done"
    BY <1>3 DEF Videos!Outdated
  <2>2. \A i \in DOMAIN callUpdates : Latest(i)' = Latest(i) /\ Unread(i)' = Unread(i) /\ Unhandled(i)' = Unhandled(i)
    BY <1>1, <1>2, <1>3, <2>1 DEF Latest, Unread, Unhandled
  <2>3. OneByOne' /\ (Explained => Explained')
    BY <1>3, <2>2 DEF OneByOne, Explained
  <2>4. \A q \in Videos!People : q # p => (Settles(q) => Settles(q)')
    BY <1>1, <1>3, <2>2 DEF Settles, Cached
  <2> QED
    BY <1>1, <1>3, <2>3, <2>4
<1>4. CASE /\ complete' = complete
           /\ \E n \in Nat :
                 /\ DOMAIN callUpdates' = DOMAIN callUpdates \cup {n}
                 /\ callUpdates'[n] = News(p, left, x)
                 /\ \A i \in DOMAIN callUpdates : i < n /\ callUpdates'[i] = callUpdates[i]
  <2>1. PICK n \in Nat :
            /\ DOMAIN callUpdates' = DOMAIN callUpdates \cup {n}
            /\ callUpdates'[n] = News(p, left, x)
            /\ \A i \in DOMAIN callUpdates : i \in Nat /\ i < n /\ callUpdates'[i] = callUpdates[i]
    BY <1>4, CallUpdates DEF CallTypes
  <2>2. Latest(n)' /\ Unread(n)' /\ callUpdates'[n].who = p /\ callUpdates'[n].add = {} /\ callUpdates'[n].remove = {}
    BY <1>1, <2>1 DEF Latest, Unread, News, Result
  <2>3. \A i \in DOMAIN callUpdates :
            /\ Unread(i)' = Unread(i) /\ Unhandled(i)' = Unhandled(i)
            /\ callUpdates[i].who # p => Latest(i)' = Latest(i)
    BY <1>1, <1>2, <2>1 DEF Latest, Unread, Unhandled
  <2>4. OneByOne'
    BY <2>1, <2>2, <2>3 DEF OneByOne, Unread
  <2>5. Explained => Explained'
    BY <2>1, <2>2, <2>3 DEF Explained
  <2>6. \A q \in Videos!People : Settles(q) \/ q = p => Settles(q)'
    BY <1>1, <2>1, <2>2, <2>3 DEF Settles, Cached
  <2>7. \A i \in DOMAIN callUpdates' : i = n \/ i \in DOMAIN callUpdates
    BY <2>1
  <2> QED
    BY <1>1, <1>4, <2>1, <2>4, <2>5, <2>6, <2>7
<1>5. \/ /\ call[Self] = None /\ p # Self
         /\ complete' = FALSE /\ callUpdates' = callUpdates
      \/ /\ complete' = complete
         /\ \E n \in Nat :
               /\ DOMAIN callUpdates' = DOMAIN callUpdates \cup {n}
               /\ callUpdates'[n] = News(p, left, x)
               /\ \A i \in DOMAIN callUpdates : i < n /\ callUpdates'[i] = callUpdates[i]
  BY EventSends
<1> QED
  BY <1>3, <1>4, <1>5
-----------------------------------------------------------------------------
(* The videos of a call: what is noted, and what the binding is told.      *)

(* Neither Play nor Stop begins before the other is done, nor does either  *)
(* while the group call ends, and updates tell the binding of videos only  *)
(* between them.                                                           *)
PlayOrStop ==
    /\ stopping # "idle" \/ ending # "idle" => callAt = "idle"
    /\ callAt # "idle" => bound
    /\ callAt \in {"participants", "sources"} =>
          /\ incoming = {}
          /\ callSources # None => callSources \subseteq earlier
    /\ callAt \in {"visit", "add"} => callSources # None
    /\ callAt = "add" <=> adding # None
    /\ callAt \in {"idle", "connect", "participants"} => todo = {}
    /\ \A i \in DOMAIN callUpdates : callUpdates[i].add # {} \/ callUpdates[i].remove # {} =>
          callSources # None /\ callAt \in {"idle", "connect"}

(* What is noted and what Play has still to look at are the videos of the  *)
(* cache, but for what was noted in an earlier call.                       *)
VideosNoted ==
    /\ callSources # None /\ bound =>
          \A v \in callSources : v \in Videos!VideosOf(callParticipants) \/ v \in earlier
    /\ callSources # None /\ callAt # "sources" =>
          \A v \in Videos!VideosOf(callParticipants) : v \in callSources \/ v \in todo
    /\ callAt = "sources" => \A v \in Videos!VideosOf(callParticipants) : v \in todo
    /\ \A v \in todo : v # Self => v \in Videos!VideosOf(callParticipants)
    /\ Self \in todo => callParticipants[Self] # None /\ callParticipants[Self].muted

(* The binding has them, or is about to be told, unless they were noted in *)
(* an earlier call.                                                        *)
BindingTold ==
    callSources # None =>
        /\ bound => \A v \in callSources :
              \/ v \in incoming \/ v = adding \/ v \in earlier
              \/ \E i \in DOMAIN callUpdates : v \in callUpdates[i].add
        /\ \A v \in incoming :
              v \in callSources \cup leftovers \/ \E i \in DOMAIN callUpdates : v \in callUpdates[i].remove
        /\ adding # None => adding \in callSources
        /\ \A i \in DOMAIN callUpdates : /\ callUpdates[i].add \subseteq callSources
                                         /\ callUpdates[i].remove \cap callSources = {}

CallSafe ==
    /\ ~crashed
    /\ OneByOne /\ Ended /\ Known /\ MuteKnown
    /\ PlayOrStop /\ VideosNoted /\ BindingTold

CallInv == CallTypes /\ (callClean => CallSafe)

-----------------------------------------------------------------------------
(* Changes in the call.                                                    *)

LEMMA EventMute ==
    ASSUME CallTypes, OneByOne, MuteKnown,
           NEW p \in Videos!People, NEW left \in BOOLEAN, NEW x \in Videos!Participant,
           Videos!Event(p, left, x), p # Self => ~Videos!Outdated(p),
           UNCHANGED <<callParticipants, mutedByAdmin>>,
           p # Self \/ left => UNCHANGED <<bound, stream>>
    PROVE  MuteKnown'
<1>1. CASE p # Self
  <2>1. call'[Self] = call[Self]
    BY <1>1, CallNames, EventSends
  <2>2. \A i \in DOMAIN callUpdates : i \in DOMAIN callUpdates' /\ callUpdates'[i] = callUpdates[i]
    BY <1>1, EventKnown
  <2>3. \A i \in DOMAIN callUpdates' : i \in DOMAIN callUpdates \/ callUpdates'[i].who # Self
    BY <1>1, EventKnown DEF News
  <2>4. \A i \in DOMAIN callUpdates : Speaks(i)' = Speaks(i) /\ Unhandled(i)' = Unhandled(i)
    BY <2>1, <2>2 DEF Speaks, Unhandled
  <2> QED
    BY <1>1, <2>1, <2>2, <2>3, <2>4 DEF MuteKnown
<1>2. CASE p = Self /\ left
  <2>1. call'[Self] = None
    BY <1>2, EventSends
  <2> QED
    BY <2>1 DEF MuteKnown
<1>3. CASE p = Self /\ ~left
  <2>1. call'[Self] = x
    BY <1>3, EventSends
  <2>2. PICK n \in DOMAIN callUpdates' :
            /\ callUpdates'[n] = News(p, left, x)
            /\ \A i \in DOMAIN callUpdates : i < n
            /\ \A i \in DOMAIN callUpdates' : i = n \/ i \in DOMAIN callUpdates
    BY <1>3, EventKnown
  <2>3. Speaks(n)'
    BY <1>3, <2>1, <2>2 DEF Speaks, Unhandled, News
  <2> QED
    BY <2>2, <2>3 DEF MuteKnown
<1> QED
  BY <1>1, <1>2, <1>3

(* What is noted and told does not depend on it.                           *)
LEMMA EventNoted ==
    ASSUME CallTypes, PlayOrStop, VideosNoted, BindingTold,
           UNCHANGED <<callSources, bound, incoming, callAt, todo, adding, ending, leftovers, earlier,
                       callParticipants>>,
           stopping' \in {stopping, "idle"},
           \A i \in DOMAIN callUpdates : i \in DOMAIN callUpdates' /\ callUpdates'[i] = callUpdates[i],
           \A i \in DOMAIN callUpdates' :
                 \/ i \in DOMAIN callUpdates /\ callUpdates'[i] = callUpdates[i]
                 \/ callUpdates'[i].add = {} /\ callUpdates'[i].remove = {}
    PROVE  PlayOrStop' /\ VideosNoted' /\ BindingTold'
<1>1. PlayOrStop'
  BY DEF PlayOrStop
<1>2. VideosNoted'
  BY DEF VideosNoted
<1>3. BindingTold'
  BY DEF BindingTold
<1> QED
  BY <1>1, <1>2, <1>3

LEMMA ChangeKeeps ==
    ASSUME CallTypes, CallSafe, Videos!Change, callClean'
    PROVE  CallSafe'
<1>1. UNCHANGED <<callParticipants, fresh, callSources, bound, incoming, stream, mutedByAdmin,
                  callAt, todo, adding, stopping, ending, leftovers, earlier, crashed>>
  BY DEF Videos!Change, Videos!kept, Videos!binding, Videos!going
<1>2. PICK p \in Videos!People, left \in BOOLEAN, x \in Videos!Participant :
          /\ Videos!Event(p, left, x)
          /\ p # Self => ~Videos!Outdated(p)
          /\ p = Self => ~left /\ call[Self] # None
  BY ChangeEvents
<1>3. /\ OneByOne' /\ (Explained => Explained') /\ (complete' => complete)
      /\ \A q \in Videos!People : q # p \/ complete' \/ p = Self => (Settles(q) => Settles(q)')
      /\ p = Self => Settles(Self)'
      /\ \A i \in DOMAIN callUpdates : i \in DOMAIN callUpdates' /\ callUpdates'[i] = callUpdates[i]
      /\ \A i \in DOMAIN callUpdates' :
            \/ i \in DOMAIN callUpdates /\ callUpdates'[i] = callUpdates[i]
            \/ callUpdates'[i] = News(p, left, x)
  BY <1>1, <1>2, EventKnown DEF CallSafe
<1>4. Known'
  BY <1>1, <1>3, CallNames DEF CallSafe, Known
<1>5. Ended'
  <2>1. p # Self => call'[Self] = call[Self]
    BY <1>2, CallNames, EventSends
  <2> QED
    BY <1>1, <1>2, <1>3, <2>1 DEF CallSafe, Ended
<1>6. MuteKnown'
  BY <1>1, <1>2, EventMute DEF CallSafe
<1>7. PlayOrStop' /\ VideosNoted' /\ BindingTold'
  BY <1>1, <1>3, EventNoted DEF CallSafe, News
<1> QED
  BY <1>1, <1>3, <1>4, <1>5, <1>6, <1>7 DEF CallSafe

(* The assistant's own changes are never missed.                           *)
LEMMA SelfKnown ==
    ASSUME CallTypes, OneByOne, NEW left \in BOOLEAN, NEW x \in Videos!Participant,
           Videos!Event(Self, left, x), UNCHANGED callParticipants
    PROVE  /\ OneByOne' /\ (Explained => Explained') /\ (complete' => complete)
           /\ \A q \in Videos!People : Settles(q) => Settles(q)'
           /\ Settles(Self)'
           /\ \A i \in DOMAIN callUpdates : i \in DOMAIN callUpdates' /\ callUpdates'[i] = callUpdates[i]
           /\ \A i \in DOMAIN callUpdates' :
                 \/ i \in DOMAIN callUpdates /\ callUpdates'[i] = callUpdates[i]
                 \/ callUpdates'[i] = News(Self, left, x)
<1>1. PICK p \in Videos!People : p = Self
  BY CallNames
<1>2. Videos!Event(p, left, x) /\ (p # Self => ~Videos!Outdated(p))
  BY <1>1
<1>3. /\ OneByOne' /\ (Explained => Explained') /\ (complete' => complete)
      /\ \A q \in Videos!People : q # p \/ complete' \/ p = Self => (Settles(q) => Settles(q)')
      /\ p = Self => Settles(Self)'
      /\ \A i \in DOMAIN callUpdates : i \in DOMAIN callUpdates' /\ callUpdates'[i] = callUpdates[i]
      /\ \A i \in DOMAIN callUpdates' :
            \/ i \in DOMAIN callUpdates /\ callUpdates'[i] = callUpdates[i]
            \/ callUpdates'[i] = News(p, left, x)
  BY <1>2, EventKnown
<1> QED
  BY <1>1, <1>3

(* The binding's call is a new one: what is noted was noted earlier.       *)
LEMMA JoinedKeeps ==
    ASSUME CallTypes, CallSafe, Videos!Joined, callClean',
           callAt \in {"idle", "connect"}, callAt' \in {"idle", "participants"}
    PROVE  CallSafe'
<1>1. /\ UNCHANGED <<callParticipants, fresh, callSources, mutedByAdmin, todo, adding, stopping, ending,
                     crashed>>
      /\ stopping = "idle" /\ ending = "idle"
      /\ bound' = TRUE /\ incoming' = {}
      /\ callSources # None => earlier' = callSources
      /\ \A i \in DOMAIN callUpdates : callUpdates[i].add = {} /\ callUpdates[i].remove = {}
  BY DEF Videos!Joined, Videos!kept
<1>2. PICK x \in Videos!Participant : Videos!Event(Self, FALSE, x)
  BY JoinEvents
<1>3. /\ OneByOne' /\ (Explained => Explained') /\ (complete' => complete)
      /\ \A q \in Videos!People : Settles(q) => Settles(q)'
      /\ Settles(Self)'
      /\ \A i \in DOMAIN callUpdates' :
            \/ i \in DOMAIN callUpdates /\ callUpdates'[i] = callUpdates[i]
            \/ callUpdates'[i] = News(Self, FALSE, x)
  BY <1>1, <1>2, SelfKnown DEF CallSafe
<1>4. todo = {} /\ adding = None
  BY DEF CallSafe, PlayOrStop
<1>5. \A i \in DOMAIN callUpdates' : callUpdates'[i].add = {} /\ callUpdates'[i].remove = {}
  BY <1>1, <1>3 DEF News
<1>6. Known'
  BY <1>1, <1>3 DEF CallSafe, Known
<1>7. Ended'
  BY <1>1, <1>3 DEF CallSafe, Ended
<1>8. MuteKnown'
  BY <1>1, <1>2, CallNames, EventMute DEF CallSafe
<1>9. PlayOrStop'
  BY <1>1, <1>4, <1>5 DEF PlayOrStop
<1>10. VideosNoted'
  BY <1>1, <1>4 DEF CallSafe, VideosNoted
<1>11. BindingTold'
  BY <1>1, <1>4, <1>5 DEF BindingTold
<1> QED
  BY <1>1, <1>3, <1>6, <1>7, <1>8, <1>9, <1>10, <1>11 DEF CallSafe

LEMMA CallJoinKeeps ==
    ASSUME CallTypes, CallSafe, Videos!Join \/ Videos!Reconnected, callClean'
    PROVE  CallSafe'
  BY JoinedKeeps DEF Videos!Join, Videos!Reconnected

(* What stays when nothing happens to the call or its updates.             *)
LEMMA StillKnown ==
    ASSUME UNCHANGED <<call, callUpdates>>
    PROVE  /\ OneByOne => OneByOne'
           /\ Explained => Explained'
           /\ UNCHANGED <<ending, complete>> => (Ended => Ended')
           /\ \A i : /\ Latest(i)' = Latest(i) /\ Speaks(i)' = Speaks(i)
                     /\ Unhandled(i)' = Unhandled(i)
           /\ callParticipants' = callParticipants => \A p : Settles(p)' = Settles(p)
           /\ UNCHANGED <<bound, stream, mutedByAdmin>> => (MuteKnown => MuteKnown')
  BY DEF OneByOne, Explained, Ended, Latest, Unread, Unhandled, Speaks, Settles, Cached, MuteKnown

LEMMA CallLeaveKeeps ==
    ASSUME CallTypes, CallSafe, Videos!Leave, callClean'
    PROVE  CallSafe'
<1>1. /\ UNCHANGED <<callParticipants, fresh, callSources, bound, incoming, stream, mutedByAdmin,
                     callAt, todo, adding, ending, leftovers, earlier, crashed>>
      /\ stopping = "leave" /\ stopping' = "idle"
  BY DEF Videos!Leave, Videos!kept, Videos!binding
<1>2. callAt = "idle" /\ callAt \notin Looking
  BY <1>1 DEF CallSafe, PlayOrStop, Looking
<1>3. CASE UNCHANGED <<call, events, callUpdates, complete>>
  <2>1. Known'
    BY <1>1, <1>3, StillKnown DEF CallSafe, Known
  <2>2. PlayOrStop' /\ VideosNoted' /\ BindingTold'
    BY <1>1, <1>3, EventNoted DEF CallSafe
  <2> QED
    BY <1>1, <1>3, <2>1, <2>2, StillKnown DEF CallSafe
<1>4. CASE call[Self] # None /\ \E x \in Videos!Participant : Videos!Event(Self, TRUE, x)
  <2>1. PICK x \in Videos!Participant : Videos!Event(Self, TRUE, x)
    BY <1>4
  <2>2. /\ OneByOne' /\ (Explained => Explained') /\ (complete' => complete)
        /\ \A q \in Videos!People : Settles(q) => Settles(q)'
        /\ Settles(Self)'
        /\ \A i \in DOMAIN callUpdates : i \in DOMAIN callUpdates' /\ callUpdates'[i] = callUpdates[i]
        /\ \A i \in DOMAIN callUpdates' :
              \/ i \in DOMAIN callUpdates /\ callUpdates'[i] = callUpdates[i]
              \/ callUpdates'[i] = News(Self, TRUE, x)
    BY <1>1, <2>1, SelfKnown DEF CallSafe
  <2>3. Known'
    BY <1>1, <2>2 DEF CallSafe, Known
  <2>4. Ended'
    BY <1>1, <1>4, <2>2 DEF CallSafe, Ended
  <2>5. MuteKnown'
    BY <1>1, <2>1, CallNames, EventMute DEF CallSafe
  <2>6. PlayOrStop' /\ VideosNoted' /\ BindingTold'
    BY <1>1, <2>2, EventNoted DEF CallSafe, News
  <2> QED
    BY <1>1, <2>2, <2>3, <2>4, <2>5, <2>6 DEF CallSafe
<1> QED
  BY <1>3, <1>4, LeaveEvents

(* The group call ends: the binding's call does not last longer, whoever   *)
(* ends it.                                                                *)
LEMMA UnboundKeeps ==
    ASSUME CallSafe, callAt \in {"idle", "connect"}, callAt' = "idle",
           UNCHANGED <<call, callUpdates, callParticipants, fresh, callSources, todo, adding,
                       leftovers, complete, crashed>>,
           bound' = FALSE, incoming' = {}, Ended'
    PROVE  CallSafe'
<1>1. OneByOne'
  BY StillKnown DEF CallSafe
<1>2. Known'
  BY StillKnown DEF CallSafe, Known, Looking
<1>3. MuteKnown'
  BY DEF MuteKnown
<1>4. PlayOrStop' /\ VideosNoted' /\ BindingTold'
  BY DEF CallSafe, PlayOrStop, VideosNoted, BindingTold
<1> QED
  BY <1>1, <1>2, <1>3, <1>4 DEF CallSafe

LEMMA NotConnectedKeeps ==
    ASSUME CallTypes, CallSafe, Videos!NotConnected, callClean'
    PROVE  CallSafe'
<1>1. /\ callAt \in {"idle", "connect"} /\ callAt' = "idle"
      /\ UNCHANGED <<call, callUpdates, callParticipants, fresh, callSources, todo, adding, ending,
                     leftovers, complete, crashed>>
      /\ bound' = FALSE /\ incoming' = {}
  BY DEF Videos!NotConnected, Videos!kept
<1>2. Ended'
  BY <1>1, StillKnown DEF CallSafe
<1> QED
  BY <1>1, <1>2, UnboundKeeps

LEMMA EndKeeps ==
    ASSUME CallTypes, CallSafe, Videos!End, callClean'
    PROVE  CallSafe'
<1>1. /\ UNCHANGED <<callUpdates, callParticipants, fresh, callSources, bound, incoming, stream,
                     mutedByAdmin, callAt, todo, adding, stopping, leftovers, earlier, crashed>>
      /\ callAt = "idle" /\ ending' = "ended" /\ ~complete' /\ call'[Self] = None
  BY CallNames DEF Videos!End, Videos!kept, Videos!binding, Videos!Nobody
<1>2. OneByOne'
  BY <1>1 DEF CallSafe, OneByOne, Unread, Unhandled
<1>3. Known'
  BY <1>1 DEF CallSafe, Known, Looking
<1>4. Ended' /\ MuteKnown'
  BY <1>1 DEF Ended, MuteKnown
<1>5. PlayOrStop' /\ VideosNoted' /\ BindingTold'
  BY <1>1 DEF CallSafe, PlayOrStop, VideosNoted, BindingTold
<1> QED
  BY <1>1, <1>2, <1>3, <1>4, <1>5 DEF CallSafe

(* Only updates that have not begun are dropped.                           *)
LEMMA ForgetKeeps ==
    ASSUME CallTypes, CallSafe, Videos!Forget, callClean'
    PROVE  CallSafe'
<1>1. /\ UNCHANGED <<call, callParticipants, fresh, callSources, bound, incoming, stream,
                     mutedByAdmin, callAt, todo, adding, stopping, leftovers, earlier, complete, crashed>>
      /\ ending = "ended" /\ ending' = "stop"
  BY DEF Videos!Forget, Videos!kept, Videos!binding
<1>2. callAt = "idle" /\ call[Self] = None /\ ~complete
  BY <1>1 DEF CallSafe, PlayOrStop, Ended
<1>3. /\ DOMAIN callUpdates' = DOMAIN callUpdates
      /\ \A i \in DOMAIN callUpdates : /\ callUpdates'[i].at = "done"
                                       /\ callUpdates'[i] \in {Videos!Done, callUpdates[i]}
                                       /\ callUpdates[i].at \in {"sent", "done"}
  <2>1. PICK late \in SUBSET {i \in DOMAIN callUpdates : callUpdates[i].at = "sent"} :
            /\ callUpdates' = [i \in DOMAIN callUpdates |->
                                  IF callUpdates[i].at = "sent" /\ i \notin late
                                  THEN Videos!Done ELSE callUpdates[i]]
            /\ \A i \in DOMAIN callUpdates : callUpdates'[i].at = "done"
    BY DEF Videos!Forget
  <2> QED
    BY <2>1
<1>4. /\ \A i \in DOMAIN callUpdates : callUpdates[i].add = {} /\ callUpdates[i].remove = {}
      /\ \A i \in DOMAIN callUpdates' : callUpdates'[i].add = {} /\ callUpdates'[i].remove = {}
  BY <1>3 DEF CallSafe, OneByOne, Videos!Done
<1>5. OneByOne' /\ Ended'
  BY <1>1, <1>3, <1>4 DEF OneByOne, Ended, Explained, Unread, Unhandled
<1>6. Known'
  BY <1>1, <1>2 DEF CallSafe, Known, Looking
<1>7. MuteKnown'
  BY <1>1, <1>2 DEF MuteKnown
<1>8. PlayOrStop' /\ VideosNoted'
  BY <1>1, <1>2, <1>4 DEF CallSafe, PlayOrStop, VideosNoted
<1>9. BindingTold'
  BY <1>1, <1>4 DEF CallSafe, BindingTold
<1> QED
  BY <1>1, <1>5, <1>6, <1>7, <1>8, <1>9 DEF CallSafe

LEMMA EndStopKeeps ==
    ASSUME CallTypes, CallSafe, Videos!EndStop, callClean'
    PROVE  CallSafe'
<1>1. /\ callAt = "idle" /\ callAt' = "idle" /\ ending = "stop" /\ ending' = "idle"
      /\ UNCHANGED <<call, callUpdates, callParticipants, fresh, callSources, todo, adding,
                     leftovers, complete, crashed>>
      /\ bound' = FALSE /\ incoming' = {}
  BY DEF Videos!EndStop, Videos!kept
<1>2. Ended'
  BY <1>1, StillKnown DEF CallSafe, Ended
<1> QED
  BY <1>1, <1>2, UnboundKeeps
-----------------------------------------------------------------------------
(* Updates of participants.                                                *)

(* The facts about one update that is applied alone.                       *)
LEMMA AppliedAlone ==
    ASSUME CallTypes, NEW i \in DOMAIN callUpdates, Videos!Apply(i), callClean'
    PROVE  LET u == callUpdates[i]
           IN  /\ u \in Videos!Update /\ Unread(i)
               /\ DOMAIN callUpdates' = DOMAIN callUpdates
               /\ \A j \in DOMAIN callUpdates : j # i => callUpdates'[j] = callUpdates[j]
               /\ callUpdates'[i].at = "video" /\ callUpdates'[i].who = u.who
               /\ callUpdates'[i].says = u.says
               /\ callUpdates'[i].add = IF u.left THEN {} ELSE Is(u) \ Was(u)
               /\ callUpdates'[i].remove = IF u.left THEN {} ELSE Was(u) \ Is(u)
               /\ \A j \in DOMAIN callUpdates : j < i => callUpdates[j].at = "done"
               /\ \A j \in DOMAIN callUpdates : j > i => callUpdates[j].at = "sent"
               /\ callAt \in {"idle", "connect"} \/ (callAt = "participants" /\ callSources = None)
<1> DEFINE u == callUpdates[i]
<1>1. /\ u \in Videos!Update /\ callUpdates' = [callUpdates EXCEPT ![i] = Applied(u)]
      /\ Applied(u) \in Videos!Update
  BY CallUpdates, ApplyMoves DEF CallTypes
<1>2. /\ DOMAIN callUpdates' = DOMAIN callUpdates /\ callUpdates'[i] = Applied(u)
      /\ \A j \in DOMAIN callUpdates : j # i => callUpdates'[j] = callUpdates[j]
  BY <1>1, CallUpdateMoves DEF CallTypes
<1>3. /\ Applied(u).at = "video" /\ Applied(u).who = u.who /\ Applied(u).says = u.says
      /\ Applied(u).add = (IF u.left THEN {} ELSE Is(u) \ Was(u))
      /\ Applied(u).remove = (IF u.left THEN {} ELSE Was(u) \ Is(u))
  BY <1>1 DEF Applied, Videos!Update
<1>4. Videos!Alone(i) /\ Unread(i)
  BY DEF Videos!Apply, Unread
<1>5. /\ \A j \in DOMAIN callUpdates : j < i => callUpdates[j].at = "done"
      /\ \A j \in DOMAIN callUpdates : j > i => callUpdates[j].at = "sent"
      /\ callAt \in {"idle", "connect"} \/ (callAt = "participants" /\ callSources = None)
  <2>1. \A j \in DOMAIN callUpdates : j \in Nat
    BY CallUpdates DEF CallTypes
  <2> QED
    BY <1>4, <2>1 DEF Videos!Alone
<1> QED
  BY <1>1, <1>2, <1>3, <1>4, <1>5

LEMMA NotedSet ==
    ASSUME CallTypes, NEW u \in Videos!Update
    PROVE  /\ callSources = None => Videos!Noted(u) = None
           /\ callSources # None => Videos!Noted(u) \in SUBSET Videos!Videos /\ Videos!Noted(u) # None
<1>1. callSources # None => callSources \in SUBSET Videos!Videos
  BY DEF CallTypes, Videos!TypeOK
<1>2. {u.who} \X u.says.video \subseteq Videos!Videos
  BY UpdateParts
<1>3. callSources # None => Videos!Noted(u) \in SUBSET Videos!Videos
  BY <1>1, <1>2 DEF Videos!Noted
<1> QED
  BY <1>3, CallNames DEF Videos!Noted

LEMMA ApplyKnown ==
    ASSUME CallTypes, CallSafe, NEW i \in DOMAIN callUpdates, Videos!Apply(i), callClean'
    PROVE  OneByOne' /\ Ended' /\ Known' /\ MuteKnown'
<1> DEFINE u == callUpdates[i]
<1>1. /\ u \in Videos!Update /\ Unread(i)
      /\ DOMAIN callUpdates' = DOMAIN callUpdates
      /\ \A j \in DOMAIN callUpdates : j # i => callUpdates'[j] = callUpdates[j]
      /\ callUpdates'[i].at = "video" /\ callUpdates'[i].who = u.who
      /\ callUpdates'[i].says = u.says
      /\ \A j \in DOMAIN callUpdates : j < i => callUpdates[j].at = "done"
      /\ \A j \in DOMAIN callUpdates : j > i => callUpdates[j].at = "sent"
  BY AppliedAlone
<1>2. \A j \in DOMAIN callUpdates : j \in Nat /\ callUpdates[j].who \in Videos!People
  BY CallUpdates, UpdateParts DEF CallTypes
<1>3. /\ UNCHANGED <<call, bound, stream, mutedByAdmin, complete, callAt, ending>>
      /\ callSources' = Videos!Noted(u)
  BY DEF Videos!Apply, Videos!binding, Videos!going
<1>4. /\ callParticipants' \in Videos!Calls
      /\ callParticipants'[u.who] = Result(u)
      /\ \A q \in Videos!People : q # u.who => callParticipants'[q] = Cached(q)
  <2> DEFINE c == IF callParticipants = None THEN Videos!Nobody ELSE callParticipants
  <2>1. c \in Videos!Calls /\ \A q \in Videos!People : c[q] = Cached(q)
    BY CallNames DEF CallTypes, Videos!TypeOK, Cached, Videos!Nobody
  <2>2. callParticipants' = [c EXCEPT ![u.who] = Result(u)]
    BY DEF Videos!Apply, Result
  <2>3. u.who \in Videos!People
    BY <1>2
  <2>4. callParticipants' \in Videos!Calls
    BY ApplyMoves
  <2> HIDE DEF c
  <2> QED
    BY <2>1, <2>2, <2>3, <2>4 DEF Videos!Calls
<1>5. /\ \A j \in DOMAIN callUpdates : j # i => Latest(j)' = Latest(j) /\ Unread(j)' = Unread(j)
                                                 /\ Unhandled(j)' = Unhandled(j)
      /\ ~Unread(i)' /\ ~Latest(i)' /\ Unhandled(i)' /\ Unhandled(i)
      /\ \A j \in DOMAIN callUpdates : j < i => ~Unread(j) /\ ~Unhandled(j)
  BY <1>1, <1>3 DEF Latest, Unread, Unhandled
<1>6. OneByOne'
  <2>1. \A j, k \in DOMAIN callUpdates : j < k /\ ~Unread(k)' => ~Unhandled(j)'
    <3> SUFFICES ASSUME NEW j \in DOMAIN callUpdates, NEW k \in DOMAIN callUpdates, j < k, ~Unread(k)'
                 PROVE  ~Unhandled(j)'
      OBVIOUS
    <3>1. k <= i
      BY <1>1, <1>2, <1>5 DEF Unread
    <3> QED
      BY <1>2, <1>5, <3>1
  <2>2. \A j \in DOMAIN callUpdates :
            /\ callUpdates'[j].at # "video" => callUpdates'[j].add = {} /\ callUpdates'[j].remove = {}
            /\ callUpdates'[j].at = "self" => callUpdates'[j].who = Self
    BY <1>1 DEF CallSafe, OneByOne
  <2> QED
    BY <1>1, <2>1, <2>2 DEF OneByOne
<1>7. Explained => Explained'
  <2> SUFFICES ASSUME Explained, NEW j \in DOMAIN callUpdates, Unread(j)'
               PROVE  \/ Latest(j)'
                      \/ \E k \in DOMAIN callUpdates :
                            k > j /\ callUpdates'[k].who = callUpdates'[j].who /\ Latest(k)'
    BY <1>1 DEF Explained
  <2>1. j # i /\ Unread(j)
    BY <1>5
  <2>2. \/ Latest(j)
        \/ \E k \in DOMAIN callUpdates : k > j /\ callUpdates[k].who = callUpdates[j].who /\ Latest(k)
    BY <2>1 DEF Explained
  <2>3. j > i
    BY <1>2, <1>5, <2>1
  <2>4. \A k \in DOMAIN callUpdates : k > j => k # i
    BY <1>2, <2>3
  <2> QED
    BY <1>1, <1>5, <2>1, <2>2, <2>4
<1>8. Explained => \A q \in Videos!People : q = u.who \/ Settles(q) => Settles(q)'
  <2> SUFFICES ASSUME Explained
               PROVE  \A q \in Videos!People : q = u.who \/ Settles(q) => Settles(q)'
    OBVIOUS
  <2>1. callParticipants' # None
    BY <1>4, CallNames
  <2>2. PICK w \in Videos!People : w = u.who
    BY <1>2
  <2>3. Settles(w)'
    <3>1. \/ Latest(i)
          \/ \E k \in DOMAIN callUpdates : k > i /\ callUpdates[k].who = w /\ Latest(k)
      BY <1>1, <2>2 DEF Explained
    <3>2. CASE Latest(i)
      BY <1>3, <1>4, <2>1, <2>2, <3>2 DEF Settles, Cached, Latest
    <3>3. CASE \E k \in DOMAIN callUpdates : k > i /\ callUpdates[k].who = w /\ Latest(k)
      <4>1. \A k \in DOMAIN callUpdates : k > i => k # i
        BY <1>2
      <4>2. \E k \in DOMAIN callUpdates' : callUpdates'[k].who = w /\ Latest(k)'
        BY <1>1, <1>5, <3>3, <4>1
      <4> QED
        BY <4>2 DEF Settles
    <3> QED
      BY <3>1, <3>2, <3>3
  <2>4. \A q \in Videos!People : q # w /\ Settles(q) => Settles(q)'
    BY <1>1, <1>3, <1>4, <1>5, <2>1, <2>2 DEF Settles, Cached
  <2> QED
    BY <2>2, <2>3, <2>4
<1>9. Known'
  <2>1. callParticipants' # None
    BY <1>4, CallNames
  <2>2. callSources' = None <=> callSources = None
    BY <1>1, <1>3, NotedSet
  <2>3. CASE ending = "ended"
    <3>1. ~complete /\ callAt \notin Looking
      BY <2>3 DEF CallSafe, Ended, PlayOrStop, Looking
    <3> QED
      BY <1>3, <2>1, <3>1 DEF Known
  <2>4. CASE ending # "ended"
    <3>1. \A q \in Videos!People : Settles(q) => Settles(q)'
      BY <1>8, <2>4 DEF CallSafe, Ended
    <3> QED
      BY <1>3, <2>1, <2>2, <3>1, CallNames DEF CallSafe, Known
  <2> QED
    BY <2>3, <2>4
<1>10. MuteKnown'
  <2>1. \A j \in DOMAIN callUpdates : /\ Speaks(j)' = Speaks(j) /\ Unhandled(j)' = Unhandled(j)
                                      /\ callUpdates'[j].who = callUpdates[j].who
    <3>1. /\ Speaks(i)' = Speaks(i) /\ Unhandled(i)' = Unhandled(i)
          /\ callUpdates'[i].who = callUpdates[i].who
      BY <1>1, <1>3, <1>5 DEF Speaks
    <3>2. \A j \in DOMAIN callUpdates : j # i =>
              /\ Speaks(j)' = Speaks(j) /\ Unhandled(j)' = Unhandled(j)
              /\ callUpdates'[j].who = callUpdates[j].who
      BY <1>1, <1>3, <1>5 DEF Speaks
    <3> QED
      BY <3>1, <3>2
  <2> QED
    BY <1>1, <1>3, <2>1 DEF CallSafe, MuteKnown
<1>11. Ended'
  BY <1>3, <1>7 DEF CallSafe, Ended
<1> QED
  BY <1>6, <1>9, <1>10, <1>11

LEMMA PairOf ==
    ASSUME NEW v \in Videos!Videos
    PROVE  /\ v[1] \in Videos!People /\ v[2] \in Kinds
           /\ \A p, K : v \in {p} \X K <=> v[1] = p /\ v[2] \in K
<1>1. PICK q \in Videos!People, k \in Kinds : v = <<q, k>>
  BY DEF Videos!Videos
<1> QED
  BY <1>1

LEMMA ApplyNoted ==
    ASSUME CallTypes, CallSafe, NEW i \in DOMAIN callUpdates, Videos!Apply(i), callClean'
    PROVE  PlayOrStop' /\ VideosNoted' /\ BindingTold'
<1> DEFINE u == callUpdates[i]
           P == {u.who} \X Kinds
           V == {u.who} \X u.says.video
<1>1. /\ u \in Videos!Update /\ u.at = "sent"
      /\ DOMAIN callUpdates' = DOMAIN callUpdates
      /\ \A j \in DOMAIN callUpdates : j # i => callUpdates'[j] = callUpdates[j]
      /\ callUpdates'[i].add = IF u.left THEN {} ELSE Is(u) \ Was(u)
      /\ callUpdates'[i].remove = IF u.left THEN {} ELSE Was(u) \ Is(u)
      /\ callAt \in {"idle", "connect"} \/ (callAt = "participants" /\ callSources = None)
  BY AppliedAlone DEF Unread
<1>2. /\ UNCHANGED <<bound, incoming, callAt, todo, adding, stopping, ending>>
      /\ callSources' = Videos!Noted(u)
      /\ earlier' = {v \in earlier : v[1] = u.who => ~u.left /\ v[2] \in u.says.video}
      /\ leftovers' = IF u.left THEN leftovers \cup Was(u) ELSE leftovers
  BY DEF Videos!Apply, Videos!binding, Videos!going, Was
<1>3. u.add = {} /\ u.remove = {}
  BY <1>1 DEF CallSafe, OneByOne
<1>4. callSources = None => /\ callSources' = None
                            /\ callUpdates'[i].add = {} /\ callUpdates'[i].remove = {}
  BY <1>1, <1>2, NotedSet DEF Was, Is
<1>5. callSources # None =>
          /\ callAt \in {"idle", "connect"} /\ callSources' # None
          /\ callSources \in SUBSET Videos!Videos
          /\ callSources' = (callSources \ P) \cup IF u.left THEN {} ELSE V
          /\ Was(u) = callSources \cap P /\ Is(u) = V /\ V \subseteq P
          /\ P \subseteq Videos!Videos
  <2>1. V \subseteq P /\ P \subseteq Videos!Videos
    BY <1>1, UpdateParts
  <2>2. callSources # None => callAt \in {"idle", "connect"} /\ callSources \in SUBSET Videos!Videos
    BY <1>1 DEF CallTypes, Videos!TypeOK
  <2> QED
    BY <1>1, <1>2, <2>1, <2>2, NotedSet DEF Videos!Noted, Was, Is
<1>6. PlayOrStop'
  BY <1>1, <1>2, <1>4, <1>5 DEF CallSafe, PlayOrStop
<1>7. VideosNoted'
  <2>1. todo = {} /\ callAt # "sources"
    BY <1>1 DEF CallSafe, PlayOrStop
  <2> SUFFICES ASSUME callSources # None
               PROVE  /\ \A v \in Videos!VideosOf(callParticipants') : v \in callSources'
                      /\ bound => \A v \in callSources' :
                            v \in Videos!VideosOf(callParticipants') \/ v \in earlier'
    BY <1>2, <1>4, <2>1 DEF VideosNoted
  <2>2. callParticipants \in Videos!Calls
    BY DEF CallSafe, Known, CallTypes, Videos!TypeOK
  <2>3. /\ callParticipants'[u.who] = Result(u)
        /\ \A q \in Videos!People : q # u.who => callParticipants'[q] = callParticipants[q]
    <3>1. callParticipants' = [callParticipants EXCEPT ![u.who] = Result(u)]
      BY <2>2, CallNames DEF Videos!Apply, Result
    <3> QED
      BY <1>1, <2>2, <3>1, UpdateParts DEF Videos!Calls
  <2>4. /\ u.left => Result(u) = None
        /\ ~u.left => Result(u) = u.says /\ Result(u) # None
    <3>1. u.says \in Videos!Participant
      BY <1>1, UpdateParts
    <3> QED
      BY <3>1, CallNames DEF Result
  <2>5. /\ callSources' \subseteq Videos!Videos
        /\ Videos!VideosOf(callParticipants') \subseteq Videos!Videos
    BY <1>1, <1>2, NotedSet, VideosIn
  <2>6. ASSUME NEW v \in Videos!Videos
        PROVE  /\ v \in Videos!VideosOf(callParticipants') => v \in callSources'
               /\ bound /\ v \in callSources' =>
                     v \in Videos!VideosOf(callParticipants') \/ v \in earlier'
    <3>1. /\ v[1] \in Videos!People
          /\ v \in P <=> v[1] = u.who
          /\ v \in V <=> v[1] = u.who /\ v[2] \in u.says.video
      BY PairOf
    <3>2. v \in Videos!VideosOf(callParticipants') <=>
              callParticipants'[v[1]] # None /\ v[2] \in callParticipants'[v[1]].video
      BY DEF Videos!VideosOf
    <3>3. v \in Videos!VideosOf(callParticipants) <=>
              callParticipants[v[1]] # None /\ v[2] \in callParticipants[v[1]].video
      BY DEF Videos!VideosOf
    <3>4. CASE v[1] = u.who
      BY <1>5, <2>3, <2>4, <3>1, <3>2, <3>4
    <3>5. CASE v[1] # u.who
      <4>1. /\ v \in callSources' <=> v \in callSources
            /\ v \in Videos!VideosOf(callParticipants') <=> v \in Videos!VideosOf(callParticipants)
            /\ v \in earlier' <=> v \in earlier
        BY <1>2, <1>5, <2>3, <3>1, <3>2, <3>3, <3>5
      <4>2. /\ v \in Videos!VideosOf(callParticipants) => v \in callSources
            /\ bound /\ v \in callSources => v \in Videos!VideosOf(callParticipants) \/ v \in earlier
        BY <2>1 DEF CallSafe, VideosNoted
      <4> QED
        BY <4>1, <4>2
    <3> QED
      BY <3>4, <3>5
  <2> QED
    BY <2>5, <2>6
<1>8. BindingTold'
  <2> SUFFICES ASSUME callSources # None
               PROVE  BindingTold'
    BY <1>4 DEF BindingTold
  <2> HIDE DEF P, V
  <2>1. adding = None
    BY <1>5 DEF CallSafe, PlayOrStop
  <2>2. bound => \A v \in callSources' :
            \/ v \in incoming \/ v = adding \/ v \in earlier'
            \/ \E j \in DOMAIN callUpdates' : v \in callUpdates'[j].add
    <3> SUFFICES ASSUME bound, NEW v \in callSources', v \notin callUpdates'[i].add
                 PROVE  \/ v \in incoming \/ v = adding \/ v \in earlier'
                        \/ \E j \in DOMAIN callUpdates' : v \in callUpdates'[j].add
      BY <1>1
    <3>1. v \in callSources
      BY <1>1, <1>5
    <3>2. \/ v \in incoming \/ v = adding \/ v \in earlier
          \/ \E j \in DOMAIN callUpdates : v \in callUpdates[j].add
      BY <3>1 DEF CallSafe, BindingTold
    <3>3. v \in earlier => v \in earlier'
      <4>1. /\ v \in P <=> v[1] = u.who
            /\ v \in V <=> v[1] = u.who /\ v[2] \in u.says.video
        BY <1>5, <3>1, PairOf DEF P, V
      <4> QED
        BY <1>2, <1>5, <4>1
    <3> QED
      BY <1>1, <1>3, <3>2, <3>3
  <2>3. \A v \in incoming : \/ v \in callSources' \cup leftovers'
                            \/ \E j \in DOMAIN callUpdates' : v \in callUpdates'[j].remove
    <3> SUFFICES ASSUME NEW v \in incoming, v \notin callSources', v \notin callUpdates'[i].remove,
                        v \notin leftovers'
                 PROVE  \E j \in DOMAIN callUpdates' : v \in callUpdates'[j].remove
      BY <1>1
    <3>1. v \notin callSources /\ v \notin leftovers
      BY <1>1, <1>2, <1>5
    <3>2. \E j \in DOMAIN callUpdates : v \in callUpdates[j].remove
      BY <3>1 DEF CallSafe, BindingTold
    <3> QED
      BY <1>1, <1>3, <3>2
  <2>4. \A j \in DOMAIN callUpdates : j # i => callUpdates[j].add = {} /\ callUpdates[j].remove = {}
    <3>1. \A j \in DOMAIN callUpdates : j # i => callUpdates[j].at \in {"sent", "done"}
      <4>1. /\ \A j \in DOMAIN callUpdates : j < i => callUpdates[j].at = "done"
            /\ \A j \in DOMAIN callUpdates : j > i => callUpdates[j].at = "sent"
            /\ \A j \in DOMAIN callUpdates : j \in Nat
        BY AppliedAlone, CallUpdates DEF CallTypes
      <4> QED
        BY <4>1
    <3> QED
      BY <3>1 DEF CallSafe, OneByOne
  <2>5. \A j \in DOMAIN callUpdates' : /\ callUpdates'[j].add \subseteq callSources'
                                       /\ callUpdates'[j].remove \cap callSources' = {}
    BY <1>1, <1>5, <2>4
  <2> QED
    BY <1>2, <2>1, <2>2, <2>3, <2>5 DEF BindingTold
<1> QED
  BY <1>6, <1>7, <1>8
(* Once an update is applied, what becomes of it changes nothing in what   *)
(* the unread ones tell.                                                   *)
LEMMA HandledKnown ==
    ASSUME CallTypes, OneByOne, NEW i \in DOMAIN callUpdates, ~Unread(i), Unhandled(i),
           NEW new \in Videos!Update, callUpdates' = [callUpdates EXCEPT ![i] = new],
           new.at # "sent",
           new.at # "video" => new.add = {} /\ new.remove = {},
           new.at = "self" => new.who = Self,
           UNCHANGED <<call, callParticipants>>
    PROVE  /\ OneByOne' /\ (Explained => Explained')
           /\ \A p \in Videos!People : Settles(p) => Settles(p)'
<1>1. /\ DOMAIN callUpdates' = DOMAIN callUpdates /\ callUpdates'[i] = new
      /\ \A j \in DOMAIN callUpdates : j # i => callUpdates'[j] = callUpdates[j]
  BY CallUpdateMoves DEF CallTypes
<1>2. /\ ~Unread(i)' /\ ~Latest(i)' /\ ~Latest(i)
      /\ \A j \in DOMAIN callUpdates :
            j # i => Unread(j)' = Unread(j) /\ Latest(j)' = Latest(j) /\ Unhandled(j)' = Unhandled(j)
  BY <1>1 DEF Unread, Unhandled, Latest
<1>3. \A j \in DOMAIN callUpdates : j \in Nat
  BY CallUpdates DEF CallTypes
<1>4. OneByOne'
  <2>1. \A j, k \in DOMAIN callUpdates : j < k /\ ~Unread(k)' => ~Unhandled(j)'
    <3> SUFFICES ASSUME NEW j \in DOMAIN callUpdates, NEW k \in DOMAIN callUpdates, j < k, ~Unread(k)'
                 PROVE  ~Unhandled(j)'
      OBVIOUS
    <3>1. ~Unread(k)
      BY <1>2
    <3>2. ~Unhandled(j)
      BY <3>1 DEF OneByOne
    <3> QED
      BY <1>2, <3>2
  <2>2. \A j \in DOMAIN callUpdates :
            /\ callUpdates'[j].at # "video" => callUpdates'[j].add = {} /\ callUpdates'[j].remove = {}
            /\ callUpdates'[j].at = "self" => callUpdates'[j].who = Self
    BY <1>1 DEF OneByOne
  <2> QED
    BY <1>1, <2>1, <2>2 DEF OneByOne
<1>5. Explained => Explained'
  BY <1>1, <1>2 DEF Explained
<1>6. \A p \in Videos!People : Settles(p) => Settles(p)'
  BY <1>1, <1>2 DEF Settles, Cached
<1> QED
  BY <1>4, <1>5, <1>6

LEMMA VideoKeeps ==
    ASSUME CallTypes, CallSafe, NEW i \in DOMAIN callUpdates, Videos!Video(i), callClean'
    PROVE  CallSafe'
<1> DEFINE u == callUpdates[i]
           moved(new) == new \in Videos!Update /\ callUpdates' = [callUpdates EXCEPT ![i] = new]
           shrunk(new) ==
               /\ new.at = "video" /\ new.who = u.who /\ new.says = u.says
               /\ new.add \subseteq u.add /\ new.remove \subseteq u.remove
           left(new) == /\ u.add = {} /\ u.remove = {} /\ new.add = {} /\ new.remove = {}
                        /\ \/ new.at = "self" /\ new.who = u.who /\ new.says = u.says /\ u.who = Self
                           \/ new.at = "done" /\ u.who # Self
<1>1. u \in Videos!Update /\ u.at = "video"
  BY CallUpdates DEF CallTypes, Videos!Video
<1>2. UNCHANGED <<call, callParticipants, fresh, callSources, bound, stream, mutedByAdmin,
                  callAt, todo, adding, stopping, ending, leftovers, earlier, complete, crashed>>
  BY DEF Videos!Video, Videos!kept, Videos!going
<1>3. PICK new \in Videos!Update :
          /\ callUpdates' = [callUpdates EXCEPT ![i] = new]
          /\ \/ /\ shrunk(new) /\ new.remove = u.remove
                /\ \E v \in u.add : new.add = u.add \ {v} /\ incoming' = incoming \cup {v}
             \/ /\ shrunk(new) /\ new.add = u.add
                /\ \E v \in u.remove : new.remove = u.remove \ {v} /\ incoming' = incoming \ {v}
             \/ left(new) /\ incoming' = incoming
  <2>1. CASE \E v \in u.add : moved([u EXCEPT !.add = @ \ {v}]) /\ Videos!Tell(incoming \cup {v})
    <3>1. PICK v \in u.add : moved([u EXCEPT !.add = @ \ {v}]) /\ Videos!Tell(incoming \cup {v})
      BY <2>1
    <3>2. incoming' = incoming \cup {v}
      BY <3>1 DEF Videos!Tell
    <3>3. PICK new \in Videos!Update : new = [u EXCEPT !.add = @ \ {v}]
      BY <3>1
    <3>4. shrunk(new) /\ new.remove = u.remove /\ new.add = u.add \ {v}
      BY <1>1, <3>3 DEF Videos!Update
    <3> QED
      BY <3>1, <3>2, <3>3, <3>4
  <2>2. CASE \E v \in u.remove : moved([u EXCEPT !.remove = @ \ {v}]) /\ Videos!Tell(incoming \ {v})
    <3>1. PICK v \in u.remove : moved([u EXCEPT !.remove = @ \ {v}]) /\ Videos!Tell(incoming \ {v})
      BY <2>2
    <3>2. incoming' = incoming \ {v}
      BY <3>1 DEF Videos!Tell
    <3>3. PICK new \in Videos!Update : new = [u EXCEPT !.remove = @ \ {v}]
      BY <3>1
    <3>4. shrunk(new) /\ new.add = u.add /\ new.remove = u.remove \ {v}
      BY <1>1, <3>3 DEF Videos!Update
    <3> QED
      BY <3>1, <3>2, <3>3, <3>4
  <2>3. CASE /\ u.add = {} /\ u.remove = {}
             /\ moved(IF u.who = Self THEN [u EXCEPT !.at = "self"] ELSE Videos!Done)
             /\ UNCHANGED <<incoming, callClean>>
    <3>1. PICK new \in Videos!Update : new = IF u.who = Self THEN [u EXCEPT !.at = "self"] ELSE Videos!Done
      BY <2>3
    <3>2. left(new)
      BY <1>1, <2>3, <3>1 DEF Videos!Update, Videos!Done
    <3> QED
      BY <2>3, <3>1, <3>2
  <2> QED
    BY <2>1, <2>2, <2>3, VideoMoves
<1> HIDE DEF moved
<1>4. /\ DOMAIN callUpdates' = DOMAIN callUpdates /\ callUpdates'[i] = new
      /\ \A j \in DOMAIN callUpdates : j # i => callUpdates'[j] = callUpdates[j]
  BY <1>3, CallUpdateMoves DEF CallTypes
<1>5. shrunk(new) \/ left(new)
  BY <1>3
<1>6. OneByOne' /\ (Explained => Explained') /\ \A p \in Videos!People : Settles(p) => Settles(p)'
  BY <1>1, <1>2, <1>3, <1>5, HandledKnown DEF CallSafe, Unread, Unhandled
<1>7. Known' /\ Ended'
  BY <1>2, <1>6, CallNames DEF CallSafe, Known, Ended
<1>8. MuteKnown'
  <2>1. \A j \in DOMAIN callUpdates :
            /\ Speaks(j)' = Speaks(j)
            /\ Unhandled(j) /\ callUpdates[j].who = Self <=> Unhandled(j)' /\ callUpdates'[j].who = Self
    <3>1. \A j \in DOMAIN callUpdates : j # i => Speaks(j)' = Speaks(j) /\ Unhandled(j)' = Unhandled(j)
      BY <1>2, <1>4 DEF Speaks, Unhandled
    <3>2. /\ Speaks(i)' = Speaks(i)
          /\ Unhandled(i) /\ callUpdates[i].who = Self <=> Unhandled(i)' /\ callUpdates'[i].who = Self
      BY <1>1, <1>2, <1>4, <1>5 DEF Speaks, Unhandled
    <3> QED
      BY <1>4, <3>1, <3>2
  <2> QED
    BY <1>2, <1>4, <2>1 DEF CallSafe, MuteKnown
<1>9. new.add \subseteq u.add /\ new.remove \subseteq u.remove
  BY <1>5
<1>10. /\ \A v \in u.add : v \in new.add \/ v \in incoming'
       /\ \A v \in incoming' : v \in incoming \/ v \in u.add
       /\ \A v \in incoming : v \in incoming' \/ (v \in u.remove /\ v \notin new.remove)
       /\ \A v \in incoming' : v \in u.remove => v \in new.remove \/ v \in u.add
  BY <1>3
<1>11. PlayOrStop'
  <2>1. \A j \in DOMAIN callUpdates' : callUpdates'[j].add # {} \/ callUpdates'[j].remove # {} =>
            callUpdates[j].add # {} \/ callUpdates[j].remove # {}
    BY <1>4, <1>9
  <2>2. callAt \in {"participants", "sources"} => incoming' = incoming
    <3>1. callAt \notin {"idle", "connect"} => u.add = {} /\ u.remove = {}
      BY DEF CallSafe, PlayOrStop
    <3> QED
      BY <1>3, <3>1
  <2> QED
    BY <1>2, <1>4, <2>1, <2>2 DEF CallSafe, PlayOrStop
<1>12. VideosNoted'
  BY <1>2 DEF CallSafe, VideosNoted
<1>13. BindingTold'
  <2> SUFFICES ASSUME callSources # None PROVE BindingTold'
    BY <1>2 DEF BindingTold
  <2>1. u.add \subseteq callSources /\ u.remove \cap callSources = {}
    BY DEF CallSafe, BindingTold
  <2>2. bound => \A v \in callSources :
            \/ v \in incoming' \/ v = adding \/ v \in earlier
            \/ \E j \in DOMAIN callUpdates' : v \in callUpdates'[j].add
    BY <1>4, <1>10, <2>1 DEF CallSafe, BindingTold
  <2>3. \A v \in incoming' : \/ v \in callSources \cup leftovers
                             \/ \E j \in DOMAIN callUpdates' : v \in callUpdates'[j].remove
    BY <1>4, <1>10, <2>1 DEF CallSafe, BindingTold
  <2>4. \A j \in DOMAIN callUpdates' : /\ callUpdates'[j].add \subseteq callSources
                                       /\ callUpdates'[j].remove \cap callSources = {}
    BY <1>4, <1>9 DEF CallSafe, BindingTold
  <2> QED
    BY <1>2, <2>2, <2>3, <2>4 DEF CallSafe, BindingTold
<1> QED
  BY <1>2, <1>6, <1>7, <1>8, <1>11, <1>12, <1>13 DEF CallSafe

LEMMA OneselfKeeps ==
    ASSUME CallTypes, CallSafe, NEW i \in DOMAIN callUpdates, callClean',
           Videos!Oneself(i) \/ Videos!Reconnect(i)
    PROVE  CallSafe'
<1> DEFINE u == callUpdates[i]
<1>1. u \in Videos!Update /\ u.at = "self" /\ u.who = Self /\ u.says.muted \in BOOLEAN
      /\ mutedByAdmin \in BOOLEAN
  BY CallUpdates, UpdateParts
     DEF CallTypes, Videos!TypeOK, Videos!Oneself, Videos!Reconnect, CallSafe, OneByOne
<1>2. /\ UNCHANGED <<call, callParticipants, fresh, callSources, bound, incoming, stream,
                     todo, adding, stopping, ending, leftovers, earlier, complete>>
      /\ \/ callAt' = callAt
         \/ /\ callAt = "idle" /\ callAt' = "connect" /\ bound
            /\ stopping = "idle" /\ ending = "idle"
  BY DEF Videos!Oneself, Videos!Reconnect, Videos!kept, Videos!binding, Videos!going
<1>3. callUpdates' = [callUpdates EXCEPT ![i] = Videos!Done]
  BY DEF Videos!Oneself, Videos!Reconnect
<1>4. /\ DOMAIN callUpdates' = DOMAIN callUpdates /\ callUpdates'[i] = Videos!Done
      /\ \A j \in DOMAIN callUpdates : j # i => callUpdates'[j] = callUpdates[j]
  BY <1>3, DoneIsUpdate, CallUpdateMoves DEF CallTypes
<1>5. OneByOne' /\ (Explained => Explained') /\ \A p \in Videos!People : Settles(p) => Settles(p)'
  <2>1. Videos!Done.at = "done" /\ Videos!Done.add = {} /\ Videos!Done.remove = {}
    BY DEF Videos!Done
  <2> QED
    BY <1>1, <1>2, <1>3, <2>1, DoneIsUpdate, HandledKnown DEF CallSafe, Unread, Unhandled
<1>6. /\ ~crashed'
      /\ bound => \/ mutedByAdmin' = u.says.muted
                  \/ stream /\ mutedByAdmin'
  <2>1. CASE Videos!Reconnect(i) \/ (bound /\ stream /\ ~u.says.muted)
    <3>1. mutedByAdmin' = mutedByAdmin /\ crashed' = crashed /\ bound /\ stream /\ ~u.says.muted
      BY <2>1 DEF Videos!Oneself, Videos!Reconnect
    <3>2. mutedByAdmin' \in BOOLEAN
      BY <1>1, <3>1
    <3> QED
      BY <1>1, <2>1, <3>1, <3>2 DEF CallSafe
  <2>2. CASE Videos!Oneself(i) /\ u.says.muted
    <3>1. mutedByAdmin' = TRUE /\ crashed' = crashed
      BY <2>2 DEF Videos!Oneself
    <3> QED
      BY <1>1, <2>2, <3>1 DEF CallSafe
  <2>3. CASE Videos!Oneself(i) /\ ~u.says.muted /\ ~(bound /\ stream)
    <3>1. \E ok \in BOOLEAN : Videos!Unmuted(ok)
      BY <2>3 DEF Videos!Oneself
    <3>2. PICK ok \in BOOLEAN : Videos!Unmuted(ok)
      BY <3>1
    <3>3. CASE mutedByAdmin
      BY <1>1, <2>3, <3>2, <3>3 DEF Videos!Unmuted
    <3>4. CASE ~mutedByAdmin
      BY <1>1, <2>3, <3>2, <3>4 DEF Videos!Unmuted, CallSafe
    <3> QED
      BY <3>3, <3>4
  <2> QED
    BY <1>1, <2>1, <2>2, <2>3
<1>7. Known' /\ Ended'
  BY <1>2, <1>5, CallNames DEF CallSafe, Known, Looking, Ended
<1>8. MuteKnown'
  <2> SUFFICES ASSUME call[Self] # None, bound
               PROVE  MuteKnown'
    BY <1>2 DEF MuteKnown
  <2>1. \A j \in DOMAIN callUpdates : j # i =>
            /\ Speaks(j)' = Speaks(j) /\ Unhandled(j)' = Unhandled(j)
            /\ callUpdates'[j].who = callUpdates[j].who
    BY <1>2, <1>4 DEF Speaks, Unhandled
  <2>2. ~Unhandled(i)' /\ ~Speaks(i)' /\ Unhandled(i)
    BY <1>1, <1>4 DEF Unhandled, Speaks, Videos!Done
  <2>3. \A j \in DOMAIN callUpdates : j \in Nat /\ (j # i /\ Unhandled(j) => j > i)
    <3>1. \A j \in DOMAIN callUpdates : j \in Nat
      BY CallUpdates DEF CallTypes
    <3>2. \A j \in DOMAIN callUpdates : j < i => ~Unhandled(j)
      BY <1>1 DEF CallSafe, OneByOne, Unread
    <3> QED
      BY <3>1, <3>2
  <2>4. \A j \in DOMAIN callUpdates' : Unhandled(j)' /\ callUpdates'[j].who = Self =>
            Speaks(j)' \/ \E k \in DOMAIN callUpdates' : k > j /\ Speaks(k)'
    <3> SUFFICES ASSUME NEW j \in DOMAIN callUpdates, Unhandled(j)', callUpdates'[j].who = Self
                 PROVE  Speaks(j)' \/ \E k \in DOMAIN callUpdates : k > j /\ Speaks(k)'
      BY <1>4
    <3>1. j # i /\ Unhandled(j) /\ callUpdates[j].who = Self
      BY <2>1, <2>2
    <3>2. Speaks(j) \/ \E k \in DOMAIN callUpdates : k > j /\ Speaks(k)
      BY <3>1 DEF CallSafe, MuteKnown
    <3>3. \A k \in DOMAIN callUpdates : k > j => k # i
      BY <2>3, <3>1
    <3> QED
      BY <2>1, <3>1, <3>2, <3>3
  <2>5. \/ mutedByAdmin' = call[Self].muted \/ (stream /\ mutedByAdmin')
        \/ \E k \in DOMAIN callUpdates' : Speaks(k)'
    <3>1. CASE Speaks(i)
      BY <1>6, <3>1 DEF Speaks
    <3>2. CASE \E k \in DOMAIN callUpdates : k > i /\ Speaks(k)
      <4>1. \A k \in DOMAIN callUpdates : k > i => k # i
        BY <2>3
      <4> QED
        BY <1>4, <2>1, <3>2, <4>1
    <3> QED
      BY <1>1, <2>2, <3>1, <3>2 DEF CallSafe, MuteKnown
  <2> QED
    BY <1>2, <2>4, <2>5 DEF MuteKnown
<1>9. u.add = {} /\ u.remove = {} /\ Videos!Done.add = {} /\ Videos!Done.remove = {}
  BY <1>1 DEF CallSafe, OneByOne, Videos!Done
<1>10. PlayOrStop'
  BY <1>2, <1>4, <1>9 DEF CallSafe, PlayOrStop
<1>11. VideosNoted'
  BY <1>2 DEF CallSafe, VideosNoted
<1>12. BindingTold'
  BY <1>2, <1>4, <1>9 DEF CallSafe, BindingTold
<1> QED
  BY <1>5, <1>6, <1>7, <1>8, <1>10, <1>11, <1>12 DEF CallSafe

LEMMA ApplyKeeps ==
    ASSUME CallTypes, CallSafe, NEW i \in DOMAIN callUpdates, Videos!Apply(i), callClean'
    PROVE  CallSafe'
<1>1. crashed' = crashed
  BY DEF Videos!Apply
<1>2. OneByOne' /\ Ended' /\ Known' /\ MuteKnown'
  BY ApplyKnown
<1>3. PlayOrStop' /\ VideosNoted' /\ BindingTold'
  BY ApplyNoted
<1> QED
  BY <1>1, <1>2, <1>3 DEF CallSafe

-----------------------------------------------------------------------------
(* Play and Stop.                                                          *)

LEMMA MinuteKeeps ==
    ASSUME CallSafe, Videos!Minute
    PROVE  CallSafe'
<1>1. /\ UNCHANGED <<call, callUpdates, callParticipants, callSources, bound, incoming, stream,
                     mutedByAdmin, callAt, todo, adding, stopping, ending, leftovers, earlier, complete, crashed>>
      /\ fresh' = FALSE
  BY DEF Videos!Minute, Videos!binding, Videos!going, Videos!history
<1>2. OneByOne' /\ Ended' /\ MuteKnown'
  BY <1>1, StillKnown DEF CallSafe
<1>3. Known'
  BY <1>1, StillKnown, CallNames DEF CallSafe, Known, Looking
<1>4. PlayOrStop' /\ VideosNoted' /\ BindingTold'
  BY <1>1 DEF CallSafe, PlayOrStop, VideosNoted, BindingTold
<1> QED
  BY <1>1, <1>2, <1>3, <1>4 DEF CallSafe

(* GetParticipants: afterwards the cache is the call, or it is as fresh as *)
(* it was, or Play has failed.                                             *)
LEMMA ParticipantsKeep ==
    ASSUME CallTypes, CallSafe, Videos!Participants
    PROVE  CallSafe'
<1>1. /\ UNCHANGED <<call, callUpdates, callSources, bound, incoming, stream, mutedByAdmin,
                     adding, stopping, ending, leftovers, earlier, crashed>>
      /\ callAt = "participants"
  BY DEF Videos!Participants, Videos!binding
<1>2. /\ incoming = {} /\ todo = {} /\ adding = None
      /\ callSources # None => \A v \in callSources : v \in earlier
      /\ bound /\ stopping = "idle" /\ ending = "idle" /\ Settles(Self)
      /\ \A i \in DOMAIN callUpdates : callUpdates[i].add = {} /\ callUpdates[i].remove = {}
  BY <1>1 DEF CallSafe, PlayOrStop, Known, Looking
<1>3. OneByOne' /\ MuteKnown'
  BY <1>1, StillKnown DEF CallSafe
<1>4. Ended'
  BY <1>1, <1>2, StillKnown DEF CallSafe, Ended
<1>5. BindingTold'
  BY <1>1, <1>2 DEF BindingTold
<1>6. PlayOrStop' /\ VideosNoted' /\ Known'
  <2> DEFINE look(c) == todo' = Videos!VideosOf(c) \cup
                                    IF c[Self] # None /\ c[Self].muted THEN {Self} ELSE {}
  <2>1. CASE /\ fresh /\ callAt' = "sources" /\ look(callParticipants)
             /\ UNCHANGED <<callParticipants, fresh, complete>>
    <3>1. VideosNoted'
      <4>1. todo' = Videos!VideosOf(callParticipants') \cup
                        IF callParticipants'[Self] # None /\ callParticipants'[Self].muted THEN {Self} ELSE {}
        BY <2>1
      <4>2. Self \notin Videos!VideosOf(callParticipants')
        BY CallNames, VideosIn
      <4> QED
        BY <1>1, <1>2, <2>1, <4>1, <4>2 DEF VideosNoted
    <3>2. PlayOrStop'
      BY <1>1, <1>2, <2>1 DEF PlayOrStop
    <3>3. Known'
      BY <1>1, <1>2, <2>1, StillKnown, CallNames DEF CallSafe, Known, Looking
    <3> QED
      BY <3>1, <3>2, <3>3
  <2>2. CASE /\ callParticipants' = call /\ complete' = TRUE
             /\ callAt' = "sources" /\ look(call)
    <3>1. VideosNoted'
      <4>1. todo' = Videos!VideosOf(callParticipants') \cup
                        IF callParticipants'[Self] # None /\ callParticipants'[Self].muted THEN {Self} ELSE {}
        BY <2>2
      <4>2. Self \notin Videos!VideosOf(callParticipants')
        BY CallNames, VideosIn
      <4> QED
        BY <1>1, <1>2, <2>2, <4>1, <4>2 DEF VideosNoted
    <3>2. PlayOrStop'
      BY <1>1, <1>2, <2>2 DEF PlayOrStop
    <3>3. callParticipants' # None
      BY <2>2, CallNames DEF CallTypes, Videos!TypeOK
    <3>4. \A p \in Videos!People : Settles(p)'
      BY <1>1, <2>2, <3>3 DEF Settles, Cached
    <3>5. Known'
      BY <3>3, <3>4, CallNames DEF Known, Looking
    <3> QED
      BY <3>1, <3>2, <3>5
  <2>3. CASE /\ callParticipants' = Videos!Nobody /\ complete' = FALSE
             /\ callAt' = "idle" /\ UNCHANGED todo
    <3>1. callParticipants' # None /\ Videos!VideosOf(callParticipants') = {}
      BY <2>3, CallNames DEF Videos!VideosOf, Videos!Nobody, Videos!Videos
    <3> QED
      BY <1>1, <1>2, <2>3, <3>1 DEF PlayOrStop, VideosNoted, Known, Looking
  <2>4. CASE /\ callParticipants' = IF callParticipants = None THEN Videos!Nobody ELSE callParticipants
             /\ callAt' = "idle" /\ UNCHANGED <<complete, fresh, todo>>
    <3>1. callParticipants' # None
      BY <2>4, CallNames
    <3>2. callSources # None => callParticipants # None
      BY DEF CallSafe, Known
    <3>3. Known'
      <4>1. CASE callParticipants = None
        <5>1. ~complete
          BY <4>1 DEF CallSafe, Known
        <5> QED
          BY <2>4, <3>1, <5>1 DEF Known, Looking
      <4>2. CASE callParticipants # None
        BY <1>1, <2>4, <3>1, <4>2, StillKnown DEF CallSafe, Known, Looking
      <4> QED
        BY <4>1, <4>2
    <3>4. PlayOrStop'
      BY <1>1, <1>2, <2>4 DEF PlayOrStop
    <3>5. VideosNoted'
      BY <1>1, <1>2, <2>4, <3>2 DEF CallSafe, VideosNoted
    <3> QED
      BY <3>3, <3>4, <3>5
  <2> QED
    BY <1>1, <2>1, <2>2, <2>3, <2>4 DEF Videos!Participants
<1> QED
  BY <1>1, <1>3, <1>4, <1>5, <1>6 DEF CallSafe

LEMMA SourcesKeep ==
    ASSUME CallTypes, CallSafe, Videos!Sources
    PROVE  CallSafe'
<1>1. /\ UNCHANGED <<call, callUpdates, callParticipants, fresh, bound, incoming, stream, mutedByAdmin,
                     todo, adding, stopping, ending, leftovers, earlier, complete, crashed>>
      /\ callAt = "sources" /\ callAt' = "visit"
  BY DEF Videos!Sources, Videos!binding, Videos!history
<1>2. /\ incoming = {} /\ adding = None /\ bound /\ stopping = "idle" /\ ending = "idle"
      /\ callSources # None => \A v \in callSources : v \in earlier
      /\ Settles(Self) /\ callParticipants # None
      /\ \A i \in DOMAIN callUpdates : callUpdates[i].add = {} /\ callUpdates[i].remove = {}
  BY <1>1 DEF CallSafe, PlayOrStop, Known, Looking
<1>3. callSources' # None /\ \A v \in callSources' : v \in earlier
  BY <1>2, CallNames DEF Videos!Sources
<1>4. OneByOne' /\ Ended' /\ MuteKnown'
  BY <1>1, StillKnown DEF CallSafe
<1>5. Known'
  BY <1>1, <1>2, StillKnown, CallNames DEF CallSafe, Known, Looking
<1>6. PlayOrStop'
  BY <1>1, <1>2, <1>3 DEF PlayOrStop
<1>7. VideosNoted'
  BY <1>1, <1>3 DEF CallSafe, VideosNoted
<1>8. BindingTold'
  BY <1>1, <1>2, <1>3 DEF BindingTold
<1> QED
  BY <1>1, <1>4, <1>5, <1>6, <1>7, <1>8 DEF CallSafe

(* A video that is not yet noted is noted, and is the next the binding is  *)
(* told of; the assistant found muted is muted, or an update on its way    *)
(* says what it is.                                                        *)
LEMMA VisitKeeps ==
    ASSUME CallTypes, CallSafe, Videos!Visit
    PROVE  CallSafe'
<1>1. /\ UNCHANGED <<call, callUpdates, callParticipants, fresh, bound, incoming, stream,
                     stopping, ending, leftovers, earlier, complete>>
      /\ callAt = "visit"
  BY DEF Videos!Visit, Videos!binding, Videos!history
<1>2. /\ callSources # None /\ callSources \in SUBSET Videos!Videos /\ callParticipants # None
      /\ adding = None /\ bound /\ stopping = "idle" /\ ending = "idle" /\ Settles(Self)
      /\ \A i \in DOMAIN callUpdates : callUpdates[i].add = {} /\ callUpdates[i].remove = {}
  BY <1>1 DEF CallSafe, PlayOrStop, Known, Looking, CallTypes, Videos!TypeOK
<1>3. OneByOne' /\ Ended'
  BY <1>1, StillKnown DEF CallSafe
<1>4. CASE todo = {} /\ callAt' = "idle" /\ UNCHANGED <<callSources, mutedByAdmin, todo, adding, crashed>>
  <2>1. MuteKnown' /\ Known'
    BY <1>1, <1>2, <1>4, StillKnown, CallNames DEF CallSafe, Known, Looking
  <2>2. PlayOrStop' /\ VideosNoted' /\ BindingTold'
    BY <1>1, <1>2, <1>4 DEF CallSafe, PlayOrStop, VideosNoted, BindingTold
  <2> QED
    BY <1>3, <1>4, <2>1, <2>2 DEF CallSafe
<1>5. CASE /\ Self \in todo /\ todo' = todo \ {Self} /\ mutedByAdmin' = TRUE
           /\ UNCHANGED <<callSources, callAt, adding, crashed>>
  <2>1. MuteKnown'
    <3> SUFFICES ASSUME call[Self] # None
                 PROVE  MuteKnown'
      BY <1>1 DEF MuteKnown
    <3>1. callParticipants[Self] # None /\ callParticipants[Self].muted
      BY <1>5 DEF CallSafe, VideosNoted
    <3>2. call[Self].muted \in BOOLEAN
      BY CallNames DEF CallTypes, Videos!TypeOK, Videos!Calls, Videos!Participant
    <3>3. \/ TRUE = call[Self].muted
          \/ \E i \in DOMAIN callUpdates : Speaks(i)
      <4>1. CASE callParticipants[Self] = call[Self]
        BY <3>1, <3>2, <4>1
      <4>2. CASE \E i \in DOMAIN callUpdates : callUpdates[i].who = Self /\ Latest(i)
        BY <4>2 DEF Latest, Unread, Result, Speaks, Unhandled
      <4> QED
        BY <1>2, <4>1, <4>2 DEF Settles, Cached
    <3> QED
      BY <1>1, <1>2, <1>5, <3>3, StillKnown DEF CallSafe, MuteKnown
  <2>2. Known'
    BY <1>1, <1>2, <1>5, StillKnown, CallNames DEF CallSafe, Known, Looking
  <2>3. PlayOrStop' /\ BindingTold'
    BY <1>1, <1>2, <1>5 DEF CallSafe, PlayOrStop, BindingTold
  <2>4. VideosNoted'
    <3>1. \A v \in todo : v # Self => v \in todo'
      BY <1>5
    <3>2. \A v \in todo' : v \in todo /\ v # Self
      BY <1>5
    <3>3. Self \notin Videos!VideosOf(callParticipants)
      BY CallNames, VideosIn
    <3>4. callAt' # "sources" /\ callSources' = callSources
      BY <1>1, <1>5
    <3> QED
      BY <1>1, <1>2, <3>1, <3>2, <3>3, <3>4 DEF CallSafe, VideosNoted
  <2> QED
    BY <1>3, <1>5, <2>1, <2>2, <2>3, <2>4 DEF CallSafe
<1>6. CASE \E v \in todo \ {Self} :
              /\ todo' = todo \ {v}
              /\ IF callSources # None /\ v \in callSources
                 THEN UNCHANGED <<callSources, callAt, adding, crashed>>
                 ELSE Videos!VisitVideo(v)
              /\ UNCHANGED mutedByAdmin
  <2>1. PICK v \in todo \ {Self} :
              /\ todo' = todo \ {v}
              /\ IF callSources # None /\ v \in callSources
                 THEN UNCHANGED <<callSources, callAt, adding, crashed>>
                 ELSE Videos!VisitVideo(v)
              /\ UNCHANGED mutedByAdmin
    BY <1>6
  <2>2. v \in Videos!Videos /\ v # None
    BY CallNames DEF CallTypes, Videos!TypeOK
  <2>3. /\ callSources' = callSources \cup {v} /\ crashed' = crashed
        /\ callAt' \in {"visit", "add"} /\ (callAt' = "add" <=> adding' # None)
        /\ adding' # None => adding' = v
        /\ v \in callSources \/ adding' = v
    <3>1. CASE v \in callSources
      <4>1. UNCHANGED <<callSources, callAt, adding, crashed>>
        BY <1>2, <2>1, <3>1
      <4> QED
        BY <1>1, <1>2, <3>1, <4>1
    <3>2. CASE v \notin callSources
      <4>1. Videos!VisitVideo(v)
        BY <2>1, <3>2
      <4> QED
        BY <1>2, <2>2, <4>1 DEF Videos!VisitVideo
    <3> QED
      BY <3>1, <3>2
  <2>4. callSources' # None
    BY <1>2, <2>2, <2>3, CallNames
  <2>5. MuteKnown'
    BY <1>1, <2>1, StillKnown DEF CallSafe
  <2>6. Known'
    BY <1>1, <1>2, StillKnown, CallNames DEF CallSafe, Known, Looking
  <2>7. PlayOrStop'
    BY <1>1, <1>2, <2>3, <2>4 DEF PlayOrStop
  <2>8. VideosNoted'
    <3>1. \A w \in callSources' : w \in Videos!VideosOf(callParticipants) \/ w \in earlier
      BY <1>2, <2>1, <2>3 DEF CallSafe, VideosNoted
    <3>2. \A w \in Videos!VideosOf(callParticipants) : w \in callSources' \/ w \in todo'
      BY <1>1, <1>2, <2>1, <2>3 DEF CallSafe, VideosNoted
    <3>3. \A w \in todo' : w \in todo
      BY <2>1
    <3>4. /\ \A w \in todo' : w # Self => w \in Videos!VideosOf(callParticipants)
          /\ Self \in todo' => callParticipants[Self] # None /\ callParticipants[Self].muted
      BY <3>3 DEF CallSafe, VideosNoted
    <3>5. callAt' # "sources"
      BY <2>3
    <3> QED
      BY <1>1, <3>1, <3>2, <3>4, <3>5 DEF VideosNoted
  <2>9. BindingTold'
    <3>1. \A w \in callSources' : w \in incoming \/ w = adding' \/ w \in earlier
      BY <1>2, <2>2, <2>3, CallNames DEF CallSafe, BindingTold
    <3>2. \A w \in incoming : w \in callSources \cup leftovers
      BY <1>2 DEF CallSafe, BindingTold
    <3> QED
      BY <1>1, <1>2, <2>3, <3>1, <3>2 DEF BindingTold
  <2> QED
    BY <1>3, <2>3, <2>5, <2>6, <2>7, <2>8, <2>9 DEF CallSafe
<1> QED
  BY <1>4, <1>5, <1>6 DEF Videos!Visit

LEMMA AddKeeps ==
    ASSUME CallTypes, CallSafe, Videos!Add, callClean'
    PROVE  CallSafe'
<1>1. /\ UNCHANGED <<call, callUpdates, callParticipants, fresh, callSources, bound, stream, mutedByAdmin,
                     stopping, ending, leftovers, earlier, complete, crashed>>
      /\ callAt = "add" /\ adding' = None
  BY DEF Videos!Add, Videos!kept
<1>2. /\ callSources # None /\ bound /\ stopping = "idle" /\ ending = "idle" /\ Settles(Self)
      /\ \A i \in DOMAIN callUpdates : callUpdates[i].add = {} /\ callUpdates[i].remove = {}
      /\ adding \in callSources
  BY <1>1 DEF CallSafe, PlayOrStop, Known, Looking, BindingTold
<1>3. incoming' = incoming \cup {adding} /\ callClean' = callClean
  BY DEF Videos!Add, Videos!Tell
<1>4. callAt' = "visit" /\ todo' = todo
  BY <1>2, <1>3 DEF Videos!Add
<1>5. OneByOne' /\ Ended' /\ MuteKnown'
  BY <1>1, StillKnown DEF CallSafe
<1>6. Known'
  BY <1>1, <1>2, StillKnown, CallNames DEF CallSafe, Known
<1>7. PlayOrStop'
  BY <1>1, <1>2, <1>4 DEF PlayOrStop
<1>8. VideosNoted'
  BY <1>1, <1>4 DEF CallSafe, VideosNoted
<1>9. BindingTold'
  BY <1>1, <1>2, <1>3 DEF CallSafe, BindingTold
<1> QED
  BY <1>1, <1>5, <1>6, <1>7, <1>8, <1>9 DEF CallSafe

LEMMA CallStopKeeps ==
    ASSUME CallTypes, CallSafe, Videos!Stop, callClean'
    PROVE  CallSafe'
<1>1. /\ UNCHANGED <<call, callUpdates, callParticipants, fresh, bound, incoming, stream, mutedByAdmin,
                     callAt, todo, adding, ending, leftovers, earlier, complete, crashed>>
      /\ callSources' = None /\ callAt = "idle"
      /\ \A i \in DOMAIN callUpdates : callUpdates[i].at \in {"sent", "done"}
  BY DEF Videos!Stop, Videos!binding
<1>2. \A i \in DOMAIN callUpdates : callUpdates[i].add = {} /\ callUpdates[i].remove = {}
  BY <1>1 DEF CallSafe, OneByOne
<1>3. OneByOne' /\ Ended' /\ MuteKnown'
  BY <1>1, StillKnown DEF CallSafe
<1>4. Known'
  BY <1>1, StillKnown, CallNames DEF CallSafe, Known, Looking
<1>5. PlayOrStop' /\ VideosNoted' /\ BindingTold'
  BY <1>1, <1>2 DEF CallSafe, PlayOrStop, VideosNoted, BindingTold
<1> QED
  BY <1>1, <1>3, <1>4, <1>5 DEF CallSafe

LEMMA StopBindingKeeps ==
    ASSUME CallTypes, CallSafe, Videos!StopBinding
    PROVE  CallSafe'
<1>1. /\ UNCHANGED <<call, callUpdates, callParticipants, fresh, callSources, stream, mutedByAdmin,
                     callAt, todo, adding, ending, leftovers, earlier, complete, crashed>>
      /\ \/ bound' = FALSE /\ incoming' = {}
         \/ stopping' = "idle" /\ UNCHANGED <<bound, incoming>>
      /\ stopping = "stop"
  BY DEF Videos!StopBinding, Videos!kept, Videos!history
<1>2. callAt = "idle"
  BY <1>1 DEF CallSafe, PlayOrStop
<1>3. OneByOne' /\ Ended'
  BY <1>1, StillKnown DEF CallSafe
<1>4. CASE bound' = FALSE /\ incoming' = {}
  BY <1>1, <1>2, <1>3, <1>4, UnboundKeeps
<1>5. CASE stopping' = "idle" /\ UNCHANGED <<bound, incoming>>
  <2>1. MuteKnown'
    BY <1>1, <1>5, StillKnown DEF CallSafe
  <2>2. Known'
    BY <1>1, <1>2, StillKnown DEF CallSafe, Known, Looking
  <2>3. PlayOrStop' /\ VideosNoted' /\ BindingTold'
    BY <1>1, <1>2, <1>5 DEF CallSafe, PlayOrStop, VideosNoted, BindingTold
  <2> QED
    BY <1>1, <1>3, <2>1, <2>2, <2>3 DEF CallSafe
<1> QED
  BY <1>1, <1>4, <1>5
-----------------------------------------------------------------------------
(* What is known of the participants holds until two handlers overlap or   *)
(* something fails, and for ever where that does not happen.               *)
LEMMA CallSafeKept ==
    ASSUME CallTypes, CallSafe, Videos!Next, callClean'
    PROVE  CallSafe'
BY ChangeKeeps, MinuteKeeps, ApplyKeeps, VideoKeeps, OneselfKeeps, CallJoinKeeps, NotConnectedKeeps,
   ParticipantsKeep, SourcesKeep, VisitKeeps, AddKeeps, CallStopKeeps, StopBindingKeeps, CallLeaveKeeps,
   EndKeeps, ForgetKeeps, EndStopKeeps
   DEF Videos!Next

LEMMA CleanBefore ==
    ASSUME CallTypes, Videos!Next, callClean'
    PROVE  callClean
<1>1. callClean \in BOOLEAN
  BY DEF CallTypes, Videos!TypeOK
<1>2. CASE Videos!Change \/ Videos!Leave
  BY <1>1, <1>2 DEF Videos!Change, Videos!Leave
<1>3. CASE Videos!Minute \/ Videos!Participants \/ Videos!Sources \/ Videos!Visit
  BY <1>1, <1>3 DEF Videos!Minute, Videos!Participants, Videos!Sources, Videos!Visit, Videos!history
<1>4. CASE Videos!Add \/ Videos!Stop \/ Videos!StopBinding
  BY <1>1, <1>4 DEF Videos!Add, Videos!Tell, Videos!Stop, Videos!StopBinding, Videos!history
<1>5. CASE Videos!Join \/ Videos!Reconnected \/ Videos!NotConnected
  BY <1>1, <1>5 DEF Videos!Join, Videos!Reconnected, Videos!Joined, Videos!NotConnected
<1>6. CASE Videos!End \/ Videos!Forget \/ Videos!EndStop
  BY <1>1, <1>6 DEF Videos!End, Videos!Forget, Videos!EndStop
<1>7. ASSUME NEW i \in DOMAIN callUpdates,
             Videos!Apply(i) \/ Videos!Video(i) \/ Videos!Oneself(i) \/ Videos!Reconnect(i)
      PROVE  callClean
  <2>1. CASE Videos!Apply(i)
    BY <1>1, <2>1 DEF Videos!Apply
  <2>2. CASE Videos!Video(i)
    BY <1>1, <2>2 DEF Videos!Video, Videos!Tell
  <2>3. CASE Videos!Oneself(i)
    BY <1>1, <2>3 DEF Videos!Oneself, Videos!Unmuted
  <2>4. CASE Videos!Reconnect(i)
    BY <1>1, <2>4 DEF Videos!Reconnect
  <2> QED
    BY <1>7, <2>1, <2>2, <2>3, <2>4
<1> QED
  BY <1>2, <1>3, <1>4, <1>5, <1>6, <1>7 DEF Videos!Next

(* The cache, the videos noted, the videos of the binding and the list of  *)
(* muted chats follow the call: what they do not have yet, an update that  *)
(* is on its way tells them.                                               *)
THEOREM CallInvCorrect == Videos!Spec => []CallInv
<1>1. Videos!Init => CallInv
  <2> SUFFICES ASSUME Videos!Init
               PROVE  CallInv
    OBVIOUS
  <2>1. /\ callUpdates = <<>> /\ events = 0 /\ callParticipants = None /\ fresh = FALSE
        /\ callSources = None /\ bound = FALSE /\ incoming = {} /\ stream = FALSE
        /\ mutedByAdmin = FALSE /\ callAt = "idle" /\ todo = {} /\ adding = None
        /\ stopping = "idle" /\ ending = "idle" /\ leftovers = {} /\ earlier = {} /\ complete = FALSE /\ callClean = TRUE
        /\ crashed = FALSE /\ call[Self] = None
    BY DEF Videos!Init
  <2>2. call \in Videos!Calls
    <3>1. /\ [video |-> {}, muted |-> FALSE] \in Videos!Participant
          /\ [video |-> Kinds, muted |-> FALSE] \in Videos!Participant
      BY DEF Videos!Participant
    <3> QED
      BY <3>1 DEF Videos!Init, Videos!Calls
  <2>3. callUpdates \in Seq(Videos!Update) /\ Len(callUpdates) = 0 /\ DOMAIN callUpdates = {}
    BY <2>1, EmptySeq
  <2>4. CallTypes
    <3>1. events \in 0..MaxEvents /\ Len(callUpdates) <= MaxEvents /\ Len(callUpdates) <= events
      BY <2>1, <2>3, CallNames
    <3> QED
      BY <2>1, <2>2, <2>3, <3>1 DEF CallTypes, Videos!TypeOK
  <2>5. OneByOne /\ Ended /\ MuteKnown
    BY <2>1, <2>3 DEF OneByOne, Ended, Explained, MuteKnown
  <2>6. Known
    BY <2>1 DEF Known, Looking
  <2>7. PlayOrStop /\ VideosNoted /\ BindingTold
    BY <2>1, <2>3 DEF PlayOrStop, VideosNoted, BindingTold
  <2> QED
    BY <2>1, <2>4, <2>5, <2>6, <2>7 DEF CallInv, CallSafe
<1>2. CallInv /\ [Videos!Next]_(Videos!vars) => CallInv'
  <2> SUFFICES ASSUME CallInv, [Videos!Next]_(Videos!vars)
               PROVE  CallInv'
    OBVIOUS
  <2>1. CallTypes'
    BY CallTypesKept DEF CallInv
  <2>2. CASE Videos!Next
    BY <2>1, <2>2, CleanBefore, CallSafeKept DEF CallInv
  <2>3. CASE UNCHANGED Videos!vars
    <3>1. UNCHANGED <<call, callUpdates, callParticipants, fresh, callSources, bound, incoming, stream,
                      mutedByAdmin, callAt, todo, adding, stopping, ending, leftovers, earlier, complete, callClean,
                      crashed>>
      BY <2>3 DEF Videos!vars, Videos!kept, Videos!binding, Videos!going, Videos!history
    <3>2. CallSafe => OneByOne' /\ Ended' /\ MuteKnown'
      BY <3>1, StillKnown DEF CallSafe
    <3>3. CallSafe => Known'
      BY <3>1, StillKnown DEF CallSafe, Known
    <3>4. CallSafe => PlayOrStop' /\ VideosNoted' /\ BindingTold'
      BY <3>1 DEF CallSafe, PlayOrStop, VideosNoted, BindingTold
    <3> QED
      BY <2>1, <3>1, <3>2, <3>3, <3>4 DEF CallInv, CallSafe
  <2> QED
    BY <2>2, <2>3
<1> QED
  BY <1>1, <1>2, PTL DEF Videos!Spec

(* When all is done the binding has the videos noted, but for those of     *)
(* who has left and those noted in an earlier call, and what is noted is,   *)
(* but for the latter, the videos of the call.                             *)
THEOREM SourcesInStepCorrect == Videos!Spec => []SourcesInStep
<1>1. CallInv => SourcesInStep
  <2> SUFFICES ASSUME CallInv, Videos!Quiet, callClean, bound, callSources # None
               PROVE  /\ incoming \subseteq callSources \cup leftovers
                      /\ callSources \subseteq incoming \cup earlier
                      /\ complete => /\ Videos!VideosOf(call) \subseteq callSources
                                     /\ callSources \subseteq Videos!VideosOf(call) \cup earlier
    BY DEF SourcesInStep, Videos!SourcesInStep
  <2>1. /\ CallTypes /\ CallSafe /\ callAt = "idle"
        /\ \A i \in DOMAIN callUpdates : callUpdates[i].at = "done"
    BY DEF CallInv, Videos!Quiet
  <2>2. adding = None /\ \A i \in DOMAIN callUpdates : callUpdates[i].add = {} /\ callUpdates[i].remove = {}
    BY <2>1 DEF CallSafe, OneByOne, PlayOrStop
  <2>3. callSources \in SUBSET Videos!Videos
    BY <2>1 DEF CallTypes, Videos!TypeOK
  <2>4. incoming \subseteq callSources \cup leftovers /\ callSources \subseteq incoming \cup earlier
    BY <2>1, <2>2, <2>3, CallNames DEF CallSafe, BindingTold
  <2>5. ASSUME complete
        PROVE  Videos!VideosOf(callParticipants) = Videos!VideosOf(call)
    <3>1. \A p \in Videos!People : callParticipants[p] = call[p]
      BY <2>1, <2>5 DEF CallSafe, Known, Settles, Cached, Latest, Unread
    <3>2. \A v \in Videos!Videos : callParticipants[v[1]] = call[v[1]]
      BY <3>1, PairOf
    <3> QED
      BY <3>2 DEF Videos!VideosOf
  <2>6. /\ callSources \subseteq Videos!VideosOf(callParticipants) \cup earlier
        /\ Videos!VideosOf(callParticipants) \subseteq callSources
    BY <2>1 DEF CallSafe, PlayOrStop, VideosNoted
  <2> QED
    BY <2>4, <2>5, <2>6
<1> QED
  BY <1>1, CallInvCorrect, PTL

(* Then the chat is listed as muted by an administrator just if the        *)
(* assistant cannot unmute itself, unless it is a stream.                  *)
THEOREM MutedInStepCorrect == Videos!Spec => []MutedInStep
<1>1. CallInv => MutedInStep
  BY DEF CallInv, CallSafe, MuteKnown, Speaks, Unhandled, MutedInStep, Videos!MutedInStep, Videos!Quiet
<1> QED
  BY <1>1, CallInvCorrect, PTL
-----------------------------------------------------------------------------
(* The parts together.                                                     *)

(* While one part moves the others stand still: a run of MCChat is one of  *)
(* each part, and each theorem about a part holds in it.                   *)
THEOREM PartsCorrect == MCSpec => Spec /\ Assistant!Spec /\ Videos!Spec
<1> DEFINE all == <<part, listVars, memberVars, videoVars>>
<1>1. MCInit => Init /\ Assistant!Init /\ Videos!Init
  BY DEF MCInit
<1>2. [MCNext]_all => /\ [Next]_vars
                      /\ [Assistant!Next]_(Assistant!vars)
                      /\ [Videos!Next]_(Videos!vars)
  <2> SUFFICES ASSUME [MCNext]_all
               PROVE  /\ [Next]_vars /\ [Assistant!Next]_(Assistant!vars)
                      /\ [Videos!Next]_(Videos!vars)
    OBVIOUS
  <2>1. UNCHANGED listVars => UNCHANGED vars
    BY DEF listVars, vars
  <2>2. UNCHANGED memberVars => UNCHANGED Assistant!vars
    BY DEF memberVars, Assistant!vars, Assistant!joining, Assistant!leaveAll, Assistant!history
  <2>3. UNCHANGED videoVars => UNCHANGED Videos!vars
    BY DEF videoVars, Videos!vars, Videos!kept, Videos!binding, Videos!going, Videos!history
  <2> QED
    BY <2>1, <2>2, <2>3 DEF MCNext
<1> QED
  BY <1>1, <1>2, PTL DEF MCSpec, Spec, Assistant!Spec, Videos!Spec

(* The types of all parts, whichever of them moves.                        *)
THEOREM TypesCorrect == MCSpec => []TypesOK
<1>1. TypeOK /\ MemberInv /\ CallInv => TypesOK
  BY DEF TypesOK, MemberInv, CallInv, CallTypes
<1> QED
  BY <1>1, PartsCorrect, PlaylistInvCorrect, MemberInvCorrect, CallInvCorrect, PTL
=============================================================================
