----------------------------- MODULE ChatStore -----------------------------
(***************************************************************************)
(* The settings of one chat: its document in MongoDB and the copy of it,   *)
(* or of a part of it, in a cache whose entries expire                     *)
(* (src/src/core/db/mongo.go, src/src/core/cache/cache.go), and the choice *)
(* of the chat's assistant (getClientName of src/src/vc/calls.go).         *)
(*                                                                         *)
(* A member of Handlers is a goroutine in one method of Database at a time.*)
(* Every access to MongoDB and every one to the cache is a step.  The      *)
(* methods of one kind differ in the field only: "get" stands for the      *)
(* getters, "set" for updateChatField.                                     *)
(***************************************************************************)
EXTENDS Naturals

CONSTANTS Missing,    \* a field that a document does not have
          None,       \* no goroutine, no document, no cache entry
          Handlers,   \* goroutines
          Settings,   \* fields with a plain value,
          Assistant,  \* among them the name of the assistant
          Values,     \* their values
          Available,  \* names of assistants whose clients run
          Users,      \* who can be authorised
          Stored,     \* what an earlier run may have left in MongoDB
          MaxWrites,  \* bound: methods called that disturb what is cached
          Faults      \* what may fail

(* "error": MongoDB refuses; "answer": the 5 seconds of the context pass   *)
(* after MongoDB did what it was asked; "restart": the process ends.       *)
FaultKinds == {"error", "answer", "restart"}

VARIABLES
    doc,     \* the document in MongoDB, or None
    entry,   \* the map in the chat's cache entry, or None if it has expired
    mutex,   \* who holds chatCacheMux
    pc,      \* where a goroutine is,
    task,    \* what it was called for,
    held,    \* the map it got
    writes,  \* history: methods begun that are bounded by MaxWrites
    clean    \* history: no answer was lost, no error passed over, and no rivals
             \* have overlapped

history == <<writes, clean>>
vars == <<doc, entry, mutex, pc, task, held, history>>

(* A document, or what the cache has of one: settings, auth_users, and is  *)
(* it whole?  Only what came from MongoDB is, and has an "_id".            *)
Maps == [set : [Settings -> Values \cup {Missing}], auth : {Missing} \cup SUBSET Users,
         whole : BOOLEAN]

Documents == {m \in Maps : m.whole}

Blanks(whole) == [set |-> [f \in Settings |-> Missing], auth |-> Missing, whole |-> whole]

(* A map that is made in memory, and a document without fields.            *)
Empty == Blanks(FALSE)
Bare == Blanks(TRUE)

ASSUME StoreAssumption ==
    /\ Assistant \in Settings
    /\ Available \subseteq Values /\ Available # {}
    /\ Stored \subseteq {None} \cup Documents
    /\ Missing \notin Values /\ \A a \in SUBSET Users : a # Missing
    /\ None \notin Handlers \cup Maps
    /\ MaxWrites \in Nat
    /\ Faults \subseteq FaultKinds

(* Only getClientName ("assign") calls SetAssistant.  It draws a client    *)
(* before it knows if it needs one, which comes to the same.               *)
SetTasks == [op : {"set"}, field : Settings \ {Assistant}, value : Values]
               \cup [op : {"assign"}, field : {Assistant}, value : Available]
AuthTasks == [op : {"add", "remove"}, user : Users]
OtherTasks == [op : {"get", "chat", "all", "clear"}]
Tasks == SetTasks \cup AuthTasks \cup OtherTasks

Idle == [op |-> "get"]

Labels == {"idle", "read", "find", "fill", "choose", "write", "lock", "merge",
           "store", "upsert", "list", "blank", "unset", "delete"}

(* The type invariant, and that who holds the mutex is where it is needed. *)
TypeOK ==
    /\ doc \in {None} \cup Documents
    /\ entry \in {None} \cup Maps
    /\ mutex \in Handlers \cup {None}
    /\ pc \in [Handlers -> Labels]
    /\ task \in [Handlers -> Tasks]
    /\ held \in [Handlers -> {None} \cup Maps]
    /\ writes \in 0..MaxWrites
    /\ clean \in BOOLEAN
    /\ \A h \in Handlers :
          mutex = h <=> \/ pc[h] \in {"merge", "store"}
                        \/ pc[h] \in {"read", "find", "fill"} /\ task[h] \in AuthTasks

(* The bot starts with an empty cache and the document of an earlier run.  *)
Init ==
    /\ doc \in Stored
    /\ entry = None
    /\ mutex = None
    /\ pc = [h \in Handlers |-> "idle"]
    /\ task = [h \in Handlers |-> Idle]
    /\ held = [h \in Handlers |-> None]
    /\ writes = 0
    /\ clean = TRUE

-----------------------------------------------------------------------------
(* The cache.                                                              *)

(* Mutant: Cache.Get does not look at the expiration.                      *)
ExpireNothing == entry # None /\ UNCHANGED vars

(* 20 minutes after the last Set an entry is for Cache.Get as if it were   *)
(* not there.                                                              *)
Expire ==
    /\ entry # None /\ entry' = None
    /\ UNCHANGED <<doc, mutex, pc, task, held, history>>

-----------------------------------------------------------------------------
(* Calls, and what the history says of them.                               *)

Writing(t) == t.op \in {"set", "add", "remove", "assign", "clear"}

Reading(t) == t.op \in {"get", "chat", "assign"}

(* Two methods whose overlap the mutex is not made for: a getter fills the *)
(* cache outside of it, /clearass deletes outside of it, and two writers   *)
(* may want the same field to be different.                                *)
Rivals(t, u) ==
    \/ Writing(t) /\ (Reading(u) \/ u.op = "clear")
    \/ Writing(u) /\ (Reading(t) \/ t.op = "clear")
    \/ t.op = "set" /\ u.op = "set" /\ t.field = u.field
    \/ t.op \in {"add", "remove"} /\ u.op \in {"add", "remove"} /\ t.user = u.user

Goto(h, l) == pc' = [pc EXCEPT ![h] = l]

Entrance(t) ==
    CASE t.op \in {"get", "chat", "assign"} -> "read"
      [] t.op \in {"set", "add", "remove"} -> "write"
      [] t.op = "all" -> "list"
      [] t.op = "clear" -> "choose"

(* A handler calls a method of Database (or getClientName).                *)
Call(h) ==
    /\ pc[h] = "idle"
    /\ \E t \in Tasks :
          /\ t.op \notin {"get", "chat"} => writes < MaxWrites
          /\ writes' = IF t.op \in {"get", "chat"} THEN writes ELSE writes + 1
          /\ task' = [task EXCEPT ![h] = t]
          /\ clean' = (clean /\ \A g \in Handlers \ {h} :
                                   pc[g] # "idle" => ~Rivals(t, task[g]))
          /\ Goto(h, Entrance(t))
    /\ UNCHANGED <<doc, entry, mutex, held>>

(* The method returns; the deferred Unlock runs.                           *)
Return(h) ==
    /\ Goto(h, "idle")
    /\ task' = [task EXCEPT ![h] = Idle]
    /\ held' = [held EXCEPT ![h] = None]

Unlock(h) == mutex' = IF mutex = h THEN None ELSE mutex

-----------------------------------------------------------------------------
(* getChat and its callers.                                                *)

(* What the caller does with the map m it got, or with None: a getter      *)
(* returns a field or the default, getClientName an assistant whose client *)
(* runs, AddChat if there is a chat.                                       *)
Got(h, m) ==
    \/ task[h].op = "get" /\ Return(h)
    \/ /\ task[h].op = "chat"
       /\ IF m # None THEN Return(h) ELSE Goto(h, "upsert") /\ UNCHANGED <<task, held>>
    \/ /\ task[h].op = "assign"
       /\ IF m # None /\ m.set[Assistant] \in Available
          THEN Return(h)
          ELSE Goto(h, "write") /\ UNCHANGED <<task, held>>
    \/ /\ task[h] \in AuthTasks
       /\ Goto(h, "store")
       /\ held' = [held EXCEPT ![h] = m]
       /\ UNCHANGED task

(* The cache first ...                                                     *)
Read(h) ==
    /\ pc[h] = "read"
    /\ IF entry # None
       THEN Got(h, entry)
       ELSE Goto(h, "find") /\ UNCHANGED <<task, held>>
    /\ UNCHANGED <<doc, entry, mutex, history>>

(* ... then FindOne.  No document and an error look alike to most callers. *)
Find(h) ==
    /\ pc[h] = "find"
    /\ \/ /\ doc # None
          /\ Goto(h, "fill")
          /\ held' = [held EXCEPT ![h] = doc]
          /\ UNCHANGED task
       \/ (doc = None \/ "error" \in Faults) /\ Got(h, None)
    /\ UNCHANGED <<doc, entry, mutex, history>>

(* What was found goes into the cache, whatever is there by now.           *)
Fill(h) ==
    /\ pc[h] = "fill"
    /\ entry' = held[h]
    /\ Got(h, held[h])
    /\ UNCHANGED <<doc, mutex, history>>

-----------------------------------------------------------------------------
(* The writers: MongoDB first, then the cache.                             *)

(* The users GetAuthUsers shows.                                           *)
Authorised(m) == IF m.auth = Missing THEN {} ELSE m.auth

(* What MongoDB makes of a writer's update of the document.                *)
Updated(t) ==
    LET d == IF doc = None THEN Bare ELSE doc
    IN CASE t \in SetTasks -> [d EXCEPT !.set[t.field] = t.value]
         [] t.op = "add" -> [d EXCEPT !.auth = Authorised(d) \cup {t.user}]
         [] t.op = "remove" ->
              IF d.auth = Missing THEN doc ELSE [d EXCEPT !.auth = @ \ {t.user}]

(* UpdateOne; an error is returned and the cache left alone.               *)
Write(h) ==
    /\ pc[h] = "write"
    /\ \/ /\ doc' = Updated(task[h])
          /\ Goto(h, "lock")
          /\ UNCHANGED <<task, held, clean>>
       \/ "error" \in Faults /\ Return(h) /\ UNCHANGED <<doc, clean>>
       \/ /\ "answer" \in Faults
          /\ doc' = Updated(task[h])
          /\ Return(h)
          /\ clean' = FALSE
    /\ UNCHANGED <<entry, mutex, writes>>

(* Mutant: the writers do not take the mutex.                              *)
LockNothing(h) ==
    /\ pc[h] = "lock"
    /\ Goto(h, IF task[h] \in AuthTasks THEN "read" ELSE "merge")
    /\ UNCHANGED <<doc, entry, mutex, task, held, history>>

Lock(h) ==
    /\ pc[h] = "lock" /\ mutex = None
    /\ mutex' = h
    /\ Goto(h, IF task[h] \in AuthTasks THEN "read" ELSE "merge")
    /\ UNCHANGED <<doc, entry, task, held, history>>

(* updateChatField copies the cached map, or starts an empty one that will *)
(* stand for the whole document.                                           *)
Merge(h) ==
    /\ pc[h] = "merge"
    /\ held' = [held EXCEPT ![h] = IF entry = None THEN Empty ELSE entry]
    /\ Goto(h, "store")
    /\ UNCHANGED <<doc, entry, mutex, task, history>>

(* The map with the writer's change.                                       *)
Changed(m, t) ==
    CASE t \in SetTasks -> [m EXCEPT !.set[t.field] = t.value]
      [] t.op = "add" -> [m EXCEPT !.auth = Authorised(m) \cup {t.user}]
      [] t.op = "remove" -> [m EXCEPT !.auth = Authorised(m) \ {t.user}]

Store(h) ==
    /\ pc[h] = "store" /\ held[h] # None
    /\ entry' = Changed(held[h], task[h])
    /\ Unlock(h)
    /\ Return(h)
    /\ UNCHANGED <<doc, history>>

(* Everything in memory is lost; the document is not.                      *)
Restarted ==
    /\ entry' = None
    /\ mutex' = None
    /\ pc' = [h \in Handlers |-> "idle"]
    /\ task' = [h \in Handlers |-> Idle]
    /\ held' = [h \in Handlers |-> None]
    /\ UNCHANGED <<doc, history>>

(* Mutant: the panic leaves the mutex locked.                              *)
PanicLocked(h) ==
    /\ pc[h] = "store" /\ held[h] = None
    /\ Return(h)
    /\ UNCHANGED <<doc, entry, mutex, history>>

(* AddAuthUser and RemoveAuthUser write to a nil map where getChat found   *)
(* nothing: the handler panics, and the process with it or not.            *)
Panic(h) ==
    /\ pc[h] = "store" /\ held[h] = None
    /\ \/ Unlock(h) /\ Return(h) /\ UNCHANGED <<doc, entry, history>>
       \/ Restarted

(* AddChat: an upsert of an empty document.                                *)
Upsert(h) ==
    /\ pc[h] = "upsert"
    /\ \/ doc' = IF doc = None THEN Bare ELSE doc
       \/ "error" \in Faults /\ UNCHANGED doc
    /\ Return(h)
    /\ UNCHANGED <<entry, mutex, history>>

-----------------------------------------------------------------------------
(* The methods for all chats, as far as this chat is concerned.            *)

(* GetAllChats (/stats and broadcasts) lists the chat ...                  *)
List(h) ==
    /\ pc[h] = "list"
    /\ \/ doc # None /\ Goto(h, "blank") /\ UNCHANGED <<task, held>>
       \/ (doc = None \/ "error" \in Faults) /\ Return(h)
    /\ UNCHANGED <<doc, entry, mutex, history>>

(* ... and caches an empty map for it.                                     *)
Blank(h) ==
    /\ pc[h] = "blank"
    /\ entry' = Empty
    /\ Return(h)
    /\ UNCHANGED <<doc, mutex, history>>

(* ClearAllAssistants: is this chat among those that have one?  That the   *)
(* list ends early, or that a document of it cannot be decoded, is not     *)
(* looked at.                                                              *)
Choose(h) ==
    LET assigned == doc # None /\ doc.set[Assistant] # Missing
    IN /\ pc[h] = "choose"
       /\ \/ /\ Goto(h, "unset")
             /\ held' = [held EXCEPT ![h] = IF assigned THEN Empty ELSE None]
             /\ UNCHANGED <<task, clean>>
          \/ /\ "error" \in Faults /\ assigned
             /\ Goto(h, "unset")
             /\ held' = [held EXCEPT ![h] = None]
             /\ UNCHANGED task
             /\ clean' = FALSE
          \/ "error" \in Faults /\ Return(h) /\ UNCHANGED clean
       /\ UNCHANGED <<doc, entry, mutex, writes>>

(* UpdateMany takes it from all chats that have one now; an error, also of *)
(* an answer that is late, ends the method here ...                        *)
Unset(h) ==
    LET unset == doc' = IF doc = None THEN None ELSE [doc EXCEPT !.set[Assistant] = Missing]
    IN /\ pc[h] = "unset"
       /\ \/ /\ unset /\ UNCHANGED clean
             /\ IF held[h] = None THEN Return(h) ELSE Goto(h, "delete") /\ UNCHANGED <<task, held>>
          \/ "error" \in Faults /\ Return(h) /\ UNCHANGED <<doc, clean>>
          \/ "answer" \in Faults /\ unset /\ Return(h) /\ clean' = FALSE
       /\ UNCHANGED <<entry, mutex, writes>>

(* Mutant: the cache entries stay.                                         *)
DeleteNothing(h) ==
    /\ pc[h] = "delete"
    /\ Return(h)
    /\ UNCHANGED <<doc, entry, mutex, history>>

(* ... and the entries of the chats that had one then are deleted.         *)
Delete(h) ==
    /\ pc[h] = "delete"
    /\ entry' = None
    /\ Return(h)
    /\ UNCHANGED <<doc, mutex, history>>

-----------------------------------------------------------------------------
Step(h) ==
    \/ Read(h) \/ Find(h) \/ Fill(h)
    \/ Write(h) \/ Lock(h) \/ Merge(h) \/ Store(h) \/ Panic(h)
    \/ Upsert(h) \/ List(h) \/ Blank(h)
    \/ Choose(h) \/ Unset(h) \/ Delete(h)

Restart == "restart" \in Faults /\ Restarted

Next == Expire \/ Restart \/ \E h \in Handlers : Call(h) \/ Step(h)

Spec == Init /\ [][Next]_vars

(* Methods go on, and time passes.                                         *)
FairSpec == Spec /\ WF_vars(Expire) /\ \A h \in Handlers : WF_vars(Step(h))

-----------------------------------------------------------------------------
(* What is expected.                                                       *)

Changing(f) == \E h \in Handlers :
    /\ pc[h] # "idle"
    /\ \/ task[h] \in SetTasks /\ task[h].field = f
       \/ task[h].op = "clear" /\ f = Assistant

Authorising(u) == \E h \in Handlers :
    pc[h] # "idle" /\ task[h] \in AuthTasks /\ task[h].user = u

(* What the cache says is so in the database, though any number of writers *)
(* of different fields and users overlap: their copies of the map must not *)
(* undo each other, which is what chatCacheMux is for.  What it does not   *)
(* say is missing in the database too, if the map is whole; in one that is *)
(* not, AddAuthUser lists the new user and leaves out all others.  Nothing *)
(* is said after rivals, after a write whose answer was lost, or after a   *)
(* /clearass that lost an answer or part of its list of chats: its         *)
(* UpdateMany was done, and entries of the assistants stay.                *)
CacheTellsTruth ==
    clean /\ entry # None =>
        /\ doc # None
        /\ \A f \in Settings :
              (entry.set[f] # Missing \/ entry.whole) /\ ~Changing(f) =>
                  entry.set[f] = doc.set[f]
        /\ \A u \in Users : ~Authorising(u) =>
              /\ u \in Authorised(entry) => u \in Authorised(doc)
              /\ u \in Authorised(doc) /\ entry.whole => u \in Authorised(entry)

(* Whatever raced, was lost or was cached in part: when nothing is written *)
(* any more, the settings that are shown become those of the database and  *)
(* stay so, since the entries expire.                                      *)
Settles ==
    <>[](entry # None =>
            doc # None /\ entry.set = doc.set /\ Authorised(entry) = Authorised(doc))

(* Every method returns, also after a panic of another with the mutex.     *)
MethodsReturn == \A h \in Handlers : pc[h] # "idle" ~> pc[h] = "idle"

(* getClientName "prioritizes existing assignments from the database" and  *)
(* draws a client "if no assignment exists".                               *)
AssignmentsKept ==
    [][\A h \in Handlers :
          pc[h] = "write" /\ task[h].op = "assign" /\ doc' # doc =>
              doc = None \/ doc.set[Assistant] \notin Available]_vars
=============================================================================
