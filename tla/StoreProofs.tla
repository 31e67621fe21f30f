---------------------------- MODULE StoreProofs ----------------------------
(***************************************************************************)
(* Proofs about ChatStore, for all goroutines, fields, users and bounds.   *)
(***************************************************************************)
EXTENDS ChatStore, TLAPS

-----------------------------------------------------------------------------
(* The inductive invariant.                                                *)

(* Where a goroutine can be with the task t and the map m in hand.         *)
Fits(l, t, m) ==
    /\ l \in {"write", "lock", "store"} => t \in SetTasks \cup AuthTasks
    /\ l = "merge" => t \in SetTasks
    /\ l \in {"read", "find", "fill"} => t.op \in {"get", "chat", "assign"} \/ t \in AuthTasks
    /\ l = "upsert" => t.op = "chat"
    /\ l \in {"list", "blank"} => t.op = "all"
    /\ l \in {"choose", "unset", "delete"} => t.op = "clear"
    /\ l = "fill" => m # None
    /\ l = "store" /\ t \in SetTasks => m # None

Kinds(h) == Fits(pc[h], task[h], held[h])

(* Where it has the mutex.                                                 *)
Locked(l, t) == l \in {"merge", "store"} \/ (l \in {"read", "find", "fill"} /\ t \in AuthTasks)

(* No two rivals are at work.                                              *)
Peace ==
    \A g, h \in Handlers :
        g # h /\ pc[g] # "idle" /\ pc[h] # "idle" => ~Rivals(task[g], task[h])

(* MongoDB has a change that the cache may not have yet.                   *)
Sets(h, f) ==
    \/ task[h] \in SetTasks /\ task[h].field = f /\ pc[h] \in {"lock", "merge", "store"}
    \/ task[h].op = "clear" /\ f = Assistant /\ pc[h] = "delete"

Authorises(h, u) ==
    /\ task[h] \in AuthTasks /\ task[h].user = u
    /\ pc[h] \in {"lock", "read", "find", "fill", "store"}

(* A map, in the cache or in a goroutine's hand, tells the truth but for   *)
(* such changes.                                                           *)
TellsField(m, f) == m.set[f] # Missing \/ m.whole => m.set[f] = doc.set[f]

TellsUser(m, u) ==
    /\ u \in Authorised(m) => u \in Authorised(doc)
    /\ u \in Authorised(doc) /\ m.whole => u \in Authorised(m)

True(m) ==
    /\ doc # None
    /\ \A f \in Settings : TellsField(m, f) \/ \E h \in Handlers : Sets(h, f)
    /\ \A u \in Users : TellsUser(m, u) \/ \E h \in Handlers : Authorises(h, u)

(* What is as h made it, or found it, in MongoDB.                          *)
Made(h) ==
    /\ task[h] \in SetTasks /\ pc[h] \in {"lock", "merge", "store"} =>
          doc # None /\ doc.set[task[h].field] = task[h].value
    /\ \A u \in Users : Authorises(h, u) /\ task[h].op = "add" =>
          doc # None /\ u \in Authorised(doc)
    /\ \A u \in Users : Authorises(h, u) /\ task[h].op = "remove" =>
          doc = None \/ u \notin Authorised(doc)
    /\ pc[h] = "blank" => doc # None
    /\ pc[h] = "unset" /\ held[h] = None => doc = None \/ doc.set[Assistant] = Missing

(* h found, or may find, no document.                                      *)
Awaits(h) ==
    task[h] \in AuthTasks /\ (pc[h] = "find" \/ (pc[h] = "store" /\ held[h] = None))

(* What h has in hand, and what nobody puts into the cache while h, with   *)
(* the mutex, finds nothing there.                                         *)
InHand(h) ==
    /\ pc[h] \in {"fill", "store"} /\ held[h] # None => True(held[h])
    /\ Awaits(h) => entry \in {None, Empty}

CleanInv ==
    /\ Peace
    /\ entry # None => True(entry)
    /\ \A h \in Handlers : Made(h) /\ InHand(h)

StoreInv ==
    /\ TypeOK
    /\ \A h \in Handlers : Kinds(h)
    /\ clean => CleanInv

-----------------------------------------------------------------------------
(* Tasks and maps.                                                         *)

LEMMA TaskKinds ==
    ASSUME NEW t \in Tasks
    PROVE  /\ t \in SetTasks <=> t.op \in {"set", "assign"}
           /\ t \in AuthTasks <=> t.op \in {"add", "remove"}
           /\ t.op \in {"set", "assign", "add", "remove", "get", "chat", "all", "clear"}
           /\ t \in SetTasks => t.field \in Settings /\ t.value \in Values
           /\ t.op = "assign" => t.field = Assistant
           /\ t.op = "set" => t.field # Assistant
           /\ t \in AuthTasks => t.user \in Users
  BY StoreAssumption DEF StoreAssumption, Tasks, SetTasks, AuthTasks, OtherTasks

LEMMA RivalsBoth ==
    ASSUME NEW t \in Tasks, NEW u \in Tasks, Rivals(t, u)
    PROVE  Rivals(u, t)
  BY DEF Rivals

LEMMA BlankMaps ==
    ASSUME NEW w \in BOOLEAN
    PROVE  /\ Blanks(w) \in Maps /\ Blanks(w).whole = w
           /\ \A f \in Settings : Blanks(w).set[f] = Missing
           /\ Blanks(w).auth = Missing /\ Authorised(Blanks(w)) = {}
  BY DEF Blanks, Maps, Authorised

LEMMA SetField ==
    ASSUME NEW m \in Maps, NEW f \in Settings, NEW v \in Values \cup {Missing}
    PROVE  /\ [m EXCEPT !.set[f] = v] \in Maps
           /\ [m EXCEPT !.set[f] = v].set[f] = v
           /\ \A g \in Settings \ {f} : [m EXCEPT !.set[f] = v].set[g] = m.set[g]
           /\ [m EXCEPT !.set[f] = v].whole = m.whole
           /\ [m EXCEPT !.set[f] = v].auth = m.auth
  BY DEF Maps

LEMMA SetUsers ==
    ASSUME NEW m \in Maps, NEW a \in SUBSET Users
    PROVE  /\ [m EXCEPT !.auth = a] \in Maps
           /\ [m EXCEPT !.auth = a].set = m.set
           /\ [m EXCEPT !.auth = a].whole = m.whole
           /\ Authorised([m EXCEPT !.auth = a]) = a
  BY StoreAssumption DEF StoreAssumption, Maps, Authorised

LEMMA AuthorisedUsers ==
    ASSUME NEW m \in Maps
    PROVE  Authorised(m) \in SUBSET Users
  BY DEF Maps, Authorised

(* What is in a map with t's change, and who is authorised there.          *)
Fields(m, t, n) ==
    /\ \A f \in Settings : n.set[f] = IF t \in SetTasks /\ f = t.field THEN t.value ELSE m.set[f]
    /\ Authorised(n) = CASE t.op = "add" -> Authorised(m) \cup {t.user}
                        [] t.op = "remove" -> Authorised(m) \ {t.user}
                        [] OTHER -> Authorised(m)

LEMMA ChangedMap ==
    ASSUME NEW m \in Maps, NEW t \in SetTasks \cup AuthTasks
    PROVE  Changed(m, t) \in Maps /\ Changed(m, t).whole = m.whole /\ Fields(m, t, Changed(m, t))
<1>1. t \in Tasks
  BY DEF Tasks
<1>2. CASE t \in SetTasks
  <2>1. t.op \in {"set", "assign"} /\ t.field \in Settings /\ t.value \in Values
    BY <1>1, <1>2, TaskKinds
  <2>2. Changed(m, t) = [m EXCEPT !.set[t.field] = t.value]
    BY <1>2, <2>1 DEF Changed
  <2>3. PICK f \in Settings, v \in Values : f = t.field /\ v = t.value
    BY <2>1
  <2>4. PICK n : n = [m EXCEPT !.set[f] = v]
    OBVIOUS
  <2>5. /\ n \in Maps /\ n.whole = m.whole /\ n.auth = m.auth /\ n.set[f] = v
        /\ \A g \in Settings \ {f} : n.set[g] = m.set[g]
    BY <2>4, SetField
  <2>6. Fields(m, t, n)
    BY <1>2, <2>1, <2>3, <2>5 DEF Fields, Authorised
  <2> QED
    BY <2>2, <2>3, <2>4, <2>5, <2>6
<1>3. CASE t \in AuthTasks
  <2>1. t.op \in {"add", "remove"} /\ t \notin SetTasks /\ t.user \in Users
    BY <1>1, <1>3, TaskKinds
  <2>2. Authorised(m) \in SUBSET Users
    BY AuthorisedUsers
  <2>3. PICK a \in SUBSET Users :
            a = IF t.op = "add" THEN Authorised(m) \cup {t.user} ELSE Authorised(m) \ {t.user}
    BY <2>1, <2>2
  <2>4. Changed(m, t) = [m EXCEPT !.auth = a]
    BY <2>1, <2>3 DEF Changed
  <2>5. PICK n : n = [m EXCEPT !.auth = a]
    OBVIOUS
  <2>6. n \in Maps /\ n.whole = m.whole /\ n.set = m.set /\ Authorised(n) = a
    BY <2>5, SetUsers
  <2>7. Fields(m, t, n)
    BY <2>1, <2>3, <2>6 DEF Fields
  <2> QED
    BY <2>4, <2>5, <2>6, <2>7
<1> QED
  BY <1>2, <1>3
(* What MongoDB makes of the document: "remove" makes none, and no list.   *)
LEMMA UpdatedMap ==
    ASSUME TypeOK, NEW t \in SetTasks \cup AuthTasks
    PROVE  /\ Updated(t) \in {None} \cup Documents
           /\ doc # None => Updated(t) # None /\ Fields(doc, t, Updated(t))
           /\ doc = None /\ t.op = "remove" => Updated(t) = None
           /\ doc = None /\ t.op # "remove" => Updated(t) # None /\ Fields(Bare, t, Updated(t))
<1> DEFINE d == IF doc = None THEN Bare ELSE doc
<1>1. t \in Tasks
  BY DEF Tasks
<1>2. Bare \in Documents /\ Bare.auth = Missing /\ Authorised(Bare) = {}
  BY BlankMaps DEF Bare, Documents
<1>3. PICK e \in Maps : e = d /\ e.whole
  BY <1>2 DEF TypeOK, Documents
<1>4. Documents \subseteq Maps /\ None \notin Maps
  BY StoreAssumption DEF StoreAssumption, Documents
<1>5. CASE t \in SetTasks
  <2>1. t.op \in {"set", "assign"} /\ t.field \in Settings /\ t.value \in Values
    BY <1>1, <1>5, TaskKinds
  <2>2. PICK f \in Settings, v \in Values : f = t.field /\ v = t.value
    BY <2>1
  <2>3. PICK n : n = [e EXCEPT !.set[f] = v]
    OBVIOUS
  <2>4. Updated(t) = n
    <3>1. Updated(t) = [d EXCEPT !.set[t.field] = t.value]
      BY <1>5, <2>1 DEF Updated
    <3> QED
      BY <1>3, <2>2, <2>3, <3>1
  <2>5. /\ n \in Maps /\ n.whole = e.whole /\ n.auth = e.auth /\ n.set[f] = v
        /\ \A g \in Settings \ {f} : n.set[g] = e.set[g]
    BY <2>3, SetField
  <2>6. Fields(e, t, n) /\ n \in Documents
    BY <1>3, <1>5, <2>1, <2>2, <2>5 DEF Fields, Authorised, Documents
  <2> QED
    BY <1>3, <1>4, <2>1, <2>4, <2>6
<1>6. CASE t \in AuthTasks /\ (t.op = "add" \/ e.auth # Missing)
  <2>1. t.op \in {"add", "remove"} /\ t \notin SetTasks /\ t.user \in Users
    BY <1>1, <1>6, TaskKinds
  <2>2. Authorised(e) \in SUBSET Users
    BY AuthorisedUsers
  <2>3. PICK a \in SUBSET Users :
            a = IF t.op = "add" THEN Authorised(e) \cup {t.user} ELSE Authorised(e) \ {t.user}
    BY <2>1, <2>2
  <2>4. PICK n : n = [e EXCEPT !.auth = a]
    OBVIOUS
  <2>5. Updated(t) = n
    <3>1. e.auth # Missing => Authorised(e) = e.auth
      BY DEF Authorised
    <3>2. CASE t.op = "add"
      BY <1>3, <2>1, <2>3, <2>4, <3>2 DEF Updated
    <3>3. CASE t.op = "remove" /\ e.auth # Missing
      <4>1. Updated(t) = [e EXCEPT !.auth = @ \ {t.user}]
        BY <1>3, <2>1, <3>3 DEF Updated
      <4> QED
        BY <2>3, <2>4, <3>1, <3>3, <4>1
    <3> QED
      BY <1>6, <2>1, <3>2, <3>3
  <2>6. n \in Maps /\ n.whole = e.whole /\ n.set = e.set /\ Authorised(n) = a
    BY <2>4, SetUsers
  <2>7. Fields(e, t, n) /\ n \in Documents
    BY <1>3, <2>1, <2>3, <2>6 DEF Fields, Documents
  <2>8. doc = None => t.op = "add"
    BY <1>2, <1>3, <1>6
  <2> QED
    BY <1>3, <1>4, <2>1, <2>5, <2>7, <2>8
<1>7. CASE t.op = "remove" /\ t \in AuthTasks /\ e.auth = Missing
  <2>1. t \notin SetTasks
    BY <1>1, <1>7, TaskKinds
  <2>2. Updated(t) = doc
    BY <1>3, <1>7, <2>1 DEF Updated
  <2>3. Authorised(e) = {}
    BY <1>7 DEF Authorised
  <2>4. Fields(e, t, e)
    BY <1>7, <2>1, <2>3 DEF Fields
  <2> QED
    BY <1>3, <1>7, <2>2, <2>4 DEF TypeOK
<1> QED
  BY <1>1, <1>5, <1>6, <1>7, TaskKinds

-----------------------------------------------------------------------------
(* Steps of a goroutine.                                                   *)

At(h, l, t, m) ==
    /\ pc' = [pc EXCEPT ![h] = l]
    /\ task' = [task EXCEPT ![h] = t]
    /\ held' = [held EXCEPT ![h] = m]

LEMMA Moved ==
    ASSUME TypeOK, NEW h \in Handlers, NEW l \in Labels, NEW t \in Tasks,
           NEW m \in {None} \cup Maps, At(h, l, t, m)
    PROVE  /\ pc' \in [Handlers -> Labels] /\ pc'[h] = l
           /\ task' \in [Handlers -> Tasks] /\ task'[h] = t
           /\ held' \in [Handlers -> {None} \cup Maps] /\ held'[h] = m
           /\ \A g \in Handlers \ {h} : pc'[g] = pc[g] /\ task'[g] = task[g] /\ held'[g] = held[g]
  BY DEF TypeOK, At

LEMMA IdleTask == Idle \in Tasks /\ Idle.op = "get"
  BY DEF Idle, Tasks, OtherTasks

LEMMA Stands ==
    ASSUME TypeOK, NEW h \in Handlers
    PROVE  /\ Return(h) => At(h, "idle", Idle, None)
           /\ \A l : Goto(h, l) /\ UNCHANGED <<task, held>> => At(h, l, task[h], held[h])
           /\ \A l, m : Goto(h, l) /\ held' = [held EXCEPT ![h] = m] /\ UNCHANGED task =>
                            At(h, l, task[h], m)
  BY DEF TypeOK, Return, Goto, At

LEMMA Gets ==
    ASSUME TypeOK, NEW h \in Handlers, NEW m, Got(h, m)
    PROVE  \/ task[h].op \in {"get", "chat", "assign"} /\ At(h, "idle", Idle, None)
           \/ task[h].op = "chat" /\ At(h, "upsert", task[h], held[h])
           \/ task[h].op = "assign" /\ At(h, "write", task[h], held[h])
           \/ task[h] \in AuthTasks /\ At(h, "store", task[h], m)
  BY Stands DEF Got

(* The types hold if h may be where it goes, and has the mutex there.      *)
LEMMA Typed ==
    ASSUME TypeOK, \A g \in Handlers : Kinds(g),
           NEW h \in Handlers, NEW l \in Labels, NEW t \in Tasks,
           NEW m \in {None} \cup Maps, At(h, l, t, m), Fits(l, t, m),
           doc' \in {None} \cup Documents, entry' \in {None} \cup Maps,
           writes' \in 0..MaxWrites, clean' \in BOOLEAN,
           \/ mutex' = mutex /\ (mutex = h <=> Locked(l, t))
           \/ mutex = None /\ mutex' = h /\ Locked(l, t)
           \/ mutex = h /\ mutex' = None /\ ~Locked(l, t)
    PROVE  TypeOK' /\ \A g \in Handlers : Kinds(g)'
<1>1. /\ pc' \in [Handlers -> Labels] /\ pc'[h] = l
      /\ task' \in [Handlers -> Tasks] /\ task'[h] = t
      /\ held' \in [Handlers -> {None} \cup Maps] /\ held'[h] = m
      /\ \A g \in Handlers \ {h} : pc'[g] = pc[g] /\ task'[g] = task[g] /\ held'[g] = held[g]
  BY Moved
<1>2. \A g \in Handlers : Kinds(g)'
  BY <1>1 DEF Kinds
<1>3. \A g \in Handlers : mutex = g <=> Locked(pc[g], task[g])
  BY DEF TypeOK, Locked
<1>4. None \notin Handlers
  BY StoreAssumption DEF StoreAssumption
<1>5. \A g \in Handlers : mutex' = g <=> Locked(pc'[g], task'[g])
  BY <1>1, <1>3, <1>4
<1>6. mutex' \in Handlers \cup {None}
  BY DEF TypeOK
<1>7. TypeOK'
  BY <1>1, <1>5, <1>6 DEF TypeOK, Locked
<1> QED
  BY <1>2, <1>7
(* What is found or merged is no loss of type.                             *)
LEMMA Constants ==
    /\ None \notin Maps /\ None \notin Handlers /\ None \notin Documents
    /\ Documents \subseteq Maps /\ Empty \in Maps /\ Bare \in Documents
    /\ Assistant \in Settings
  BY StoreAssumption, BlankMaps DEF StoreAssumption, Documents, Empty, Bare

LEMMA Here ==
    ASSUME TypeOK, NEW h \in Handlers
    PROVE  /\ task[h] \in Tasks /\ held[h] \in {None} \cup Maps /\ pc[h] \in Labels
           /\ mutex = h <=> Locked(pc[h], task[h])
           /\ writes \in 0..MaxWrites /\ clean \in BOOLEAN /\ "idle" \in Labels
           /\ task[h] \in AuthTasks <=> task[h].op \in {"add", "remove"}
           /\ task[h] \in SetTasks <=> task[h].op \in {"set", "assign"}
  BY TaskKinds DEF TypeOK, Locked, Labels

LEMMA CallTyped ==
    ASSUME TypeOK, \A g \in Handlers : Kinds(g), NEW h \in Handlers, Call(h)
    PROVE  TypeOK' /\ \A g \in Handlers : Kinds(g)'
<1>1. PICK t \in Tasks :
          /\ t.op \notin {"get", "chat"} => writes < MaxWrites
          /\ writes' = IF t.op \in {"get", "chat"} THEN writes ELSE writes + 1
          /\ task' = [task EXCEPT ![h] = t]
          /\ clean' = (clean /\ \A g \in Handlers \ {h} :
                                   pc[g] # "idle" => ~Rivals(t, task[g]))
          /\ Goto(h, Entrance(t))
  BY DEF Call
<1>2. pc[h] = "idle" /\ UNCHANGED <<doc, entry, mutex, held>>
  BY DEF Call
<1>3. /\ Entrance(t) \in {"read", "write", "list", "choose"}
      /\ Entrance(t) = "read" => t.op \in {"get", "chat", "assign"} /\ t \notin AuthTasks
      /\ Entrance(t) = "write" => t \in SetTasks \cup AuthTasks
      /\ Entrance(t) = "list" => t.op = "all"
      /\ Entrance(t) = "choose" => t.op = "clear"
  BY TaskKinds DEF Entrance
<1>4. Entrance(t) \in Labels
  BY <1>3 DEF Labels
<1>5. At(h, Entrance(t), t, held[h])
  BY <1>1, <1>2 DEF At, Goto, TypeOK
<1>6. writes' \in 0..MaxWrites
  BY <1>1, StoreAssumption DEF TypeOK, StoreAssumption
<1>7. clean' \in BOOLEAN
  BY <1>1
<1>8. doc' \in {None} \cup Documents /\ entry' \in {None} \cup Maps
  BY <1>2 DEF TypeOK
<1>9. mutex' = mutex /\ (mutex = h <=> Locked(Entrance(t), t))
  BY <1>2, <1>3, Here DEF Locked
<1>10. Fits(Entrance(t), t, held[h])
  BY <1>3 DEF Fits
<1> QED
  BY <1>4, <1>5, <1>6, <1>7, <1>8, <1>9, <1>10, Here, Typed

(* Of the four ways on from getChat.                                       *)
LEMMA GotTyped ==
    ASSUME TypeOK, \A g \in Handlers : Kinds(g), NEW h \in Handlers,
           pc[h] \in {"read", "find", "fill"},
           NEW m \in {None} \cup Maps, Got(h, m),
           doc' = doc, entry' \in {None} \cup Maps, UNCHANGED <<mutex, history>>
    PROVE  TypeOK' /\ \A g \in Handlers : Kinds(g)'
<1>1. doc' \in {None} \cup Documents /\ writes' \in 0..MaxWrites /\ clean' \in BOOLEAN
  BY DEF TypeOK, history
<1>2. mutex' = mutex /\ (mutex = h <=> task[h] \in AuthTasks)
  BY Here DEF Locked
<1>3. CASE task[h].op \in {"get", "chat", "assign"} /\ At(h, "idle", Idle, None)
  <2>1. Fits("idle", Idle, None) /\ ~Locked("idle", Idle) /\ mutex # h
    BY <1>2, <1>3, Here DEF Fits, Locked
  <2> QED
    BY <1>1, <1>2, <1>3, <2>1, Here, IdleTask, Typed
<1>4. CASE task[h].op = "chat" /\ At(h, "upsert", task[h], held[h])
  <2>1. Fits("upsert", task[h], held[h]) /\ ~Locked("upsert", task[h]) /\ mutex # h
    BY <1>2, <1>4, Here DEF Fits, Locked
  <2>2. "upsert" \in Labels
    BY DEF Labels
  <2> QED
    BY <1>1, <1>2, <1>4, <2>1, <2>2, Here, Typed
<1>5. CASE task[h].op = "assign" /\ At(h, "write", task[h], held[h])
  <2>1. Fits("write", task[h], held[h]) /\ ~Locked("write", task[h]) /\ mutex # h
    BY <1>2, <1>5, Here DEF Fits, Locked
  <2>2. "write" \in Labels
    BY DEF Labels
  <2> QED
    BY <1>1, <1>2, <1>5, <2>1, <2>2, Here, Typed
<1>6. CASE task[h] \in AuthTasks /\ At(h, "store", task[h], m)
  <2>1. Fits("store", task[h], m) /\ Locked("store", task[h]) /\ mutex = h
    BY <1>2, <1>6, Here DEF Fits, Locked
  <2>2. "store" \in Labels
    BY DEF Labels
  <2> QED
    BY <1>1, <1>2, <1>6, <2>1, <2>2, Here, Typed
<1> QED
  BY <1>3, <1>4, <1>5, <1>6, Gets

(* Where h goes without the mutex, or keeps it.                            *)
LEMMA GoesTyped ==
    ASSUME TypeOK, \A g \in Handlers : Kinds(g), NEW h \in Handlers, NEW l \in Labels,
           NEW t \in {Idle, task[h]}, NEW m \in {None} \cup Maps, At(h, l, t, m), Fits(l, t, m),
           Locked(l, t) <=> Locked(pc[h], task[h]),
           doc' \in {None} \cup Documents, entry' \in {None} \cup Maps,
           clean' \in BOOLEAN, UNCHANGED <<mutex, writes>>
    PROVE  TypeOK' /\ \A g \in Handlers : Kinds(g)'
<1>1. t \in Tasks
  BY Here, IdleTask
<1>2. writes' \in 0..MaxWrites /\ mutex' = mutex /\ (mutex = h <=> Locked(l, t))
  BY Here
<1> QED
  BY <1>1, <1>2, Typed

LEMMA ReturnTyped ==
    ASSUME TypeOK, \A g \in Handlers : Kinds(g), NEW h \in Handlers, Return(h),
           doc' \in {None} \cup Documents, entry' \in {None} \cup Maps,
           clean' \in BOOLEAN, writes' = writes,
           mutex' = IF Locked(pc[h], task[h]) THEN None ELSE mutex
    PROVE  TypeOK' /\ \A g \in Handlers : Kinds(g)'
<1>1. At(h, "idle", Idle, None)
  BY Stands
<1>2. Fits("idle", Idle, None) /\ ~Locked("idle", Idle)
  BY DEF Fits, Locked
<1>3. writes' \in 0..MaxWrites /\ (mutex = h <=> Locked(pc[h], task[h]))
  BY Here
<1> QED
  BY <1>1, <1>2, <1>3, Here, IdleTask, Typed

LEMMA RestartTyped ==
    ASSUME TypeOK, Restarted
    PROVE  TypeOK' /\ \A g \in Handlers : Kinds(g)'
<1>1. \A g \in Handlers : pc'[g] = "idle"
  BY DEF Restarted
<1>2. \A g \in Handlers : Kinds(g)'
  BY <1>1 DEF Kinds, Fits
<1>3. /\ pc' \in [Handlers -> Labels] /\ task' \in [Handlers -> Tasks]
      /\ held' \in [Handlers -> {None} \cup Maps]
  BY IdleTask DEF Restarted, Labels
<1>4. TypeOK'
  BY <1>1, <1>3, Constants DEF TypeOK, Restarted, history
<1> QED
  BY <1>2, <1>4

LEMMA StepTyped ==
    ASSUME TypeOK, \A g \in Handlers : Kinds(g), NEW h \in Handlers, Step(h)
    PROVE  TypeOK' /\ \A g \in Handlers : Kinds(g)'
<1> USE Constants, Here
<1>1. /\ doc \in {None} \cup Documents /\ entry \in {None} \cup Maps
      /\ "upsert" \in Labels /\ "find" \in Labels /\ "fill" \in Labels /\ "lock" \in Labels
      /\ "read" \in Labels /\ "merge" \in Labels /\ "store" \in Labels
      /\ "blank" \in Labels /\ "unset" \in Labels /\ "delete" \in Labels
  BY DEF TypeOK, Labels
<1>2. Fits(pc[h], task[h], held[h])
  BY DEF Kinds
<1>3. CASE Read(h)
  <2>1. CASE entry # None
    BY <1>1, <1>3, <2>1, GotTyped DEF Read
  <2>2. CASE entry = None
    <3>1. At(h, "find", task[h], held[h]) /\ pc[h] = "read"
      BY <1>3, <2>2, Stands DEF Read
    <3>2. Fits("find", task[h], held[h]) /\ (Locked("find", task[h]) <=> Locked(pc[h], task[h]))
      BY <1>2, <3>1 DEF Fits, Locked
    <3> QED
      BY <1>1, <1>3, <3>1, <3>2, GoesTyped DEF Read, history
  <2> QED
    BY <2>1, <2>2
<1>4. CASE Find(h)
  <2>1. CASE Got(h, None)
    BY <1>1, <1>4, <2>1, GotTyped DEF Find
  <2>2. CASE doc # None /\ Goto(h, "fill") /\ held' = [held EXCEPT ![h] = doc] /\ UNCHANGED task
    <3>1. At(h, "fill", task[h], doc) /\ pc[h] = "find"
      BY <1>4, <2>2, Stands DEF Find
    <3>2. Fits("fill", task[h], doc) /\ (Locked("fill", task[h]) <=> Locked(pc[h], task[h]))
      BY <1>2, <2>2, <3>1 DEF Fits, Locked
    <3> QED
      BY <1>1, <1>4, <3>1, <3>2, GoesTyped DEF Find, history
  <2> QED
    BY <1>4, <2>1, <2>2 DEF Find
<1>5. CASE Fill(h)
  BY <1>5, GotTyped DEF Fill
<1>6. CASE Write(h)
  <2>1. pc[h] = "write" /\ ~Locked(pc[h], task[h]) /\ task[h] \in SetTasks \cup AuthTasks
    BY <1>2, <1>6 DEF Write, Fits, Locked
  <2>2. Updated(task[h]) \in {None} \cup Documents
    BY <2>1, UpdatedMap
  <2>3. CASE Goto(h, "lock") /\ UNCHANGED <<task, held, clean>> /\ doc' = Updated(task[h])
    <3>1. At(h, "lock", task[h], held[h])
      BY <2>3, Stands
    <3>2. Fits("lock", task[h], held[h]) /\ ~Locked("lock", task[h])
      BY <2>1 DEF Fits, Locked
    <3> QED
      BY <1>1, <1>6, <2>1, <2>2, <2>3, <3>1, <3>2, GoesTyped DEF Write
  <2>4. CASE Return(h)
    BY <1>1, <1>6, <2>1, <2>2, <2>4, ReturnTyped DEF Write
  <2> QED
    BY <1>6, <2>3, <2>4 DEF Write
<1>7. CASE Lock(h)
  <2>1. pc[h] = "lock" /\ mutex = None /\ mutex' = h /\ task[h] \in SetTasks \cup AuthTasks
    BY <1>2, <1>7 DEF Lock, Fits
  <2>2. PICK l \in Labels : l = IF task[h] \in AuthTasks THEN "read" ELSE "merge"
    BY <1>1
  <2>3. At(h, l, task[h], held[h])
    BY <1>7, <2>2, Stands DEF Lock
  <2>4. Fits(l, task[h], held[h]) /\ Locked(l, task[h])
    BY <2>1, <2>2 DEF Fits, Locked
  <2> QED
    BY <1>1, <1>7, <2>1, <2>3, <2>4, Typed DEF Lock, history
<1>8. CASE Merge(h)
  <2>1. PICK m \in Maps : m = IF entry = None THEN Empty ELSE entry
    BY <1>1
  <2>2. At(h, "store", task[h], m) /\ pc[h] = "merge"
    BY <1>8, <2>1, Stands DEF Merge
  <2>3. Fits("store", task[h], m) /\ (Locked("store", task[h]) <=> Locked(pc[h], task[h]))
    BY <1>2, <2>2 DEF Fits, Locked
  <2> QED
    BY <1>1, <1>8, <2>1, <2>2, <2>3, GoesTyped DEF Merge, history
<1>9. CASE Store(h)
  <2>1. pc[h] = "store" /\ Locked(pc[h], task[h]) /\ held[h] \in Maps
           /\ task[h] \in SetTasks \cup AuthTasks
    BY <1>2, <1>9 DEF Store, Fits, Locked
  <2>2. Changed(held[h], task[h]) \in Maps
    BY <2>1, ChangedMap
  <2> QED
    BY <1>1, <1>9, <2>1, <2>2, ReturnTyped DEF Store, Unlock, history
<1>10. CASE Panic(h)
  <2>1. pc[h] = "store" /\ Locked(pc[h], task[h])
    BY <1>10 DEF Panic, Locked
  <2>2. CASE Unlock(h) /\ Return(h) /\ UNCHANGED <<doc, entry, history>>
    BY <1>1, <2>1, <2>2, ReturnTyped DEF Unlock, history
  <2> QED
    BY <1>10, <2>2, RestartTyped DEF Panic
<1>11. CASE Upsert(h)
  <2>1. ~Locked(pc[h], task[h]) /\ doc' \in {None} \cup Documents
    BY <1>1, <1>11 DEF Upsert, Locked
  <2> QED
    BY <1>1, <1>11, <2>1, ReturnTyped DEF Upsert, history
<1>12. CASE List(h)
  <2>1. pc[h] = "list" /\ ~Locked(pc[h], task[h]) /\ task[h].op = "all"
    BY <1>2, <1>12 DEF List, Locked, Fits
  <2>2. CASE Return(h)
    BY <1>1, <1>12, <2>1, <2>2, ReturnTyped DEF List, history
  <2>3. CASE Goto(h, "blank") /\ UNCHANGED <<task, held>>
    <3>1. At(h, "blank", task[h], held[h]) /\ Fits("blank", task[h], held[h])
             /\ ~Locked("blank", task[h])
      BY <2>1, <2>3, Stands DEF Fits, Locked
    <3> QED
      BY <1>1, <1>12, <2>1, <3>1, GoesTyped DEF List, history
  <2> QED
    BY <1>12, <2>2, <2>3 DEF List
<1>13. CASE Blank(h)
  <2>1. ~Locked(pc[h], task[h])
    BY <1>13 DEF Blank, Locked
  <2> QED
    BY <1>1, <1>13, <2>1, ReturnTyped DEF Blank, history
<1>14. CASE Choose(h)
  <2>1. pc[h] = "choose" /\ ~Locked(pc[h], task[h]) /\ task[h].op = "clear"
    BY <1>2, <1>14 DEF Choose, Locked, Fits
  <2>2. CASE Return(h)
    BY <1>1, <1>14, <2>1, <2>2, ReturnTyped DEF Choose, history
  <2>3. CASE /\ Goto(h, "unset") /\ UNCHANGED task
             /\ \E m \in {None, Empty} : held' = [held EXCEPT ![h] = m]
    <3>1. PICK m \in {None, Empty} : held' = [held EXCEPT ![h] = m]
      BY <2>3
    <3>2. At(h, "unset", task[h], m) /\ Fits("unset", task[h], m) /\ ~Locked("unset", task[h])
             /\ m \in {None} \cup Maps
      BY <2>1, <2>3, <3>1, Stands, Constants DEF Fits, Locked
    <3> QED
      BY <1>1, <1>14, <2>1, <3>2, GoesTyped DEF Choose, history
  <2> QED
    BY <1>14, <2>2, <2>3 DEF Choose
<1>15. CASE Unset(h)
  <2>1. pc[h] = "unset" /\ ~Locked(pc[h], task[h]) /\ task[h].op = "clear"
    BY <1>2, <1>15 DEF Unset, Locked, Fits
  <2>2. doc' \in {None} \cup Documents
    <3>1. CASE doc # None /\ doc' = [doc EXCEPT !.set[Assistant] = Missing]
      <4>1. PICK d \in Maps : d = doc /\ d.whole
        BY <1>1, <3>1 DEF Documents
      <4>2. PICK n : n = [d EXCEPT !.set[Assistant] = Missing]
        OBVIOUS
      <4>3. n \in Maps /\ n.whole = d.whole
        BY <4>2, SetField
      <4> QED
        BY <3>1, <4>1, <4>2, <4>3 DEF Documents
    <3> QED
      BY <1>1, <1>15, <3>1 DEF Unset
  <2>3. CASE Return(h)
    BY <1>1, <1>15, <2>1, <2>2, <2>3, ReturnTyped DEF Unset, history
  <2>4. CASE Goto(h, "delete") /\ UNCHANGED <<task, held>>
    <3>1. At(h, "delete", task[h], held[h]) /\ Fits("delete", task[h], held[h])
             /\ ~Locked("delete", task[h])
      BY <2>1, <2>4, Stands DEF Fits, Locked
    <3> QED
      BY <1>1, <1>15, <2>1, <2>2, <3>1, GoesTyped DEF Unset, history
  <2> QED
    BY <1>15, <2>3, <2>4 DEF Unset
<1>16. CASE Delete(h)
  <2>1. ~Locked(pc[h], task[h])
    BY <1>16 DEF Delete, Locked
  <2> QED
    BY <1>1, <1>16, <2>1, ReturnTyped DEF Delete, history
<1> QED
  BY <1>3, <1>4, <1>5, <1>6, <1>7, <1>8, <1>9, <1>10, <1>11, <1>12, <1>13, <1>14, <1>15, <1>16
     DEF Step

LEMMA NextTyped ==
    ASSUME TypeOK, \A g \in Handlers : Kinds(g), [Next]_vars
    PROVE  TypeOK' /\ \A g \in Handlers : Kinds(g)'
<1>1. CASE Expire
  BY <1>1 DEF TypeOK, Kinds, Expire, history
<1>2. CASE UNCHANGED vars
  BY <1>2 DEF TypeOK, Kinds, vars, history
<1> QED
  BY <1>1, <1>2, CallTyped, StepTyped, RestartTyped DEF Next, Restart
-----------------------------------------------------------------------------
(* Steps while no rivals overlap.                                          *)

(* No change is known to be in the cache that was not before ...           *)
NothingLost ==
    \A g \in Handlers :
        /\ \A f \in Settings : Sets(g, f) => Sets(g, f)'
        /\ \A u \in Users : Authorises(g, u) => Authorises(g, u)'

(* ... and a map that told the truth still does.                           *)
LEMMA TrueStays ==
    ASSUME doc' = doc, NothingLost, NEW m, True(m)
    PROVE  True(m)'
<1>1. doc' # None
  BY DEF True
<1>2. \A f \in Settings : TellsField(m, f)' \/ \E g \in Handlers : Sets(g, f)'
  <2> SUFFICES ASSUME NEW f \in Settings
               PROVE  TellsField(m, f)' \/ \E g \in Handlers : Sets(g, f)'
    OBVIOUS
  <2>1. TellsField(m, f) => TellsField(m, f)'
    BY DEF TellsField
  <2> QED
    BY <2>1 DEF True, NothingLost
<1>3. \A u \in Users : TellsUser(m, u)' \/ \E g \in Handlers : Authorises(g, u)'
  <2> SUFFICES ASSUME NEW u \in Users
               PROVE  TellsUser(m, u)' \/ \E g \in Handlers : Authorises(g, u)'
    OBVIOUS
  <2>1. TellsUser(m, u) => TellsUser(m, u)'
    BY DEF TellsUser, Authorised
  <2> QED
    BY <2>1 DEF True, NothingLost
<1> QED
  BY <1>1, <1>2, <1>3 DEF True

(* An empty map says nothing.                                              *)
LEMMA EmptyTrue == doc # None => True(Empty)
<1>1. /\ \A f \in Settings : Empty.set[f] = Missing
      /\ Empty.whole = FALSE /\ Authorised(Empty) = {}
  BY BlankMaps DEF Empty
<1> QED
  BY <1>1 DEF True, TellsField, TellsUser

(* What a step of h leaves of the others.                                  *)
LEMMA OthersStay ==
    ASSUME TypeOK, NEW h \in Handlers, NEW l \in Labels, NEW t \in Tasks,
           NEW m \in {None} \cup Maps, At(h, l, t, m), NEW g \in Handlers \ {h}
    PROVE  /\ pc'[g] = pc[g] /\ task'[g] = task[g] /\ held'[g] = held[g]
           /\ \A f : Sets(g, f)' <=> Sets(g, f)
           /\ \A u : Authorises(g, u)' <=> Authorises(g, u)
           /\ Awaits(g)' <=> Awaits(g)
<1>1. pc'[g] = pc[g] /\ task'[g] = task[g] /\ held'[g] = held[g]
  BY Moved
<1>2. \A f : Sets(g, f)' <=> Sets(g, f)
  BY <1>1 DEF Sets
<1>3. \A u : Authorises(g, u)' <=> Authorises(g, u)
  BY <1>1 DEF Authorises
<1>4. Awaits(g)' <=> Awaits(g)
  BY <1>1 DEF Awaits
<1> QED
  BY <1>1, <1>2, <1>3, <1>4

LEMMA OthersMade ==
    ASSUME TypeOK, NEW h \in Handlers, NEW l \in Labels, NEW t \in Tasks,
           NEW m \in {None} \cup Maps, At(h, l, t, m), NEW g \in Handlers \ {h},
           doc' = doc, Made(g)
    PROVE  Made(g)'
<1>1. /\ pc'[g] = pc[g] /\ task'[g] = task[g] /\ held'[g] = held[g]
      /\ \A u : Authorises(g, u)' <=> Authorises(g, u)
  BY OthersStay
<1>2. \A u : (u \in Authorised(doc))' <=> u \in Authorised(doc)
  BY DEF Authorised
<1> QED
  BY <1>1, <1>2 DEF Made

LEMMA OthersInHand ==
    ASSUME TypeOK, NEW h \in Handlers, NEW l \in Labels, NEW t \in Tasks,
           NEW m \in {None} \cup Maps, At(h, l, t, m), NEW g \in Handlers \ {h},
           \A n \in Maps : True(n) => True(n)',
           entry' = entry \/ entry' \in {None, Empty} \/ ~Awaits(g),
           InHand(g)
    PROVE  InHand(g)'
<1>1. /\ pc'[g] = pc[g] /\ task'[g] = task[g] /\ held'[g] = held[g]
      /\ Awaits(g)' <=> Awaits(g)
  BY OthersStay
<1>2. Awaits(g)' => entry' \in {None, Empty}
  BY <1>1 DEF InHand
<1>3. PICK n \in {None} \cup Maps : n = held[g]
  BY Here
<1>4. True(n)' => True(held[g])'
  <2>1. n = held'[g]
    BY <1>1, <1>3
  <2> QED
    BY <2>1 DEF True, TellsField, TellsUser, Authorised
<1>5. pc'[g] \in {"fill", "store"} /\ held'[g] # None => True(held[g])'
  BY <1>1, <1>3, <1>4 DEF InHand
<1> QED
  BY <1>2, <1>5 DEF InHand

(* Nobody new is at work.                                                  *)
LEMMA PeaceStays ==
    ASSUME TypeOK, Peace, NEW h \in Handlers, NEW l \in Labels, NEW t \in Tasks,
           NEW m \in {None} \cup Maps, At(h, l, t, m),
           l = "idle" \/ (t = task[h] /\ pc[h] # "idle")
    PROVE  Peace'
<1>1. \A g \in Handlers : pc'[g] # "idle" => pc[g] # "idle" /\ task'[g] = task[g]
  BY Moved
<1> QED
  BY <1>1 DEF Peace
(* A step of h after which the cache has e, which told the truth before.   *)
LEMMA Keeps ==
    ASSUME TypeOK, CleanInv, NEW h \in Handlers, NEW l \in Labels, NEW t \in Tasks,
           NEW m \in {None} \cup Maps, At(h, l, t, m), Peace',
           NEW e \in {None} \cup Maps, e = entry', e # None => True(e),
           \/ entry' = entry
           \/ e \in {None, Empty}
           \/ \A g \in Handlers \ {h} : ~Awaits(g),
           \A n \in Maps : True(n) => True(n)',
           \A g \in Handlers \ {h} : Made(g)',
           Made(h)', InHand(h)'
    PROVE  CleanInv'
<1>1. \A g \in Handlers : Made(g)' /\ InHand(g)'
  BY OthersInHand DEF CleanInv
<1>2. entry' # None => True(entry)'
  <2>1. True(e)' => True(entry)'
    BY DEF True, TellsField, TellsUser, Authorised
  <2> QED
    BY <2>1
<1> QED
  BY <1>1, <1>2 DEF CleanInv

LEMMA Quiet ==
    ASSUME TypeOK, CleanInv, NEW h \in Handlers, NEW l \in Labels, NEW t \in Tasks,
           NEW m \in {None} \cup Maps, At(h, l, t, m), Peace', doc' = doc,
           NEW e \in {None} \cup Maps, e = entry', e # None => True(e),
           \/ entry' = entry
           \/ e \in {None, Empty}
           \/ \A g \in Handlers \ {h} : ~Awaits(g),
           \A f \in Settings : Sets(h, f) => Sets(h, f)',
           \A u \in Users : Authorises(h, u) => Authorises(h, u)',
           Made(h)', InHand(h)'
    PROVE  CleanInv'
<1>1. NothingLost
  BY OthersStay DEF NothingLost
<1>2. \A n \in Maps : True(n) => True(n)'
  BY <1>1, TrueStays
<1>3. \A g \in Handlers \ {h} : Made(g)'
  BY OthersMade DEF CleanInv
<1> QED
  BY <1>2, <1>3, Keeps

(* Neither document nor cache change.                                      *)
LEMMA Still ==
    ASSUME TypeOK, CleanInv, NEW h \in Handlers, NEW l \in Labels, NEW t \in Tasks,
           NEW m \in {None} \cup Maps, At(h, l, t, m), Peace', doc' = doc, entry' = entry,
           \A f \in Settings : Sets(h, f) => Sets(h, f)',
           \A u \in Users : Authorises(h, u) => Authorises(h, u)',
           Made(h)', InHand(h)'
    PROVE  CleanInv'
<1>1. PICK e \in {None} \cup Maps : e = entry
  BY DEF TypeOK
<1>2. e # None => True(e)
  BY <1>1 DEF CleanInv
<1> QED
  BY <1>1, <1>2, Quiet

(* A step that loses a change which only the cache told of.                *)
LEMMA Alone ==
    ASSUME TypeOK, CleanInv, NEW h \in Handlers, Return(h), pc[h] # "idle",
           doc' = doc, entry' # None => True(entry)',
           \A g \in Handlers \ {h} : pc[g] \in {"fill", "store"} => held[g] = None,
           \/ entry' \in {entry, None, Empty}
           \/ \A g \in Handlers \ {h} : ~Awaits(g)
    PROVE  CleanInv'
<1>1. At(h, "idle", Idle, None) /\ pc'[h] = "idle" /\ task'[h] = Idle
  BY Stands, Moved, Here, IdleTask
<1>2. \A g \in Handlers \ {h} : Made(g)'
  BY <1>1, OthersMade, Here, IdleTask DEF CleanInv
<1>3. \A g \in Handlers \ {h} : InHand(g)'
  <2> SUFFICES ASSUME NEW g \in Handlers \ {h} PROVE InHand(g)'
    OBVIOUS
  <2>1. pc'[g] = pc[g] /\ held'[g] = held[g] /\ (Awaits(g)' <=> Awaits(g))
    BY <1>1, OthersStay, Here, IdleTask
  <2> QED
    BY <2>1 DEF InHand, CleanInv
<1>4. Made(h)' /\ InHand(h)'
  BY <1>1 DEF Made, InHand, Authorises, Awaits
<1>5. Peace'
  BY <1>1, PeaceStays, Here, IdleTask DEF CleanInv
<1> QED
  BY <1>2, <1>3, <1>4, <1>5 DEF CleanInv

(* A call joins no rivals: clean' says so.                                 *)
LEMMA CallClean ==
    ASSUME TypeOK, CleanInv, NEW h \in Handlers, Call(h), clean'
    PROVE  CleanInv'
<1>1. PICK t \in Tasks :
          /\ task' = [task EXCEPT ![h] = t]
          /\ clean' = (clean /\ \A g \in Handlers \ {h} :
                                   pc[g] # "idle" => ~Rivals(t, task[g]))
          /\ Goto(h, Entrance(t))
  BY DEF Call
<1>2. pc[h] = "idle" /\ UNCHANGED <<doc, entry, held>>
  BY DEF Call
<1>3. /\ Entrance(t) \in {"read", "write", "list", "choose"}
      /\ Entrance(t) = "read" => t \notin AuthTasks
  BY TaskKinds DEF Entrance
<1>4. Entrance(t) \in Labels
  BY <1>3 DEF Labels
<1>5. At(h, Entrance(t), t, held[h])
  BY <1>1, <1>2 DEF At, Goto, TypeOK
<1>6. /\ pc'[h] = Entrance(t) /\ task'[h] = t
      /\ \A g \in Handlers \ {h} : pc'[g] = pc[g] /\ task'[g] = task[g]
  BY <1>4, <1>5, Moved, Here
<1>7. Peace'
  <2>1. \A g \in Handlers \ {h} : pc[g] # "idle" => ~Rivals(t, task[g]) /\ ~Rivals(task[g], t)
    BY <1>1, RivalsBoth, Here
  <2> QED
    BY <1>6, <2>1 DEF Peace, CleanInv
<1>8. Made(h)' /\ InHand(h)'
  BY <1>3, <1>6 DEF Made, InHand, Authorises, Awaits
<1>9. /\ \A f \in Settings : ~Sets(h, f)
      /\ \A u \in Users : ~Authorises(h, u)
  BY <1>2 DEF Sets, Authorises
<1> QED
  BY <1>2, <1>4, <1>5, <1>7, <1>8, <1>9, Here, Still

(* The ways on from getChat, with m, when the cache has e.                 *)
LEMMA GotClean ==
    ASSUME TypeOK, CleanInv, NEW h \in Handlers, pc[h] \in {"read", "find", "fill"},
           NEW m \in {None} \cup Maps, Got(h, m), m # None => True(m), doc' = doc,
           task[h] \in AuthTasks /\ m = None => entry' \in {None, Empty},
           NEW e \in {None} \cup Maps, e = entry', e # None => True(e),
           \/ entry' = entry
           \/ e \in {None, Empty}
           \/ \A g \in Handlers \ {h} : ~Awaits(g)
    PROVE  CleanInv'
<1> USE Here, IdleTask
<1>1. \A f \in Settings : ~Sets(h, f)
  BY DEF Sets
<1>2. Peace
  BY DEF CleanInv
<1>3. CASE task[h].op \in {"get", "chat", "assign"} /\ At(h, "idle", Idle, None)
  <2>1. \A u \in Users : ~Authorises(h, u)
    BY <1>3 DEF Authorises
  <2>2. pc'[h] = "idle"
    BY <1>3, Moved
  <2>3. Made(h)' /\ InHand(h)'
    BY <2>2 DEF Made, InHand, Authorises, Awaits
  <2> QED
    BY <1>1, <1>2, <1>3, <2>1, <2>3, PeaceStays, Quiet
<1>4. CASE task[h].op = "chat" /\ At(h, "upsert", task[h], held[h])
  <2>1. \A u \in Users : ~Authorises(h, u)
    BY <1>4 DEF Authorises
  <2>2. pc'[h] = "upsert" /\ "upsert" \in Labels
    BY <1>4, Moved DEF Labels
  <2>3. Made(h)' /\ InHand(h)'
    BY <2>2 DEF Made, InHand, Authorises, Awaits
  <2> QED
    BY <1>1, <1>2, <1>4, <2>1, <2>2, <2>3, PeaceStays, Quiet
<1>5. CASE task[h].op = "assign" /\ At(h, "write", task[h], held[h])
  <2>1. \A u \in Users : ~Authorises(h, u)
    BY <1>5 DEF Authorises
  <2>2. pc'[h] = "write" /\ "write" \in Labels
    BY <1>5, Moved DEF Labels
  <2>3. Made(h)' /\ InHand(h)'
    BY <2>2 DEF Made, InHand, Authorises, Awaits
  <2> QED
    BY <1>1, <1>2, <1>5, <2>1, <2>2, <2>3, PeaceStays, Quiet
<1>6. CASE task[h] \in AuthTasks /\ At(h, "store", task[h], m)
  <2>1. "store" \in Labels
    BY DEF Labels
  <2>2. pc'[h] = "store" /\ held'[h] = m /\ task'[h] = task[h]
    BY <1>6, <2>1, Moved
  <2>3. \A u \in Users : Authorises(h, u) <=> Authorises(h, u)'
    BY <1>6, <2>2 DEF Authorises
  <2>4. \A u : (u \in Authorised(doc))' <=> u \in Authorised(doc)
    BY DEF Authorised
  <2>5. Made(h)'
    BY <1>6, <2>2, <2>3, <2>4 DEF Made, CleanInv
  <2>6. m # None => True(m)'
    <3>1. NothingLost
      BY <1>1, <1>6, <2>1, <2>3, OthersStay DEF NothingLost
    <3> QED
      BY <3>1, TrueStays
  <2>7. held'[h] # None => True(held[h])'
    BY <2>2, <2>6 DEF True, TellsField, TellsUser, Authorised
  <2>8. InHand(h)'
    BY <1>6, <2>2, <2>7 DEF InHand, Awaits
  <2> QED
    BY <1>1, <1>2, <1>6, <2>1, <2>3, <2>5, <2>8, PeaceStays, Quiet
<1> QED
  BY <1>3, <1>4, <1>5, <1>6, Gets
(* What h's own task excludes of the others that are at work.              *)
LEMMA Apart ==
    ASSUME TypeOK, Peace, NEW h \in Handlers, NEW g \in Handlers \ {h},
           pc[h] # "idle", pc[g] # "idle"
    PROVE  /\ task[h].op = "clear" => task[g].op = "all"
           /\ task[h].op \in {"get", "chat", "assign"} => task[g].op \in {"get", "chat", "all"}
           /\ task[h] \in SetTasks \cup AuthTasks =>
                 task[g].op \in {"set", "add", "remove", "all"}
           /\ task[h] \in SetTasks /\ task[g] \in SetTasks => task[h].field # task[g].field
           /\ task[h] \in AuthTasks /\ task[g] \in AuthTasks => task[h].user # task[g].user
<1>1. ~Rivals(task[h], task[g])
  BY DEF Peace
<1>2. /\ task[h].op \in {"set", "assign", "add", "remove", "get", "chat", "all", "clear"}
      /\ task[g].op \in {"set", "assign", "add", "remove", "get", "chat", "all", "clear"}
  BY Here, TaskKinds
<1>3. /\ task[h] \in AuthTasks <=> task[h].op \in {"add", "remove"}
      /\ task[h] \in SetTasks <=> task[h].op \in {"set", "assign"}
      /\ task[g] \in AuthTasks <=> task[g].op \in {"add", "remove"}
      /\ task[g] \in SetTasks <=> task[g].op \in {"set", "assign"}
  BY Here
<1>4. (Writing(task[h]) => ~Reading(task[g]) /\ task[g].op # "clear")
         /\ (Writing(task[g]) => ~Reading(task[h]) /\ task[h].op # "clear")
  BY <1>1 DEF Rivals
<1>5. /\ task[h].op = "set" /\ task[g].op = "set" => task[h].field # task[g].field
      /\ task[h] \in AuthTasks /\ task[g] \in AuthTasks => task[h].user # task[g].user
  BY <1>1, <1>3 DEF Rivals
<1>6. /\ task[h].op = "clear" => task[g].op = "all"
      /\ task[h].op \in {"get", "chat", "assign"} => task[g].op \in {"get", "chat", "all"}
      /\ task[h].op \in {"set", "assign", "add", "remove"} =>
                 task[g].op \in {"set", "add", "remove", "all"}
  BY <1>2, <1>4 DEF Writing, Reading
<1> QED
  BY <1>3, <1>5, <1>6

(* Only one has the mutex.                                                 *)
LEMMA OneLocked ==
    ASSUME TypeOK, NEW h \in Handlers, NEW g \in Handlers \ {h}
    PROVE  ~(Locked(pc[h], task[h]) /\ Locked(pc[g], task[g]))
  BY Here

(* While a writer that is not getClientName has the mutex, or nobody else  *)
(* reads or writes, there is no other map that matters.                    *)
LEMMA NoOtherHand ==
    ASSUME TypeOK, \A g \in Handlers : Kinds(g), Peace, NEW h \in Handlers, pc[h] # "idle",
           \/ task[h].op = "clear"
           \/ task[h] \in SetTasks \cup AuthTasks /\ Locked(pc[h], task[h])
    PROVE  \A g \in Handlers \ {h} : pc[g] \notin {"fill", "store"} /\ ~Awaits(g)
<1> SUFFICES ASSUME NEW g \in Handlers \ {h}, pc[g] # "idle"
             PROVE  pc[g] \notin {"fill", "store"} /\ ~Awaits(g)
  BY DEF Awaits
<1>1. Fits(pc[g], task[g], held[g])
  BY DEF Kinds
<1>2. CASE task[h].op = "clear"
  <2>1. task[g].op = "all"
    BY <1>2, Apart
  <2> QED
    BY <1>1, <2>1, Here DEF Fits, Awaits
<1>3. CASE task[h] \in SetTasks \cup AuthTasks /\ Locked(pc[h], task[h])
  <2>1. task[g].op \in {"set", "add", "remove", "all"}
    BY <1>3, Apart
  <2>2. ~Locked(pc[g], task[g])
    BY <1>3, OneLocked
  <2> QED
    BY <1>1, <2>1, <2>2, Here DEF Fits, Awaits, Locked
<1> QED
  BY <1>2, <1>3

LEMMA ReadClean ==
    ASSUME TypeOK, CleanInv, NEW h \in Handlers, Read(h)
    PROVE  CleanInv'
<1>1. pc[h] = "read" /\ UNCHANGED <<doc, entry>>
  BY DEF Read
<1>2. PICK e \in {None} \cup Maps : e = entry
  BY DEF TypeOK
<1>3. e # None => True(e)
  BY <1>2 DEF CleanInv
<1>4. CASE entry # None
  <2>1. Got(h, e)
    BY <1>2, <1>4 DEF Read
  <2> QED
    BY <1>1, <1>2, <1>3, <1>4, <2>1, GotClean
<1>5. CASE entry = None
  <2>1. At(h, "find", task[h], held[h]) /\ "find" \in Labels
    BY <1>5, Stands DEF Read, Labels
  <2>2. pc'[h] = "find" /\ held'[h] = held[h] /\ task'[h] = task[h]
    BY <2>1, Moved, Here
  <2>3. \A f \in Settings : ~Sets(h, f)
    BY <1>1 DEF Sets
  <2>4. \A u \in Users : Authorises(h, u) <=> Authorises(h, u)'
    BY <1>1, <2>2 DEF Authorises
  <2>5. \A u : (u \in Authorised(doc))' <=> u \in Authorised(doc)
    BY <1>1 DEF Authorised
  <2>6. Made(h)'
    BY <1>1, <2>2, <2>4, <2>5 DEF Made, CleanInv
  <2>7. InHand(h)'
    BY <1>1, <1>5, <2>2 DEF InHand
  <2>8. Peace'
    BY <1>1, <2>1, PeaceStays, Here DEF CleanInv
  <2> QED
    BY <1>1, <2>1, <2>3, <2>4, <2>6, <2>7, <2>8, Still, Here
<1> QED
  BY <1>4, <1>5

LEMMA FindClean ==
    ASSUME TypeOK, CleanInv, NEW h \in Handlers, Find(h)
    PROVE  CleanInv'
<1>1. pc[h] = "find" /\ UNCHANGED <<doc, entry>>
  BY DEF Find
<1>2. PICK e \in {None} \cup Maps : e = entry
  BY DEF TypeOK
<1>3. e # None => True(e)
  BY <1>2 DEF CleanInv
<1>4. CASE Got(h, None)
  <2>1. task[h] \in AuthTasks => entry' \in {None, Empty}
    BY <1>1 DEF CleanInv, InHand, Awaits
  <2> QED
    BY <1>1, <1>2, <1>3, <1>4, <2>1, GotClean
<1>5. CASE doc # None /\ Goto(h, "fill") /\ held' = [held EXCEPT ![h] = doc] /\ UNCHANGED task
  <2>1. PICK d \in Maps : d = doc
    BY <1>5, Constants DEF TypeOK
  <2>2. At(h, "fill", task[h], d) /\ "fill" \in Labels
    BY <1>5, <2>1, Stands DEF Labels
  <2>3. pc'[h] = "fill" /\ held'[h] = d /\ task'[h] = task[h]
    BY <2>2, Moved, Here
  <2>4. \A f \in Settings : ~Sets(h, f)
    BY <1>1 DEF Sets
  <2>5. \A u \in Users : Authorises(h, u) <=> Authorises(h, u)'
    BY <1>1, <2>3 DEF Authorises
  <2>6. \A u : (u \in Authorised(doc))' <=> u \in Authorised(doc)
    BY <1>1 DEF Authorised
  <2>7. Made(h)'
    BY <1>1, <2>3, <2>5, <2>6 DEF Made, CleanInv
  <2>8. True(held[h])'
    <3>1. held'[h] = doc' /\ doc' # None
      BY <1>1, <1>5, <2>1, <2>3
    <3>2. \A f \in Settings : TellsField(held[h], f)'
      BY <3>1 DEF TellsField
    <3>3. \A u \in Users : TellsUser(held[h], u)'
      BY <3>1 DEF TellsUser, Authorised
    <3> QED
      BY <3>1, <3>2, <3>3 DEF True
  <2>9. InHand(h)'
    BY <2>3, <2>8 DEF InHand, Awaits
  <2>10. Peace'
    BY <1>1, <2>2, PeaceStays, Here DEF CleanInv
  <2> QED
    BY <1>1, <2>2, <2>4, <2>5, <2>7, <2>9, <2>10, Still, Here
<1> QED
  BY <1>4, <1>5 DEF Find

LEMMA FillClean ==
    ASSUME TypeOK, \A g \in Handlers : Kinds(g), CleanInv, NEW h \in Handlers, Fill(h)
    PROVE  CleanInv'
<1>1. pc[h] = "fill" /\ doc' = doc /\ Got(h, held[h]) /\ entry' = held[h]
  BY DEF Fill
<1>2. held[h] # None /\ (task[h].op \in {"get", "chat", "assign"} \/ task[h] \in AuthTasks)
  BY <1>1 DEF Kinds, Fits
<1>3. PICK m \in {None} \cup Maps : m = held[h]
  BY Here
<1>4. True(m)
  BY <1>1, <1>2, <1>3 DEF CleanInv, InHand
<1>5. \A g \in Handlers \ {h} : ~Awaits(g)
  <2> SUFFICES ASSUME NEW g \in Handlers \ {h}, Awaits(g) PROVE FALSE
    OBVIOUS
  <2>1. task[g] \in AuthTasks /\ pc[g] # "idle" /\ task[g].op \in {"add", "remove"}
    BY Here DEF Awaits
  <2>2. task[h] \in AuthTasks
    BY <1>1, <1>2, <2>1, Apart DEF CleanInv
  <2>3. Locked(pc[h], task[h]) /\ Locked(pc[g], task[g])
    BY <1>1, <2>1, <2>2 DEF Locked, Awaits
  <2> QED
    BY <2>3, OneLocked
<1> QED
  BY <1>1, <1>2, <1>3, <1>4, <1>5, GotClean
LEMMA WriteClean ==
    ASSUME TypeOK, \A g \in Handlers : Kinds(g), CleanInv, NEW h \in Handlers, Write(h), clean'
    PROVE  CleanInv'
<1>1. pc[h] = "write" /\ entry' = entry /\ task[h] \in SetTasks \cup AuthTasks
  BY DEF Write, Kinds, Fits
<1>2. /\ \A f \in Settings : ~Sets(h, f)
      /\ \A u \in Users : ~Authorises(h, u)
  BY <1>1, Here DEF Sets, Authorises
<1>3. Peace
  BY DEF CleanInv
<1>4. CASE Return(h) /\ UNCHANGED doc
  <2>1. At(h, "idle", Idle, None)
    BY <1>4, Stands
  <2>2. pc'[h] = "idle"
    BY <2>1, Moved, Here, IdleTask
  <2>3. Made(h)' /\ InHand(h)'
    BY <2>2 DEF Made, InHand, Authorises, Awaits
  <2> QED
    BY <1>1, <1>2, <1>3, <1>4, <2>1, <2>3, PeaceStays, Still, Here, IdleTask
<1>5. CASE doc' = Updated(task[h]) /\ Goto(h, "lock") /\ UNCHANGED <<task, held>>
  <2>1. At(h, "lock", task[h], held[h]) /\ "lock" \in Labels
    BY <1>5, Stands DEF Labels
  <2>2. pc'[h] = "lock" /\ held'[h] = held[h] /\ task'[h] = task[h]
    BY <2>1, Moved, Here
  <2>3. PICK t \in SetTasks \cup AuthTasks : t = task[h]
    BY <1>1
  <2>4. t \in Tasks
    BY DEF Tasks
  <2>5. /\ doc # None => doc' # None /\ Fields(doc, t, doc')
        /\ doc = None /\ t.op = "remove" => doc' = None
        /\ doc = None /\ t.op # "remove" => doc' # None /\ Fields(Bare, t, doc')
    BY <1>5, <2>3, UpdatedMap
  <2>6. \A n \in Maps : True(n) => True(n)'
    <3> SUFFICES ASSUME NEW n \in Maps, True(n) PROVE True(n)'
      OBVIOUS
    <3>1. doc # None /\ doc' # None /\ Fields(doc, t, doc')
      BY <2>5 DEF True
    <3>2. \A f \in Settings : TellsField(n, f)' \/ \E g \in Handlers : Sets(g, f)'
      <4> SUFFICES ASSUME NEW f \in Settings
                   PROVE  TellsField(n, f)' \/ \E g \in Handlers : Sets(g, f)'
        OBVIOUS
      <4>1. CASE t \in SetTasks /\ t.field = f
        BY <2>2, <2>3, <4>1 DEF Sets
      <4>2. CASE \E g \in Handlers : Sets(g, f)
        BY <1>2, <2>1, <4>2, OthersStay, Here
      <4>3. CASE TellsField(n, f) /\ ~(t \in SetTasks /\ t.field = f)
        <5>1. doc'.set[f] = doc.set[f]
          BY <3>1, <4>3 DEF Fields
        <5> QED
          BY <4>3, <5>1 DEF TellsField
      <4> QED
        BY <4>1, <4>2, <4>3 DEF True
    <3>3. \A u \in Users : TellsUser(n, u)' \/ \E g \in Handlers : Authorises(g, u)'
      <4> SUFFICES ASSUME NEW u \in Users
                   PROVE  TellsUser(n, u)' \/ \E g \in Handlers : Authorises(g, u)'
        OBVIOUS
      <4>1. CASE t \in AuthTasks /\ t.user = u
        BY <2>2, <2>3, <4>1 DEF Authorises
      <4>2. CASE \E g \in Handlers : Authorises(g, u)
        BY <1>2, <2>1, <4>2, OthersStay, Here
      <4>3. CASE TellsUser(n, u) /\ ~(t \in AuthTasks /\ t.user = u)
        <5>1. u \in Authorised(doc') <=> u \in Authorised(doc)
          BY <2>4, <3>1, <4>3, TaskKinds DEF Fields
        <5>2. (u \in Authorised(doc))' <=> u \in Authorised(doc)
          BY <5>1 DEF Authorised
        <5> QED
          BY <4>3, <5>2 DEF TellsUser, Authorised
      <4> QED
        BY <4>1, <4>2, <4>3 DEF True
    <3> QED
      BY <3>1, <3>2, <3>3 DEF True
  <2>7. \A g \in Handlers \ {h} : Made(g)'
    <3> SUFFICES ASSUME NEW g \in Handlers \ {h} PROVE Made(g)'
      OBVIOUS
    <3>1. /\ pc'[g] = pc[g] /\ task'[g] = task[g] /\ held'[g] = held[g]
          /\ \A u : Authorises(g, u)' <=> Authorises(g, u)
      BY <2>1, OthersStay, Here
    <3>2. Made(g) /\ task[g] \in Tasks
      BY Here DEF CleanInv
    <3>3. /\ pc[g] # "idle" => task[g].op \in {"set", "add", "remove", "all"}
          /\ pc[g] # "idle" /\ t \in SetTasks /\ task[g] \in SetTasks => t.field # task[g].field
          /\ pc[g] # "idle" /\ t \in AuthTasks /\ task[g] \in AuthTasks => t.user # task[g].user
      BY <1>1, <1>3, <2>3, Apart
    <3>4. task[g] \in SetTasks /\ pc[g] \in {"lock", "merge", "store"} =>
              doc' # None /\ doc'.set[task[g].field] = task[g].value
      <4> SUFFICES ASSUME task[g] \in SetTasks, pc[g] \in {"lock", "merge", "store"}
                   PROVE  doc' # None /\ doc'.set[task[g].field] = task[g].value
        OBVIOUS
      <4>1. doc # None /\ doc.set[task[g].field] = task[g].value
        BY <3>2 DEF Made
      <4>2. task[g].field \in Settings /\ ~(t \in SetTasks /\ task[g].field = t.field)
        BY <3>2, <3>3, TaskKinds
      <4> QED
        BY <2>5, <4>1, <4>2 DEF Fields
    <3>5. \A u \in Users : Authorises(g, u) =>
              pc[g] # "idle" /\ ~(t \in AuthTasks /\ t.user = u)
      BY <3>3 DEF Authorises
    <3>6. \A u \in Users : Authorises(g, u) /\ task[g].op = "add" =>
              doc' # None /\ u \in Authorised(doc')
      <4> SUFFICES ASSUME NEW u \in Users, Authorises(g, u), task[g].op = "add"
                   PROVE  doc' # None /\ u \in Authorised(doc')
        OBVIOUS
      <4>1. doc # None /\ u \in Authorised(doc)
        BY <3>2 DEF Made
      <4> QED
        BY <2>4, <2>5, <3>5, <4>1, TaskKinds DEF Fields
    <3>7. \A u \in Users : Authorises(g, u) /\ task[g].op = "remove" =>
              doc' = None \/ u \notin Authorised(doc')
      <4> SUFFICES ASSUME NEW u \in Users, Authorises(g, u), task[g].op = "remove"
                   PROVE  doc' = None \/ u \notin Authorised(doc')
        OBVIOUS
      <4>1. doc = None \/ u \notin Authorised(doc)
        BY <3>2 DEF Made
      <4>2. CASE doc # None
        BY <2>4, <2>5, <3>5, <4>1, <4>2, TaskKinds DEF Fields
      <4>3. CASE doc = None
        <5>1. Authorised(Bare) = {}
          BY BlankMaps DEF Bare
        <5> QED
          BY <2>4, <2>5, <3>5, <4>3, <5>1, TaskKinds DEF Fields
      <4> QED
        BY <4>2, <4>3
    <3>8. pc[g] = "blank" => doc' # None
      BY <2>5, <3>2 DEF Made
    <3>9. pc[g] # "unset"
      BY <3>3 DEF Kinds, Fits
    <3>10. \A u : (u \in Authorised(doc))' <=> u \in Authorised(doc')
      BY DEF Authorised
    <3> QED
      BY <3>1, <3>4, <3>6, <3>7, <3>8, <3>9, <3>10 DEF Made
  <2>8. Made(h)'
    <3>1. t \in SetTasks => t.op # "remove" /\ t.field \in Settings
      BY <2>4, TaskKinds
    <3>2. t \in SetTasks => doc' # None /\ doc'.set[t.field] = t.value
      BY <2>5, <3>1 DEF Fields
    <3>3. t.op = "add" => doc' # None /\ t.user \in Authorised(doc')
      BY <2>5 DEF Fields
    <3>4. t.op = "remove" => doc' = None \/ t.user \notin Authorised(doc')
      BY <2>5 DEF Fields
    <3>5. \A u : (u \in Authorised(doc))' <=> u \in Authorised(doc')
      BY DEF Authorised
    <3> QED
      BY <2>2, <2>3, <3>2, <3>3, <3>4, <3>5 DEF Made, Authorises
  <2>9. InHand(h)'
    BY <2>2 DEF InHand, Awaits
  <2>10. Peace'
    BY <1>1, <1>3, <2>1, PeaceStays, Here
  <2>11. PICK e \in {None} \cup Maps : e = entry
    BY DEF TypeOK
  <2>12. e # None => True(e)
    BY <2>11 DEF CleanInv
  <2> QED
    BY <1>1, <2>1, <2>6, <2>7, <2>8, <2>9, <2>10, <2>11, <2>12, Keeps, Here
<1> QED
  BY <1>4, <1>5 DEF Write
LEMMA LockClean ==
    ASSUME TypeOK, \A g \in Handlers : Kinds(g), CleanInv, NEW h \in Handlers, Lock(h)
    PROVE  CleanInv'
<1>1. /\ pc[h] = "lock" /\ UNCHANGED <<doc, entry>>
      /\ task[h] \in SetTasks \cup AuthTasks
  BY DEF Lock, Kinds, Fits
<1>2. PICK l \in Labels : l = IF task[h] \in AuthTasks THEN "read" ELSE "merge"
  BY DEF Labels
<1>3. At(h, l, task[h], held[h])
  BY <1>2, Stands DEF Lock
<1>4. pc'[h] = l /\ held'[h] = held[h] /\ task'[h] = task[h]
  BY <1>3, Moved, Here
<1>5. \A f \in Settings : Sets(h, f) => Sets(h, f)'
  BY <1>1, <1>2, <1>4, Here DEF Sets
<1>6. \A u \in Users : Authorises(h, u) <=> Authorises(h, u)'
  BY <1>1, <1>2, <1>4 DEF Authorises
<1>7. \A u : (u \in Authorised(doc))' <=> u \in Authorised(doc)
  BY <1>1 DEF Authorised
<1>8. Made(h)'
  BY <1>1, <1>2, <1>4, <1>6, <1>7 DEF Made, CleanInv
<1>9. InHand(h)'
  BY <1>2, <1>4 DEF InHand, Awaits
<1>10. Peace'
  BY <1>1, <1>3, PeaceStays, Here DEF CleanInv
<1> QED
  BY <1>1, <1>3, <1>5, <1>6, <1>8, <1>9, <1>10, Still, Here

LEMMA MergeClean ==
    ASSUME TypeOK, \A g \in Handlers : Kinds(g), CleanInv, NEW h \in Handlers, Merge(h)
    PROVE  CleanInv'
<1>1. pc[h] = "merge" /\ UNCHANGED <<doc, entry>> /\ task[h] \in SetTasks
  BY DEF Merge, Kinds, Fits
<1>2. PICK m \in Maps : m = IF entry = None THEN Empty ELSE entry
  BY Constants DEF TypeOK
<1>3. At(h, "store", task[h], m) /\ "store" \in Labels
  BY <1>2, Stands DEF Merge, Labels
<1>4. pc'[h] = "store" /\ held'[h] = m /\ task'[h] = task[h]
  BY <1>3, Moved, Here
<1>5. \A f \in Settings : Sets(h, f) => Sets(h, f)'
  BY <1>1, <1>4 DEF Sets
<1>6. \A u \in Users : ~Authorises(h, u) /\ ~Authorises(h, u)'
  BY <1>1, <1>4, Here DEF Authorises
<1>7. Made(h)'
  BY <1>1, <1>4, <1>6 DEF Made, CleanInv
<1>8. True(m)
  <2>1. doc # None
    BY <1>1 DEF CleanInv, Made
  <2> QED
    BY <1>2, <2>1, EmptyTrue DEF CleanInv
<1>9. True(m)'
  <2>1. NothingLost
    BY <1>3, <1>5, <1>6, OthersStay, Here DEF NothingLost
  <2> QED
    BY <1>1, <1>8, <2>1, TrueStays
<1>10. True(held[h])'
  BY <1>4, <1>9 DEF True, TellsField, TellsUser, Authorised
<1>11. InHand(h)'
  BY <1>1, <1>4, <1>10, Here DEF InHand, Awaits
<1>12. Peace'
  BY <1>1, <1>3, PeaceStays, Here DEF CleanInv
<1> QED
  BY <1>1, <1>3, <1>5, <1>6, <1>7, <1>11, <1>12, Still, Here

LEMMA StoreClean ==
    ASSUME TypeOK, \A g \in Handlers : Kinds(g), CleanInv, NEW h \in Handlers, Store(h)
    PROVE  CleanInv'
<1>1. /\ pc[h] = "store" /\ doc' = doc /\ Return(h) /\ held[h] # None
      /\ entry' = Changed(held[h], task[h]) /\ task[h] \in SetTasks \cup AuthTasks
  BY DEF Store, Kinds, Fits, history
<1>2. PICK m \in Maps, t \in SetTasks \cup AuthTasks : m = held[h] /\ t = task[h]
  BY <1>1, Here
<1>3. PICK e \in Maps : e = Changed(m, t) /\ e.whole = m.whole /\ Fields(m, t, e)
  BY ChangedMap
<1>4. True(m) /\ Made(h)
  BY <1>1, <1>2 DEF CleanInv, InHand
<1>5. \A g \in Handlers \ {h} :
          /\ \A f : Sets(g, f)' <=> Sets(g, f)
          /\ \A u : Authorises(g, u)' <=> Authorises(g, u)
  BY <1>1, Stands, OthersStay, Here, IdleTask
<1>6. t \in Tasks /\ entry' = e /\ e # None /\ doc' = doc /\ doc # None
  BY <1>1, <1>2, <1>3, <1>4, Constants DEF Tasks, True
<1>7. \A f \in Settings : TellsField(e, f)' \/ \E g \in Handlers : Sets(g, f)'
  <2> SUFFICES ASSUME NEW f \in Settings
               PROVE  TellsField(e, f)' \/ \E g \in Handlers : Sets(g, f)'
    OBVIOUS
  <2>1. CASE t \in SetTasks /\ t.field = f
    <3>1. e.set[f] = t.value
      BY <1>3, <2>1 DEF Fields
    <3>2. doc.set[f] = t.value
      BY <1>1, <1>2, <1>4, <2>1 DEF Made
    <3> QED
      BY <1>6, <3>1, <3>2 DEF TellsField
  <2>2. CASE ~(t \in SetTasks /\ t.field = f) /\ \E g \in Handlers : Sets(g, f)
    <3>1. ~Sets(h, f)
      BY <1>2, <1>6, <2>2, TaskKinds DEF Sets
    <3> QED
      BY <1>5, <2>2, <3>1
  <2>3. CASE ~(t \in SetTasks /\ t.field = f) /\ TellsField(m, f)
    <3>1. e.set[f] = m.set[f]
      BY <1>3, <2>3 DEF Fields
    <3> QED
      BY <1>3, <1>6, <2>3, <3>1 DEF TellsField
  <2> QED
    BY <1>4, <2>1, <2>2, <2>3 DEF True
<1>8. \A u \in Users : TellsUser(e, u)' \/ \E g \in Handlers : Authorises(g, u)'
  <2> SUFFICES ASSUME NEW u \in Users
               PROVE  TellsUser(e, u)' \/ \E g \in Handlers : Authorises(g, u)'
    OBVIOUS
  <2>1. (u \in Authorised(doc))' <=> u \in Authorised(doc)
    BY <1>6 DEF Authorised
  <2>2. CASE t \in AuthTasks /\ t.user = u
    <3>1. t.op \in {"add", "remove"} /\ Authorises(h, u)
      BY <1>1, <1>2, <1>6, <2>2, TaskKinds DEF Authorises
    <3>2. CASE t.op = "add"
      <4>1. u \in Authorised(e) /\ u \in Authorised(doc)
        BY <1>2, <1>3, <1>4, <2>2, <3>1, <3>2 DEF Fields, Made
      <4> QED
        BY <2>1, <4>1 DEF TellsUser
    <3>3. CASE t.op = "remove"
      <4>1. u \notin Authorised(e) /\ u \notin Authorised(doc)
        BY <1>2, <1>3, <1>4, <1>6, <2>2, <3>1, <3>3 DEF Fields, Made
      <4> QED
        BY <2>1, <4>1 DEF TellsUser
    <3> QED
      BY <3>1, <3>2, <3>3
  <2>3. CASE ~(t \in AuthTasks /\ t.user = u) /\ \E g \in Handlers : Authorises(g, u)
    <3>1. ~Authorises(h, u)
      BY <1>2, <2>3 DEF Authorises
    <3> QED
      BY <1>5, <2>3, <3>1
  <2>4. CASE ~(t \in AuthTasks /\ t.user = u) /\ TellsUser(m, u)
    <3>1. u \in Authorised(e) <=> u \in Authorised(m)
      BY <1>3, <1>6, <2>4, TaskKinds DEF Fields
    <3> QED
      BY <1>3, <2>1, <2>4, <3>1 DEF TellsUser
  <2> QED
    BY <1>4, <2>2, <2>3, <2>4 DEF True
<1>9. True(e)'
  BY <1>6, <1>7, <1>8 DEF True
<1>10. True(entry)'
  BY <1>6, <1>9 DEF True, TellsField, TellsUser, Authorised
<1>11. Locked(pc[h], task[h]) /\ pc[h] # "idle"
  BY <1>1 DEF Locked
<1>12. \A g \in Handlers \ {h} : pc[g] \notin {"fill", "store"} /\ ~Awaits(g)
  BY <1>1, <1>11, NoOtherHand DEF CleanInv
<1> QED
  BY <1>1, <1>10, <1>11, <1>12, Alone

(* Nobody is at work and nothing is cached.                                *)
LEMMA RestartClean ==
    ASSUME Restarted
    PROVE  CleanInv'
<1>1. /\ \A h \in Handlers : pc'[h] = "idle"
      /\ entry' = None
  BY DEF Restarted
<1>2. \A h \in Handlers : Made(h)' /\ InHand(h)'
  BY <1>1 DEF Made, InHand, Authorises, Awaits
<1> QED
  BY <1>1, <1>2 DEF CleanInv, Peace

LEMMA PanicClean ==
    ASSUME TypeOK, \A g \in Handlers : Kinds(g), CleanInv, NEW h \in Handlers, Panic(h)
    PROVE  CleanInv'
<1>1. CASE Return(h) /\ UNCHANGED <<doc, entry, history>>
  <2>1. /\ pc[h] = "store" /\ held[h] = None /\ pc[h] # "idle"
        /\ task[h] \in AuthTasks /\ Locked(pc[h], task[h])
    BY DEF Panic, Kinds, Fits, Locked
  <2>2. entry \in {None, Empty}
    BY <2>1 DEF CleanInv, InHand, Awaits
  <2>3. entry' # None => True(entry)'
    <3> SUFFICES ASSUME entry' # None PROVE True(entry)'
      OBVIOUS
    <3>1. doc # None /\ entry' = Empty /\ doc' # None
      BY <1>1, <2>2 DEF CleanInv, True
    <3>2. /\ \A f \in Settings : Empty.set[f] = Missing
          /\ Empty.whole = FALSE /\ Authorised(Empty) = {}
      BY BlankMaps DEF Empty
    <3>3. \A u : u \notin Authorised(entry)'
      BY <3>1, <3>2 DEF Authorised
    <3> QED
      BY <3>1, <3>2, <3>3 DEF True, TellsField, TellsUser
  <2>4. \A g \in Handlers \ {h} : pc[g] \notin {"fill", "store"} /\ ~Awaits(g)
    BY <2>1, NoOtherHand DEF CleanInv
  <2> QED
    BY <1>1, <2>1, <2>3, <2>4, Alone
<1> QED
  BY <1>1, RestartClean DEF Panic
LEMMA UpsertClean ==
    ASSUME TypeOK, \A g \in Handlers : Kinds(g), CleanInv, NEW h \in Handlers, Upsert(h)
    PROVE  CleanInv'
<1>1. pc[h] = "upsert" /\ entry' = entry /\ Return(h) /\ task[h].op = "chat"
  BY DEF Upsert, Kinds, Fits
<1>2. At(h, "idle", Idle, None) /\ pc'[h] = "idle"
  BY <1>1, Stands, Moved, Here, IdleTask
<1>3. Made(h)' /\ InHand(h)'
  BY <1>2 DEF Made, InHand, Authorises, Awaits
<1>4. Peace'
  BY <1>2, PeaceStays, Here, IdleTask DEF CleanInv
<1>5. /\ \A f \in Settings : ~Sets(h, f)
      /\ \A u \in Users : ~Authorises(h, u)
  BY <1>1 DEF Sets, Authorises
<1>6. CASE doc' = doc
  BY <1>1, <1>2, <1>3, <1>4, <1>5, <1>6, Still, Here, IdleTask
<1>7. CASE doc = None /\ doc' = Bare
  <2>1. \A n : ~True(n)
    BY <1>7 DEF True
  <2>2. \A g \in Handlers \ {h} : Made(g)'
    <3> SUFFICES ASSUME NEW g \in Handlers \ {h} PROVE Made(g)'
      OBVIOUS
    <3>1. /\ pc'[g] = pc[g] /\ task'[g] = task[g] /\ held'[g] = held[g]
          /\ \A u : Authorises(g, u)' <=> Authorises(g, u)
      BY <1>2, OthersStay, Here, IdleTask
    <3>2. \A u : ~(u \in Authorised(doc))'
      BY <1>7, BlankMaps DEF Bare, Authorised
    <3>3. doc'.set[Assistant] = Missing
      BY <1>7, BlankMaps, Constants DEF Bare
    <3>4. Made(g)
      BY DEF CleanInv
    <3> QED
      BY <1>7, <3>1, <3>2, <3>3, <3>4 DEF Made
  <2>3. entry = None
    BY <2>1 DEF CleanInv
  <2> QED
    BY <1>1, <1>2, <1>3, <1>4, <2>1, <2>2, <2>3, Keeps, Here, IdleTask
<1> QED
  BY <1>6, <1>7 DEF Upsert

LEMMA ListClean ==
    ASSUME TypeOK, \A g \in Handlers : Kinds(g), CleanInv, NEW h \in Handlers, List(h)
    PROVE  CleanInv'
<1>1. pc[h] = "list" /\ UNCHANGED <<doc, entry>> /\ task[h].op = "all"
  BY DEF List, Kinds, Fits
<1>2. /\ \A f \in Settings : ~Sets(h, f)
      /\ \A u \in Users : ~Authorises(h, u)
  BY <1>1 DEF Sets, Authorises
<1>3. CASE Return(h)
  <2>1. At(h, "idle", Idle, None) /\ pc'[h] = "idle"
    BY <1>3, Stands, Moved, Here, IdleTask
  <2>2. Made(h)' /\ InHand(h)'
    BY <2>1 DEF Made, InHand, Authorises, Awaits
  <2>3. Peace'
    BY <2>1, PeaceStays, Here, IdleTask DEF CleanInv
  <2> QED
    BY <1>1, <1>2, <2>1, <2>2, <2>3, Still, Here, IdleTask
<1>4. CASE doc # None /\ Goto(h, "blank") /\ UNCHANGED <<task, held>>
  <2>1. At(h, "blank", task[h], held[h]) /\ "blank" \in Labels
    BY <1>4, Stands DEF Labels
  <2>2. pc'[h] = "blank"
    BY <2>1, Moved, Here
  <2>3. Made(h)' /\ InHand(h)'
    BY <1>1, <1>4, <2>2 DEF Made, InHand, Authorises, Awaits
  <2>4. Peace'
    BY <1>1, <2>1, PeaceStays, Here DEF CleanInv
  <2> QED
    BY <1>1, <1>2, <2>1, <2>3, <2>4, Still, Here
<1> QED
  BY <1>3, <1>4 DEF List

LEMMA BlankClean ==
    ASSUME TypeOK, \A g \in Handlers : Kinds(g), CleanInv, NEW h \in Handlers, Blank(h)
    PROVE  CleanInv'
<1>1. pc[h] = "blank" /\ entry' = Empty /\ doc' = doc /\ Return(h) /\ task[h].op = "all"
  BY DEF Blank, Kinds, Fits
<1>2. /\ \A f \in Settings : ~Sets(h, f)
      /\ \A u \in Users : ~Authorises(h, u)
  BY <1>1 DEF Sets, Authorises
<1>3. At(h, "idle", Idle, None) /\ pc'[h] = "idle"
  BY <1>1, Stands, Moved, Here, IdleTask
<1>4. Made(h)' /\ InHand(h)'
  BY <1>3 DEF Made, InHand, Authorises, Awaits
<1>5. Peace'
  BY <1>3, PeaceStays, Here, IdleTask DEF CleanInv
<1>6. PICK e \in {None} \cup Maps : e = Empty
  BY Constants
<1>7. True(e)
  <2>1. True(Empty)
    BY <1>1, EmptyTrue DEF CleanInv, Made
  <2> QED
    BY <1>6, <2>1
<1> QED
  BY <1>1, <1>2, <1>3, <1>4, <1>5, <1>6, <1>7, Quiet, Here, IdleTask

LEMMA ChooseClean ==
    ASSUME TypeOK, \A g \in Handlers : Kinds(g), CleanInv, NEW h \in Handlers, Choose(h)
    PROVE  clean' => CleanInv'
<1> SUFFICES ASSUME clean' PROVE CleanInv'
  OBVIOUS
<1>1. pc[h] = "choose" /\ UNCHANGED <<doc, entry>> /\ task[h].op = "clear"
  BY DEF Choose, Kinds, Fits
<1>2. /\ \A f \in Settings : ~Sets(h, f)
      /\ \A u \in Users : ~Authorises(h, u)
  BY <1>1, Here DEF Sets, Authorises
<1>3. CASE Return(h)
  <2>1. At(h, "idle", Idle, None) /\ pc'[h] = "idle"
    BY <1>3, Stands, Moved, Here, IdleTask
  <2>2. Made(h)' /\ InHand(h)'
    BY <2>1 DEF Made, InHand, Authorises, Awaits
  <2>3. Peace'
    BY <2>1, PeaceStays, Here, IdleTask DEF CleanInv
  <2> QED
    BY <1>1, <1>2, <2>1, <2>2, <2>3, Still, Here, IdleTask
<1>4. CASE /\ Goto(h, "unset") /\ UNCHANGED task
           /\ held' = [held EXCEPT ![h] =
                       IF doc # None /\ doc.set[Assistant] # Missing THEN Empty ELSE None]
  <2>1. PICK m \in {None} \cup Maps :
            m = IF doc # None /\ doc.set[Assistant] # Missing THEN Empty ELSE None
    BY Constants
  <2>2. At(h, "unset", task[h], m) /\ "unset" \in Labels
    BY <1>4, <2>1, Stands DEF Labels
  <2>3. pc'[h] = "unset" /\ held'[h] = m
    BY <2>2, Moved, Here
  <2>4. held'[h] = None => doc' = None \/ doc'.set[Assistant] = Missing
    BY <1>1, <2>1, <2>3, Constants
  <2>5. Made(h)' /\ InHand(h)'
    BY <2>3, <2>4 DEF Made, InHand, Authorises, Awaits
  <2>6. Peace'
    BY <1>1, <2>2, PeaceStays, Here DEF CleanInv
  <2> QED
    BY <1>1, <1>2, <2>2, <2>5, <2>6, Still, Here
<1> QED
  BY <1>3, <1>4 DEF Choose

LEMMA UnsetClean ==
    ASSUME TypeOK, \A g \in Handlers : Kinds(g), CleanInv, NEW h \in Handlers, Unset(h)
    PROVE  clean' => CleanInv'
<1> SUFFICES ASSUME clean' PROVE CleanInv'
  OBVIOUS
<1>1. pc[h] = "unset" /\ entry' = entry /\ task[h].op = "clear"
  BY DEF Unset, Kinds, Fits
<1>2. /\ \A f \in Settings : ~Sets(h, f)
      /\ \A u \in Users : ~Authorises(h, u)
  BY <1>1, Here DEF Sets, Authorises
<1>3. PICK l \in {"idle", "delete"}, t \in {Idle, task[h]}, m \in {None, held[h]} :
          /\ At(h, l, t, m)
          /\ l = "idle" \/ t = task[h]
          /\ l = "idle" /\ doc' # doc => held[h] = None
  BY Stands DEF Unset
<1>4. l \in Labels /\ t \in Tasks /\ m \in {None} \cup Maps
  BY Here, IdleTask DEF Labels
<1>5. pc'[h] = l /\ task'[h] = t
  BY <1>3, <1>4, Moved
<1>6. Made(h)' /\ InHand(h)'
  BY <1>5 DEF Made, InHand, Authorises, Awaits, Unset
<1>7. Peace'
  BY <1>1, <1>3, <1>4, PeaceStays DEF CleanInv
<1>8. CASE doc' = doc
  BY <1>1, <1>2, <1>3, <1>4, <1>6, <1>7, <1>8, Still
<1>9. CASE doc # None /\ doc' = [doc EXCEPT !.set[Assistant] = Missing] /\ doc' # doc
  <2>1. PICK d \in Maps : d = doc
    BY <1>9, Constants DEF TypeOK
  <2>2. PICK n : n = [d EXCEPT !.set[Assistant] = Missing]
    OBVIOUS
  <2>3. /\ doc' = n /\ n \in Maps /\ n.set[Assistant] = Missing /\ n.auth = d.auth
        /\ \A f \in Settings \ {Assistant} : n.set[f] = d.set[f]
    BY <1>9, <2>1, <2>2, SetField, Constants
  <2>4. \A u : (u \in Authorised(doc))' <=> u \in Authorised(doc)
    BY <2>1, <2>3 DEF Authorised
  <2>5. l = "idle" => doc'.set[Assistant] = doc.set[Assistant]
    <3>1. l = "idle" => held[h] = None
      BY <1>3, <1>9
    <3> QED
      BY <1>1, <1>9, <2>3, <3>1 DEF CleanInv, Made
  <2>6. l = "delete" => Sets(h, Assistant)'
    BY <1>1, <1>3, <1>5 DEF Sets
  <2>7. \A k \in Maps : True(k) => True(k)'
    <3> SUFFICES ASSUME NEW k \in Maps, True(k) PROVE True(k)'
      OBVIOUS
    <3>1. doc' # None
      BY <2>3, Constants
    <3>2. \A f \in Settings : TellsField(k, f)' \/ \E g \in Handlers : Sets(g, f)'
      <4> SUFFICES ASSUME NEW f \in Settings
                   PROVE  TellsField(k, f)' \/ \E g \in Handlers : Sets(g, f)'
        OBVIOUS
      <4>1. CASE f = Assistant /\ l = "delete"
        BY <2>6, <4>1
      <4>2. CASE \E g \in Handlers : Sets(g, f)
        BY <1>2, <1>3, <1>4, <4>2, OthersStay
      <4>3. CASE TellsField(k, f) /\ ~(f = Assistant /\ l = "delete")
        <5>1. doc'.set[f] = doc.set[f]
          BY <1>3, <2>1, <2>3, <2>5, <4>3
        <5> QED
          BY <4>3, <5>1 DEF TellsField
      <4> QED
        BY <4>1, <4>2, <4>3 DEF True
    <3>3. \A u \in Users : TellsUser(k, u)' \/ \E g \in Handlers : Authorises(g, u)'
      <4> SUFFICES ASSUME NEW u \in Users
                   PROVE  TellsUser(k, u)' \/ \E g \in Handlers : Authorises(g, u)'
        OBVIOUS
      <4>1. TellsUser(k, u) => TellsUser(k, u)'
        BY <2>4 DEF TellsUser, Authorised
      <4>2. (\E g \in Handlers : Authorises(g, u)) => \E g \in Handlers : Authorises(g, u)'
        BY <1>2, <1>3, <1>4, OthersStay
      <4> QED
        BY <4>1, <4>2 DEF True
    <3> QED
      BY <3>1, <3>2, <3>3 DEF True
  <2>8. \A g \in Handlers \ {h} : Made(g)'
    <3> SUFFICES ASSUME NEW g \in Handlers \ {h} PROVE Made(g)'
      OBVIOUS
    <3>1. pc'[g] = pc[g] /\ task'[g] = task[g] /\ held'[g] = held[g]
      BY <1>3, <1>4, OthersStay
    <3>2. pc[g] # "idle" => task[g].op = "all"
      BY <1>1, Apart DEF CleanInv
    <3>3. pc[g] = "blank" => doc' # None
      BY <2>3, Constants
    <3>4. pc[g] # "unset"
      BY <3>2 DEF Kinds, Fits
    <3>5. pc[g] \in {"lock", "merge", "store"} => task[g] \notin SetTasks
      BY <3>2, Here
    <3>6. \A u : ~Authorises(g, u)'
      BY <3>1, <3>2, Here DEF Authorises
    <3> QED
      BY <3>1, <3>3, <3>4, <3>5, <3>6 DEF Made
  <2>9. PICK e \in {None} \cup Maps : e = entry
    BY DEF TypeOK
  <2>10. e # None => True(e)
    BY <2>9 DEF CleanInv
  <2> QED
    BY <1>1, <1>3, <1>4, <1>6, <1>7, <2>7, <2>8, <2>9, <2>10, Keeps
<1> QED
  BY <1>8, <1>9 DEF Unset

LEMMA DeleteClean ==
    ASSUME TypeOK, \A g \in Handlers : Kinds(g), CleanInv, NEW h \in Handlers, Delete(h)
    PROVE  CleanInv'
<1>1. /\ pc[h] = "delete" /\ pc[h] # "idle" /\ task[h].op = "clear"
      /\ entry' = None /\ doc' = doc /\ Return(h)
  BY DEF Delete, Kinds, Fits
<1>2. \A g \in Handlers \ {h} : pc[g] \notin {"fill", "store"} /\ ~Awaits(g)
  BY <1>1, NoOtherHand DEF CleanInv
<1> QED
  BY <1>1, <1>2, Alone

LEMMA ExpireClean ==
    ASSUME TypeOK, CleanInv, Expire
    PROVE  CleanInv'
<1>1. entry' = None /\ UNCHANGED <<doc, pc, task, held>>
  BY DEF Expire
<1>2. Peace'
  BY <1>1 DEF Peace, CleanInv
<1>3. ASSUME NEW h \in Handlers
      PROVE  Made(h)' /\ InHand(h)'
  <2>1. Made(h)'
    BY <1>1 DEF CleanInv, Made, Authorises, Authorised
  <2>2. InHand(h)'
    BY <1>1 DEF CleanInv, InHand, Awaits, True, TellsField, TellsUser, Sets, Authorises, Authorised
  <2> QED
    BY <2>1, <2>2
<1> QED
  BY <1>1, <1>2, <1>3 DEF CleanInv

-----------------------------------------------------------------------------
(* The theorems.                                                           *)

LEMMA NextClean ==
    ASSUME TypeOK, \A g \in Handlers : Kinds(g), clean => CleanInv, [Next]_vars, clean'
    PROVE  CleanInv'
<1>1. CASE UNCHANGED vars
  BY <1>1 DEF vars, history, CleanInv, Peace, Made, InHand, Awaits, True, TellsField, TellsUser,
              Sets, Authorises, Authorised
<1>2. CASE Expire
  BY <1>2, ExpireClean DEF Expire, history
<1>3. CASE Restart
  BY <1>3, RestartClean DEF Restart
<1>4. ASSUME NEW h \in Handlers, Call(h)
      PROVE  CleanInv'
  <2>1. clean
    BY <1>4 DEF Call, TypeOK
  <2> QED
    BY <1>4, <2>1, CallClean
<1>5. ASSUME NEW h \in Handlers, Step(h)
      PROVE  CleanInv'
  <2>1. clean \/ Restarted
    BY <1>5 DEF Step, Read, Find, Fill, Write, Lock, Merge, Store, Panic, Upsert, List, Blank,
                Choose, Unset, Delete, history
  <2> QED
    BY <1>5, <2>1, ReadClean, FindClean, FillClean, WriteClean, LockClean, MergeClean, StoreClean,
       PanicClean, UpsertClean, ListClean, BlankClean, ChooseClean, UnsetClean, DeleteClean,
       RestartClean DEF Step
<1> QED
  BY <1>1, <1>2, <1>3, <1>4, <1>5 DEF Next

LEMMA InitStore == Init => StoreInv
<1> SUFFICES ASSUME Init PROVE StoreInv
  OBVIOUS
<1>1. \A h \in Handlers : pc[h] = "idle"
  BY DEF Init
<1>2. TypeOK
  BY <1>1, IdleTask, StoreAssumption, Constants DEF Init, TypeOK, StoreAssumption, Labels
<1>3. \A h \in Handlers : Kinds(h)
  BY <1>1 DEF Kinds, Fits
<1>4. Peace /\ \A h \in Handlers : Made(h) /\ InHand(h)
  BY <1>1 DEF Peace, Made, InHand, Authorises, Awaits
<1> QED
  BY <1>2, <1>3, <1>4 DEF Init, StoreInv, CleanInv

(* The inductive invariant of the methods of Database for one chat: where  *)
(* each is and who has chatCacheMux, and, as long as no answer of MongoDB  *)
(* was lost and no rivals overlapped, that the cached map and every copy   *)
(* of it that a writer has taken differ from the document only by changes  *)
(* whose writers have not stored them yet.                                 *)
THEOREM StoreInvCorrect == Spec => []StoreInv
<1>1. StoreInv /\ [Next]_vars => StoreInv'
  BY NextTyped, NextClean DEF StoreInv
<1> QED
  BY <1>1, InitStore, PTL DEF Spec

(* In every state the document, the cached map and the goroutines' locals  *)
(* are of their kinds, and who holds chatCacheMux is inside               *)
(* updateChatField, AddAuthUser or RemoveAuthUser: no return, error or     *)
(* panic leaves with it.                                                   *)
THEOREM TypeCorrect == Spec => []TypeOK
<1>1. StoreInv => TypeOK
  BY DEF StoreInv
<1> QED
  BY <1>1, StoreInvCorrect, PTL

(* What the cache says of a field nobody is changing, or of a user nobody  *)
(* is authorising, is so in MongoDB, however many writers of other fields  *)
(* and users overlap.                                                      *)
THEOREM CacheTellsTruthCorrect == Spec => []CacheTellsTruth
<1>1. StoreInv => CacheTellsTruth
  <2> SUFFICES ASSUME StoreInv, clean, entry # None
               PROVE  /\ doc # None
                      /\ \A f \in Settings :
                            (entry.set[f] # Missing \/ entry.whole) /\ ~Changing(f) =>
                                entry.set[f] = doc.set[f]
                      /\ \A u \in Users : ~Authorising(u) =>
                            /\ u \in Authorised(entry) => u \in Authorised(doc)
                            /\ u \in Authorised(doc) /\ entry.whole => u \in Authorised(entry)
    BY DEF CacheTellsTruth
  <2>1. True(entry)
    BY DEF StoreInv, CleanInv
  <2>2. \A f \in Settings : ~Changing(f) => \A h \in Handlers : ~Sets(h, f)
    BY DEF Changing, Sets
  <2>3. \A u \in Users : ~Authorising(u) => \A h \in Handlers : ~Authorises(h, u)
    BY DEF Authorising, Authorises
  <2> QED
    BY <2>1, <2>2, <2>3 DEF True, TellsField, TellsUser
<1> QED
  BY <1>1, StoreInvCorrect, PTL
=============================================================================
