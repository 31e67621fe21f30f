----------------------------- MODULE TaskProofs -----------------------------
(***************************************************************************)
(* Proofs about three of the parts in MCTasks - RTMP streams, private      *)
(* calls and downloads - for all goroutines, names and bounds.  Each       *)
(* theorem is about the specification of the part alone; that a run of     *)
(* MCTasks is one of each part comes last.                                 *)
(***************************************************************************)
EXTENDS MCTasks, BroadcastProofs, SequenceTheorems

-----------------------------------------------------------------------------
(* RTMP streams.                                                           *)

(* A goroutine has a stream in hand just when it is about to register or   *)
(* to kill it, and a stream is registered once.                            *)
Hands ==
    /\ \A h \in Handlers : mine[h] # None <=> at[h] \in {"register", "kill"}
    /\ \A s \in Rtmp!Streams : caught[s] # None <=> waiter[s] = "kill"
    /\ \A s \in Rtmp!Streams : waiter[s] # "none" => process[s] # "none"
    /\ \A h \in Handlers : at[h] = "register" =>
          process[mine[h]] # "none" /\ waiter[mine[h]] = "none"
    /\ \A g, h \in Handlers :
          g # h /\ at[g] = "register" /\ at[h] = "register" => mine[g] # mine[h]

StreamInv == Rtmp!TypeOK /\ Hands /\ Rtmp!RunningIsListed

LEMMA StreamNumbers ==
    /\ Rtmp!Streams \subseteq Nat /\ None \notin Rtmp!Streams /\ Chunks \in Nat
  BY TasksAssumption DEF TasksAssumption, Rtmp!Streams

LEMMA InitStreams == Rtmp!Init => StreamInv
<1> SUFFICES ASSUME Rtmp!Init PROVE StreamInv
  OBVIOUS
<1>1. Rtmp!TypeOK
  <2>1. feeder \in [Rtmp!Streams -> -1..Chunks]
    BY StreamNumbers DEF Rtmp!Init
  <2>2. /\ at \in [Handlers -> Rtmp!HandlerLabels]
        /\ mine \in [Handlers -> Rtmp!Streams \cup {None}]
    BY DEF Rtmp!Init, Rtmp!HandlerLabels
  <2>3. /\ process \in [Rtmp!Streams -> Rtmp!States]
        /\ waiter \in [Rtmp!Streams -> Rtmp!WaiterLabels]
        /\ caught \in [Rtmp!Streams -> Rtmp!Streams \cup {None}]
    BY DEF Rtmp!Init, Rtmp!States, Rtmp!WaiterLabels
  <2> QED
    BY <2>1, <2>2, <2>3 DEF Rtmp!Init, Rtmp!TypeOK
<1>2. Hands
  BY DEF Rtmp!Init, Hands
<1>3. Rtmp!RunningIsListed
  BY DEF Rtmp!Init, Rtmp!RunningIsListed
<1> QED
  BY <1>1, <1>2, <1>3 DEF StreamInv

(* Steps that leave the map, the hands and the running processes alone.    *)
LEMMA QuietStreams ==
    ASSUME StreamInv, Rtmp!TypeOK', UNCHANGED <<entry, mine, caught, raced>>,
           \A s \in Rtmp!Streams : process'[s] = process[s] \/ process'[s] = "ended",
           \A s \in Rtmp!Streams : waiter[s] = "kill" <=> waiter'[s] = "kill",
           \A s \in Rtmp!Streams : waiter[s] = "none" <=> waiter'[s] = "none",
           \A h \in Handlers : \/ at'[h] = at[h]
                               \/ {at[h], at'[h]} \cap {"register", "kill"} = {}
    PROVE  StreamInv'
<1>1. Hands'
  <2>1. /\ \A h \in Handlers : at[h] = "register" <=> at'[h] = "register"
        /\ \A h \in Handlers : at[h] \in {"register", "kill"} <=> at'[h] \in {"register", "kill"}
    OBVIOUS
  <2>2. \A h \in Handlers : at[h] = "register" => mine[h] \in Rtmp!Streams
    BY DEF StreamInv, Hands, Rtmp!TypeOK
  <2>3. \A s \in Rtmp!Streams : process[s] # "none" => process'[s] # "none"
    OBVIOUS
  <2> QED
    BY <2>1, <2>2, <2>3 DEF StreamInv, Hands
<1>2. Rtmp!RunningIsListed'
  BY DEF StreamInv, Rtmp!RunningIsListed, Rtmp!InHand
<1> QED
  BY <1>1, <1>2 DEF StreamInv

LEMMA HandlerStreams ==
    ASSUME StreamInv, NEW h \in Handlers,
           Rtmp!Stream(h) \/ Rtmp!StopStream(h) \/ Rtmp!HandlerStep(h)
    PROVE  StreamInv'
<1> USE StreamNumbers
<1> USE DEF Rtmp!TypeOK, Rtmp!Goto, Rtmp!locals, Rtmp!goroutines, Rtmp!States, Rtmp!HandlerLabels,
            Rtmp!WaiterLabels
<1>1. Rtmp!TypeOK
  BY DEF StreamInv
<1>2. CASE Rtmp!Stream(h)
  BY <1>1, <1>2, QuietStreams DEF Rtmp!Stream
<1>3. CASE Rtmp!StopStream(h)
  BY <1>1, <1>3, QuietStreams DEF Rtmp!StopStream
<1>4. CASE Rtmp!Exists(h)
  BY <1>1, <1>4, QuietStreams DEF Rtmp!Exists
<1>5. CASE Rtmp!Media(h)
  BY <1>1, <1>5, QuietStreams DEF Rtmp!Media
<1>6. CASE Rtmp!Start(h)
  <2>1. CASE Rtmp!Goto(h, "idle") /\ UNCHANGED <<process, mine>>
    BY <1>1, <1>6, <2>1, QuietStreams DEF Rtmp!Start
  <2>2. ASSUME NEW s \in Rtmp!Streams, process[s] = "none",
               process' = [process EXCEPT ![s] = "running"],
               mine' = [mine EXCEPT ![h] = s], Rtmp!Goto(h, "register")
        PROVE  StreamInv'
    <3>1. at[h] = "start" /\ UNCHANGED <<url, entry, feeder, waiter, caught, raced>>
      BY <1>6 DEF Rtmp!Start
    <3>2. Rtmp!TypeOK'
      BY <1>1, <2>2, <3>1
    <3>3. /\ at'[h] = "register" /\ mine'[h] = s /\ process'[s] = "running"
          /\ \A g \in Handlers \ {h} : at'[g] = at[g] /\ mine'[g] = mine[g]
          /\ \A r \in Rtmp!Streams \ {s} : process'[r] = process[r]
      BY <1>1, <2>2
    <3>4. Hands'
      BY <1>1, <2>2, <3>1, <3>3 DEF StreamInv, Hands
    <3>5. mine[h] = None
      BY <3>1 DEF StreamInv, Hands
    <3>6. Rtmp!RunningIsListed'
      <4>1. Rtmp!InHand(s)'
        BY <3>3 DEF Rtmp!InHand
      <4>2. \A r \in Rtmp!Streams : Rtmp!InHand(r) => Rtmp!InHand(r)'
        BY <3>1, <3>3, <3>5 DEF Rtmp!InHand
      <4> QED
        BY <3>1, <3>3, <4>1, <4>2 DEF StreamInv, Rtmp!RunningIsListed
    <3> QED
      BY <3>2, <3>4, <3>6 DEF StreamInv
  <2> QED
    BY <1>6, <2>1, <2>2 DEF Rtmp!Start
<1>7. CASE Rtmp!Register(h)
  <2>1. at[h] = "register" /\ mine[h] \in Rtmp!Streams
    BY <1>1, <1>7 DEF Rtmp!Register, StreamInv, Hands
  <2>2. PICK s \in Rtmp!Streams : s = mine[h]
    BY <2>1
  <2>3. /\ entry' = s /\ feeder' = [feeder EXCEPT ![s] = Chunks]
        /\ waiter' = [waiter EXCEPT ![s] = "wait"] /\ mine' = [mine EXCEPT ![h] = None]
        /\ at' = [at EXCEPT ![h] = "idle"] /\ UNCHANGED <<url, process, caught>>
        /\ raced' = (raced \/ entry # None)
    BY <1>7, <2>2 DEF Rtmp!Register
  <2>4. Rtmp!TypeOK'
    BY <1>1, <2>3
  <2>5. /\ at'[h] = "idle" /\ mine'[h] = None /\ waiter'[s] = "wait"
        /\ \A g \in Handlers \ {h} : at'[g] = at[g] /\ mine'[g] = mine[g]
        /\ \A r \in Rtmp!Streams \ {s} : waiter'[r] = waiter[r]
    BY <1>1, <2>3
  <2>6. Hands'
    BY <1>1, <2>1, <2>2, <2>3, <2>5 DEF StreamInv, Hands
  <2>7. raced' = FALSE => raced = FALSE /\ entry = None
    BY <1>1, <2>3
  <2>8. Rtmp!RunningIsListed'
    BY <2>2, <2>3, <2>5, <2>7 DEF StreamInv, Rtmp!RunningIsListed, Rtmp!InHand
  <2> QED
    BY <2>4, <2>6, <2>8 DEF StreamInv
<1>8. CASE Rtmp!StopTakes(h)
  <2>1. /\ at[h] = "stopping" /\ entry' = None /\ mine' = [mine EXCEPT ![h] = entry]
        /\ at' = [at EXCEPT ![h] = IF entry = None THEN "idle" ELSE "kill"]
        /\ UNCHANGED <<url, process, feeder, waiter, caught, raced>>
    BY <1>8 DEF Rtmp!StopTakes, Rtmp!Take
  <2>2. Rtmp!TypeOK'
    BY <1>1, <2>1
  <2>3. /\ at'[h] = IF entry = None THEN "idle" ELSE "kill"
        /\ mine'[h] = entry
        /\ \A g \in Handlers \ {h} : at'[g] = at[g] /\ mine'[g] = mine[g]
    BY <1>1, <2>1
  <2>4. Hands'
    BY <1>1, <2>1, <2>3 DEF StreamInv, Hands
  <2>5. mine[h] = None
    BY <2>1 DEF StreamInv, Hands
  <2>6. Rtmp!RunningIsListed'
    BY <2>1, <2>3, <2>5 DEF StreamInv, Rtmp!RunningIsListed, Rtmp!InHand
  <2> QED
    BY <2>2, <2>4, <2>6 DEF StreamInv
<1>9. CASE Rtmp!StopKills(h)
  <2>1. at[h] = "kill" /\ mine[h] \in Rtmp!Streams
    BY <1>1, <1>9 DEF Rtmp!StopKills, StreamInv, Hands
  <2>2. PICK s \in Rtmp!Streams : s = mine[h]
    BY <2>1
  <2>3. /\ process' = [process EXCEPT ![s] = "ended"] /\ mine' = [mine EXCEPT ![h] = None]
        /\ at' = [at EXCEPT ![h] = "idle"] /\ UNCHANGED <<url, entry, feeder, waiter, caught, raced>>
    BY <1>9, <2>2 DEF Rtmp!StopKills, Rtmp!Kill
  <2>4. Rtmp!TypeOK'
    BY <1>1, <2>3
  <2>5. /\ at'[h] = "idle" /\ mine'[h] = None /\ process'[s] = "ended"
        /\ \A g \in Handlers \ {h} : at'[g] = at[g] /\ mine'[g] = mine[g]
        /\ \A r \in Rtmp!Streams \ {s} : process'[r] = process[r]
    BY <1>1, <2>3
  <2>6. Hands'
    BY <1>1, <2>1, <2>2, <2>3, <2>5 DEF StreamInv, Hands
  <2>7. Rtmp!RunningIsListed'
    BY <2>2, <2>3, <2>5 DEF StreamInv, Rtmp!RunningIsListed, Rtmp!InHand
  <2> QED
    BY <2>4, <2>6, <2>7 DEF StreamInv
<1> QED
  BY <1>2, <1>3, <1>4, <1>5, <1>6, <1>7, <1>8, <1>9 DEF Rtmp!HandlerStep

LEMMA ProcessStreams ==
    ASSUME StreamInv, NEW s \in Rtmp!Streams, Rtmp!StreamStep(s) \/ Rtmp!Exit(s)
    PROVE  StreamInv'
<1> USE StreamNumbers
<1> USE DEF Rtmp!TypeOK, Rtmp!locals, Rtmp!goroutines, Rtmp!States, Rtmp!HandlerLabels,
            Rtmp!WaiterLabels
<1>1. Rtmp!TypeOK
  BY DEF StreamInv
<1>2. CASE Rtmp!Feed(s)
  <2>1. Rtmp!TypeOK'
    BY <1>1, <1>2 DEF Rtmp!Feed
  <2> QED
    BY <1>1, <1>2, <2>1, QuietStreams DEF Rtmp!Feed
<1>3. CASE Rtmp!Exit(s)
  BY <1>1, <1>3, QuietStreams DEF Rtmp!Exit
<1>4. CASE Rtmp!Wait(s)
  BY <1>1, <1>4, QuietStreams DEF Rtmp!Wait
<1>5. CASE Rtmp!WaiterTakes(s)
  <2>1. /\ waiter[s] = "stop" /\ entry' = None /\ caught' = [caught EXCEPT ![s] = entry]
        /\ waiter' = [waiter EXCEPT ![s] = IF entry = None THEN "done" ELSE "kill"]
        /\ UNCHANGED <<url, at, mine, process, feeder, raced>>
    BY <1>5 DEF Rtmp!WaiterTakes, Rtmp!Take
  <2>2. Rtmp!TypeOK'
    BY <1>1, <2>1
  <2>3. /\ waiter'[s] = IF entry = None THEN "done" ELSE "kill"
        /\ caught'[s] = entry
        /\ \A r \in Rtmp!Streams \ {s} : waiter'[r] = waiter[r] /\ caught'[r] = caught[r]
    BY <1>1, <2>1
  <2>4. Hands'
    BY <1>1, <2>1, <2>3 DEF StreamInv, Hands
  <2>5. caught[s] = None
    BY <2>1 DEF StreamInv, Hands
  <2>6. Rtmp!RunningIsListed'
    BY <2>1, <2>3, <2>5 DEF StreamInv, Rtmp!RunningIsListed, Rtmp!InHand
  <2> QED
    BY <2>2, <2>4, <2>6 DEF StreamInv
<1>6. CASE Rtmp!WaiterKills(s)
  <2>1. waiter[s] = "kill" /\ caught[s] \in Rtmp!Streams
    BY <1>1, <1>6 DEF Rtmp!WaiterKills, StreamInv, Hands
  <2>2. PICK r \in Rtmp!Streams : r = caught[s]
    BY <2>1
  <2>3. /\ process' = [process EXCEPT ![r] = "ended"] /\ caught' = [caught EXCEPT ![s] = None]
        /\ waiter' = [waiter EXCEPT ![s] = "done"] /\ UNCHANGED <<url, entry, at, mine, feeder, raced>>
    BY <1>6, <2>2 DEF Rtmp!WaiterKills, Rtmp!Kill
  <2>4. Rtmp!TypeOK'
    BY <1>1, <2>3
  <2>5. /\ waiter'[s] = "done" /\ caught'[s] = None /\ process'[r] = "ended"
        /\ \A q \in Rtmp!Streams \ {s} : waiter'[q] = waiter[q] /\ caught'[q] = caught[q]
        /\ \A q \in Rtmp!Streams \ {r} : process'[q] = process[q]
    BY <1>1, <2>3
  <2>6. Hands'
    BY <1>1, <2>1, <2>2, <2>3, <2>5 DEF StreamInv, Hands
  <2>7. Rtmp!RunningIsListed'
    BY <2>2, <2>3, <2>5 DEF StreamInv, Rtmp!RunningIsListed, Rtmp!InHand
  <2> QED
    BY <2>4, <2>6, <2>7 DEF StreamInv
<1> QED
  BY <1>2, <1>3, <1>4, <1>5, <1>6 DEF Rtmp!StreamStep

(* The inductive invariant of one chat's streams: who has which stream in  *)
(* hand, and that every running process without one is in the map.         *)
THEOREM StreamInvCorrect == Rtmp!Spec => []StreamInv
<1>1. StreamInv /\ [Rtmp!Next]_(Rtmp!vars) => StreamInv'
  <2> SUFFICES ASSUME StreamInv, [Rtmp!Next]_(Rtmp!vars) PROVE StreamInv'
    OBVIOUS
  <2>1. CASE Rtmp!SetUrl \/ UNCHANGED Rtmp!vars
    <3>1. Rtmp!TypeOK'
      BY <2>1 DEF StreamInv, Rtmp!TypeOK, Rtmp!SetUrl, Rtmp!vars, Rtmp!locals, Rtmp!goroutines
    <3> QED
      BY <2>1, <3>1, QuietStreams DEF Rtmp!SetUrl, Rtmp!vars, Rtmp!locals, Rtmp!goroutines
  <2> QED
    BY <2>1, HandlerStreams, ProcessStreams DEF Rtmp!Next
<1> QED
  BY <1>1, InitStreams, PTL DEF Rtmp!Spec

(* A process of ffmpeg that nobody is about to register or kill is in the  *)
(* map, where /liststreams and /stopstream find it, unless two /stream of  *)
(* one chat overlapped.                                                    *)
THEOREM RunningIsListedCorrect == Rtmp!Spec => []RunningIsListed
<1>1. StreamInv => RunningIsListed
  BY DEF StreamInv, RunningIsListed
<1> QED
  BY <1>1, StreamInvCorrect, PTL

-----------------------------------------------------------------------------
(* Downloads.                                                              *)

(* A file that is whole, or that whoever emptied it last will make whole,  *)
(* or that somebody stopped writing to.                                    *)
Promised(n, i) ==
    \/ data[i] = 1..Blocks
    \/ \E h \in Downloaders : open[h] = i /\ 1..position[h] \subseteq data[i]
    \/ n \in spoilt

(* Somebody is about to rename the .part file of n.                        *)
Renaming(n) == \E h \in Downloaders : step[h] \in {"copy", "rename"} /\ name[h] = n

(* An inode has one name, with or without ".part", and who writes to it    *)
(* knows it by that name.                                                  *)
OneName ==
    /\ \A m, n \in Names : temp[n] # None /\ (temp[m] = temp[n] \/ file[m] = temp[n]) => m = n
    /\ \A h \in Downloaders, n \in Names :
          open[h] # None /\ (file[n] = open[h] \/ temp[n] = open[h]) => n = name[h]

FileInv ==
    /\ Files!TypeOK
    /\ OneName
    /\ \A n \in Names : file[n] # None => Promised(n, file[n])
    /\ \A n \in Names : temp[n] # None /\ Renaming(n) => Promised(n, temp[n])

LEMMA FewValues ==
    ASSUME NEW S, IsFiniteSet(S), NEW f, f \in [S -> {f[x] : x \in S}]
    PROVE  /\ IsFiniteSet({f[x] : x \in S})
           /\ Cardinality({f[x] : x \in S}) \in Nat
           /\ Cardinality({f[x] : x \in S}) <= Cardinality(S)
<1>1. f \in Surjection(S, {f[x] : x \in S})
  BY DEF Surjection
<1> QED
  BY <1>1, FS_Surjection, FS_CardinalityType

LEMMA OneCardinality ==
    ASSUME NEW S
    PROVE  Files!Cardinality(S) = Cardinality(S)
  BY DEF Files!Cardinality, Cardinality

LEMMA UnionBound ==
    ASSUME NEW A, IsFiniteSet(A), NEW B, IsFiniteSet(B)
    PROVE  /\ IsFiniteSet(A \cup B) /\ Cardinality(A \cup B) \in Nat
           /\ Cardinality(A \cup B) <= Cardinality(A) + Cardinality(B)
<1>1. IsFiniteSet(A \cap B) /\ Cardinality(A \cap B) \in Nat
  BY FS_Intersection, FS_CardinalityType
<1>2. Cardinality(A) \in Nat /\ Cardinality(B) \in Nat
  BY FS_CardinalityType
<1>3. /\ IsFiniteSet(A \cup B)
      /\ Cardinality(A \cup B) = Cardinality(A) + Cardinality(B) - Cardinality(A \cap B)
  BY FS_Union
<1>4. Cardinality(A \cup B) \in Nat
  BY <1>3, FS_CardinalityType
<1> QED
  BY <1>1, <1>2, <1>3, <1>4

(* There are inodes enough: a goroutine that creates a file has none open. *)
LEMMA UnusedThere ==
    ASSUME Files!TypeOK, NEW h \in Downloaders, open[h] = None
    PROVE  (CHOOSE i \in Files!Unused : TRUE) \in Files!Unused
<1> DEFINE others == Downloaders \ {h}
           busy == [g \in others |-> open[g]]
           F == {file[n] : n \in Names}
           T == {temp[n] : n \in Names}
           O == {busy[g] : g \in others}
<1>1. IsFiniteSet(Names) /\ IsFiniteSet(others)
         /\ Cardinality(Names) \in Nat /\ Cardinality(Downloaders) \in Nat
         /\ Cardinality(others) = Cardinality(Downloaders) - 1
  BY TasksAssumption, FS_RemoveElement, FS_CardinalityType DEF TasksAssumption
<1>2. /\ IsFiniteSet(F) /\ Cardinality(F) \in Nat /\ Cardinality(F) <= Cardinality(Names)
      /\ IsFiniteSet(T) /\ Cardinality(T) \in Nat /\ Cardinality(T) <= Cardinality(Names)
  <2>1. PICK f : f = file
    OBVIOUS
  <2>2. PICK t : t = temp
    OBVIOUS
  <2>3. f \in [Names -> {f[n] : n \in Names}] /\ t \in [Names -> {t[n] : n \in Names}]
    BY <2>1, <2>2 DEF Files!TypeOK
  <2>4. /\ IsFiniteSet({f[n] : n \in Names}) /\ Cardinality({f[n] : n \in Names}) \in Nat
        /\ Cardinality({f[n] : n \in Names}) <= Cardinality(Names)
    BY <1>1, <2>3, FewValues
  <2>5. /\ IsFiniteSet({t[n] : n \in Names}) /\ Cardinality({t[n] : n \in Names}) \in Nat
        /\ Cardinality({t[n] : n \in Names}) <= Cardinality(Names)
    BY <1>1, <2>3, FewValues
  <2> QED
    BY <2>1, <2>2, <2>4, <2>5
<1>3. IsFiniteSet(O) /\ Cardinality(O) \in Nat /\ Cardinality(O) <= Cardinality(others)
  <2>1. PICK b : b = busy
    OBVIOUS
  <2>2. b \in [others -> {b[g] : g \in others}]
    BY <2>1
  <2>3. /\ IsFiniteSet({b[g] : g \in others}) /\ Cardinality({b[g] : g \in others}) \in Nat
        /\ Cardinality({b[g] : g \in others}) <= Cardinality(others)
    BY <1>1, <2>2, FewValues
  <2> QED
    BY <2>1, <2>3
<1>4. PICK U : U = (F \cup T) \cup O
  OBVIOUS
<1>5. /\ IsFiniteSet(U) /\ Cardinality(U) \in Nat
      /\ Cardinality(U) <= 2 * Cardinality(Names) + Cardinality(Downloaders) - 1
  <2>1. IsFiniteSet(F \cup T) /\ Cardinality(F \cup T) \in Nat
           /\ Cardinality(F \cup T) <= Cardinality(F) + Cardinality(T)
    BY <1>2, UnionBound
  <2>2. IsFiniteSet(U) /\ Cardinality(U) \in Nat
           /\ Cardinality(U) <= Cardinality(F \cup T) + Cardinality(O)
    BY <1>3, <1>4, <2>1, UnionBound
  <2>3. ASSUME NEW n \in Nat, NEW d \in Nat, NEW f \in Nat, NEW t \in Nat, NEW o \in Nat,
               NEW b \in Nat, NEW u \in Nat,
               f <= n, t <= n, o <= d - 1, b <= f + t, u <= b + o
        PROVE  u <= 2 * n + d - 1
    BY <2>3
  <2> HIDE DEF F, T, O, others
  <2> QED
    BY <1>1, <1>2, <1>3, <2>1, <2>2, <2>3
<1>6. Cardinality(Files!Inodes) = 2 * Cardinality(Names) + Cardinality(Downloaders)
  <2>1. PICK k \in Nat : k = 2 * Cardinality(Names) + Cardinality(Downloaders)
    BY <1>1
  <2>2. Cardinality(1..k) = k
    BY <2>1, FS_Interval
  <2> QED
    BY <2>1, <2>2, OneCardinality DEF Files!Inodes
<1>7. ~(Files!Inodes \subseteq U)
  BY <1>1, <1>5, <1>6, FS_Subset
<1>8. PICK i \in Files!Inodes : i \notin U
  BY <1>7
<1>9. i \in Files!Unused
  <2>1. \A n \in Names : file[n] # i /\ temp[n] # i
    BY <1>4, <1>8
  <2>2. \A g \in Downloaders : open[g] # i
    BY <1>4, <1>8, TasksAssumption DEF TasksAssumption
  <2> QED
    BY <2>1, <2>2 DEF Files!Unused, Files!Writers
<1> QED
  BY <1>9
LEMMA FileNumbers ==
    /\ None \notin Files!Inodes /\ None \notin Names
    /\ Blocks \in Nat /\ MaxDownloads \in Nat
  BY TasksAssumption DEF TasksAssumption

LEMMA InitFiles == Files!Init => FileInv
<1> SUFFICES ASSUME Files!Init PROVE FileInv
  OBVIOUS
<1>1. Files!TypeOK
  BY FileNumbers DEF Files!Init, Files!TypeOK, Files!At
<1> QED
  BY <1>1 DEF Files!Init, FileInv, OneName, Renaming

(* Steps that change no file and end no copy.                              *)
LEMMA QuietFiles ==
    ASSUME FileInv, Files!TypeOK', UNCHANGED <<file, temp, data, spoilt>>,
           \A h \in Downloaders :
              \/ open'[h] = open[h] /\ position'[h] = position[h]
              \/ open[h] = None
              \/ 1..position[h] \subseteq data[open[h]] => data[open[h]] = 1..Blocks,
           \A h \in Downloaders : open'[h] # None =>
              open'[h] = open[h] /\ name'[h] = name[h],
           \A n \in Names : Renaming(n)' => Renaming(n)
    PROVE  FileInv'
<1>1. OneName'
  BY DEF FileInv, OneName, Files!TypeOK
<1>2. ASSUME NEW n \in Names, NEW i \in Files!Inodes, Promised(n, i)
      PROVE  Promised(n, i)'
  <2>1. CASE \E h \in Downloaders : open[h] = i /\ 1..position[h] \subseteq data[i]
    <3>1. PICK h \in Downloaders : open[h] = i /\ 1..position[h] \subseteq data[i]
      BY <2>1
    <3>2. i # None
      BY FileNumbers
    <3>3. (open'[h] = i /\ position'[h] = position[h]) \/ data[i] = 1..Blocks
      BY <3>1, <3>2
    <3> QED
      BY <3>1, <3>3 DEF Promised
  <2> QED
    BY <1>2, <2>1 DEF Promised
<1>3. ASSUME NEW n \in Names, file'[n] # None
      PROVE  Promised(n, file[n])'
  <2>1. PICK i \in Files!Inodes : i = file[n]
    BY <1>3 DEF FileInv, Files!TypeOK
  <2>2. Promised(n, i)'
    BY <1>2, <1>3, <2>1 DEF FileInv
  <2> QED
    BY <2>1, <2>2 DEF Promised
<1>4. ASSUME NEW n \in Names, temp'[n] # None, Renaming(n)'
      PROVE  Promised(n, temp[n])'
  <2>1. PICK i \in Files!Inodes : i = temp[n]
    BY <1>4 DEF FileInv, Files!TypeOK
  <2>2. Promised(n, i)'
    BY <1>2, <1>4, <2>1 DEF FileInv
  <2> QED
    BY <2>1, <2>2 DEF Promised
<1> QED
  BY <1>1, <1>3, <1>4 DEF FileInv

(* Steps of h before it creates a file and after it has renamed it.        *)
LEMMA IdleFiles ==
    ASSUME FileInv, NEW h \in Downloaders,
           \/ Files!DownloadSong(h) \/ Files!GetTrack(h) \/ Files!DownloadWithCustomAPI(h)
           \/ Files!Stat(h) \/ Files!YtDlp(h)
    PROVE  FileInv'
<1> USE FileNumbers DEF Files!TypeOK, Files!At, Files!Goto, Files!disk
<1>1. Files!TypeOK
  BY DEF FileInv
<1>2. /\ Files!TypeOK'
      /\ step[h] \notin {"copy", "rename"} /\ step'[h] \notin {"copy", "rename"}
      /\ \A g \in Downloaders \ {h} : step'[g] = step[g] /\ name'[g] = name[g]
      /\ UNCHANGED <<open, position, file, temp, data, spoilt>>
  <2>1. CASE Files!DownloadSong(h)
    BY <1>1, <2>1 DEF Files!DownloadSong
  <2>2. CASE Files!GetTrack(h)
    BY <1>1, <2>2 DEF Files!GetTrack
  <2>3. CASE Files!DownloadWithCustomAPI(h)
    BY <1>1, <2>3 DEF Files!DownloadWithCustomAPI
  <2>4. CASE Files!Stat(h)
    BY <1>1, <2>4 DEF Files!Stat
  <2>5. CASE Files!YtDlp(h)
    BY <1>1, <2>5 DEF Files!YtDlp
  <2> QED
    BY <2>1, <2>2, <2>3, <2>4, <2>5
<1>3. \A n \in Names : Renaming(n)' => Renaming(n)
  BY <1>2 DEF Renaming
<1>4. open[h] = None
  BY <1>1, <1>2
<1>5. \A g \in Downloaders : open'[g] = open[g] /\ position'[g] = position[g]
  BY <1>2
<1>6. \A g \in Downloaders : open'[g] # None => open'[g] = open[g] /\ name'[g] = name[g]
  BY <1>2, <1>4
<1> HIDE DEF Files!TypeOK
<1> QED
  BY <1>2, <1>3, <1>5, <1>6, QuietFiles
LEMMA CopyEndsFiles ==
    ASSUME FileInv, NEW h \in Downloaders, Files!CopyEnds(h)
    PROVE  FileInv'
<1> USE FileNumbers DEF Files!TypeOK, Files!At, Files!Goto, Files!disk
<1>1. Files!TypeOK
  BY DEF FileInv
<1>2. /\ step[h] = "copy" /\ position[h] = Blocks
      /\ step' = [step EXCEPT ![h] = "rename"] /\ open' = [open EXCEPT ![h] = None]
      /\ UNCHANGED <<name, position, file, temp, data, spoilt, begun>>
  BY DEF Files!CopyEnds
<1>3. Files!TypeOK'
  BY <1>1, <1>2
<1>4. /\ step'[h] = "rename" /\ open'[h] = None
      /\ \A g \in Downloaders \ {h} : step'[g] = step[g] /\ open'[g] = open[g]
  BY <1>1, <1>2
<1>5. \A n \in Names : Renaming(n)' => Renaming(n)
  BY <1>2, <1>4 DEF Renaming
<1>6. 1..position[h] \subseteq data[open[h]] => data[open[h]] = 1..Blocks
  <2>1. open[h] \in Files!Inodes
    BY <1>1, <1>2
  <2>2. data[open[h]] \subseteq 1..Blocks
    BY <1>1, <2>1
  <2> QED
    BY <1>2, <2>2
<1>7. \A g \in Downloaders : (open'[g] = open[g] /\ position'[g] = position[g]) \/ g = h
  BY <1>2, <1>4
<1>8. \A g \in Downloaders : open'[g] # None => open'[g] = open[g] /\ name'[g] = name[g]
  BY <1>2, <1>4
<1> HIDE DEF Files!TypeOK
<1> QED
  BY <1>2, <1>3, <1>5, <1>6, <1>7, <1>8, QuietFiles

LEMMA CopyBlockFiles ==
    ASSUME FileInv, NEW h \in Downloaders, Files!CopyBlock(h)
    PROVE  FileInv'
<1> USE FileNumbers DEF Files!TypeOK, Files!At
<1>1. Files!TypeOK
  BY DEF FileInv
<1>2. /\ step[h] = "copy" /\ position[h] < Blocks
      /\ position' = [position EXCEPT ![h] = position[h] + 1]
      /\ data' = [data EXCEPT ![open[h]] = data[open[h]] \cup {position[h] + 1}]
      /\ UNCHANGED <<step, name, open, file, temp, spoilt, begun>>
  BY DEF Files!CopyBlock
<1>3. PICK i \in Files!Inodes, p \in 0..Blocks : i = open[h] /\ p = position[h]
  BY <1>1, <1>2
<1>4. /\ p < Blocks /\ p + 1 \in 1..Blocks
      /\ position' = [position EXCEPT ![h] = p + 1]
      /\ data' = [data EXCEPT ![i] = data[i] \cup {p + 1}]
  BY <1>2, <1>3
<1>5. Files!TypeOK'
  BY <1>1, <1>2, <1>4
<1>6. /\ position'[h] = p + 1 /\ data'[i] = data[i] \cup {p + 1}
      /\ \A g \in Downloaders \ {h} : position'[g] = position[g]
      /\ \A j \in Files!Inodes \ {i} : data'[j] = data[j]
  BY <1>1, <1>4
<1>7. OneName'
  BY <1>2 DEF FileInv, OneName
<1>8. ASSUME NEW n, NEW j \in Files!Inodes, Promised(n, j)
      PROVE  Promised(n, j)'
  <2>1. data[j] \subseteq data'[j] /\ data'[j] \subseteq 1..Blocks
    BY <1>1, <1>4, <1>6
  <2>2. CASE data[j] = 1..Blocks
    BY <2>1, <2>2 DEF Promised
  <2>3. ASSUME NEW g \in Downloaders, open[g] = j, 1..position[g] \subseteq data[j]
        PROVE  Promised(n, j)'
    <3>1. CASE g = h
      <4>1. j = i /\ 1..p \subseteq data[i]
        BY <1>3, <2>3, <3>1
      <4>2. 1..(p + 1) \subseteq data'[i]
        BY <1>6, <4>1
      <4> QED
        BY <1>2, <1>6, <2>3, <3>1, <4>1, <4>2 DEF Promised
    <3>2. CASE g # h
      <4>1. 1..position'[g] \subseteq data'[j]
        BY <1>6, <2>1, <2>3, <3>2
      <4> QED
        BY <1>2, <2>3, <4>1 DEF Promised
    <3> QED
      BY <3>1, <3>2
  <2> QED
    BY <1>2, <1>8, <2>2, <2>3 DEF Promised
<1>9. \A n \in Names : file'[n] # None => Promised(n, file[n])'
  <2> SUFFICES ASSUME NEW n \in Names, file'[n] # None PROVE Promised(n, file[n])'
    OBVIOUS
  <2>1. PICK j \in Files!Inodes : j = file[n]
    BY <1>1, <1>2
  <2>2. Promised(n, j)'
    BY <1>2, <1>8, <2>1 DEF FileInv
  <2> QED
    BY <1>2, <2>1, <2>2 DEF Promised
<1>10. \A n \in Names : temp'[n] # None /\ Renaming(n)' => Promised(n, temp[n])'
  <2> SUFFICES ASSUME NEW n \in Names, temp'[n] # None, Renaming(n)'
               PROVE  Promised(n, temp[n])'
    OBVIOUS
  <2>1. PICK j \in Files!Inodes : j = temp[n]
    BY <1>1, <1>2
  <2>2. Renaming(n)
    BY <1>2 DEF Renaming
  <2>3. Promised(n, j)'
    BY <1>2, <1>8, <2>1, <2>2 DEF FileInv
  <2> QED
    BY <1>2, <2>1, <2>3 DEF Promised
<1> QED
  BY <1>5, <1>7, <1>9, <1>10 DEF FileInv

(* Whoever stops in the middle of a copy spoils the name, if anybody may   *)
(* still see what it wrote.                                                *)
LEMMA StopFiles ==
    ASSUME FileInv, Files!TypeOK', NEW hs \in SUBSET Downloaders,
           UNCHANGED <<file, temp, data>>, spoilt' = spoilt \cup Files!Lost(hs),
           \A h \in Downloaders \ hs :
              step'[h] = step[h] /\ name'[h] = name[h] /\ open'[h] = open[h]
                 /\ position'[h] = position[h],
           \A h \in hs : step'[h] \notin {"copy", "rename"} /\ open'[h] = None
    PROVE  FileInv'
<1> USE FileNumbers
<1>1. OneName'
  <2>1. \A h \in Downloaders : open'[h] # None => open'[h] = open[h] /\ name'[h] = name[h]
    OBVIOUS
  <2> QED
    BY <2>1 DEF FileInv, OneName
<1>2. \A h \in Downloaders : open[h] # None => step[h] = "copy"
  BY DEF FileInv, Files!TypeOK, Files!At
<1>3. ASSUME NEW n \in Names, NEW i \in Files!Inodes, Promised(n, i),
             file[n] = i \/ (temp[n] = i /\ Renaming(n)')
      PROVE  Promised(n, i)'
  <2>1. CASE data[i] = 1..Blocks \/ n \in spoilt
    BY <2>1 DEF Promised
  <2>2. ASSUME NEW h \in Downloaders, open[h] = i, 1..position[h] \subseteq data[i], h \notin hs
        PROVE  Promised(n, i)'
    <3>1. open'[h] = i /\ 1..position'[h] \subseteq data'[i]
      BY <2>2
    <3> QED
      BY <3>1 DEF Promised
  <2>3. ASSUME NEW h \in hs, open[h] = i
        PROVE  n \in Files!Lost(hs)
    <3>1. step[h] = "copy" /\ name[h] = n
      BY <1>2, <1>3, <2>3 DEF FileInv, OneName
    <3>2. Renaming(n)' => \E g \in Downloaders \ hs :
                              step[g] \in {"copy", "rename"} /\ name[g] = n
      BY DEF Renaming
    <3> QED
      BY <1>3, <2>3, <3>1, <3>2 DEF Files!Lost, Files!At
  <2>4. CASE n \in Files!Lost(hs)
    BY <2>4 DEF Promised
  <2>5. CASE \E h \in Downloaders : open[h] = i /\ 1..position[h] \subseteq data[i]
    <3>1. PICK h \in Downloaders : open[h] = i /\ 1..position[h] \subseteq data[i]
      BY <2>5
    <3>2. CASE h \in hs
      BY <2>3, <2>4, <3>1, <3>2
    <3>3. CASE h \notin hs
      BY <2>2, <3>1, <3>3
    <3> QED
      BY <3>2, <3>3
  <2> QED
    BY <1>3, <2>1, <2>5 DEF Promised
<1>4. \A n \in Names : file'[n] # None => Promised(n, file[n])'
  <2> SUFFICES ASSUME NEW n \in Names, file'[n] # None PROVE Promised(n, file[n])'
    OBVIOUS
  <2>1. PICK i \in Files!Inodes : i = file[n]
    BY DEF FileInv, Files!TypeOK
  <2>2. Promised(n, i)'
    BY <1>3, <2>1 DEF FileInv
  <2> QED
    BY <2>1, <2>2 DEF Promised
<1>5. \A n \in Names : temp'[n] # None /\ Renaming(n)' => Promised(n, temp[n])'
  <2> SUFFICES ASSUME NEW n \in Names, temp'[n] # None, Renaming(n)'
               PROVE  Promised(n, temp[n])'
    OBVIOUS
  <2>1. PICK i \in Files!Inodes : i = temp[n]
    BY DEF FileInv, Files!TypeOK
  <2>2. Renaming(n)
    BY DEF Renaming
  <2>3. Promised(n, i)'
    BY <1>3, <2>1, <2>2 DEF FileInv
  <2> QED
    BY <2>1, <2>3 DEF Promised
<1> QED
  BY <1>1, <1>4, <1>5 DEF FileInv
LEMMA CopyFailsFiles ==
    ASSUME FileInv, NEW h \in Downloaders, Files!CopyFails(h)
    PROVE  FileInv'
<1> USE FileNumbers
<1>1. Files!TypeOK
  BY DEF FileInv
<1>2. /\ step[h] = "copy" /\ spoilt' = spoilt \cup Files!Lost({h})
      /\ step' = [step EXCEPT ![h] = "ytdlp"]
      /\ name' = [name EXCEPT ![h] = None] /\ open' = [open EXCEPT ![h] = None]
      /\ UNCHANGED <<position, file, temp, data, begun>>
  BY DEF Files!CopyFails, Files!At, Files!Goto
<1>3. Files!Lost({h}) \subseteq Names
  BY DEF Files!Lost
<1>4. Files!TypeOK'
  BY <1>1, <1>2, <1>3 DEF Files!TypeOK, Files!At
<1>5. /\ \A g \in Downloaders \ {h} :
            step'[g] = step[g] /\ name'[g] = name[g] /\ open'[g] = open[g]
               /\ position'[g] = position[g]
      /\ step'[h] \notin {"copy", "rename"} /\ open'[h] = None
  BY <1>1, <1>2 DEF Files!TypeOK
<1>6. PICK hs \in SUBSET Downloaders : hs = {h}
  OBVIOUS
<1> QED
  BY <1>2, <1>4, <1>5, <1>6, StopFiles

LEMMA RestartFiles ==
    ASSUME FileInv, Files!Restart
    PROVE  FileInv'
<1> USE FileNumbers
<1>1. Files!TypeOK
  BY DEF FileInv
<1>2. /\ spoilt' = spoilt \cup Files!Lost(Downloaders)
      /\ step' = [h \in Downloaders |-> "idle"]
      /\ name' = [h \in Downloaders |-> None] /\ open' = [h \in Downloaders |-> None]
      /\ UNCHANGED <<position, file, temp, data, begun>>
  BY DEF Files!Restart
<1>3. Files!Lost(Downloaders) \subseteq Names
  BY DEF Files!Lost
<1>4. Files!TypeOK'
  BY <1>1, <1>2, <1>3 DEF Files!TypeOK, Files!At
<1>5. \A h \in Downloaders : step'[h] \notin {"copy", "rename"} /\ open'[h] = None
  BY <1>2
<1>6. PICK hs \in SUBSET Downloaders : hs = Downloaders
  OBVIOUS
<1> QED
  BY <1>2, <1>4, <1>5, <1>6, StopFiles

(* A new inode, or the one of the .part file, emptied: h will fill it.     *)
LEMMA CreateFiles ==
    ASSUME FileInv, NEW h \in Downloaders, Files!Create(h)
    PROVE  FileInv'
<1> USE FileNumbers
<1>1. Files!TypeOK /\ step[h] = "create" /\ name[h] \in Names /\ open[h] = None
  BY DEF FileInv, Files!TypeOK, Files!Create, Files!At
<1>2. PICK n \in Names : n = name[h]
  BY <1>1
<1>3. position' = [position EXCEPT ![h] = 0] /\ UNCHANGED <<file, spoilt, begun>>
  BY DEF Files!Create
<1>4. CASE /\ Files!Goto(h, "ytdlp") /\ name' = [name EXCEPT ![h] = None]
           /\ UNCHANGED <<open, temp, data>>
  <2>1. Files!TypeOK'
    BY <1>1, <1>3, <1>4 DEF Files!TypeOK, Files!At, Files!Goto
  <2>2. /\ step'[h] = "ytdlp"
        /\ \A g \in Downloaders \ {h} :
              step'[g] = step[g] /\ name'[g] = name[g] /\ position'[g] = position[g]
    BY <1>1, <1>3, <1>4 DEF Files!TypeOK, Files!Goto
  <2>3. \A m \in Names : Renaming(m)' => Renaming(m)
    BY <2>2 DEF Renaming
  <2>4. \A g \in Downloaders : \/ open'[g] = open[g] /\ position'[g] = position[g]
                               \/ open[g] = None
    BY <1>1, <1>4, <2>2
  <2>5. \A g \in Downloaders : open'[g] # None => open'[g] = open[g] /\ name'[g] = name[g]
    BY <1>1, <1>4, <2>2
  <2> QED
    BY <1>3, <1>4, <2>1, <2>3, <2>4, <2>5, QuietFiles
<1>5. ASSUME NEW i \in Files!Inodes,
             i = IF temp[n] # None THEN temp[n] ELSE CHOOSE j \in Files!Unused : TRUE,
             open' = [open EXCEPT ![h] = i], temp' = [temp EXCEPT ![n] = i],
             data' = [data EXCEPT ![i] = {}], Files!Goto(h, "copy"), UNCHANGED name
      PROVE  FileInv'
  <2>1. \/ temp[n] = i
        \/ /\ temp[n] = None
           /\ \A g \in Downloaders : open[g] # i
           /\ \A m \in Names : file[m] # i /\ temp[m] # i
    <3>1. CASE temp[n] = None
      <4>1. i \in Files!Unused
        BY <1>1, <1>5, <3>1, UnusedThere
      <4> QED
        BY <3>1, <4>1 DEF Files!Unused, Files!Writers
    <3> QED
      BY <1>5, <3>1
  <2>2. Files!TypeOK'
    <3>1. /\ step' \in [Downloaders -> {"idle", "info", "fetch", "stat", "create", "copy", "rename",
                                       "ytdlp"}]
          /\ name' \in [Downloaders -> Names \cup {None}]
          /\ open' \in [Downloaders -> Files!Inodes \cup {None}]
          /\ position' \in [Downloaders -> 0..Blocks]
      BY <1>1, <1>3, <1>5 DEF Files!TypeOK, Files!Goto
    <3>2. /\ file' \in [Names -> Files!Inodes \cup {None}]
          /\ temp' \in [Names -> Files!Inodes \cup {None}]
          /\ data' \in [Files!Inodes -> SUBSET (1..Blocks)]
          /\ spoilt' \subseteq Names /\ begun' \in 0..MaxDownloads
      BY <1>1, <1>3, <1>5 DEF Files!TypeOK
    <3>3. \A g \in Downloaders :
             /\ step'[g] = "copy" <=> open'[g] # None
             /\ step'[g] \in {"stat", "create", "copy", "rename"} <=> name'[g] # None
      BY <1>1, <1>5 DEF Files!TypeOK, Files!At, Files!Goto
    <3> QED
      BY <3>1, <3>2, <3>3 DEF Files!TypeOK, Files!At
  <2>3. /\ open'[h] = i /\ position'[h] = 0 /\ step'[h] = "copy"
        /\ temp'[n] = i /\ data'[i] = {}
        /\ \A g \in Downloaders \ {h} :
              open'[g] = open[g] /\ position'[g] = position[g] /\ step'[g] = step[g]
        /\ \A m \in Names \ {n} : temp'[m] = temp[m]
        /\ \A j \in Files!Inodes \ {i} : data'[j] = data[j]
    BY <1>1, <1>3, <1>5 DEF Files!TypeOK, Files!Goto
  <2>4. i # None
    OBVIOUS
  <2>5. OneName'
    BY <1>1, <1>2, <1>3, <1>5, <2>1, <2>3, <2>4 DEF FileInv, OneName
  <2>6. ASSUME NEW m, NEW j \in Files!Inodes, Promised(m, j) \/ j = i
        PROVE  Promised(m, j)'
    <3>1. CASE j = i
      <4>1. 1..position'[h] \subseteq data'[j] /\ open'[h] = j
        BY <2>3, <3>1
      <4> QED
        BY <4>1 DEF Promised
    <3>2. CASE j # i
      <4>1. data'[j] = data[j]
        BY <2>3, <3>2
      <4>2. ASSUME NEW g \in Downloaders, open[g] = j, 1..position[g] \subseteq data[j]
            PROVE  Promised(m, j)'
        <5>1. g # h
          BY <1>1, <4>2
        <5>2. open'[g] = j /\ 1..position'[g] \subseteq data'[j]
          BY <2>3, <4>1, <4>2, <5>1
        <5> QED
          BY <5>2 DEF Promised
      <4> QED
        BY <1>3, <2>6, <3>2, <4>1, <4>2 DEF Promised
    <3> QED
      BY <3>1, <3>2
  <2>7. \A m \in Names : file'[m] # None => Promised(m, file[m])'
    <3> SUFFICES ASSUME NEW m \in Names, file'[m] # None PROVE Promised(m, file[m])'
      OBVIOUS
    <3>1. PICK j \in Files!Inodes : j = file[m]
      BY <1>1, <1>3 DEF Files!TypeOK
    <3>2. Promised(m, j)'
      BY <1>3, <2>6, <3>1 DEF FileInv
    <3> QED
      BY <1>3, <3>1, <3>2 DEF Promised
  <2>8. \A m \in Names : temp'[m] # None /\ Renaming(m)' => Promised(m, temp[m])'
    <3> SUFFICES ASSUME NEW m \in Names, temp'[m] # None, Renaming(m)'
                 PROVE  Promised(m, temp[m])'
      OBVIOUS
    <3>1. PICK j \in Files!Inodes : j = temp'[m]
      BY <2>2 DEF Files!TypeOK
    <3>2. m # n => temp[m] = j /\ Renaming(m)
      BY <1>2, <1>5, <2>3, <3>1 DEF Renaming
    <3>3. Promised(m, j) \/ j = i
      BY <2>3, <3>1, <3>2 DEF FileInv
    <3>4. Promised(m, j)'
      BY <2>6, <3>3
    <3> QED
      BY <3>1, <3>4 DEF Promised
  <2> QED
    BY <2>2, <2>5, <2>7, <2>8 DEF FileInv
<1> QED
  BY <1>2, <1>4, <1>5 DEF Files!Create

LEMMA RenameFiles ==
    ASSUME FileInv, NEW h \in Downloaders, Files!Rename(h)
    PROVE  FileInv'
<1> USE FileNumbers
<1>1. Files!TypeOK /\ step[h] = "rename" /\ name[h] \in Names /\ open[h] = None
  BY DEF FileInv, Files!TypeOK, Files!Rename, Files!At
<1>2. PICK n \in Names : n = name[h]
  BY <1>1
<1>3. name' = [name EXCEPT ![h] = None] /\ UNCHANGED <<open, position, data, spoilt, begun>>
  BY DEF Files!Rename
<1>4. PICK l \in {"idle", "ytdlp"} :
          /\ step' = [step EXCEPT ![h] = l]
          /\ \/ /\ temp[n] # None
                /\ file' = [file EXCEPT ![n] = temp[n]]
                /\ temp' = [temp EXCEPT ![n] = None]
             \/ UNCHANGED <<file, temp>>
  BY <1>2 DEF Files!Rename, Files!Goto
<1>5. /\ step'[h] = l
      /\ \A g \in Downloaders \ {h} : step'[g] = step[g] /\ name'[g] = name[g]
  BY <1>1, <1>3, <1>4 DEF Files!TypeOK
<1>6. \A m \in Names : Renaming(m)' => Renaming(m)
  BY <1>5 DEF Renaming
<1>7. \A g \in Downloaders : open[g] # None => name'[g] = name[g]
  BY <1>1, <1>5
<1>8. CASE UNCHANGED <<file, temp>>
  <2>1. Files!TypeOK'
    BY <1>1, <1>3, <1>4, <1>8 DEF Files!TypeOK, Files!At
  <2> QED
    BY <1>3, <1>6, <1>7, <1>8, <2>1, QuietFiles
<1>9. CASE /\ temp[n] # None /\ file' = [file EXCEPT ![n] = temp[n]]
           /\ temp' = [temp EXCEPT ![n] = None]
  <2>1. Files!TypeOK'
    BY <1>1, <1>3, <1>4, <1>9 DEF Files!TypeOK, Files!At
  <2>2. /\ file'[n] = temp[n] /\ temp'[n] = None
        /\ \A m \in Names \ {n} : file'[m] = file[m] /\ temp'[m] = temp[m]
    BY <1>1, <1>9 DEF Files!TypeOK
  <2>3. OneName'
    BY <1>3, <1>7, <1>9, <2>2 DEF FileInv, OneName
  <2>4. Renaming(n)
    BY <1>1, <1>2 DEF Renaming
  <2>5. \A m \in Names : file'[m] # None => Promised(m, file[m])'
    <3> SUFFICES ASSUME NEW m \in Names, file'[m] # None PROVE Promised(m, file[m])'
      OBVIOUS
    <3>1. PICK j \in Files!Inodes : j = file'[m]
      BY <2>1 DEF Files!TypeOK
    <3>2. Promised(m, j)
      BY <1>9, <2>2, <2>4, <3>1 DEF FileInv
    <3> QED
      BY <1>3, <3>1, <3>2 DEF Promised
  <2>6. \A m \in Names : temp'[m] # None /\ Renaming(m)' => Promised(m, temp[m])'
    <3> SUFFICES ASSUME NEW m \in Names, temp'[m] # None, Renaming(m)'
                 PROVE  Promised(m, temp[m])'
      OBVIOUS
    <3>1. PICK j \in Files!Inodes : j = temp'[m]
      BY <2>1 DEF Files!TypeOK
    <3>2. Promised(m, j)
      BY <1>6, <2>2, <3>1 DEF FileInv
    <3> QED
      BY <1>3, <3>1, <3>2 DEF Promised
  <2> QED
    BY <2>1, <2>3, <2>5, <2>6 DEF FileInv
<1> QED
  BY <1>4, <1>8, <1>9

(* The inductive invariant of the downloads directory: an inode has one    *)
(* name, with or without ".part", and what is under a proper name, or is   *)
(* about to be, is whole, or will be when the last who emptied it is done, *)
(* or somebody stopped writing to it.                                      *)
THEOREM FileInvCorrect == Files!Spec => []FileInv
<1>1. FileInv /\ [Files!Next]_(Files!vars) => FileInv'
  <2> SUFFICES ASSUME FileInv, [Files!Next]_(Files!vars) PROVE FileInv'
    OBVIOUS
  <2>1. CASE UNCHANGED Files!vars
    <3>1. Files!TypeOK'
      BY <2>1 DEF FileInv, Files!TypeOK, Files!At, Files!vars
    <3> QED
      BY <2>1, <3>1, QuietFiles DEF Files!vars, Renaming
  <2> QED
    BY <2>1, IdleFiles, CreateFiles, CopyBlockFiles, CopyEndsFiles, CopyFailsFiles, RenameFiles,
       RestartFiles DEF Files!Next
<1> QED
  BY <1>1, InitFiles, PTL DEF Files!Spec

(* A file with a proper name is whole or being written to, unless somebody *)
(* stopped while two downloads shared its .part file: what the Stat of a   *)
(* later DownloadFile relies on.                                           *)
THEOREM WholeFilesCorrect == Files!Spec => []WholeFiles
<1>1. FileInv => WholeFiles
  BY DEF FileInv, Promised, WholeFiles, Files!WholeFiles, Files!Writers
<1> QED
  BY <1>1, FileInvCorrect, PTL

-----------------------------------------------------------------------------
(* Private calls.                                                          *)

(* The calls whose update has been answered, and those whose player has    *)
(* come to its request.                                                    *)
Dealt == {k \in Private!Calls : handler[<<k, "requested">>] = "done"}
Rung == {k \in Private!Calls :
            player[k] \notin {"none", "prepare", "play", "config", "request"}}

(* A handler has a call that there is, and a channel of a configuration    *)
(* that there is; a call gets one configuration from its update and one    *)
(* from its player at most.                                                *)
Entries ==
    /\ inputCalls \in DOMAIN calls \cup {None}
    /\ \A k \in Private!Calls, kind \in Private!Kinds :
          /\ handler[<<k, kind>>] # "none" => k \in DOMAIN calls
          /\ handler[<<k, kind>>] = "config" => kind = "requested"
          /\ handler[<<k, kind>>] = "cleanup" => kind = "discarded"
          /\ sends[<<k, kind>>] \in DOMAIN configs \cup {None}
    /\ \A k \in Private!Calls : handler[<<k, "requested">>] # "done" => player[k] = "none"
    /\ Len(configs) <= Cardinality(Dealt) + Cardinality(Rung)

CallTypes == Private!TypeOK /\ Entries

LEMMA CallNumbers ==
    /\ MaxCalls \in Nat
    /\ Private!Calls \subseteq Nat /\ Private!Places \subseteq Nat /\ None \notin Private!Places
    /\ \A k \in Private!Calls, kind \in Private!Kinds : <<k, kind>> \in Private!Updates
    /\ \A n \in Nat : n <= 2 * MaxCalls => 1..n \subseteq Private!Places
    /\ IsFiniteSet(Private!Calls) /\ Cardinality(Private!Calls) = MaxCalls
<1>1. MaxCalls \in Nat /\ None \notin Private!Places
  BY TasksAssumption DEF TasksAssumption
<1>2. 1..MaxCalls \subseteq Nat /\ \A n \in Nat : n <= 2 * MaxCalls => 1..n \subseteq 1..(2 * MaxCalls)
  BY <1>1
<1>3. IsFiniteSet(1..MaxCalls) /\ Cardinality(1..MaxCalls) = MaxCalls
  BY <1>1, FS_Interval
<1> QED
  BY <1>1, <1>2, <1>3 DEF Private!Calls, Private!Places, Private!Updates, Private!Kinds

LEMMA DealtRung ==
    /\ IsFiniteSet(Dealt) /\ Cardinality(Dealt) \in Nat /\ Cardinality(Dealt) <= MaxCalls
    /\ IsFiniteSet(Rung) /\ Cardinality(Rung) \in Nat /\ Cardinality(Rung) <= MaxCalls
<1>1. Dealt \subseteq Private!Calls /\ Rung \subseteq Private!Calls
  BY DEF Dealt, Rung
<1> QED
  BY <1>1, CallNumbers, FS_Subset, FS_CardinalityType

(* Configurations are made by calls that move on.                          *)
LEMMA FewConfigs ==
    ASSUME CallTypes, configs' \in Seq(Private!P2PConfig),
           Dealt \subseteq Dealt', Rung \subseteq Rung',
           \/ Len(configs') = Len(configs)
           \/ Len(configs') = Len(configs) + 1 /\ (Dealt' # Dealt \/ Rung' # Rung)
    PROVE  /\ Len(configs') <= Cardinality(Dealt') + Cardinality(Rung')
           /\ Len(configs') <= 2 * MaxCalls
<1>1. Dealt' \subseteq Private!Calls /\ Rung' \subseteq Private!Calls
  BY DEF Dealt, Rung
<1>2. /\ IsFiniteSet(Dealt') /\ Cardinality(Dealt') \in Nat /\ Cardinality(Dealt') <= MaxCalls
      /\ IsFiniteSet(Rung') /\ Cardinality(Rung') \in Nat /\ Cardinality(Rung') <= MaxCalls
  BY <1>1, CallNumbers, FS_Subset, FS_CardinalityType
<1>3. /\ Cardinality(Dealt) <= Cardinality(Dealt')
      /\ Dealt' # Dealt => Cardinality(Dealt) # Cardinality(Dealt')
      /\ Cardinality(Rung) <= Cardinality(Rung')
      /\ Rung' # Rung => Cardinality(Rung) # Cardinality(Rung')
  BY <1>2, FS_Subset
<1>4. Len(configs) \in Nat /\ Len(configs) <= Cardinality(Dealt) + Cardinality(Rung)
  BY DEF CallTypes, Entries, Private!TypeOK
<1>5. Len(configs') \in Nat
  OBVIOUS
<1> HIDE DEF Dealt, Rung
<1> QED
  BY <1>2, <1>3, <1>4, <1>5, DealtRung, CallNumbers

LEMMA InitCalls == Private!Init => CallTypes
<1> SUFFICES ASSUME Private!Init PROVE CallTypes
  OBVIOUS
<1>1. Private!TypeOK
  <2>1. /\ calls \in Seq([out : BOOLEAN, state : Private!CallStates]) /\ Len(calls) <= MaxCalls
        /\ configs \in Seq(Private!P2PConfig) /\ Len(configs) <= 2 * MaxCalls
    BY EmptySeq, CallNumbers DEF Private!Init
  <2>2. /\ handler \in [Private!Updates -> Private!HandlerLabels]
        /\ sends \in [Private!Updates -> Private!Places \cup {None}]
        /\ player \in [Private!Calls -> Private!PlayerLabels]
        /\ waitData \in [Private!Calls -> Private!Places \cup {None}]
    BY DEF Private!Init, Private!HandlerLabels, Private!PlayerLabels
  <2> QED
    BY <2>1, <2>2 DEF Private!Init, Private!TypeOK
<1>2. Len(configs) = 0
  BY EmptySeq DEF Private!Init
<1>3. Entries
  BY <1>2, CallNumbers, DealtRung DEF Private!Init, Entries
<1> QED
  BY <1>1, <1>3 DEF CallTypes
(* The handler of one update moves.                                        *)
LEMMA HandlerMoves ==
    ASSUME Private!TypeOK, NEW k \in Private!Calls, NEW kind \in Private!Kinds,
           NEW l \in Private!HandlerLabels, handler' = [handler EXCEPT ![<<k, kind>>] = l]
    PROVE  /\ handler' \in [Private!Updates -> Private!HandlerLabels]
           /\ handler'[<<k, kind>>] = l
           /\ \A j \in Private!Calls, kd \in Private!Kinds :
                 j # k \/ kd # kind => handler'[<<j, kd>>] = handler[<<j, kd>>]
  BY CallNumbers DEF Private!TypeOK

LEMMA SendsMove ==
    ASSUME Private!TypeOK, NEW k \in Private!Calls, NEW kind \in Private!Kinds,
           NEW p \in Private!Places \cup {None}, sends' = [sends EXCEPT ![<<k, kind>>] = p]
    PROVE  /\ sends' \in [Private!Updates -> Private!Places \cup {None}]
           /\ sends'[<<k, kind>>] = p
           /\ \A j \in Private!Calls, kd \in Private!Kinds :
                 j # k \/ kd # kind => sends'[<<j, kd>>] = sends[<<j, kd>>]
  BY CallNumbers DEF Private!TypeOK

(* A call changes its state.                                               *)
LEMMA CallMoves ==
    ASSUME Private!TypeOK, NEW k \in DOMAIN calls, NEW state \in Private!CallStates,
           Private!Now(k, state)
    PROVE  /\ calls' \in Seq([out : BOOLEAN, state : Private!CallStates])
           /\ Len(calls') = Len(calls) /\ DOMAIN calls' = DOMAIN calls
           /\ calls'[k].state = state
           /\ \A j \in DOMAIN calls : calls'[j].out = calls[j].out
           /\ \A j \in DOMAIN calls \ {k} : calls'[j] = calls[j]
<1> DEFINE new == [calls[k] EXCEPT !.state = state]
           Call == [out : BOOLEAN, state : Private!CallStates]
<1>1. calls \in Seq(Call) /\ k \in 1..Len(calls) /\ DOMAIN calls = 1..Len(calls)
  BY LenProperties DEF Private!TypeOK
<1>2. calls[k] \in Call
  BY <1>1, ElementOfSeq
<1>3. new \in Call /\ new.state = state /\ new.out = calls[k].out
  BY <1>2
<1>4. calls' = [calls EXCEPT ![k] = new]
  BY DEF Private!Now
<1> HIDE DEF new, Call
<1>5. /\ [calls EXCEPT ![k] = new] \in Seq(Call)
      /\ Len([calls EXCEPT ![k] = new]) = Len(calls)
      /\ \A j \in 1..Len(calls) : [calls EXCEPT ![k] = new][j] = IF j = k THEN new ELSE calls[j]
  BY <1>1, <1>3, ExceptSeq
<1>6. DOMAIN calls' = 1..Len(calls) /\ calls' \in Seq([out : BOOLEAN, state : Private!CallStates])
  BY <1>4, <1>5, LenProperties DEF Call
<1> QED
  BY <1>1, <1>3, <1>4, <1>5, <1>6

(* The PhoneCall of a configuration is kept.                               *)
LEMMA ConfigMoves ==
    ASSUME Private!TypeOK, NEW p \in DOMAIN configs, configs' = [configs EXCEPT ![p].pc = TRUE]
    PROVE  /\ configs' \in Seq(Private!P2PConfig)
           /\ Len(configs') = Len(configs) /\ DOMAIN configs' = DOMAIN configs
           /\ configs'[p].pc
           /\ \A q \in DOMAIN configs : configs'[q].out = configs[q].out
           /\ \A q \in DOMAIN configs : configs[q].pc => configs'[q].pc
<1> DEFINE new == [configs[p] EXCEPT !.pc = TRUE]
<1>1. configs \in Seq(Private!P2PConfig) /\ p \in 1..Len(configs)
      /\ DOMAIN configs = 1..Len(configs)
  BY LenProperties DEF Private!TypeOK
<1>2. configs[p] \in Private!P2PConfig
  BY <1>1, ElementOfSeq
<1>3. new \in Private!P2PConfig /\ new.pc = TRUE /\ new.out = configs[p].out
  BY <1>2 DEF Private!P2PConfig
<1>4. configs' = [configs EXCEPT ![p] = new]
  OBVIOUS
<1> HIDE DEF new
<1>5. /\ [configs EXCEPT ![p] = new] \in Seq(Private!P2PConfig)
      /\ Len([configs EXCEPT ![p] = new]) = Len(configs)
      /\ \A q \in 1..Len(configs) :
            [configs EXCEPT ![p] = new][q] = IF q = p THEN new ELSE configs[q]
  BY <1>1, <1>3, ExceptSeq
<1>6. DOMAIN configs' = 1..Len(configs)
  BY <1>4, <1>5, LenProperties
<1> QED
  BY <1>1, <1>3, <1>4, <1>5, <1>6

(* A call or a configuration is added.                                     *)
LEMMA CallAdded ==
    ASSUME Private!TypeOK, NEW out \in BOOLEAN, Private!Free,
           calls' = Append(calls, [out |-> out, state |-> "requested"])
    PROVE  /\ calls' \in Seq([out : BOOLEAN, state : Private!CallStates])
           /\ Len(calls') \in Private!Calls /\ Len(calls') <= MaxCalls
           /\ Len(calls') \notin DOMAIN calls
           /\ DOMAIN calls' = DOMAIN calls \cup {Len(calls')}
           /\ \A j \in DOMAIN calls : calls'[j] = calls[j]
           /\ calls'[Len(calls')].out = out
<1>1. calls \in Seq([out : BOOLEAN, state : Private!CallStates])
      /\ Len(calls) \in Nat /\ Len(calls) < MaxCalls
  BY DEF Private!TypeOK, Private!Free
<1>2. [out |-> out, state |-> "requested"] \in [out : BOOLEAN, state : Private!CallStates]
  BY DEF Private!CallStates
<1>3. /\ calls' \in Seq([out : BOOLEAN, state : Private!CallStates])
      /\ Len(calls') = Len(calls) + 1
      /\ \A j \in 1..Len(calls) : calls'[j] = calls[j]
      /\ calls'[Len(calls) + 1] = [out |-> out, state |-> "requested"]
  BY <1>1, <1>2, AppendProperties
<1>4. DOMAIN calls = 1..Len(calls) /\ DOMAIN calls' = 1..(Len(calls) + 1)
  BY <1>1, <1>3
<1> QED
  BY <1>1, <1>3, <1>4, CallNumbers DEF Private!Calls

LEMMA ConfigAdded ==
    ASSUME Private!TypeOK, NEW out \in BOOLEAN,
           configs' = Append(configs, [out |-> out, pc |-> FALSE])
    PROVE  /\ configs' \in Seq(Private!P2PConfig)
           /\ Len(configs') = Len(configs) + 1
           /\ DOMAIN configs' = DOMAIN configs \cup {Len(configs')}
           /\ \A q \in DOMAIN configs : configs'[q] = configs[q]
           /\ configs'[Len(configs')].out = out
<1>1. configs \in Seq(Private!P2PConfig) /\ Len(configs) \in Nat
  BY DEF Private!TypeOK
<1>2. [out |-> out, pc |-> FALSE] \in Private!P2PConfig
  BY DEF Private!P2PConfig
<1>3. /\ configs' \in Seq(Private!P2PConfig)
      /\ Len(configs') = Len(configs) + 1
      /\ \A j \in 1..Len(configs) : configs'[j] = configs[j]
      /\ configs'[Len(configs) + 1] = [out |-> out, pc |-> FALSE]
  BY <1>1, <1>2, AppendProperties
<1>4. DOMAIN configs = 1..Len(configs) /\ DOMAIN configs' = 1..(Len(configs) + 1)
  BY <1>1, <1>3
<1> QED
  BY <1>1, <1>3, <1>4
(* Steps of the user and of Telegram.                                      *)
LEMMA UserTypes ==
    ASSUME CallTypes, Private!UserStep
    PROVE  CallTypes'
<1> USE CallNumbers
<1>1. Private!TypeOK
  BY DEF CallTypes
<1>2. UNCHANGED <<sends, configs, p2pConfigs, inputCalls, bound, player, waitData, orderly,
                  abandoned, crashed>>
  BY DEF Private!UserStep, Private!Dial, Private!Confirmed, Private!Answer, Private!HangUp,
         Private!User, Private!entries, Private!playing, Private!history
<1>3. ASSUME NEW k \in Private!Calls, NEW kind \in Private!Kinds,
             handler' = [handler EXCEPT ![<<k, kind>>] = "start"],
             kind = "requested" => k \notin DOMAIN calls,
             calls' \in Seq([out : BOOLEAN, state : Private!CallStates]), Len(calls') <= MaxCalls,
             DOMAIN calls \subseteq DOMAIN calls', k \in DOMAIN calls'
      PROVE  CallTypes'
  <2>1. "start" \in Private!HandlerLabels
    BY DEF Private!HandlerLabels
  <2>2. /\ handler' \in [Private!Updates -> Private!HandlerLabels]
        /\ handler'[<<k, kind>>] = "start"
        /\ \A j \in Private!Calls, kd \in Private!Kinds :
              j # k \/ kd # kind => handler'[<<j, kd>>] = handler[<<j, kd>>]
    BY <1>1, <1>3, <2>1, HandlerMoves
  <2>3. "requested" \in Private!Kinds
    BY DEF Private!Kinds
  <2>4. \A j \in Private!Calls :
           handler[<<j, "requested">>] = "done" <=> handler'[<<j, "requested">>] = "done"
    BY <1>3, <2>2, <2>3 DEF CallTypes, Entries
  <2>5. Dealt' = Dealt /\ Rung' = Rung
    BY <1>2, <2>4 DEF Dealt, Rung
  <2>6. Private!TypeOK'
    BY <1>1, <1>2, <1>3, <2>2 DEF Private!TypeOK
  <2>7. Entries'
    BY <1>2, <1>3, <2>2, <2>4, <2>5 DEF CallTypes, Entries
  <2> QED
    BY <2>6, <2>7 DEF CallTypes
<1>4. CASE Private!Dial
  <2>1. /\ Len(calls') \in Private!Calls /\ Len(calls') <= MaxCalls
        /\ calls' \in Seq([out : BOOLEAN, state : Private!CallStates])
        /\ Len(calls') \notin DOMAIN calls /\ DOMAIN calls' = DOMAIN calls \cup {Len(calls')}
    BY <1>1, <1>4, CallAdded DEF Private!Dial
  <2>2. handler' = [handler EXCEPT ![<<Len(calls'), "requested">>] = "start"]
        /\ "requested" \in Private!Kinds
    BY <1>4 DEF Private!Dial, Private!Send, Private!Kinds
  <2> QED
    BY <1>3, <2>1, <2>2
<1>5. CASE \E k \in DOMAIN calls : Private!Confirmed(k) \/ Private!Answer(k) \/ Private!HangUp(k)
  <2>1. PICK k \in DOMAIN calls, kind \in Private!Kinds, state \in Private!CallStates :
             /\ kind # "requested" /\ Private!Now(k, state)
             /\ handler' = [handler EXCEPT ![<<k, kind>>] = "start"]
    BY <1>5 DEF Private!Confirmed, Private!Answer, Private!HangUp, Private!Send, Private!Kinds,
                Private!CallStates
  <2>2. /\ calls' \in Seq([out : BOOLEAN, state : Private!CallStates])
        /\ Len(calls') = Len(calls) /\ DOMAIN calls' = DOMAIN calls
    BY <1>1, <2>1, CallMoves
  <2>3. DOMAIN calls \subseteq Private!Calls /\ Len(calls) <= MaxCalls
    BY <1>1 DEF Private!TypeOK, Private!Calls
  <2> QED
    BY <1>3, <2>1, <2>2, <2>3
<1> QED
  BY <1>4, <1>5 DEF Private!UserStep

(* Steps of the handler of an update.                                      *)
LEMMA HandlerTypes ==
    ASSUME CallTypes, NEW k \in Private!Calls, Private!HandlerStep(k)
    PROVE  CallTypes'
<1> USE CallNumbers
<1>1. Private!TypeOK
  BY DEF CallTypes
<1>2. UNCHANGED <<calls, waitData, abandoned, crashed>>
  BY DEF Private!HandlerStep, Private!Requested, Private!RequestedConfig, Private!Told,
         Private!Discarded, Private!Cleanup, Private!Handling, Private!playing, Private!history
<1>3. \A kind \in Private!Kinds : handler[<<k, kind>>] # "none" => k \in DOMAIN calls
  BY DEF CallTypes, Entries
<1>4. p2pConfigs \in DOMAIN configs \cup {None} /\ DOMAIN configs \subseteq Private!Places
  <2>1. DOMAIN configs = 1..Len(configs) /\ Len(configs) \in Nat /\ Len(configs) <= 2 * MaxCalls
    BY <1>1, LenProperties DEF Private!TypeOK
  <2> QED
    BY <1>1, <2>1 DEF Private!TypeOK
<1>5. ASSUME NEW kind \in Private!Kinds, NEW l \in Private!HandlerLabels, handler[<<k, kind>>] # "none",
             NEW p \in DOMAIN configs \cup {None},
             handler[<<k, kind>>] # "done",
             l = "none" => FALSE, l = "config" => kind = "requested", l = "cleanup" => kind = "discarded",
             handler' = [handler EXCEPT ![<<k, kind>>] = l],
             sends' = sends \/ sends' = [sends EXCEPT ![<<k, kind>>] = p],
             inputCalls' \in {inputCalls, k, None}, bound' \in {bound, FALSE}, orderly' \in BOOLEAN,
             configs' \in Seq(Private!P2PConfig), DOMAIN configs \subseteq DOMAIN configs',
             \/ Len(configs') = Len(configs)
             \/ Len(configs') = Len(configs) + 1 /\ kind = "requested" /\ l = "done",
             p2pConfigs' \in DOMAIN configs' \cup {None},
             \/ player' = player
             \/ /\ player' = [player EXCEPT ![k] = "prepare"]
                /\ kind = "requested" /\ l = "done"
      PROVE  CallTypes'
  <2>1. /\ handler' \in [Private!Updates -> Private!HandlerLabels]
        /\ handler'[<<k, kind>>] = l
        /\ \A j \in Private!Calls, kd \in Private!Kinds :
              j # k \/ kd # kind => handler'[<<j, kd>>] = handler[<<j, kd>>]
    BY <1>1, <1>5, HandlerMoves
  <2>2. /\ sends' \in [Private!Updates -> Private!Places \cup {None}]
        /\ \A j \in Private!Calls, kd \in Private!Kinds :
              sends'[<<j, kd>>] \in {sends[<<j, kd>>], p}
    <3>1. CASE sends' = sends
      BY <1>1, <3>1 DEF Private!TypeOK
    <3>2. CASE sends' = [sends EXCEPT ![<<k, kind>>] = p]
      BY <1>1, <1>4, <3>2, SendsMove
    <3> QED
      BY <1>5, <3>1, <3>2
  <2>3. "requested" \in Private!Kinds
    BY DEF Private!Kinds
  <2>4. /\ player' \in [Private!Calls -> Private!PlayerLabels]
        /\ \A j \in Private!Calls \ {k} : player'[j] = player[j]
        /\ player'[k] = player[k] \/ (player'[k] = "prepare" /\ kind = "requested" /\ l = "done")
    BY <1>1, <1>5 DEF Private!TypeOK, Private!PlayerLabels
  <2>5. kind = "requested" => player[k] = "none"
    BY <1>5 DEF CallTypes, Entries
  <2>6. Dealt \subseteq Dealt' /\ Rung \subseteq Rung'
    BY <1>5, <2>1, <2>3, <2>4, <2>5 DEF Dealt, Rung
  <2>7. kind = "requested" /\ l = "done" => Dealt' # Dealt
    BY <1>5, <2>1 DEF Dealt
  <2>8. /\ Len(configs') <= Cardinality(Dealt') + Cardinality(Rung')
        /\ Len(configs') <= 2 * MaxCalls
    BY <1>5, <2>6, <2>7, FewConfigs
  <2>9. Private!TypeOK'
    BY <1>1, <1>2, <1>5, <2>1, <2>2, <2>4, <2>8 DEF Private!TypeOK
  <2>10. Entries'
    <3>1. ASSUME NEW j \in Private!Calls, NEW kd \in Private!Kinds
          PROVE  /\ handler'[<<j, kd>>] # "none" => j \in DOMAIN calls'
                 /\ handler'[<<j, kd>>] = "config" => kd = "requested"
                 /\ handler'[<<j, kd>>] = "cleanup" => kd = "discarded"
      <4>1. CASE j = k /\ kd = kind
        BY <1>2, <1>3, <1>5, <2>1, <4>1
      <4>2. CASE ~(j = k /\ kd = kind)
        <5>1. handler'[<<j, kd>>] = handler[<<j, kd>>]
          BY <2>1, <4>2
        <5> QED
          BY <1>2, <5>1 DEF CallTypes, Entries
      <4> QED
        BY <4>1, <4>2
    <3>2. \A j \in Private!Calls, kd \in Private!Kinds :
             sends'[<<j, kd>>] \in DOMAIN configs' \cup {None}
      BY <1>5, <2>2 DEF CallTypes, Entries
    <3>3. \A j \in Private!Calls : handler'[<<j, "requested">>] # "done" => player'[j] = "none"
      BY <1>5, <2>1, <2>3, <2>4 DEF CallTypes, Entries
    <3>4. inputCalls' \in DOMAIN calls' \cup {None}
      BY <1>2, <1>3, <1>5 DEF CallTypes, Entries
    <3> QED
      BY <2>8, <3>1, <3>2, <3>3, <3>4 DEF Entries
  <2> QED
    BY <2>9, <2>10 DEF CallTypes
<1> USE DEF Private!HandlerLabels, Private!Kinds, Private!HandlerGoto, Private!Handling,
            Private!entries, Private!playing, Private!history, Private!Deliver
<1>6. configs \in Seq(Private!P2PConfig) /\ orderly \in BOOLEAN
  BY <1>1 DEF Private!TypeOK
<1>7. CASE Private!Requested(k)
  BY <1>4, <1>5, <1>6, <1>7 DEF Private!Requested
<1>8. CASE Private!RequestedConfig(k)
  <2>1. handler[<<k, "requested">>] = "config"
        /\ handler' = [handler EXCEPT ![<<k, "requested">>] = "done"]
        /\ UNCHANGED <<sends, inputCalls, bound, orderly>>
    BY <1>8 DEF Private!RequestedConfig
  <2>2. CASE UNCHANGED <<configs, p2pConfigs>>
    BY <1>4, <1>5, <1>6, <1>8, <2>1, <2>2 DEF Private!RequestedConfig
  <2>3. CASE /\ configs' = Append(configs, [out |-> FALSE, pc |-> FALSE])
             /\ p2pConfigs' = Len(configs')
             /\ player' = [player EXCEPT ![k] = "prepare"]
    <3>1. /\ configs' \in Seq(Private!P2PConfig) /\ Len(configs') = Len(configs) + 1
          /\ DOMAIN configs' = DOMAIN configs \cup {Len(configs')}
      BY <1>1, <2>3, ConfigAdded
    <3> QED
      BY <1>4, <1>5, <1>6, <2>1, <2>3, <3>1
  <2> QED
    BY <1>8, <2>2, <2>3 DEF Private!RequestedConfig
<1>9. CASE \E kind \in Private!Kinds : Private!Told(k, kind)
  <2>1. PICK kind \in Private!Kinds : Private!Told(k, kind)
    BY <1>9
  <2>2. /\ configs' \in Seq(Private!P2PConfig) /\ Len(configs') = Len(configs)
        /\ DOMAIN configs' = DOMAIN configs
    <3>1. CASE configs' = configs
      BY <1>6, <3>1
    <3>2. CASE p2pConfigs # None /\ configs' = [configs EXCEPT ![p2pConfigs].pc = TRUE]
      BY <1>1, <1>4, <3>2, ConfigMoves
    <3> QED
      BY <2>1, <3>1, <3>2 DEF Private!Told
  <2>3. /\ handler[<<k, kind>>] = "start"
        /\ \E l \in {"done", "send"} : handler' = [handler EXCEPT ![<<k, kind>>] = l]
        /\ sends' = sends \/ sends' = [sends EXCEPT ![<<k, kind>>] = p2pConfigs]
        /\ inputCalls' \in {inputCalls, k} /\ UNCHANGED <<p2pConfigs, bound, orderly, player>>
    BY <2>1 DEF Private!Told
  <2> QED
    BY <1>4, <1>5, <1>6, <2>2, <2>3
<1>10. CASE Private!Discarded(k)
  BY <1>4, <1>5, <1>6, <1>10 DEF Private!Discarded
<1>11. CASE Private!Cleanup(k)
  BY <1>4, <1>5, <1>6, <1>11 DEF Private!Cleanup
<1> QED
  BY <1>7, <1>8, <1>9, <1>10, <1>11 DEF Private!HandlerStep
(* Steps of a player that make no configuration and no call.               *)
LEMMA PlayerMoves ==
    ASSUME CallTypes, NEW k \in Private!Calls, NEW l \in Private!PlayerLabels,
           player[k] \notin {"none", l},
           l \in {"none", "prepare", "play", "config", "request"} =>
              player[k] \in {"none", "prepare", "play", "config", "request"},
           player' = [player EXCEPT ![k] = l]
    PROVE  /\ player' \in [Private!Calls -> Private!PlayerLabels]
           /\ player'[k] = l
           /\ \A j \in Private!Calls \ {k} : player'[j] = player[j]
           /\ Rung \subseteq Rung'
           /\ \A j \in Private!Calls : handler[<<j, "requested">>] # "done" => player'[j] = "none"
<1>1. /\ player' \in [Private!Calls -> Private!PlayerLabels]
      /\ player'[k] = l
      /\ \A j \in Private!Calls \ {k} : player'[j] = player[j]
  BY DEF CallTypes, Private!TypeOK
<1>2. Rung \subseteq Rung'
  BY <1>1 DEF Rung
<1> QED
  BY <1>1, <1>2 DEF CallTypes, Entries
(* What a step of a player does to the rest.                               *)
LEMMA PlayerEffects ==
    ASSUME CallTypes,
           player' \in [Private!Calls -> Private!PlayerLabels], Rung \subseteq Rung',
           \A j \in Private!Calls : handler[<<j, "requested">>] # "done" => player'[j] = "none",
           NEW i \in Private!Calls, NEW kind \in Private!Kinds, NEW l \in {"start", "done", "cleanup"},
           \/ handler' = handler /\ sends' = sends
           \/ /\ handler' = [handler EXCEPT ![<<i, kind>>] = l]
              /\ sends' = sends \/ sends' = [sends EXCEPT ![<<i, kind>>] = None]
              /\ i \in DOMAIN calls'
              /\ kind # "requested" \/ l = "done"
              /\ l = "cleanup" => kind = "discarded",
           calls' \in Seq([out : BOOLEAN, state : Private!CallStates]), Len(calls') <= MaxCalls,
           DOMAIN calls \subseteq DOMAIN calls',
           configs' \in Seq(Private!P2PConfig), DOMAIN configs \subseteq DOMAIN configs',
           \/ Len(configs') = Len(configs)
           \/ Len(configs') = Len(configs) + 1 /\ Rung' # Rung,
           p2pConfigs' \in DOMAIN configs' \cup {None}, inputCalls' = inputCalls,
           waitData' \in [Private!Calls -> Private!Places \cup {None}],
           bound' \in BOOLEAN, orderly' \in BOOLEAN, abandoned' \in BOOLEAN, crashed' \in BOOLEAN
    PROVE  CallTypes'
<1> USE CallNumbers
<1>1. Private!TypeOK
  BY DEF CallTypes
<1>2. l \in Private!HandlerLabels
  BY DEF Private!HandlerLabels
<1>3. "requested" \in Private!Kinds
  BY DEF Private!Kinds
<1>4. /\ handler' \in [Private!Updates -> Private!HandlerLabels]
      /\ \A j \in Private!Calls, kd \in Private!Kinds :
            \/ handler'[<<j, kd>>] = handler[<<j, kd>>]
            \/ /\ handler'[<<j, kd>>] = l /\ j \in DOMAIN calls'
               /\ kd # "requested" \/ l = "done"
               /\ l = "cleanup" => kd = "discarded"
  <2>1. CASE handler' = handler
    BY <1>1, <2>1 DEF Private!TypeOK
  <2>2. CASE handler' = [handler EXCEPT ![<<i, kind>>] = l]
    <3>1. /\ handler' \in [Private!Updates -> Private!HandlerLabels]
          /\ handler'[<<i, kind>>] = l
          /\ \A j \in Private!Calls, kd \in Private!Kinds :
                j # i \/ kd # kind => handler'[<<j, kd>>] = handler[<<j, kd>>]
      BY <1>1, <1>2, <2>2, HandlerMoves
    <3>2. handler' = handler \/
          (/\ i \in DOMAIN calls'
           /\ kind # "requested" \/ l = "done"
           /\ l = "cleanup" => kind = "discarded")
      OBVIOUS
    <3> QED
      BY <3>1, <3>2
  <2> QED
    BY <2>1, <2>2
<1>5. /\ sends' \in [Private!Updates -> Private!Places \cup {None}]
      /\ \A j \in Private!Calls, kd \in Private!Kinds : sends'[<<j, kd>>] \in {sends[<<j, kd>>], None}
  <2>1. CASE sends' = sends
    BY <1>1, <2>1 DEF Private!TypeOK
  <2>2. CASE sends' = [sends EXCEPT ![<<i, kind>>] = None]
    BY <1>1, <2>2, SendsMove
  <2> QED
    BY <2>1, <2>2
<1>6. \A j \in Private!Calls :
         handler[<<j, "requested">>] = "done" => handler'[<<j, "requested">>] = "done"
  BY <1>3, <1>4
<1>7. Dealt \subseteq Dealt'
  BY <1>6 DEF Dealt
<1>8. /\ Len(configs') <= Cardinality(Dealt') + Cardinality(Rung')
      /\ Len(configs') <= 2 * MaxCalls
  BY <1>7, FewConfigs
<1>9. Private!TypeOK'
  BY <1>1, <1>4, <1>5, <1>8 DEF Private!TypeOK
<1>10. Entries'
  <2>1. ASSUME NEW j \in Private!Calls, NEW kd \in Private!Kinds
        PROVE  /\ handler'[<<j, kd>>] # "none" => j \in DOMAIN calls'
               /\ handler'[<<j, kd>>] = "config" => kd = "requested"
               /\ handler'[<<j, kd>>] = "cleanup" => kd = "discarded"
               /\ sends'[<<j, kd>>] \in DOMAIN configs' \cup {None}
    <3>1. /\ handler[<<j, kd>>] # "none" => j \in DOMAIN calls
          /\ handler[<<j, kd>>] = "config" => kd = "requested"
          /\ handler[<<j, kd>>] = "cleanup" => kd = "discarded"
          /\ sends[<<j, kd>>] \in DOMAIN configs \cup {None}
      BY DEF CallTypes, Entries
    <3>2. sends'[<<j, kd>>] \in {sends[<<j, kd>>], None}
      BY <1>5
    <3>3. \/ handler'[<<j, kd>>] = handler[<<j, kd>>]
          \/ /\ handler'[<<j, kd>>] = l /\ j \in DOMAIN calls'
             /\ l = "cleanup" => kd = "discarded"
      BY <1>4
    <3> QED
      BY <3>1, <3>2, <3>3
  <2>2. \A j \in Private!Calls : handler'[<<j, "requested">>] # "done" => player'[j] = "none"
    BY <1>6
  <2>3. inputCalls' \in DOMAIN calls' \cup {None}
    BY DEF CallTypes, Entries
  <2> QED
    BY <1>8, <2>1, <2>2, <2>3 DEF Entries
<1> QED
  BY <1>9, <1>10 DEF CallTypes
(* Steps of the player of a call.                                          *)
LEMMA PlayerTypes ==
    ASSUME CallTypes, NEW k \in Private!Calls, Private!PlayerStep(k)
    PROVE  CallTypes'
<1> USE CallNumbers
<1>1. Private!TypeOK
  BY DEF CallTypes
<1>2. /\ calls \in Seq([out : BOOLEAN, state : Private!CallStates]) /\ Len(calls) <= MaxCalls
      /\ configs \in Seq(Private!P2PConfig) /\ p2pConfigs \in DOMAIN configs \cup {None}
      /\ bound \in BOOLEAN /\ orderly \in BOOLEAN /\ abandoned \in BOOLEAN /\ crashed \in BOOLEAN
      /\ player \in [Private!Calls -> Private!PlayerLabels]
      /\ waitData \in [Private!Calls -> Private!Places \cup {None}]
      /\ inputCalls \in DOMAIN calls \cup {None}
      /\ "requested" \in Private!Kinds /\ "done" \in {"start", "done", "cleanup"}
  BY <1>1 DEF Private!TypeOK, Private!Kinds, CallTypes, Entries
<1>3. p2pConfigs \in Private!Places \cup {None}
  <2>1. DOMAIN configs = 1..Len(configs) /\ Len(configs) \in Nat /\ Len(configs) <= 2 * MaxCalls
    BY <1>1, LenProperties DEF Private!TypeOK
  <2> QED
    BY <1>2, <2>1
<1> DEFINE Moved(l) ==
              /\ player[k] \notin {"none", l}
              /\ l \in {"none", "prepare", "play", "config", "request"} =>
                    player[k] \in {"none", "prepare", "play", "config", "request"}
              /\ player' = [player EXCEPT ![k] = l]
<1>4. ASSUME NEW l \in Private!PlayerLabels, Moved(l)
      PROVE  /\ player' \in [Private!Calls -> Private!PlayerLabels] /\ Rung \subseteq Rung'
             /\ \A j \in Private!Calls : handler[<<j, "requested">>] # "done" => player'[j] = "none"
  BY <1>4, PlayerMoves
<1>5. ASSUME UNCHANGED <<calls, handler, sends, configs, inputCalls>>,
             player' = player \/ \E l \in Private!PlayerLabels : Moved(l),
             p2pConfigs' \in {p2pConfigs, None},
             waitData' \in [Private!Calls -> Private!Places \cup {None}],
             bound' \in BOOLEAN, orderly' \in BOOLEAN, abandoned' \in BOOLEAN, crashed' \in BOOLEAN
      PROVE  CallTypes'
  <2>1. /\ player' \in [Private!Calls -> Private!PlayerLabels] /\ Rung \subseteq Rung'
        /\ \A j \in Private!Calls : handler[<<j, "requested">>] # "done" => player'[j] = "none"
    <3>1. CASE player' = player
      BY <1>2, <3>1 DEF Rung, CallTypes, Entries
    <3> QED
      BY <1>4, <1>5, <3>1
  <2>2. p2pConfigs' \in DOMAIN configs' \cup {None}
    BY <1>2, <1>5
  <2> HIDE DEF Moved
  <2> QED
    BY <1>2, <1>5, <2>1, <2>2, PlayerEffects
<1>6. \A p \in Private!Places \cup {None} :
         [waitData EXCEPT ![k] = p] \in [Private!Calls -> Private!Places \cup {None}]
  BY <1>2
<1>7. ASSUME Private!Finish(k), player[k] \notin {"none", "done"}
      PROVE  /\ Moved("done") /\ "done" \in Private!PlayerLabels /\ p2pConfigs' = None
             /\ waitData' \in [Private!Calls -> Private!Places \cup {None}]
  BY <1>2, <1>7 DEF Private!Finish, Private!PlayerGoto, Private!PlayerLabels
<1> USE DEF Private!PlayerGoto, Private!PlayerLabels, Private!updating, Private!playing,
            Private!entries, Private!history
<1>8. CASE Private!Prepare(k)
  BY <1>2, <1>5, <1>8 DEF Private!Prepare
<1>9. CASE Private!Play(k)
  BY <1>2, <1>5, <1>9 DEF Private!Play
<1>10. CASE Private!Config(k)
  BY <1>2, <1>5, <1>10 DEF Private!Config
<1>11. CASE Private!Request(k)
  <2>1. player[k] = "request" /\ UNCHANGED <<calls, handler, sends, inputCalls, bound, orderly, abandoned, crashed>>
    BY <1>11 DEF Private!Request
  <2>2. CASE Private!Finish(k) /\ UNCHANGED configs
    BY <1>2, <1>5, <1>7, <2>1, <2>2
  <2>3. CASE /\ configs' = Append(configs, [out |-> TRUE, pc |-> FALSE])
             /\ p2pConfigs' = Len(configs') /\ player' = [player EXCEPT ![k] = "create"]
             /\ UNCHANGED waitData
    <3>1. Moved("create")
      BY <2>1, <2>3
    <3>2. /\ player' \in [Private!Calls -> Private!PlayerLabels] /\ Rung \subseteq Rung'
          /\ \A j \in Private!Calls : handler[<<j, "requested">>] # "done" => player'[j] = "none"
      BY <1>4, <3>1
    <3>3. Rung # Rung'
      BY <1>2, <2>1, <2>3 DEF Rung
    <3>4. /\ configs' \in Seq(Private!P2PConfig) /\ Len(configs') = Len(configs) + 1
          /\ DOMAIN configs' = DOMAIN configs \cup {Len(configs')}
      BY <1>1, <2>3, ConfigAdded
    <3> HIDE DEF Moved
    <3> QED
      BY <1>2, <2>1, <2>3, <3>2, <3>3, <3>4, PlayerEffects
  <2> QED
    BY <1>11, <2>2, <2>3 DEF Private!Request
<1>12. CASE Private!Create(k)
  <2>1. /\ player[k] = "create" /\ bound' = TRUE
        /\ UNCHANGED <<calls, handler, sends, configs, inputCalls, orderly, abandoned, crashed>>
    BY <1>12 DEF Private!Create
  <2>2. CASE Private!Finish(k)
    BY <1>2, <1>5, <1>7, <2>1, <2>2
  <2>3. CASE Private!PlayerGoto(k, "exchange") /\ UNCHANGED <<waitData, p2pConfigs>>
    BY <1>2, <1>5, <2>1, <2>3
  <2> QED
    BY <1>12, <2>2, <2>3 DEF Private!Create
<1>13. CASE Private!Use(k)
  <2>1. /\ player[k] \in {"exchange", "keys", "connect"} /\ crashed' \in BOOLEAN
        /\ UNCHANGED <<calls, handler, sends, configs, inputCalls, bound, orderly, abandoned>>
    BY <1>2, <1>13 DEF Private!Use
  <2>2. CASE Private!Finish(k)
    BY <1>2, <1>5, <1>7, <2>1, <2>2
  <2>3. CASE UNCHANGED <<player, waitData, p2pConfigs>>
    BY <1>2, <1>5, <2>1, <2>3
  <2>4. CASE /\ \E l \in {"call", "connecting", "confirm", "connect"} :
                   player[k] # l /\ player' = [player EXCEPT ![k] = l]
             /\ UNCHANGED <<waitData, p2pConfigs>>
    BY <1>2, <1>5, <2>1, <2>4
  <2> QED
    BY <1>13, <2>1, <2>2, <2>3, <2>4 DEF Private!Use
<1>14. CASE Private!AcceptOrCall(k)
  <2>1. /\ player[k] = "call" /\ crashed' \in BOOLEAN
        /\ UNCHANGED <<sends, configs, inputCalls, bound, orderly, abandoned>>
    BY <1>2, <1>14 DEF Private!AcceptOrCall
  <2>2. CASE Private!Finish(k) /\ UNCHANGED <<calls, handler>>
    BY <1>2, <1>5, <1>7, <2>1, <2>2
  <2>3. CASE UNCHANGED <<calls, handler, player, waitData, p2pConfigs>>
    BY <1>2, <1>5, <2>1, <2>3
  <2>4. ASSUME Private!Await(k)
        PROVE  /\ player' \in [Private!Calls -> Private!PlayerLabels] /\ Rung \subseteq Rung'
               /\ \A j \in Private!Calls : handler[<<j, "requested">>] # "done" => player'[j] = "none"
               /\ waitData' \in [Private!Calls -> Private!Places \cup {None}]
               /\ p2pConfigs' \in DOMAIN configs' \cup {None}
    <3>1. Moved("wait") /\ "wait" \in Private!PlayerLabels
      BY <2>1, <2>4 DEF Private!Await
    <3>2. waitData' \in [Private!Calls -> Private!Places \cup {None}]
      BY <1>3, <1>6, <2>4 DEF Private!Await
    <3>3. p2pConfigs' \in DOMAIN configs' \cup {None}
      BY <1>2, <2>1, <2>4 DEF Private!Await
    <3> HIDE DEF Moved
    <3> QED
      BY <1>4, <3>1, <3>2, <3>3
  <2>5. CASE /\ inputCalls # None /\ Private!Now(inputCalls, "accepted") /\ Private!Await(k)
             /\ UNCHANGED handler
    <3>1. /\ calls' \in Seq([out : BOOLEAN, state : Private!CallStates])
          /\ Len(calls') = Len(calls) /\ DOMAIN calls' = DOMAIN calls
      BY <1>1, <1>2, <2>5, CallMoves DEF Private!CallStates
    <3> QED
      BY <1>2, <2>1, <2>4, <2>5, <3>1, PlayerEffects
  <2>6. CASE /\ Private!Free /\ calls' = Append(calls, [out |-> TRUE, state |-> "requested"])
             /\ Private!Send(Len(calls'), "waiting") /\ Private!Await(k)
    <3>1. /\ calls' \in Seq([out : BOOLEAN, state : Private!CallStates])
          /\ Len(calls') \in Private!Calls /\ Len(calls') <= MaxCalls
          /\ DOMAIN calls' = DOMAIN calls \cup {Len(calls')}
      BY <1>1, <2>6, CallAdded
    <3>2. /\ handler' = [handler EXCEPT ![<<Len(calls'), "waiting">>] = "start"]
          /\ "waiting" \in Private!Kinds /\ "start" \in {"start", "done", "cleanup"}
      BY <2>6 DEF Private!Send, Private!Kinds
    <3> QED
      BY <1>2, <2>1, <2>4, <2>6, <3>1, <3>2, PlayerEffects
  <2>7. \/ Private!Accept(k) \/ Private!Call(k)
        \/ UNCHANGED <<calls, handler, player, waitData, p2pConfigs>>
    BY <1>14 DEF Private!AcceptOrCall
  <2> QED
    BY <2>2, <2>3, <2>5, <2>6, <2>7 DEF Private!Accept, Private!Call
<1>15. CASE Private!Receive(k)
  <2>1. PICK i \in Private!Calls, kind \in Private!Kinds :
           /\ sends' = [sends EXCEPT ![<<i, kind>>] = None]
           /\ handler[<<i, kind>>] = "send"
           /\ IF kind = "discarded"
              THEN Private!HandlerGoto(<<i, kind>>, "cleanup") /\ Private!Finish(k)
              ELSE /\ Private!HandlerGoto(<<i, kind>>, "done") /\ Private!PlayerGoto(k, "keys")
                   /\ UNCHANGED <<waitData, p2pConfigs>>
    <3>1. PICK u \in Private!Updates :
             /\ handler[u] = "send" /\ sends' = [sends EXCEPT ![u] = None]
             /\ IF u[2] = "discarded"
                THEN Private!HandlerGoto(u, "cleanup") /\ Private!Finish(k)
                ELSE /\ Private!HandlerGoto(u, "done") /\ Private!PlayerGoto(k, "keys")
                     /\ UNCHANGED <<waitData, p2pConfigs>>
      BY <1>15 DEF Private!Receive
    <3>2. PICK i \in Private!Calls, kind \in Private!Kinds : u = <<i, kind>>
      BY <3>1 DEF Private!Updates
    <3> QED
      BY <3>1, <3>2
  <2>2. /\ player[k] = "wait"
        /\ UNCHANGED <<calls, configs, inputCalls, bound, orderly, abandoned, crashed>>
    BY <1>15 DEF Private!Receive
  <2>3. i \in DOMAIN calls'
    BY <2>1, <2>2 DEF CallTypes, Entries
  <2>4. PICK l \in {"start", "done", "cleanup"} :
           /\ handler' = [handler EXCEPT ![<<i, kind>>] = l]
           /\ kind # "requested" \/ l = "done"
           /\ l = "cleanup" => kind = "discarded"
    BY <2>1 DEF Private!HandlerGoto
  <2>5. \E m \in {"done", "keys"} : Moved(m)
    BY <2>1, <2>2 DEF Private!Finish
  <2>6. waitData' \in [Private!Calls -> Private!Places \cup {None}] /\ p2pConfigs' \in {p2pConfigs, None}
    BY <1>2, <2>1, <1>6 DEF Private!Finish
  <2>7. /\ player' \in [Private!Calls -> Private!PlayerLabels] /\ Rung \subseteq Rung'
        /\ \A j \in Private!Calls : handler[<<j, "requested">>] # "done" => player'[j] = "none"
    BY <1>4, <2>5
  <2> HIDE DEF Moved
  <2> QED
    BY <1>2, <2>1, <2>2, <2>3, <2>4, <2>6, <2>7, PlayerEffects
<1>16. CASE Private!TimeOut(k)
  BY <1>2, <1>5, <1>7, <1>16 DEF Private!TimeOut
<1>17. CASE Private!Confirm(k)
  <2>1. player[k] = "confirm" /\ UNCHANGED <<handler, sends, inputCalls, bound, orderly, abandoned>>
    BY <1>17 DEF Private!Confirm
  <2>2. CASE Private!Finish(k) /\ UNCHANGED <<calls, configs, crashed>>
    BY <1>2, <1>5, <1>7, <2>1, <2>2
  <2>3. CASE crashed' = TRUE /\ UNCHANGED <<calls, configs, player, p2pConfigs, waitData>>
    BY <1>2, <1>5, <2>1, <2>3
  <2>4. CASE /\ inputCalls # None /\ p2pConfigs # None
             /\ Private!Now(inputCalls, "up")
             /\ configs' = [configs EXCEPT ![p2pConfigs].pc = TRUE]
             /\ Private!PlayerGoto(k, "connect")
             /\ UNCHANGED <<crashed, p2pConfigs, waitData>>
    <3>1. /\ calls' \in Seq([out : BOOLEAN, state : Private!CallStates])
          /\ Len(calls') = Len(calls) /\ DOMAIN calls' = DOMAIN calls
      BY <1>1, <1>2, <2>4, CallMoves DEF Private!CallStates
    <3>2. /\ configs' \in Seq(Private!P2PConfig)
          /\ Len(configs') = Len(configs) /\ DOMAIN configs' = DOMAIN configs
      BY <1>1, <1>2, <2>4, ConfigMoves
    <3>3. Moved("connect")
      BY <2>1, <2>4
    <3>4. /\ player' \in [Private!Calls -> Private!PlayerLabels] /\ Rung \subseteq Rung'
          /\ \A j \in Private!Calls : handler[<<j, "requested">>] # "done" => player'[j] = "none"
      BY <1>4, <3>3
    <3> HIDE DEF Moved
    <3> QED
      BY <1>2, <2>1, <2>4, <3>1, <3>2, <3>4, PlayerEffects
  <2> QED
    BY <1>17, <2>2, <2>3, <2>4 DEF Private!Confirm
<1> QED
  BY <1>8, <1>9, <1>10, <1>11, <1>12, <1>13, <1>14, <1>15, <1>16, <1>17 DEF Private!PlayerStep
LEMMA CallTypesKept == CallTypes /\ [Private!Next]_(Private!vars) => CallTypes'
<1> SUFFICES ASSUME CallTypes, [Private!Next]_(Private!vars) PROVE CallTypes'
  OBVIOUS
<1>1. CASE UNCHANGED Private!vars
  <2>1. Dealt' = Dealt /\ Rung' = Rung
    BY <1>1 DEF Private!vars, Private!updating, Private!playing, Dealt, Rung
  <2> QED
    BY <1>1, <2>1 DEF Private!vars, Private!updating, Private!playing, Private!entries,
       Private!history, CallTypes, Private!TypeOK, Entries
<1> QED
  BY <1>1, UserTypes, HandlerTypes, PlayerTypes DEF Private!Next
(* What holds while updates come in order.  The assistant has called       *)
(* nobody; a player has a configuration of its call, which is the one that *)
(* was noted last, and so there is one player only; what it has received   *)
(* tells that the PhoneCall is kept.                                       *)
Answering ==
    /\ ~crashed
    /\ \A p \in DOMAIN configs : ~configs[p].out
    /\ \A k \in DOMAIN calls : ~calls[k].out
    /\ \A k \in Private!Calls :
          /\ handler[<<k, "waiting">>] = "none" /\ handler[<<k, "accepted">>] = "none"
          /\ handler[<<k, "requested">>] # "send"
          /\ handler[<<k, "requested">>] = "config" => p2pConfigs = None /\ inputCalls = k
          /\ handler[<<k, "obj">>] = "send" =>
                sends[<<k, "obj">>] # None /\ configs[sends[<<k, "obj">>]].pc
    /\ \A k \in Private!Calls :
          /\ Private!Working(k) =>
                p2pConfigs # None /\ inputCalls = k /\ player[k] \notin {"request", "confirm"}
          /\ player[k] = "wait" => waitData[k] = p2pConfigs
          /\ player[k] \in {"keys", "connect"} => configs[p2pConfigs].pc

(* A hang-up is handled after the call's request, and cleans up when no    *)
(* player is at work; whose call is noted has not been cleaned up.         *)
Leaving ==
    /\ p2pConfigs # None => abandoned \/ \E k \in Private!Calls : Private!Working(k)
    /\ \A k \in Private!Calls : handler[<<k, "discarded">>] = "cleanup" =>
          \A j \in Private!Calls : ~Private!Working(j) /\ handler[<<j, "requested">>] # "config"
    /\ \A k \in DOMAIN calls : handler[<<k, "requested">>] # "none"
    /\ \A k \in Private!Calls : handler[<<k, "discarded">>] \notin {"none", "start"} =>
          handler[<<k, "requested">>] = "done"
    /\ inputCalls # None => handler[<<inputCalls, "discarded">>] # "done"
    /\ bound => inputCalls # None

CallInv == CallTypes /\ (orderly => Answering /\ Leaving)

LEMMA UserAnswers ==
    ASSUME CallTypes, Answering, Leaving, Private!UserStep
    PROVE  Answering' /\ Leaving'
<1> USE CallNumbers
<1>1. Private!TypeOK /\ {"requested", "waiting", "accepted", "obj", "discarded"} \subseteq Private!Kinds
  BY DEF CallTypes, Private!Kinds
<1>2. UNCHANGED <<sends, configs, p2pConfigs, inputCalls, bound, player, waitData, abandoned, crashed>>
  BY DEF Private!UserStep, Private!Dial, Private!Confirmed, Private!Answer, Private!HangUp,
         Private!User, Private!entries, Private!playing, Private!history
<1>3. DOMAIN calls \subseteq Private!Calls
  BY <1>1, LenProperties DEF Private!TypeOK, Private!Calls
<1>4. ASSUME NEW k \in Private!Calls, NEW kind \in {"requested", "obj", "discarded"},
             handler' = [handler EXCEPT ![<<k, kind>>] = "start"],
             kind = "requested" => k \notin DOMAIN calls,
             DOMAIN calls' = DOMAIN calls \cup {k},
             kind # "requested" => k \in DOMAIN calls,
             \A j \in DOMAIN calls' : ~calls'[j].out
      PROVE  Answering' /\ Leaving'
  <2>1. "start" \in Private!HandlerLabels
    BY DEF Private!HandlerLabels
  <2>2. /\ handler'[<<k, kind>>] = "start"
        /\ \A j \in Private!Calls, kd \in Private!Kinds :
              j # k \/ kd # kind => handler'[<<j, kd>>] = handler[<<j, kd>>]
    BY <1>1, <1>4, <2>1, HandlerMoves
  <2>3. kind = "requested" => \A kd \in Private!Kinds : handler[<<k, kd>>] = "none"
    BY <1>4 DEF CallTypes, Entries
  <2>4. \A j \in Private!Calls : Private!Working(j)' <=> Private!Working(j)
    BY <1>2 DEF Private!Working
  <2>5. \A j \in Private!Calls : /\ handler'[<<j, "waiting">>] = handler[<<j, "waiting">>]
                                 /\ handler'[<<j, "accepted">>] = handler[<<j, "accepted">>]
    BY <1>1, <1>4, <2>2
  <2>6. \A j \in Private!Calls :
           /\ handler'[<<j, "requested">>] = "config" <=> handler[<<j, "requested">>] = "config"
           /\ handler'[<<j, "requested">>] = "send" => handler[<<j, "requested">>] = "send"
           /\ handler'[<<j, "obj">>] = "send" => handler[<<j, "obj">>] = "send"
           /\ handler'[<<j, "discarded">>] \in {handler[<<j, "discarded">>], "start"}
           /\ handler[<<j, "requested">>] = "done" => handler'[<<j, "requested">>] = "done"
    <3>1. \A j \in Private!Calls : handler[<<j, "requested">>] \in {"done", "config"} =>
             handler'[<<j, "requested">>] = handler[<<j, "requested">>]
      BY <1>1, <2>2, <2>3
    <3> QED
      BY <1>1, <2>2, <3>1
  <2>7. Answering'
    BY <1>2, <1>3, <1>4, <2>4, <2>5, <2>6 DEF Answering
  <2>8. \A j \in DOMAIN calls' : handler'[<<j, "requested">>] # "none"
    BY <1>1, <1>3, <1>4, <2>2 DEF Leaving
  <2>9. inputCalls # None => inputCalls \in Private!Calls
    BY <1>1 DEF Private!TypeOK
  <2>10. Leaving'
    BY <1>2, <2>4, <2>6, <2>8, <2>9 DEF Leaving
  <2> QED
    BY <2>7, <2>10
<1>5. CASE Private!Dial
  <2>1. /\ Len(calls') \in Private!Calls /\ Len(calls') \notin DOMAIN calls
        /\ DOMAIN calls' = DOMAIN calls \cup {Len(calls')}
        /\ \A j \in DOMAIN calls : calls'[j] = calls[j]
        /\ calls'[Len(calls')].out = FALSE
    BY <1>1, <1>5, CallAdded DEF Private!Dial
  <2>2. handler' = [handler EXCEPT ![<<Len(calls'), "requested">>] = "start"]
    BY <1>5 DEF Private!Dial, Private!Send
  <2>3. \A j \in DOMAIN calls' : ~calls'[j].out
    BY <2>1 DEF Answering
  <2> QED
    BY <1>4, <2>1, <2>2, <2>3
<1>6. CASE \E k \in DOMAIN calls : Private!Confirmed(k) \/ Private!Answer(k) \/ Private!HangUp(k)
  <2>1. PICK k \in DOMAIN calls, kind \in {"obj", "discarded"}, state \in Private!CallStates :
             Private!Now(k, state) /\ handler' = [handler EXCEPT ![<<k, kind>>] = "start"]
    BY <1>6 DEF Private!Confirmed, Private!Answer, Private!HangUp, Private!Send, Private!CallStates,
                Answering
  <2>2. DOMAIN calls' = DOMAIN calls /\ \A j \in DOMAIN calls : calls'[j].out = calls[j].out
    BY <1>1, <2>1, CallMoves
  <2>3. \A j \in DOMAIN calls' : ~calls'[j].out
    BY <2>2 DEF Answering
  <2> QED
    BY <1>3, <1>4, <2>1, <2>2, <2>3
<1> QED
  BY <1>5, <1>6 DEF Private!UserStep
(* What an orderly update finds: no other handler has something to do.     *)
LEMMA NonePending ==
    ASSUME NEW us \in SUBSET Private!Updates, ~Private!Pending(us)
    PROVE  \A k \in Private!Calls, kind \in Private!Kinds :
              <<k, kind>> \in us => handler[<<k, kind>>] \notin {"start", "config", "cleanup"}
  BY DEF Private!Pending

LEMMA HandlerAnswers ==
    ASSUME CallTypes, Answering, Leaving, NEW k \in Private!Calls, Private!HandlerStep(k), orderly'
    PROVE  Answering' /\ Leaving'
<1> USE CallNumbers
<1>1. Private!TypeOK /\ {"requested", "waiting", "accepted", "obj", "discarded"} \subseteq Private!Kinds
  BY DEF CallTypes, Private!Kinds
<1>2. UNCHANGED <<calls, waitData, abandoned, crashed>>
  BY DEF Private!HandlerStep, Private!Requested, Private!RequestedConfig, Private!Told,
         Private!Discarded, Private!Cleanup, Private!Handling, Private!playing, Private!history
<1>3. ASSUME NEW kind \in Private!Kinds, NEW l \in Private!HandlerLabels,
             Private!HandlerGoto(<<k, kind>>, l)
      PROVE  /\ handler'[<<k, kind>>] = l
             /\ \A j \in Private!Calls, kd \in Private!Kinds :
                   j # k \/ kd # kind => handler'[<<j, kd>>] = handler[<<j, kd>>]
  BY <1>1, <1>3, HandlerMoves DEF Private!HandlerGoto
<1>4. {"none", "start", "config", "send", "cleanup", "done"} = Private!HandlerLabels
  BY DEF Private!HandlerLabels
<1>5. /\ \A kd \in Private!Kinds : handler[<<k, kd>>] \in Private!HandlerLabels
      /\ \A kd \in Private!Kinds : handler[<<k, kd>>] # "none" => k \in DOMAIN calls
      /\ DOMAIN calls \subseteq Private!Calls
      /\ inputCalls # None => inputCalls \in Private!Calls
      /\ p2pConfigs \in DOMAIN configs \cup {None}
      /\ p2pConfigs \in Private!Places \cup {None}
  BY <1>1, LenProperties DEF CallTypes, Entries, Private!TypeOK, Private!Calls, Private!Places
<1> USE DEF Private!Handling, Private!entries, Private!playing, Private!history, Private!Deliver
<1>6. CASE Private!Requested(k)
  <2>1. /\ handler[<<k, "requested">>] = "start" /\ inputCalls' = k
        /\ UNCHANGED <<sends, configs, p2pConfigs, bound, player>>
        /\ Private!OrderlyRequest(k)
    BY <1>6 DEF Private!Requested
  <2>2. p2pConfigs = None /\ \A j \in Private!Calls : ~Private!Working(j)
    BY <2>1 DEF Private!OrderlyRequest
  <2>3. Private!HandlerGoto(<<k, "requested">>, "config")
    BY <1>6, <2>2 DEF Private!Requested
  <2>4. /\ handler'[<<k, "requested">>] = "config"
        /\ \A j \in Private!Calls, kd \in Private!Kinds :
              j # k \/ kd # "requested" => handler'[<<j, kd>>] = handler[<<j, kd>>]
    BY <1>1, <1>3, <1>4, <2>3
  <2> DEFINE Others == (Private!Calls \X Private!Kinds) \ {<<k, "requested">>}
  <2>5. ~Private!Pending(Others) /\ Others \subseteq Private!Updates
    BY <2>1 DEF Private!OrderlyRequest, Private!Updates
  <2>6. \A j \in Private!Calls, kd \in Private!Kinds :
           j # k \/ kd # "requested" => <<j, kd>> \in Others
    OBVIOUS
  <2> HIDE DEF Others
  <2>7. \A j \in Private!Calls, kd \in Private!Kinds :
           j # k \/ kd # "requested" => handler[<<j, kd>>] \notin {"start", "config", "cleanup"}
    BY <2>5, <2>6, NonePending
  <2>8. \A j \in Private!Calls : ~Private!Working(j)'
    BY <2>1, <2>2 DEF Private!Working
  <2>9. \A j \in Private!Calls : player'[j] \notin {"wait", "keys", "connect"}
    BY <2>8 DEF Private!Working
  <2>10. Answering'
    BY <1>1, <1>2, <2>1, <2>2, <2>4, <2>7, <2>8, <2>9 DEF Answering
  <2>11. handler[<<k, "discarded">>] \in {"none", "start"}
    BY <2>1 DEF Leaving
  <2>12. Leaving'
    <3>1. \A j \in Private!Calls : handler'[<<j, "discarded">>] = handler[<<j, "discarded">>]
      BY <1>1, <2>4
    <3>2. \A j \in Private!Calls : handler'[<<j, "discarded">>] # "cleanup"
      BY <1>1, <2>7, <3>1
    <3>3. \A j \in Private!Calls : j # k => handler'[<<j, "requested">>] = handler[<<j, "requested">>]
      BY <1>1, <2>4
    <3>4. inputCalls' # None /\ handler'[<<inputCalls', "discarded">>] # "done"
      <4>1. k \in Private!Places
        BY DEF Private!Calls, Private!Places
      <4> QED
        BY <2>1, <2>11, <3>1, <4>1
    <3> QED
      BY <1>2, <1>5, <2>1, <2>2, <2>4, <2>11, <3>1, <3>2, <3>3, <3>4 DEF Leaving
  <2> QED
    BY <2>10, <2>12
<1>7. CASE Private!RequestedConfig(k)
  <2>1. /\ handler[<<k, "requested">>] = "config" /\ Private!HandlerGoto(<<k, "requested">>, "done")
        /\ UNCHANGED <<sends, inputCalls, bound>>
    BY <1>7 DEF Private!RequestedConfig
  <2>2. /\ p2pConfigs = None /\ inputCalls = k
        /\ \A j \in Private!Calls : ~Private!Working(j)
        /\ \A j \in Private!Calls : j # k => handler[<<j, "requested">>] # "config"
        /\ \A j \in Private!Calls : handler[<<j, "discarded">>] # "cleanup"
    BY <2>1 DEF Answering, Leaving
  <2>3. /\ handler'[<<k, "requested">>] = "done"
        /\ \A j \in Private!Calls, kd \in Private!Kinds :
              j # k \/ kd # "requested" => handler'[<<j, kd>>] = handler[<<j, kd>>]
    BY <1>1, <1>3, <1>4, <2>1
  <2>4. \A j \in Private!Calls :
           /\ handler'[<<j, "requested">>] \notin {"config", "none"} \/ handler'[<<j, "requested">>] = handler[<<j, "requested">>]
           /\ handler'[<<j, "requested">>] \notin {"config", "send"}
           /\ handler[<<j, "requested">>] = "done" => handler'[<<j, "requested">>] = "done"
           /\ handler'[<<j, "waiting">>] = handler[<<j, "waiting">>]
           /\ handler'[<<j, "accepted">>] = handler[<<j, "accepted">>]
           /\ handler'[<<j, "obj">>] = handler[<<j, "obj">>]
           /\ handler'[<<j, "discarded">>] = handler[<<j, "discarded">>]
    BY <1>1, <2>2, <2>3 DEF Answering
  <2>5. \A j \in DOMAIN calls : handler'[<<j, "requested">>] # "none"
    BY <1>5, <2>3, <2>4 DEF Leaving
  <2>6. CASE UNCHANGED <<configs, p2pConfigs, player>>
    <3>1. Answering'
      BY <1>2, <2>1, <2>4, <2>6 DEF Answering, Private!Working
    <3>2. Leaving'
      BY <1>2, <1>5, <2>1, <2>2, <2>4, <2>5, <2>6 DEF Leaving
    <3> QED
      BY <3>1, <3>2
  <2>7. CASE /\ configs' = Append(configs, [out |-> FALSE, pc |-> FALSE])
             /\ p2pConfigs' = Len(configs')
             /\ player' = [player EXCEPT ![k] = "prepare"]
    <3>1. /\ configs' \in Seq(Private!P2PConfig) /\ Len(configs') = Len(configs) + 1
          /\ DOMAIN configs' = DOMAIN configs \cup {Len(configs')}
          /\ \A q \in DOMAIN configs : configs'[q] = configs[q]
          /\ configs'[Len(configs')].out = FALSE
      BY <1>1, <2>7, ConfigAdded
    <3>2. p2pConfigs' # None
      <4>1. Private!TypeOK'
        BY HandlerTypes DEF CallTypes
      <4>2. Len(configs') \in Nat /\ Len(configs') <= 2 * MaxCalls /\ Len(configs') >= 1
        BY <1>1, <3>1, <4>1 DEF Private!TypeOK
      <4>3. Len(configs') \in Private!Places
        BY <4>2 DEF Private!Places
      <4> QED
        BY <2>7, <4>3
    <3>3. /\ player'[k] = "prepare"
          /\ \A j \in Private!Calls : j # k => player'[j] = player[j] /\ ~Private!Working(j)'
      BY <1>1, <2>2, <2>7 DEF Private!TypeOK, Private!Working
    <3>4. \A j \in Private!Calls : player'[j] \notin {"wait", "keys", "connect"}
      BY <3>3 DEF Private!Working
    <3>5. \A j \in Private!Calls : handler[<<j, "obj">>] = "send" =>
             /\ sends[<<j, "obj">>] \in DOMAIN configs
             /\ configs'[sends[<<j, "obj">>]].pc
      <4>1. \A j \in Private!Calls : sends[<<j, "obj">>] \in DOMAIN configs \cup {None}
        BY <1>1 DEF CallTypes, Entries
      <4> QED
        BY <3>1, <4>1 DEF Answering
    <3>6. \A p \in DOMAIN configs' : ~configs'[p].out
      BY <3>1 DEF Answering
    <3>7. \A j \in Private!Calls : Private!Working(j)' =>
              p2pConfigs' # None /\ inputCalls' = j /\ player'[j] \notin {"request", "confirm"}
      BY <2>1, <2>2, <3>2, <3>3
    <3>8. \A j \in Private!Calls : handler'[<<j, "obj">>] = "send" =>
              sends'[<<j, "obj">>] # None /\ configs'[sends'[<<j, "obj">>]].pc
      BY <2>1, <2>4, <3>5 DEF Answering
    <3>9. Answering'
      BY <1>2, <2>4, <3>4, <3>6, <3>7, <3>8 DEF Answering
    <3>10. Private!Working(k)'
      BY <3>3 DEF Private!Working
    <3>11. Leaving'
      BY <1>2, <1>5, <2>1, <2>2, <2>4, <2>5, <3>10 DEF Leaving
    <3> QED
      BY <3>9, <3>11
  <2> QED
    BY <1>7, <2>2, <2>6, <2>7 DEF Private!RequestedConfig
<1>8. CASE \E kind \in Private!Kinds : Private!Told(k, kind)
  <2>1. handler[<<k, "obj">>] = "start" /\ Private!Told(k, "obj")
    BY <1>8 DEF Private!Told, Answering
  <2>2. UNCHANGED <<inputCalls, p2pConfigs, bound, player>>
    BY <2>1 DEF Private!Told
  <2>3. /\ IF p2pConfigs = None
           THEN Private!HandlerGoto(<<k, "obj">>, "done") /\ sends' = sends
           ELSE /\ Private!HandlerGoto(<<k, "obj">>, "send")
                /\ sends' = [sends EXCEPT ![<<k, "obj">>] = p2pConfigs]
        /\ configs' = IF p2pConfigs # None THEN [configs EXCEPT ![p2pConfigs].pc = TRUE] ELSE configs
    BY <2>1 DEF Private!Told
  <2>4. /\ handler'[<<k, "obj">>] \in {"done", "send"}
        /\ handler'[<<k, "obj">>] = "send" =>
              p2pConfigs # None /\ sends' = [sends EXCEPT ![<<k, "obj">>] = p2pConfigs]
        /\ \A j \in Private!Calls, kd \in Private!Kinds :
              j # k \/ kd # "obj" => handler'[<<j, kd>>] = handler[<<j, kd>>]
    BY <1>1, <1>3, <1>4, <2>3
  <2>5. /\ DOMAIN configs' = DOMAIN configs
        /\ \A p \in DOMAIN configs : configs'[p].out = configs[p].out
        /\ \A p \in DOMAIN configs : configs[p].pc => configs'[p].pc
        /\ p2pConfigs # None => configs'[p2pConfigs].pc
    <3>1. CASE p2pConfigs = None
      BY <2>3, <3>1
    <3>2. CASE p2pConfigs # None
      BY <1>1, <1>5, <2>3, <3>2, ConfigMoves
    <3> QED
      BY <3>1, <3>2
  <2>6. \A j \in Private!Calls : handler'[<<j, "obj">>] = "send" =>
           sends'[<<j, "obj">>] # None /\ configs'[sends'[<<j, "obj">>]].pc
    <3> SUFFICES ASSUME NEW j \in Private!Calls, handler'[<<j, "obj">>] = "send"
                 PROVE  sends'[<<j, "obj">>] # None /\ configs'[sends'[<<j, "obj">>]].pc
      OBVIOUS
    <3>1. CASE j = k
      <4>1. p2pConfigs # None /\ sends' = [sends EXCEPT ![<<k, "obj">>] = p2pConfigs]
        BY <2>4, <3>1
      <4>2. <<k, "obj">> \in DOMAIN sends
        BY <1>1 DEF Private!TypeOK
      <4> QED
        BY <2>5, <3>1, <4>1, <4>2
    <3>2. CASE j # k
      <4>1. handler[<<j, "obj">>] = "send"
        BY <1>1, <2>4, <3>2
      <4>2. sends'[<<j, "obj">>] = sends[<<j, "obj">>]
        BY <1>1, <1>5, <2>3, <3>2, SendsMove
      <4>3. sends[<<j, "obj">>] \in DOMAIN configs \cup {None}
        BY <1>1 DEF CallTypes, Entries
      <4> QED
        BY <2>5, <4>1, <4>3, <4>2 DEF Answering
    <3> QED
      BY <3>1, <3>2
  <2>7. \A j \in Private!Calls : /\ handler'[<<j, "requested">>] = handler[<<j, "requested">>]
                                 /\ handler'[<<j, "waiting">>] = handler[<<j, "waiting">>]
                                 /\ handler'[<<j, "accepted">>] = handler[<<j, "accepted">>]
                                 /\ handler'[<<j, "discarded">>] = handler[<<j, "discarded">>]
    BY <1>1, <2>4
  <2>8. Answering'
    <3>1. \A j \in Private!Calls : player[j] \in {"keys", "connect"} => configs'[p2pConfigs].pc
      BY <1>5, <2>5 DEF Answering, Private!Working
    <3>2. \A j \in Private!Calls : Private!Working(j)' <=> Private!Working(j)
      BY <2>2 DEF Private!Working
    <3>3. \A p \in DOMAIN configs' : ~configs'[p].out
      BY <2>5 DEF Answering
    <3> QED
      BY <1>2, <2>2, <2>6, <2>7, <3>1, <3>2, <3>3 DEF Answering
  <2>9. Leaving'
    BY <1>2, <1>5, <2>2, <2>7 DEF Leaving, Private!Working
  <2> QED
    BY <2>8, <2>9
<1>9. CASE Private!Discarded(k)
  <2>1. /\ handler[<<k, "discarded">>] = "start"
        /\ UNCHANGED <<configs, p2pConfigs, inputCalls, bound, player>>
        /\ ~Private!Pending({k} \X (Private!Kinds \ {"discarded"}))
    BY <1>9 DEF Private!Discarded
  <2>2. PICK l \in {"done", "cleanup", "send"} :
           /\ Private!HandlerGoto(<<k, "discarded">>, l)
           /\ l = "done" => inputCalls # k
           /\ l = "cleanup" => inputCalls = k /\ p2pConfigs = None
           /\ sends' = sends \/ sends' = [sends EXCEPT ![<<k, "discarded">>] = p2pConfigs]
    BY <1>9 DEF Private!Discarded
  <2>3. /\ handler'[<<k, "discarded">>] = l
        /\ \A j \in Private!Calls, kd \in Private!Kinds :
              j # k \/ kd # "discarded" => handler'[<<j, kd>>] = handler[<<j, kd>>]
    BY <1>1, <1>3, <1>4, <2>2
  <2>4. handler[<<k, "requested">>] = "done"
    <3>1. {k} \X (Private!Kinds \ {"discarded"}) \subseteq Private!Updates
      BY DEF Private!Updates
    <3>2. handler[<<k, "requested">>] \notin {"start", "config", "cleanup"}
      BY <1>1, <2>1, <3>1, NonePending
    <3>3. handler[<<k, "requested">>] \notin {"none", "send"}
      BY <1>1, <1>5, <2>1 DEF Leaving, Answering
    <3> QED
      BY <1>1, <1>4, <1>5, <3>2, <3>3
  <2>5. \A j \in Private!Calls : /\ handler'[<<j, "requested">>] = handler[<<j, "requested">>]
                                 /\ handler'[<<j, "waiting">>] = handler[<<j, "waiting">>]
                                 /\ handler'[<<j, "accepted">>] = handler[<<j, "accepted">>]
                                 /\ handler'[<<j, "obj">>] = handler[<<j, "obj">>]
    BY <1>1, <2>3
  <2>6. \A j \in Private!Calls : sends'[<<j, "obj">>] = sends[<<j, "obj">>]
    BY <1>1, <1>5, <2>2, SendsMove
  <2>7. \A j \in Private!Calls : Private!Working(j)' <=> Private!Working(j)
    BY <2>1 DEF Private!Working
  <2>8. Answering'
    BY <1>2, <2>1, <2>5, <2>6, <2>7 DEF Answering
  <2>9. l = "cleanup" => \A j \in Private!Calls :
                            ~Private!Working(j) /\ handler[<<j, "requested">>] # "config"
    BY <2>2, <2>4 DEF Answering
  <2>10. \A j \in Private!Calls : j # k => handler'[<<j, "discarded">>] = handler[<<j, "discarded">>]
    BY <1>1, <2>3
  <2>11. Leaving'
    <3>1. \A j \in Private!Calls : handler'[<<j, "discarded">>] = "cleanup" =>
             \A i \in Private!Calls : ~Private!Working(i)' /\ handler'[<<i, "requested">>] # "config"
      <4>1. \A j \in Private!Calls : handler'[<<j, "discarded">>] = "cleanup" =>
               \A i \in Private!Calls : ~Private!Working(i) /\ handler[<<i, "requested">>] # "config"
        BY <2>3, <2>9, <2>10 DEF Leaving
      <4> QED
        BY <2>5, <2>7, <4>1
    <3>2. \A j \in Private!Calls : handler'[<<j, "discarded">>] \notin {"none", "start"} =>
             handler'[<<j, "requested">>] = "done"
      BY <2>4, <2>5, <2>10 DEF Leaving
    <3>3. inputCalls # None => handler'[<<inputCalls, "discarded">>] # "done"
      <4>1. CASE inputCalls = k
        BY <2>2, <2>3, <4>1
      <4>2. CASE inputCalls # k
        BY <1>5, <2>10, <4>2 DEF Leaving
      <4> QED
        BY <4>1, <4>2
    <3>4. p2pConfigs # None => abandoned \/ \E j \in Private!Calls : Private!Working(j)'
      BY <2>7 DEF Leaving
    <3>5. \A j \in DOMAIN calls : handler'[<<j, "requested">>] # "none"
      BY <1>5, <2>5 DEF Leaving
    <3> QED
      BY <1>2, <2>1, <3>1, <3>2, <3>3, <3>4, <3>5 DEF Leaving
  <2> QED
    BY <2>11, <2>8
<1>10. CASE Private!Cleanup(k)
  <2>1. /\ handler[<<k, "discarded">>] = "cleanup" /\ inputCalls' = None /\ bound' = FALSE
        /\ Private!HandlerGoto(<<k, "discarded">>, "done")
        /\ UNCHANGED <<sends, configs, p2pConfigs, player>>
    BY <1>10 DEF Private!Cleanup
  <2>2. \A j \in Private!Calls : ~Private!Working(j) /\ handler[<<j, "requested">>] # "config"
    BY <2>1 DEF Leaving
  <2>3. /\ handler'[<<k, "discarded">>] = "done"
        /\ \A j \in Private!Calls, kd \in Private!Kinds :
              j # k \/ kd # "discarded" => handler'[<<j, kd>>] = handler[<<j, kd>>]
    BY <1>1, <1>3, <1>4, <2>1
  <2>4. \A j \in Private!Calls : /\ handler'[<<j, "requested">>] = handler[<<j, "requested">>]
                                 /\ handler'[<<j, "waiting">>] = handler[<<j, "waiting">>]
                                 /\ handler'[<<j, "accepted">>] = handler[<<j, "accepted">>]
                                 /\ handler'[<<j, "obj">>] = handler[<<j, "obj">>]
    BY <1>1, <2>3
  <2>5. \A j \in Private!Calls : ~Private!Working(j)'
    BY <2>1, <2>2 DEF Private!Working
  <2>6. Answering'
    BY <1>2, <2>1, <2>2, <2>4, <2>5 DEF Answering
  <2>7. \A j \in Private!Calls : handler'[<<j, "discarded">>] \notin {"none", "start"} =>
           handler[<<j, "discarded">>] \notin {"none", "start"}
    BY <1>1, <2>1, <2>3
  <2>8. Leaving'
    BY <1>2, <1>5, <2>1, <2>2, <2>4, <2>5, <2>7 DEF Leaving
  <2> QED
    BY <2>6, <2>8
<1> QED
  BY <1>6, <1>7, <1>8, <1>9, <1>10 DEF Private!HandlerStep
(* What the player at work finds, and knows.                               *)
LEMMA PlayerAlone ==
    ASSUME CallTypes, Answering, Leaving, NEW k \in Private!Calls, Private!Working(k)
    PROVE  /\ p2pConfigs \in DOMAIN configs /\ ~configs[p2pConfigs].out /\ p2pConfigs # None
           /\ inputCalls = k /\ k # None /\ k \in DOMAIN calls /\ ~calls[k].out
           /\ player[k] \notin {"request", "confirm"}
           /\ \A j \in Private!Calls : Private!Working(j) => j = k
           /\ \A j \in Private!Calls : /\ handler[<<j, "requested">>] # "config"
                                       /\ handler[<<j, "discarded">>] # "cleanup"
<1> USE CallNumbers
<1>1. k # None
  BY DEF Private!Calls, Private!Places
<1>2. p2pConfigs \in DOMAIN configs \cup {None} /\ inputCalls \in DOMAIN calls \cup {None}
  BY DEF CallTypes, Entries, Private!TypeOK
<1> QED
  BY <1>1, <1>2 DEF Answering, Leaving

(* Steps of the player at work that leave the updates alone.               *)
LEMMA PlayerQuiet ==
    ASSUME CallTypes, Answering, Leaving, NEW k \in Private!Calls, Private!Working(k),
           UNCHANGED <<handler, sends, configs, inputCalls, orderly, crashed>>,
           DOMAIN calls' = DOMAIN calls, \A j \in DOMAIN calls : calls'[j].out = calls[j].out,
           \A j \in Private!Calls : j # k => player'[j] = player[j],
           player'[k] \notin {"none", "request", "confirm"},
           p2pConfigs' = p2pConfigs \/ p2pConfigs' = None,
           p2pConfigs' # None => abandoned' \/ player'[k] # "done",
           p2pConfigs' = None => player'[k] = "done",
           player'[k] = "wait" => waitData'[k] = p2pConfigs',
           player'[k] \in {"keys", "connect"} => configs[p2pConfigs].pc
    PROVE  Answering' /\ Leaving'
<1>1. /\ p2pConfigs # None /\ inputCalls = k /\ k # None
      /\ \A j \in Private!Calls : Private!Working(j) => j = k
      /\ \A j \in Private!Calls : /\ handler[<<j, "requested">>] # "config"
                                  /\ handler[<<j, "discarded">>] # "cleanup"
  BY PlayerAlone
<1>2. \A j \in Private!Calls : j # k => ~Private!Working(j)'
  BY <1>1 DEF Private!Working
<1>3. \A j \in Private!Calls : j # k => player'[j] \notin {"wait", "keys", "connect"}
  BY <1>2 DEF Private!Working
<1>4. Private!Working(k)' <=> player'[k] # "done"
  BY DEF Private!Working
<1>5. Answering'
  BY <1>1, <1>2, <1>3, <1>4 DEF Answering
<1>6. Leaving'
  BY <1>1, <1>2, <1>4 DEF Leaving
<1> QED
  BY <1>5, <1>6
LEMMA ReceiveAnswers ==
    ASSUME CallTypes, Answering, Leaving, NEW k \in Private!Calls, Private!Receive(k)
    PROVE  Answering' /\ Leaving'
<1> USE CallNumbers
<1>1. /\ Private!TypeOK /\ {"requested", "waiting", "accepted", "obj", "discarded"} \subseteq Private!Kinds
      /\ {"done", "cleanup"} \subseteq Private!HandlerLabels
  BY DEF CallTypes, Private!Kinds, Private!HandlerLabels
<1>2. /\ player[k] = "wait" /\ Private!Working(k)
      /\ UNCHANGED <<calls, configs, inputCalls, bound, orderly, abandoned, crashed>>
  BY DEF Private!Receive, Private!Working, Private!history
<1>3. /\ p2pConfigs # None /\ inputCalls = k /\ k # None
      /\ \A j \in Private!Calls : Private!Working(j) => j = k
      /\ \A j \in Private!Calls : /\ handler[<<j, "requested">>] # "config"
                                  /\ handler[<<j, "discarded">>] # "cleanup"
  BY <1>2, PlayerAlone
<1>4. PICK i \in Private!Calls, kind \in Private!Kinds :
         /\ handler[<<i, kind>>] = "send" /\ sends[<<i, kind>>] = waitData[k]
         /\ sends' = [sends EXCEPT ![<<i, kind>>] = None]
         /\ IF kind = "discarded"
            THEN Private!HandlerGoto(<<i, kind>>, "cleanup") /\ Private!Finish(k)
            ELSE /\ Private!HandlerGoto(<<i, kind>>, "done") /\ Private!PlayerGoto(k, "keys")
                 /\ UNCHANGED <<waitData, p2pConfigs>>
  <2>1. PICK u \in Private!Updates :
           /\ handler[u] = "send" /\ sends[u] = waitData[k] /\ sends' = [sends EXCEPT ![u] = None]
           /\ IF u[2] = "discarded"
              THEN Private!HandlerGoto(u, "cleanup") /\ Private!Finish(k)
              ELSE /\ Private!HandlerGoto(u, "done") /\ Private!PlayerGoto(k, "keys")
                   /\ UNCHANGED <<waitData, p2pConfigs>>
    BY DEF Private!Receive
  <2>2. PICK i \in Private!Calls, kind \in Private!Kinds : u = <<i, kind>>
    BY <2>1 DEF Private!Updates
  <2> QED
    BY <2>1, <2>2
<1>5. kind \in {"obj", "discarded"}
  BY <1>4 DEF Answering, Private!Kinds
<1>6. /\ handler'[<<i, kind>>] = IF kind = "discarded" THEN "cleanup" ELSE "done"
      /\ \A j \in Private!Calls, kd \in Private!Kinds :
            j # i \/ kd # kind => handler'[<<j, kd>>] = handler[<<j, kd>>]
  BY <1>1, <1>4, HandlerMoves DEF Private!HandlerGoto
<1>7. \A j \in Private!Calls, kd \in Private!Kinds :
         j # i \/ kd # kind => sends'[<<j, kd>>] = sends[<<j, kd>>]
  BY <1>1, <1>4, SendsMove
<1>8. \A j \in Private!Calls :
         /\ handler'[<<j, "requested">>] = handler[<<j, "requested">>]
         /\ handler'[<<j, "waiting">>] = handler[<<j, "waiting">>]
         /\ handler'[<<j, "accepted">>] = handler[<<j, "accepted">>]
         /\ handler'[<<j, "obj">>] = "send" =>
               handler[<<j, "obj">>] = "send" /\ sends'[<<j, "obj">>] = sends[<<j, "obj">>]
  BY <1>1, <1>5, <1>6, <1>7
<1>9. \A j \in Private!Calls :
         \/ handler'[<<j, "discarded">>] = handler[<<j, "discarded">>]
         \/ /\ kind = "discarded" /\ handler[<<j, "discarded">>] = "send"
            /\ handler'[<<j, "discarded">>] = "cleanup"
  BY <1>1, <1>4, <1>5, <1>6
<1>10. /\ player'[k] = IF kind = "discarded" THEN "done" ELSE "keys"
       /\ \A j \in Private!Calls : j # k => player'[j] = player[j] /\ ~Private!Working(j)'
  BY <1>1, <1>3, <1>4 DEF Private!TypeOK, Private!Working, Private!Finish, Private!PlayerGoto
<1>11. Private!Working(k)' <=> kind # "discarded"
  BY <1>10 DEF Private!Working
<1>12. \A j \in Private!Calls : j # k => player'[j] \notin {"wait", "keys", "connect"}
  BY <1>10 DEF Private!Working
<1>13. kind # "discarded" => configs[p2pConfigs].pc /\ p2pConfigs' = p2pConfigs
  BY <1>2, <1>4, <1>5 DEF Answering
<1>14. Answering'
  <2>1. \A j \in Private!Calls : Private!Working(j)' =>
           p2pConfigs' # None /\ inputCalls' = j /\ player'[j] \notin {"request", "confirm"}
    BY <1>2, <1>3, <1>10, <1>11, <1>13
  <2>2. \A j \in Private!Calls : /\ player'[j] # "wait"
                                 /\ player'[j] \in {"keys", "connect"} => configs'[p2pConfigs'].pc
    BY <1>2, <1>10, <1>12, <1>13
  <2> QED
    BY <1>2, <1>3, <1>8, <2>1, <2>2 DEF Answering
<1>15. Leaving'
  <2>1. kind = "discarded" => p2pConfigs' = None
    BY <1>4 DEF Private!Finish
  <2>2. \A j \in Private!Calls : handler'[<<j, "discarded">>] = "cleanup" => kind = "discarded"
    BY <1>3, <1>9
  <2>3. \A j \in Private!Calls : handler'[<<j, "discarded">>] = "cleanup" =>
           \A h \in Private!Calls : ~Private!Working(h)' /\ handler'[<<h, "requested">>] # "config"
    BY <1>3, <1>8, <1>10, <1>11, <2>2
  <2>4. \A j \in Private!Calls : handler'[<<j, "discarded">>] \notin {"none", "start"} =>
           handler[<<j, "discarded">>] \notin {"none", "start"}
    BY <1>9
  <2>5. DOMAIN calls \subseteq Private!Calls
    BY <1>1, LenProperties DEF Private!TypeOK, Private!Calls
  <2>6. handler'[<<k, "discarded">>] # "done"
    BY <1>3, <1>9 DEF Leaving
  <2>7. p2pConfigs' # None => abandoned \/ \E j \in Private!Calls : Private!Working(j)'
    BY <1>11, <2>1
  <2>8. \A j \in Private!Calls : handler'[<<j, "discarded">>] \notin {"none", "start"} =>
           handler'[<<j, "requested">>] = "done"
    BY <1>8, <2>4 DEF Leaving
  <2>9. \A j \in DOMAIN calls : handler'[<<j, "requested">>] # "none"
    BY <1>8, <2>5 DEF Leaving
  <2> QED
    BY <1>2, <1>3, <2>3, <2>6, <2>7, <2>8, <2>9 DEF Leaving
<1> QED
  BY <1>14, <1>15

LEMMA PlayerAnswers ==
    ASSUME CallTypes, Answering, Leaving, NEW k \in Private!Calls, Private!PlayerStep(k)
    PROVE  Answering' /\ Leaving'
<1>1. /\ player \in [Private!Calls -> Private!PlayerLabels]
      /\ waitData \in [Private!Calls -> Private!Places \cup {None}]
  BY DEF CallTypes, Private!TypeOK
<1>2. CASE Private!Receive(k)
  BY <1>2, ReceiveAnswers
<1>3. CASE player[k] = "confirm" \/ player[k] = "request"
  BY <1>3 DEF Answering, Private!Working
<1> DEFINE Still == UNCHANGED <<handler, sends, configs, inputCalls, orderly, crashed>>
<1>4. ASSUME Private!Working(k), Still, Private!Finish(k), calls' = calls
      PROVE  Answering' /\ Leaving'
  BY <1>1, <1>4, PlayerQuiet DEF Private!Finish, Private!PlayerGoto
<1>5. ASSUME Private!Working(k), Still, NEW l \in Private!PlayerLabels, Private!PlayerGoto(k, l),
             calls' = calls, UNCHANGED p2pConfigs,
             l \notin {"none", "request", "confirm", "wait"},
             l = "done" => abandoned',
             l \in {"keys", "connect"} => configs[p2pConfigs].pc
      PROVE  Answering' /\ Leaving'
  <2>1. p2pConfigs # None
    BY <1>5, PlayerAlone
  <2> QED
    BY <1>1, <1>5, <2>1, PlayerQuiet DEF Private!PlayerGoto
<1> HIDE DEF Still
<1> USE DEF Private!PlayerLabels, Private!Working, Private!updating, Private!playing,
            Private!entries, Private!history
<1>6. CASE Private!Prepare(k)
  BY <1>4, <1>5, <1>6 DEF Private!Prepare, Still
<1>7. CASE Private!Play(k)
  BY <1>5, <1>7 DEF Private!Play, Still
<1>8. CASE Private!Config(k)
  <2>1. p2pConfigs # None
    BY <1>8, PlayerAlone DEF Private!Config
  <2> QED
    BY <1>5, <1>8, <2>1 DEF Private!Config, Still
<1>9. CASE Private!Create(k)
  BY <1>4, <1>5, <1>9 DEF Private!Create, Still
<1>10. CASE Private!Use(k)
  <2>1. /\ p2pConfigs # None /\ ~configs[p2pConfigs].out
        /\ player[k] \in {"keys", "connect"} => configs[p2pConfigs].pc
    BY <1>10, PlayerAlone DEF Private!Use, Answering
  <2> QED
    BY <1>4, <1>5, <1>10, <2>1 DEF Private!Use, Still
<1>11. CASE Private!AcceptOrCall(k)
  <2>1. /\ p2pConfigs # None /\ ~configs[p2pConfigs].out /\ inputCalls \in DOMAIN calls
    BY <1>11, PlayerAlone DEF Private!AcceptOrCall
  <2>2. Private!Accept(k) /\ Still /\ player[k] = "call"
    BY <1>11, <2>1 DEF Private!AcceptOrCall, Private!Accept, Private!Call, Still
  <2>3. CASE Private!Finish(k) /\ UNCHANGED calls
    BY <1>4, <2>2, <2>3
  <2>4. CASE Private!Now(inputCalls, "accepted") /\ Private!Await(k)
    <3>1. /\ DOMAIN calls' = DOMAIN calls
          /\ \A j \in DOMAIN calls : calls'[j].out = calls[j].out
      BY <2>1, <2>4, CallMoves DEF CallTypes, Private!CallStates
    <3>2. /\ player'[k] = "wait" /\ waitData'[k] = p2pConfigs /\ p2pConfigs' = p2pConfigs
          /\ \A j \in Private!Calls : j # k => player'[j] = player[j]
      BY <1>1, <2>4 DEF Private!Await, Private!PlayerGoto
    <3> QED
      BY <2>1, <2>2, <3>1, <3>2, PlayerQuiet DEF Still
  <2> QED
    BY <2>2, <2>3, <2>4 DEF Private!Accept
<1>12. CASE Private!TimeOut(k)
  BY <1>4, <1>12 DEF Private!TimeOut, Still
<1> QED
  BY <1>2, <1>3, <1>6, <1>7, <1>8, <1>9, <1>10, <1>11, <1>12
     DEF Private!PlayerStep, Private!Request, Private!Confirm

(* The inductive invariant of private calls: while updates come in order   *)
(* there is one player at most, with a configuration of the call that was  *)
(* noted last.                                                             *)
THEOREM CallInvCorrect == Private!Spec => []CallInv
<1>1. Private!Init => CallInv
  <2> SUFFICES ASSUME Private!Init PROVE CallInv
    OBVIOUS
  <2>1. CallTypes
    BY InitCalls
  <2>2. DOMAIN calls = {} /\ DOMAIN configs = {}
    <3>1. Len(calls) = 0 /\ Len(configs) = 0
      BY EmptySeq DEF Private!Init
    <3> QED
      BY <2>1, <3>1, LenProperties DEF CallTypes, Private!TypeOK
  <2>3. Answering /\ Leaving
    BY <2>2, CallNumbers
       DEF Private!Init, Answering, Leaving, Private!Working, Private!Kinds
  <2> QED
    BY <2>1, <2>3 DEF CallInv
<1>2. CallInv /\ [Private!Next]_(Private!vars) => CallInv'
  <2> SUFFICES ASSUME CallInv, [Private!Next]_(Private!vars), orderly'
               PROVE  CallInv'
    BY CallTypesKept DEF CallInv
  <2>1. CallTypes'
    BY CallTypesKept DEF CallInv
  <2>2. orderly
    BY DEF Private!Next, Private!UserStep, Private!HandlerStep, Private!PlayerStep,
       Private!Dial, Private!Confirmed, Private!Answer, Private!HangUp, Private!User,
       Private!Requested, Private!RequestedConfig, Private!Told, Private!Discarded,
       Private!Cleanup, Private!Handling, Private!Prepare, Private!Play, Private!Config,
       Private!Request, Private!Create, Private!Use, Private!AcceptOrCall, Private!Receive,
       Private!TimeOut, Private!Confirm, Private!vars, Private!history
  <2>3. Answering /\ Leaving /\ CallTypes
    BY <2>2 DEF CallInv
  <2>4. Answering' /\ Leaving'
    <3>1. CASE UNCHANGED Private!vars
      BY <2>3, <3>1 DEF Private!vars, Private!updating, Private!playing, Private!entries,
         Private!history, Answering, Leaving, Private!Working
    <3> QED
      BY <2>3, <3>1, UserAnswers, HandlerAnswers, PlayerAnswers DEF Private!Next
  <2> QED
    BY <2>1, <2>4 DEF CallInv
<1> QED
  BY <1>1, <1>2, PTL DEF Private!Spec

(* As long as a user's updates are handled in order, and a new call comes  *)
(* after the last one was dealt with, connectCall only ever answers calls  *)
(* and never makes one, and nobody uses a configuration that is not there. *)
THEOREM AnswersOnlyCorrect == Private!Spec => []AnswersOnly
<1>1. CallInv => AnswersOnly
  BY DEF CallInv, Answering, AnswersOnly, Private!AnswersOnly
<1> QED
  BY <1>1, CallInvCorrect, PTL

(* Then calls that are over and dealt with have left no call in the        *)
(* binding and no entry, and a configuration only where a player gave up   *)
(* before connectCall.                                                     *)
THEOREM NothingStaysCorrect == Private!Spec => []NothingStays
<1>1. CallInv => NothingStays
  <2> SUFFICES ASSUME CallInv, orderly,
                      \A k \in DOMAIN calls : handler[<<k, "discarded">>] = "done",
                      \A k \in Private!Calls : ~Private!Working(k)
               PROVE  ~bound /\ inputCalls = None /\ (p2pConfigs # None => abandoned)
    BY DEF NothingStays, Private!NothingStays
  <2>1. inputCalls \in DOMAIN calls \cup {None}
    BY DEF CallInv, CallTypes, Entries
  <2> QED
    BY <2>1 DEF CallInv, Leaving
<1> QED
  BY <1>1, CallInvCorrect, PTL
-----------------------------------------------------------------------------
(* The parts together.                                                     *)

(* While one part moves the others stand still: a run of MCTasks is one of *)
(* each part, and each theorem about a part holds in it.                   *)
THEOREM PartsCorrect == MCSpec => Spec /\ Rtmp!Spec /\ Private!Spec /\ Files!Spec
<1> DEFINE all == <<part, broadcastVars, streamVars, callVars, fileVars>>
<1>1. MCInit => Init /\ Rtmp!Init /\ Private!Init /\ Files!Init
  BY DEF MCInit
<1>2. [MCNext]_all => /\ [Next]_vars
                      /\ [Rtmp!Next]_(Rtmp!vars)
                      /\ [Private!Next]_(Private!vars)
                      /\ [Files!Next]_(Files!vars)
  <2> SUFFICES ASSUME [MCNext]_all
               PROVE  /\ [Next]_vars /\ [Rtmp!Next]_(Rtmp!vars)
                      /\ [Private!Next]_(Private!vars) /\ [Files!Next]_(Files!vars)
    OBVIOUS
  <2>1. UNCHANGED broadcastVars => UNCHANGED vars
    BY DEF broadcastVars, vars, flags
  <2>2. UNCHANGED streamVars => UNCHANGED Rtmp!vars
    BY DEF streamVars, Rtmp!vars, Rtmp!locals, Rtmp!goroutines
  <2>3. UNCHANGED callVars => UNCHANGED Private!vars
    BY DEF callVars, Private!vars, Private!updating, Private!entries, Private!playing, Private!history
  <2>4. UNCHANGED fileVars => UNCHANGED Files!vars
    BY DEF fileVars, Files!vars
  <2> QED
    BY <2>1, <2>2, <2>3, <2>4 DEF MCNext, Broadcasting, Streaming, Calling, Downloading
<1> QED
  BY <1>1, <1>2, PTL DEF MCSpec, Spec, Rtmp!Spec, Private!Spec, Files!Spec

(* The types of all parts, whichever of them moves: for private calls that *)
(* no more configurations are made than two for each call.                 *)
THEOREM TypesCorrect == MCSpec => []TypesOK
<1>1. TypeOK /\ StreamInv /\ CallInv /\ FileInv => TypesOK
  BY DEF TypesOK, StreamInv, CallInv, CallTypes, FileInv
<1> QED
  BY <1>1, PartsCorrect, BroadcastInvCorrect, StreamInvCorrect, CallInvCorrect, FileInvCorrect, PTL
=============================================================================
