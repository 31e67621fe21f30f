-------------------------- MODULE BroadcastProofs --------------------------
(***************************************************************************)
(* Proofs about Broadcast, for every number of goroutines, workers and     *)
(* targets.                                                                *)
(***************************************************************************)
EXTENDS Broadcast, FiniteSetTheorems, TLAPS

(* While a broadcast is under way nobody else has got past the test, and   *)
(* the flag says so.                                                       *)
Exclusive ==
    apart => \A b \in Broadcasts : Running(b) =>
        /\ broadcastInProgress
        /\ \A c \in Broadcasts \ {b} : stage[c] = "idle"

(* A target is in one place at a time, and none is anywhere before the     *)
(* targets are counted; the workers of a broadcast outlive its handler's   *)
(* loop, not its report.                                                   *)
Conserved(b) ==
    LET j == jobs[b]
    IN /\ j.unsent + j.queued + j.sending + j.success + j.failed = j.total
       /\ stage[b] \notin {"send", "deferred"} => j = NoJobs
       /\ stage[b] = "deferred" => j.unsent = 0 /\ j.queued = 0 /\ j.sending = 0

(* One element for every message that a worker has in hand.                *)
InHand == {p \in Broadcasts \X (1..Workers) : p[2] <= jobs[p[1]].sending}

(* The most that a cancel may still let through: a message delivered since *)
(* then was in hand at the cancel, and nobody takes another.               *)
Allowed == Workers * IF apart THEN 1 ELSE Cardinality(Broadcasts)

CancelCounts ==
    /\ ~broadcastCancelFlag => late = 0
    /\ broadcastCancelFlag => late + Cardinality(InHand) <= Allowed

BroadcastInv ==
    /\ Exclusive
    /\ \A b \in Broadcasts : Conserved(b)
    /\ CancelCounts

-----------------------------------------------------------------------------
(* Types, and where the targets are.                                       *)

LEMMA FieldTypes ==
    ASSUME TypeOK, NEW b \in Broadcasts
    PROVE  /\ jobs[b] \in Jobs
           /\ jobs[b].total \in Nat /\ jobs[b].total <= MaxTargets
           /\ jobs[b].unsent \in Nat /\ jobs[b].queued \in Nat /\ jobs[b].sending \in Nat
           /\ jobs[b].queued <= Workers /\ jobs[b].sending <= Workers
           /\ jobs[b].success \in Nat /\ jobs[b].failed \in Nat
  BY BroadcastAssumption DEF TypeOK, Jobs

LEMMA NoJobsType ==
    /\ NoJobs \in Jobs
    /\ NoJobs.total = 0 /\ NoJobs.unsent = 0 /\ NoJobs.queued = 0
    /\ NoJobs.sending = 0 /\ NoJobs.success = 0 /\ NoJobs.failed = 0
  BY BroadcastAssumption DEF NoJobs, Jobs

(* A step that gives b the targets j, and may take its handler to s.       *)
LEMMA OneMoves ==
    ASSUME TypeOK, NEW b \in Broadcasts, NEW j \in Jobs, NEW s \in Stages,
           \A c \in Broadcasts : Conserved(c),
           jobs' = [jobs EXCEPT ![b] = j],
           stage' = [stage EXCEPT ![b] = s],
           j.unsent + j.queued + j.sending + j.success + j.failed = j.total,
           s \notin {"send", "deferred"} => j = NoJobs,
           s = "deferred" => j.unsent = 0 /\ j.queued = 0 /\ j.sending = 0
    PROVE  /\ jobs' \in [Broadcasts -> Jobs]
           /\ stage' \in [Broadcasts -> Stages]
           /\ \A c \in Broadcasts : Conserved(c)'
<1>1. jobs' \in [Broadcasts -> Jobs] /\ stage' \in [Broadcasts -> Stages]
  BY DEF TypeOK
<1>2. ASSUME NEW c \in Broadcasts PROVE Conserved(c)'
  <2>1. CASE c = b
    <3>1. jobs'[c] = j /\ stage'[c] = s
      BY <2>1 DEF TypeOK
    <3> QED
      BY <3>1 DEF Conserved
  <2>2. CASE c # b
    <3>1. jobs'[c] = jobs[c] /\ stage'[c] = stage[c]
      BY <2>2 DEF TypeOK
    <3> QED
      BY <3>1 DEF Conserved
  <2> QED
    BY <2>1, <2>2
<1> QED
  BY <1>1, <1>2

(* Every step keeps the types and the targets.                             *)
TargetsKept == TypeOK' /\ \A c \in Broadcasts : Conserved(c)'

(* The handler goes on, or a broadcast ends.                               *)
LEMMA HandlerKeeps ==
    ASSUME TypeOK, \A c \in Broadcasts : Conserved(c), NEW b \in Broadcasts,
           Load(b) \/ Start(b) \/ Parse(b) \/ Reset(b) \/ Targets(b) \/ Report(b) \/ Deferred(b)
    PROVE  TargetsKept
<1>0. /\ jobs[b] \in Jobs /\ jobs = [jobs EXCEPT ![b] = jobs[b]]
      /\ broadcastInProgress' \in BOOLEAN /\ broadcastCancelFlag' \in BOOLEAN
      /\ apart' \in BOOLEAN /\ late' \in Nat
  <2>1. jobs[b] \in Jobs /\ jobs = [jobs EXCEPT ![b] = jobs[b]]
    BY DEF TypeOK
  <2>2. broadcastInProgress' \in BOOLEAN /\ broadcastCancelFlag' \in BOOLEAN
    BY DEF TypeOK, Load, Start, Parse, Reset, Targets, Report, Deferred, Finish, flags
  <2>3. apart' \in BOOLEAN
    <3>1. CASE Start(b)
      BY <3>1 DEF Start
    <3> QED
      BY <3>1 DEF TypeOK, Load, Parse, Reset, Targets, Report, Deferred
  <2>4. late' \in Nat
    <3>1. CASE Reset(b)
      BY <3>1 DEF Reset
    <3> QED
      BY <3>1 DEF TypeOK, Load, Start, Parse, Targets, Report, Deferred
  <2> QED
    BY <2>1, <2>2, <2>3, <2>4
<1>1. Conserved(b)
  OBVIOUS
<1>2. ASSUME NEW s \in Stages, jobs' = [jobs EXCEPT ![b] = NoJobs], stage' = [stage EXCEPT ![b] = s]
      PROVE  TargetsKept
  <2>1. NoJobs \in Jobs
    BY NoJobsType
  <2>2. NoJobs.unsent + NoJobs.queued + NoJobs.sending + NoJobs.success + NoJobs.failed = NoJobs.total
        /\ NoJobs.unsent = 0 /\ NoJobs.queued = 0 /\ NoJobs.sending = 0
    BY NoJobsType
  <2>3. /\ jobs' \in [Broadcasts -> Jobs] /\ stage' \in [Broadcasts -> Stages]
        /\ \A c \in Broadcasts : Conserved(c)'
    BY <1>2, <2>1, <2>2, OneMoves
  <2> QED
    BY <1>0, <2>3 DEF TargetsKept, TypeOK
<1>3. CASE \/ Load(b) \/ Start(b) \/ Reset(b)
           \/ Parse(b) /\ jobs' = jobs
  <2>1. jobs[b] = NoJobs
    BY <1>1, <1>3 DEF Load, Start, Reset, Parse, Conserved
  <2>2. jobs' = [jobs EXCEPT ![b] = NoJobs]
    BY <1>0, <1>3, <2>1 DEF Load, Start, Reset, Parse
  <2>3. PICK s \in Stages : stage' = [stage EXCEPT ![b] = s]
    BY <1>3 DEF Load, Start, Reset, Parse, Finish, Goto, Stages
  <2> QED
    BY <1>2, <2>2, <2>3
<1>4. CASE Finish(b)
  <2>1. jobs' = [jobs EXCEPT ![b] = NoJobs] /\ stage' = [stage EXCEPT ![b] = "idle"]
    BY <1>4 DEF Finish, Goto
  <2> QED
    BY <1>2, <2>1 DEF Stages
<1>5. CASE Targets(b) /\ ~Finish(b)
  <2>1. PICK n \in 1..MaxTargets :
            /\ jobs' = [jobs EXCEPT ![b] = [NoJobs EXCEPT !.total = n, !.unsent = n]]
            /\ stage' = [stage EXCEPT ![b] = "send"]
    BY <1>5 DEF Targets, Goto
  <2> DEFINE j == [NoJobs EXCEPT !.total = n, !.unsent = n]
  <2>2. j \in Jobs /\ j.unsent + j.queued + j.sending + j.success + j.failed = j.total
    <3>1. n \in 0..MaxTargets /\ jobs[b] \in Jobs
      BY <1>0, BroadcastAssumption
    <3>2. /\ j \in Jobs /\ j.total = n /\ j.unsent = n /\ j.queued = 0
          /\ j.sending = 0 /\ j.success = 0 /\ j.failed = 0
      <4>1. PICK old \in Jobs : old = NoJobs
        BY NoJobsType
      <4> QED
        BY <3>1, <4>1, NoJobsType, BroadcastAssumption DEF Jobs
    <3> QED
      BY <3>1, <3>2, BroadcastAssumption
  <2>3. jobs' = [jobs EXCEPT ![b] = j]
    BY <2>1
  <2>4. "send" \in Stages
    BY DEF Stages
  <2> HIDE DEF j
  <2>5. /\ jobs' \in [Broadcasts -> Jobs] /\ stage' \in [Broadcasts -> Stages]
        /\ \A c \in Broadcasts : Conserved(c)'
    BY <2>1, <2>2, <2>3, <2>4, OneMoves
  <2> QED
    BY <1>0, <2>5 DEF TargetsKept, TypeOK
<1>6. CASE Report(b)
  <2>1. /\ jobs[b].unsent = 0 /\ jobs[b].queued = 0 /\ jobs[b].sending = 0
        /\ stage' = [stage EXCEPT ![b] = "deferred"] /\ jobs' = jobs
    BY <1>6 DEF Report, Sent, Goto
  <2>2. jobs[b].unsent + jobs[b].queued + jobs[b].sending + jobs[b].success + jobs[b].failed
            = jobs[b].total
    BY <1>1 DEF Conserved
  <2>3. "deferred" \in Stages
    BY DEF Stages
  <2>4. jobs' = [jobs EXCEPT ![b] = jobs[b]]
    BY <1>0, <2>1
  <2>5. /\ jobs' \in [Broadcasts -> Jobs] /\ stage' \in [Broadcasts -> Stages]
        /\ \A c \in Broadcasts : Conserved(c)'
    BY <1>0, <2>1, <2>2, <2>3, <2>4, OneMoves
  <2> QED
    BY <1>0, <2>5 DEF TargetsKept, TypeOK
<1> QED
  BY <1>3, <1>4, <1>5, <1>6 DEF Parse, Targets, Deferred

(* A target goes on: into the channel, to a worker, to its outcome.        *)
LEMMA WorkersKeep ==
    ASSUME TypeOK, \A c \in Broadcasts : Conserved(c), NEW b \in Broadcasts,
           Put(b) \/ Take(b) \/ Forward(b)
    PROVE  TargetsKept
<1>0. /\ broadcastInProgress' \in BOOLEAN /\ broadcastCancelFlag' \in BOOLEAN
      /\ apart' \in BOOLEAN /\ late' \in Nat
      /\ stage' = [stage EXCEPT ![b] = stage[b]] /\ stage[b] \in Stages
  BY DEF TypeOK, Put, Take, Forward, flags
<1>1. /\ jobs[b].unsent + jobs[b].queued + jobs[b].sending + jobs[b].success + jobs[b].failed
             = jobs[b].total
      /\ stage[b] \notin {"send", "deferred"} => jobs[b] = NoJobs
      /\ stage[b] = "deferred" => jobs[b].unsent = 0 /\ jobs[b].queued = 0 /\ jobs[b].sending = 0
  BY DEF Conserved
<1>2. jobs[b].unsent > 0 \/ jobs[b].queued > 0 \/ jobs[b].sending > 0
  BY DEF Put, Take, CanTake, Forward
<1>3. stage[b] = "send"
  BY <1>1, <1>2, NoJobsType
<1>4. ASSUME NEW j \in Jobs, jobs' = [jobs EXCEPT ![b] = j],
             j.unsent + j.queued + j.sending + j.success + j.failed = j.total
      PROVE  TargetsKept
  <2>1. /\ jobs' \in [Broadcasts -> Jobs] /\ stage' \in [Broadcasts -> Stages]
        /\ \A c \in Broadcasts : Conserved(c)'
    BY <1>0, <1>3, <1>4, OneMoves
  <2> QED
    BY <1>0, <2>1 DEF TargetsKept, TypeOK
<1>5. PICK old \in Jobs :
          /\ old = jobs[b]
          /\ old.unsent + old.queued + old.sending + old.success + old.failed = old.total
          /\ old.total \in Nat /\ old.total <= MaxTargets
          /\ old.unsent \in Nat /\ old.queued \in Nat /\ old.sending \in Nat
          /\ old.queued <= Workers /\ old.sending <= Workers
          /\ old.success \in Nat /\ old.failed \in Nat
  BY <1>1, FieldTypes
<1>6. CASE Put(b)
  <2> DEFINE n == old.unsent - 1
             q == old.queued + 1
             j == [old EXCEPT !.unsent = n, !.queued = q]
  <2>1. jobs' = [jobs EXCEPT ![b] = j]
    BY <1>5, <1>6 DEF Put, TypeOK
  <2>2. n \in 0..MaxTargets /\ q \in 0..Workers
    BY <1>5, <1>6, BroadcastAssumption DEF Put
  <2>3. /\ j \in Jobs /\ j.total = old.total /\ j.unsent = n /\ j.queued = q
        /\ j.sending = old.sending /\ j.success = old.success
        /\ j.failed = old.failed
    BY <2>2, BroadcastAssumption DEF Jobs
  <2>4. j.unsent + j.queued + j.sending + j.success + j.failed = j.total
    BY <1>5, <2>2, <2>3
  <2> QED
    BY <1>4, <2>1, <2>3, <2>4
<1>7. CASE Take(b) /\ broadcastCancelFlag
  <2> DEFINE q == old.queued - 1
             f == old.failed + 1
             j == [old EXCEPT !.queued = q, !.failed = f]
  <2>1. jobs' = [jobs EXCEPT ![b] = j]
    BY <1>5, <1>7 DEF Take, TypeOK
  <2>2. q \in 0..Workers /\ f \in 0..MaxTargets
    BY <1>5, <1>7, BroadcastAssumption DEF Take, CanTake
  <2>3. /\ j \in Jobs /\ j.total = old.total /\ j.unsent = old.unsent /\ j.queued = q
        /\ j.sending = old.sending /\ j.success = old.success /\ j.failed = f
    BY <2>2, BroadcastAssumption DEF Jobs
  <2>4. j.unsent + j.queued + j.sending + j.success + j.failed = j.total
    BY <1>5, <2>2, <2>3
  <2> QED
    BY <1>4, <2>1, <2>3, <2>4
<1>8. CASE Take(b) /\ ~broadcastCancelFlag
  <2> DEFINE q == old.queued - 1
             i == old.sending + 1
             j == [old EXCEPT !.queued = q, !.sending = i]
  <2>1. jobs' = [jobs EXCEPT ![b] = j]
    BY <1>5, <1>8 DEF Take, TypeOK
  <2>2. q \in 0..Workers /\ i \in 0..Workers
    BY <1>5, <1>8, BroadcastAssumption DEF Take, CanTake
  <2>3. /\ j \in Jobs /\ j.total = old.total /\ j.unsent = old.unsent /\ j.queued = q
        /\ j.sending = i /\ j.success = old.success /\ j.failed = old.failed
    BY <2>2, BroadcastAssumption DEF Jobs
  <2>4. j.unsent + j.queued + j.sending + j.success + j.failed = j.total
    BY <1>5, <2>2, <2>3
  <2> QED
    BY <1>4, <2>1, <2>3, <2>4
<1>9. CASE Forward(b)
  <2> DEFINE i == old.sending - 1
             d == old.success + 1
             f == old.failed + 1
             j == [old EXCEPT !.sending = i, !.success = d]
             k == [old EXCEPT !.sending = i, !.failed = f]
  <2>1. jobs' = [jobs EXCEPT ![b] = j] \/ jobs' = [jobs EXCEPT ![b] = k]
    BY <1>5, <1>9 DEF Forward, TypeOK
  <2>2. i \in 0..Workers /\ d \in 0..MaxTargets /\ f \in 0..MaxTargets
    BY <1>5, <1>9, BroadcastAssumption DEF Forward
  <2>3. /\ j \in Jobs /\ j.total = old.total /\ j.unsent = old.unsent
        /\ j.queued = old.queued /\ j.sending = i /\ j.success = d
        /\ j.failed = old.failed
    BY <2>2, BroadcastAssumption DEF Jobs
  <2>4. /\ k \in Jobs /\ k.total = old.total /\ k.unsent = old.unsent
        /\ k.queued = old.queued /\ k.sending = i /\ k.success = old.success
        /\ k.failed = f
    BY <2>2, BroadcastAssumption DEF Jobs
  <2>5. j.unsent + j.queued + j.sending + j.success + j.failed = j.total
    BY <1>5, <2>2, <2>3
  <2>6. k.unsent + k.queued + k.sending + k.success + k.failed = k.total
    BY <1>5, <2>2, <2>4
  <2> QED
    BY <1>4, <2>1, <2>3, <2>4, <2>5, <2>6
<1> QED
  BY <1>6, <1>7, <1>8, <1>9

-----------------------------------------------------------------------------
(* One at a time.                                                          *)

LEMMA ExclusiveStep ==
    ASSUME TypeOK, Exclusive, [Next]_vars
    PROVE  Exclusive'
<1> SUFFICES ASSUME apart', NEW c \in Broadcasts, Running(c)'
             PROVE  broadcastInProgress' /\ \A d \in Broadcasts \ {c} : stage'[d] = "idle"
  BY DEF Exclusive
<1>1. CASE Cancel \/ UNCHANGED vars \/ \E b \in Broadcasts : Put(b) \/ Take(b) \/ Forward(b)
  <2>1. stage' = stage /\ broadcastInProgress' = broadcastInProgress /\ apart' = apart
    BY <1>1 DEF Cancel, vars, flags, Put, Take, Forward
  <2> QED
    BY <2>1 DEF Exclusive, Running
<1>2. ASSUME NEW b \in Broadcasts, Start(b)
      PROVE  broadcastInProgress' /\ \A d \in Broadcasts \ {c} : stage'[d] = "idle"
  <2>1. apart /\ stage[b] = "start" /\ broadcastInProgress'
    BY <1>2 DEF Start
  <2>2. \A d \in Broadcasts \ {b} : stage[d] \notin {"start", "deferred"}
    BY <1>2 DEF Start
  <2>3. \A d \in Broadcasts : ~Running(d)
    BY <2>1 DEF Exclusive, Running
  <2>4. \A d \in Broadcasts \ {b} : stage[d] = "idle"
    BY <2>2, <2>3 DEF Running, TypeOK, Stages
  <2>5. \A d \in Broadcasts \ {b} : stage'[d] = "idle"
    BY <1>2, <2>4 DEF Start, Goto, TypeOK
  <2>6. c = b
    BY <2>5 DEF Running
  <2> QED
    BY <2>1, <2>5, <2>6
<1>3. ASSUME NEW b \in Broadcasts, Load(b)
      PROVE  broadcastInProgress' /\ \A d \in Broadcasts \ {c} : stage'[d] = "idle"
  <2>1. apart /\ ~broadcastInProgress
    BY <1>3 DEF Load, flags
  <2>2. ~Running(c)
    BY <2>1 DEF Exclusive
  <2>3. ~Running(c)'
    BY <1>3, <2>2 DEF Load, Goto, Running, TypeOK
  <2> QED
    BY <2>3
<1>4. ASSUME NEW b \in Broadcasts,
             Parse(b) \/ Reset(b) \/ Targets(b) \/ Report(b) \/ Deferred(b)
      PROVE  broadcastInProgress' /\ \A d \in Broadcasts \ {c} : stage'[d] = "idle"
  <2>1. apart /\ (Running(b) \/ stage[b] = "deferred")
    BY <1>4 DEF Parse, Reset, Targets, Report, Deferred, Sent, Running, flags
  <2>2. PICK s \in Stages : stage' = [stage EXCEPT ![b] = s]
    BY <1>4 DEF Parse, Reset, Targets, Report, Deferred, Finish, Goto, Stages
  <2>3. CASE c # b
    <3>1. Running(c)
      BY <2>2, <2>3 DEF Running, TypeOK
    <3> QED
      BY <2>1, <2>3, <3>1 DEF Exclusive, Running
  <2>4. CASE c = b
    <3>1. Running(b)' /\ stage'[b] \notin {"idle", "deferred"}
      BY <2>4 DEF Running
    <3>2. ~Finish(b) /\ ~Report(b) /\ ~Deferred(b)
      BY <3>1 DEF Finish, Report, Deferred, Goto, TypeOK
    <3>3. Running(b) /\ broadcastInProgress' = broadcastInProgress
      BY <1>4, <3>2 DEF Parse, Reset, Targets, Running, flags
    <3>4. broadcastInProgress /\ \A d \in Broadcasts \ {b} : stage[d] = "idle"
      BY <2>1, <3>3 DEF Exclusive
    <3> QED
      BY <2>2, <2>4, <3>3, <3>4 DEF TypeOK
  <2> QED
    BY <2>3, <2>4
<1> QED
  BY <1>1, <1>2, <1>3, <1>4 DEF Next, Step

-----------------------------------------------------------------------------
(* The messages in hand.                                                   *)

LEMMA InHandFinite ==
    ASSUME TypeOK
    PROVE  /\ IsFiniteSet(InHand)
           /\ Cardinality(InHand) \in Nat /\ Cardinality(Broadcasts) \in Nat
           /\ Cardinality(InHand) <= Workers * Cardinality(Broadcasts)
<1>1. IsFiniteSet(1..Workers) /\ Cardinality(1..Workers) = Workers
  BY FS_Interval, BroadcastAssumption
<1>2. IsFiniteSet(Broadcasts) /\ Cardinality(Broadcasts) \in Nat
  BY FS_CardinalityType, BroadcastAssumption
<1>3. /\ IsFiniteSet(Broadcasts \X (1..Workers))
      /\ Cardinality(Broadcasts \X (1..Workers)) = Cardinality(Broadcasts) * Workers
  BY <1>1, <1>2, FS_Product
<1>4. InHand \in SUBSET (Broadcasts \X (1..Workers))
  BY DEF InHand
<1>5. IsFiniteSet(InHand) /\ Cardinality(InHand) <= Cardinality(Broadcasts) * Workers
  BY <1>3, <1>4, FS_Subset
<1>6. Cardinality(InHand) \in Nat
  BY <1>5, FS_CardinalityType
<1> QED
  BY <1>2, <1>5, <1>6, BroadcastAssumption

(* Only the workers of a broadcast that sends have any.                    *)
LEMMA InHandSends ==
    ASSUME TypeOK, \A b \in Broadcasts : Conserved(b), NEW p \in InHand
    PROVE  p[1] \in Broadcasts /\ p[2] \in 1..Workers /\ stage[p[1]] = "send"
<1>1. p[1] \in Broadcasts /\ p[2] \in 1..Workers /\ p[2] <= jobs[p[1]].sending
  BY DEF InHand
<1>2. jobs[p[1]].sending # 0
  BY <1>1, FieldTypes, BroadcastAssumption
<1>3. stage[p[1]] \notin {"send", "deferred"} => jobs[p[1]] = NoJobs
  BY <1>1 DEF Conserved
<1>4. stage[p[1]] = "deferred" => jobs[p[1]].sending = 0
  BY <1>1 DEF Conserved
<1> QED
  BY <1>1, <1>2, <1>3, <1>4, NoJobsType

(* A broadcast alone has no more messages in hand than workers.            *)
LEMMA InHandOfOne ==
    ASSUME TypeOK, Exclusive, apart, \A b \in Broadcasts : Conserved(b)
    PROVE  Cardinality(InHand) <= Workers
<1>1. CASE InHand = {}
  BY <1>1, FS_EmptySet, BroadcastAssumption
<1>2. CASE InHand # {}
  <2>1. PICK p \in InHand : TRUE
    BY <1>2
  <2>2. PICK b \in Broadcasts : stage[b] = "send"
    BY <2>1, InHandSends
  <2>3. \A c \in Broadcasts \ {b} : stage[c] = "idle"
    BY <2>2 DEF Exclusive, Running
  <2>4. \A q \in InHand : q \in {b} \X (1..Workers)
    <3> SUFFICES ASSUME NEW q \in InHand PROVE q \in {b} \X (1..Workers)
      OBVIOUS
    <3>1. q[1] \in Broadcasts /\ q[2] \in 1..Workers /\ stage[q[1]] = "send"
      BY InHandSends
    <3>2. q[1] = b
      BY <2>3, <3>1
    <3>3. q = <<q[1], q[2]>>
      BY DEF InHand
    <3> QED
      BY <3>1, <3>2, <3>3
  <2>5. IsFiniteSet(1..Workers) /\ Cardinality(1..Workers) = Workers
    BY FS_Interval, BroadcastAssumption
  <2>6. IsFiniteSet({b}) /\ Cardinality({b}) = 1
    BY FS_Singleton
  <2>7. /\ IsFiniteSet({b} \X (1..Workers))
        /\ Cardinality({b} \X (1..Workers)) = 1 * Workers
    BY <2>5, <2>6, FS_Product
  <2>8. InHand \in SUBSET ({b} \X (1..Workers))
    BY <2>4
  <2>9. Cardinality(InHand) <= 1 * Workers
    BY <2>7, <2>8, FS_Subset
  <2> QED
    BY <2>9, BroadcastAssumption
<1> QED
  BY <1>1, <1>2

(* Nothing new in hand.                                                    *)
LEMMA InHandSame ==
    ASSUME \A c \in Broadcasts : jobs'[c].sending = jobs[c].sending
    PROVE  InHand' = InHand
  BY DEF InHand

LEMMA InHandFewer ==
    ASSUME TypeOK, \A c \in Broadcasts : Conserved(c), NEW b \in Broadcasts, Forward(b)
    PROVE  /\ Cardinality(InHand') = Cardinality(InHand) - 1
           /\ Cardinality(InHand) \in Nat \ {0}
<1>1. PICK n \in 1..Workers : jobs[b].sending = n
  BY FieldTypes, BroadcastAssumption DEF Forward
<1>2. jobs'[b].sending = n - 1
  <2>1. PICK old \in Jobs : old = jobs[b]
    BY DEF TypeOK
  <2> DEFINE j == [old EXCEPT !.sending = old.sending - 1, !.success = old.success + 1]
             k == [old EXCEPT !.sending = old.sending - 1, !.failed = old.failed + 1]
  <2>2. jobs' = [jobs EXCEPT ![b] = j] \/ jobs' = [jobs EXCEPT ![b] = k]
    BY <2>1 DEF Forward, TypeOK
  <2>3. j.sending = old.sending - 1 /\ k.sending = old.sending - 1
    BY DEF Jobs
  <2> HIDE DEF j, k
  <2> QED
    BY <1>1, <2>1, <2>2, <2>3 DEF TypeOK
<1>3. \A c \in Broadcasts \ {b} : jobs'[c] = jobs[c]
  BY DEF Forward, TypeOK
<1> DEFINE last == <<b, n>>
<1>4. last \in InHand
  BY <1>1 DEF InHand
<1>5. InHand' = InHand \ {last}
  <2>1. ASSUME NEW p \in Broadcasts \X (1..Workers)
        PROVE  p[2] <= jobs'[p[1]].sending <=> p[2] <= jobs[p[1]].sending /\ p # last
    <3>1. CASE p[1] = b
      <4>1. p = <<b, p[2]>> /\ p[2] \in 1..Workers
        BY <3>1
      <4>2. p # last <=> p[2] # n
        BY <4>1
      <4>3. p[2] <= n - 1 <=> p[2] <= n /\ p[2] # n
        BY <4>1, BroadcastAssumption
      <4> QED
        BY <1>1, <1>2, <3>1, <4>2, <4>3
    <3>2. CASE p[1] # b
      BY <1>3, <3>2
    <3> QED
      BY <3>1, <3>2
  <2> QED
    BY <2>1 DEF InHand
<1>6. IsFiniteSet(InHand) /\ Cardinality(InHand) \in Nat
  BY InHandFinite
<1>7. Cardinality(InHand') = Cardinality(InHand) - 1
  BY <1>4, <1>5, <1>6, FS_RemoveElement
<1>8. Cardinality(InHand) # 0
  BY <1>4, <1>6, FS_EmptySet
<1> QED
  BY <1>6, <1>7, <1>8

-----------------------------------------------------------------------------
(* A cancel.                                                               *)

(* A step that leaves in hand what was, and forgets no cancel but by       *)
(* forgetting its messages too.                                            *)
LEMMA CountsSame ==
    ASSUME TypeOK, CancelCounts, InHand' = InHand, apart' = apart,
           \/ broadcastCancelFlag' = broadcastCancelFlag /\ late' = late
           \/ ~broadcastCancelFlag' /\ late' = 0
    PROVE  CancelCounts'
<1>1. Allowed' = Allowed
  BY DEF Allowed
<1> QED
  BY <1>1 DEF CancelCounts

LEMMA CountsStep ==
    ASSUME TypeOK, BroadcastInv, [Next]_vars
    PROVE  CancelCounts'
<1> USE DEF BroadcastInv
<1>1. CASE UNCHANGED vars
  <2>1. InHand' = InHand
    BY <1>1 DEF InHand, vars
  <2> QED
    BY <1>1, <2>1, CountsSame DEF vars, flags
<1>2. CASE Cancel
  <2>1. InHand' = InHand /\ Allowed' = Allowed /\ late' = late /\ apart' = apart
    BY <1>2 DEF Cancel, InHand, Allowed
  <2>2. CASE broadcastCancelFlag
    BY <1>2, <2>1, <2>2 DEF CancelCounts, Cancel
  <2>3. CASE ~broadcastCancelFlag
    <3>1. late = 0
      BY <2>3 DEF CancelCounts
    <3>2. apart => Cardinality(InHand) <= Workers
      BY InHandOfOne
    <3>3. Cardinality(InHand) <= Allowed
      BY <3>2, InHandFinite, BroadcastAssumption DEF Allowed
    <3>4. 0 + Cardinality(InHand) = Cardinality(InHand)
      BY InHandFinite
    <3> QED
      BY <1>2, <2>1, <3>1, <3>3, <3>4 DEF CancelCounts, Cancel
  <2> QED
    BY <2>2, <2>3
<1>3. ASSUME NEW b \in Broadcasts, Start(b)
      PROVE  CancelCounts'
  <2>1. InHand' = InHand /\ late' = late /\ broadcastCancelFlag' = broadcastCancelFlag
    BY <1>3 DEF Start, InHand
  <2>2. Cardinality(Broadcasts) \in Nat \ {0}
    BY InHandFinite, FS_EmptySet, BroadcastAssumption
  <2>3. Workers * 1 <= Workers * Cardinality(Broadcasts)
    BY <2>2, BroadcastAssumption
  <2>4. Workers * 1 \in Nat /\ Workers * Cardinality(Broadcasts) \in Nat
    BY <2>2, BroadcastAssumption
  <2>5. apart' => apart
    BY <1>3 DEF Start
  <2>6. Allowed <= Allowed' /\ Allowed \in Nat /\ Allowed' \in Nat
    BY <2>3, <2>4, <2>5 DEF Allowed
  <2>7. late + Cardinality(InHand) <= Allowed => late + Cardinality(InHand) <= Allowed'
    BY <2>6, InHandFinite DEF TypeOK
  <2> QED
    BY <2>1, <2>7 DEF CancelCounts
<1>4. ASSUME NEW b \in Broadcasts, Forward(b)
      PROVE  CancelCounts'
  <2>1. Cardinality(InHand') = Cardinality(InHand) - 1 /\ Cardinality(InHand) \in Nat \ {0}
    BY <1>4, InHandFewer
  <2>2. Allowed' = Allowed /\ broadcastCancelFlag' = broadcastCancelFlag
    BY <1>4 DEF Forward, Allowed, flags
  <2>3. /\ late' = late \/ late' = late + 1
        /\ ~broadcastCancelFlag => late' = late
    <3>1. CASE broadcastCancelFlag
      BY <1>4, <3>1 DEF Forward
    <3>2. CASE ~broadcastCancelFlag
      BY <1>4, <3>2 DEF Forward
    <3> QED
      BY <3>1, <3>2
  <2>4. late + Cardinality(InHand) <= Allowed => late' + Cardinality(InHand') <= Allowed
    <3>1. Allowed \in Nat
      BY InHandFinite, BroadcastAssumption DEF Allowed
    <3> QED
      BY <2>1, <2>3, <3>1 DEF TypeOK
  <2> QED
    BY <2>2, <2>3, <2>4 DEF CancelCounts
<1>5. ASSUME NEW b \in Broadcasts, Put(b)
      PROVE  CancelCounts'
  <2>1. PICK old \in Jobs : old = jobs[b]
    BY DEF TypeOK
  <2> DEFINE j == [old EXCEPT !.unsent = old.unsent - 1, !.queued = old.queued + 1]
  <2>2. jobs' = [jobs EXCEPT ![b] = j]
    BY <1>5, <2>1 DEF Put, TypeOK
  <2>3. j.sending = old.sending
    BY DEF Jobs
  <2> HIDE DEF j
  <2>4. \A c \in Broadcasts : jobs'[c].sending = jobs[c].sending
    BY <2>1, <2>2, <2>3 DEF TypeOK
  <2> QED
    BY <1>5, <2>4, InHandSame, CountsSame DEF Put, flags
<1>6. ASSUME NEW b \in Broadcasts, Take(b)
      PROVE  CancelCounts'
  <2>1. CASE ~broadcastCancelFlag
    <3>1. late = 0
      BY <2>1 DEF CancelCounts
    <3> QED
      BY <1>6, <2>1, <3>1 DEF Take, CancelCounts, flags
  <2>2. CASE broadcastCancelFlag
    <3>1. PICK old \in Jobs : old = jobs[b]
      BY DEF TypeOK
    <3> DEFINE j == [old EXCEPT !.queued = old.queued - 1, !.failed = old.failed + 1]
    <3>2. jobs' = [jobs EXCEPT ![b] = j]
      BY <1>6, <2>2, <3>1 DEF Take, TypeOK
    <3>3. j.sending = old.sending
      BY DEF Jobs
    <3> HIDE DEF j
    <3>4. \A c \in Broadcasts : jobs'[c].sending = jobs[c].sending
      BY <3>1, <3>2, <3>3 DEF TypeOK
    <3> QED
      BY <1>6, <3>4, InHandSame, CountsSame DEF Take, flags
  <2> QED
    BY <2>1, <2>2
<1>7. ASSUME NEW b \in Broadcasts,
             Load(b) \/ Parse(b) \/ Reset(b) \/ Targets(b) \/ Report(b) \/ Deferred(b)
      PROVE  CancelCounts'
  <2>1. CASE jobs' = jobs
    <3>1. InHand' = InHand
      BY <2>1 DEF InHand
    <3> QED
      BY <1>7, <3>1, CountsSame
      DEF Load, Parse, Reset, Targets, Report, Deferred, flags
  <2>2. CASE jobs' # jobs
    <3>1. Finish(b) \/ Targets(b)
      BY <1>7, <2>2 DEF Load, Parse, Reset, Report, Deferred
    <3>2. jobs[b].sending = 0
      <4>1. stage[b] \notin {"send"}
        BY <1>7, <2>2 DEF Load, Parse, Reset, Targets, Report, Deferred
      <4>2. Conserved(b)
        OBVIOUS
      <4> QED
        BY <4>1, <4>2, NoJobsType DEF Conserved
    <3>3. PICK n \in Nat : jobs' = [jobs EXCEPT ![b] = [NoJobs EXCEPT !.total = n, !.unsent = n]]
                           \/ jobs' = [jobs EXCEPT ![b] = NoJobs]
      <4>1. CASE Finish(b)
        <5>1. 0 \in Nat /\ jobs' = [jobs EXCEPT ![b] = NoJobs]
          BY <4>1 DEF Finish
        <5> QED
          BY <5>1
      <4>2. CASE ~Finish(b)
        <5>1. PICK n \in 1..MaxTargets :
                  jobs' = [jobs EXCEPT ![b] = [NoJobs EXCEPT !.total = n, !.unsent = n]]
          BY <3>1, <4>2 DEF Targets
        <5>2. n \in Nat
          BY BroadcastAssumption
        <5> QED
          BY <5>1, <5>2
      <4> QED
        BY <4>1, <4>2
    <3>4. PICK none \in Jobs : none = NoJobs
      BY NoJobsType
    <3> DEFINE j == [none EXCEPT !.total = n, !.unsent = n]
    <3>5. j.sending = none.sending
      BY DEF Jobs
    <3>6. jobs' = [jobs EXCEPT ![b] = j] \/ jobs' = [jobs EXCEPT ![b] = none]
      BY <3>3, <3>4
    <3> HIDE DEF j
    <3>7. \A c \in Broadcasts : jobs'[c].sending = jobs[c].sending
      BY <3>2, <3>4, <3>5, <3>6, NoJobsType DEF TypeOK
    <3> QED
      BY <1>7, <3>7, InHandSame, CountsSame
      DEF Load, Parse, Reset, Targets, Report, Deferred, flags
  <2> QED
    BY <2>1, <2>2
<1> QED
  BY <1>1, <1>2, <1>3, <1>4, <1>5, <1>6, <1>7 DEF Next, Step

-----------------------------------------------------------------------------
(* The invariant, and what follows from it.                                *)

LEMMA BroadcastInit ==
    ASSUME Init
    PROVE  TypeOK /\ BroadcastInv
<1>1. TypeOK
  BY NoJobsType DEF Init, TypeOK, Stages
<1>2. Exclusive
  BY DEF Init, Exclusive, Running
<1>3. ASSUME NEW b \in Broadcasts PROVE Conserved(b)
  <2>1. jobs[b] = NoJobs /\ stage[b] = "idle"
    BY DEF Init
  <2> QED
    BY <2>1, NoJobsType DEF Conserved
<1>4. CancelCounts
  BY DEF Init, CancelCounts
<1> QED
  BY <1>1, <1>2, <1>3, <1>4 DEF BroadcastInv

LEMMA BroadcastStep ==
    ASSUME TypeOK, BroadcastInv, [Next]_vars
    PROVE  TypeOK' /\ BroadcastInv'
<1>1. Exclusive' /\ CancelCounts'
  BY ExclusiveStep, CountsStep DEF BroadcastInv
<1>2. TargetsKept
  <2> USE DEF BroadcastInv
  <2>1. CASE UNCHANGED vars
    BY <2>1 DEF TargetsKept, TypeOK, Conserved, vars, flags
  <2>2. CASE Cancel
    BY <2>2 DEF TargetsKept, TypeOK, Conserved, Cancel
  <2> QED
    BY <2>1, <2>2, HandlerKeeps, WorkersKeep DEF Next, Step
<1> QED
  BY <1>1, <1>2 DEF TargetsKept, BroadcastInv

(* Types are right, a target is in one place, a running broadcast has the  *)
(* flag, and no cancel lets through more than was in hand.                 *)
THEOREM BroadcastInvCorrect == Spec => [](TypeOK /\ BroadcastInv)
  BY BroadcastInit, BroadcastStep, PTL DEF Spec

(* "A broadcast is already in progress": unless a test of the flag fell in *)
(* one of the two bad moments, one broadcast runs at a time, however many  *)
(* goroutines handle the command.                                          *)
THEOREM OneAtATimeCorrect == Spec => []OneAtATime
<1>1. Exclusive => OneAtATime
  BY DEF Exclusive, OneAtATime, Running
<1> QED
  BY <1>1, BroadcastInvCorrect, PTL DEF BroadcastInv

(* After /cancelbroadcast every worker delivers at most the message that   *)
(* it had in hand.                                                         *)
THEOREM CancelStopsCorrect == Spec => []CancelStops
<1>1. ASSUME TypeOK, BroadcastInv PROVE CancelStops
  <2> SUFFICES ASSUME broadcastCancelFlag PROVE late <= Allowed
    BY DEF CancelStops, Allowed
  <2>1. late + Cardinality(InHand) <= Allowed
    BY <1>1 DEF BroadcastInv, CancelCounts
  <2>2. Allowed \in Nat
    BY <1>1, InHandFinite, BroadcastAssumption DEF Allowed
  <2> QED
    BY <1>1, <2>1, <2>2, InHandFinite DEF TypeOK
<1> QED
  BY <1>1, BroadcastInvCorrect, PTL

(* The report of a broadcast counts every target once, cancelled or not.   *)
THEOREM AccountedCorrect == Spec => []Accounted
<1>1. ASSUME TypeOK, BroadcastInv PROVE Accounted
  <2> SUFFICES ASSUME NEW b \in Broadcasts, Sent(b)
               PROVE  jobs[b].success + jobs[b].failed = jobs[b].total
    BY DEF Accounted
  <2>1. Conserved(b)
    BY <1>1 DEF BroadcastInv
  <2> QED
    BY <1>1, <2>1, FieldTypes DEF Conserved, Sent
<1> QED
  BY <1>1, BroadcastInvCorrect, PTL
=============================================================================
