----------------------------- MODULE Broadcast -----------------------------
(***************************************************************************)
(* /broadcast and /cancelbroadcast (src/src/handlers/broadcast.go): two    *)
(* atomic flags that all handlers share, and for every broadcast a channel *)
(* of targets that its workers empty.                                      *)
(*                                                                         *)
(* A member of Broadcasts is a goroutine that handles one /broadcast at a  *)
(* time.  Every access to a flag is a step.  Workers are alike, so they    *)
(* and the targets are counted.                                            *)
(***************************************************************************)
EXTENDS Naturals, FiniteSets

CONSTANTS Broadcasts,  \* goroutines that handle /broadcast
          Workers,     \* workers of a broadcast, and places in its channel: 20
          MaxTargets   \* bound: chats and users in the database

ASSUME BroadcastAssumption ==
    IsFiniteSet(Broadcasts) /\ Workers \in Nat /\ MaxTargets \in Nat

VARIABLES
    broadcastInProgress,
    broadcastCancelFlag,
    stage,   \* where a handler is,
    jobs,    \* what has become of its targets
    apart,   \* history: the flag was never tested or cleared at a bad moment
    late     \* history: messages delivered since the cancel that is in force

flags == <<broadcastInProgress, broadcastCancelFlag>>
vars == <<flags, stage, jobs, apart, late>>

Stages == {"idle", "start", "parse", "reset", "targets", "send", "deferred"}

(* The targets of a broadcast, those not yet in the channel, those in it,  *)
(* those that a worker has in hand, and the outcomes.                      *)
Jobs == [total : 0..MaxTargets, unsent : 0..MaxTargets, queued : 0..Workers,
         sending : 0..Workers, success : 0..MaxTargets, failed : 0..MaxTargets]

NoJobs == [total |-> 0, unsent |-> 0, queued |-> 0, sending |-> 0, success |-> 0, failed |-> 0]

TypeOK ==
    /\ broadcastInProgress \in BOOLEAN
    /\ broadcastCancelFlag \in BOOLEAN
    /\ stage \in [Broadcasts -> Stages]
    /\ jobs \in [Broadcasts -> Jobs]
    /\ apart \in BOOLEAN
    /\ late \in Nat

Init ==
    /\ broadcastInProgress = FALSE
    /\ broadcastCancelFlag = FALSE
    /\ stage = [b \in Broadcasts |-> "idle"]
    /\ jobs = [b \in Broadcasts |-> NoJobs]
    /\ apart = TRUE
    /\ late = 0

-----------------------------------------------------------------------------
Goto(b, s) == stage' = [stage EXCEPT ![b] = s]

(* The deferred Store(false), on every return after the flag was set.      *)
Finish(b) ==
    /\ broadcastInProgress' = FALSE
    /\ Goto(b, "idle")
    /\ jobs' = [jobs EXCEPT ![b] = NoJobs]

(* Mutant: the deferred Store(false) comes before the test, so that a      *)
(* refused command clears the flag.                                        *)
LoadDeferring(b) ==
    /\ stage[b] = "idle"
    /\ IF broadcastInProgress
       THEN broadcastInProgress' = FALSE /\ UNCHANGED stage
       ELSE Goto(b, "start") /\ UNCHANGED broadcastInProgress
    /\ UNCHANGED <<broadcastCancelFlag, jobs, apart, late>>

(* The command is refused while the flag is set ...                        *)
Load(b) ==
    /\ stage[b] = "idle" /\ ~broadcastInProgress
    /\ Goto(b, "start")
    /\ UNCHANGED <<flags, jobs, apart, late>>

(* ... and sets it in another step.  A bad moment: another is as far, and  *)
(* did not see the flag, or has cleared it and will do so once more.       *)
Start(b) ==
    /\ stage[b] = "start"
    /\ broadcastInProgress' = TRUE
    /\ Goto(b, "parse")
    /\ apart' = (apart /\ \A c \in Broadcasts \ {b} : stage[c] \notin {"start", "deferred"})
    /\ UNCHANGED <<broadcastCancelFlag, jobs, late>>

(* The message to forward and the options, with many ways to be wrong.     *)
Parse(b) ==
    /\ stage[b] = "parse"
    /\ \/ Goto(b, "reset") /\ UNCHANGED <<broadcastInProgress, jobs>>
       \/ Finish(b)
    /\ UNCHANGED <<broadcastCancelFlag, apart, late>>

(* A cancel of before, or of another broadcast, is forgotten.              *)
Reset(b) ==
    /\ stage[b] = "reset"
    /\ broadcastCancelFlag' = FALSE
    /\ late' = 0
    /\ Goto(b, "targets")
    /\ UNCHANGED <<broadcastInProgress, jobs, apart>>

(* The chats and users there are, cut to the limit that was given.         *)
Targets(b) ==
    /\ stage[b] = "targets"
    /\ \/ \E n \in 1..MaxTargets :
             /\ jobs' = [jobs EXCEPT ![b] = [NoJobs EXCEPT !.total = n, !.unsent = n]]
             /\ Goto(b, "send")
             /\ UNCHANGED broadcastInProgress
       \/ Finish(b)
    /\ UNCHANGED <<broadcastCancelFlag, apart, late>>

-----------------------------------------------------------------------------
(* The handler fills the channel; the workers empty it.                    *)

(* Mutant: the channel takes any number of targets.                        *)
PutUnbounded(b) ==
    /\ stage[b] = "send" /\ jobs[b].unsent > 0
    /\ jobs' = [jobs EXCEPT ![b].unsent = @ - 1, ![b].queued = @ + 1]
    /\ UNCHANGED <<flags, stage, apart, late>>

(* The next target goes into the channel once there is room.               *)
Put(b) ==
    /\ stage[b] = "send" /\ jobs[b].unsent > 0 /\ jobs[b].queued < Workers
    /\ jobs' = [jobs EXCEPT ![b].unsent = @ - 1, ![b].queued = @ + 1]
    /\ UNCHANGED <<flags, stage, apart, late>>

(* A worker that has no target in hand can take one.                       *)
CanTake(b) == jobs[b].queued > 0 /\ jobs[b].sending < Workers

(* Mutant: a cancelled worker takes its target all the same.               *)
TakeAlways(b) ==
    /\ CanTake(b)
    /\ jobs' = [jobs EXCEPT ![b].queued = @ - 1, ![b].sending = @ + 1]
    /\ UNCHANGED <<flags, stage, apart, late>>

(* Mutant: the targets after a cancel are not counted.                     *)
TakeUncounted(b) ==
    /\ CanTake(b)
    /\ jobs' = IF broadcastCancelFlag
               THEN [jobs EXCEPT ![b].queued = @ - 1]
               ELSE [jobs EXCEPT ![b].queued = @ - 1, ![b].sending = @ + 1]
    /\ UNCHANGED <<flags, stage, apart, late>>

(* Mutant: the workers return when they see the cancel.                    *)
TakeUnlessCancelled(b) ==
    /\ CanTake(b) /\ ~broadcastCancelFlag
    /\ jobs' = [jobs EXCEPT ![b].queued = @ - 1, ![b].sending = @ + 1]
    /\ UNCHANGED <<flags, stage, apart, late>>

(* After a cancel the targets that are left count as failed.               *)
Take(b) ==
    /\ CanTake(b)
    /\ jobs' = IF broadcastCancelFlag
               THEN [jobs EXCEPT ![b].queued = @ - 1, ![b].failed = @ + 1]
               ELSE [jobs EXCEPT ![b].queued = @ - 1, ![b].sending = @ + 1]
    /\ UNCHANGED <<flags, stage, apart, late>>

(* ForwardTo succeeds or fails for good; while Telegram asks to wait it is *)
(* tried again, also after a cancel.                                       *)
Forward(b) ==
    /\ jobs[b].sending > 0
    /\ \/ /\ jobs' = [jobs EXCEPT ![b].sending = @ - 1, ![b].success = @ + 1]
          /\ late' = IF broadcastCancelFlag THEN late + 1 ELSE late
       \/ /\ jobs' = [jobs EXCEPT ![b].sending = @ - 1, ![b].failed = @ + 1]
          /\ UNCHANGED late
    /\ UNCHANGED <<flags, stage, apart>>

Sent(b) ==
    stage[b] = "send" /\ jobs[b].unsent = 0 /\ jobs[b].queued = 0 /\ jobs[b].sending = 0

(* The channel is closed, the workers are done, the report is shown; the   *)
(* flag is cleared here ...                                                *)
Report(b) ==
    /\ Sent(b)
    /\ broadcastInProgress' = FALSE
    /\ Goto(b, "deferred")
    /\ UNCHANGED <<broadcastCancelFlag, jobs, apart, late>>

(* ... and again by the deferred call.                                     *)
Deferred(b) ==
    /\ stage[b] = "deferred"
    /\ Finish(b)
    /\ UNCHANGED <<broadcastCancelFlag, apart, late>>

-----------------------------------------------------------------------------
(* /cancelbroadcast, at any time.                                          *)
Cancel ==
    /\ broadcastCancelFlag' = TRUE
    /\ UNCHANGED <<broadcastInProgress, stage, jobs, apart, late>>

Step(b) ==
    \/ Start(b) \/ Parse(b) \/ Reset(b) \/ Targets(b)
    \/ Put(b) \/ Report(b) \/ Deferred(b)

Next == Cancel \/ \E b \in Broadcasts : Load(b) \/ Step(b) \/ Take(b) \/ Forward(b)

Spec == Init /\ [][Next]_vars

(* Goroutines run on, and Telegram does not ask to wait for ever.          *)
Fairness ==
    \A b \in Broadcasts : WF_vars(Step(b)) /\ WF_vars(Take(b)) /\ WF_vars(Forward(b))

FairSpec == Spec /\ Fairness

-----------------------------------------------------------------------------
(* What is expected.                                                       *)

Running(b) == stage[b] \in {"parse", "reset", "targets", "send"}

(* "A broadcast is already in progress": there is one at a time, unless    *)
(* two commands tested the flag before either set it, or one set it just   *)
(* before the last broadcast cleared it for the second time.               *)
OneAtATime == apart => \A b, c \in Broadcasts : Running(b) /\ Running(c) => b = c

(* A cancel stops the workers: as long as it is in force every worker      *)
(* delivers at most the message that it had in hand, and there are the     *)
(* workers of one broadcast only, unless two overlap.                      *)
CancelStops ==
    broadcastCancelFlag =>
        late <= Workers * IF apart THEN 1 ELSE Cardinality(Broadcasts)

(* Every target is in the report once, cancelled or not.                   *)
Accounted ==
    \A b \in Broadcasts :
        Sent(b) => jobs[b].success + jobs[b].failed = jobs[b].total

(* Every broadcast ends: the handler is not left with a full channel, and  *)
(* the wait for the workers is over some time, cancelled or not.           *)
BroadcastsEnd == \A b \in Broadcasts : Running(b) ~> stage[b] = "idle"
=============================================================================
