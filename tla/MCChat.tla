------------------------------- MODULE MCChat -------------------------------
(***************************************************************************)
(* An instance for TLC of three parts of the bot that share no state: the  *)
(* playlists, the assistant's membership of a chat and the videos of a     *)
(* call.  One of them is chosen at the start and moves: the state spaces   *)
(* are added, not multiplied.                                              *)
(***************************************************************************)
EXTENDS Playlists, TLC

CONSTANTS MaxUpdates, Self, Others, Kinds, MaxEvents, RequestFaults,
          MaxPending  \* bound: updates of the call that are under way at once

VARIABLES
    part,
    where, updates, statusCache, active, memberAt, status, leaving, spared,
    overtaken, memberClean, muted,
    call, events, callUpdates, callParticipants, fresh, callSources, bound, incoming, stream,
    mutedByAdmin, callAt, todo, adding, stopping, ending, leftovers, earlier, complete,
    callClean, crashed

Assistant == INSTANCE Membership
    WITH at <- memberAt, clean <- memberClean, Faults <- RequestFaults

Videos == INSTANCE CallSources
    WITH at <- callAt, updates <- callUpdates, clean <- callClean, Faults <- RequestFaults

(* None is no status, no participant, no map of participants and no set of *)
(* videos, and the assistant is neither a video nor somebody else.         *)
ASSUME ChatAssumption ==
    /\ None \notin Assistant!Statuses /\ MaxUpdates \in Nat
    /\ \A x \in Videos!Participant : x # None
    /\ \A x \in Videos!Calls : x # None
    /\ \A x \in SUBSET Videos!Videos : x # None
    /\ None \notin Videos!Videos
    /\ Self \notin Others \cup Videos!Videos
    /\ MaxEvents \in Nat

listVars == <<playlists, at, want, clean>>
memberVars == <<where, updates, statusCache, active, memberAt, status, leaving, spared,
                overtaken, memberClean, muted>>
videoVars == <<call, events, callUpdates, callParticipants, fresh, callSources, bound,
               incoming, stream, mutedByAdmin, callAt, todo, adding, stopping, ending, leftovers,
               earlier, complete, callClean, crashed>>

MCInit ==
    /\ part \in {"lists", "member", "videos"}
    /\ Init
    /\ Assistant!Init
    /\ Videos!Init /\ (part # "videos" => call = Videos!Nobody)

MCNext ==
    /\ UNCHANGED part
    /\ \/ part = "lists" /\ Next /\ UNCHANGED <<memberVars, videoVars>>
       \/ part = "member" /\ Assistant!Next /\ UNCHANGED <<listVars, videoVars>>
       \/ part = "videos" /\ Videos!Next /\ UNCHANGED <<listVars, memberVars>>

MCSpec == MCInit /\ [][MCNext]_<<part, listVars, memberVars, videoVars>>

(* Goroutines are alike.                                                   *)
MCSymmetry == Permutations(Handlers)

(* Nothing is claimed of the videos after two handlers have overlapped.    *)
Followed ==
    /\ callClean
    /\ Cardinality({i \in DOMAIN callUpdates : callUpdates[i].at # "done"}) <= MaxPending

-----------------------------------------------------------------------------
TypesOK ==
    /\ part = "lists" => TypeOK
    /\ part = "member" => Assistant!TypeOK
    /\ part = "videos" => Videos!TypeOK

CacheInStep == Assistant!CacheInStep
ActiveMeansIn == Assistant!ActiveMeansIn

SourcesInStep == Videos!SourcesInStep
MutedInStep == Videos!MutedInStep
=============================================================================
