------------------------------ MODULE MCTasks ------------------------------
(***************************************************************************)
(* An instance for TLC of four parts of the bot that share no state:       *)
(* broadcasts, RTMP streams, private calls and downloads.                  *)
(* One of them is chosen at the start and moves: the state spaces are      *)
(* added, not multiplied.                                                  *)
(***************************************************************************)
EXTENDS Broadcast

CONSTANTS None, Handlers, MaxStreams, Chunks, Faults,
          MaxDials, MaxCalls, CallFaults,
          Downloaders, Names, Blocks, MaxDownloads, DownloadFaults

VARIABLES
    part,
    url, entry, at, mine, process, feeder, waiter, caught, raced,
    calls, handler, sends, configs, p2pConfigs, inputCalls, bound, player, waitData,
    orderly, abandoned, crashed,
    step, name, open, position, file, temp, data, spoilt, begun

Rtmp == INSTANCE RtmpStreams

Private == INSTANCE PrivateCall WITH Faults <- CallFaults

Files == INSTANCE Downloads

(* Numbers of streams, configurations and inodes are not None.             *)
ASSUME TasksAssumption ==
    /\ MaxStreams \in Nat /\ Chunks \in Nat
    /\ IsFiniteSet(Downloaders) /\ IsFiniteSet(Names)
    /\ Blocks \in Nat /\ MaxDownloads \in Nat /\ MaxDials \in Nat /\ MaxCalls \in Nat
    /\ None \notin Rtmp!Streams \cup Private!Places \cup Files!Inodes \cup Names

broadcastVars == <<broadcastInProgress, broadcastCancelFlag, stage, jobs, apart, late>>
streamVars == <<url, entry, at, mine, process, feeder, waiter, caught, raced>>
callVars == <<calls, handler, sends, configs, p2pConfigs, inputCalls, bound, player, waitData,
              orderly, abandoned, crashed>>
fileVars == <<step, name, open, position, file, temp, data, spoilt, begun>>

MCInit ==
    /\ part \in {"broadcast", "stream", "call", "download"}
    /\ Init
    /\ Files!Init
    /\ Rtmp!Init /\ (part # "stream" => ~url)
    /\ Private!Init

(* A step of one part.                                                     *)
Broadcasting(A) == part = "broadcast" /\ A /\ UNCHANGED <<part, streamVars, callVars, fileVars>>
Streaming(A) == part = "stream" /\ A /\ UNCHANGED <<part, broadcastVars, callVars, fileVars>>
Calling(A) == part = "call" /\ A /\ UNCHANGED <<part, broadcastVars, streamVars, fileVars>>
Downloading(A) == part = "download" /\ A /\ UNCHANGED <<part, broadcastVars, streamVars, callVars>>

MCNext ==
    \/ Broadcasting(Next)
    \/ Streaming(Rtmp!Next)
    \/ Calling(Private!Next)
    \/ Downloading(Files!Next)

(* The fairness of each part.                                              *)
MCFairness ==
    /\ \A b \in Broadcasts :
          /\ WF_broadcastVars(part = "broadcast" /\ Step(b))
          /\ WF_broadcastVars(part = "broadcast" /\ Take(b))
          /\ WF_broadcastVars(part = "broadcast" /\ Forward(b))
    /\ \A h \in Handlers : WF_streamVars(part = "stream" /\ Rtmp!HandlerStep(h))
    /\ \A s \in Rtmp!Streams : WF_streamVars(part = "stream" /\ Rtmp!StreamStep(s))
    /\ \A k \in Private!Calls :
          /\ WF_callVars(part = "call" /\ ~crashed /\ Private!HandlerStep(k))
          /\ WF_callVars(part = "call" /\ ~crashed /\ Private!PlayerStep(k))

MCSpec == MCInit /\ [][MCNext]_<<part, broadcastVars, streamVars, callVars, fileVars>> /\ MCFairness

-----------------------------------------------------------------------------
TypesOK ==
    /\ part = "broadcast" => TypeOK
    /\ part = "stream" => Rtmp!TypeOK
    /\ part = "call" => Private!TypeOK
    /\ part = "download" => Files!TypeOK

RunningIsListed == Rtmp!RunningIsListed
NothingLeft == Rtmp!NothingLeft

AnswersOnly == Private!AnswersOnly
NothingStays == Private!NothingStays
PlayersEnd == Private!PlayersEnd

WholeFiles == Files!WholeFiles
=============================================================================
