---------------------------- MODULE RtmpStreams ----------------------------
(***************************************************************************)
(* RTMP streams (src/src/handlers/setrmtp.go): one chat's entry in the map *)
(* streams, the ffmpeg processes that were started for it, and for every   *)
(* process the goroutine that feeds it and the one that waits for its end. *)
(*                                                                         *)
(* Chats do not touch each other's entries.  A member of Handlers is a     *)
(* goroutine in one command at a time.                                     *)
(***************************************************************************)
EXTENDS Integers

CONSTANTS None,         \* no stream
          Handlers,     \* goroutines
          MaxStreams,   \* bound: processes ever started
          Chunks,       \* parts of 1 MB that a file has
          Faults        \* what may fail

(* "error": Telegram, MongoDB or the start of ffmpeg fails; "exit": ffmpeg *)
(* ends by itself, as it does when the server hangs up.                    *)
FaultKinds == {"error", "exit"}

VARIABLES
    url,      \* is there an RTMP address in the chat's settings?
    entry,    \* the stream in the map, or None
    at,       \* where a handler is,
    mine,     \* and the stream it has in hand
    process,  \* the processes, in the order of their start
    feeder,   \* what the feeding goroutine has left, -1 when it has ended
    waiter,   \* where the waiting goroutine is,
    caught,   \* and the stream it took out of the map
    raced     \* history: two /stream overlapped

locals == <<at, mine>>
goroutines == <<feeder, waiter, caught>>
vars == <<url, entry, locals, process, goroutines, raced>>

Streams == 1..MaxStreams

States == {"none", "running", "ended"}

HandlerLabels == {"idle", "exists", "media", "start", "register", "stopping", "kill"}

WaiterLabels == {"none", "wait", "stop", "kill", "done"}

TypeOK ==
    /\ url \in BOOLEAN
    /\ entry \in Streams \cup {None}
    /\ at \in [Handlers -> HandlerLabels]
    /\ mine \in [Handlers -> Streams \cup {None}]
    /\ process \in [Streams -> States]
    /\ feeder \in [Streams -> -1..Chunks]
    /\ waiter \in [Streams -> WaiterLabels]
    /\ caught \in [Streams -> Streams \cup {None}]
    /\ raced \in BOOLEAN

Init ==
    /\ url = FALSE
    /\ entry = None
    /\ at = [h \in Handlers |-> "idle"]
    /\ mine = [h \in Handlers |-> None]
    /\ process = [s \in Streams |-> "none"]
    /\ feeder = [s \in Streams |-> -1]
    /\ waiter = [s \in Streams |-> "none"]
    /\ caught = [s \in Streams |-> None]
    /\ raced = FALSE

-----------------------------------------------------------------------------
Goto(h, l) == at' = [at EXCEPT ![h] = l]

(* stopStream: one step takes the entry away, another kills its process.   *)
Take == entry' = None

Kill(s) == process' = [process EXCEPT ![s] = "ended"]

(* /setrtmp, in private, by an administrator who may manage calls of a     *)
(* chat where the bot may, with an address of the right form.              *)
SetUrl ==
    /\ ~url
    /\ url' = TRUE
    /\ UNCHANGED <<entry, locals, process, goroutines, raced>>

-----------------------------------------------------------------------------
(* /stream.                                                                *)

(* The address first ...                                                   *)
Stream(h) ==
    /\ at[h] = "idle" /\ url
    /\ Goto(h, "exists")
    /\ UNCHANGED <<url, entry, mine, process, goroutines, raced>>

(* ... then streamExists, under the lock and no longer ...                 *)
Exists(h) ==
    /\ at[h] = "exists"
    /\ Goto(h, IF entry = None THEN "media" ELSE "idle")
    /\ UNCHANGED <<url, entry, mine, process, goroutines, raced>>

(* ... then the message with the media is fetched.                         *)
Media(h) ==
    /\ at[h] = "media"
    /\ Goto(h, "start") \/ Goto(h, "idle")
    /\ UNCHANGED <<url, entry, mine, process, goroutines, raced>>

(* startStream starts ffmpeg ...                                           *)
Start(h) ==
    /\ at[h] = "start"
    /\ \/ \E s \in Streams :
             /\ process[s] = "none" /\ \A r \in 1..(s - 1) : process[r] # "none"
             /\ process' = [process EXCEPT ![s] = "running"]
             /\ mine' = [mine EXCEPT ![h] = s]
             /\ Goto(h, "register")
       \/ "error" \in Faults /\ Goto(h, "idle") /\ UNCHANGED <<process, mine>>
    /\ UNCHANGED <<url, entry, goroutines, raced>>

(* ... enters it into the map, whatever is there, and starts its two       *)
(* goroutines.                                                             *)
Register(h) ==
    LET s == mine[h]
    IN /\ at[h] = "register"
       /\ entry' = s
       /\ feeder' = [feeder EXCEPT ![s] = Chunks]
       /\ waiter' = [waiter EXCEPT ![s] = "wait"]
       /\ mine' = [mine EXCEPT ![h] = None]
       /\ Goto(h, "idle")
       /\ raced' = (raced \/ entry # None)
       /\ UNCHANGED <<url, process, caught>>

-----------------------------------------------------------------------------
(* The goroutines of a stream, and ffmpeg.                                 *)

(* A chunk is downloaded and written; after the last one, and when either  *)
(* fails, as writing to an ended process does, the input is closed.        *)
Feed(s) ==
    /\ feeder[s] >= 0
    /\ \/ process[s] = "running" /\ feeder' = [feeder EXCEPT ![s] = @ - 1]
       \/ /\ process[s] = "ended" \/ "error" \in Faults
          /\ feeder' = [feeder EXCEPT ![s] = -1]
    /\ UNCHANGED <<url, entry, locals, process, waiter, caught, raced>>

(* ffmpeg may end once it has all of its input, or fail before that.       *)
Exit(s) ==
    /\ process[s] = "running"
    /\ (waiter[s] # "none" /\ feeder[s] = -1) \/ "exit" \in Faults
    /\ process' = [process EXCEPT ![s] = "ended"]
    /\ UNCHANGED <<url, entry, locals, goroutines, raced>>

(* cmd.Wait returns ...                                                    *)
Wait(s) ==
    /\ waiter[s] = "wait" /\ process[s] = "ended"
    /\ waiter' = [waiter EXCEPT ![s] = "stop"]
    /\ UNCHANGED <<url, entry, locals, process, feeder, caught, raced>>

(* Mutant: the entry stays when the process has ended.                     *)
WaiterKeeps(s) ==
    /\ waiter[s] = "stop"
    /\ waiter' = [waiter EXCEPT ![s] = "done"]
    /\ UNCHANGED <<url, entry, locals, process, feeder, caught, raced>>

(* ... and stopStream takes whatever stream the chat has by now ...        *)
WaiterTakes(s) ==
    /\ waiter[s] = "stop"
    /\ Take
    /\ caught' = [caught EXCEPT ![s] = entry]
    /\ waiter' = [waiter EXCEPT ![s] = IF entry = None THEN "done" ELSE "kill"]
    /\ UNCHANGED <<url, locals, process, feeder, raced>>

(* ... and kills it.                                                       *)
WaiterKills(s) ==
    /\ waiter[s] = "kill"
    /\ Kill(caught[s])
    /\ caught' = [caught EXCEPT ![s] = None]
    /\ waiter' = [waiter EXCEPT ![s] = "done"]
    /\ UNCHANGED <<url, entry, locals, feeder, raced>>

-----------------------------------------------------------------------------
(* /stopstream: is there a stream, take it out of the map, kill it.        *)

StopStream(h) ==
    /\ at[h] = "idle" /\ entry # None
    /\ Goto(h, "stopping")
    /\ UNCHANGED <<url, entry, mine, process, goroutines, raced>>

StopTakes(h) ==
    /\ at[h] = "stopping"
    /\ Take
    /\ mine' = [mine EXCEPT ![h] = entry]
    /\ Goto(h, IF entry = None THEN "idle" ELSE "kill")
    /\ UNCHANGED <<url, process, goroutines, raced>>

(* Mutant: the entry goes and the process stays.                           *)
StopKeeps(h) ==
    /\ at[h] = "kill"
    /\ mine' = [mine EXCEPT ![h] = None]
    /\ Goto(h, "idle")
    /\ UNCHANGED <<url, entry, process, goroutines, raced>>

StopKills(h) ==
    /\ at[h] = "kill"
    /\ Kill(mine[h])
    /\ mine' = [mine EXCEPT ![h] = None]
    /\ Goto(h, "idle")
    /\ UNCHANGED <<url, entry, goroutines, raced>>

-----------------------------------------------------------------------------
HandlerStep(h) ==
    \/ Exists(h) \/ Media(h) \/ Start(h) \/ Register(h) \/ StopTakes(h) \/ StopKills(h)

StreamStep(s) == Feed(s) \/ Wait(s) \/ WaiterTakes(s) \/ WaiterKills(s)

Next ==
    \/ SetUrl
    \/ \E h \in Handlers : Stream(h) \/ StopStream(h) \/ HandlerStep(h)
    \/ \E s \in Streams : StreamStep(s) \/ Exit(s)

Spec == Init /\ [][Next]_vars

(* Goroutines run on; whether ffmpeg ends is not assumed.                  *)
Fairness ==
    /\ \A h \in Handlers : WF_vars(HandlerStep(h))
    /\ \A s \in Streams : WF_vars(StreamStep(s))

FairSpec == Spec /\ Fairness

-----------------------------------------------------------------------------
(* What is expected.                                                       *)

(* Somebody is about to register s or to kill it.                          *)
InHand(s) == (\E h \in Handlers : mine[h] = s) \/ \E r \in Streams : caught[r] = s

(* A process that nobody is about to register or kill is in the map, where *)
(* /liststreams shows it and /stopstream finds it, unless two /stream      *)
(* overlapped: then the first one is lost and streams on.                  *)
RunningIsListed ==
    ~raced => \A s \in Streams : process[s] = "running" => s = entry \/ InHand(s)

(* No entry outlives its process for ever, and the goroutines of a stream  *)
(* that has ended end too: nothing is left of it.                          *)
NothingLeft ==
    []<>(\A s \in Streams :
            process[s] = "ended" => entry # s /\ feeder[s] = -1 /\ waiter[s] \in {"none", "done"})
=============================================================================
