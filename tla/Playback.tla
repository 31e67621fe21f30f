------------------------------ MODULE Playback ------------------------------
(***************************************************************************)
(* Playback in one chat: the bot's command handlers                        *)
(* (src/src/handlers), the queue they share (ChatCache) and the voice-call *)
(* controller that advances it (src/src/vc/calls.go).                      *)
(*                                                                         *)
(* Every update and every stream-end callback runs in a goroutine of its   *)
(* own.  Nothing serialises the goroutines of one chat: only the single    *)
(* ChatCache calls are atomic.  A member of Handlers is such a goroutine;  *)
(* a step is what one does between two accesses to shared state.  All the  *)
(* calls the handlers make are tail calls (skip calls PlayNext, PlayNext   *)
(* calls playSong, playSong calls PlayNext again or PlayMedia, ...), so a  *)
(* program counter and a few locals are a whole goroutine.                 *)
(*                                                                         *)
(* Left out: wording and languages, permissions (checked before the        *)
(* handlers run), thumbnails, and how the assistant connects to the call.  *)
(***************************************************************************)
EXTENDS ChatCache, FiniteSets

CONSTANTS Handlers,     \* goroutines that may run at the same time
          MediaTracks,  \* tracks that are files attached to a message
          TooLong,      \* tracks longer than SongDurationLimit
          TrackID,      \* TrackID[t]: the platform's id of the song t is of
          MaxQueue,     \* handlePlay refuses when the queue is longer (10)
          MaxBatch,     \* longest playlist a request brings (model bound)
          MaxLoop,      \* largest argument of /loop (10)
          Faults,       \* calls that may fail, a subset of FaultKinds
          Events        \* chat events that may happen, of EventKinds

(* "message": the bot cannot send; "assistant": no assistant for the chat; *)
(* "download": no file; "media": joining or playing in the call fails.     *)
FaultKinds == {"message", "assistant", "download", "media"}

EventKinds == {"vc_started", "vc_ended", "assistant_left", "bot_left"}

ASSUME ConstantsAssumption ==
    /\ IsFiniteSet(Handlers)
    /\ MediaTracks \subseteq Tracks
    /\ TooLong \subseteq Tracks
    /\ MaxQueue \in Nat
    /\ MaxBatch \in Nat \ {0}
    /\ MaxLoop \in Nat \ {0}
    /\ Faults \subseteq FaultKinds
    /\ Events \subseteq EventKinds

VARIABLES
    chat,       \* the chat's entry in ChatCache
    loop,       \* loop[t]: the Loop field of t
    ready,      \* tracks whose FilePath is set
    playing,    \* the track the assistant streams into the call, or None
    fresh,      \* tracks nobody has requested yet
    tried,      \* history: tracks the bot has set about playing
    pc,         \* where each goroutine is
    cur,        \* the track a goroutine works on
    batch,      \* the tracks a goroutine's request has yet to queue
    num,        \* the loop count or queue position a goroutine has read
    wasActive   \* handleMultipleTracks: isActive, read once at its start

queueVars == <<chat, loop>>
trackVars == <<fresh, ready, tried>>
localVars == <<cur, batch, num, wasActive>>
vars == <<queueVars, trackVars, playing, pc, localVars>>

Labels == {"idle", "search", "gate", "enqueue", "download", "activate", "add",
           "snapshot", "batch", "loop", "decrement", "current", "upcoming",
           "advance", "finish", "announce", "prepare", "media", "stop",
           "hangup", "clear", "setloop", "remove"}

(* Labels at which a goroutine still holds the song of a single request.   *)
SingleLabels == {"search", "gate", "enqueue", "download", "activate", "add"}

(* Labels at which a goroutine is about to play its current song.          *)
PlayLabels == {"advance", "announce", "prepare", "media"}

(* What a goroutine's locals hold where it uses them.                      *)
LocalsOK(h) ==
    /\ pc[h] \in SingleLabels => Len(batch[h]) = 1
    /\ Len(batch[h]) <= MaxBatch
    /\ pc[h] \in PlayLabels => cur[h] \in Tracks
    /\ pc[h] = "decrement" => num[h] \in 1..MaxLoop
    /\ pc[h] = "setloop" => num[h] \in 0..MaxLoop

DataOK ==
    /\ chat \in ChatData
    /\ loop \in [Tracks -> 0..MaxLoop]
    /\ ready \subseteq Tracks
    /\ playing \in Tracks \cup {None}
    /\ fresh \subseteq Tracks
    /\ tried \subseteq Tracks

ControlOK ==
    /\ pc \in [Handlers -> Labels]
    /\ cur \in [Handlers -> Tracks \cup {None}]
    /\ batch \in [Handlers -> Seq(Tracks)]
    /\ num \in [Handlers -> Nat]
    /\ wasActive \in [Handlers -> BOOLEAN]
    /\ \A h \in Handlers : LocalsOK(h)

(* The type invariant, and what a goroutine's locals hold where they are   *)
(* used: a song to queue, a song to play, a loop count within /loop's range*)
TypeOK == DataOK /\ ControlOK

Init ==
    /\ chat = NoEntry
    /\ loop = [t \in Tracks |-> 0]
    /\ ready = {}
    /\ playing = None
    /\ fresh = Tracks
    /\ tried = {}
    /\ pc = [h \in Handlers |-> "idle"]
    /\ cur = [h \in Handlers |-> None]
    /\ batch = [h \in Handlers |-> <<>>]
    /\ num = [h \in Handlers |-> 0]
    /\ wasActive = [h \in Handlers |-> FALSE]

-----------------------------------------------------------------------------
(* Control of one goroutine.                                               *)

Goto(h, l) == pc' = [pc EXCEPT ![h] = l] /\ UNCHANGED localVars

GotoWith(h, l, t) ==
    /\ pc' = [pc EXCEPT ![h] = l]
    /\ cur' = [cur EXCEPT ![h] = t]
    /\ UNCHANGED <<batch, num, wasActive>>

GotoNum(h, l, n) ==
    /\ pc' = [pc EXCEPT ![h] = l]
    /\ num' = [num EXCEPT ![h] = n]
    /\ UNCHANGED <<cur, batch, wasActive>>

Return(h) ==
    /\ pc' = [pc EXCEPT ![h] = "idle"]
    /\ cur' = [cur EXCEPT ![h] = None]
    /\ batch' = [batch EXCEPT ![h] = <<>>]
    /\ num' = [num EXCEPT ![h] = 0]
    /\ wasActive' = [wasActive EXCEPT ![h] = FALSE]

At(h, l) == pc[h] = l

MayFail(f) == f \in Faults

-----------------------------------------------------------------------------
(* /play with one song: handlePlay, then handleTextSearch, handleUrl or    *)
(* handleMedia, then handleSingleTrack.                                    *)

(* Mutant: handlePlay does not test the length of the queue.               *)
PlayUnlimited(h) ==
    /\ At(h, "idle")
    /\ \E t \in fresh :
        /\ fresh' = fresh \ {t}
        /\ batch' = [batch EXCEPT ![h] = <<t>>]
    /\ pc' = [pc EXCEPT ![h] = "search"]
    /\ UNCHANGED <<queueVars, ready, tried, playing, cur, num, wasActive>>

(* handlePlay's test of the queue length; a longer queue is refused.       *)
Play(h) ==
    /\ At(h, "idle")
    /\ Len(chat.queue) <= MaxQueue
    /\ \E t \in fresh :
        /\ fresh' = fresh \ {t}
        /\ batch' = [batch EXCEPT ![h] = <<t>>]
    /\ pc' = [pc EXCEPT ![h] = "search"]
    /\ UNCHANGED <<queueVars, ready, tried, playing, cur, num, wasActive>>

(* The search may find nothing; a song already queued, or one that is too  *)
(* long, is refused (handleMedia tests the length only after its download).*)
Search(h) ==
    /\ At(h, "search")
    /\ LET t == Head(batch[h])
           same == {u \in Tracks : TrackID[u] = TrackID[t]}
       IN  \/ Return(h)
           \/ /\ ~GetTrackIfExists(chat, same)
              /\ t \in MediaTracks \/ t \notin TooLong
              /\ Goto(h, "gate")
    /\ UNCHANGED <<queueVars, trackVars, playing>>

(* IsActive decides between queueing the song and playing it at once.      *)
Gate(h) ==
    /\ At(h, "gate")
    /\ Goto(h, IF IsActive(chat) THEN "enqueue"
               ELSE IF Head(batch[h]) \in ready THEN "activate"
               ELSE "download")
    /\ UNCHANGED <<queueVars, trackVars, playing>>

Enqueue(h) ==
    /\ At(h, "enqueue")
    /\ chat' = AddSong(chat, Head(batch[h]))
    /\ Return(h)
    /\ UNCHANGED <<loop, trackVars, playing>>

(* handleMedia passes the downloaded file to handleSingleTrack, which      *)
(* tests the length and asks IsActive once more; other songs are           *)
(* downloaded inside handleSingleTrack, after those tests.                 *)
Download(h) ==
    /\ At(h, "download")
    /\ LET t == Head(batch[h])
       IN  \/ /\ ready' = ready \cup {t}
              /\ IF t \notin MediaTracks THEN Goto(h, "activate")
                 ELSE IF t \in TooLong THEN Return(h)
                 ELSE Goto(h, "gate")
           \/ MayFail("download") /\ Return(h) /\ UNCHANGED ready
    /\ UNCHANGED <<queueVars, fresh, tried, playing>>

Activate(h) ==
    /\ At(h, "activate")
    /\ chat' = SetActive(chat, TRUE)
    /\ Goto(h, "add")
    /\ UNCHANGED <<loop, trackVars, playing>>

Add(h) ==
    /\ At(h, "add")
    /\ chat' = AddSong(chat, Head(batch[h]))
    /\ tried' = tried \cup {Head(batch[h])}
    /\ cur' = [cur EXCEPT ![h] = Head(batch[h])]
    /\ batch' = [batch EXCEPT ![h] = <<>>]
    /\ pc' = [pc EXCEPT ![h] = "media"]
    /\ UNCHANGED <<loop, fresh, ready, playing, num, wasActive>>

-----------------------------------------------------------------------------
(* /play with a playlist: handlePlay, then handleMultipleTracks.           *)

PlayMany(h) ==
    /\ At(h, "idle")
    /\ Len(chat.queue) <= MaxQueue
    /\ \E n \in 0..MaxBatch : \E ts \in [1..n -> fresh] :
        /\ \A i, j \in 1..n : ts[i] = ts[j] => i = j
        /\ fresh' = fresh \ {ts[i] : i \in 1..n}
        /\ batch' = [batch EXCEPT ![h] = ts]
        /\ cur' = [cur EXCEPT ![h] = IF n = 0 THEN None ELSE ts[1]]
    /\ pc' = [pc EXCEPT ![h] = "snapshot"]
    /\ UNCHANGED <<queueVars, ready, tried, playing, num, wasActive>>

Snapshot(h) ==
    /\ At(h, "snapshot")
    /\ \/ Return(h)
       \/ /\ pc' = [pc EXCEPT ![h] = "batch"]
          /\ wasActive' = [wasActive EXCEPT ![h] = IsActive(chat)]
          /\ UNCHANGED <<cur, batch, num>>
    /\ UNCHANGED <<queueVars, trackVars, playing>>

(* Mutant: the first track of the list gets no Loop = 1.                   *)
QueueTrackNoLoop(h) ==
    /\ At(h, "batch")
    /\ batch[h] # <<>>
    /\ chat' = IF Head(batch[h]) \in TooLong THEN chat
               ELSE AddSong(chat, Head(batch[h]))
    /\ batch' = [batch EXCEPT ![h] = Tail(@)]
    /\ UNCHANGED <<loop, trackVars, playing, pc, cur, num, wasActive>>

(* The first track of the list (cur) gets Loop = 1 when the chat was not   *)
(* active, so that the PlayNext that follows plays it.                     *)
QueueTrack(h) ==
    /\ At(h, "batch")
    /\ batch[h] # <<>>
    /\ LET t == Head(batch[h])
       IN  IF t \in TooLong THEN UNCHANGED queueVars
           ELSE /\ chat' = AddSong(chat, t)
                /\ loop' = IF ~wasActive[h] /\ t = cur[h]
                           THEN [loop EXCEPT ![t] = 1] ELSE loop
    /\ batch' = [batch EXCEPT ![h] = Tail(@)]
    /\ UNCHANGED <<trackVars, playing, pc, cur, num, wasActive>>

BatchDone(h) ==
    /\ At(h, "batch")
    /\ batch[h] = <<>>
    /\ IF wasActive[h] THEN Return(h) ELSE GotoWith(h, "loop", None)
    /\ UNCHANGED <<queueVars, trackVars, playing>>

-----------------------------------------------------------------------------
(* PlayNext.                                                               *)

ReadLoop(h) ==
    /\ At(h, "loop")
    /\ LET t == GetPlayingTrack(chat)
           n == IF t = None THEN 0 ELSE loop[t]   \* GetLoopCount
       IN  GotoNum(h, IF n > 0 THEN "decrement" ELSE "upcoming", n)
    /\ UNCHANGED <<queueVars, trackVars, playing>>

(* SetLoopCount writes to whatever song heads the queue by now.            *)
SetLoopCount(n) ==
    loop' = IF chat.queue = <<>> THEN loop
            ELSE [loop EXCEPT ![chat.queue[1]] = n]

(* Mutant: PlayNext writes the loop count back as it was.                  *)
DecrementNothing(h) ==
    /\ At(h, "decrement")
    /\ SetLoopCount(num[h])
    /\ Goto(h, "current")
    /\ UNCHANGED <<chat, trackVars, playing>>

Decrement(h) ==
    /\ At(h, "decrement")
    /\ SetLoopCount(num[h] - 1)
    /\ Goto(h, "current")
    /\ UNCHANGED <<chat, trackVars, playing>>

Repeat(h) ==
    /\ At(h, "current")
    /\ LET t == GetPlayingTrack(chat)
       IN  IF t = None THEN Goto(h, "upcoming") /\ UNCHANGED tried
           ELSE GotoWith(h, "announce", t) /\ tried' = tried \cup {t}
    /\ UNCHANGED <<queueVars, fresh, ready, playing>>

Upcoming(h) ==
    /\ At(h, "upcoming")
    /\ LET t == GetUpcomingTrack(chat)
       IN  GotoWith(h, IF t = None THEN "finish" ELSE "advance", t)
    /\ UNCHANGED <<queueVars, trackVars, playing>>

(* The song to play was read before; RemoveCurrentSong drops whatever      *)
(* heads the queue now.                                                    *)
Advance(h) ==
    /\ At(h, "advance")
    /\ chat' = RemoveCurrentSong(chat)
    /\ tried' = tried \cup {cur[h]}
    /\ Goto(h, "announce")
    /\ UNCHANGED <<loop, fresh, ready, playing>>

Finish(h) ==
    /\ At(h, "finish")
    /\ chat' = RemoveCurrentSong(chat)
    /\ Goto(h, "stop")
    /\ UNCHANGED <<loop, trackVars, playing>>

-----------------------------------------------------------------------------
(* playSong, PlayMedia and Stop.                                           *)

(* playSong first sends a message and gives up when that fails.            *)
Announce(h) ==
    /\ At(h, "announce")
    /\ \/ Goto(h, "prepare")
       \/ MayFail("message") /\ Return(h)
    /\ UNCHANGED <<queueVars, trackVars, playing>>

(* downloadAndPrepareSong: a song with a file needs nothing; when the      *)
(* download fails playSong calls PlayNext.                                 *)
Prepare(h) ==
    /\ At(h, "prepare")
    /\ \/ ready' = ready \cup {cur[h]} /\ Goto(h, "media")
       \/ /\ cur[h] \notin ready
          /\ MayFail("download")
          /\ GotoWith(h, "loop", None)
          /\ UNCHANGED ready
    /\ UNCHANGED <<queueVars, fresh, tried, playing>>

(* Mutant: a failed call.Play leaves the queue alone.                      *)
PlayMediaNoClear(h) ==
    /\ At(h, "media")
    /\ \/ playing' = cur[h]
       \/ MayFail("assistant") /\ UNCHANGED playing
       \/ MayFail("media") /\ UNCHANGED playing
    /\ Return(h)
    /\ UNCHANGED <<chat, loop, trackVars>>

(* PlayMedia: without an assistant it only returns an error; when joining  *)
(* or playing fails it clears the chat.                                    *)
PlayMedia(h) ==
    /\ At(h, "media")
    /\ \/ playing' = cur[h] /\ UNCHANGED chat
       \/ MayFail("assistant") /\ UNCHANGED <<playing, chat>>
       \/ MayFail("media") /\ chat' = ClearChat(chat) /\ UNCHANGED playing
    /\ Return(h)
    /\ UNCHANGED <<loop, trackVars>>

Stop(h) ==
    /\ At(h, "stop")
    /\ \/ chat' = ClearChat(chat) /\ Goto(h, "hangup")
       \/ MayFail("assistant") /\ Return(h) /\ UNCHANGED chat
    /\ UNCHANGED <<loop, trackVars, playing>>

(* call.Stop; its errors are ignored.                                      *)
HangUp(h) ==
    /\ At(h, "hangup")
    /\ playing' = None
    /\ Return(h)
    /\ UNCHANGED <<queueVars, trackVars>>

-----------------------------------------------------------------------------
(* The other commands and the events that start a goroutine.               *)

(* skipHandler, and the skip button.                                       *)
Skip(h) ==
    /\ At(h, "idle")
    /\ IsActive(chat)
    /\ Goto(h, "loop")
    /\ UNCHANGED <<queueVars, trackVars, playing>>

(* stopHandler, and the stop button.                                       *)
StopCommand(h) ==
    /\ At(h, "idle")
    /\ IsActive(chat)
    /\ Goto(h, "stop")
    /\ UNCHANGED <<queueVars, trackVars, playing>>

(* seekHandler and speedHandler play the current song again with other     *)
(* ffmpeg parameters.                                                      *)
Replay(h) ==
    /\ At(h, "idle")
    /\ IsActive(chat)
    /\ GetPlayingTrack(chat) # None
    /\ GotoWith(h, "media", GetPlayingTrack(chat))
    /\ UNCHANGED <<queueVars, trackVars, playing>>

(* Mutant: loopHandler's range test lets one more through.                 *)
LoopCommandUnchecked(h) ==
    /\ At(h, "idle")
    /\ IsActive(chat)
    /\ \E n \in 0..(MaxLoop + 1) : GotoNum(h, "setloop", n)
    /\ UNCHANGED <<queueVars, trackVars, playing>>

LoopCommand(h) ==
    /\ At(h, "idle")
    /\ IsActive(chat)
    /\ \E n \in 0..MaxLoop : GotoNum(h, "setloop", n)
    /\ UNCHANGED <<queueVars, trackVars, playing>>

SetLoop(h) ==
    /\ At(h, "setloop")
    /\ SetLoopCount(num[h])
    /\ Return(h)
    /\ UNCHANGED <<chat, trackVars, playing>>

(* removeHandler checks the number against a copy of the queue.            *)
RemoveCommand(h) ==
    /\ At(h, "idle")
    /\ IsActive(chat)
    /\ \E n \in 1..Len(chat.queue) : GotoNum(h, "remove", n)
    /\ UNCHANGED <<queueVars, trackVars, playing>>

(* Mutant: the number is turned into an index by taking 1 off.             *)
RemoveShifted(h) ==
    /\ At(h, "remove")
    /\ chat' = RemoveTrack(chat, num[h] - 1)
    /\ Return(h)
    /\ UNCHANGED <<loop, trackVars, playing>>

Remove(h) ==
    /\ At(h, "remove")
    /\ chat' = RemoveTrack(chat, num[h])
    /\ Return(h)
    /\ UNCHANGED <<loop, trackVars, playing>>

(* The song ends; OnStreamEnd runs PlayNext in a goroutine of its own.     *)
StreamEnd(h) ==
    /\ At(h, "idle")
    /\ playing # None
    /\ playing' = None
    /\ Goto(h, "loop")
    /\ UNCHANGED <<queueVars, trackVars>>

(* The video chat starts or ends (handleVoiceChatMessage), or the          *)
(* assistant leaves or is banned (handleLeave, handleBan): ClearChat, with *)
(* no Stop.  At its end the call is discarded, and the stream with it.     *)
ClearEvent(h) ==
    /\ At(h, "idle")
    /\ \E e \in Events \ {"bot_left"} :
        playing' = IF e = "vc_ended" THEN None ELSE playing
    /\ Goto(h, "clear")
    /\ UNCHANGED <<queueVars, trackVars>>

Clear(h) ==
    /\ At(h, "clear")
    /\ chat' = ClearChat(chat)
    /\ Return(h)
    /\ UNCHANGED <<loop, trackVars, playing>>

(* The bot itself leaves or is banned: Stop, whether active or not.        *)
BotLeaves(h) ==
    /\ At(h, "idle")
    /\ "bot_left" \in Events
    /\ Goto(h, "stop")
    /\ UNCHANGED <<queueVars, trackVars, playing>>

-----------------------------------------------------------------------------
(* What users and the environment may start, and what a started goroutine  *)
(* does next.                                                              *)
Start(h) ==
    \/ Play(h) \/ PlayMany(h) \/ Skip(h) \/ StopCommand(h) \/ Replay(h)
    \/ LoopCommand(h) \/ RemoveCommand(h) \/ StreamEnd(h)
    \/ ClearEvent(h) \/ BotLeaves(h)

Continue(h) ==
    \/ Search(h) \/ Gate(h) \/ Enqueue(h) \/ Download(h) \/ Activate(h)
    \/ Add(h) \/ Snapshot(h) \/ QueueTrack(h) \/ BatchDone(h)
    \/ ReadLoop(h) \/ Decrement(h) \/ Repeat(h) \/ Upcoming(h)
    \/ Advance(h) \/ Finish(h) \/ Announce(h) \/ Prepare(h)
    \/ PlayMedia(h) \/ Stop(h) \/ HangUp(h) \/ SetLoop(h) \/ Remove(h)
    \/ Clear(h)

Next == \E h \in Handlers : Start(h) \/ Continue(h)

Spec == Init /\ [][Next]_vars

(* The Go scheduler runs every started goroutine, and every call it waits  *)
(* for has a timeout; nobody has to send a command, no song has to end.    *)
FairSpec == Spec /\ \A h \in Handlers : WF_vars(Continue(h))

(* And the songs end: what plays stops in the end, however often it is     *)
(* started again by /seek, and OnStreamEnd is called.                      *)
EndingSpec == FairSpec /\ \A h \in Handlers : SF_vars(StreamEnd(h))
=============================================================================
