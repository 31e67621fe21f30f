------------------------- MODULE PlaybackProperties -------------------------
(***************************************************************************)
(* What is expected of playback in one chat.                               *)
(***************************************************************************)
EXTENDS Playback

AtRest == \A h \in Handlers : pc[h] = "idle"

Queued == {chat.queue[i] : i \in 1..Len(chat.queue)}

(* Songs that requests in progress may still queue.                        *)
Pending == UNION {{batch[h][i] : i \in 1..Len(batch[h])} : h \in Handlers}

(* The queue keeps its promise to the users whatever goroutines interleave:*)
(* the order in which AddSong was called is the order of the queue, no     *)
(* song is queued twice and no song that was skipped, removed, cleared or  *)
(* refused comes back.                                                     *)
SQ == INSTANCE SongQueue
        WITH queue <- chat.queue, past <- Tracks \ (fresh \cup Pending \cup Queued)

KeepsSongQueue == SQ!Spec

(* One slot for every song that a request in progress may still queue.     *)
Slots == {s \in Handlers \X (1..MaxBatch) : s[2] <= Len(batch[s[1]])}

(* handlePlay tests the queue's length long before the song is added, and  *)
(* once for a whole playlist.  The limit is therefore overrun, but the     *)
(* songs queued and those on their way into the queue never exceed it by   *)
(* more than every goroutine bringing one longest playlist.                *)
QueueBound ==
    Len(chat.queue) + Cardinality(Slots)
        <= MaxQueue + Cardinality(Handlers) * MaxBatch

(* /remove leaves the song that is on the air alone: its numbers start at  *)
(* 1, the queue's indices at 0 and index 0 is that song.                   *)
RemoveSparesHead ==
    [][\A h \in Handlers :
         At(h, "remove") /\ pc'[h] = "idle" =>
            GetPlayingTrack(chat') = GetPlayingTrack(chat)]_vars

(* A goroutine returns: a failing download makes PlayNext try the next     *)
(* song, and every retry uses up a song or a loop.  (Somebody who sends    *)
(* /loop for ever could keep a song that cannot be downloaded going.)      *)
HandlersReturn ==
    \/ []<><<\E h \in Handlers : SetLoop(h)>>_vars
    \/ \A h \in Handlers : []<>(pc[h] = "idle")

(* A queued song is not forgotten: as songs end, PlayNext gets to it, and  *)
(* it leaves the queue, unless somebody sends /loop for ever.              *)
SongsLeave ==
    \/ []<><<\E h \in Handlers : SetLoop(h)>>_vars
    \/ \A t \in Tracks : t \in Queued ~> t \notin Queued

(* Between commands the song at the head of the queue is the one on the    *)
(* air: after a song ends, is skipped or fails to download, after a        *)
(* playlist and after a call that cannot be joined.                        *)
HeadOnAir ==
    AtRest /\ chat.queue # <<>> => playing = GetPlayingTrack(chat)

(* PlayNext drops the song that has been on, not one that the bot never    *)
(* set about playing.                                                      *)
NoUntriedDropped ==
    [][\A h \in Handlers :
         At(h, "advance") \/ At(h, "finish") =>
            (pc'[h] # pc[h] => GetPlayingTrack(chat) \in tried \cup {None})]_vars
=============================================================================
