----------------------------- MODULE ChatCache -----------------------------
(***************************************************************************)
(* The per-chat entry of the bot's play queue                              *)
(* (src/src/core/cache/chat_cache.go).                                     *)
(*                                                                         *)
(* ChatCacher is a map from chat ids to ChatData {IsActive, Queue}; every  *)
(* method takes its one mutex for its whole body, so a method is one       *)
(* atomic function of the entry of the chat it is called for.  The         *)
(* operators below are those functions.  A queue holds track objects       *)
(* by pointer: a track here is the identity of such an object, and its     *)
(* Loop field lives with the callers.                                      *)
(***************************************************************************)
EXTENDS Naturals, Sequences

CONSTANTS Tracks,  \* every track object a request can create
          None     \* the nil track of the getters

ASSUME NoneAssumption == None \notin Tracks

(* An entry; "present" tells a missing map key from a stored ChatData.     *)
ChatData == [present : BOOLEAN, active : BOOLEAN, queue : Seq(Tracks)]

NoEntry == [present |-> FALSE, active |-> FALSE, queue |-> <<>>]

-----------------------------------------------------------------------------
(* Queries: a missing entry reads as an inactive chat with no songs.       *)

GetPlayingTrack(e) == IF e.queue = <<>> THEN None ELSE e.queue[1]

GetUpcomingTrack(e) == IF Len(e.queue) < 2 THEN None ELSE e.queue[2]

(* Is a track of S queued?  The caller gives the tracks of one song.        *)
GetTrackIfExists(e, S) == \E i \in 1..Len(e.queue) : e.queue[i] \in S

IsActive(e) == e.present /\ e.active

-----------------------------------------------------------------------------
(* Updates: the entry after the call.                                      *)

(* Mutant: the song that creates the entry is appended to it once more.    *)
AddSongTwice(e, t) ==
    [present |-> TRUE,
     active  |-> e.active \/ ~e.present,
     queue   |-> IF e.present THEN Append(e.queue, t) ELSE <<t, t>>]

AddSong(e, t) ==
    [present |-> TRUE,
     active  |-> e.active \/ ~e.present,
     queue   |-> Append(e.queue, t)]

SetActive(e, b) == [e EXCEPT !.present = TRUE, !.active = b]

ClearChat(e) == NoEntry

(* RemoveTrack takes Go's 0-based index and does nothing out of range.     *)
RemoveTrack(e, i) ==
    [e EXCEPT !.queue =
        IF i < Len(@)
        THEN SubSeq(@, 1, i) \o SubSeq(@, i + 2, Len(@))
        ELSE @]

RemoveCurrentSong(e) ==
    [e EXCEPT !.queue = IF @ = <<>> THEN @ ELSE Tail(@)]
=============================================================================
