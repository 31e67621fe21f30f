----------------------------- MODULE Playlists -----------------------------
(***************************************************************************)
(* The users' playlists: the commands on them                              *)
(* (src/src/handlers/playlist.go), the button that adds the song on air    *)
(* (src/src/handlers/callbacks.go) and the collection in MongoDB           *)
(* (src/src/core/db/playlist.go).                                          *)
(*                                                                         *)
(* A member of Handlers is a goroutine in one handler at a time; every     *)
(* access to MongoDB is a step.  Nothing is locked between them.           *)
(***************************************************************************)
EXTENDS Naturals, FiniteSets, Sequences

CONSTANTS None,      \* no user, no song
          Gone,      \* a deleted playlist
          Handlers,  \* goroutines
          Owners,    \* users with playlists
          Tracks,    \* songs; track_id tells them apart
          Limit,     \* playlists a user may have: 10
          MaxLists,  \* bound: playlists ever created
          MaxSongs,  \* bound: songs in a playlist
          Faults     \* what may fail

ASSUME PlaylistAssumption ==
    /\ IsFiniteSet(Handlers)
    /\ None \notin Tracks
    /\ Limit \in Nat \ {0} /\ MaxLists \in Nat /\ MaxSongs \in Nat

(* "error": MongoDB refuses, or a song cannot be resolved; "answer": the   *)
(* context ends after MongoDB did what it was asked.                       *)
FaultKinds == {"error", "answer"}

VARIABLES
    playlists,  \* the collection, in the order of creation: an id is a place in it
    at,         \* where a goroutine is,
    want,       \* and what it was called for
    clean       \* history: no test for a song has failed or raced

vars == <<playlists, at, want, clean>>

Playlist == [owner : Owners, songs : UNION {[1..n -> Tracks] : n \in 0..MaxSongs}]

Ops == {"create", "delete", "add", "remove", "info", "mine", "pick"}

(* In id and song a handler also keeps what it found out; the id 0 is that *)
(* of no playlist.                                                         *)
Wants == [op : Ops, user : Owners \cup {None}, id : 0..MaxLists, song : Tracks \cup {None}]

Nothing == [op |-> "mine", user |-> None, id |-> 0, song |-> None]

Labels == {"idle", "list", "insert", "fetch", "check", "push", "pull", "delete"}

TypeOK ==
    /\ playlists \in Seq({Gone} \cup Playlist) /\ Len(playlists) <= MaxLists
    /\ at \in [Handlers -> Labels]
    /\ want \in [Handlers -> Wants]
    /\ clean \in BOOLEAN
    /\ \A h \in Handlers :
          /\ at[h] \in {"check", "push", "pull"} => want[h].id # 0 /\ want[h].song # None
          /\ at[h] = "idle" => want[h] = Nothing

Init ==
    /\ playlists = <<>>
    /\ at = [h \in Handlers |-> "idle"]
    /\ want = [h \in Handlers |-> Nothing]
    /\ clean = TRUE

-----------------------------------------------------------------------------
Exists(i) == i \in DOMAIN playlists /\ playlists[i] # Gone

OwnedBy(u) == {i \in DOMAIN playlists : Exists(i) /\ playlists[i].owner = u}

(* The tracks of a list of songs.                                          *)
TracksOf(songs) == {songs[k] : k \in DOMAIN songs}

Goto(h, l) == at' = [at EXCEPT ![h] = l]

Return(h) ==
    /\ Goto(h, "idle")
    /\ want' = [want EXCEPT ![h] = Nothing]

(* A command or a press of the button, some with the id of a playlist that *)
(* there is or has been, some with a song.                                 *)
Call(h) ==
    /\ at[h] = "idle"
    /\ \E op \in Ops, u \in Owners, i \in 0..Len(playlists), t \in Tracks \cup {None} :
          /\ op \in {"create", "mine", "pick"} <=> i = 0
          /\ op \in {"add", "pick"} <=> t # None
          /\ want' = [want EXCEPT ![h] = [op |-> op, user |-> u, id |-> i, song |-> t]]
          /\ Goto(h, IF op \in {"create", "mine", "pick"} THEN "list" ELSE "fetch")
    /\ UNCHANGED <<playlists, clean>>

-----------------------------------------------------------------------------
(* Making playlists.                                                       *)

(* Mutant: one more playlist than the limit.                               *)
CreateLater(h, mine) ==
    IF Cardinality(mine) > Limit
    THEN Return(h)
    ELSE Goto(h, "insert") /\ UNCHANGED want

(* /createplaylist goes on if the user has fewer than ten ...              *)
CreateListed(h, mine) ==
    IF Cardinality(mine) >= Limit
    THEN Return(h)
    ELSE Goto(h, "insert") /\ UNCHANGED want

(* ... the button if there is none, and takes the first one otherwise: any *)
(* of them, since Find does not sort.                                      *)
PickListed(h, mine) ==
    \/ mine = {} /\ Goto(h, "insert") /\ UNCHANGED want
    \/ \E i \in mine :
          /\ want' = [want EXCEPT ![h].id = i]
          /\ Goto(h, "check")

(* /myplaylists shows them.                                                *)
MineListed(h) == Return(h)

(* GetUserPlaylists.                                                       *)
List(h) ==
    /\ at[h] = "list"
    /\ LET mine == OwnedBy(want[h].user)
       IN \/ want[h].op = "create" /\ CreateListed(h, mine)
          \/ want[h].op = "pick" /\ PickListed(h, mine)
          \/ want[h].op = "mine" /\ MineListed(h)
          \/ "error" \in Faults /\ Return(h)
    /\ UNCHANGED <<playlists, clean>>

(* CreatePlaylist: the random id is one that was never used.               *)
Insert(h) ==
    /\ at[h] = "insert"
    /\ \/ /\ Len(playlists) < MaxLists
          /\ playlists' = Append(playlists, [owner |-> want[h].user, songs |-> <<>>])
          /\ \/ want[h].op = "create" /\ Return(h)
             \/ /\ want[h].op = "pick"
                /\ want' = [want EXCEPT ![h].id = Len(playlists')]
                /\ Goto(h, "check")
             \/ "answer" \in Faults /\ Return(h)
       \/ "error" \in Faults /\ Return(h) /\ UNCHANGED playlists
    /\ UNCHANGED clean

-----------------------------------------------------------------------------
(* Using one by its id.                                                    *)

(* /deleteplaylist, only for the owner.                                    *)
DeleteFetched(h, p) ==
    /\ p.owner = want[h].user
    /\ Goto(h, "delete") /\ UNCHANGED want

(* /addtoplaylist resolves the song, which takes its time.                 *)
AddFetched(h, p) ==
    /\ p.owner = want[h].user
    /\ Goto(h, "check") /\ UNCHANGED want

(* Mutant: the index is not turned into a track.                           *)
RemoveIndex(h, p) ==
    /\ p.owner = want[h].user
    /\ Goto(h, "check") /\ UNCHANGED want

(* /removefromplaylist: an index, or a track that is in the list.          *)
RemoveFetched(h, p) ==
    /\ p.owner = want[h].user
    /\ \E t \in TracksOf(p.songs) : want' = [want EXCEPT ![h].song = t]
    /\ Goto(h, "check")

(* /playlistinfo, and the last line of the button's handler.               *)
InfoFetched(h) == Return(h)

(* GetPlaylist.  Not found, not the owner, no such song or index: the      *)
(* handler ends.                                                           *)
Fetch(h) ==
    /\ at[h] = "fetch"
    /\ LET i == want[h].id
       IN \/ /\ Exists(i)
             /\ \/ want[h].op = "delete" /\ DeleteFetched(h, playlists[i])
                \/ want[h].op = "add" /\ AddFetched(h, playlists[i])
                \/ want[h].op = "remove" /\ RemoveFetched(h, playlists[i])
                \/ want[h].op \in {"info", "pick"} /\ InfoFetched(h)
          \/ /\ \/ ~Exists(i) \/ "error" \in Faults
                \/ want[h].op = "remove"
                \/ /\ want[h].op \in {"delete", "add"}
                   /\ i \notin OwnedBy(want[h].user)
             /\ Return(h)
    /\ UNCHANGED <<playlists, clean>>

(* Mutant: the filter of the delete is the owner alone.                    *)
DeleteOthers(h) ==
    /\ at[h] = "delete"
    /\ \E i \in DOMAIN playlists : playlists' = [playlists EXCEPT ![i] = Gone]
    /\ Return(h)
    /\ UNCHANGED clean

(* DeletePlaylist deletes by id and owner.                                 *)
Delete(h) ==
    /\ at[h] = "delete"
    /\ \/ playlists' = IF want[h].id \in OwnedBy(want[h].user)
                       THEN [playlists EXCEPT ![want[h].id] = Gone]
                       ELSE playlists
       \/ "error" \in Faults /\ UNCHANGED playlists
    /\ Return(h)
    /\ UNCHANGED clean

(* Another goroutine is about to add the song that h found missing.        *)
Rival(h, g) ==
    /\ g # h /\ at[g] = "push"
    /\ want[g].id = want[h].id /\ want[g].song = want[h].song

(* Mutant: a song that is there is added again.                            *)
CheckNothing(h) ==
    /\ at[h] = "check"
    /\ Goto(h, IF want[h].op = "remove" THEN "pull" ELSE "push")
    /\ UNCHANGED <<playlists, want, clean>>

(* songExists; an error counts as no.  What is there is not added, what is *)
(* not there is not removed.                                               *)
Check(h) ==
    LET i == want[h].id
        there == Exists(i) /\ want[h].song \in TracksOf(playlists[i].songs)
        adding == want[h].op # "remove"
        Answer(found) ==
            IF found = adding
            THEN IF want[h].op = "pick" THEN Goto(h, "fetch") /\ UNCHANGED want ELSE Return(h)
            ELSE Goto(h, IF adding THEN "push" ELSE "pull") /\ UNCHANGED want
    IN /\ at[h] = "check"
       /\ \/ /\ Answer(there)
             /\ clean' = (clean /\ (adding /\ ~there => \A g \in Handlers : ~Rival(h, g)))
          \/ /\ "error" \in Faults /\ Answer(FALSE)
             /\ clean' = (clean /\ ~adding)
       /\ UNCHANGED playlists

(* Mutant: the update may insert.                                          *)
PushUpserting(h) ==
    /\ at[h] = "push"
    /\ playlists' = [playlists EXCEPT ![want[h].id] =
                        [owner |-> want[h].user, songs |-> <<want[h].song>>]]
    /\ Return(h)
    /\ UNCHANGED clean

(* AddSongToPlaylist: $push, which changes nothing where the playlist has  *)
(* been deleted.                                                           *)
Push(h) ==
    /\ at[h] = "push"
    /\ \/ LET i == want[h].id
          IN IF Exists(i)
             THEN /\ Len(playlists[i].songs) < MaxSongs
                  /\ playlists' = [playlists EXCEPT ![i].songs = Append(@, want[h].song)]
             ELSE UNCHANGED playlists
       \/ "error" \in Faults /\ UNCHANGED playlists
    /\ \/ want[h].op = "pick" /\ Goto(h, "fetch") /\ UNCHANGED want
       \/ (want[h].op = "add" \/ Faults # {}) /\ Return(h)
    /\ UNCHANGED clean

(* The songs but t, in their order: the n-th of them is the one with n of  *)
(* them up to itself.                                                      *)
Without(songs, t) ==
    LET kept == {k \in DOMAIN songs : songs[k] # t}
        Rank(k) == Cardinality({j \in kept : j <= k})
    IN [n \in 1..Cardinality(kept) |-> songs[CHOOSE k \in kept : Rank(k) = n]]

(* RemoveSongFromPlaylist: $pull takes out every song with that track_id.  *)
Pull(h) ==
    /\ at[h] = "pull"
    /\ \/ LET i == want[h].id
          IN playlists' = IF Exists(i)
                          THEN [playlists EXCEPT ![i].songs = Without(@, want[h].song)]
                          ELSE playlists
       \/ "error" \in Faults /\ UNCHANGED playlists
    /\ Return(h)
    /\ UNCHANGED clean

-----------------------------------------------------------------------------
Step(h) ==
    \/ List(h) \/ Insert(h) \/ Fetch(h) \/ Delete(h)
    \/ Check(h) \/ Push(h) \/ Pull(h)

Next == \E h \in Handlers : Call(h) \/ Step(h)

Spec == Init /\ [][Next]_vars

-----------------------------------------------------------------------------
(* What is expected.                                                       *)

(* The test for ten playlists and the insert are apart, so a user may get  *)
(* more than ten; but not more than one for each further handler that runs *)
(* at the same time, however long they keep trying.                        *)
LimitOvershoot ==
    \A u \in Owners : Cardinality(OwnedBy(u)) <= Limit + Cardinality(Handlers) - 1

(* A playlist holds no song twice, unless a test for the song failed or    *)
(* two additions of one song overlapped.                                   *)
NoTwins ==
    clean => \A i \in DOMAIN playlists : Exists(i) =>
        \A j, k \in DOMAIN playlists[i].songs :
            playlists[i].songs[j] = playlists[i].songs[k] => j = k

(* A deleted playlist does not come back, though a handler that found it   *)
(* earlier still adds its song, and ids keep their owner.                  *)
DeletedStaysGone ==
    [][\A i \in DOMAIN playlists :
          \/ playlists'[i] = Gone
          \/ playlists[i] # Gone /\ playlists'[i].owner = playlists[i].owner]_vars

(* A playlist changes or goes only by a handler of its owner, whose right  *)
(* was looked at some steps before.                                        *)
OwnersOnly ==
    [][\A i \in DOMAIN playlists : playlists[i] # Gone /\ playlists'[i] # playlists[i] =>
          \E h \in Handlers : at'[h] # at[h] /\ want[h].user = playlists[i].owner]_vars
=============================================================================
