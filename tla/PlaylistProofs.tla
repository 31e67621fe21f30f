--------------------------- MODULE PlaylistProofs ---------------------------
(***************************************************************************)
(* Proofs about Playlists, for all goroutines, users and songs and every   *)
(* bound.                                                                  *)
(***************************************************************************)
EXTENDS Playlists, SequenceTheorems, FiniteSetTheorems, TLAPS

(* A goroutine at work knows its user, and what its command needs.         *)
CalledRight(h) ==
    /\ at[h] # "idle" => want[h].user \in Owners
    /\ at[h] # "idle" /\ want[h].op \in {"add", "pick"} => want[h].song # None
    /\ at[h] = "list" => want[h].op \in {"create", "mine", "pick"}
    /\ at[h] = "insert" => want[h].op \in {"create", "pick"}
    /\ at[h] = "fetch" => want[h].id # 0
    /\ at[h] \in {"check", "push", "pull"} => want[h].op \in {"add", "pick", "remove"}
    /\ at[h] = "push" => want[h].op # "remove"

(* The right that was looked at stays: ids keep their owner.               *)
MayWrite(h) ==
    at[h] \in {"check", "push", "pull"} =>
        /\ want[h].id \in DOMAIN playlists
        /\ Exists(want[h].id) => playlists[want[h].id].owner = want[h].user

(* The goroutines that have passed the test for ten playlists of u.        *)
Inserting(u) == {h \in Handlers : at[h] = "insert" /\ want[h].user = u}

(* Whoever passes it passes it with fewer than ten in the collection and   *)
(* at most all the others about to insert.                                 *)
Room(u) ==
    Cardinality(OwnedBy(u)) + Cardinality(Inserting(u)) <= Limit + Cardinality(Handlers) - 1

(* A song that a goroutine is about to add is not there and nobody else's. *)
PushIsNew(h) ==
    at[h] = "push" =>
        /\ Exists(want[h].id) => want[h].song \notin TracksOf(playlists[want[h].id].songs)
        /\ \A g \in Handlers : ~Rival(h, g)

PlaylistInv ==
    /\ \A h \in Handlers : CalledRight(h) /\ MayWrite(h)
    /\ \A u \in Owners : Room(u)
    /\ NoTwins
    /\ clean => \A h \in Handlers : PushIsNew(h)

-----------------------------------------------------------------------------
(* The songs of r are those of songs but t, each once, in their order: f   *)
(* says which.                                                             *)
Leaves(songs, n, t, r, m, f) ==
    /\ r = [i \in 1..m |-> songs[f[i]]]
    /\ \A i \in 1..m : songs[f[i]] # t
    /\ \A i, j \in 1..m : i < j => f[i] < f[j]
    /\ \A k \in 1..n : songs[k] # t => \E i \in 1..m : f[i] = k

(* That is what $pull leaves.                                              *)
LEMMA WithoutKeeps ==
    ASSUME NEW n \in Nat, NEW songs \in [1..n -> Tracks], NEW t
    PROVE  \E m \in 0..n : \E f \in [1..m -> 1..n] :
               Leaves(songs, n, t, Without(songs, t), m, f)
<1> DEFINE kept == {k \in DOMAIN songs : songs[k] # t}
           UpTo(k) == {j \in kept : j <= k}
           Rank(k) == Cardinality(UpTo(k))
           m == Cardinality(kept)
           rank == [k \in kept |-> Rank(k)]
<1>1. kept \in SUBSET (1..n)
  OBVIOUS
<1>2. IsFiniteSet(kept) /\ m \in 0..n
  <2>1. IsFiniteSet(1..n) /\ Cardinality(1..n) = n
    BY FS_Interval
  <2>2. IsFiniteSet(kept) /\ m <= n
    BY <1>1, <2>1, FS_Subset
  <2> QED
    BY <2>2, FS_CardinalityType
<1>3. ASSUME NEW k \in kept
      PROVE  IsFiniteSet(UpTo(k)) /\ Rank(k) \in 1..m
  <2>1. UpTo(k) \in SUBSET kept
    OBVIOUS
  <2>2. IsFiniteSet(UpTo(k)) /\ Rank(k) <= m
    BY <1>2, <2>1, FS_Subset
  <2>3. Rank(k) \in Nat
    BY <2>2, FS_CardinalityType
  <2>4. k \in UpTo(k)
    OBVIOUS
  <2>5. Rank(k) # 0
    BY <2>2, <2>4, FS_EmptySet
  <2> HIDE DEF m, Rank
  <2> QED
    BY <1>2, <2>2, <2>3, <2>5
<1>4. ASSUME NEW j \in kept, NEW k \in kept, j < k
      PROVE  Rank(j) < Rank(k)
  <2>1. UpTo(j) \in SUBSET UpTo(k)
    BY <1>4
  <2>2. k \in UpTo(k) /\ k \notin UpTo(j)
    BY <1>4
  <2>3. IsFiniteSet(UpTo(k)) /\ Rank(j) \in 1..m /\ Rank(k) \in 1..m
    BY <1>3
  <2>4. Rank(j) <= Rank(k) /\ Rank(j) # Rank(k)
    BY <2>1, <2>2, <2>3, FS_Subset
  <2> HIDE DEF m, Rank
  <2> QED
    BY <2>3, <2>4, <1>2
<1> HIDE DEF Rank, m, UpTo
<1>5. \A j, k \in kept : Rank(j) = Rank(k) => j = k
  <2> SUFFICES ASSUME NEW j \in kept, NEW k \in kept, j # k
               PROVE  Rank(j) # Rank(k)
    OBVIOUS
  <2>1. j < k \/ k < j
    BY <1>1
  <2>2. Rank(j) \in 1..m /\ Rank(k) \in 1..m
    BY <1>3
  <2> QED
    BY <1>2, <1>4, <2>1, <2>2
<1>6. \A i \in 1..m : \E k \in kept : Rank(k) = i
  <2>1. rank \in Injection(kept, 1..m)
    BY <1>3, <1>5 DEF Injection, IsInjective
  <2>2. IsFiniteSet(1..m) /\ Cardinality(1..m) = m
    BY <1>2, FS_Interval
  <2>3. Cardinality(kept) = Cardinality(1..m)
    BY <2>2 DEF m
  <2>4. rank \in Surjection(kept, 1..m)
    BY <2>1, <2>2, <2>3, FS_Injection
  <2> QED
    BY <2>4 DEF Surjection
<1> DEFINE f == [i \in 1..m |-> CHOOSE k \in kept : Rank(k) = i]
<1>7. \A i \in 1..m : f[i] \in kept /\ Rank(f[i]) = i
  BY <1>6
<1>8. f \in [1..m -> 1..n]
  BY <1>1, <1>7
<1>9. Without(songs, t) = [i \in 1..m |-> songs[f[i]]]
  BY DEF Without, m, Rank, UpTo
<1> HIDE DEF f
<1>10. \A i, j \in 1..m : i < j => f[i] < f[j]
  <2> SUFFICES ASSUME NEW i \in 1..m, NEW j \in 1..m, i < j, ~(f[i] < f[j])
               PROVE  FALSE
    OBVIOUS
  <2>1. f[i] = f[j] \/ f[j] < f[i]
    BY <1>8
  <2>2. ~(i < i) /\ ~(j < i)
    BY <1>2
  <2> QED
    BY <1>4, <1>7, <2>1, <2>2
<1>11. \A k \in 1..n : songs[k] # t => \E i \in 1..m : f[i] = k
  <2> SUFFICES ASSUME NEW k \in 1..n, songs[k] # t
               PROVE  \E i \in 1..m : f[i] = k
    OBVIOUS
  <2>1. k \in kept /\ Rank(k) \in 1..m
    BY <1>3
  <2>2. f[Rank(k)] = k
    BY <1>5, <1>7, <2>1
  <2> QED
    BY <2>1, <2>2
<1>12. \A i \in 1..m : songs[f[i]] # t
  BY <1>7
<1> QED
  BY <1>2, <1>8, <1>9, <1>10, <1>11, <1>12 DEF Leaves

-----------------------------------------------------------------------------
(* What becomes of the collection.                                         *)

Distinct(songs) == \A j, k \in DOMAIN songs : songs[j] = songs[k] => j = k

WithSongs(p, songs) == [p EXCEPT !.songs = songs]

LEMMA SongsType ==
    ASSUME NEW p \in Playlist
    PROVE  /\ p.owner \in Owners
           /\ p.songs \in Seq(Tracks)
           /\ \E n \in 0..MaxSongs : p.songs \in [1..n -> Tracks] /\ Len(p.songs) = n
<1>1. PICK n \in 0..MaxSongs : p.songs \in [1..n -> Tracks]
  BY DEF Playlist
<1>2. n \in Nat
  BY PlaylistAssumption
<1>3. p.songs \in Seq(Tracks) /\ Len(p.songs) = n
  BY <1>1, <1>2
<1> QED
  BY <1>1, <1>3 DEF Playlist

LEMMA WithSongsType ==
    ASSUME NEW p \in Playlist, NEW n \in 0..MaxSongs, NEW songs \in [1..n -> Tracks]
    PROVE  /\ WithSongs(p, songs) \in Playlist
           /\ WithSongs(p, songs).owner = p.owner
           /\ WithSongs(p, songs).songs = songs
  BY DEF WithSongs, Playlist

LEMMA NewType ==
    ASSUME NEW u \in Owners
    PROVE  LET p == [owner |-> u, songs |-> <<>>]
           IN p \in Playlist /\ p.owner = u /\ TracksOf(p.songs) = {} /\ Distinct(p.songs)
<1>1. <<>> \in [1..0 -> Tracks] /\ 0 \in 0..MaxSongs
  BY PlaylistAssumption
<1> QED
  BY <1>1 DEF Playlist, TracksOf, Distinct

(* One song more, at the end ...                                           *)
LEMMA PushedType ==
    ASSUME NEW p \in Playlist, NEW t \in Tracks, Len(p.songs) < MaxSongs
    PROVE  LET q == WithSongs(p, Append(p.songs, t))
           IN /\ q \in Playlist /\ q.owner = p.owner
              /\ TracksOf(q.songs) \subseteq TracksOf(p.songs) \cup {t}
              /\ Distinct(p.songs) /\ t \notin TracksOf(p.songs) => Distinct(q.songs)
<1>1. PICK n \in 0..MaxSongs : p.songs \in [1..n -> Tracks] /\ Len(p.songs) = n
  BY SongsType
<1> DEFINE songs == p.songs
           r == Append(songs, t)
<1>2. songs \in Seq(Tracks) /\ n \in Nat /\ n + 1 \in 0..MaxSongs
  BY <1>1, SongsType, PlaylistAssumption
<1>3. /\ r \in Seq(Tracks) /\ Len(r) = n + 1
      /\ \A k \in 1..n : r[k] = songs[k]
      /\ r[n + 1] = t
  BY <1>1, <1>2, AppendProperties
<1> HIDE DEF r
<1>4. r \in [1..(n + 1) -> Tracks] /\ DOMAIN r = 1..(n + 1) /\ DOMAIN songs = 1..n
  BY <1>1, <1>2, <1>3
<1>5. /\ WithSongs(p, r) \in Playlist
      /\ WithSongs(p, r).owner = p.owner /\ WithSongs(p, r).songs = r
  BY <1>2, <1>4, WithSongsType
<1>6. \A k \in 1..(n + 1) : k \in 1..n \/ k = n + 1
  BY <1>2
<1>7. TracksOf(r) \subseteq TracksOf(songs) \cup {t}
  BY <1>3, <1>4, <1>6 DEF TracksOf
<1>8. ASSUME Distinct(songs), t \notin TracksOf(songs) PROVE Distinct(r)
  <2>1. \A k \in 1..n : songs[k] # t
    BY <1>4, <1>8 DEF TracksOf
  <2> QED
    BY <1>3, <1>4, <1>6, <1>8, <2>1 DEF Distinct
<1> QED
  BY <1>5, <1>7, <1>8 DEF r

(* ... or all of one song gone.                                            *)
LEMMA PulledType ==
    ASSUME NEW p \in Playlist, NEW t
    PROVE  LET q == WithSongs(p, Without(p.songs, t))
           IN /\ q \in Playlist /\ q.owner = p.owner
              /\ TracksOf(q.songs) \subseteq TracksOf(p.songs)
              /\ Distinct(p.songs) => Distinct(q.songs)
<1> DEFINE songs == p.songs
           r == Without(songs, t)
<1>1. PICK n \in 0..MaxSongs : songs \in [1..n -> Tracks]
  BY SongsType
<1>2. n \in Nat
  BY PlaylistAssumption
<1>3. PICK m \in 0..n : \E f \in [1..m -> 1..n] : Leaves(songs, n, t, r, m, f)
  BY <1>1, <1>2, WithoutKeeps DEF r
<1>4. PICK f \in [1..m -> 1..n] : Leaves(songs, n, t, r, m, f)
  BY <1>3
<1>5. /\ r = [i \in 1..m |-> songs[f[i]]]
      /\ \A i, j \in 1..m : i < j => f[i] < f[j]
  BY <1>4 DEF Leaves
<1> HIDE DEF r
<1>6. r \in [1..m -> Tracks] /\ m \in 0..MaxSongs
  BY <1>1, <1>2, <1>5, PlaylistAssumption
<1>7. /\ WithSongs(p, r) \in Playlist
      /\ WithSongs(p, r).owner = p.owner /\ WithSongs(p, r).songs = r
  BY <1>6, WithSongsType
<1>8. TracksOf(r) \subseteq TracksOf(songs)
  BY <1>1, <1>5 DEF TracksOf
<1>9. ASSUME Distinct(songs) PROVE Distinct(r)
  <2> SUFFICES ASSUME NEW i \in 1..m, NEW j \in 1..m, r[i] = r[j], i # j
               PROVE  FALSE
    BY <1>6 DEF Distinct
  <2>1. f[i] = f[j]
    BY <1>1, <1>5, <1>9 DEF Distinct
  <2>2. i < j \/ j < i
    BY <1>2
  <2>3. ~(f[i] < f[i])
    BY <1>2
  <2> QED
    BY <1>5, <2>1, <2>2, <2>3
<1> QED
  BY <1>7, <1>8, <1>9 DEF r

-----------------------------------------------------------------------------
(* The steps, by what they do to the collection.                           *)

Made(h) ==
    /\ at[h] = "insert" /\ Len(playlists) < MaxLists
    /\ playlists' = Append(playlists, [owner |-> want[h].user, songs |-> <<>>])

(* The playlist i becomes p.                                               *)
Becomes(i, p) == playlists' = [playlists EXCEPT ![i] = p]

Pushed(h, i) ==
    /\ at[h] = "push" /\ i = want[h].id /\ Len(playlists[i].songs) < MaxSongs
    /\ Becomes(i, WithSongs(playlists[i], Append(playlists[i].songs, want[h].song)))

Pulled(h, i) ==
    /\ at[h] = "pull" /\ i = want[h].id
    /\ Becomes(i, WithSongs(playlists[i], Without(playlists[i].songs, want[h].song)))

Edited(h, i) ==
    /\ i \in OwnedBy(want[h].user) /\ at'[h] # at[h]
    /\ Becomes(i, Gone) \/ Pushed(h, i) \/ Pulled(h, i)

ListsMoved(h) ==
    \/ UNCHANGED playlists
    \/ Made(h)
    \/ \E i \in DOMAIN playlists : Edited(h, i)

LEMMA ListsMove ==
    ASSUME TypeOK, NEW h \in Handlers, MayWrite(h), Call(h) \/ Step(h)
    PROVE  ListsMoved(h)
<1>1. CASE Call(h) \/ List(h) \/ Fetch(h) \/ Check(h)
  BY <1>1 DEF Call, List, Fetch, Check, ListsMoved
<1>2. CASE Insert(h)
  BY <1>2 DEF Insert, ListsMoved, Made
<1>3. CASE Delete(h)
  <2>1. at[h] = "delete" /\ at'[h] = "idle"
    BY <1>3 DEF Delete, Return, Goto, TypeOK
  <2>2. want[h].id \in OwnedBy(want[h].user) => want[h].id \in DOMAIN playlists
    BY DEF OwnedBy
  <2> QED
    BY <1>3, <2>1, <2>2 DEF Delete, ListsMoved, Edited, Becomes
<1>4. CASE Push(h)
  <2> DEFINE i == want[h].id
  <2>1. at[h] = "push" /\ at'[h] # at[h]
    BY <1>4 DEF Push, Return, Goto, TypeOK
  <2>2. Exists(i) => i \in OwnedBy(want[h].user) /\ i \in DOMAIN playlists
    BY <2>1 DEF MayWrite, Exists, OwnedBy
  <2>3. CASE playlists' = playlists
    BY <2>3 DEF ListsMoved
  <2>4. CASE playlists' # playlists
    <3>1. /\ Exists(i) /\ Len(playlists[i].songs) < MaxSongs
          /\ playlists' = [playlists EXCEPT ![i].songs = Append(@, want[h].song)]
      BY <1>4, <2>4 DEF Push
    <3>2. Pushed(h, i)
      BY <2>1, <3>1 DEF Pushed, Becomes, WithSongs
    <3> QED
      BY <2>1, <2>2, <3>1, <3>2 DEF ListsMoved, Edited
  <2> QED
    BY <2>3, <2>4
<1>5. CASE Pull(h)
  <2> DEFINE i == want[h].id
  <2>1. at[h] = "pull" /\ at'[h] # at[h]
    BY <1>5 DEF Pull, Return, Goto, TypeOK
  <2>2. Exists(i) => i \in OwnedBy(want[h].user) /\ i \in DOMAIN playlists
    BY <2>1 DEF MayWrite, Exists, OwnedBy
  <2>3. CASE playlists' = playlists
    BY <2>3 DEF ListsMoved
  <2>4. CASE playlists' # playlists
    <3>1. /\ Exists(i)
          /\ playlists' = [playlists EXCEPT ![i].songs = Without(@, want[h].song)]
      <4>1. CASE Exists(i)
        <5>1. playlists' = [playlists EXCEPT ![i].songs = Without(@, want[h].song)]
          BY <1>5, <2>4, <4>1 DEF Pull
        <5> QED
          BY <4>1, <5>1
      <4>2. CASE ~Exists(i)
        <5>1. playlists' = playlists
          BY <1>5, <4>2 DEF Pull
        <5> QED
          BY <2>4, <5>1
      <4> QED
        BY <4>1, <4>2
    <3>2. Pulled(h, i)
      BY <2>1, <3>1 DEF Pulled, Becomes, WithSongs
    <3> QED
      BY <2>1, <2>2, <3>1, <3>2 DEF ListsMoved, Edited
  <2> QED
    BY <2>3, <2>4
<1> QED
  BY <1>1, <1>2, <1>3, <1>4, <1>5 DEF Step

(* A playlist that exists is one.                                          *)
LEMMA ExistsType ==
    ASSUME TypeOK, NEW i, Exists(i)
    PROVE  i \in DOMAIN playlists /\ i \in 1..Len(playlists) /\ playlists[i] \in Playlist
  BY DEF TypeOK, Exists

(* Types, owners and ids through such a step.                              *)
LEMMA IdsKept ==
    ASSUME TypeOK, NEW h \in Handlers, ListsMoved(h),
           at[h] # "idle" => want[h].user \in Owners
    PROVE  /\ playlists' \in Seq({Gone} \cup Playlist) /\ Len(playlists') <= MaxLists
           /\ DOMAIN playlists \subseteq DOMAIN playlists'
           /\ \A i \in DOMAIN playlists :
                 \/ playlists'[i] = Gone
                 \/ /\ playlists[i] # Gone /\ playlists[i] \in Playlist
                    /\ playlists'[i].owner = playlists[i].owner
<1> DEFINE L == {Gone} \cup Playlist
<1>1. playlists \in Seq(L) /\ Len(playlists) \in Nat /\ Len(playlists) <= MaxLists
  BY DEF TypeOK
<1>2. \A i \in DOMAIN playlists : playlists[i] # Gone => playlists[i] \in Playlist
  BY <1>1
<1>3. CASE UNCHANGED playlists
  BY <1>1, <1>2, <1>3
<1>4. CASE Made(h)
  <2> DEFINE p == [owner |-> want[h].user, songs |-> <<>>]
  <2>1. p \in L /\ Len(playlists) < MaxLists /\ playlists' = Append(playlists, p)
    BY <1>4, NewType DEF Made
  <2> HIDE DEF p, L
  <2>2. /\ playlists' \in Seq(L) /\ Len(playlists') = Len(playlists) + 1
        /\ \A i \in 1..Len(playlists) : playlists'[i] = playlists[i]
    BY <1>1, <2>1, AppendProperties
  <2>3. DOMAIN playlists = 1..Len(playlists) /\ DOMAIN playlists' = 1..(Len(playlists) + 1)
    BY <1>1, <2>2
  <2> QED
    BY <1>1, <1>2, <2>1, <2>2, <2>3, PlaylistAssumption DEF L
<1>5. ASSUME NEW i \in DOMAIN playlists, Edited(h, i)
      PROVE  \E p \in L : /\ playlists' = [playlists EXCEPT ![i] = p]
                          /\ p = Gone \/ p.owner = playlists[i].owner
                          /\ playlists[i] # Gone
  <2>1. playlists[i] # Gone /\ playlists[i] \in Playlist
    BY <1>2, <1>5 DEF Edited, OwnedBy, Exists
  <2>2. CASE Becomes(i, Gone)
    BY <2>1, <2>2 DEF Becomes
  <2>3. CASE Pushed(h, i)
    <3>1. want[h].song \in Tracks
      BY <2>3 DEF Pushed, TypeOK, Wants
    <3> QED
      BY <2>1, <2>3, <3>1, PushedType DEF Pushed, Becomes
  <2>4. CASE Pulled(h, i)
    BY <2>1, <2>4, PulledType DEF Pulled, Becomes
  <2> QED
    BY <1>5, <2>2, <2>3, <2>4 DEF Edited
<1>6. CASE \E i \in DOMAIN playlists : Edited(h, i)
  <2>1. PICK i \in DOMAIN playlists, p \in L :
            /\ playlists' = [playlists EXCEPT ![i] = p]
            /\ p = Gone \/ p.owner = playlists[i].owner
            /\ playlists[i] # Gone
    BY <1>5, <1>6
  <2> HIDE DEF L
  <2>2. playlists' \in Seq(L) /\ Len(playlists') = Len(playlists)
    BY <1>1, <2>1
  <2>3. DOMAIN playlists' = DOMAIN playlists
    BY <2>1
  <2>4. \A j \in DOMAIN playlists : playlists'[j] = IF j = i THEN p ELSE playlists[j]
    BY <2>1
  <2> QED
    BY <1>1, <1>2, <2>1, <2>2, <2>3, <2>4 DEF L
<1> QED
  BY <1>3, <1>4, <1>6 DEF ListsMoved

-----------------------------------------------------------------------------
(* The steps, by what they do to goroutines.                               *)

HandlerMoved(h) ==
    /\ at' \in [Handlers -> Labels] /\ want' \in [Handlers -> Wants]
    /\ \A g \in Handlers \ {h} : at'[g] = at[g] /\ want'[g] = want[g]
    /\ at'[h] \in {"check", "push", "pull"} => want'[h].id # 0 /\ want'[h].song # None
    /\ at'[h] = "idle" => want'[h] = Nothing
    /\ CalledRight(h)' /\ MayWrite(h)'

LEMMA ReturnMoves ==
    ASSUME TypeOK, NEW h \in Handlers, Return(h)
    PROVE  HandlerMoved(h)
<1>1. at' = [at EXCEPT ![h] = "idle"] /\ want' = [want EXCEPT ![h] = Nothing]
  BY DEF Return, Goto
<1>2. Nothing \in Wants
  BY PlaylistAssumption DEF Nothing, Wants, Ops
<1>3. at'[h] = "idle" /\ want'[h] = Nothing
  BY <1>1 DEF TypeOK
<1> QED
  BY <1>1, <1>2, <1>3 DEF TypeOK, HandlerMoved, CalledRight, MayWrite, Labels

(* The handler goes on to l, and keeps w.                                  *)
LEMMA GoesOn ==
    ASSUME TypeOK, NEW h \in Handlers, NEW l \in Labels \ {"idle"}, NEW w \in Wants,
           at' = [at EXCEPT ![h] = l], want' = [want EXCEPT ![h] = w],
           w.user \in Owners,
           w.op \in {"add", "pick"} => w.song # None,
           l = "list" => w.op \in {"create", "mine", "pick"},
           l = "insert" => w.op \in {"create", "pick"},
           l = "fetch" => w.id # 0,
           l \in {"check", "push", "pull"} =>
               /\ w.op \in {"add", "pick", "remove"}
               /\ w.id # 0 /\ w.song # None
               /\ w.id \in DOMAIN playlists'
               /\ Exists(w.id)' => playlists'[w.id].owner = w.user,
           l = "push" => w.op # "remove"
    PROVE  HandlerMoved(h)
<1>1. at'[h] = l /\ want'[h] = w
  BY DEF TypeOK
<1>2. at' \in [Handlers -> Labels] /\ want' \in [Handlers -> Wants]
  BY DEF TypeOK
<1>3. \A g \in Handlers \ {h} : at'[g] = at[g] /\ want'[g] = want[g]
  BY DEF TypeOK
<1>4. CalledRight(h)'
  BY <1>1 DEF CalledRight
<1>5. MayWrite(h)'
  BY <1>1 DEF MayWrite, Exists
<1> QED
  BY <1>1, <1>2, <1>3, <1>4, <1>5 DEF HandlerMoved

LEMMA CallMoves ==
    ASSUME TypeOK, NEW h \in Handlers, Call(h)
    PROVE  HandlerMoved(h)
<1>1. PICK op \in Ops, u \in Owners, i \in 0..Len(playlists), t \in Tracks \cup {None} :
          /\ op \in {"create", "mine", "pick"} <=> i = 0
          /\ op \in {"add", "pick"} <=> t # None
          /\ want' = [want EXCEPT ![h] = [op |-> op, user |-> u, id |-> i, song |-> t]]
          /\ Goto(h, IF op \in {"create", "mine", "pick"} THEN "list" ELSE "fetch")
  BY DEF Call
<1> DEFINE w == [op |-> op, user |-> u, id |-> i, song |-> t]
           l == IF op \in {"create", "mine", "pick"} THEN "list" ELSE "fetch"
<1>2. i \in 0..MaxLists
  BY PlaylistAssumption DEF TypeOK
<1>3. w \in Wants /\ w.op = op /\ w.user = u /\ w.id = i /\ w.song = t
  BY <1>2 DEF Wants
<1>4. l \in {"list", "fetch"} /\ (l = "list" <=> op \in {"create", "mine", "pick"})
  OBVIOUS
<1>5. at' = [at EXCEPT ![h] = l] /\ want' = [want EXCEPT ![h] = w]
  BY <1>1 DEF Goto
<1> HIDE DEF w, l
<1> QED
  BY <1>1, <1>3, <1>4, <1>5, GoesOn DEF Labels

LEMMA ListMoves ==
    ASSUME TypeOK, NEW h \in Handlers, CalledRight(h), List(h)
    PROVE  HandlerMoved(h)
<1>1. at[h] = "list" /\ want[h] \in Wants /\ playlists' = playlists
  BY DEF List, TypeOK
<1>2. CASE Return(h)
  BY <1>2, ReturnMoves
<1>3. CASE Goto(h, "insert") /\ UNCHANGED want /\ want[h].op \in {"create", "pick"}
  <2>1. at' = [at EXCEPT ![h] = "insert"] /\ want' = [want EXCEPT ![h] = want[h]]
    BY <1>3 DEF Goto, TypeOK
  <2> QED
    BY <1>1, <1>3, <2>1, GoesOn DEF CalledRight, Labels
<1>4. ASSUME NEW i \in OwnedBy(want[h].user), want[h].op = "pick",
             want' = [want EXCEPT ![h].id = i], Goto(h, "check")
      PROVE  HandlerMoved(h)
  <2>1. PICK old \in Wants : old = want[h]
    BY <1>1
  <2> DEFINE w == [old EXCEPT !.id = i]
  <2>2. i \in DOMAIN playlists /\ i \in 0..MaxLists /\ i # 0 /\ playlists[i].owner = old.user
    BY <2>1, PlaylistAssumption DEF OwnedBy, TypeOK
  <2>3. w \in Wants /\ w.op = old.op /\ w.user = old.user /\ w.id = i /\ w.song = old.song
    BY <2>2 DEF Wants
  <2>4. at' = [at EXCEPT ![h] = "check"] /\ want' = [want EXCEPT ![h] = w]
    BY <1>4, <2>1 DEF Goto
  <2>5. old.user \in Owners /\ old.song # None /\ old.op = "pick"
    BY <1>1, <1>4, <2>1 DEF CalledRight
  <2> HIDE DEF w
  <2> QED
    BY <1>1, <2>2, <2>3, <2>4, <2>5, GoesOn DEF Labels
<1> QED
  BY <1>2, <1>3, <1>4 DEF List, CreateListed, PickListed, MineListed

LEMMA InsertMoves ==
    ASSUME TypeOK, NEW h \in Handlers, CalledRight(h), Insert(h)
    PROVE  HandlerMoved(h)
<1>1. CASE Return(h)
  BY <1>1, ReturnMoves
<1>2. CASE ~Return(h)
  <2>1. /\ at[h] = "insert" /\ Len(playlists) < MaxLists /\ want[h].op = "pick"
        /\ playlists' = Append(playlists, [owner |-> want[h].user, songs |-> <<>>])
        /\ want' = [want EXCEPT ![h].id = Len(playlists')]
        /\ at' = [at EXCEPT ![h] = "check"]
    BY <1>2 DEF Insert, Goto
  <2>2. PICK old \in Wants : old = want[h]
    BY DEF TypeOK
  <2> DEFINE n == Len(playlists) + 1
             p == [owner |-> old.user, songs |-> <<>>]
             w == [old EXCEPT !.id = n]
  <2>3. old.user \in Owners /\ old.song # None /\ old.op = "pick"
    BY <2>1, <2>2 DEF CalledRight
  <2>4. p \in Playlist /\ p.owner = old.user
    BY <2>3, NewType
  <2> HIDE DEF p
  <2>5. playlists' = Append(playlists, p)
    BY <2>1, <2>2 DEF p
  <2>6. /\ playlists \in Seq({Gone} \cup Playlist) /\ Len(playlists) \in Nat
    BY DEF TypeOK
  <2>7. Len(playlists') = n /\ n \in DOMAIN playlists' /\ playlists'[n] = p
    BY <2>4, <2>5, <2>6, AppendProperties
  <2>8. n \in 0..MaxLists /\ n # 0
    BY <2>1, <2>6, PlaylistAssumption
  <2>9. w \in Wants /\ w.op = old.op /\ w.user = old.user /\ w.id = n /\ w.song = old.song
    BY <2>8 DEF Wants
  <2>10. at' = [at EXCEPT ![h] = "check"] /\ want' = [want EXCEPT ![h] = w]
    BY <2>1, <2>2, <2>7
  <2> HIDE DEF w, n
  <2> QED
    BY <2>3, <2>4, <2>7, <2>8, <2>9, <2>10, GoesOn DEF Labels
<1> QED
  BY <1>1, <1>2

LEMMA FetchMoves ==
    ASSUME TypeOK, NEW h \in Handlers, CalledRight(h), Fetch(h)
    PROVE  HandlerMoved(h)
<1> DEFINE i == want[h].id
<1>1. /\ at[h] = "fetch" /\ want[h] \in Wants /\ playlists' = playlists
      /\ want[h].user \in Owners /\ i # 0
  BY DEF Fetch, TypeOK, CalledRight
<1>2. CASE Return(h)
  BY <1>2, ReturnMoves
<1>3. CASE DeleteFetched(h, playlists[i])
  <2>1. at' = [at EXCEPT ![h] = "delete"] /\ want' = [want EXCEPT ![h] = want[h]]
    BY <1>3 DEF DeleteFetched, Goto, TypeOK
  <2> QED
    BY <1>1, <2>1, GoesOn DEF CalledRight, Labels
<1>4. CASE Exists(i) /\ want[h].op = "add" /\ AddFetched(h, playlists[i])
  <2>1. at' = [at EXCEPT ![h] = "check"] /\ want' = [want EXCEPT ![h] = want[h]]
    BY <1>4 DEF AddFetched, Goto, TypeOK
  <2>2. i \in DOMAIN playlists /\ playlists[i].owner = want[h].user
    BY <1>4 DEF AddFetched, Exists
  <2>3. want[h].song # None
    BY <1>1, <1>4 DEF CalledRight
  <2> QED
    BY <1>1, <1>4, <2>1, <2>2, <2>3, GoesOn DEF Labels
<1>5. CASE Exists(i) /\ want[h].op = "remove" /\ RemoveFetched(h, playlists[i])
  <2>1. PICK old \in Wants : old = want[h]
    BY <1>1
  <2>2. PICK t \in TracksOf(playlists[i].songs) : want' = [want EXCEPT ![h].song = t]
    BY <1>5 DEF RemoveFetched
  <2> DEFINE w == [old EXCEPT !.song = t]
  <2>3. i \in DOMAIN playlists /\ playlists[i].owner = old.user
    BY <1>5, <2>1 DEF RemoveFetched, Exists
  <2>4. t \in Tracks
    <3>1. playlists[i] \in Playlist
      BY <1>5, ExistsType
    <3>2. playlists[i].songs \in Seq(Tracks)
      BY <3>1, SongsType
    <3> QED
      BY <3>2 DEF TracksOf
  <2>5. w \in Wants /\ w.op = old.op /\ w.user = old.user /\ w.id = old.id /\ w.song = t
    BY <2>4 DEF Wants
  <2>6. at' = [at EXCEPT ![h] = "check"] /\ want' = [want EXCEPT ![h] = w]
    BY <1>5, <2>1, <2>2 DEF RemoveFetched, Goto
  <2>7. t # None
    BY <2>4, PlaylistAssumption
  <2> HIDE DEF w
  <2> QED
    BY <1>1, <1>5, <2>1, <2>3, <2>5, <2>6, <2>7, GoesOn DEF Labels
<1> QED
  BY <1>2, <1>3, <1>4, <1>5 DEF Fetch, InfoFetched

LEMMA CheckMoves ==
    ASSUME TypeOK, NEW h \in Handlers, CalledRight(h), MayWrite(h), Check(h)
    PROVE  HandlerMoved(h)
<1>1. /\ at[h] = "check" /\ want[h] \in Wants /\ playlists' = playlists
      /\ want[h].user \in Owners /\ want[h].id # 0 /\ want[h].song # None
      /\ want[h].op \in {"add", "pick", "remove"}
      /\ want[h].id \in DOMAIN playlists
      /\ Exists(want[h].id) => playlists[want[h].id].owner = want[h].user
  BY DEF Check, TypeOK, CalledRight, MayWrite
<1>2. \/ Return(h)
      \/ Goto(h, "fetch") /\ UNCHANGED want
      \/ Goto(h, "push") /\ UNCHANGED want /\ want[h].op # "remove"
      \/ Goto(h, "pull") /\ UNCHANGED want
  BY DEF Check
<1>3. CASE Return(h)
  BY <1>3, ReturnMoves
<1>4. CASE ~Return(h)
  <2>1. PICK l \in {"fetch", "push", "pull"} :
            Goto(h, l) /\ UNCHANGED want /\ (l = "push" => want[h].op # "remove")
    BY <1>2, <1>4
  <2>2. at' = [at EXCEPT ![h] = l] /\ want' = [want EXCEPT ![h] = want[h]]
    BY <2>1 DEF Goto, TypeOK
  <2>3. Exists(want[h].id)' => Exists(want[h].id)
    BY <1>1, <2>1 DEF Exists
  <2>4. playlists' = playlists /\ (Exists(want[h].id))' = Exists(want[h].id)
    BY <1>1, <2>1 DEF Exists
  <2> QED
    BY <1>1, <2>1, <2>2, <2>4, GoesOn DEF Labels
<1> QED
  BY <1>3, <1>4

LEMMA WriteMoves ==
    ASSUME TypeOK, NEW h \in Handlers, CalledRight(h), Delete(h) \/ Push(h) \/ Pull(h)
    PROVE  HandlerMoved(h)
<1>1. CASE Return(h)
  BY <1>1, ReturnMoves
<1>2. CASE ~Return(h)
  <2>1. at[h] = "push" /\ Goto(h, "fetch") /\ UNCHANGED want
    BY <1>2 DEF Delete, Push, Pull
  <2>2. /\ at' = [at EXCEPT ![h] = "fetch"] /\ want' = [want EXCEPT ![h] = want[h]]
        /\ want[h] \in Wants /\ want[h].id # 0
    BY <2>1 DEF Goto, TypeOK
  <2> QED
    BY <2>1, <2>2, GoesOn DEF CalledRight, Labels
<1> QED
  BY <1>1, <1>2

LEMMA HandlerMoves ==
    ASSUME TypeOK, NEW h \in Handlers, CalledRight(h), MayWrite(h), Call(h) \/ Step(h)
    PROVE  HandlerMoved(h)
  BY CallMoves, ListMoves, InsertMoves, FetchMoves, CheckMoves, WriteMoves DEF Step

(* Types and rights.                                                       *)
LEMMA RightsStep ==
    ASSUME TypeOK, NEW h \in Handlers, ListsMoved(h), HandlerMoved(h), Call(h) \/ Step(h),
           \A g \in Handlers : CalledRight(g) /\ MayWrite(g)
    PROVE  TypeOK' /\ \A g \in Handlers : CalledRight(g)' /\ MayWrite(g)'
<1>1. /\ playlists' \in Seq({Gone} \cup Playlist) /\ Len(playlists') <= MaxLists
      /\ DOMAIN playlists \subseteq DOMAIN playlists'
      /\ \A i \in DOMAIN playlists :
            \/ playlists'[i] = Gone
            \/ playlists[i] # Gone /\ playlists'[i].owner = playlists[i].owner
  BY IdsKept DEF CalledRight
<1>2. clean' \in BOOLEAN
  <2>1. CASE Check(h)
    BY <2>1 DEF Check
  <2> QED
    BY <2>1 DEF TypeOK, Call, Step, List, Insert, Fetch, Delete, Push, Pull
<1>3. ASSUME NEW g \in Handlers
      PROVE  /\ CalledRight(g)' /\ MayWrite(g)'
             /\ at'[g] \in {"check", "push", "pull"} => want'[g].id # 0 /\ want'[g].song # None
             /\ at'[g] = "idle" => want'[g] = Nothing
  <2>1. CASE g = h
    BY <2>1 DEF HandlerMoved
  <2>2. CASE g # h
    <3>1. at'[g] = at[g] /\ want'[g] = want[g]
      BY <2>2 DEF HandlerMoved
    <3>2. CalledRight(g)'
      BY <3>1 DEF CalledRight
    <3>3. MayWrite(g)'
      BY <1>1, <3>1 DEF MayWrite, Exists
    <3> QED
      BY <3>1, <3>2, <3>3 DEF TypeOK
  <2> QED
    BY <2>1, <2>2
<1> QED
  BY <1>1, <1>2, <1>3 DEF TypeOK, HandlerMoved

-----------------------------------------------------------------------------
(* Ten playlists, and a few.                                               *)

LEMMA CountsFinite ==
    ASSUME TypeOK, NEW u
    PROVE  /\ IsFiniteSet(OwnedBy(u)) /\ Cardinality(OwnedBy(u)) \in Nat
           /\ IsFiniteSet(Inserting(u)) /\ Cardinality(Inserting(u)) \in Nat
           /\ Cardinality(Inserting(u)) <= Cardinality(Handlers)
           /\ Cardinality(Handlers) \in Nat
<1>1. OwnedBy(u) \in SUBSET (1..Len(playlists)) /\ Len(playlists) \in Nat
  BY DEF OwnedBy, TypeOK
<1>2. IsFiniteSet(1..Len(playlists))
  BY <1>1, FS_Interval
<1>3. IsFiniteSet(OwnedBy(u)) /\ Cardinality(OwnedBy(u)) \in Nat
  BY <1>1, <1>2, FS_Subset, FS_CardinalityType
<1>4. Inserting(u) \in SUBSET Handlers
  BY DEF Inserting
<1>5. /\ IsFiniteSet(Inserting(u)) /\ Cardinality(Inserting(u)) \in Nat
      /\ Cardinality(Inserting(u)) <= Cardinality(Handlers)
      /\ Cardinality(Handlers) \in Nat
  BY <1>4, FS_Subset, FS_CardinalityType, PlaylistAssumption
<1> QED
  BY <1>3, <1>5

(* Only the test sends a handler to the insert.                            *)
LEMMA PassedTest ==
    ASSUME TypeOK, NEW h \in Handlers, Call(h) \/ Step(h),
           at'[h] = "insert"
    PROVE  /\ at[h] = "list" /\ want' = want /\ playlists' = playlists
           /\ Cardinality(OwnedBy(want[h].user)) < Limit
<1>1. List(h)
  BY DEF Call, Step, Insert, Fetch, Delete, Check, Push, Pull, Return, Goto, TypeOK,
         DeleteFetched, AddFetched, RemoveFetched, InfoFetched
<1>2. ~Return(h) /\ ~Goto(h, "check")
  BY DEF Return, Goto, TypeOK
<1>3. \/ ~(Cardinality(OwnedBy(want[h].user)) >= Limit) /\ UNCHANGED want
      \/ OwnedBy(want[h].user) = {} /\ UNCHANGED want
  BY <1>1, <1>2 DEF List, CreateListed, PickListed, MineListed
<1>4. Cardinality(OwnedBy(want[h].user)) < Limit
  BY <1>3, CountsFinite, FS_EmptySet, PlaylistAssumption
<1> QED
  BY <1>1, <1>3, <1>4 DEF List

(* Nobody's playlists become more but by an insert for him.                *)
LEMMA OwnedByStep ==
    ASSUME TypeOK, NEW h \in Handlers, ListsMoved(h), NEW u \in Owners,
           at[h] # "idle" => want[h].user \in Owners
    PROVE  OwnedBy(u)' \subseteq
               OwnedBy(u) \cup
               IF Made(h) /\ want[h].user = u THEN {Len(playlists) + 1} ELSE {}
<1>1. /\ playlists \in Seq({Gone} \cup Playlist) /\ Len(playlists) \in Nat
      /\ \A i \in DOMAIN playlists :
            \/ playlists'[i] = Gone
            \/ playlists[i] # Gone /\ playlists'[i].owner = playlists[i].owner
  BY IdsKept DEF TypeOK
<1>2. \A i \in DOMAIN playlists : i \in OwnedBy(u)' => i \in OwnedBy(u)
  BY <1>1 DEF OwnedBy, Exists
<1>3. CASE Made(h)
  <2> DEFINE p == [owner |-> want[h].user, songs |-> <<>>]
             n == Len(playlists) + 1
  <2>1. p \in Playlist /\ p.owner = want[h].user
    BY <1>3, NewType DEF Made
  <2> HIDE DEF p
  <2>2. playlists' = Append(playlists, p)
    BY <1>3 DEF Made, p
  <2>3. /\ DOMAIN playlists' = 1..n /\ DOMAIN playlists = 1..Len(playlists)
        /\ playlists'[n] = p
    BY <1>1, <2>1, <2>2, AppendProperties
  <2>4. \A i \in DOMAIN playlists' : i \in DOMAIN playlists \/ i = n
    BY <1>1, <2>3
  <2>5. n \in OwnedBy(u)' => want[h].user = u
    BY <2>1, <2>3 DEF OwnedBy
  <2> QED
    BY <1>2, <1>3, <2>4, <2>5 DEF OwnedBy
<1>4. CASE ~Made(h)
  <2>1. DOMAIN playlists' = DOMAIN playlists
    BY <1>1, <1>4 DEF ListsMoved, Edited, Becomes, Pushed, Pulled
  <2> QED
    BY <1>2, <2>1 DEF OwnedBy
<1> QED
  BY <1>3, <1>4

LEMMA RoomStep ==
    ASSUME TypeOK, TypeOK', NEW h \in Handlers, ListsMoved(h), HandlerMoved(h),
           Call(h) \/ Step(h), CalledRight(h), NEW u \in Owners, Room(u)
    PROVE  Room(u)'
<1> DEFINE o == Cardinality(OwnedBy(u))
           i == Cardinality(Inserting(u))
           n == Cardinality(Handlers)
           o2 == Cardinality(OwnedBy(u)')
           i2 == Cardinality(Inserting(u)')
           new == Len(playlists) + 1
<1>1. /\ IsFiniteSet(OwnedBy(u)) /\ o \in Nat /\ IsFiniteSet(Inserting(u)) /\ i \in Nat
      /\ n \in Nat /\ o + i <= Limit + n - 1
  BY CountsFinite DEF Room
<1>2. /\ IsFiniteSet(OwnedBy(u)') /\ o2 \in Nat /\ IsFiniteSet(Inserting(u)') /\ i2 \in Nat
      /\ i2 <= n
  <2>1. OwnedBy(u)' \in SUBSET (1..Len(playlists')) /\ Len(playlists') \in Nat
    BY DEF OwnedBy, TypeOK
  <2>2. IsFiniteSet(1..Len(playlists'))
    BY <2>1, FS_Interval
  <2>3. IsFiniteSet(OwnedBy(u)') /\ Cardinality(OwnedBy(u)') \in Nat
    BY <2>1, <2>2, FS_Subset, FS_CardinalityType
  <2>4. Inserting(u)' \in SUBSET Handlers
    BY DEF Inserting
  <2>5. /\ IsFiniteSet(Inserting(u)') /\ Cardinality(Inserting(u)') \in Nat
        /\ Cardinality(Inserting(u)') <= Cardinality(Handlers)
    BY <2>4, FS_Subset, FS_CardinalityType, PlaylistAssumption
  <2> QED
    BY <2>3, <2>5
<1>3. OwnedBy(u)' \subseteq
          OwnedBy(u) \cup IF Made(h) /\ want[h].user = u THEN {new} ELSE {}
  BY OwnedByStep DEF CalledRight
<1> HIDE DEF new
<1>4. \A g \in Handlers \ {h} : g \in Inserting(u)' <=> g \in Inserting(u)
  BY DEF Inserting, HandlerMoved
<1>5. Limit \in Nat \ {0}
  BY PlaylistAssumption
<1>6. CASE at'[h] = "insert" /\ want[h].user = u
  <2>1. o < Limit /\ playlists' = playlists
    BY <1>6, PassedTest
  <2>2. OwnedBy(u)' = OwnedBy(u)
    BY <2>1 DEF OwnedBy, Exists
  <2>3. o2 = o
    BY <2>2
  <2>4. o2 + i2 <= Limit + n - 1
    <3> HIDE DEF o, i, n, o2, i2, new
    <3> QED
      BY <1>1, <1>2, <1>5, <2>1, <2>3
  <2> QED
    BY <2>4 DEF Room
<1>7. CASE Made(h) /\ want[h].user = u
  <2>1. h \in Inserting(u)
    BY <1>7 DEF Made, Inserting
  <2>2. at'[h] # "insert"
    BY <1>7, PassedTest DEF Made
  <2>3. Inserting(u)' = Inserting(u) \ {h}
    BY <1>4, <2>2 DEF Inserting
  <2>4. i2 = i - 1
    BY <1>1, <2>1, <2>3, FS_RemoveElement
  <2>5. OwnedBy(u)' \in SUBSET (OwnedBy(u) \cup {new})
    BY <1>3, <1>7
  <2>6. /\ IsFiniteSet(OwnedBy(u) \cup {new})
        /\ Cardinality(OwnedBy(u) \cup {new}) <= o + 1
    BY <1>1, FS_AddElement
  <2>7. o2 <= Cardinality(OwnedBy(u) \cup {new})
    BY <2>5, <2>6, FS_Subset
  <2>8. Cardinality(OwnedBy(u) \cup {new}) \in Nat
    BY <2>6, FS_CardinalityType
  <2>9. o2 + i2 <= Limit + n - 1
    <3> HIDE DEF o, i, n, o2, i2, new
    <3> QED
      BY <1>1, <1>2, <1>5, <2>4, <2>6, <2>7, <2>8
  <2> QED
    BY <2>9 DEF Room
<1>8. CASE ~(at'[h] = "insert" /\ want[h].user = u) /\ ~(Made(h) /\ want[h].user = u)
  <2>1. OwnedBy(u)' \in SUBSET OwnedBy(u)
    BY <1>3, <1>8
  <2>2. h \notin Inserting(u)'
    <3>1. at'[h] = "insert" => want' = want
      BY PassedTest
    <3> QED
      BY <1>8, <3>1 DEF Inserting
  <2>3. Inserting(u)' \in SUBSET Inserting(u)
    BY <1>4, <2>2 DEF Inserting
  <2>4. o2 <= o /\ i2 <= i
    BY <1>1, <2>1, <2>3, FS_Subset
  <2>5. o2 + i2 <= Limit + n - 1
    <3> HIDE DEF o, i, n, o2, i2, new
    <3> QED
      BY <1>1, <1>2, <1>5, <2>4
  <2> QED
    BY <2>5 DEF Room
<1> QED
  BY <1>6, <1>7, <1>8

-----------------------------------------------------------------------------
(* No song twice.                                                          *)

(* The songs in a playlist after a step: nothing new but what was pushed.  *)
LEMMA SongsStep ==
    ASSUME TypeOK, NEW h \in Handlers, ListsMoved(h), CalledRight(h),
           NEW i, Exists(i)'
    PROVE  LET r == playlists'[i].songs
           IN \/ i \notin DOMAIN playlists /\ Distinct(r)
              \/ /\ Exists(i)
                 /\ \/ /\ at[h] = "push" /\ i = want[h].id
                       /\ TracksOf(r) \subseteq TracksOf(playlists[i].songs) \cup {want[h].song}
                       /\ Distinct(playlists[i].songs)
                              /\ want[h].song \notin TracksOf(playlists[i].songs)
                          => Distinct(r)
                    \/ /\ TracksOf(r) \subseteq TracksOf(playlists[i].songs)
                       /\ Distinct(playlists[i].songs) => Distinct(r)
<1>1. /\ playlists \in Seq({Gone} \cup Playlist) /\ Len(playlists) \in Nat
      /\ i \in DOMAIN playlists => Exists(i) /\ playlists[i] \in Playlist
      /\ i \in DOMAIN playlists' /\ playlists'[i] # Gone
  BY IdsKept DEF TypeOK, CalledRight, Exists
<1>2. CASE UNCHANGED playlists
  BY <1>1, <1>2
<1>3. CASE Made(h)
  <2> DEFINE p == [owner |-> want[h].user, songs |-> <<>>]
             n == Len(playlists) + 1
  <2>1. p \in Playlist /\ Distinct(p.songs)
    BY <1>3, NewType DEF Made, CalledRight
  <2> HIDE DEF p
  <2>2. playlists' = Append(playlists, p)
    BY <1>3 DEF Made, p
  <2>3. /\ DOMAIN playlists' = 1..n /\ DOMAIN playlists = 1..Len(playlists)
        /\ playlists'[n] = p
        /\ \A k \in 1..Len(playlists) : playlists'[k] = playlists[k]
    BY <1>1, <2>1, <2>2, AppendProperties
  <2>4. i \in DOMAIN playlists \/ i = n
    BY <1>1, <2>3
  <2>5. n \notin DOMAIN playlists
    BY <1>1, <2>3
  <2> HIDE DEF n
  <2>6. CASE i = n
    BY <2>1, <2>3, <2>5, <2>6
  <2>7. CASE i \in DOMAIN playlists
    BY <1>1, <2>3, <2>7
  <2> QED
    BY <2>4, <2>6, <2>7
<1>4. ASSUME NEW k \in DOMAIN playlists, Edited(h, k), i # k
      PROVE  i \in DOMAIN playlists /\ playlists'[i] = playlists[i]
  BY <1>1, <1>4 DEF Edited, Becomes, Pushed, Pulled
<1>5. CASE i \in DOMAIN playlists /\ Edited(h, i)
  <2>1. Exists(i) /\ playlists[i] \in Playlist
    BY <1>1, <1>5
  <2>2. ~Becomes(i, Gone)
    BY <1>1, <1>5 DEF Becomes
  <2>3. CASE Pushed(h, i)
    <3> DEFINE q == WithSongs(playlists[i], Append(playlists[i].songs, want[h].song))
    <3>1. want[h].song \in Tracks
      BY <2>3 DEF Pushed, TypeOK, Wants
    <3>2. /\ TracksOf(q.songs) \subseteq TracksOf(playlists[i].songs) \cup {want[h].song}
          /\ Distinct(playlists[i].songs) /\ want[h].song \notin TracksOf(playlists[i].songs)
             => Distinct(q.songs)
      BY <2>1, <2>3, <3>1, PushedType DEF Pushed
    <3>3. playlists'[i] = q
      BY <1>5, <2>3 DEF Pushed, Becomes
    <3> HIDE DEF q
    <3> QED
      BY <2>1, <2>3, <3>2, <3>3 DEF Pushed
  <2>4. CASE Pulled(h, i)
    <3> DEFINE q == WithSongs(playlists[i], Without(playlists[i].songs, want[h].song))
    <3>1. /\ TracksOf(q.songs) \subseteq TracksOf(playlists[i].songs)
          /\ Distinct(playlists[i].songs) => Distinct(q.songs)
      BY <2>1, PulledType
    <3>2. playlists'[i] = q
      BY <1>5, <2>4 DEF Pulled, Becomes
    <3> HIDE DEF q
    <3> QED
      BY <2>1, <3>1, <3>2
  <2> QED
    BY <1>5, <2>2, <2>3, <2>4 DEF Edited
<1>6. CASE \E k \in DOMAIN playlists : Edited(h, k)
  BY <1>1, <1>4, <1>5, <1>6
<1> QED
  BY <1>2, <1>3, <1>6 DEF ListsMoved

(* A handler is about to push what it has just found missing.              *)
LEMMA PassedCheck ==
    ASSUME TypeOK, NEW h \in Handlers, Call(h) \/ Step(h), at'[h] = "push", clean'
    PROVE  /\ at[h] = "check" /\ clean
           /\ want' = want /\ playlists' = playlists
           /\ Exists(want[h].id) => want[h].song \notin TracksOf(playlists[want[h].id].songs)
           /\ \A g \in Handlers : ~Rival(h, g)
<1>1. Check(h)
  BY DEF Call, Step, List, Insert, Fetch, Delete, Push, Pull, Return, Goto, TypeOK,
         CreateListed, PickListed, MineListed, DeleteFetched, AddFetched, RemoveFetched,
         InfoFetched
<1>2. ~Return(h) /\ ~Goto(h, "fetch") /\ ~Goto(h, "pull")
  BY DEF Return, Goto, TypeOK
<1> DEFINE i == want[h].id
           there == Exists(i) /\ want[h].song \in TracksOf(playlists[i].songs)
           adding == want[h].op # "remove"
<1>3. /\ adding /\ ~there /\ UNCHANGED want /\ clean
      /\ \A g \in Handlers : ~Rival(h, g)
  BY <1>1, <1>2 DEF Check
<1> QED
  BY <1>1, <1>3 DEF Check

LEMMA TwinsStep ==
    ASSUME TypeOK, NEW h \in Handlers, ListsMoved(h), HandlerMoved(h), Call(h) \/ Step(h),
           CalledRight(h), NoTwins, clean => \A g \in Handlers : PushIsNew(g),
           \A g \in Handlers : MayWrite(g)
    PROVE  NoTwins' /\ (clean' => \A g \in Handlers : PushIsNew(g)')
<1>1. clean' => clean
  BY DEF Call, Step, List, Insert, Fetch, Delete, Check, Push, Pull
<1> SUFFICES ASSUME clean, clean'
             PROVE  /\ \A i \in DOMAIN playlists' : Exists(i)' => Distinct(playlists'[i].songs)
                    /\ \A g \in Handlers : PushIsNew(g)'
  BY <1>1 DEF NoTwins, Distinct
<1>2. /\ \A g \in Handlers : PushIsNew(g)
      /\ \A i : Exists(i) => Distinct(playlists[i].songs)
  BY DEF NoTwins, Distinct, Exists
<1>3. ASSUME NEW i \in DOMAIN playlists', Exists(i)'
      PROVE  Distinct(playlists'[i].songs)
  <2>1. at[h] = "push" /\ i = want[h].id /\ Exists(i)
            => want[h].song \notin TracksOf(playlists[i].songs)
    BY <1>2 DEF PushIsNew
  <2> QED
    BY <1>2, <1>3, <2>1, SongsStep
<1>4. ASSUME NEW g \in Handlers, at'[g] = "push"
      PROVE  /\ Exists(want[g].id)' =>
                    want'[g].song \notin TracksOf(playlists'[want'[g].id].songs)
             /\ \A k \in Handlers : ~Rival(g, k)'
  <2>1. CASE g = h
    <3>1. /\ want' = want /\ playlists' = playlists
          /\ Exists(want[h].id) => want[h].song \notin TracksOf(playlists[want[h].id].songs)
          /\ \A k \in Handlers : ~Rival(h, k)
      BY <1>4, <2>1, PassedCheck
    <3>2. \A k \in Handlers \ {h} : at'[k] = at[k] /\ want'[k] = want[k]
      BY DEF HandlerMoved
    <3> QED
      BY <2>1, <3>1, <3>2 DEF Rival, Exists
  <2>2. CASE g # h
    <3>1. at[g] = "push" /\ want'[g] = want[g]
      BY <1>4, <2>2 DEF HandlerMoved
    <3>2. /\ Exists(want[g].id) => want[g].song \notin TracksOf(playlists[want[g].id].songs)
          /\ \A k \in Handlers : ~Rival(g, k)
          /\ want[g].id \in DOMAIN playlists
      BY <1>2, <3>1 DEF PushIsNew, MayWrite
    <3>3. at[h] = "push" /\ want[h].id = want[g].id => want[h].song # want[g].song
      BY <2>2, <3>2 DEF Rival
    <3>4. Exists(want[g].id)' => want[g].song \notin TracksOf(playlists'[want[g].id].songs)
      <4> SUFFICES ASSUME Exists(want[g].id)'
                   PROVE  want[g].song \notin TracksOf(playlists'[want[g].id].songs)
        OBVIOUS
      <4>1. PICK i \in DOMAIN playlists : i = want[g].id /\ i = want'[g].id
        BY <3>1, <3>2
      <4>2. Exists(i)'
        BY <4>1 DEF Exists
      <4>3. Exists(i) => want[g].song \notin TracksOf(playlists[i].songs)
        BY <3>2, <4>1
      <4>4. at[h] = "push" /\ i = want[h].id => want[h].song # want[g].song
        BY <3>3, <4>1
      <4>5. want[g].song \notin TracksOf(playlists'[i].songs)
        BY <4>2, <4>3, <4>4, SongsStep
      <4> QED
        BY <4>1, <4>5
    <3>5. ASSUME NEW k \in Handlers PROVE ~Rival(g, k)'
      <4>1. CASE k = h
        <5>1. at'[h] = "push" => want' = want /\ ~Rival(h, g)
          BY PassedCheck
        <5> QED
          BY <2>2, <3>1, <4>1, <5>1 DEF Rival
      <4>2. CASE k # h
        <5>1. at'[k] = at[k] /\ want'[k] = want[k]
          BY <4>2 DEF HandlerMoved
        <5> QED
          BY <3>1, <3>2, <5>1 DEF Rival
      <4> QED
        BY <4>1, <4>2
    <3> QED
      BY <3>1, <3>4, <3>5
  <2> QED
    BY <2>1, <2>2
<1> QED
  BY <1>3, <1>4 DEF PushIsNew, Exists

-----------------------------------------------------------------------------
(* The invariant, and what follows from it.                                *)

LEMMA PlaylistInit ==
    ASSUME Init
    PROVE  TypeOK /\ PlaylistInv
<1>1. TypeOK
  <2>1. Nothing \in Wants
    BY PlaylistAssumption DEF Nothing, Wants, Ops
  <2>2. <<>> \in Seq({Gone} \cup Playlist) /\ Len(<<>>) = 0
    OBVIOUS
  <2> QED
    BY <2>1, <2>2, PlaylistAssumption DEF Init, TypeOK, Labels
<1>2. \A h \in Handlers : CalledRight(h) /\ MayWrite(h) /\ PushIsNew(h)
  BY DEF Init, CalledRight, MayWrite, PushIsNew
<1>3. ASSUME NEW u \in Owners PROVE Room(u)
  <2>1. OwnedBy(u) = {} /\ Inserting(u) = {}
    BY DEF Init, OwnedBy, Inserting
  <2>2. 0 <= Limit + Cardinality(Handlers) - 1
    BY FS_CardinalityType, PlaylistAssumption
  <2> QED
    BY <2>1, <2>2, FS_EmptySet DEF Room
<1>4. NoTwins
  BY DEF Init, NoTwins
<1> QED
  BY <1>1, <1>2, <1>3, <1>4 DEF PlaylistInv

LEMMA PlaylistStep ==
    ASSUME TypeOK, PlaylistInv, [Next]_vars
    PROVE  TypeOK' /\ PlaylistInv'
<1>1. CASE UNCHANGED vars
  BY <1>1 DEF vars, TypeOK, PlaylistInv, CalledRight, MayWrite, Room, OwnedBy, Inserting,
              NoTwins, PushIsNew, Rival, Exists
<1>2. ASSUME NEW h \in Handlers, Call(h) \/ Step(h)
      PROVE  TypeOK' /\ PlaylistInv'
  <2>1. \A g \in Handlers : CalledRight(g) /\ MayWrite(g)
    BY DEF PlaylistInv
  <2>2. ListsMoved(h) /\ HandlerMoved(h)
    BY <1>2, <2>1, ListsMove, HandlerMoves
  <2>3. TypeOK' /\ \A g \in Handlers : CalledRight(g)' /\ MayWrite(g)'
    BY <1>2, <2>1, <2>2, RightsStep
  <2>4. \A u \in Owners : Room(u)'
    BY <1>2, <2>1, <2>2, <2>3, RoomStep DEF PlaylistInv
  <2>5. NoTwins' /\ (clean' => \A g \in Handlers : PushIsNew(g)')
    BY <1>2, <2>1, <2>2, TwinsStep DEF PlaylistInv
  <2> QED
    BY <2>3, <2>4, <2>5 DEF PlaylistInv
<1> QED
  BY <1>1, <1>2 DEF Next

(* Types are right, a goroutine writes only where it may, and no more      *)
(* playlists are about to be made than there are goroutines.               *)
THEOREM PlaylistInvCorrect == Spec => [](TypeOK /\ PlaylistInv)
  BY PlaylistInit, PlaylistStep, PTL DEF Spec

(* A user gets past the limit of playlists by at most one for each further *)
(* handler that runs at the same time.                                     *)
THEOREM LimitOvershootCorrect == Spec => []LimitOvershoot
<1>1. ASSUME TypeOK, PlaylistInv PROVE LimitOvershoot
  <2> SUFFICES ASSUME NEW u \in Owners
               PROVE  Cardinality(OwnedBy(u)) <= Limit + Cardinality(Handlers) - 1
    BY DEF LimitOvershoot
  <2>1. Room(u)
    BY <1>1 DEF PlaylistInv
  <2> QED
    BY <1>1, <2>1, CountsFinite, PlaylistAssumption DEF Room
<1> QED
  BY <1>1, PlaylistInvCorrect, PTL

(* As long as no test for a song failed or raced, no playlist holds a song *)
(* twice.                                                                  *)
THEOREM NoTwinsCorrect == Spec => []NoTwins
<1>1. PlaylistInv => NoTwins
  BY DEF PlaylistInv
<1> QED
  BY <1>1, PlaylistInvCorrect, PTL

(* A deleted playlist does not come back, and ids keep their owner.        *)
THEOREM DeletedStaysGoneCorrect == Spec => DeletedStaysGone
<1> DEFINE Stays == \A i \in DOMAIN playlists :
                        \/ playlists'[i] = Gone
                        \/ playlists[i] # Gone /\ playlists'[i].owner = playlists[i].owner
<1>1. ASSUME TypeOK, PlaylistInv, [Next]_vars PROVE [Stays]_vars
  <2> SUFFICES ASSUME NEW h \in Handlers, Call(h) \/ Step(h) PROVE Stays
    BY <1>1 DEF Next
  <2>1. CalledRight(h) /\ ListsMoved(h)
    BY <1>1, ListsMove DEF PlaylistInv
  <2> QED
    BY <1>1, <2>1, IdsKept DEF CalledRight
<1> QED
  BY <1>1, PlaylistInvCorrect, PTL DEF Spec, DeletedStaysGone

(* A playlist changes or goes only by a step of a handler of its owner.    *)
THEOREM OwnersOnlyCorrect == Spec => OwnersOnly
<1> DEFINE Own == \A i \in DOMAIN playlists : playlists[i] # Gone /\ playlists'[i] # playlists[i] =>
                      \E h \in Handlers : at'[h] # at[h] /\ want[h].user = playlists[i].owner
<1>1. ASSUME TypeOK, PlaylistInv, [Next]_vars PROVE [Own]_vars
  <2> SUFFICES ASSUME NEW h \in Handlers, Call(h) \/ Step(h),
                      NEW i \in DOMAIN playlists, playlists'[i] # playlists[i]
               PROVE  at'[h] # at[h] /\ want[h].user = playlists[i].owner
    BY <1>1 DEF Next
  <2>1. CalledRight(h) /\ ListsMoved(h)
    BY <1>1, ListsMove DEF PlaylistInv
  <2>2. ~Made(h)
    <3> SUFFICES ASSUME Made(h) PROVE FALSE
      OBVIOUS
    <3> DEFINE p == [owner |-> want[h].user, songs |-> <<>>]
    <3>1. p \in Playlist /\ playlists' = Append(playlists, p)
      BY <2>1, NewType DEF Made, CalledRight
    <3>2. playlists \in Seq({Gone} \cup Playlist)
      BY <1>1 DEF TypeOK
    <3> HIDE DEF p
    <3> QED
      BY <3>1, <3>2, AppendProperties
  <2>3. PICK k \in DOMAIN playlists : Edited(h, k)
    BY <2>1, <2>2 DEF ListsMoved
  <2>4. k = i
    BY <2>3 DEF Edited, Becomes, Pushed, Pulled
  <2> QED
    BY <2>3, <2>4 DEF Edited, OwnedBy
<1> QED
  BY <1>1, PlaylistInvCorrect, PTL DEF Spec, OwnersOnly
=============================================================================
