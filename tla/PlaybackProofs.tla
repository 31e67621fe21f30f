--------------------------- MODULE PlaybackProofs ---------------------------
(***************************************************************************)
(* Proofs about Playback, for every number of goroutines, every set of     *)
(* tracks and every bound: its types and the bound of the queue; that it   *)
(* implements SongQueue; and what holds while one goroutine serves one     *)
(* command at a time.                                                      *)
(***************************************************************************)
EXTENDS PlaybackProperties, SequenceTheorems, FiniteSetTheorems, TLAPS

-----------------------------------------------------------------------------
(* What the ChatCache operations return for a well-formed entry.           *)

LEMMA AddSongType ==
    ASSUME NEW e \in ChatData, NEW t \in Tracks
    PROVE  AddSong(e, t) \in ChatData
  BY DEF ChatData, AddSong

LEMMA SetActiveType ==
    ASSUME NEW e \in ChatData
    PROVE  SetActive(e, TRUE) \in ChatData
  BY DEF ChatData, SetActive

LEMMA ClearChatType ==
    ASSUME NEW e
    PROVE  ClearChat(e) \in ChatData
  BY DEF ChatData, ClearChat, NoEntry

LEMMA RemoveCurrentSongType ==
    ASSUME NEW e \in ChatData
    PROVE  RemoveCurrentSong(e) \in ChatData
  <1>1. e.queue # <<>> => Tail(e.queue) \in Seq(Tracks)
    BY HeadTailProperties DEF ChatData
  <1>2. QED BY <1>1 DEF ChatData, RemoveCurrentSong

LEMMA RemoveTrackType ==
    ASSUME NEW e \in ChatData, NEW i \in Nat
    PROVE  RemoveTrack(e, i) \in ChatData
  <1> DEFINE q == e.queue
             r == SubSeq(q, 1, i) \o SubSeq(q, i + 2, Len(q))
  <1>1. q \in Seq(Tracks) /\ Len(q) \in Nat
    BY DEF ChatData
  <1>2. i < Len(q) => r \in Seq(Tracks)
    <2> SUFFICES ASSUME i < Len(q) PROVE r \in Seq(Tracks)
      OBVIOUS
    <2>1. SubSeq(q, 1, i) \in Seq(Tracks)
      BY <1>1, SubSeqProperties, ElementOfSeq
    <2>2. SubSeq(q, i + 2, Len(q)) \in Seq(Tracks)
      BY <1>1, SubSeqProperties, ElementOfSeq
    <2>3. QED BY <2>1, <2>2, ConcatProperties
  <1>3. QED BY <1>1, <1>2 DEF ChatData, RemoveTrack

LEMMA GetTrackTypes ==
    ASSUME NEW e \in ChatData
    PROVE  /\ GetPlayingTrack(e) \in Tracks \cup {None}
           /\ GetUpcomingTrack(e) \in Tracks \cup {None}
  <1>1. e.queue \in Seq(Tracks) /\ Len(e.queue) \in Nat
    BY DEF ChatData
  <1>2. e.queue # <<>> => e.queue[1] \in Tracks
    BY <1>1, EmptySeq, ElementOfSeq
  <1>3. ~(Len(e.queue) < 2) => e.queue[2] \in Tracks
    BY <1>1, ElementOfSeq
  <1>4. QED BY <1>2, <1>3 DEF GetPlayingTrack, GetUpcomingTrack

-----------------------------------------------------------------------------
(* Control: where a goroutine may go with the locals it has.               *)

LEMMA ReturnControl ==
    ASSUME NEW h \in Handlers, ControlOK, Return(h)
    PROVE  ControlOK'
  BY ConstantsAssumption, EmptySeq
  DEF ControlOK, LocalsOK, Return, Labels, SingleLabels, PlayLabels

LEMMA GotoControl ==
    ASSUME NEW h \in Handlers, NEW l \in Labels, ControlOK, Goto(h, l),
           l \in SingleLabels => Len(batch[h]) = 1,
           l \in PlayLabels => cur[h] \in Tracks,
           l # "decrement", l # "setloop"
    PROVE  ControlOK'
  BY DEF ControlOK, LocalsOK, Goto, localVars

LEMMA GotoWithControl ==
    ASSUME NEW h \in Handlers, NEW l \in Labels, NEW t \in Tracks \cup {None},
           ControlOK, GotoWith(h, l, t), l \notin SingleLabels,
           l \in PlayLabels => t \in Tracks,
           l # "decrement", l # "setloop"
    PROVE  ControlOK'
  BY DEF ControlOK, LocalsOK, GotoWith

LEMMA GotoNumControl ==
    ASSUME NEW h \in Handlers, NEW l \in Labels, NEW n \in Nat,
           ControlOK, GotoNum(h, l, n), l \notin SingleLabels,
           l \notin PlayLabels,
           l = "decrement" => n \in 1..MaxLoop,
           l = "setloop" => n \in 0..MaxLoop
    PROVE  ControlOK'
  BY DEF ControlOK, LocalsOK, GotoNum

(* The song of a single request, the song about to be played.              *)
LEMMA SingleTrack ==
    ASSUME NEW h \in Handlers, ControlOK, pc[h] \in SingleLabels
    PROVE  Len(batch[h]) = 1 /\ Head(batch[h]) \in Tracks
  <1>1. batch[h] \in Seq(Tracks) /\ Len(batch[h]) = 1
    BY DEF ControlOK, LocalsOK
  <1>2. QED BY <1>1, EmptySeq, HeadTailProperties

LEMMA BatchHead ==
    ASSUME NEW h \in Handlers, ControlOK, batch[h] # <<>>
    PROVE  /\ Head(batch[h]) \in Tracks
           /\ Tail(batch[h]) \in Seq(Tracks)
           /\ Len(Tail(batch[h])) = Len(batch[h]) - 1
           /\ Len(batch[h]) \in 1..MaxBatch
  <1>1. batch[h] \in Seq(Tracks) /\ Len(batch[h]) <= MaxBatch
    BY DEF ControlOK, LocalsOK
  <1>2. Len(batch[h]) \in Nat /\ Len(batch[h]) # 0
    BY <1>1, EmptySeq, LenProperties
  <1>3. QED BY <1>1, <1>2, HeadTailProperties, ConstantsAssumption

LEMMA PlayTrack ==
    ASSUME NEW h \in Handlers, ControlOK, pc[h] \in PlayLabels
    PROVE  cur[h] \in Tracks
  BY DEF ControlOK, LocalsOK

LEMMA SetLoopCountType ==
    ASSUME NEW n \in 0..MaxLoop, DataOK, SetLoopCount(n)
    PROVE  loop' \in [Tracks -> 0..MaxLoop]
  <1>1. loop \in [Tracks -> 0..MaxLoop]
    BY DEF DataOK
  <1>2. QED BY <1>1 DEF SetLoopCount

-----------------------------------------------------------------------------
(* TypeOK is inductive.  Every action keeps the data well formed and sends *)
(* its goroutine to a label whose locals it has set: the song of a single  *)
(* request is there until AddSong, the song to play is a song.             *)
LEMMA TypeInit == Init => TypeOK
  BY ConstantsAssumption
     DEF Init, TypeOK, DataOK, ControlOK, ChatData, NoEntry,
     LocalsOK, Labels, SingleLabels, PlayLabels

LEMMA TypeStep == TypeOK /\ [Next]_vars => TypeOK'
  <1> SUFFICES ASSUME TypeOK, [Next]_vars PROVE TypeOK'
    OBVIOUS
  <1> USE DEF TypeOK
  <1>1. ASSUME NEW h \in Handlers, Play(h) PROVE TypeOK'
    <2>1. DataOK'
      BY <1>1 DEF Play, DataOK, queueVars, trackVars
    <2>2. ControlOK'
      <3>1. PICK t \in fresh : batch' = [batch EXCEPT ![h] = <<t>>]
        BY <1>1 DEF Play
      <3>2. <<t>> \in Seq(Tracks) /\ Len(<<t>>) = 1
        BY <3>1 DEF DataOK
      <3>3. /\ pc' = [pc EXCEPT ![h] = "search"]
            /\ UNCHANGED <<cur, num, wasActive>>
        BY <1>1 DEF Play
      <3>4. QED
        BY <3>1, <3>2, <3>3, ConstantsAssumption
        DEF ControlOK, LocalsOK, Labels, SingleLabels, PlayLabels
    <2>3. QED BY <2>1, <2>2
  <1>2. ASSUME NEW h \in Handlers, PlayMany(h) PROVE TypeOK'
    <2>1. DataOK'
      BY <1>2 DEF PlayMany, DataOK, queueVars, trackVars
    <2>2. ControlOK'
      <3>1. PICK n \in 0..MaxBatch : \E ts \in [1..n -> fresh] :
              /\ batch' = [batch EXCEPT ![h] = ts]
              /\ cur' = [cur EXCEPT ![h] = IF n = 0 THEN None ELSE ts[1]]
        BY <1>2 DEF PlayMany
      <3>. PICK ts \in [1..n -> fresh] :
              /\ batch' = [batch EXCEPT ![h] = ts]
              /\ cur' = [cur EXCEPT ![h] = IF n = 0 THEN None ELSE ts[1]]
        BY <3>1
      <3>2. ts \in Seq(Tracks) /\ Len(ts) = n
        <4>1. ts \in [1..n -> Tracks] /\ n \in Nat
          BY ConstantsAssumption DEF DataOK
        <4>2. QED BY <4>1, SeqDef, LenProperties
      <3>3. (IF n = 0 THEN None ELSE ts[1]) \in Tracks \cup {None}
        BY <3>1, <3>2, ConstantsAssumption DEF DataOK
      <3>4. /\ pc' = [pc EXCEPT ![h] = "snapshot"]
            /\ UNCHANGED <<num, wasActive>>
        BY <1>2 DEF PlayMany
      <3>5. QED
        BY <3>1, <3>2, <3>3, <3>4, ConstantsAssumption
        DEF ControlOK, LocalsOK, Labels, SingleLabels, PlayLabels
    <2>3. QED BY <2>1, <2>2
  <1>3. ASSUME NEW h \in Handlers, Skip(h) PROVE TypeOK'
    <2>1. DataOK'
      BY <1>3 DEF Skip, DataOK, queueVars, trackVars
    <2>2. ControlOK'
      BY <1>3, GotoControl DEF Skip, At, Labels, SingleLabels, PlayLabels
    <2>3. QED BY <2>1, <2>2
  <1>4. ASSUME NEW h \in Handlers, StopCommand(h) PROVE TypeOK'
    <2>1. DataOK'
      BY <1>4 DEF StopCommand, DataOK, queueVars, trackVars
    <2>2. ControlOK'
      BY <1>4, GotoControl
         DEF StopCommand, At, Labels, SingleLabels, PlayLabels
    <2>3. QED BY <2>1, <2>2
  <1>5. ASSUME NEW h \in Handlers, Replay(h) PROVE TypeOK'
    <2>1. DataOK'
      BY <1>5 DEF Replay, DataOK, queueVars, trackVars
    <2>2. ControlOK'
      <3>1. GetPlayingTrack(chat) \in Tracks
        BY <1>5, GetTrackTypes DEF Replay, DataOK
      <3>2. GotoWith(h, "media", GetPlayingTrack(chat))
        BY <1>5 DEF Replay
      <3>3. QED
        BY <3>1, <3>2, GotoWithControl DEF Labels, SingleLabels
    <2>3. QED BY <2>1, <2>2
  <1>6. ASSUME NEW h \in Handlers, LoopCommand(h) PROVE TypeOK'
    <2>1. DataOK'
      BY <1>6 DEF LoopCommand, DataOK, queueVars, trackVars
    <2>2. ControlOK'
      BY <1>6, GotoNumControl
         DEF LoopCommand, At, Labels, SingleLabels, PlayLabels
    <2>3. QED BY <2>1, <2>2
  <1>7. ASSUME NEW h \in Handlers, RemoveCommand(h) PROVE TypeOK'
    <2>1. DataOK'
      BY <1>7 DEF RemoveCommand, DataOK, queueVars, trackVars
    <2>2. ControlOK'
      BY <1>7, GotoNumControl
         DEF RemoveCommand, At, Labels, SingleLabels, PlayLabels
    <2>3. QED BY <2>1, <2>2
  <1>8. ASSUME NEW h \in Handlers, StreamEnd(h) PROVE TypeOK'
    <2>1. DataOK'
      BY <1>8 DEF StreamEnd, DataOK, queueVars, trackVars
    <2>2. ControlOK'
      BY <1>8, GotoControl DEF StreamEnd, At, Labels, SingleLabels, PlayLabels
    <2>3. QED BY <2>1, <2>2
  <1>9. ASSUME NEW h \in Handlers, ClearEvent(h) PROVE TypeOK'
    <2>1. DataOK'
      BY <1>9 DEF ClearEvent, DataOK, queueVars, trackVars
    <2>2. ControlOK'
      BY <1>9, GotoControl DEF ClearEvent, At, Labels, SingleLabels, PlayLabels
    <2>3. QED BY <2>1, <2>2
  <1>10. ASSUME NEW h \in Handlers, BotLeaves(h) PROVE TypeOK'
    <2>1. DataOK'
      BY <1>10 DEF BotLeaves, DataOK, queueVars, trackVars
    <2>2. ControlOK'
      BY <1>10, GotoControl DEF BotLeaves, At, Labels, SingleLabels, PlayLabels
    <2>3. QED BY <2>1, <2>2
  <1>11. ASSUME NEW h \in Handlers, Search(h) PROVE TypeOK'
    <2>1. DataOK'
      BY <1>11 DEF Search, DataOK, queueVars, trackVars
    <2>2. ControlOK'
      <3>1. CASE Return(h)
        BY <3>1, ReturnControl
      <3>2. CASE Goto(h, "gate")
        <4>1. Len(batch[h]) = 1
          BY <1>11, SingleTrack DEF Search, At, SingleLabels
        <4>2. QED
          BY <3>2, <4>1, GotoControl DEF Labels, PlayLabels
      <3>3. QED BY <1>11, <3>1, <3>2 DEF Search
    <2>3. QED BY <2>1, <2>2
  <1>12. ASSUME NEW h \in Handlers, Gate(h) PROVE TypeOK'
    <2>1. DataOK'
      BY <1>12 DEF Gate, DataOK, queueVars, trackVars
    <2>2. ControlOK'
      <3>1. Len(batch[h]) = 1
        BY <1>12, SingleTrack DEF Gate, At, SingleLabels
      <3>2. PICK l \in {"enqueue", "activate", "download"} : Goto(h, l)
        BY <1>12 DEF Gate
      <3>3. QED
        BY <3>1, <3>2, GotoControl DEF Labels, PlayLabels
    <2>3. QED BY <2>1, <2>2
  <1>13. ASSUME NEW h \in Handlers, Enqueue(h) PROVE TypeOK'
    <2>1. DataOK'
      <3>1. Head(batch[h]) \in Tracks
        BY <1>13, SingleTrack DEF Enqueue, At, SingleLabels
      <3>2. QED
        BY <1>13, <3>1, AddSongType DEF Enqueue, DataOK, queueVars, trackVars
    <2>2. ControlOK'
      BY <1>13, ReturnControl DEF Enqueue
    <2>3. QED BY <2>1, <2>2
  <1>14. ASSUME NEW h \in Handlers, Download(h) PROVE TypeOK'
    <2>1. DataOK'
      <3>1. Head(batch[h]) \in Tracks
        BY <1>14, SingleTrack DEF Download, At, SingleLabels
      <3>2. QED
        BY <1>14, <3>1 DEF Download, DataOK, queueVars, trackVars
    <2>2. ControlOK'
      <3>1. CASE Return(h)
        BY <3>1, ReturnControl
      <3>2. CASE \E l \in {"activate", "gate"} : Goto(h, l)
        <4>1. Len(batch[h]) = 1
          BY <1>14, SingleTrack DEF Download, At, SingleLabels
        <4>2. QED
          BY <3>2, <4>1, GotoControl DEF Labels, PlayLabels
      <3>3. QED BY <1>14, <3>1, <3>2 DEF Download
    <2>3. QED BY <2>1, <2>2
  <1>15. ASSUME NEW h \in Handlers, Activate(h) PROVE TypeOK'
    <2>1. DataOK'
      BY <1>15, SetActiveType DEF Activate, DataOK, trackVars
    <2>2. ControlOK'
      <3>1. Len(batch[h]) = 1
        BY <1>15, SingleTrack DEF Activate, At, SingleLabels
      <3>2. QED
        BY <1>15, <3>1, GotoControl DEF Activate, Labels, PlayLabels
    <2>3. QED BY <2>1, <2>2
  <1>16. ASSUME NEW h \in Handlers, Add(h) PROVE TypeOK'
    <2>1. DataOK'
      <3>1. Head(batch[h]) \in Tracks
        BY <1>16, SingleTrack DEF Add, At, SingleLabels
      <3>2. QED
        BY <1>16, <3>1, AddSongType DEF Add, DataOK, queueVars, trackVars
    <2>2. ControlOK'
      <3>1. Head(batch[h]) \in Tracks
        BY <1>16, SingleTrack DEF Add, At, SingleLabels
      <3>2. /\ cur' = [cur EXCEPT ![h] = Head(batch[h])]
            /\ batch' = [batch EXCEPT ![h] = <<>>]
            /\ pc' = [pc EXCEPT ![h] = "media"]
            /\ UNCHANGED <<num, wasActive>>
        BY <1>16 DEF Add
      <3>3. QED
        BY <3>1, <3>2, EmptySeq, ConstantsAssumption
        DEF ControlOK, LocalsOK, Labels, SingleLabels, PlayLabels
    <2>3. QED BY <2>1, <2>2
  <1>17. ASSUME NEW h \in Handlers, Snapshot(h) PROVE TypeOK'
    <2>1. DataOK'
      BY <1>17 DEF Snapshot, DataOK, queueVars, trackVars
    <2>2. ControlOK'
      <3>1. CASE Return(h)
        BY <3>1, ReturnControl
      <3>2. CASE /\ pc' = [pc EXCEPT ![h] = "batch"]
                 /\ wasActive' = [wasActive EXCEPT ![h] = IsActive(chat)]
                 /\ UNCHANGED <<cur, batch, num>>
        <4>1. IsActive(chat) \in BOOLEAN
          BY DEF IsActive, DataOK, ChatData
        <4>2. QED
          BY <3>2, <4>1
          DEF ControlOK, LocalsOK, Labels, SingleLabels, PlayLabels
      <3>3. QED BY <1>17, <3>1, <3>2 DEF Snapshot
    <2>3. QED BY <2>1, <2>2
  <1>18. ASSUME NEW h \in Handlers, QueueTrack(h) PROVE TypeOK'
    <2>1. DataOK'
      <3>1. Head(batch[h]) \in Tracks
        BY <1>18, BatchHead DEF QueueTrack
      <3>2. chat' \in ChatData
        BY <1>18, <3>1, AddSongType DEF QueueTrack, DataOK, queueVars
      <3>3. loop' \in [Tracks -> 0..MaxLoop]
        BY <1>18, ConstantsAssumption DEF QueueTrack, DataOK, queueVars
      <3>4. QED
        BY <1>18, <3>2, <3>3 DEF QueueTrack, DataOK, trackVars
    <2>2. ControlOK'
      <3>1. /\ batch[h] # <<>>
            /\ batch' = [batch EXCEPT ![h] = Tail(batch[h])]
            /\ pc[h] = "batch"
            /\ UNCHANGED <<pc, cur, num, wasActive>>
        BY <1>18 DEF QueueTrack, At, ControlOK
      <3>2. Tail(batch[h]) \in Seq(Tracks) /\ Len(Tail(batch[h])) <= MaxBatch
        BY <3>1, BatchHead, ConstantsAssumption
      <3>3. QED
        BY <3>1, <3>2 DEF ControlOK, LocalsOK, SingleLabels
    <2>3. QED BY <2>1, <2>2
  <1>19. ASSUME NEW h \in Handlers, BatchDone(h) PROVE TypeOK'
    <2>1. DataOK'
      BY <1>19 DEF BatchDone, DataOK, queueVars, trackVars
    <2>2. ControlOK'
      BY <1>19, ReturnControl, GotoWithControl
         DEF BatchDone, At, Labels, SingleLabels, PlayLabels
    <2>3. QED BY <2>1, <2>2
  <1>20. ASSUME NEW h \in Handlers, ReadLoop(h) PROVE TypeOK'
    <2>1. DataOK'
      BY <1>20 DEF ReadLoop, DataOK, queueVars, trackVars
    <2>2. ControlOK'
      <3>1. PICK n \in 0..MaxLoop :
              GotoNum(h, IF n > 0 THEN "decrement" ELSE "upcoming", n)
        <4>1. GetPlayingTrack(chat) # None
                => loop[GetPlayingTrack(chat)] \in 0..MaxLoop
          BY GetTrackTypes DEF DataOK
        <4>2. QED BY <1>20, <4>1, ConstantsAssumption DEF ReadLoop
      <3>2. PICK l \in {"decrement", "upcoming"} :
              GotoNum(h, l, n) /\ (l = "decrement" => n > 0)
        BY <3>1
      <3>3. n \in Nat /\ (l = "decrement" => n \in 1..MaxLoop)
        BY <3>2, ConstantsAssumption
      <3>4. QED
        BY <3>2, <3>3, GotoNumControl DEF Labels, SingleLabels, PlayLabels
    <2>3. QED BY <2>1, <2>2
  <1>21. ASSUME NEW h \in Handlers, Decrement(h) PROVE TypeOK'
    <2>1. DataOK'
      <3>1. num[h] - 1 \in 0..MaxLoop
        BY <1>21, ConstantsAssumption DEF Decrement, At, ControlOK, LocalsOK
      <3>2. loop' \in [Tracks -> 0..MaxLoop]
        BY <1>21, <3>1, SetLoopCountType DEF Decrement
      <3>3. QED
        BY <1>21, <3>2 DEF Decrement, DataOK, trackVars
    <2>2. ControlOK'
      BY <1>21, GotoControl DEF Decrement, At, Labels, SingleLabels, PlayLabels
    <2>3. QED BY <2>1, <2>2
  <1>22. ASSUME NEW h \in Handlers, Repeat(h) PROVE TypeOK'
    <2>1. DataOK'
      <3>1. GetPlayingTrack(chat) \in Tracks \cup {None}
        BY GetTrackTypes DEF DataOK
      <3>2. QED
        BY <1>22, <3>1 DEF Repeat, DataOK, queueVars
    <2>2. ControlOK'
      <3>1. CASE Goto(h, "upcoming")
        BY <3>1, GotoControl DEF Labels, SingleLabels, PlayLabels
      <3>2. CASE \E t \in Tracks : GotoWith(h, "announce", t)
        BY <3>2, GotoWithControl DEF Labels, SingleLabels
      <3>3. GetPlayingTrack(chat) \in Tracks \cup {None}
        BY GetTrackTypes DEF DataOK
      <3>4. QED BY <1>22, <3>1, <3>2, <3>3 DEF Repeat
    <2>3. QED BY <2>1, <2>2
  <1>23. ASSUME NEW h \in Handlers, Upcoming(h) PROVE TypeOK'
    <2>1. DataOK'
      BY <1>23 DEF Upcoming, DataOK, queueVars, trackVars
    <2>2. ControlOK'
      <3>1. GetUpcomingTrack(chat) \in Tracks \cup {None}
        BY GetTrackTypes DEF DataOK
      <3>2. PICK l \in {"finish", "advance"} :
              /\ GotoWith(h, l, GetUpcomingTrack(chat))
              /\ l = "advance" => GetUpcomingTrack(chat) \in Tracks
        BY <1>23, <3>1 DEF Upcoming
      <3>3. QED
        BY <3>1, <3>2, GotoWithControl DEF Labels, SingleLabels, PlayLabels
    <2>3. QED BY <2>1, <2>2
  <1>24. ASSUME NEW h \in Handlers, Advance(h) PROVE TypeOK'
    <2>1. DataOK'
      <3>1. cur[h] \in Tracks
        BY <1>24, PlayTrack DEF Advance, At, PlayLabels
      <3>2. QED
        BY <1>24, <3>1, RemoveCurrentSongType
           DEF Advance, DataOK, queueVars, trackVars
    <2>2. ControlOK'
      <3>1. cur[h] \in Tracks
        BY <1>24, PlayTrack DEF Advance, At, PlayLabels
      <3>2. QED
        BY <1>24, <3>1, GotoControl DEF Advance, Labels, SingleLabels
    <2>3. QED BY <2>1, <2>2
  <1>25. ASSUME NEW h \in Handlers, Finish(h) PROVE TypeOK'
    <2>1. DataOK'
      BY <1>25, RemoveCurrentSongType DEF Finish, DataOK, trackVars
    <2>2. ControlOK'
      BY <1>25, GotoControl DEF Finish, At, Labels, SingleLabels, PlayLabels
    <2>3. QED BY <2>1, <2>2
  <1>26. ASSUME NEW h \in Handlers, Announce(h) PROVE TypeOK'
    <2>1. DataOK'
      BY <1>26 DEF Announce, DataOK, queueVars, trackVars
    <2>2. ControlOK'
      <3>1. cur[h] \in Tracks
        BY <1>26, PlayTrack DEF Announce, At, PlayLabels
      <3>2. QED
        BY <1>26, <3>1, GotoControl, ReturnControl
        DEF Announce, Labels, SingleLabels
    <2>3. QED BY <2>1, <2>2
  <1>27. ASSUME NEW h \in Handlers, Prepare(h) PROVE TypeOK'
    <2>1. DataOK'
      <3>1. cur[h] \in Tracks
        BY <1>27, PlayTrack DEF Prepare, At, PlayLabels
      <3>2. QED
        BY <1>27, <3>1 DEF Prepare, DataOK, queueVars, trackVars
    <2>2. ControlOK'
      <3>1. CASE Goto(h, "media")
        <4>1. cur[h] \in Tracks
          BY <1>27, PlayTrack DEF Prepare, At, PlayLabels
        <4>2. QED
          BY <3>1, <4>1, GotoControl DEF Labels, SingleLabels
      <3>2. CASE GotoWith(h, "loop", None)
        BY <3>2, GotoWithControl DEF Labels, SingleLabels, PlayLabels
      <3>3. QED BY <1>27, <3>1, <3>2 DEF Prepare
    <2>3. QED BY <2>1, <2>2
  <1>28. ASSUME NEW h \in Handlers, PlayMedia(h) PROVE TypeOK'
    <2>1. DataOK'
      <3>1. cur[h] \in Tracks
        BY <1>28, PlayTrack DEF PlayMedia, At, PlayLabels
      <3>2. QED
        BY <1>28, <3>1, ClearChatType
           DEF PlayMedia, DataOK, queueVars, trackVars
    <2>2. ControlOK'
      BY <1>28, ReturnControl DEF PlayMedia
    <2>3. QED BY <2>1, <2>2
  <1>29. ASSUME NEW h \in Handlers, Stop(h) PROVE TypeOK'
    <2>1. DataOK'
      BY <1>29, ClearChatType DEF Stop, DataOK, trackVars
    <2>2. ControlOK'
      BY <1>29, GotoControl, ReturnControl
         DEF Stop, At, Labels, SingleLabels, PlayLabels
    <2>3. QED BY <2>1, <2>2
  <1>30. ASSUME NEW h \in Handlers, HangUp(h) PROVE TypeOK'
    <2>1. DataOK'
      BY <1>30 DEF HangUp, DataOK, queueVars, trackVars
    <2>2. ControlOK'
      BY <1>30, ReturnControl DEF HangUp
    <2>3. QED BY <2>1, <2>2
  <1>31. ASSUME NEW h \in Handlers, SetLoop(h) PROVE TypeOK'
    <2>1. DataOK'
      <3>1. num[h] \in 0..MaxLoop
        BY <1>31 DEF SetLoop, At, ControlOK, LocalsOK
      <3>2. QED
        BY <1>31, <3>1, SetLoopCountType DEF SetLoop, DataOK, trackVars
    <2>2. ControlOK'
      BY <1>31, ReturnControl DEF SetLoop
    <2>3. QED BY <2>1, <2>2
  <1>32. ASSUME NEW h \in Handlers, Remove(h) PROVE TypeOK'
    <2>1. DataOK'
      <3>1. num[h] \in Nat
        BY DEF ControlOK
      <3>2. QED
        BY <1>32, <3>1, RemoveTrackType DEF Remove, DataOK, trackVars
    <2>2. ControlOK'
      BY <1>32, ReturnControl DEF Remove
    <2>3. QED BY <2>1, <2>2
  <1>33. ASSUME NEW h \in Handlers, Clear(h) PROVE TypeOK'
    <2>1. DataOK'
      BY <1>33, ClearChatType DEF Clear, DataOK, trackVars
    <2>2. ControlOK'
      BY <1>33, ReturnControl DEF Clear
    <2>3. QED BY <2>1, <2>2
  <1>34. CASE UNCHANGED vars
    BY <1>34
       DEF vars, DataOK, ControlOK, LocalsOK, queueVars, trackVars, localVars
  <1>35. QED
    BY <1>1, <1>2, <1>3, <1>4, <1>5, <1>6, <1>7, <1>8, <1>9, <1>10, <1>11,
       <1>12, <1>13, <1>14, <1>15, <1>16, <1>17, <1>18, <1>19, <1>20, <1>21,
          <1>22, <1>23, <1>24, <1>25, <1>26, <1>27, <1>28, <1>29, <1>30,
             <1>31, <1>32, <1>33, <1>34 DEF Next, Start, Continue

(* Goroutines never use a local they have not set, and the data keeps its  *)
(* shape, whatever handlers and callbacks interleave.                      *)
THEOREM TypeCorrect == Spec => []TypeOK
  BY TypeInit, TypeStep, PTL DEF Spec
-----------------------------------------------------------------------------
(* The queue bound.  A slot is a place that a request in progress has for  *)
(* a song; admitting a request takes slots, adding a song gives one up,    *)
(* and nothing else makes the queue longer or the slots more.              *)

AllSlots == Handlers \X (1..MaxBatch)

LEMMA SlotsFinite ==
    /\ Cardinality(Handlers) \in Nat
    /\ IsFiniteSet(AllSlots)
    /\ Cardinality(AllSlots) = Cardinality(Handlers) * MaxBatch
    /\ Slots \subseteq AllSlots
  <1>1. IsFiniteSet(Handlers) /\ MaxBatch \in Nat
    BY ConstantsAssumption
  <1>2. IsFiniteSet(1..MaxBatch) /\ Cardinality(1..MaxBatch) = MaxBatch
    BY <1>1, FS_Interval
  <1>3. QED
    BY <1>1, <1>2, FS_Product, FS_CardinalityType DEF AllSlots, Slots

LEMMA SlotsCardinality ==
    ASSUME NEW S \in SUBSET AllSlots
    PROVE  /\ IsFiniteSet(S)
           /\ Cardinality(S) \in Nat
           /\ Cardinality(S) <= Cardinality(Handlers) * MaxBatch
  BY SlotsFinite, FS_Subset, FS_CardinalityType

(* A request is admitted while the queue is within handlePlay's limit.     *)
LEMMA BoundOnAdmission ==
    ASSUME TypeOK', Len(chat'.queue) <= MaxQueue
    PROVE  QueueBound'
  <1>1. Slots' \in SUBSET AllSlots
    BY DEF Slots, AllSlots
  <1>2. /\ Cardinality(Slots') \in Nat
        /\ Cardinality(Slots') <= Cardinality(Handlers) * MaxBatch
    BY <1>1, SlotsCardinality
  <1>3. Len(chat'.queue) \in Nat
    BY LenProperties DEF TypeOK, DataOK, ChatData
  <1>4. /\ MaxQueue \in Nat
        /\ Cardinality(Handlers) * MaxBatch \in Nat
    BY SlotsFinite, ConstantsAssumption
  <1>5. QED BY <1>2, <1>3, <1>4 DEF QueueBound

(* A step that adds no song and admits no request.                         *)
LEMMA BoundWithoutAdding ==
    ASSUME TypeOK, TypeOK', QueueBound,
           Len(chat'.queue) <= Len(chat.queue),
           \A h \in Handlers : Len(batch'[h]) <= Len(batch[h])
    PROVE  QueueBound'
  <1>1. Slots' \subseteq Slots
    <2>1. \A h \in Handlers : Len(batch'[h]) \in Nat /\ Len(batch[h]) \in Nat
      BY LenProperties DEF TypeOK, ControlOK
    <2>2. QED BY <2>1, ConstantsAssumption DEF Slots
  <1>2. /\ Cardinality(Slots) \in Nat
        /\ Cardinality(Slots') \in Nat
        /\ Cardinality(Slots') <= Cardinality(Slots)
    BY <1>1, SlotsFinite, SlotsCardinality, FS_Subset
  <1>3. Len(chat.queue) \in Nat /\ Len(chat'.queue) \in Nat
    BY LenProperties DEF TypeOK, DataOK, ChatData
  <1>4. /\ MaxQueue \in Nat
        /\ Cardinality(Handlers) * MaxBatch \in Nat
    BY SlotsFinite, ConstantsAssumption
  <1>5. QED BY <1>2, <1>3, <1>4 DEF QueueBound

(* A step of h that adds one song gives up the last slot of h.             *)
LEMMA BoundOnAdding ==
    ASSUME TypeOK, TypeOK', QueueBound,
           NEW h \in Handlers,
           Len(chat'.queue) <= Len(chat.queue) + 1,
           Len(batch'[h]) < Len(batch[h]),
           \A g \in Handlers \ {h} : batch'[g] = batch[g]
    PROVE  QueueBound'
  <1> DEFINE last == <<h, Len(batch[h])>>
  <1>1. Len(batch[h]) \in 1..MaxBatch /\ Len(batch'[h]) \in Nat
    BY LenProperties, ConstantsAssumption DEF TypeOK, ControlOK, LocalsOK
  <1>2. last \in Slots
    BY <1>1 DEF Slots
  <1>3. Slots' \subseteq Slots \ {last}
    BY <1>1, ConstantsAssumption DEF Slots
  <1>4. /\ Cardinality(Slots) \in Nat
        /\ Cardinality(Slots') \in Nat
        /\ Cardinality(Slots') <= Cardinality(Slots) - 1
    <2>1. IsFiniteSet(Slots) /\ Cardinality(Slots) \in Nat
      BY SlotsFinite, SlotsCardinality
    <2>2. /\ IsFiniteSet(Slots \ {last})
          /\ Cardinality(Slots \ {last}) = Cardinality(Slots) - 1
      BY <1>2, <2>1, FS_RemoveElement
    <2>3. QED BY <1>3, <2>1, <2>2, FS_Subset, FS_CardinalityType
  <1>5. Len(chat.queue) \in Nat /\ Len(chat'.queue) \in Nat
    BY LenProperties DEF TypeOK, DataOK, ChatData
  <1>6. /\ MaxQueue \in Nat
        /\ Cardinality(Handlers) * MaxBatch \in Nat
    BY SlotsFinite, ConstantsAssumption
  <1>7. QED BY <1>4, <1>5, <1>6 DEF QueueBound

(* How the ChatCache operations change the length of the queue.            *)
LEMMA QueueLengths ==
    ASSUME NEW e \in ChatData
    PROVE  /\ \A t \in Tracks :
                Len(AddSong(e, t).queue) = Len(e.queue) + 1
           /\ Len(SetActive(e, TRUE).queue) <= Len(e.queue)
           /\ Len(ClearChat(e).queue) <= Len(e.queue)
           /\ Len(RemoveCurrentSong(e).queue) <= Len(e.queue)
           /\ \A i \in Nat : Len(RemoveTrack(e, i).queue) <= Len(e.queue)
  <1> DEFINE q == e.queue
  <1>1. q \in Seq(Tracks) /\ Len(q) \in Nat
    BY DEF ChatData
  <1>2. \A t \in Tracks : Len(AddSong(e, t).queue) = Len(q) + 1
    BY <1>1, AppendProperties DEF AddSong
  <1>3. Len(SetActive(e, TRUE).queue) <= Len(q)
    BY <1>1 DEF SetActive, ChatData
  <1>4. Len(ClearChat(e).queue) <= Len(q)
    BY <1>1, EmptySeq DEF ClearChat, NoEntry
  <1>5. Len(RemoveCurrentSong(e).queue) <= Len(q)
    BY <1>1, HeadTailProperties DEF RemoveCurrentSong, ChatData
  <1>6. ASSUME NEW i \in Nat
        PROVE  Len(RemoveTrack(e, i).queue) <= Len(q)
    <2> DEFINE front == SubSeq(q, 1, i)
               rear  == SubSeq(q, i + 2, Len(q))
    <2>1. CASE i < Len(q)
      <3>1. front \in Seq(Tracks) /\ Len(front) = i
        BY <1>1, <2>1, SubSeqProperties, ElementOfSeq
      <3>2. rear \in Seq(Tracks) /\ Len(rear) = Len(q) - i - 1
        BY <1>1, <2>1, SubSeqProperties, ElementOfSeq
      <3>3. RemoveTrack(e, i).queue = front \o rear
        BY <2>1 DEF RemoveTrack, ChatData
      <3>4. HIDE DEF front, rear
      <3>5. Len(front \o rear) = Len(front) + Len(rear)
        BY <3>1, <3>2, ConcatProperties
      <3>6. Len(front \o rear) = Len(q) - 1
        BY <1>1, <3>1, <3>2, <3>5
      <3>7. HIDE DEF q
      <3>8. QED BY <1>1, <3>3, <3>6
    <2>2. CASE ~(i < Len(q))
      BY <1>1, <2>2 DEF RemoveTrack, ChatData
    <2>3. QED BY <2>1, <2>2
  <1>7. QED BY <1>2, <1>3, <1>4, <1>5, <1>6

(* A goroutine that returns, or goes on with the songs it has, asks for no *)
(* more slots.                                                             *)
LEMMA NoNewSlots ==
    ASSUME TypeOK, NEW h \in Handlers, Return(h) \/ UNCHANGED batch
    PROVE  \A g \in Handlers : Len(batch'[g]) <= Len(batch[g])
  <1>1. \A g \in Handlers : Len(batch[g]) \in Nat
    BY LenProperties DEF TypeOK, ControlOK
  <1>2. CASE Return(h)
    BY <1>1, <1>2, EmptySeq DEF Return, TypeOK, ControlOK
  <1>3. CASE UNCHANGED batch
    BY <1>1, <1>3
  <1>4. QED BY <1>2, <1>3

(* However many /play requests and playlists run at once, the queue is     *)
(* never longer than MaxQueue and one longest playlist per goroutine.      *)
THEOREM QueueBoundCorrect == Spec => []QueueBound
<1>1. Init => QueueBound
  <2> SUFFICES ASSUME Init PROVE QueueBound
    OBVIOUS
  <2>1. Len(chat.queue) = 0 /\ Slots = {}
    BY EmptySeq, ConstantsAssumption DEF Init, NoEntry, Slots
  <2>2. QED
    BY <2>1, SlotsFinite, FS_EmptySet, ConstantsAssumption DEF QueueBound
<1>2. TypeOK /\ TypeOK' /\ QueueBound /\ [Next]_vars => QueueBound'
  <2> SUFFICES ASSUME TypeOK, TypeOK', QueueBound, [Next]_vars
               PROVE  QueueBound'
    OBVIOUS
  <2>1. chat \in ChatData /\ Len(chat.queue) \in Nat
    BY DEF TypeOK, DataOK, ChatData
  <2>2. ControlOK
    BY DEF TypeOK
  <2>3. ASSUME NEW h \in Handlers, Play(h) \/ PlayMany(h) PROVE QueueBound'
    <3>1. Len(chat'.queue) <= MaxQueue
      BY <2>3 DEF Play, PlayMany, queueVars
    <3>2. QED BY <3>1, BoundOnAdmission
  <2>4. ASSUME NEW h \in Handlers, Enqueue(h) \/ Add(h) PROVE QueueBound'
    <3>1. Len(batch[h]) = 1 /\ Head(batch[h]) \in Tracks
      BY <2>2, <2>4, SingleTrack DEF Enqueue, Add, At, SingleLabels
    <3>2. Len(chat'.queue) = Len(chat.queue) + 1
      BY <2>1, <2>4, <3>1, QueueLengths DEF Enqueue, Add
    <3>3. batch' = [batch EXCEPT ![h] = <<>>]
      BY <2>4 DEF Enqueue, Add, Return
    <3>4. Len(batch'[h]) < Len(batch[h])
      BY <2>2, <3>1, <3>3, EmptySeq DEF ControlOK
    <3>5. QED
      BY <2>1, <2>2, <3>2, <3>3, <3>4, BoundOnAdding DEF ControlOK
  <2>5. ASSUME NEW h \in Handlers, QueueTrack(h) PROVE QueueBound'
    <3>1. /\ Head(batch[h]) \in Tracks
          /\ Len(batch[h]) \in Nat
          /\ Len(Tail(batch[h])) = Len(batch[h]) - 1
      BY <2>2, <2>5, BatchHead, ConstantsAssumption DEF QueueTrack
    <3>2. Len(chat'.queue) <= Len(chat.queue) + 1
      <4>1. chat' \in {chat, AddSong(chat, Head(batch[h]))}
        BY <2>5 DEF QueueTrack, queueVars
      <4>2. Len(AddSong(chat, Head(batch[h])).queue) = Len(chat.queue) + 1
        BY <2>1, <3>1, QueueLengths
      <4>3. QED BY <2>1, <4>1, <4>2
    <3>3. batch' = [batch EXCEPT ![h] = Tail(batch[h])]
      BY <2>5 DEF QueueTrack
    <3>4. Len(batch'[h]) < Len(batch[h])
      BY <2>2, <3>1, <3>3 DEF ControlOK
    <3>5. QED
      BY <2>2, <3>2, <3>3, <3>4, BoundOnAdding DEF ControlOK
  <2>6. ASSUME NEW h \in Handlers,
               \/ Activate(h) \/ Advance(h) \/ Finish(h) \/ PlayMedia(h)
               \/ Stop(h) \/ Remove(h) \/ Clear(h)
        PROVE  QueueBound'
    <3>1. Return(h) \/ UNCHANGED batch
      BY <2>6 DEF Activate, Advance, Finish, PlayMedia, Stop, Remove, Clear,
         Goto, localVars
    <3>2. num[h] \in Nat
      BY <2>2 DEF ControlOK
    <3>3. Len(chat'.queue) <= Len(chat.queue)
      <4>1. \/ chat' = chat
            \/ chat' = SetActive(chat, TRUE)
            \/ chat' = ClearChat(chat)
            \/ chat' = RemoveCurrentSong(chat)
            \/ chat' = RemoveTrack(chat, num[h])
        BY <2>6 DEF Activate, Advance, Finish, PlayMedia, Stop, Remove, Clear
      <4>2. /\ Len(SetActive(chat, TRUE).queue) <= Len(chat.queue)
            /\ Len(ClearChat(chat).queue) <= Len(chat.queue)
            /\ Len(RemoveCurrentSong(chat).queue) <= Len(chat.queue)
            /\ Len(RemoveTrack(chat, num[h]).queue) <= Len(chat.queue)
        BY <2>1, <3>2, QueueLengths
      <4>3. Len(chat.queue) <= Len(chat.queue)
        BY <2>1
      <4>4. QED BY <4>1, <4>2, <4>3, Zenon
    <3>4. QED BY <3>1, <3>3, NoNewSlots, BoundWithoutAdding
  <2>7. ASSUME NEW h \in Handlers,
               \/ Skip(h) \/ StopCommand(h) \/ Replay(h) \/ LoopCommand(h)
               \/ RemoveCommand(h) \/ StreamEnd(h) \/ ClearEvent(h)
               \/ BotLeaves(h) \/ Search(h) \/ Gate(h) \/ Download(h)
               \/ Snapshot(h) \/ BatchDone(h) \/ ReadLoop(h) \/ Decrement(h)
               \/ Repeat(h) \/ Upcoming(h) \/ Announce(h) \/ Prepare(h)
               \/ HangUp(h) \/ SetLoop(h)
        PROVE  QueueBound'
    <3>1. Return(h) \/ UNCHANGED batch
      BY <2>7 DEF Skip, StopCommand, Replay, LoopCommand, RemoveCommand,
         StreamEnd, ClearEvent, BotLeaves, Search, Gate, Download, Snapshot,
         BatchDone, ReadLoop, Decrement, Repeat, Upcoming, Announce, Prepare,
         HangUp, SetLoop, Goto, GotoWith, GotoNum, localVars
    <3>2. UNCHANGED chat
      BY <2>7 DEF Skip, StopCommand, Replay, LoopCommand, RemoveCommand,
         StreamEnd, ClearEvent, BotLeaves, Search, Gate, Download, Snapshot,
         BatchDone, ReadLoop, Decrement, Repeat, Upcoming, Announce, Prepare,
         HangUp, SetLoop, queueVars
    <3>3. QED BY <2>1, <3>1, <3>2, NoNewSlots, BoundWithoutAdding
  <2>8. CASE UNCHANGED vars
    BY <2>1, <2>8, LenProperties, BoundWithoutAdding
    DEF vars, queueVars, localVars, TypeOK, ControlOK
  <2>9. QED
    BY <2>3, <2>4, <2>5, <2>6, <2>7, <2>8 DEF Next, Start, Continue
<1>3. QED BY <1>1, <1>2, TypeCorrect, PTL DEF Spec

-----------------------------------------------------------------------------
(* Playback implements SongQueue: the argument is that a song is at one    *)
(* place only, with those nobody requested, in one request or in the queue.*)

Songs(s) == {s[i] : i \in 1..Len(s)}

Distinct(s) == \A i, j \in 1..Len(s) : s[i] = s[j] => i = j

(* s without its i-th song.                                                *)
Without(s, i) == SubSeq(s, 1, i - 1) \o SubSeq(s, i + 1, Len(s))

-----------------------------------------------------------------------------
(* The songs of a sequence that changes.                                   *)

LEMMA NoSongs == Songs(<<>>) = {} /\ Distinct(<<>>)
  BY DEF Songs, Distinct

LEMMA SongsAppend ==
    ASSUME NEW s \in Seq(Tracks), NEW t \in Tracks
    PROVE  /\ Songs(Append(s, t)) = Songs(s) \cup {t}
           /\ Distinct(s) /\ t \notin Songs(s) => Distinct(Append(s, t))
<1>1. /\ Append(s, t) \in Seq(Tracks)
      /\ Len(s) \in Nat
      /\ Len(Append(s, t)) = Len(s) + 1
      /\ \A i \in 1..Len(s) : Append(s, t)[i] = s[i]
      /\ Append(s, t)[Len(s) + 1] = t
  BY AppendProperties, LenProperties
<1> DEFINE a == Append(s, t)
<1> HIDE DEF a
<1>2. 1..Len(a) = (1..Len(s)) \cup {Len(s) + 1}
  BY <1>1 DEF a
<1>3. /\ \A i \in 1..Len(s) : a[i] = s[i]
      /\ a[Len(s) + 1] = t
  BY <1>1 DEF a
<1>4. Songs(a) = Songs(s) \cup {t}
  BY <1>1, <1>2, <1>3 DEF Songs
<1>5. Distinct(s) /\ t \notin Songs(s) => Distinct(a)
  BY <1>1, <1>2, <1>3 DEF Songs, Distinct
<1> QED
  BY <1>4, <1>5 DEF a

LEMMA SongsTail ==
    ASSUME NEW s \in Seq(Tracks), s # <<>>
    PROVE  /\ Songs(s) = {Head(s)} \cup Songs(Tail(s))
           /\ Distinct(s) => Distinct(Tail(s)) /\ Head(s) \notin Songs(Tail(s))
<1> DEFINE r == Tail(s)
<1>1. /\ Len(s) \in Nat \ {0} /\ Len(r) = Len(s) - 1
      /\ \A i \in 1..Len(r) : r[i] = s[i + 1]
      /\ Head(s) = s[1]
  BY EmptySeq, HeadTailProperties
<1> HIDE DEF r
<1>2. ASSUME NEW i \in 1..Len(s), i # 1
      PROVE  i - 1 \in 1..Len(r) /\ s[i] = r[i - 1]
  <2>1. i - 1 \in 1..Len(r)
    BY <1>1, <1>2
  <2>2. r[i - 1] = s[(i - 1) + 1]
    BY <1>1, <2>1
  <2> QED
    BY <2>1, <2>2
<1>3. Songs(s) = {Head(s)} \cup Songs(r)
  <2>1. ASSUME NEW t \in Songs(s) PROVE t \in {Head(s)} \cup Songs(r)
    <3>1. PICK i \in 1..Len(s) : t = s[i]
      BY <2>1 DEF Songs
    <3> QED
      BY <1>1, <1>2, <3>1 DEF Songs
  <2>2. Head(s) \in Songs(s)
    BY <1>1 DEF Songs
  <2>3. ASSUME NEW t \in Songs(r) PROVE t \in Songs(s)
    <3>1. PICK i \in 1..Len(r) : t = r[i]
      BY <2>3 DEF Songs
    <3>2. i + 1 \in 1..Len(s) /\ t = s[i + 1]
      BY <1>1, <3>1
    <3> QED
      BY <3>2 DEF Songs
  <2> QED
    BY <2>1, <2>2, <2>3
<1>4. Distinct(s) => Distinct(r)
  <2> SUFFICES ASSUME Distinct(s), NEW i \in 1..Len(r), NEW j \in 1..Len(r), r[i] = r[j]
               PROVE  i = j
    BY DEF Distinct
  <2>1. i + 1 \in 1..Len(s) /\ j + 1 \in 1..Len(s) /\ s[i + 1] = s[j + 1]
    BY <1>1
  <2>2. i + 1 = j + 1
    BY <2>1 DEF Distinct
  <2> QED
    BY <1>1, <2>2
<1>5. Distinct(s) => Head(s) \notin Songs(r)
  <2> SUFFICES ASSUME Distinct(s), NEW i \in 1..Len(r), s[1] = r[i]
               PROVE  FALSE
    BY <1>1 DEF Songs
  <2>1. i + 1 \in 1..Len(s) /\ 1 \in 1..Len(s) /\ s[1] = s[i + 1]
    BY <1>1
  <2>2. 1 = i + 1
    BY <2>1 DEF Distinct
  <2> QED
    BY <1>1, <2>2
<1> QED
  BY <1>3, <1>4, <1>5 DEF r

(* Taking a song out keeps the others, and takes it out for good where no  *)
(* song is there twice.                                                    *)
LEMMA SongsWithout ==
    ASSUME NEW s \in Seq(Tracks), NEW i \in 1..Len(s)
    PROVE  /\ Without(s, i) \in Seq(Tracks)
           /\ Songs(s) = {s[i]} \cup Songs(Without(s, i))
           /\ Distinct(s) => Distinct(Without(s, i)) /\ s[i] \notin Songs(Without(s, i))
<1> DEFINE front == SubSeq(s, 1, i - 1)
           rear  == SubSeq(s, i + 1, Len(s))
           r     == Without(s, i)
           From(k) == IF k < i THEN k ELSE k + 1
<1>1. Len(s) \in Nat /\ i \in Nat /\ i > 0 /\ i <= Len(s)
  BY LenProperties
<1>2. /\ front \in Seq(Tracks) /\ Len(front) = i - 1
      /\ \A k \in 1..(i - 1) : front[k] = s[k]
  <2>1. \A k \in 1..(i - 1) : s[k] \in Tracks
    BY <1>1, ElementOfSeq
  <2>2. 1 \in Int /\ i - 1 \in Int
    BY <1>1
  <2>3. /\ front \in Seq(Tracks)
        /\ Len(front) = IF 1 <= i - 1 THEN (i - 1) - 1 + 1 ELSE 0
        /\ \A k \in 1..((i - 1) - 1 + 1) : front[k] = s[1 + k - 1]
    BY <2>1, <2>2, SubSeqProperties
  <2> QED
    BY <1>1, <2>3
<1>3. /\ rear \in Seq(Tracks) /\ Len(rear) = Len(s) - i
      /\ \A k \in 1..(Len(s) - i) : rear[k] = s[k + i]
  <2>1. \A k \in (i + 1)..Len(s) : s[k] \in Tracks
    BY <1>1, ElementOfSeq
  <2>2. i + 1 \in Int /\ Len(s) \in Int
    BY <1>1
  <2>3. /\ rear \in Seq(Tracks)
        /\ Len(rear) = IF i + 1 <= Len(s) THEN Len(s) - (i + 1) + 1 ELSE 0
        /\ \A k \in 1..(Len(s) - (i + 1) + 1) : rear[k] = s[(i + 1) + k - 1]
    BY <2>1, <2>2, SubSeqProperties
  <2>4. Len(rear) = Len(s) - i
    BY <1>1, <2>3
  <2>5. ASSUME NEW k \in 1..(Len(s) - i) PROVE rear[k] = s[k + i]
    <3>1. (i + 1) + k - 1 = k + i /\ k \in 1..(Len(s) - (i + 1) + 1)
      BY <1>1
    <3> QED
      BY <2>3, <3>1
  <2> QED
    BY <2>3, <2>4, <2>5
<1> HIDE DEF front, rear
<1>4. /\ r \in Seq(Tracks) /\ Len(r) = Len(s) - 1
      /\ \A k \in 1..(Len(s) - 1) : r[k] = s[From(k)]
  <2>1. r = front \o rear
    BY DEF Without, front, rear
  <2> HIDE DEF r
  <2>2. /\ r \in Seq(Tracks) /\ Len(r) = Len(front) + Len(rear)
        /\ \A k \in 1..(Len(front) + Len(rear)) :
              r[k] = IF k <= Len(front) THEN front[k] ELSE rear[k - Len(front)]
    <3>1. front \in Seq(Tracks) /\ rear \in Seq(Tracks)
      BY <1>2, <1>3
    <3>2. /\ front \o rear \in Seq(Tracks)
          /\ Len(front \o rear) = Len(front) + Len(rear)
          /\ \A k \in 1..(Len(front) + Len(rear)) :
                (front \o rear)[k] =
                    IF k <= Len(front) THEN front[k] ELSE rear[k - Len(front)]
      BY <3>1, ConcatProperties
    <3> QED
      BY <2>1, <3>2
  <2>3. Len(r) = Len(s) - 1
    BY <1>1, <1>2, <1>3, <2>2
  <2>4. ASSUME NEW k \in 1..(Len(s) - 1) PROVE r[k] = s[From(k)]
    <3>. k \in 1..(Len(front) + Len(rear))
      BY <1>1, <1>2, <1>3
    <3>0. r[k] = IF k <= i - 1 THEN front[k] ELSE rear[k - (i - 1)]
      BY <1>2, <2>2
    <3>1. CASE k < i
      <4>1. k <= i - 1 /\ k \in 1..(i - 1)
        BY <1>1, <3>1
      <4> QED
        BY <1>2, <3>0, <3>1, <4>1
    <3>2. CASE ~(k < i)
      <4>1. r[k] = rear[k - (i - 1)] /\ k - (i - 1) \in 1..(Len(s) - i)
        BY <1>1, <3>0, <3>2
      <4>2. rear[k - (i - 1)] = s[(k - (i - 1)) + i]
        BY <1>3, <4>1
      <4>3. (k - (i - 1)) + i = k + 1
        BY <1>1
      <4> QED
        BY <3>2, <4>1, <4>2, <4>3
    <3> QED
      BY <3>1, <3>2
  <2> QED
    BY <2>2, <2>3, <2>4
<1> HIDE DEF r
<1>5. \A k \in 1..Len(r) : From(k) \in 1..Len(s) /\ From(k) # i
  BY <1>1, <1>4
<1>6. \A k \in 1..Len(s) : k # i => \E l \in 1..Len(r) : From(l) = k
  <2> SUFFICES ASSUME NEW k \in 1..Len(s), k # i
               PROVE  \E l \in 1..Len(r) : From(l) = k
    OBVIOUS
  <2>1. CASE k < i
    BY <1>1, <1>4, <2>1
  <2>2. CASE k > i
    <3>1. k - 1 \in 1..Len(r) /\ From(k - 1) = k
      BY <1>1, <1>4, <2>2
    <3> QED
      BY <3>1
  <2> QED
    BY <1>1, <2>1, <2>2
<1>7. \A k, l \in 1..Len(r) : From(k) = From(l) => k = l
  BY <1>1, <1>4
<1>8. \A k \in 1..Len(r) : r[k] = s[From(k)]
  BY <1>4
<1> HIDE DEF From
<1>9. Songs(s) = {s[i]} \cup Songs(r)
  <2>1. ASSUME NEW t \in Songs(s) PROVE t \in {s[i]} \cup Songs(r)
    <3>1. PICK k \in 1..Len(s) : t = s[k]
      BY <2>1 DEF Songs
    <3> QED
      BY <1>6, <1>8, <3>1 DEF Songs
  <2>2. ASSUME NEW t \in Songs(r) PROVE t \in Songs(s)
    BY <1>5, <1>8, <2>2 DEF Songs
  <2>3. s[i] \in Songs(s)
    BY DEF Songs
  <2> QED
    BY <2>1, <2>2, <2>3
<1>10. Distinct(s) => Distinct(r)
  BY <1>5, <1>7, <1>8 DEF Distinct
<1>11. Distinct(s) => s[i] \notin Songs(r)
  <2> SUFFICES ASSUME Distinct(s), NEW k \in 1..Len(r), s[i] = r[k]
               PROVE  FALSE
    BY DEF Songs
  <2> QED
    BY <1>5, <1>8 DEF Distinct
<1> QED
  BY <1>4, <1>9, <1>10, <1>11 DEF r

-----------------------------------------------------------------------------
(* The inductive invariant: no song is at two places, only a goroutine that*)
(* is bringing songs has any left, and /remove has a number above 0.       *)

SongsApart ==
    /\ Distinct(chat.queue)
    /\ fresh \cap Songs(chat.queue) = {}
    /\ \A h \in Handlers :
          /\ Distinct(batch[h])
          /\ Songs(batch[h]) \cap (fresh \cup Songs(chat.queue)) = {}
          /\ \A g \in Handlers \ {h} : Songs(batch[h]) \cap Songs(batch[g]) = {}

BringLabels == SingleLabels \cup {"snapshot", "batch"}

HeldOK(h) ==
    /\ pc[h] \notin BringLabels => batch[h] = <<>>
    /\ pc[h] = "remove" => num[h] # 0

QueueInv == SongsApart /\ \A h \in Handlers : HeldOK(h)

(* The songs that have left the queue or were refused.                     *)
Past == Tracks \ (fresh \cup Pending \cup Queued)

LEMMA PlacesOfSongs ==
    /\ Queued = Songs(chat.queue) /\ Queued' = Songs(chat'.queue)
    /\ Pending = UNION {Songs(batch[h]) : h \in Handlers}
    /\ Pending' = UNION {Songs(batch'[h]) : h \in Handlers}
  BY DEF Queued, Pending, Songs

-----------------------------------------------------------------------------
(* The four ways a step treats the queue and the songs of its goroutine h. *)
(* The others keep what they have.                                         *)

OthersKeep(h) == \A g \in Handlers \ {h} : batch'[g] = batch[g]

(* A request takes songs that nobody has requested.                        *)
LEMMA AdmitStep ==
    ASSUME SongsApart, NEW h \in Handlers, OthersKeep(h),
           batch[h] = <<>>, UNCHANGED chat,
           Distinct(batch'[h]), Songs(batch'[h]) \subseteq fresh,
           fresh' = fresh \ Songs(batch'[h])
    PROVE  SongsApart' /\ UNCHANGED <<chat.queue, Past>>
<1>1. Songs(batch[h]) = {}
  BY NoSongs
<1>2. SongsApart'
  BY DEF SongsApart, OthersKeep
<1>3. fresh' \cup Pending' = fresh \cup Pending
  BY <1>1, PlacesOfSongs DEF OthersKeep
<1> QED
  BY <1>2, <1>3, PlacesOfSongs DEF Past, Queued

(* The first song that h brings is queued.                                 *)
LEMMA BringStep ==
    ASSUME TypeOK, SongsApart, NEW h \in Handlers, OthersKeep(h),
           batch[h] # <<>>, batch'[h] = Tail(batch[h]),
           chat' = AddSong(chat, Head(batch[h])), UNCHANGED fresh
    PROVE  SongsApart' /\ SQ!Enqueue(Head(batch[h]))
<1> DEFINE t == Head(batch[h])
           q == chat.queue
<1>1. /\ q \in Seq(Tracks) /\ batch[h] \in Seq(Tracks) /\ t \in Tracks
      /\ chat'.queue = Append(q, t)
  BY BatchHead DEF TypeOK, DataOK, ControlOK, ChatData, AddSong
<1>2. /\ Songs(batch[h]) = {t} \cup Songs(batch'[h])
      /\ Distinct(batch[h]) => Distinct(batch'[h]) /\ t \notin Songs(batch'[h])
  BY <1>1, SongsTail
<1>3. /\ Songs(chat'.queue) = Songs(q) \cup {t}
      /\ Distinct(q) /\ t \notin Songs(q) => Distinct(chat'.queue)
  BY <1>1, SongsAppend
<1> HIDE DEF t, q
<1>4. t \notin fresh /\ t \notin Songs(q)
  BY <1>2 DEF SongsApart, q
<1>5. SongsApart'
  <2>1. Distinct(chat'.queue) /\ fresh' \cap Songs(chat'.queue) = {}
    BY <1>3, <1>4 DEF SongsApart, q
  <2>2. ASSUME NEW g \in Handlers, NEW k \in Handlers \ {g}
        PROVE  Songs(batch'[g]) \cap Songs(batch'[k]) = {}
    BY <1>2 DEF SongsApart, OthersKeep
  <2>3. ASSUME NEW g \in Handlers
        PROVE  /\ Distinct(batch'[g])
               /\ Songs(batch'[g]) \cap (fresh' \cup Songs(chat'.queue)) = {}
    BY <1>2, <1>3 DEF SongsApart, OthersKeep, q
  <2> QED
    BY <2>1, <2>2, <2>3 DEF SongsApart
<1>6. t \notin Queued \cup Past
  <2>1. t \in Pending
    BY <1>2, PlacesOfSongs
  <2> QED
    BY <1>4, <2>1, PlacesOfSongs DEF Past, q
<1>7. Past' = Past
  <2>1. Pending = Pending' \cup {t}
    BY <1>2, PlacesOfSongs DEF OthersKeep
  <2>2. Queued' = Queued \cup {t}
    BY <1>3, PlacesOfSongs DEF q
  <2> QED
    BY <2>1, <2>2 DEF Past
<1> QED
  BY <1>1, <1>5, <1>6, <1>7 DEF SQ!Enqueue, SQ!Queued, Queued, Past, t, q

(* Nothing is queued; h may forget songs it brought.                       *)
LEMMA ForgetStep ==
    ASSUME SongsApart, NEW h \in Handlers, OthersKeep(h),
           chat'.queue = chat.queue, UNCHANGED fresh,
           Distinct(batch'[h]), Songs(batch'[h]) \subseteq Songs(batch[h])
    PROVE  SongsApart' /\ \E S \in SUBSET Tracks : SQ!Refuse(S)
<1>1. SongsApart'
  <2>1. Distinct(chat'.queue) /\ fresh' \cap Songs(chat'.queue) = {}
    BY DEF SongsApart
  <2>2. ASSUME NEW g \in Handlers, NEW k \in Handlers \ {g}
        PROVE  Songs(batch'[g]) \cap Songs(batch'[k]) = {}
    BY DEF SongsApart, OthersKeep
  <2>3. ASSUME NEW g \in Handlers
        PROVE  /\ Distinct(batch'[g])
               /\ Songs(batch'[g]) \cap (fresh' \cup Songs(chat'.queue)) = {}
    BY DEF SongsApart, OthersKeep
  <2> QED
    BY <2>1, <2>2, <2>3 DEF SongsApart
<1>2. Queued' = Queued
  BY DEF Queued
<1>3. Pending' \subseteq Pending
  BY PlacesOfSongs DEF OthersKeep
<1>4. /\ Past' = Past \cup (Past' \ Past)
      /\ (Past' \ Past) \cap Queued = {}
      /\ Past' \ Past \in SUBSET Tracks
  BY <1>2, <1>3 DEF Past
<1>5. SQ!Refuse(Past' \ Past)
  BY <1>4 DEF SQ!Refuse, SQ!Queued, Queued, Past
<1> QED
  BY <1>1, <1>4, <1>5

(* The i-th song leaves the queue.                                         *)
LEMMA LeaveStep ==
    ASSUME TypeOK, SongsApart, NEW i \in 1..Len(chat.queue),
           chat'.queue = Without(chat.queue, i), UNCHANGED <<batch, fresh>>
    PROVE  SongsApart' /\ SQ!Leave(i)
<1> DEFINE q == chat.queue
<1>1. q \in Seq(Tracks) /\ q[i] \in Tracks
  BY ElementOfSeq DEF TypeOK, DataOK, ChatData
<1>2. /\ Songs(q) = {q[i]} \cup Songs(chat'.queue)
      /\ Distinct(q) => Distinct(chat'.queue) /\ q[i] \notin Songs(chat'.queue)
  BY <1>1, SongsWithout
<1> HIDE DEF q
<1>3. SongsApart'
  BY <1>2 DEF SongsApart, q
<1>4. Past' = Past \cup {q[i]}
  <2>1. q[i] \notin fresh \cup Pending
    BY <1>2, PlacesOfSongs DEF SongsApart, q
  <2>2. Pending' = Pending
    BY DEF Pending
  <2>3. Queued = Queued' \cup {q[i]} /\ q[i] \notin Queued'
    BY <1>2 DEF SongsApart, Queued, Songs, q
  <2> QED
    BY <1>1, <2>1, <2>2, <2>3 DEF Past
<1> QED
  BY <1>3, <1>4 DEF SQ!Leave, Past, Without, q

(* All songs leave it.                                                     *)
LEMMA ClearStep ==
    ASSUME TypeOK, SongsApart, chat' = ClearChat(chat), UNCHANGED <<batch, fresh>>
    PROVE  SongsApart' /\ SQ!LeaveAll
<1>1. chat'.queue = <<>>
  BY DEF ClearChat, NoEntry
<1>2. SongsApart'
  BY <1>1, NoSongs DEF SongsApart
<1>3. Past' = Past \cup Queued
  <2>1. Queued' = {} /\ Pending' = Pending
    BY <1>1 DEF Queued, Pending
  <2>2. Queued \subseteq Tracks
    BY ElementOfSeq DEF Queued, TypeOK, DataOK, ChatData
  <2>3. Queued \cap (fresh \cup Pending) = {}
    BY PlacesOfSongs DEF SongsApart
  <2> QED
    BY <2>1, <2>2, <2>3 DEF Past
<1> QED
  BY <1>1, <1>2, <1>3 DEF SQ!LeaveAll, SQ!Queued, Past, Queued

-----------------------------------------------------------------------------
(* What a step leaves a goroutine with.                                    *)

LEMMA ReturnHeld ==
    ASSUME ControlOK, \A g \in Handlers : HeldOK(g), NEW h \in Handlers, Return(h)
    PROVE  /\ \A g \in Handlers : HeldOK(g)'
           /\ OthersKeep(h) /\ batch'[h] = <<>>
           /\ pc[h] \notin BringLabels => UNCHANGED batch
  BY DEF ControlOK, HeldOK, Return, OthersKeep, BringLabels, SingleLabels

LEMMA GotoHeld ==
    ASSUME ControlOK, \A g \in Handlers : HeldOK(g), NEW h \in Handlers,
           NEW l \in Labels \ {"remove"},
           \/ Goto(h, l)
           \/ \E t \in Tracks \cup {None} : GotoWith(h, l, t)
           \/ \E n \in Nat : GotoNum(h, l, n),
           l \notin BringLabels => batch[h] = <<>>
    PROVE  (\A g \in Handlers : HeldOK(g)') /\ UNCHANGED batch
  BY DEF ControlOK, HeldOK, Goto, GotoWith, GotoNum, localVars

(* A step that leaves the queue alone and only moves its goroutine.        *)
LEMMA QuietStep ==
    ASSUME TypeOK, QueueInv, NEW h \in Handlers,
           chat'.queue = chat.queue, UNCHANGED fresh,
           \A g \in Handlers : HeldOK(g)',
           UNCHANGED batch \/ (OthersKeep(h) /\ batch'[h] = <<>>)
    PROVE  QueueInv' /\ [SQ!Next]_SQ!vars
<1>1. OthersKeep(h)
  BY DEF OthersKeep
<1>2. Distinct(batch'[h]) /\ Songs(batch'[h]) \subseteq Songs(batch[h])
  BY NoSongs DEF QueueInv, SongsApart
<1>3. SongsApart' /\ \E S \in SUBSET Tracks : SQ!Refuse(S)
  BY <1>1, <1>2, ForgetStep DEF QueueInv
<1> QED
  BY <1>3 DEF QueueInv, SQ!Next

-----------------------------------------------------------------------------
(* The steps of Playback, grouped by what they do to the queue.            *)

LEMMA AdmittingSteps ==
    ASSUME TypeOK, QueueInv, NEW h \in Handlers, Play(h) \/ PlayMany(h)
    PROVE  QueueInv' /\ [SQ!Next]_SQ!vars
<1>1. batch[h] = <<>> /\ OthersKeep(h) /\ UNCHANGED chat
  BY DEF QueueInv, HeldOK, Play, PlayMany, At, BringLabels, SingleLabels, OthersKeep,
     queueVars, TypeOK, ControlOK
<1>2. \A g \in Handlers : HeldOK(g)'
  BY DEF QueueInv, HeldOK, Play, PlayMany, BringLabels, SingleLabels, TypeOK, ControlOK
<1>3. /\ Distinct(batch'[h]) /\ Songs(batch'[h]) \subseteq fresh
      /\ fresh' = fresh \ Songs(batch'[h])
  <2>1. CASE Play(h)
    <3>1. PICK t \in fresh : fresh' = fresh \ {t} /\ batch'[h] = <<t>>
      BY <2>1 DEF Play, TypeOK, ControlOK
    <3>2. Songs(<<t>>) = {t} /\ Distinct(<<t>>)
      BY DEF Songs, Distinct
    <3> QED
      BY <3>1, <3>2
  <2>2. CASE PlayMany(h)
    <3>1. PICK n \in 0..MaxBatch : \E ts \in [1..n -> fresh] :
            /\ \A i, j \in 1..n : ts[i] = ts[j] => i = j
            /\ fresh' = fresh \ {ts[i] : i \in 1..n}
            /\ batch'[h] = ts
      BY <2>2 DEF PlayMany, TypeOK, ControlOK
    <3>2. PICK ts \in [1..n -> fresh] :
            /\ \A i, j \in 1..n : ts[i] = ts[j] => i = j
            /\ fresh' = fresh \ {ts[i] : i \in 1..n}
            /\ batch'[h] = ts
      BY <3>1
    <3>3. n \in Nat
      BY ConstantsAssumption
    <3>4. ts \in Seq(fresh) /\ Len(ts) = n
      BY <3>3, SeqDef, LenProperties
    <3> QED
      BY <3>2, <3>4 DEF Songs, Distinct
  <2> QED
    BY <2>1, <2>2
<1>4. SongsApart' /\ UNCHANGED <<chat.queue, Past>>
  BY <1>1, <1>3, AdmitStep DEF QueueInv
<1> QED
  BY <1>2, <1>4 DEF QueueInv, SQ!vars, Past

LEMMA BringingSteps ==
    ASSUME TypeOK, QueueInv, NEW h \in Handlers, Enqueue(h) \/ Add(h) \/ QueueTrack(h)
    PROVE  QueueInv' /\ [SQ!Next]_SQ!vars
<1>1. batch[h] # <<>> /\ batch'[h] = Tail(batch[h]) /\ OthersKeep(h) /\ UNCHANGED fresh
  <2>1. CASE Enqueue(h) \/ Add(h)
    <3>1. Len(batch[h]) = 1 /\ batch[h] \in Seq(Tracks)
      BY <2>1, SingleTrack DEF Enqueue, Add, At, SingleLabels, TypeOK, ControlOK
    <3>2. batch[h] # <<>>
      BY <3>1, EmptySeq
    <3>3. Tail(batch[h]) \in Seq(Tracks) /\ Len(Tail(batch[h])) = 0
      BY <3>1, <3>2, HeadTailProperties
    <3>4. Tail(batch[h]) = <<>>
      BY <3>3, EmptySeq
    <3> QED
      BY <2>1, <3>2, <3>4 DEF Enqueue, Add, Return, OthersKeep, trackVars, TypeOK, ControlOK
  <2>2. CASE QueueTrack(h)
    BY <2>2 DEF QueueTrack, OthersKeep, trackVars, TypeOK, ControlOK
  <2> QED
    BY <2>1, <2>2
<1>2. \A g \in Handlers : HeldOK(g)'
  <2>1. CASE Enqueue(h)
    BY <2>1, ReturnHeld DEF Enqueue, QueueInv, TypeOK
  <2>2. CASE Add(h) \/ QueueTrack(h)
    BY <2>2 DEF Add, QueueTrack, At, QueueInv, HeldOK, BringLabels, TypeOK, ControlOK
  <2> QED
    BY <2>1, <2>2
<1>3. Head(batch[h]) \in Tracks /\ batch[h] \in Seq(Tracks)
  BY <1>1, BatchHead DEF TypeOK, ControlOK
<1>4. CASE chat' = AddSong(chat, Head(batch[h]))
  <2>1. SongsApart' /\ SQ!Enqueue(Head(batch[h]))
    BY <1>1, <1>4, BringStep DEF QueueInv
  <2> QED
    BY <1>2, <1>3, <2>1 DEF QueueInv, SQ!Next
<1>5. CASE UNCHANGED chat
  <2>1. Distinct(batch'[h]) /\ Songs(batch'[h]) \subseteq Songs(batch[h])
    BY <1>1, <1>3, SongsTail DEF QueueInv, SongsApart
  <2>2. SongsApart' /\ \E S \in SUBSET Tracks : SQ!Refuse(S)
    BY <1>1, <1>5, <2>1, ForgetStep DEF QueueInv
  <2> QED
    BY <1>2, <2>2 DEF QueueInv, SQ!Next
<1> QED
  BY <1>4, <1>5 DEF Enqueue, Add, QueueTrack, queueVars

(* RemoveCurrentSong takes out the first song, RemoveTrack the one after   *)
(* the first i, if there is one.                                           *)
LEMMA RemovalsAreLeaving ==
    ASSUME NEW e \in ChatData, NEW i \in Nat
    PROVE  /\ \/ RemoveCurrentSong(e).queue = e.queue
              \/ /\ 1 \in 1..Len(e.queue)
                 /\ RemoveCurrentSong(e).queue = Without(e.queue, 1)
           /\ \/ RemoveTrack(e, i).queue = e.queue
              \/ /\ i + 1 \in 1..Len(e.queue)
                 /\ RemoveTrack(e, i).queue = Without(e.queue, i + 1)
<1> DEFINE q == e.queue
<1>1. q \in Seq(Tracks) /\ Len(q) \in Nat
  BY DEF ChatData
<1>2. CASE q = <<>>
  BY <1>2, EmptySeq DEF RemoveCurrentSong, RemoveTrack, ChatData
<1>3. CASE q # <<>>
  <2>1. RemoveCurrentSong(e).queue = Tail(q)
    BY <1>3 DEF RemoveCurrentSong, ChatData
  <2>2. Tail(q) = SubSeq(q, 2, Len(q)) /\ 1 \in 1..Len(q)
    BY <1>1, <1>3, EmptySeq, TailIsSubSeq
  <2>3. SubSeq(q, 1, 0) = <<>> /\ SubSeq(q, 2, Len(q)) \in Seq(Tracks)
    BY <1>1, <1>3, <2>2, SubSeqEmpty, HeadTailProperties
  <2>4. Without(q, 1) = SubSeq(q, 1, 0) \o SubSeq(q, 2, Len(q))
    BY DEF Without
  <2>5. Without(q, 1) = Tail(q)
    BY <2>2, <2>3, <2>4, ConcatEmptySeq
  <2>6. ASSUME i < Len(q)
        PROVE  i + 1 \in 1..Len(q) /\ RemoveTrack(e, i).queue = Without(q, i + 1)
    <3>1. (i + 1) - 1 = i /\ (i + 1) + 1 = i + 2 /\ i + 1 \in 1..Len(q)
      BY <1>1, <2>6
    <3>2. RemoveTrack(e, i).queue = SubSeq(q, 1, i) \o SubSeq(q, i + 2, Len(q))
      BY <2>6 DEF RemoveTrack, ChatData
    <3> QED
      BY <3>1, <3>2 DEF Without
  <2>7. ~(i < Len(q)) => RemoveTrack(e, i).queue = q
    BY DEF RemoveTrack, ChatData
  <2> QED
    BY <2>1, <2>2, <2>5, <2>6, <2>7
<1> QED
  BY <1>2, <1>3

LEMMA RemovingSteps ==
    ASSUME TypeOK, QueueInv, NEW h \in Handlers, Advance(h) \/ Finish(h) \/ Remove(h)
    PROVE  QueueInv' /\ [SQ!Next]_SQ!vars
<1>1. \A g \in Handlers : HeldOK(g)'
  BY ReturnHeld, GotoHeld DEF Advance, Finish, Remove, QueueInv, TypeOK, Labels, At, HeldOK,
     BringLabels, SingleLabels
<1>2. UNCHANGED <<batch, fresh>>
  <2>1. CASE Advance(h) \/ Finish(h)
    BY <2>1 DEF Advance, Finish, Goto, localVars, trackVars
  <2>2. CASE Remove(h)
    BY <2>2, ReturnHeld
       DEF Remove, At, BringLabels, SingleLabels, trackVars, QueueInv, TypeOK
  <2> QED
    BY <2>1, <2>2
<1>3. chat \in ChatData /\ num[h] \in Nat
  BY DEF TypeOK, DataOK, ControlOK
<1>4. \/ chat'.queue = chat.queue
      \/ \E i \in 1..Len(chat.queue) : chat'.queue = Without(chat.queue, i)
  BY <1>3, RemovalsAreLeaving DEF Advance, Finish, Remove
<1>5. CASE chat'.queue = chat.queue
  BY <1>1, <1>2, <1>5, QuietStep
<1>6. CASE \E i \in 1..Len(chat.queue) : chat'.queue = Without(chat.queue, i)
  <2>1. PICK i \in 1..Len(chat.queue) : chat'.queue = Without(chat.queue, i)
    BY <1>6
  <2>2. SongsApart' /\ SQ!Leave(i)
    BY <1>2, <2>1, LeaveStep DEF QueueInv
  <2> QED
    BY <1>1, <2>2 DEF QueueInv, SQ!Next
<1> QED
  BY <1>4, <1>5, <1>6

LEMMA ClearingSteps ==
    ASSUME TypeOK, QueueInv, NEW h \in Handlers, PlayMedia(h) \/ Stop(h) \/ Clear(h)
    PROVE  QueueInv' /\ [SQ!Next]_SQ!vars
<1>1. \A g \in Handlers : HeldOK(g)'
  BY ReturnHeld, GotoHeld DEF PlayMedia, Stop, Clear, QueueInv, TypeOK, Labels, At, HeldOK,
     BringLabels, SingleLabels
<1>2. UNCHANGED <<batch, fresh>>
  BY ReturnHeld DEF PlayMedia, Stop, Clear, Goto, localVars, trackVars, At, BringLabels,
     SingleLabels, QueueInv, TypeOK
<1>3. CASE chat' = ClearChat(chat)
  <2>1. SongsApart' /\ SQ!LeaveAll
    BY <1>2, <1>3, ClearStep DEF QueueInv
  <2> QED
    BY <1>1, <2>1 DEF QueueInv, SQ!Next
<1>4. CASE UNCHANGED chat
  BY <1>1, <1>2, <1>4, QuietStep
<1> QED
  BY <1>3, <1>4 DEF PlayMedia, Stop, Clear

(* Steps that end a goroutine, which forgets the songs it still has, or    *)
(* move it on; none of them moves a song.                                  *)
LEMMA QuietSteps ==
    ASSUME TypeOK, QueueInv, NEW h \in Handlers,
           \/ Skip(h) \/ StopCommand(h) \/ Replay(h) \/ LoopCommand(h)
           \/ RemoveCommand(h) \/ StreamEnd(h) \/ ClearEvent(h)
           \/ BotLeaves(h) \/ Search(h) \/ Gate(h) \/ Download(h) \/ Activate(h)
           \/ Snapshot(h) \/ BatchDone(h) \/ ReadLoop(h) \/ Decrement(h)
           \/ Repeat(h) \/ Upcoming(h) \/ Announce(h) \/ Prepare(h)
           \/ HangUp(h) \/ SetLoop(h)
    PROVE  QueueInv' /\ [SQ!Next]_SQ!vars
<1>1. chat'.queue = chat.queue /\ UNCHANGED fresh
  BY DEF Skip, StopCommand, Replay, LoopCommand, RemoveCommand,
     StreamEnd, ClearEvent, BotLeaves, Search, Gate, Download, Activate, Snapshot,
     BatchDone, ReadLoop, Decrement, Repeat, Upcoming, Announce, Prepare,
     HangUp, SetLoop, SetActive, queueVars, trackVars, TypeOK, DataOK, ChatData
<1>2. ControlOK /\ \A g \in Handlers : HeldOK(g)
  BY DEF TypeOK, QueueInv
<1>3. CASE Return(h)
  BY <1>1, <1>2, <1>3, ReturnHeld, QuietStep
<1>4. CASE ~Return(h)
  <2>1. UNCHANGED batch
    BY <1>4 DEF Skip, StopCommand, Replay, LoopCommand, RemoveCommand,
       StreamEnd, ClearEvent, BotLeaves, Search, Gate, Download, Activate, Snapshot,
       BatchDone, ReadLoop, Decrement, Repeat, Upcoming, Announce, Prepare,
       HangUp, SetLoop, Goto, GotoWith, GotoNum, localVars
  <2>2. /\ pc'[h] \in BringLabels \/ batch[h] = <<>>
        /\ pc'[h] = "remove" => num'[h] # 0
        /\ \A g \in Handlers \ {h} : pc'[g] = pc[g] /\ num'[g] = num[g]
    <3>1. CASE \/ Skip(h) \/ StopCommand(h) \/ Replay(h) \/ LoopCommand(h)
               \/ RemoveCommand(h) \/ StreamEnd(h) \/ ClearEvent(h) \/ BotLeaves(h)
      <4>1. batch[h] = <<>>
        BY <1>2, <3>1 DEF Skip, StopCommand, Replay, LoopCommand, RemoveCommand, StreamEnd,
           ClearEvent, BotLeaves, At, HeldOK, BringLabels, SingleLabels
      <4>2. CASE RemoveCommand(h)
        BY <1>2, <4>1, <4>2 DEF RemoveCommand, GotoNum, ControlOK
      <4>3. CASE ~RemoveCommand(h)
        BY <1>2, <3>1, <4>1, <4>3 DEF Skip, StopCommand, Replay, LoopCommand, StreamEnd,
           ClearEvent, BotLeaves, Goto, GotoWith, GotoNum, localVars, ControlOK
      <4> QED
        BY <4>2, <4>3
    <3>2. CASE \/ Search(h) \/ Gate(h) \/ Download(h) \/ Activate(h) \/ Snapshot(h)
               \/ BatchDone(h)
      BY <1>2, <1>4, <3>2 DEF Search, Gate, Download, Activate, Snapshot, BatchDone,
         Goto, GotoWith, localVars, At, HeldOK, BringLabels, SingleLabels, ControlOK
    <3>3. CASE \/ ReadLoop(h) \/ Decrement(h) \/ Repeat(h) \/ Upcoming(h)
               \/ Announce(h) \/ Prepare(h) \/ HangUp(h) \/ SetLoop(h)
      BY <1>2, <1>4, <3>3 DEF ReadLoop, Decrement, Repeat, Upcoming, Announce, Prepare,
         HangUp, SetLoop, Goto, GotoWith, GotoNum, localVars, At, HeldOK, BringLabels,
         SingleLabels, ControlOK
    <3> QED
      BY <3>1, <3>2, <3>3
  <2>3. \A g \in Handlers : HeldOK(g)'
    BY <1>2, <2>1, <2>2 DEF HeldOK
  <2> QED
    BY <1>1, <2>1, <2>3, QuietStep
<1> QED
  BY <1>3, <1>4

-----------------------------------------------------------------------------
(* At the start nobody has requested a song.                               *)
LEMMA QueueInit == Init => QueueInv /\ SQ!Init
<1> SUFFICES ASSUME Init PROVE QueueInv /\ SQ!Init
  OBVIOUS
<1>1. chat.queue = <<>> /\ fresh = Tracks /\ \A h \in Handlers : batch[h] = <<>>
  BY DEF Init, NoEntry
<1>2. Queued = {} /\ Past = {}
  BY <1>1, NoSongs, PlacesOfSongs DEF Past
<1>3. QueueInv
  BY <1>1, NoSongs DEF QueueInv, SongsApart, HeldOK, Init
<1> QED
  BY <1>1, <1>2, <1>3 DEF SQ!Init, Past

LEMMA QueueStep ==
    ASSUME TypeOK, QueueInv, [Next]_vars
    PROVE  QueueInv' /\ [SQ!Next]_SQ!vars
<1>1. CASE Next
  <2>1. PICK h \in Handlers : Start(h) \/ Continue(h)
    BY <1>1 DEF Next
  <2>2. CASE Play(h) \/ PlayMany(h)
    BY <2>2, AdmittingSteps
  <2>3. CASE Enqueue(h) \/ Add(h) \/ QueueTrack(h)
    BY <2>3, BringingSteps
  <2>4. CASE Advance(h) \/ Finish(h) \/ Remove(h)
    BY <2>4, RemovingSteps
  <2>5. CASE PlayMedia(h) \/ Stop(h) \/ Clear(h)
    BY <2>5, ClearingSteps
  <2> QED
    BY <2>1, <2>2, <2>3, <2>4, <2>5, QuietSteps DEF Start, Continue
<1>2. CASE UNCHANGED vars
  <2>1. UNCHANGED <<chat, fresh, batch, pc, num>>
    BY <1>2 DEF vars, queueVars, trackVars, localVars
  <2>2. QueueInv'
    BY <2>1 DEF QueueInv, SongsApart, HeldOK, BringLabels
  <2>3. UNCHANGED <<chat.queue, Past>>
    BY <2>1 DEF Past, Pending, Queued
  <2> QED
    BY <2>2, <2>3 DEF SQ!vars, Past
<1> QED
  BY <1>1, <1>2

(* No song is ever at two places.                                          *)
THEOREM QueueInvCorrect == Spec => [](TypeOK /\ QueueInv)
<1>1. TypeOK /\ QueueInv /\ [Next]_vars => QueueInv'
  BY QueueStep
<1> QED
  BY QueueInit, TypeCorrect, <1>1, PTL DEF Spec

(* Playback implements SongQueue: whatever handlers, callbacks and events  *)
(* interleave, songs enter the queue once and at its end, keep their order *)
(* and never come back after they have left or were refused.               *)
THEOREM KeepsSongQueueCorrect == Spec => KeepsSongQueue
<1>1. TypeOK /\ QueueInv /\ [Next]_vars => [SQ!Next]_SQ!vars
  BY QueueStep
<1> QED
  BY QueueInit, QueueInvCorrect, <1>1, PTL DEF Spec, KeepsSongQueue, SQ!Spec

(* A step moves its goroutine and no other.                                *)
LEMMA StepMoves ==
    ASSUME TypeOK, NEW g \in Handlers, Start(g) \/ Continue(g)
    PROVE  \A h \in Handlers \ {g} : pc'[h] = pc[h]
  BY DEF Start, Continue, Play, PlayMany, Skip, StopCommand, Replay,
     LoopCommand, RemoveCommand, StreamEnd, ClearEvent, BotLeaves, Search, Gate, Enqueue,
     Download, Activate, Add, Snapshot, QueueTrack, BatchDone, ReadLoop, Decrement, Repeat,
     Upcoming, Advance, Finish, Announce, Prepare, PlayMedia, Stop, HangUp, SetLoop, Remove,
     Clear, Goto, GotoWith, GotoNum, Return, TypeOK, ControlOK

(* RemoveTrack counts from 0, so no number above that is the first song's. *)
LEMMA RemoveTrackSparesHead ==
    ASSUME NEW e \in ChatData, NEW i \in Nat \ {0}
    PROVE  GetPlayingTrack(RemoveTrack(e, i)) = GetPlayingTrack(e)
<1> DEFINE q == e.queue
<1>1. q \in Seq(Tracks) /\ Len(q) \in Nat
  BY DEF ChatData
<1>2. CASE i < Len(q)
  <2> DEFINE front == SubSeq(q, 1, i)
             rear  == SubSeq(q, i + 2, Len(q))
  <2>1. front \in Seq(Tracks) /\ Len(front) = i /\ front[1] = q[1]
    BY <1>1, <1>2, SubSeqProperties, ElementOfSeq
  <2>2. rear \in Seq(Tracks)
    BY <1>1, <1>2, SubSeqProperties, ElementOfSeq
  <2>3. RemoveTrack(e, i).queue = front \o rear
    BY <1>2 DEF RemoveTrack, ChatData
  <2> HIDE DEF front, rear
  <2>4. (front \o rear)[1] = q[1] /\ Len(front \o rear) # 0
    BY <2>1, <2>2, ConcatProperties, LenProperties
  <2>5. front \o rear # <<>> /\ q # <<>>
    BY <1>1, <1>2, <2>4, EmptySeq
  <2> QED
    BY <2>3, <2>4, <2>5 DEF GetPlayingTrack
<1>3. CASE ~(i < Len(q))
  BY <1>3 DEF RemoveTrack, GetPlayingTrack, ChatData
<1> QED
  BY <1>2, <1>3

(* /remove leaves the first song alone, whatever became of the queue since *)
(* its number was checked.                                                 *)
THEOREM RemoveSparesHeadCorrect == Spec => RemoveSparesHead
<1> DEFINE Spared == \A h \in Handlers :
             At(h, "remove") /\ pc'[h] = "idle" =>
                GetPlayingTrack(chat') = GetPlayingTrack(chat)
<1>1. ASSUME TypeOK, QueueInv, [Next]_vars
      PROVE  [Spared]_vars
  <2> SUFFICES ASSUME Next, NEW h \in Handlers, At(h, "remove"), pc'[h] = "idle"
               PROVE  GetPlayingTrack(chat') = GetPlayingTrack(chat)
    BY <1>1
  <2>1. PICK g \in Handlers : Start(g) \/ Continue(g)
    BY DEF Next
  <2>2. pc[h] = "remove" /\ pc'[h] # pc[h]
    BY DEF At
  <2>3. h = g
    <3> SUFFICES ASSUME h # g PROVE pc'[h] = pc[h]
      BY <2>2
    <3> QED
      BY <1>1, <2>1, StepMoves
  <2>4. Remove(h)
    BY <2>1, <2>2, <2>3 DEF Start, Continue, Play, PlayMany, Skip, StopCommand, Replay,
       LoopCommand, RemoveCommand, StreamEnd, ClearEvent, BotLeaves, Search, Gate, Enqueue,
       Download, Activate, Add, Snapshot, QueueTrack, BatchDone, ReadLoop, Decrement, Repeat,
       Upcoming, Advance, Finish, Announce, Prepare, PlayMedia, Stop, HangUp, SetLoop, Clear,
       At
  <2> QED
    BY <1>1, <2>4, RemoveTrackSparesHead
       DEF Remove, At, QueueInv, HeldOK, TypeOK, DataOK, ControlOK
<1> QED
  BY QueueInvCorrect, <1>1, PTL DEF Spec, RemoveSparesHead
-----------------------------------------------------------------------------
(* One command at a time.  What a goroutine relies on when there is no     *)
(* other, messages are sent and the chat has its assistant.                *)

Alone(h) == Handlers = {h} /\ "message" \notin Faults /\ "assistant" \notin Faults

(* The chat is active just when something is queued.                       *)
Linked == IF chat.queue = <<>> THEN ~chat.present ELSE IsActive(chat)

OnAir == chat.queue # <<>> => playing = GetPlayingTrack(chat)

(* A command leaves the head of the queue on the air until it comes to     *)
(* PlayNext; from there on it knows which song will be the head.           *)
Serial(h) ==
    /\ pc[h] \notin {"add", "stop", "clear"} => Linked
    /\ pc[h] \in {"idle", "search", "gate", "enqueue", "download", "snapshot",
                  "setloop", "remove"} => OnAir
    /\ pc[h] = "batch" /\ wasActive[h] => OnAir /\ chat.queue # <<>>
    /\ pc[h] = "enqueue" => chat.queue # <<>>
    /\ pc[h] \in {"download", "activate", "add", "hangup"} => chat.queue = <<>>
    /\ pc[h] = "add" => IsActive(chat)
    /\ pc[h] \in {"announce", "prepare", "media"} =>
          chat.queue # <<>> /\ cur[h] = GetPlayingTrack(chat)
    /\ pc[h] = "advance" => Len(chat.queue) >= 2 /\ cur[h] = chat.queue[2]
    /\ pc[h] = "finish" => Len(chat.queue) < 2
    /\ pc[h] = "remove" => num[h] # 0

(* The song at the head has been on, or will be because of its Loop.       *)
Heard == chat.queue # <<>> => GetPlayingTrack(chat) \in tried

Trying(h) ==
    /\ pc[h] \notin {"batch", "loop", "decrement", "current"} => Heard
    /\ pc[h] = "loop" => Heard \/ loop[GetPlayingTrack(chat)] > 0
    /\ pc[h] = "batch" /\ wasActive[h] => Heard
    /\ pc[h] = "batch" /\ ~wasActive[h] /\ chat.queue # <<>> =>
          loop[GetPlayingTrack(chat)] > 0
    /\ pc[h] \in {"snapshot", "batch"} /\ chat.queue = <<>> /\ batch[h] # <<>> =>
          Head(batch[h]) = cur[h]

LEMMA EntryHead ==
    ASSUME NEW e \in ChatData
    PROVE  /\ GetPlayingTrack(e) = None <=> e.queue = <<>>
           /\ GetUpcomingTrack(e) = None <=> Len(e.queue) < 2
           /\ e.queue = <<>> <=> Len(e.queue) = 0
           /\ Len(e.queue) \in Nat
<1>1. e.queue \in Seq(Tracks) /\ Len(e.queue) \in Nat
  BY DEF ChatData
<1>2. e.queue = <<>> <=> Len(e.queue) = 0
  BY <1>1, EmptySeq, LenProperties
<1>3. e.queue # <<>> => e.queue[1] \in Tracks
  BY <1>1, <1>2, ElementOfSeq
<1>4. ~(Len(e.queue) < 2) => e.queue[2] \in Tracks
  BY <1>1, ElementOfSeq
<1> QED
  BY <1>1, <1>2, <1>3, <1>4, NoneAssumption DEF GetPlayingTrack, GetUpcomingTrack

LEMMA EntryAdd ==
    ASSUME NEW e \in ChatData, NEW t \in Tracks
    PROVE  /\ AddSong(e, t).queue # <<>>
           /\ GetPlayingTrack(AddSong(e, t))
                 = IF e.queue = <<>> THEN t ELSE GetPlayingTrack(e)
           /\ IsActive(AddSong(e, t)) <=> e.active \/ ~e.present
<1>1. e.queue \in Seq(Tracks) /\ Len(e.queue) \in Nat
  BY DEF ChatData
<1>2. e.queue = <<>> <=> Len(e.queue) = 0
  BY <1>1, EmptySeq, LenProperties
<1> DEFINE q == Append(e.queue, t)
<1>3. q \in Seq(Tracks) /\ Len(q) = Len(e.queue) + 1 /\ q # <<>>
      /\ q[1] = IF e.queue = <<>> THEN t ELSE e.queue[1]
  BY <1>1, <1>2, AppendProperties
<1>4. AddSong(e, t).queue = q
  BY DEF AddSong
<1> HIDE DEF q
<1>5. IsActive(AddSong(e, t)) <=> e.active \/ ~e.present
  BY DEF IsActive, AddSong
<1> QED
  BY <1>3, <1>4, <1>5 DEF GetPlayingTrack

LEMMA EntryDrop ==
    ASSUME NEW e \in ChatData
    PROVE  /\ Len(e.queue) < 2 => RemoveCurrentSong(e).queue = <<>>
           /\ Len(e.queue) >= 2 => /\ RemoveCurrentSong(e).queue # <<>>
                                   /\ GetPlayingTrack(RemoveCurrentSong(e)) = e.queue[2]
           /\ IsActive(RemoveCurrentSong(e)) = IsActive(e)
<1>1. e.queue \in Seq(Tracks) /\ Len(e.queue) \in Nat
  BY DEF ChatData
<1>2. e.queue = <<>> <=> Len(e.queue) = 0
  BY <1>1, EmptySeq, LenProperties
<1> DEFINE r == Tail(e.queue)
<1>3. e.queue # <<>> => /\ r \in Seq(Tracks) /\ Len(r) = Len(e.queue) - 1
                        /\ \A i \in 1..Len(r) : r[i] = e.queue[i + 1]
  BY <1>1, HeadTailProperties
<1>4. RemoveCurrentSong(e).queue = IF e.queue = <<>> THEN e.queue ELSE r
  BY DEF RemoveCurrentSong, ChatData
<1>5. IsActive(RemoveCurrentSong(e)) = IsActive(e)
  BY DEF RemoveCurrentSong, ChatData, IsActive
<1> HIDE DEF r
<1>6. e.queue # <<>> => (r = <<>> <=> Len(r) = 0)
  BY <1>3, EmptySeq, LenProperties
<1>7. CASE Len(e.queue) < 2
  BY <1>1, <1>2, <1>3, <1>4, <1>5, <1>6, <1>7
<1>8. CASE Len(e.queue) >= 2
  <2>1. 1 \in 1..Len(r) /\ r # <<>> /\ r[1] = e.queue[2]
    BY <1>1, <1>2, <1>3, <1>6, <1>8
  <2> QED
    BY <1>1, <1>2, <1>4, <1>5, <1>8, <2>1 DEF GetPlayingTrack
<1> QED
  BY <1>1, <1>7, <1>8

LEMMA EntryRemove ==
    ASSUME NEW e \in ChatData, NEW i \in Nat \ {0}
    PROVE  /\ RemoveTrack(e, i).queue = <<>> <=> e.queue = <<>>
           /\ GetPlayingTrack(RemoveTrack(e, i)) = GetPlayingTrack(e)
           /\ RemoveTrack(e, i).present = e.present
           /\ IsActive(RemoveTrack(e, i)) = IsActive(e)
<1>1. RemoveTrack(e, i) \in ChatData
  BY RemoveTrackType
<1>2. GetPlayingTrack(RemoveTrack(e, i)) = GetPlayingTrack(e)
  BY RemoveTrackSparesHead
<1>3. RemoveTrack(e, i).present = e.present /\ RemoveTrack(e, i).active = e.active
  BY DEF RemoveTrack, ChatData
<1> QED
  BY <1>1, <1>2, <1>3, EntryHead DEF IsActive

LEMMA SerialStart ==
    ASSUME TypeOK, NEW h \in Handlers, Serial(h), Start(h)
    PROVE  Serial(h)'
<1>1. chat \in ChatData /\ ControlOK
  BY DEF TypeOK, DataOK
<1>2. Linked /\ OnAir /\ UNCHANGED chat
  BY DEF Serial, Start, Play, PlayMany, Skip, StopCommand, Replay, LoopCommand, RemoveCommand,
     StreamEnd, ClearEvent, BotLeaves, At, queueVars
<1>3. CASE Play(h) \/ PlayMany(h)
  <2>1. pc'[h] \in {"search", "snapshot"} /\ playing' = playing
    BY <1>1, <1>3 DEF Play, PlayMany, ControlOK
  <2> QED
    BY <1>2, <2>1 DEF Serial, Linked, OnAir
<1>4. CASE Skip(h) \/ StopCommand(h) \/ StreamEnd(h) \/ ClearEvent(h) \/ BotLeaves(h)
  <2>1. pc'[h] \in {"loop", "stop", "clear"}
    BY <1>1, <1>4 DEF Skip, StopCommand, StreamEnd, ClearEvent, BotLeaves, Goto, ControlOK
  <2> QED
    BY <1>2, <2>1 DEF Serial, Linked, OnAir
<1>5. CASE Replay(h)
  <2>1. pc'[h] = "media" /\ cur'[h] = GetPlayingTrack(chat) /\ GetPlayingTrack(chat) # None
    BY <1>1, <1>5 DEF Replay, GotoWith, ControlOK
  <2>2. chat.queue # <<>>
    BY <1>1, <2>1, EntryHead
  <2> QED
    BY <1>2, <2>1, <2>2 DEF Serial, Linked, OnAir
<1>6. CASE LoopCommand(h) \/ RemoveCommand(h)
  <2>1. /\ pc'[h] \in {"setloop", "remove"} /\ playing' = playing
        /\ pc'[h] = "remove" => num'[h] # 0
    BY <1>1, <1>6 DEF LoopCommand, RemoveCommand, GotoNum, ControlOK
  <2> QED
    BY <1>2, <2>1 DEF Serial, Linked, OnAir
<1> QED
  BY <1>3, <1>4, <1>5, <1>6 DEF Start

(* The way of a request: into a queue whose head is on the air, or into an *)
(* empty one, where its song is played at once.                            *)
LEMMA SerialRequest ==
    ASSUME TypeOK, NEW h \in Handlers, Serial(h),
           \/ Search(h) \/ Gate(h) \/ Enqueue(h) \/ Download(h) \/ Activate(h)
           \/ Add(h) \/ Snapshot(h) \/ QueueTrack(h) \/ BatchDone(h)
    PROVE  Serial(h)'
<1>1. chat \in ChatData /\ ControlOK
  BY DEF TypeOK, DataOK
<1>2. CASE Search(h)
  <2>1. pc'[h] \in {"idle", "gate"} /\ UNCHANGED <<chat, playing>> /\ Linked /\ OnAir
    BY <1>1, <1>2 DEF Search, Return, Goto, ControlOK, Serial, At, queueVars
  <2> QED
    BY <2>1 DEF Serial, Linked, OnAir
<1>3. CASE Gate(h)
  <2>1. /\ UNCHANGED <<chat, playing>> /\ Linked /\ OnAir
        /\ \/ pc'[h] = "enqueue" /\ IsActive(chat)
           \/ pc'[h] \in {"activate", "download"} /\ ~IsActive(chat)
    BY <1>1, <1>3 DEF Gate, Goto, ControlOK, Serial, At, queueVars
  <2>2. IsActive(chat) <=> chat.queue # <<>>
    BY <2>1 DEF Linked, IsActive
  <2> QED
    BY <2>1, <2>2 DEF Serial, Linked, OnAir
<1>4. CASE Enqueue(h)
  <2>1. /\ pc[h] = "enqueue" /\ Linked /\ OnAir /\ chat.queue # <<>>
        /\ pc'[h] = "idle" /\ playing' = playing
        /\ chat' = AddSong(chat, Head(batch[h]))
    BY <1>1, <1>4 DEF Enqueue, Return, ControlOK, Serial, At
  <2>2. Head(batch[h]) \in Tracks
    BY <1>1, <2>1, SingleTrack DEF SingleLabels
  <2>3. /\ chat'.queue # <<>> /\ GetPlayingTrack(chat') = GetPlayingTrack(chat)
        /\ IsActive(chat')
    BY <1>1, <2>1, <2>2, EntryAdd DEF Linked, IsActive
  <2> QED
    BY <2>1, <2>3 DEF Serial, Linked, OnAir
<1>5. CASE Download(h)
  <2>1. /\ UNCHANGED <<chat, playing>> /\ Linked /\ OnAir /\ chat.queue = <<>>
        /\ pc'[h] \in {"idle", "activate", "gate"}
    BY <1>1, <1>5 DEF Download, Return, Goto, ControlOK, Serial, At, queueVars
  <2> QED
    BY <2>1 DEF Serial, Linked, OnAir
<1>6. CASE Activate(h)
  <2>1. chat.queue = <<>> /\ pc'[h] = "add" /\ chat' = SetActive(chat, TRUE)
    BY <1>1, <1>6 DEF Activate, Goto, ControlOK, Serial, At
  <2>2. chat'.queue = <<>> /\ IsActive(chat')
    BY <1>1, <2>1 DEF SetActive, ChatData, IsActive
  <2> QED
    BY <2>1, <2>2 DEF Serial
<1>7. CASE Add(h)
  <2>1. /\ pc[h] = "add" /\ chat.queue = <<>> /\ IsActive(chat) /\ pc'[h] = "media"
        /\ chat' = AddSong(chat, Head(batch[h])) /\ cur'[h] = Head(batch[h])
    BY <1>1, <1>7 DEF Add, ControlOK, Serial, At
  <2>2. Head(batch[h]) \in Tracks
    BY <1>1, <2>1, SingleTrack DEF SingleLabels
  <2>3. chat'.queue # <<>> /\ GetPlayingTrack(chat') = Head(batch[h]) /\ IsActive(chat')
    BY <1>1, <2>1, <2>2, EntryAdd DEF IsActive
  <2> QED
    BY <2>1, <2>3 DEF Serial, Linked
<1>8. CASE Snapshot(h)
  <2>1. /\ UNCHANGED <<chat, playing>> /\ Linked /\ OnAir
        /\ \/ pc'[h] = "idle"
           \/ pc'[h] = "batch" /\ wasActive'[h] = IsActive(chat)
    BY <1>1, <1>8 DEF Snapshot, Return, ControlOK, Serial, At, queueVars
  <2>2. IsActive(chat) => chat.queue # <<>>
    BY <2>1 DEF Linked, IsActive
  <2> QED
    BY <2>1, <2>2 DEF Serial, Linked, OnAir
<1>9. CASE QueueTrack(h)
  <2>1. /\ pc[h] = "batch" /\ pc'[h] = "batch" /\ UNCHANGED <<playing, wasActive>>
        /\ chat' = chat \/ chat' = AddSong(chat, Head(batch[h]))
        /\ batch[h] # <<>>
    BY <1>9 DEF QueueTrack, At, queueVars
  <2>2. Linked /\ (wasActive[h] => OnAir /\ chat.queue # <<>>)
    BY <2>1 DEF Serial
  <2>3. Head(batch[h]) \in Tracks
    BY <1>1, <2>1, BatchHead
  <2>4. chat' # chat => /\ chat'.queue # <<>> /\ IsActive(chat')
                        /\ chat.queue # <<>> =>
                              GetPlayingTrack(chat') = GetPlayingTrack(chat)
    BY <1>1, <2>1, <2>2, <2>3, EntryAdd DEF Linked, IsActive
  <2>5. Linked' /\ (wasActive[h] => OnAir' /\ chat'.queue # <<>>)
    BY <2>1, <2>2, <2>4 DEF Linked, OnAir
  <2> QED
    BY <2>1, <2>5 DEF Serial
<1>10. CASE BatchDone(h)
  <2>1. /\ UNCHANGED <<chat, playing>> /\ Linked /\ (wasActive[h] => OnAir)
        /\ \/ pc'[h] = "idle" /\ wasActive[h]
           \/ pc'[h] = "loop"
    BY <1>1, <1>10 DEF BatchDone, Return, GotoWith, ControlOK, Serial, At, queueVars
  <2> QED
    BY <2>1 DEF Serial, Linked, OnAir
<1> QED
  BY <1>2, <1>3, <1>4, <1>5, <1>6, <1>7, <1>8, <1>9, <1>10

(* The way of PlayNext and what it calls: to the song it plays, or to the  *)
(* end of the queue.                                                       *)
LEMMA SerialNext ==
    ASSUME TypeOK, NEW h \in Handlers, Alone(h), Serial(h),
           \/ ReadLoop(h) \/ Decrement(h) \/ Repeat(h) \/ Upcoming(h)
           \/ Advance(h) \/ Finish(h) \/ Announce(h) \/ Prepare(h)
           \/ PlayMedia(h) \/ Stop(h) \/ HangUp(h) \/ SetLoop(h) \/ Remove(h)
           \/ Clear(h)
    PROVE  Serial(h)'
<1>1. chat \in ChatData /\ ControlOK
  BY DEF TypeOK, DataOK
<1>2. CASE ReadLoop(h) \/ Decrement(h)
  <2>1. UNCHANGED chat /\ Linked /\ pc'[h] \in {"decrement", "upcoming", "current"}
    BY <1>1, <1>2 DEF ReadLoop, Decrement, Goto, GotoNum, ControlOK, Serial, At, queueVars
  <2> QED
    BY <2>1 DEF Serial, Linked
<1>3. CASE Repeat(h)
  <2>1. /\ UNCHANGED chat /\ Linked
        /\ \/ pc'[h] = "upcoming"
           \/ /\ pc'[h] = "announce" /\ GetPlayingTrack(chat) # None
              /\ cur'[h] = GetPlayingTrack(chat)
    BY <1>1, <1>3 DEF Repeat, Goto, GotoWith, ControlOK, Serial, At, queueVars
  <2>2. GetPlayingTrack(chat) # None => chat.queue # <<>>
    BY <1>1, EntryHead
  <2> QED
    BY <2>1, <2>2 DEF Serial, Linked
<1>4. CASE Upcoming(h)
  <2>1. /\ UNCHANGED chat /\ Linked /\ cur'[h] = GetUpcomingTrack(chat)
        /\ \/ pc'[h] = "finish" /\ GetUpcomingTrack(chat) = None
           \/ pc'[h] = "advance" /\ GetUpcomingTrack(chat) # None
    BY <1>1, <1>4 DEF Upcoming, GotoWith, ControlOK, Serial, At, queueVars
  <2>2. /\ GetUpcomingTrack(chat) = None <=> Len(chat.queue) < 2
        /\ Len(chat.queue) \in Nat
    BY <1>1, EntryHead
  <2>3. ~(Len(chat.queue) < 2) => Len(chat.queue) >= 2
                                  /\ GetUpcomingTrack(chat) = chat.queue[2]
    BY <2>2 DEF GetUpcomingTrack
  <2> QED
    BY <2>1, <2>2, <2>3 DEF Serial, Linked
<1>5. CASE Advance(h)
  <2>1. /\ chat' = RemoveCurrentSong(chat) /\ Linked /\ Len(chat.queue) >= 2
        /\ cur[h] = chat.queue[2] /\ pc'[h] = "announce" /\ cur' = cur
    BY <1>1, <1>5 DEF Advance, Goto, localVars, ControlOK, Serial, At
  <2>2. chat.queue # <<>>
    BY <1>1, <2>1, EntryHead
  <2>3. /\ chat'.queue # <<>> /\ GetPlayingTrack(chat') = chat.queue[2] /\ IsActive(chat')
    BY <1>1, <2>1, <2>2, EntryDrop DEF Linked
  <2> QED
    BY <2>1, <2>3 DEF Serial, Linked
<1>6. CASE Finish(h)
  <2>1. pc'[h] = "stop"
    BY <1>1, <1>6 DEF Finish, Goto, ControlOK
  <2> QED
    BY <2>1 DEF Serial
<1>7. CASE Announce(h) \/ Prepare(h)
  <2>1. /\ UNCHANGED chat /\ Linked /\ chat.queue # <<>> /\ cur[h] = GetPlayingTrack(chat)
        /\ \/ pc'[h] \in {"prepare", "media"} /\ cur' = cur
           \/ pc'[h] = "loop"
    BY <1>1, <1>7 DEF Announce, Prepare, Alone, MayFail, Goto, GotoWith, localVars, ControlOK,
       Serial, At, queueVars
  <2> QED
    BY <2>1 DEF Serial, Linked
<1>8. CASE PlayMedia(h)
  <2>1. /\ pc'[h] = "idle" /\ Linked /\ chat.queue # <<>> /\ cur[h] = GetPlayingTrack(chat)
        /\ \/ chat' = chat /\ playing' = cur[h]
           \/ chat' = ClearChat(chat)
    BY <1>1, <1>8 DEF PlayMedia, Alone, MayFail, Return, ControlOK, Serial, At
  <2> QED
    BY <2>1 DEF Serial, Linked, OnAir, ClearChat, NoEntry
<1>9. CASE Stop(h) \/ Clear(h)
  <2>1. pc'[h] \in {"hangup", "idle"} /\ chat' = ClearChat(chat)
    BY <1>1, <1>9 DEF Stop, Clear, Alone, MayFail, Return, Goto, ControlOK
  <2> QED
    BY <2>1 DEF Serial, Linked, OnAir, ClearChat, NoEntry
<1>10. CASE HangUp(h)
  <2>1. pc'[h] = "idle" /\ UNCHANGED chat /\ Linked /\ chat.queue = <<>>
    BY <1>1, <1>10 DEF HangUp, Return, ControlOK, Serial, At, queueVars
  <2> QED
    BY <2>1 DEF Serial, Linked, OnAir
<1>11. CASE SetLoop(h)
  <2>1. pc'[h] = "idle" /\ UNCHANGED <<chat, playing>> /\ Linked /\ OnAir
    BY <1>1, <1>11 DEF SetLoop, Return, ControlOK, Serial, At
  <2> QED
    BY <2>1 DEF Serial, Linked, OnAir
<1>12. CASE Remove(h)
  <2>1. /\ pc'[h] = "idle" /\ playing' = playing /\ Linked /\ OnAir
        /\ num[h] \in Nat \ {0} /\ chat' = RemoveTrack(chat, num[h])
    BY <1>1, <1>12 DEF Remove, Return, ControlOK, Serial, At
  <2>2. /\ chat'.queue = <<>> <=> chat.queue = <<>>
        /\ GetPlayingTrack(chat') = GetPlayingTrack(chat)
        /\ chat'.present = chat.present /\ IsActive(chat') = IsActive(chat)
    BY <1>1, <2>1, EntryRemove
  <2> QED
    BY <2>1, <2>2 DEF Serial, Linked, OnAir
<1> QED
  BY <1>2, <1>3, <1>4, <1>5, <1>6, <1>7, <1>8, <1>9, <1>10, <1>11, <1>12

LEMMA TryingStart ==
    ASSUME TypeOK, NEW h \in Handlers, Trying(h), Start(h)
    PROVE  Trying(h)'
<1>1. ControlOK /\ Heard /\ UNCHANGED <<chat, tried>>
  BY DEF TypeOK, Trying, Start, Play, PlayMany, Skip, StopCommand, Replay, LoopCommand,
     RemoveCommand, StreamEnd, ClearEvent, BotLeaves, At, queueVars, trackVars
<1>2. Heard'
  BY <1>1 DEF Heard
<1>3. CASE PlayMany(h)
  <2>1. PICK n \in 0..MaxBatch : \E ts \in [1..n -> fresh] :
          /\ batch' = [batch EXCEPT ![h] = ts]
          /\ cur' = [cur EXCEPT ![h] = IF n = 0 THEN None ELSE ts[1]]
    BY <1>3 DEF PlayMany
  <2>2. PICK ts \in [1..n -> fresh] :
          /\ batch' = [batch EXCEPT ![h] = ts]
          /\ cur' = [cur EXCEPT ![h] = IF n = 0 THEN None ELSE ts[1]]
    BY <2>1
  <2>3. ts \in Seq(fresh) /\ Len(ts) = n
    BY ConstantsAssumption, SeqDef, LenProperties DEF ConstantsAssumption
  <2>4. batch'[h] = ts /\ cur'[h] = (IF n = 0 THEN None ELSE ts[1])
    BY <1>1, <2>2 DEF ControlOK
  <2>5. batch'[h] # <<>> => Head(batch'[h]) = cur'[h]
    <3> SUFFICES ASSUME ts # <<>> PROVE ts[1] = cur'[h] /\ Head(ts) = ts[1]
      BY <2>4
    <3>1. n # 0
      BY <2>3, EmptySeq
    <3> QED
      BY <2>3, <2>4, <3>1, HeadTailProperties
  <2>6. pc'[h] = "snapshot"
    BY <1>1, <1>3 DEF PlayMany, ControlOK
  <2> QED
    BY <1>2, <2>5, <2>6 DEF Trying
<1>4. CASE ~PlayMany(h)
  <2>1. pc'[h] \in {"search", "loop", "stop", "media", "setloop", "remove", "clear"}
    BY <1>1, <1>4 DEF Start, Play, Skip, StopCommand, Replay, LoopCommand, RemoveCommand,
       StreamEnd, ClearEvent, BotLeaves, Goto, GotoWith, GotoNum, ControlOK
  <2> QED
    BY <1>2, <2>1 DEF Trying
<1> QED
  BY <1>3, <1>4

LEMMA TryingRequest ==
    ASSUME TypeOK, NEW h \in Handlers, Serial(h), Trying(h), TooLong = {},
           \/ Search(h) \/ Gate(h) \/ Enqueue(h) \/ Download(h) \/ Activate(h)
           \/ Add(h) \/ Snapshot(h) \/ QueueTrack(h) \/ BatchDone(h)
    PROVE  Trying(h)'
<1>1. /\ chat \in ChatData /\ ControlOK /\ loop \in [Tracks -> 0..MaxLoop]
      /\ MaxLoop \in Nat
  BY ConstantsAssumption DEF TypeOK, DataOK
<1>2. CASE Search(h) \/ Gate(h) \/ Download(h)
  <2>1. /\ pc'[h] \in {"idle", "gate", "enqueue", "activate", "download"}
        /\ UNCHANGED <<chat, tried>> /\ Heard
    BY <1>1, <1>2 DEF Search, Gate, Download, Return, Goto, ControlOK, Trying, At,
       queueVars, trackVars
  <2> QED
    BY <2>1 DEF Trying, Heard
<1>3. CASE Enqueue(h)
  <2>1. /\ pc[h] = "enqueue" /\ Heard /\ chat.queue # <<>>
        /\ pc'[h] = "idle" /\ tried' = tried
        /\ chat' = AddSong(chat, Head(batch[h]))
    BY <1>1, <1>3 DEF Enqueue, Return, ControlOK, Serial, Trying, At, trackVars
  <2>2. Head(batch[h]) \in Tracks
    BY <1>1, <2>1, SingleTrack DEF SingleLabels
  <2>3. GetPlayingTrack(chat') = GetPlayingTrack(chat)
    BY <1>1, <2>1, <2>2, EntryAdd
  <2> QED
    BY <2>1, <2>3 DEF Trying, Heard
<1>4. CASE Activate(h)
  <2>1. chat.queue = <<>> /\ pc'[h] = "add" /\ chat' = SetActive(chat, TRUE)
    BY <1>1, <1>4 DEF Activate, Goto, ControlOK, Serial, At
  <2>2. chat'.queue = <<>>
    BY <1>1, <2>1 DEF SetActive, ChatData
  <2> QED
    BY <2>1, <2>2 DEF Trying, Heard
<1>5. CASE Add(h)
  <2>1. /\ pc[h] = "add" /\ chat.queue = <<>> /\ pc'[h] = "media"
        /\ chat' = AddSong(chat, Head(batch[h])) /\ Head(batch[h]) \in tried'
    BY <1>1, <1>5 DEF Add, ControlOK, Serial, At
  <2>2. Head(batch[h]) \in Tracks
    BY <1>1, <2>1, SingleTrack DEF SingleLabels
  <2>3. GetPlayingTrack(chat') = Head(batch[h])
    BY <1>1, <2>1, <2>2, EntryAdd
  <2> QED
    BY <2>1, <2>3 DEF Trying, Heard
<1>6. CASE Snapshot(h)
  <2>1. /\ UNCHANGED <<chat, tried>> /\ Linked /\ Heard
        /\ \/ pc'[h] = "idle"
           \/ /\ pc[h] = "snapshot" /\ pc'[h] = "batch" /\ wasActive'[h] = IsActive(chat)
              /\ UNCHANGED <<cur, batch>>
    BY <1>1, <1>6 DEF Snapshot, Return, ControlOK, Serial, Trying, At, queueVars, trackVars
  <2>2. chat.queue # <<>> => IsActive(chat)
    BY <2>1 DEF Linked
  <2> QED
    BY <2>1, <2>2 DEF Trying, Heard
<1>7. CASE QueueTrack(h)
  <2> DEFINE t == Head(batch[h])
  <2>1. /\ pc[h] = "batch" /\ pc'[h] = "batch" /\ UNCHANGED <<tried, wasActive, cur>>
        /\ chat' = AddSong(chat, t) /\ batch[h] # <<>>
        /\ loop' = IF ~wasActive[h] /\ t = cur[h] THEN [loop EXCEPT ![t] = 1] ELSE loop
    BY <1>7 DEF QueueTrack, At, trackVars
  <2>2. t \in Tracks
    BY <1>1, <2>1, BatchHead
  <2> HIDE DEF t
  <2>3. /\ chat'.queue # <<>>
        /\ GetPlayingTrack(chat') = IF chat.queue = <<>> THEN t ELSE GetPlayingTrack(chat)
    BY <1>1, <2>1, <2>2, EntryAdd
  <2>4. chat.queue # <<>> => GetPlayingTrack(chat) \in Tracks
    BY <1>1, GetTrackTypes, EntryHead
  <2>5. wasActive[h] => Heard'
    <3>1. wasActive[h] => chat.queue # <<>> /\ Heard
      BY <2>1 DEF Serial, Trying
    <3> QED
      BY <2>1, <2>3, <3>1 DEF Heard
  <2>6. ~wasActive[h] => loop'[GetPlayingTrack(chat')] > 0
    <3> SUFFICES ASSUME ~wasActive[h] PROVE loop'[GetPlayingTrack(chat')] > 0
      OBVIOUS
    <3>1. CASE chat.queue = <<>>
      <4>1. t = cur[h]
        BY <2>1, <3>1 DEF Trying, t
      <4> QED
        BY <1>1, <2>1, <2>2, <2>3, <3>1, <4>1
    <3>2. CASE chat.queue # <<>>
      <4>1. loop[GetPlayingTrack(chat)] > 0
        BY <2>1, <3>2 DEF Trying
      <4> QED
        BY <1>1, <2>1, <2>2, <2>3, <2>4, <3>2, <4>1
    <3> QED
      BY <3>1, <3>2
  <2> QED
    BY <2>1, <2>3, <2>5, <2>6 DEF Trying
<1>8. CASE BatchDone(h)
  <2>1. /\ UNCHANGED <<chat, tried, loop>>
        /\ \/ pc'[h] = "idle" /\ Heard
           \/ /\ pc'[h] = "loop"
              /\ chat.queue # <<>> => loop[GetPlayingTrack(chat)] > 0
    BY <1>1, <1>8 DEF BatchDone, Return, GotoWith, ControlOK, Trying, At, queueVars, trackVars
  <2> QED
    BY <2>1 DEF Trying, Heard
<1> QED
  BY <1>2, <1>3, <1>4, <1>5, <1>6, <1>7, <1>8

LEMMA TryingNext ==
    ASSUME TypeOK, NEW h \in Handlers, Serial(h), Trying(h),
           \/ ReadLoop(h) \/ Decrement(h) \/ Repeat(h) \/ Upcoming(h)
           \/ Advance(h) \/ Finish(h) \/ Announce(h) \/ Prepare(h)
           \/ PlayMedia(h) \/ Stop(h) \/ HangUp(h) \/ SetLoop(h) \/ Remove(h)
           \/ Clear(h)
    PROVE  Trying(h)'
<1>1. /\ chat \in ChatData /\ ControlOK /\ loop \in [Tracks -> 0..MaxLoop]
      /\ MaxLoop \in Nat
  BY ConstantsAssumption DEF TypeOK, DataOK
<1>2. CASE ReadLoop(h)
  <2> DEFINE t == GetPlayingTrack(chat)
             n == IF t = None THEN 0 ELSE loop[t]
  <2>1. /\ UNCHANGED <<chat, tried>> /\ (Heard \/ loop[t] > 0)
        /\ \/ pc'[h] = "decrement"
           \/ pc'[h] = "upcoming" /\ ~(n > 0)
    BY <1>1, <1>2 DEF ReadLoop, GotoNum, ControlOK, Trying, At, queueVars, trackVars
  <2>2. t = None <=> chat.queue = <<>>
    BY <1>1, EntryHead
  <2>3. ~(n > 0) => Heard
    BY <2>1, <2>2 DEF Heard
  <2> HIDE DEF n
  <2> QED
    BY <2>1, <2>3 DEF Trying, Heard
<1>3. CASE Decrement(h)
  <2>1. pc'[h] = "current"
    BY <1>1, <1>3 DEF Decrement, Goto, ControlOK
  <2> QED
    BY <2>1 DEF Trying
<1>4. CASE Repeat(h)
  <2>1. /\ UNCHANGED chat
        /\ \/ pc'[h] = "upcoming" /\ GetPlayingTrack(chat) = None
           \/ pc'[h] = "announce" /\ GetPlayingTrack(chat) \in tried'
    BY <1>1, <1>4 DEF Repeat, Goto, GotoWith, ControlOK, At, queueVars
  <2>2. GetPlayingTrack(chat) = None <=> chat.queue = <<>>
    BY <1>1, EntryHead
  <2> QED
    BY <2>1, <2>2 DEF Trying, Heard
<1>5. CASE Upcoming(h) \/ Announce(h) \/ Prepare(h) \/ HangUp(h) \/ SetLoop(h)
  <2>1. /\ UNCHANGED <<chat, tried>> /\ Heard
        /\ pc'[h] \in {"finish", "advance", "prepare", "media", "loop", "idle"}
    BY <1>1, <1>5 DEF Upcoming, Announce, Prepare, HangUp, SetLoop, Goto, GotoWith, Return,
       ControlOK, Trying, At, queueVars, trackVars
  <2> QED
    BY <2>1 DEF Trying, Heard
<1>6. CASE Advance(h)
  <2>1. /\ chat' = RemoveCurrentSong(chat) /\ Len(chat.queue) >= 2
        /\ cur[h] = chat.queue[2] /\ pc'[h] = "announce" /\ cur[h] \in tried'
    BY <1>1, <1>6 DEF Advance, Goto, ControlOK, Serial, At
  <2>2. GetPlayingTrack(chat') = chat.queue[2]
    BY <1>1, <2>1, EntryDrop
  <2> QED
    BY <2>1, <2>2 DEF Trying, Heard
<1>7. CASE Finish(h)
  <2>1. chat' = RemoveCurrentSong(chat) /\ Len(chat.queue) < 2 /\ pc'[h] = "stop"
    BY <1>1, <1>7 DEF Finish, Goto, ControlOK, Serial, At
  <2>2. chat'.queue = <<>>
    BY <1>1, <2>1, EntryDrop
  <2> QED
    BY <2>1, <2>2 DEF Trying, Heard
<1>8. CASE PlayMedia(h) \/ Stop(h) \/ Clear(h)
  <2>1. /\ pc'[h] \in {"idle", "hangup"} /\ tried' = tried /\ Heard
        /\ chat' = chat \/ chat' = ClearChat(chat)
    BY <1>1, <1>8 DEF PlayMedia, Stop, Clear, Goto, Return, ControlOK, Trying, At, trackVars
  <2> QED
    BY <2>1 DEF Trying, Heard, ClearChat, NoEntry
<1>9. CASE Remove(h)
  <2>1. /\ pc'[h] = "idle" /\ tried' = tried /\ Heard
        /\ num[h] \in Nat \ {0} /\ chat' = RemoveTrack(chat, num[h])
    BY <1>1, <1>9 DEF Remove, Return, ControlOK, Serial, Trying, At, trackVars
  <2>2. /\ chat'.queue = <<>> <=> chat.queue = <<>>
        /\ GetPlayingTrack(chat') = GetPlayingTrack(chat)
    BY <1>1, <2>1, EntryRemove
  <2> QED
    BY <2>1, <2>2 DEF Trying, Heard
<1> QED
  BY <1>2, <1>3, <1>4, <1>5, <1>6, <1>7, <1>8, <1>9

(* When messages are sent and the chat has its assistant, one command at a *)
(* time keeps the head of the queue on the air: after songs that end, are  *)
(* skipped or cannot be downloaded, after playlists of which some songs    *)
(* are refused, after failed calls and after every event of the chat.      *)
THEOREM HeadOnAirCorrect ==
    ASSUME NEW h, Alone(h)
    PROVE  Spec => []HeadOnAir
<1>1. Init => Serial(h)
  BY DEF Alone, Init, Serial, Linked, OnAir, NoEntry
<1>2. TypeOK /\ Serial(h) /\ [Next]_vars => Serial(h)'
  <2> SUFFICES ASSUME TypeOK, Serial(h), [Next]_vars PROVE Serial(h)'
    OBVIOUS
  <2>1. CASE Next
    <3>1. h \in Handlers /\ (Start(h) \/ Continue(h))
      BY <2>1 DEF Next, Alone
    <3> QED
      BY <3>1, SerialStart, SerialRequest, SerialNext DEF Continue
  <2>2. CASE UNCHANGED vars
    BY <2>2 DEF vars, queueVars, trackVars, localVars, Serial, Linked, OnAir
  <2> QED
    BY <2>1, <2>2
<1>3. Serial(h) => HeadOnAir
  BY DEF Alone, Serial, OnAir, HeadOnAir, AtRest
<1> QED
  BY TypeCorrect, <1>1, <1>2, <1>3, PTL DEF Spec

(* Then, if no song is too long, PlayNext drops only songs that have been  *)
(* on: the Loop = 1 of a playlist's first song makes up for the PlayNext   *)
(* that starts it, also when downloads fail and /loop changes the count.   *)
THEOREM NoUntriedDroppedCorrect ==
    ASSUME NEW g, Alone(g), TooLong = {}
    PROVE  Spec => NoUntriedDropped
<1> DEFINE Inv == Serial(g) /\ Trying(g)
           Dropped == \A h \in Handlers :
                         At(h, "advance") \/ At(h, "finish") =>
                            (pc'[h] # pc[h] => GetPlayingTrack(chat) \in tried \cup {None})
<1>1. Init => Inv
  BY EmptySeq DEF Alone, Init, Serial, Trying, Linked, OnAir, Heard, NoEntry
<1>2. TypeOK /\ Inv /\ [Next]_vars => Inv'
  <2> SUFFICES ASSUME TypeOK, Serial(g), Trying(g), [Next]_vars
               PROVE  Serial(g)' /\ Trying(g)'
    OBVIOUS
  <2>1. CASE Next
    <3>1. g \in Handlers /\ (Start(g) \/ Continue(g))
      BY <2>1 DEF Next, Alone
    <3>2. Serial(g)'
      BY <3>1, SerialStart, SerialRequest, SerialNext DEF Continue
    <3>3. Trying(g)'
      BY <3>1, TryingStart, TryingRequest, TryingNext DEF Continue
    <3> QED
      BY <3>2, <3>3
  <2>2. CASE UNCHANGED vars
    BY <2>2 DEF vars, queueVars, trackVars, localVars, Serial, Trying, Linked, OnAir, Heard
  <2> QED
    BY <2>1, <2>2
<1>3. TypeOK /\ Inv => [Dropped]_vars
  <2> SUFFICES ASSUME TypeOK, Trying(g), NEW h \in Handlers, At(h, "advance") \/ At(h, "finish")
               PROVE  GetPlayingTrack(chat) \in tried \cup {None}
    OBVIOUS
  <2>1. h = g /\ Heard
    BY DEF Alone, At, Trying
  <2>2. chat.queue = <<>> => GetPlayingTrack(chat) = None
    BY DEF GetPlayingTrack
  <2> QED
    BY <2>1, <2>2 DEF Heard
<1> QED
  BY TypeCorrect, <1>1, <1>2, <1>3, PTL DEF Spec, NoUntriedDropped
=============================================================================
