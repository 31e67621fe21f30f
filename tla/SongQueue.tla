----------------------------- MODULE SongQueue -----------------------------
(***************************************************************************)
(* What the play queue of a chat promises, whoever uses it and in whatever *)
(* order: a song enters once, at the tail; songs keep their order; one     *)
(* song leaves at a time, or all of them; a song that has left, or that    *)
(* was refused, never comes back.                                          *)
(***************************************************************************)
EXTENDS Naturals, Sequences

CONSTANT Tracks

VARIABLES queue,  \* the songs waiting, the one that plays first
          past    \* songs that have left the queue or were refused

vars == <<queue, past>>

Queued == {queue[i] : i \in 1..Len(queue)}

Init == queue = <<>> /\ past = {}

Enqueue(t) ==
    /\ t \notin Queued \cup past
    /\ queue' = Append(queue, t)
    /\ UNCHANGED past

Leave(i) ==
    /\ queue' = SubSeq(queue, 1, i - 1) \o SubSeq(queue, i + 1, Len(queue))
    /\ past' = past \cup {queue[i]}

LeaveAll ==
    /\ queue' = <<>>
    /\ past' = past \cup Queued

(* A request may be refused before its song is queued.                     *)
Refuse(S) ==
    /\ S \cap Queued = {}
    /\ past' = past \cup S
    /\ UNCHANGED queue

Next ==
    \/ \E t \in Tracks : Enqueue(t)
    \/ \E i \in 1..Len(queue) : Leave(i)
    \/ LeaveAll
    \/ \E S \in SUBSET Tracks : Refuse(S)

Spec == Init /\ [][Next]_vars
=============================================================================
