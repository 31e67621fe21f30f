----------------------------- MODULE MCPlayback -----------------------------
(***************************************************************************)
(* Instances of Playback for TLC.                                          *)
(***************************************************************************)
EXTENDS PlaybackProperties, TLC

(* No two requests are for the same song.                                  *)
OwnID == [t \in Tracks |-> t]

(* Songs are alike when none is a file and none is too long.               *)
TrackSymmetry == Permutations(Tracks)
=============================================================================
