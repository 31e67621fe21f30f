----------------------------- MODULE MCConnect -----------------------------
(***************************************************************************)
(* Instances of ConnectCall for TLC.                                       *)
(***************************************************************************)
EXTENDS ConnectCall, TLC

(* Goroutines, channels and slots are alike among themselves.              *)
ConnectSymmetry ==
    Permutations(Handlers) \cup Permutations(Channels) \cup Permutations(Slots)
=============================================================================
