------------------------------- MODULE MCGate -------------------------------
(***************************************************************************)
(* An instance of AdminGate for TLC.                                       *)
(***************************************************************************)
EXTENDS AdminGate, TLC

(* Goroutines are alike, and so are users.                                 *)
MCSymmetry == Permutations(Handlers) \cup Permutations(Members)
=============================================================================
