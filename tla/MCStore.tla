------------------------------ MODULE MCStore ------------------------------
(***************************************************************************)
(* Instances of ChatStore for TLC.                                         *)
(***************************************************************************)
EXTENDS ChatStore, TLC

(* Documents of all kinds: users are alike, and so are the values of a     *)
(* field other than the assistant.                                         *)
Leftovers ==
    {None} \cup {d \in Documents :
        /\ \A f \in Settings \ {Assistant} : d.set[f] \in {Missing, CHOOSE v \in Values : TRUE}
        /\ d.auth \in {Missing, {CHOOSE u \in Users : TRUE}, Users}}

(* Goroutines are alike, and so are the clients that run.                  *)
StoreSymmetry == Permutations(Handlers) \cup Permutations(Values)
=============================================================================
