------------------------------ MODULE MCHistory ------------------------------
(* TLC instances of History. *)
EXTENDS History, TLC

Symmetry == Permutations(Runs)
=============================================================================
