--------------------------- MODULE MCRegistration ---------------------------
(***************************************************************************)
(* Registration for TLC: directories of two volumes.  Inits and files are  *)
(* interchangeable, and so are directories of one volume.                  *)
(***************************************************************************)
EXTENDS Registration, TLC

CONSTANTS p1, p2, near, here, far

MCOrder == <<p1, p2>>

MCVolumeOf == [d \in Dirs |-> IF d = far THEN "B" ELSE "A"]

Symmetry ==
    Permutations(Inits) \cup Permutations(Files) \cup Permutations(Dirs \ {far})
=============================================================================
