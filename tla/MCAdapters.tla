----------------------------- MODULE MCAdapters -----------------------------
(***************************************************************************)
(* The instance of Adapters that TLC explores: six files that come to be   *)
(* at the path of pnpm, what each is and what it says of its version.      *)
(***************************************************************************)
EXTENDS Adapters

CONSTANTS Recent, AlsoRecent, Old, Wrapper, Garbled, Folder

MCFiles == {Recent, AlsoRecent, Old, Wrapper, Garbled, Folder}

MCKind == [f \in MCFiles |-> CASE f = Wrapper -> "wrapper"
                              [] f = Folder  -> "directory"
                              [] OTHER       -> "regular"]

MCOutput == [f \in MCFiles |-> CASE f = Recent             -> MinimumMajor
                                [] f = AlsoRecent          -> MinimumMajor + 1
                                [] f \in {Old, Wrapper}    -> MinimumMajor - 1
                                [] OTHER                   -> Unreadable]
=============================================================================
