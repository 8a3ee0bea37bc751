------------------------------ MODULE MCLedger ------------------------------
(***************************************************************************)
(* Ledger for TLC: two spellings of one path and another path, below one   *)
(* root.  Directories are interchangeable, and so are scanners.  Three     *)
(* scans in every order are too many states, so MCSpec starts from two     *)
(* families of states that a Ledger reaches and bounds the overlap.        *)
(***************************************************************************)
EXTENDS Ledger, TLC

CONSTANTS upper, lower, other, root

MCOrder == <<upper, lower, other>>
MCRootOf == [p \in {upper, lower, other} |-> root]
MCCaseOf == (upper :> lower) @@ (lower :> lower) @@ (other :> other)
Symmetry == Permutations(Dirs) \cup Permutations(Scanners)

VARIABLE familiar  \* whether a scan has been before the behaviour begins

\* Nothing has been scanned, whatever is on the disk.
Unscanned == rows = <<>> /\ scans = 0

\* A first scan has found both directories, at paths of different names.
Scanned ==
    \E p, q \in Paths, d, e \in Dirs :
        /\ dir[p] = d /\ dir[q] = e /\ d # e /\ p = Earliest({p, q})
        /\ rows = <<Fresh([path |-> p, dir |-> d, activity |-> 0]),
                    Fresh([path |-> q, dir |-> e, activity |-> 0])>>
        /\ scans = 1

MCInit ==
    /\ dir \in [Paths -> Dirs \cup {NoDir}]
    /\ \A p, q \in Paths : p # q /\ dir[p] # NoDir =>
           dir[p] # dir[q] /\ (CaseSensitive \/ ~SamePath(p, q) \/ dir[q] = NoDir)
    /\ \/ familiar = FALSE /\ Unscanned
       \/ familiar = TRUE /\ Scanned
    /\ mtime = [d \in Dirs |-> 0]
    /\ draft = <<>> /\ writer = NoScan
    /\ scan = [s \in Scanners |-> Idle]
    /\ command = NoCommand
    /\ asked = {}
    /\ changes = 0

\* Bound: of the three scans of an unscanned disk the first two may overlap;
\* of a scanned one, the last two.
MCNext ==
    /\ Next
    /\ scans' > scans /\ scans' = MaxScans => familiar \/ Calm
    /\ UNCHANGED familiar

MCSpec == MCInit /\ [][MCNext]_<<vars, familiar>>
=============================================================================
