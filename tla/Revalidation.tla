---------------------------- MODULE Revalidation ----------------------------
(***************************************************************************)
(* The gates of one workspace (evaluate_workspace in planner.rs, with      *)
(* protection.rs, process.rs, adapters/git.rs and pnpm_gate), asked one    *)
(* after another while the machine goes on: once to plan a clean and once  *)
(* more before it runs.  What a gate may find wrong is a doubt; each doubt *)
(* comes and goes by itself.                                               *)
(*                                                                         *)
(* Definitions named X_Bug are mistakes somebody could make in X.          *)
(***************************************************************************)
EXTENDS Naturals, Sequences, FiniteSets

CONSTANTS
    Procs, Gone,  \* processes that may run beside the check, and none
    Kinds,        \* the kinds of process that occur, see Process
    Places,       \* paths a workspace may have: sequences of names
    RootLength,   \* so many of its names are those of the approved root
    UserRoots,    \* what directories says: the denylist before it is filtered
    CloudNames, SyncNames,   \* names of a provider's folder, names with a sync fragment
    MaxChanges    \* bound: changes of the machine and the ledger

\* A process as the snapshot sees it: where its working directory is, whether an
\* argument names the workspace, whose it is and whether it is a package tool.
\* With "hidden" the directory cannot be read: it is in the workspace all the same.
Process ==
    [directory : {"inside", "hidden", "elsewhere"}, mentions : BOOLEAN,
     own : BOOLEAN, tool : BOOLEAN]

\* What the ledger says of a workspace, and what only a look at the disk tells.
LedgerDoubts == {"absent", "unapproved", "elsewhere", "protected", "recent"}
DiskDoubts == {"moved", "no_package", "no_manifest", "no_lockfile", "pnpm"}
PathDoubts == {"denied", "synced"}
Doubts == LedgerDoubts \cup DiskDoubts \cup PathDoubts \cup {"dirty", "used"}

ASSUME RevalidationAssumption ==
    /\ Kinds \subseteq Process /\ Gone \notin Process
    /\ Places \subseteq Seq(STRING) /\ UserRoots \subseteq Seq(STRING)
    /\ RootLength \in Nat
    /\ MaxChanges \in Nat

VARIABLES
    path,       \* of the workspace, which does not change
    ledger,     \* the ledger's doubts: its row, the approved roots
    disk,       \* the doubts a single look at the disk finds
    tree,       \* the worktree: clean, dirty, or no worktree
    procs,      \* procs[p]: a Process, or Gone
    changes,
    check,      \* see Check
    \* History
    standing,   \* doubts there since the present evaluation began
    staying,    \* processes there since then
    arisen      \* doubts there at some time since the ledger was read

machine == <<path, ledger, disk, tree, procs, changes>>
history == <<standing, staying, arisen>>
vars == <<machine, check, history>>

\* evaluate_workspace
Gates ==
    << "absent", "unapproved", "moved", "elsewhere", "protected", "denied", "synced",
       "no_package", "no_manifest", "no_lockfile", "pnpm", "dirty", "recent", "used" >>

Check ==
    [pc : {"idle", "asking", "in_git", "in_snapshot", "planned", "cleaning", "refused"},
     phase : {"plan", "run"},
     at : 1..(Len(Gates) + 1),      \* the gate asked next
     record : SUBSET LedgerDoubts,  \* the ledger as it was read when the check began
     trees : SUBSET {"clean", "dirty", "none"},   \* states of the tree git came across
     left : SUBSET Procs,           \* processes the snapshot has not looked at
     active : BOOLEAN, blind : BOOLEAN,
     reason : Doubts \cup {"unknown", "none"}]

Idle == [pc |-> "idle", phase |-> "plan", at |-> 1, record |-> {}, trees |-> {}, left |-> {},
         active |-> FALSE, blind |-> FALSE, reason |-> "none"]

-----------------------------------------------------------------------------
(* What is the case.                                                       *)

Alive == {p \in Procs : procs[p] # Gone}

\* A process of another user is not looked into, unless it is a package tool.
Uses(k) == k.directory = "inside" \/ k.mentions \/ (k.directory = "hidden" /\ (k.own \/ k.tool))

Users == {p \in Alive : Uses(procs[p])}

\* Names that are those of a synchronised folder, wherever they are in the path.
Suspicious(where) == {i \in 1..Len(where) : where[i] \in CloudNames \cup SyncNames}

\* DeniedRoots: push_root drops the root of the file system.
DeniedRoots == {root \in UserRoots : root # << >>}

Present ==
    ledger \cup disk
    \cup (IF \E i \in 1..Len(path) : SubSeq(path, 1, i) \in DeniedRoots THEN {"denied"} ELSE {})
    \cup (IF Suspicious(path) # {} THEN {"synced"} ELSE {})
    \cup (IF tree = "dirty" THEN {"dirty"} ELSE {})
    \cup (IF Users # {} THEN {"used"} ELSE {})

\* The history of a step of the machine: what was there and still is.
Watched ==
    /\ standing' = standing \cap Present'
    /\ staying' = staying \cap Users'
    /\ arisen' = arisen \cup Present'

Init ==
    /\ path \in Places
    /\ ledger \in SUBSET LedgerDoubts /\ disk \in SUBSET DiskDoubts
    /\ Cardinality(ledger \cup disk) <= 1
    /\ tree \in {"clean", "dirty", "none"}
    /\ procs \in [Procs -> Kinds \cup {Gone}]
    /\ changes = 0
    /\ check = Idle
    /\ standing = {} /\ staying = {} /\ arisen = {}

-----------------------------------------------------------------------------
(* The check.                                                              *)

Asks(gate) == check.pc = "asking" /\ check.at <= Len(Gates) /\ Gates[check.at] = gate

\* Gates counted from zero.
Evaluation_FromZero(phase) == [check EXCEPT !.pc = "asking", !.phase = phase, !.at = 0]

\* evaluate_workspace begins.
Evaluation(phase) == [check EXCEPT !.pc = "asking", !.phase = phase, !.at = 1]

Passed == [check EXCEPT !.pc = "asking", !.at = @ + 1, !.trees = {}, !.left = {},
                        !.active = FALSE, !.blind = FALSE]

RefusedFor(reason) ==
    [check EXCEPT !.pc = "refused", !.reason = reason, !.trees = {}, !.left = {},
                  !.active = FALSE, !.blind = FALSE]

\* check(): the records are read, and every workspace is evaluated for the plan.
Read ==
    /\ check.pc = "idle"
    /\ check' = [Evaluation("plan") EXCEPT !.record = ledger]
    /\ standing' = Present /\ staying' = Users /\ arisen' = Present
    /\ UNCHANGED machine

\* What passed the first evaluation and what asked for no second one.
Revalidate_Never ==
    /\ check.pc = "planned"
    /\ check' = [check EXCEPT !.pc = "asking", !.phase = "run", !.at = Len(Gates) + 1]
    /\ standing' = Present /\ staying' = Users
    /\ UNCHANGED <<machine, arisen>>

\* revalidate_workspace, some time later, with the same records.
Revalidate ==
    /\ check.pc = "planned"
    /\ check' = Evaluation("run")
    /\ standing' = Present /\ staying' = Users
    /\ UNCHANGED <<machine, arisen>>

\* A gate that looks at the records.
LookAtRecord(gate) ==
    /\ gate \in LedgerDoubts
    /\ Asks(gate)
    /\ check' = IF gate \in check.record THEN RefusedFor(gate) ELSE Passed
    /\ UNCHANGED <<machine, history>>

\* One that looks once at the disk: resolve_identity, entry_kind, pnpm_gate.
LookAtDisk(gate) ==
    /\ gate \in DiskDoubts
    /\ Asks(gate)
    /\ check' = IF gate \in disk THEN RefusedFor(gate) ELSE Passed
    /\ UNCHANGED <<machine, history>>

\* DeniedRoots::covering
Covered ==
    \E root \in DeniedRoots : Len(root) <= Len(path) /\ SubSeq(path, 1, Len(root)) = root

LookForDeniedRoot ==
    /\ Asks("denied")
    /\ check' = IF Covered THEN RefusedFor("denied") ELSE Passed
    /\ UNCHANGED <<machine, history>>

\* Names above the approved root, where nothing may be inspected, are left out.
Synced_BelowRoot == \E i \in Suspicious(path) : i > RootLength

\* cloud_sync_reason: the deepest such name decides what is reported, and a marker
\* below the approved root only whether the provider is confirmed.
Synced == \E i \in 1..Len(path) : path[i] \in CloudNames \/ path[i] \in SyncNames

LookForSyncedFolder ==
    /\ Asks("synced")
    /\ check' = IF Synced THEN RefusedFor("synced") ELSE Passed
    /\ UNCHANGED <<machine, history>>

StartGit ==
    /\ Asks("dirty")
    /\ check' = [check EXCEPT !.pc = "in_git", !.trees = {tree}]
    /\ UNCHANGED <<machine, history>>

\* Git's silence is read as uncommitted work.
GitAnswers_UnknownIsDirty(t) ==
    /\ check.pc = "in_git"
    /\ t \in check.trees \cup {"none"}
    /\ check' = IF t = "clean" THEN Passed ELSE RefusedFor("dirty")
    /\ UNCHANGED <<machine, history>>

\* worktree_state: the answer is true of some moment of the command; a failure, a
\* time-out, truncated output and no worktree are all Unknown.
GitAnswers(t) ==
    /\ check.pc = "in_git"
    /\ t \in check.trees \cup {"none"}
    /\ check' = CASE t = "clean" -> Passed
                  [] t = "dirty" -> RefusedFor("dirty")
                  [] t = "none"  -> RefusedFor("unknown")
    /\ UNCHANGED <<machine, history>>

\* snapshot(): the processes there are, looked at one by one.
StartSnapshot ==
    /\ Asks("used")
    /\ check' = [check EXCEPT !.pc = "in_snapshot", !.left = Alive]
    /\ UNCHANGED <<machine, history>>

SnapshotFails ==
    /\ Asks("used")
    /\ check' = RefusedFor("unknown")
    /\ UNCHANGED <<machine, history>>

Visible(k) == k.directory # "hidden"

\* A directory that cannot be read matters only for package tools.
Inspect_ToolsOnly(p) ==
    /\ check.pc = "in_snapshot" /\ p \in check.left
    /\ LET k == procs[p]
       IN  check' = [check EXCEPT
                        !.left = @ \ {p},
                        !.active = @ \/ (k # Gone /\ (k.directory = "inside" \/ k.mentions)),
                        !.blind = @ \/ (k # Gone /\ ~Visible(k) /\ k.tool)]
    /\ UNCHANGED <<machine, history>>

\* One process of the loop in evaluate; one that is gone by now is not in the table.
Inspect(p) ==
    /\ check.pc = "in_snapshot" /\ p \in check.left
    /\ LET k == procs[p]
       IN  check' = [check EXCEPT
                        !.left = @ \ {p},
                        !.active = @ \/ (k # Gone /\ (k.directory = "inside" \/ k.mentions)),
                        !.blind = @ \/ (k # Gone /\ ~Visible(k) /\ (k.own \/ k.tool))]
    /\ UNCHANGED <<machine, history>>

\* Active wins over Unknown; both refuse.
Judge ==
    /\ check.pc = "in_snapshot" /\ check.left = {}
    /\ check' = IF check.active THEN RefusedFor("used")
                ELSE IF check.blind THEN RefusedFor("unknown") ELSE Passed
    /\ UNCHANGED <<machine, history>>

\* Every gate has let it pass: a clean is planned, or begins.
Authorise ==
    /\ check.pc = "asking" /\ check.at = Len(Gates) + 1
    /\ check' = [check EXCEPT !.pc = IF check.phase = "plan" THEN "planned" ELSE "cleaning"]
    /\ UNCHANGED <<machine, history>>

CheckStep ==
    \/ Read \/ Revalidate \/ StartGit \/ StartSnapshot \/ SnapshotFails \/ Judge \/ Authorise
    \/ LookForDeniedRoot \/ LookForSyncedFolder
    \/ \E gate \in Doubts : LookAtRecord(gate) \/ LookAtDisk(gate)
    \/ \E t \in {"clean", "dirty", "none"} : GitAnswers(t)
    \/ \E p \in Procs : Inspect(p)

-----------------------------------------------------------------------------
(* The others.                                                             *)

\* What happens before the ledger is read is in Init, and what happens when the
\* check is over shows nowhere.
Changing ==
    /\ check.pc \notin {"idle", "cleaning", "refused"}
    /\ changes < MaxChanges
    /\ changes' = changes + 1

\* A scan stores what it saw, the owner protects or allows.
LedgerChanges ==
    /\ Changing
    /\ \E d \in {"absent", "recent", "protected"} :
         ledger' = IF d \in ledger THEN ledger \ {d} ELSE ledger \cup {d}
    /\ UNCHANGED <<path, disk, tree, procs, check>>
    /\ Watched

\* The directory is replaced, a marker goes or comes back, pnpm is upgraded.
DiskChanges ==
    /\ Changing
    /\ \E d \in DiskDoubts :
         disk' = IF d \in disk THEN disk \ {d} ELSE disk \cup {d}
    /\ UNCHANGED <<path, ledger, tree, procs, check>>
    /\ Watched

\* git, when it runs, may come across the tree before or after the change.
TreeChanges ==
    /\ Changing
    /\ tree' \in {"clean", "dirty", "none"} \ {tree}
    /\ check' = [check EXCEPT !.trees = IF check.pc = "in_git" THEN @ \cup {tree'} ELSE @]
    /\ UNCHANGED <<path, ledger, disk, procs>>
    /\ Watched

ProcessChanges ==
    /\ Changing
    /\ \E p \in Procs :
         /\ procs' \in {[procs EXCEPT ![p] = k] : k \in Kinds \cup {Gone}}
         /\ procs'[p] # procs[p]
    /\ UNCHANGED <<path, ledger, disk, tree, check>>
    /\ Watched

Next == CheckStep \/ LedgerChanges \/ DiskChanges \/ TreeChanges \/ ProcessChanges

Spec == Init /\ [][Next]_vars

-----------------------------------------------------------------------------
TypeOK ==
    /\ path \in Places
    /\ ledger \subseteq LedgerDoubts /\ disk \subseteq DiskDoubts
    /\ tree \in {"clean", "dirty", "none"}
    /\ procs \in [Procs -> Kinds \cup {Gone}]
    /\ changes \in 0..MaxChanges
    /\ check \in Check
    /\ standing \subseteq Doubts /\ staying \subseteq Procs /\ arisen \subseteq Doubts

\* A clean only begins if no doubt held all through its revalidation, of those the
\* disk, git and the process table tell: the gates are asked one after another and
\* git may take a minute, but what was there before the first one and is there
\* after the last one is noticed.
LiveDoubtsRefuse ==
    check.pc = "cleaning" =>
        /\ standing \cap (DiskDoubts \cup PathDoubts \cup {"dirty"}) = {}
        /\ staying = {}

\* No workspace is refused for a reason that at no time since the ledger was read
\* was one, and "unknown" stands for no other answer.
RefusalsBorneOut ==
    check.pc = "refused" => check.reason \in arisen \cup {"unknown"}

\* SAFETY.md, section 8: revalidation covers the current activity and protection
\* state.  It does not: both are in the records that were read when check began.
CurrentStateRefuses ==
    check.pc = "cleaning" => {"protected", "recent"} \cap standing = {}
=============================================================================
