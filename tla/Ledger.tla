------------------------------- MODULE Ledger -------------------------------
(***************************************************************************)
(* `terminal_janitor scan` and `protect add|remove` against the workspace  *)
(* table of state.rs: a scan walks the approved roots one directory at a   *)
(* time (discovery.rs) while the file system goes on changing, and later   *)
(* applies what it saw in one SQLite transaction (apply_scan).  Several    *)
(* scans and one protect command may be under way at once.                 *)
(*                                                                         *)
(* A path stands for a directory below an approved root that may hold a    *)
(* complete pnpm workspace; a Dir is a physical directory, what the code   *)
(* calls (volume_id, file_id).  Roots do not nest here and stay registered *)
(* (nothing in the program deactivates one).                               *)
(*                                                                         *)
(* Definitions named X_Bug are mistakes somebody could make in X; no       *)
(* specification uses them, the runs are shown to notice them.             *)
(***************************************************************************)
EXTENDS Naturals, Sequences, FiniteSets

CONSTANTS
    Order,           \* the workspace paths, in the order of CanonicalPath
    Roots, RootOf,   \* the approved roots; RootOf[p]: the one that holds p
    CaseOf,          \* CaseOf[p] = CaseOf[q]: p.eq_ignore_ascii_case(q)
    CaseSensitive,   \* whether the file system tells such paths apart
    Dirs, NoDir,     \* physical directories; nothing at a path
    Scanners, NoScan,
    Reasons,         \* why a directory that is there may be excluded: see Exclusion
    MaxDiagnostics,  \* MAX_DIAGNOSTICS of discovery.rs (1,000 in the code)
    \* bounds of the exploration
    MaxTime, MaxChanges, MaxScans

Paths == {Order[i] : i \in DOMAIN Order}

ASSUME LedgerAssumption ==
    /\ Order \in Seq(Paths)
    /\ RootOf \in [Paths -> Roots]
    /\ Paths \cap Roots = {}
    /\ NoDir \notin Dirs /\ NoScan \notin Scanners
    /\ Reasons \subseteq {"denied", "partial", "changed"}
    /\ CaseSensitive \in BOOLEAN
    /\ {MaxDiagnostics, MaxTime, MaxChanges, MaxScans} \subseteq Nat

VARIABLES
    dir,       \* dir[p]: the directory now at p, or NoDir
    mtime,     \* mtime[d]: newest modification time of the markers in d
    rows,      \* the committed rows of the workspaces table, oldest first
    scan,      \* scan[s]: what scanning process s holds in memory
    writer,    \* the scan whose transaction holds SQLite's write lock, or NoScan
    draft,     \* the rows as that transaction sees them
    command,   \* the protect command under way: the row it found, and the flag
    asked,     \* the protections set on a live row and not withdrawn since
    changes, scans  \* outside events so far, and scans started

fileSystem == <<dir, mtime>>
ledger == <<rows, writer, draft>>
budget == <<changes, scans>>
vars == <<fileSystem, ledger, scan, command, asked, budget>>

Times == 0 .. MaxTime
LiveStates == {"present", "missing"}

Row == [path: Paths, dir: Dirs, status: LiveStates \cup {"replaced"},
        activity: Times, protected: BOOLEAN]

Observation == [path: Paths, dir: Dirs, activity: Times]

\* The exclusions discover() reports.  "denied" stands for the four reasons
\* scan_with lists as uncertain: the rows below such a path are left as they
\* are.  "changed" is PathChangedDuringScan, which io_reason gives for a path
\* that is gone and for every I/O error it has no arm for; "partial" is a
\* directory with only some of the markers.
Exclusion == [path: Paths \cup Roots,
              reason: {"denied", "partial", "changed", "duplicate"}]
UncertainReasons == {"denied"}

Idle == [pc |-> "idle", valid |-> {}, unread |-> {}, listed |-> {},
         found |-> {}, met |-> {}, excluded |-> {}, seen |-> {},
         kept |-> {}, quiet |-> FALSE]

NoCommand == [row |-> 0, flag |-> FALSE, calm |-> FALSE]

Live(rs, i) == rs[i].status \in LiveStates

\* The directories in place, as the pairs a row of the ledger stands for.
InPlace == {pd \in Paths \X Dirs : dir[pd[1]] = pd[2]}

SamePath(p, q) == CaseOf[p] = CaseOf[q]

\* Where d can be put: nothing is there, and on a file system that ignores
\* case nothing but `from` has the same name.
Free(p, from) ==
    /\ dir[p] = NoDir
    /\ CaseSensitive \/ \A q \in Paths \ {from} : SamePath(p, q) => dir[q] = NoDir

\* The first of a set of paths in the order discover() sorts by.
Earliest(ps) == Order[CHOOSE i \in DOMAIN Order :
                        Order[i] \in ps /\ \A j \in 1 .. i - 1 : Order[j] \notin ps]
-----------------------------------------------------------------------------
Init ==
    /\ dir \in [Paths -> Dirs \cup {NoDir}]
    /\ \A p, q \in Paths : p # q /\ dir[p] # NoDir =>
           dir[p] # dir[q] /\ (CaseSensitive \/ ~SamePath(p, q) \/ dir[q] = NoDir)
    /\ mtime = [d \in Dirs |-> 0]
    /\ rows = <<>> /\ draft = <<>> /\ writer = NoScan
    /\ scan = [s \in Scanners |-> Idle]
    /\ command = NoCommand
    /\ asked = {}
    /\ changes = 0 /\ scans = 0

-----------------------------------------------------------------------------
(* The file system, which the program only watches.                        *)

\* Whatever changes at path p, no scan can count on what it saw there.
Disturb(p) ==
    scan' = [s \in Scanners |->
                [scan[s] EXCEPT !.kept = {pd \in @ : pd[1] # p}, !.quiet = FALSE]]

\* Another directory at p ends what the owner was told about the one before.
Forget(p, d) == asked' = {a \in asked : a.path # p \/ a.dir = d}

\* One of the outside events MaxChanges bounds: the file system changes, or
\* refuses an access, or the owner gives a command.
Event == changes < MaxChanges /\ changes' = changes + 1

Change == Event /\ UNCHANGED <<ledger, command, scans>>

\* A workspace is created, cloned or restored at p.
Place(p, d) ==
    /\ Change
    /\ Free(p, p) /\ \A q \in Paths : dir[q] # d
    /\ dir' = [dir EXCEPT ![p] = d]
    /\ Disturb(p) /\ Forget(p, d)
    /\ UNCHANGED mtime

\* It is deleted, or moved out of every approved root.
Take(p) ==
    /\ Change
    /\ dir[p] # NoDir
    /\ dir' = [dir EXCEPT ![p] = NoDir]
    /\ Disturb(p)
    /\ UNCHANGED <<mtime, asked>>

\* It is renamed; a change of case alone is the case SamePath(p, q).
Rename(p, q) ==
    /\ Change
    /\ p # q /\ dir[p] # NoDir /\ Free(q, p)
    /\ dir' = [dir EXCEPT ![q] = dir[p], ![p] = NoDir]
    /\ Disturb(p) /\ Forget(q, dir[p])
    /\ UNCHANGED mtime

\* A marker is written; its modification time may also be put back.
Work(d) ==
    /\ Change
    /\ \E t \in Times \ {mtime[d]} : mtime' = [mtime EXCEPT ![d] = t]
    /\ UNCHANGED <<dir, scan, asked>>

-----------------------------------------------------------------------------
(* discover(): the walk.                                                   *)

\* scan_with loads the roots and validate_root decides which take part.
StartScan(s) ==
    /\ scan[s].pc = "idle" /\ scans < MaxScans
    /\ scans' = scans + 1
    /\ \E valid \in SUBSET Roots :
           /\ scan' = [scan EXCEPT ![s] =
                      [Idle EXCEPT !.pc = "walking", !.valid = valid, !.unread = valid,
                                   !.kept = InPlace, !.quiet = TRUE]]
           /\ IF valid = Roots THEN UNCHANGED changes ELSE Event
    /\ command' = [command EXCEPT !.calm = FALSE]
    /\ UNCHANGED <<fileSystem, ledger, asked>>

Walk(s) ==
    /\ scan[s].pc = "walking"
    /\ UNCHANGED <<fileSystem, ledger, command, asked, scans>>

\* push_exclusion: the reason is kept only while there is room for it.
Excluding(sc, at, why) ==
    IF Cardinality(sc.excluded) < MaxDiagnostics
    THEN [sc EXCEPT !.excluded = @ \cup {[path |-> at, reason |-> why]}]
    ELSE sc

\* Only a refusal leaves what is there to be kept: what the walk found not
\* whole, or could not read for another reason, the code takes for absent.
Witnessed(sc, ps, why) ==
    [sc EXCEPT !.quiet = FALSE,
               !.kept = IF why = "denied" THEN @ ELSE {pd \in @ : pd[1] \notin ps}]

\* walk_root reads the directory listing of the next root ...
ReadRoot(s) ==
    /\ Walk(s)
    /\ scan[s].listed = {}
    /\ \E r \in scan[s].unread :
           scan' = [scan EXCEPT
                      ![s].unread = @ \ {r}, ![s].met = {},
                      ![s].listed = {p \in Paths : RootOf[p] = r /\ dir[p] # NoDir}]
    /\ UNCHANGED changes

\* ... or cannot read it.
RootExcluded(s) ==
    /\ Walk(s) /\ Event
    /\ scan[s].listed = {}
    /\ \E r \in scan[s].unread, why \in Reasons \ {"partial"} :
           LET below == {p \in Paths : RootOf[p] = r}
               after == Witnessed(Excluding(scan[s], r, why), below, why)
           IN scan' = [scan EXCEPT ![s] = [after EXCEPT !.unread = @ \ {r}]]

Visit(s, p) ==
    /\ Walk(s)
    /\ scan[s].listed # {} /\ p = Earliest(scan[s].listed)

Visited(sc) == sc.met \cup {o.dir : o \in sc.found}

\* The next listed directory is a complete workspace and is observed.
Observe(s) ==
    \E p \in Paths :
        /\ Visit(s, p)
        /\ dir[p] # NoDir /\ dir[p] \notin Visited(scan[s])
        /\ scan' = [scan EXCEPT ![s].listed = @ \ {p},
                                ![s].found = @ \cup {[path |-> p, dir |-> dir[p],
                                                      activity |-> mtime[dir[p]]]}]
        /\ UNCHANGED changes

\* It has gone since it was listed, or was met before under another name.
Skip(s) ==
    \E p \in Paths :
        /\ Visit(s, p)
        /\ dir[p] = NoDir \/ dir[p] \in Visited(scan[s])
        /\ LET why == IF dir[p] = NoDir THEN "changed" ELSE "duplicate"
               after == Witnessed(Excluding(scan[s], p, why), {p}, why)
           IN scan' = [scan EXCEPT ![s] = [after EXCEPT !.listed = @ \ {p}]]
        /\ UNCHANGED changes

\* It cannot be read, before or after its identity is known, for want of
\* permission or for any other error, or is not whole.
Exclude(s) ==
    \E p \in Paths, why \in Reasons, entered \in BOOLEAN :
        /\ Visit(s, p) /\ Event
        /\ dir[p] # NoDir /\ dir[p] \notin Visited(scan[s])
        /\ why = "partial" => entered
        /\ LET after == Witnessed(Excluding(scan[s], p, why), {p}, why)
           IN scan' = [scan EXCEPT ![s] =
                         [after EXCEPT !.listed = @ \ {p},
                                       !.met = IF entered THEN @ \cup {dir[p]} ELSE @]]

-----------------------------------------------------------------------------
(* apply_scan(): the transaction.                                          *)

\* mutate(): the transaction starts and takes SQLite's write lock.
BeginApply(s) ==
    /\ scan[s].pc = "walking" /\ scan[s].unread = {} /\ scan[s].listed = {}
    /\ writer = NoScan
    /\ writer' = s /\ draft' = rows
    /\ scan' = [scan EXCEPT ![s].pc = "applying"]
    /\ UNCHANGED <<fileSystem, rows, command, asked, budget>>

\* The workspace row for the path of observation o, and the rows for its
\* directory; replaced rows are history and are never matched.
Exact_PresentOnly(rs, o) ==
    {i \in DOMAIN rs : rs[i].status = "present" /\ rs[i].path = o.path}
Exact(rs, o) == {i \in DOMAIN rs : Live(rs, i) /\ rs[i].path = o.path}
SameFile(rs, o) == {i \in DOMAIN rs : Live(rs, i) /\ rs[i].dir = o.dir}

\* insert_workspace
Fresh(o) ==
    [path |-> o.path, dir |-> o.dir, status |-> "present",
     activity |-> o.activity, protected |-> FALSE]

Later_Summed(a, b) == a + b
Later(a, b) == IF a < b THEN b ELSE a

\* update_observed.  When a Git fingerprint differs from the stored one the
\* activity also moves up to the time of the transaction, `bump`; else it is 0.
Updated_LastReportCounts(row, o, bump) ==
    [row EXCEPT !.status = "present", !.activity = Later(o.activity, bump)]
Updated_AsInserted(row, o, bump) ==
    [row EXCEPT !.status = "present", !.activity = Later(@, Later(o.activity, bump)),
                !.protected = FALSE]
Updated_StatusPreserved(row, o, bump) ==
    [row EXCEPT !.activity = Later(@, Later(o.activity, bump))]
Updated(row, o, bump) ==
    [row EXCEPT !.status = "present", !.activity = Later(@, Later(o.activity, bump))]

\* upsert_workspace_tx for the next observation o, in the order of the paths:
\* one of the four actions below.
Upserting(s, o) ==
    /\ writer = s
    /\ o.path = Earliest({other.path : other \in scan[s].found})
    /\ UNCHANGED <<fileSystem, rows, writer, command, asked, budget>>

Seen(s, o, i) ==
    scan' = [scan EXCEPT ![s].found = @ \ {o}, ![s].seen = @ \cup {i}]

UpdateRow(s, o, i) ==
    /\ \E bump \in Times : draft' = [draft EXCEPT ![i] = Updated(@, o, bump)]
    /\ Seen(s, o, i)

\* The same directory at the same path.
SeenAgain(s) ==
    \E o \in scan[s].found :
        /\ Upserting(s, o)
        /\ \E i \in Exact(draft, o) : draft[i].dir = o.dir /\ UpdateRow(s, o, i)

\* Another directory at the path: the old row becomes history.
SeenReplaced(s) ==
    \E o \in scan[s].found :
        /\ Upserting(s, o)
        /\ \E i \in Exact(draft, o) :
               /\ draft[i].dir # o.dir
               /\ draft' = Append([draft EXCEPT ![i].status = "replaced"], Fresh(o))
        /\ Seen(s, o, Len(draft) + 1)

\* The directory under a path that differs in case: the row keeps its path.
\* The query is not ordered, any row it could return first may be the one.
SeenUnderOtherCase(s) ==
    \E o \in scan[s].found :
        /\ Upserting(s, o)
        /\ Exact(draft, o) = {}
        /\ \E i \in SameFile(draft, o) :
               SamePath(draft[i].path, o.path) /\ UpdateRow(s, o, i)

\* A path the ledger does not know, and not a change of case.
SeenFirst(s) ==
    \E o \in scan[s].found :
        /\ Upserting(s, o)
        /\ Exact(draft, o) = {}
        /\ SameFile(draft, o) # {} =>
               \E i \in SameFile(draft, o) : ~SamePath(draft[i].path, o.path)
        /\ draft' = Append(draft, Fresh(o))
        /\ Seen(s, o, Len(draft) + 1)

\* The rows the scan accounts for as gone.
Uncertain_ExactPathOnly(sc, p) ==
    \E e \in sc.excluded : e.reason \in UncertainReasons /\ e.path = p
Uncertain(sc, p) ==
    \E e \in sc.excluded : e.reason \in UncertainReasons /\ e.path \in {p, RootOf[p]}

Absent(rs, sc) ==
    {i \in DOMAIN rs : /\ Live(rs, i) /\ i \notin sc.seen
                       /\ RootOf[rs[i].path] \in sc.valid
                       /\ ~Uncertain(sc, rs[i].path)}

\* The rest of apply_scan and the commit.
Commit(s) ==
    /\ writer = s /\ scan[s].found = {}
    /\ rows' = [i \in DOMAIN draft |->
                   IF i \in Absent(draft, scan[s])
                   THEN [draft[i] EXCEPT !.status = "missing"] ELSE draft[i]]
    /\ writer' = NoScan /\ draft' = <<>>
    /\ scan' = [scan EXCEPT ![s] = Idle]
    /\ UNCHANGED <<fileSystem, command, asked, budget>>

\* The transaction fails or its process dies; SQLite rolls back.
RollBack(s) ==
    /\ writer = s
    /\ writer' = NoScan /\ draft' = <<>>
    /\ scan' = [scan EXCEPT ![s] = Idle]
    /\ UNCHANGED <<fileSystem, rows, command, asked, budget>>

-----------------------------------------------------------------------------
(* set_protection(): find the row in one transaction, set it in another.   *)

\* Calm: no scan has yet to apply what it saw before the command.
Calm == \A s \in Scanners : scan[s].pc = "idle"

\* One protect command at a time, and none that would change nothing.
FindRow(p, flag) ==
    /\ command.row = NoCommand.row
    /\ Event
    /\ dir[p] # NoDir
    /\ \E i \in DOMAIN rows :
           /\ rows[i].status = "present" /\ rows[i].path = p /\ rows[i].dir = dir[p]
           /\ rows[i].protected # flag
           /\ command' = [row |-> i, flag |-> flag, calm |-> Calm]
    /\ UNCHANGED <<fileSystem, ledger, scan, asked, scans>>

SetProtected ==
    LET row == rows[command.row] IN
    /\ command.row # NoCommand.row
    /\ writer = NoScan
    /\ rows' = [rows EXCEPT ![command.row].protected = command.flag]
    /\ asked' = {a \in asked : a.path # row.path \/ a.dir # row.dir}
                  \cup (IF command.flag /\ Live(rows, command.row) /\ dir[row.path] = row.dir
                        THEN {[path |-> row.path, dir |-> row.dir, calm |-> command.calm]}
                        ELSE {})
    /\ command' = NoCommand
    /\ UNCHANGED <<fileSystem, writer, draft, scan, budget>>

-----------------------------------------------------------------------------
ScanStep(s) ==
    \/ StartScan(s) \/ ReadRoot(s) \/ RootExcluded(s) \/ Observe(s) \/ Skip(s) \/ Exclude(s)
    \/ BeginApply(s) \/ SeenAgain(s) \/ SeenReplaced(s) \/ SeenUnderOtherCase(s)
    \/ SeenFirst(s) \/ Commit(s) \/ RollBack(s)

FileSystemStep ==
    \/ \E p \in Paths, d \in Dirs : Place(p, d)
    \/ \E p \in Paths : Take(p)
    \/ \E p, q \in Paths : Rename(p, q)
    \/ \E d \in Dirs : Work(d)

Next ==
    \/ \E s \in Scanners : ScanStep(s)
    \/ FileSystemStep
    \/ \E p \in Paths, flag \in BOOLEAN : FindRow(p, flag)
    \/ SetProtected

Spec == Init /\ [][Next]_vars

-----------------------------------------------------------------------------
(* Properties.                                                             *)

\* The shape of the state.
ScanState == [pc: {"idle", "walking", "applying"}, valid: SUBSET Roots,
              unread: SUBSET Roots, listed: SUBSET Paths,
              found: SUBSET Observation, met: SUBSET Dirs, excluded: SUBSET Exclusion,
              seen: SUBSET (Nat \ {0}),
              kept: SUBSET (Paths \X Dirs), quiet: BOOLEAN]

TypeOK ==
    /\ dir \in [Paths -> Dirs \cup {NoDir}]
    /\ mtime \in [Dirs -> Times]
    /\ rows \in Seq(Row) /\ draft \in Seq(Row)
    /\ writer \in Scanners \cup {NoScan}
    /\ scan \in [Scanners -> ScanState]
    /\ command \in [row: 0 .. Len(rows), flag: BOOLEAN, calm: BOOLEAN]
    /\ asked \subseteq [path: Paths, dir: Dirs, calm: BOOLEAN]
    /\ changes \in 0 .. MaxChanges /\ scans \in 0 .. MaxScans

\* No history of scans, in whatever order they apply what they saw, leaves
\* two live rows for one path: the unique index workspaces_live_by_path never
\* turns a scan into an error, and a path never has two protection flags.
OneLiveRowPerPath ==
    \A rs \in {rows, draft} : \A i, j \in DOMAIN rs :
        Live(rs, i) /\ Live(rs, j) /\ rs[i].path = rs[j].path => i = j

\* What the owner protected while no scan was under way stays protected
\* through every later scan, also while the workspace is away, until another
\* directory takes its place (README.md:243-250).
Shielded(a) ==
    \A i \in DOMAIN rows :
        Live(rows, i) /\ rows[i].path = a.path /\ rows[i].dir = a.dir => rows[i].protected

ProtectionPersists == \A a \in asked : a.calm => Shielded(a)

\* README.md:249: "protection persists across scans" - also across a scan
\* that looked at the path before the command and is applied after it.
ProtectionSurvivesEveryScan == \A a \in asked : Shielded(a)

\* The scan s commits, and with it the row i goes missing.
Missed(s, i) ==
    /\ scan[s].pc = "applying" /\ scan'[s].pc = "idle"
    /\ rows[i].status = "present" /\ rows'[i].status = "missing"

\* A scan that had room left in its report declares a workspace missing only
\* if, at some moment of that scan, its directory was not at the very path of
\* the row, or was found not whole, or it or its root could not be read for a
\* reason other than the four the code holds uncertain: a directory or a root
\* it was refused, a root it did not walk and another scan's stale report are
\* never evidence of absence (workflows.rs:489-501, state.rs:860-863).
AbsenceIsProven ==
    [][\A i \in DOMAIN rows, s \in Scanners :
           Missed(s, i) /\ Cardinality(scan[s].excluded) < MaxDiagnostics
           => <<rows[i].path, rows[i].dir>> \notin scan[s].kept]_vars

\* README.md:195-198: permission failures, identity changes, disappearing
\* paths, partial workspace markers and unavailable roots "are reported with
\* stable exact reasons rather than treated as absence": a workspace that is
\* in place, its path up to case, is not declared missing by a scan that
\* reported that path, up to case, or its root.
ReportedIsNotMissing ==
    [][\A i \in DOMAIN rows, s \in Scanners :
           Missed(s, i)
           /\ (\E pd \in InPlace : rows[i].dir = pd[2] /\ SamePath(rows[i].path, pd[1]))
           => ~\E e \in scan[s].excluded :
                  /\ e.reason # "duplicate"
                  /\ \/ e.path = RootOf[rows[i].path]
                     \/ e.path \in Paths /\ SamePath(e.path, rows[i].path)]_vars

\* The table `new` still tells all that `old` told.
Extends(old, new) ==
    /\ Len(old) <= Len(new)
    /\ \A i \in DOMAIN old :
           /\ new[i].path = old[i].path /\ new[i].dir = old[i].dir
           /\ new[i].activity >= old[i].activity
           /\ old[i].status = "replaced" => new[i].status = "replaced"

\* What the ledger knows is never unlearned, not even by a scan that looked
\* long ago or by marker times put back: rows are never deleted, keep their
\* path and directory, never leave history, and their activity never moves
\* backwards (README.md:243-246).
HistoryKept == [][Extends(rows, rows')]_vars

\* A scan during which nothing moved, that was refused nothing and reached
\* every root leaves a ledger that mirrors the disk: the rows in state present
\* are the workspaces in place, up to the case of the path, one row for each.
Mirrors ==
    LET present == {i \in DOMAIN rows : rows[i].status = "present"} IN
    /\ \A pd \in InPlace : Cardinality({i \in present : rows[i].dir = pd[2]}) = 1
    /\ \A i \in present : \E pd \in InPlace :
           rows[i].dir = pd[2] /\ SamePath(rows[i].path, pd[1])

QuietScanMirrorsDisk ==
    [][\A s \in Scanners :
           (writer = s /\ scan[s].quiet /\ scan[s].valid = Roots /\ rows' # rows)
           => Mirrors']_vars
=============================================================================
