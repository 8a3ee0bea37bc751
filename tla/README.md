# A TLA+ verification of terminal_janitor

`terminal_janitor` watches the free space of a disk and, when it falls below a
minimum, recovers space by a short fixed list of actions: it clears its own
stale state, prunes the pnpm store and cleans pnpm workspaces that nobody uses.
Its value is in what it does *not* do: it must not clean a workspace that is
active, protected, dirty or recently cleaned, not run beside itself, not go on
past its target, and not lose its account of what it did, wherever it is killed.

This directory holds models of the parts of the program that make those
decisions, TLC runs that check them on small instances, and TLAPS proofs, for
every instance, of most of the safety properties the runs check. Line numbers
below are those of the sources in `src/`; `PROJECT.json` maps every definition to
the lines it stands for.

    tlc -workers 2 -config MCAdapters.cfg MCAdapters.tla
    tlapm Executor_proofs.tla

Contents: [the system](#1-the-system), [the models](#2-the-models),
[the runs](#3-the-runs), [where documents and code
differ](#4-where-the-documents-and-the-code-differ), [the proofs](#5-the-proofs),
[what is not modelled](#6-what-is-not-modelled), [what remains](#7-what-remains).

## 1. The system

Every command is a process of its own that reads its inputs, works and ends;
there is no daemon. Processes meet in five shared places: the configuration file
`config.toml`, the SQLite state file (ledger, pnpm enrolment, run journal), the
lock directory, the file system they look at, and the disk they free. So the
hard behaviour is that of short-lived processes that overlap, fail half way and
are killed, over state that people and tools change at the same time.

| Component | State | Operations | Meets | What makes it correct |
|---|---|---|---|---|
| Threshold loop: `check`/`clean` (`workflows.rs`, `executor.rs`) | plan, `LoopState`, measurements | read the ledger, plan, measure, lock, measure again, journal, validate, perform, measure, stop or go on, classify | lock, journal, ledger, planner, adapters | stops at the target; caps; one pnpm at a time; cooldown; ends; result agrees with what happened |
| Volume lock (`executor.rs` `VolumeLock`) and stale-lock sweep (`adapters/own_state.rs`) | lock files and the locks on them | open, try_lock, drop; list, stat, probe, unlink | all runs on all volumes | exclusion per volume; a dead run blocks nobody |
| Run journal (`journal.rs`, `state.rs` tables `runs`, `run_actions`) | rows of runs and actions | begin_run, record_planned_action, advance_action, finish_action, finish_run, retention, list_runs | threshold loop, `history` | written before attempted; terminal states are final; the result is borne out by the actions; a live run keeps its rows, and what is shown of a run was once the case |
| Planner (`planner.rs`) | none, but it takes time: Git may take a minute | gates of a workspace one by one, candidate order, plan, revalidation | ledger records, Git, process liveness, pnpm | refuses on every doubt, also one that is there while the gates are being asked; never more than two cleans |
| Ledger (`state.rs` tables `approved_roots`, `workspaces`, `pnpm_enrolment`) | rows | apply_scan, set_protected, record_workspace_cleaned, registration | `init`, `scan`, `protect`, `check` | one live row per path; history is never unlearned; protection persists; absence is proven |
| Discovery and activity (`discovery.rs`, `activity.rs`, `identity.rs`) | the walk | list, visit, observe, exclude | file system | each directory once; a refusal is not an absence |
| Registration: `init` (`workflows.rs`, `config.rs`, `state.rs`) | configuration and ledger | load, validate, open or create the state file, insert rows, replace the file, commit, roll back | configuration file, state file | both or neither; one authority per directory |
| Command runner (`adapters/mod.rs`) | child, two pipes, two reader threads | spawn, poll, kill at the timeout, join, bounded capture | pnpm, Git, schedule commands | every call is answered; what is not called truncated is whole; an answer is borne out by what became of the child |
| pnpm adapter (`adapters/pnpm.rs`) | the enrolment row | resolve, ask the version, store, `pnpm_gate` | `init`, gates | what passes the gate said itself that it is recent enough |
| Git adapter, process liveness, protection (`adapters/git.rs`, `process.rs`, `protection.rs`) | none | answer one question about a workspace | gates | doubt is an answer of its own |
| Scheduler (`scheduler.rs`) | unit files, the service manager's state | enable, disable | systemd, launchd, Task Scheduler | what it reports is what the manager will do |
| Status, platform, command line, npm wrapper | none | measure, parse, print | | |

The hard behaviours, each listed with its line under `hazards` in
`PROJECT.json`: two runs between their measurement and the lock; a lock probed
and then unlinked; a run killed between starting pnpm and writing down how it
ended; a pnpm that outlives its run; facts read when the run starts and used
minutes later; a plan that expires half way; scans that apply what they saw in
another order than they saw it; walks over directories that move; a
configuration replaced inside a database transaction that may still fail; gates
asked one after another of a machine that goes on; a child that hangs, floods its
pipe or leaves a descendant behind; an executable replaced between two questions
about it; history deleted, by the wall clock, under a run that is writing it.

## 2. The models

| Module | Models | Composition |
|---|---|---|
| `VolumeLock` | acquire, drop, the stale-lock sweep, kills | |
| `JournalStates` | vocabulary of actions, states and results | extended by the next two |
| `RunJournal` | abstract specification: what the journal promises its reader | |
| `Executor` | `check` from reading the ledger to its report | implements `RunJournal`; relies on `VolumeLock` for exclusion only |
| `Revalidation` | the gates of one workspace, asked twice, and the machine they look at | one workspace of `Executor`, its fact taken apart |
| `Ledger` | `scan` and `protect` over the workspace table | |
| `Registration` | `init` over configuration and state file | |
| `History` | the rows of many runs in time: retention, numbers, `history` | the journal of `Executor` seen from the tables |
| `Command` | abstract specification: what a caller of `CommandRunner::run` relies on | |
| `CommandRunner` | the call, its child, pipes and reader threads | implements `Command` |
| `Enrolment` | enrolling pnpm, and the gate that uses the enrolment | relies on `Command` for its answers |
| `Scheduler` | `schedule enable` and `disable`, and the service manager | relies on `Command` for its answers |
| `Adapters` | `CommandRunner`, `Enrolment`, `Scheduler` and `VolumeLock` side by side | extends the first, instantiates the others |
| `MC*` | symmetry sets and constants for TLC | extend the above |
| `*_proofs` | theorems and proofs | extend the above |

`Adapters` holds `CommandRunner`, `Enrolment`, `Scheduler` and `VolumeLock` side
by side: they share no state, so a behaviour is about one of them (`part`) and the
other three rest. Where the first three meet, they meet in `Command`: an answer is
"ok" only for a child that succeeded and whose output is whole.

Every module also holds definitions like `Kill_Never` and `Updated_BySequence`: a
mistake somebody could make in `Kill` or `Updated`. No specification uses them;
each property is shown to fail when one of them takes the place of the definition
it is named after.

### VolumeLock

An advisory lock belongs to a file and not to its name, so the directory (`link`
from volumes to files) and the locks (`owner` of files) are two variables. One
action is one system call: `OpenLockFile` (create without truncation),
`TakeLock`/`Refused` (`try_lock`), then the sweep that is the first action of
every plan: `ReadDirectory`, `Examine` (stat of the next entry), `ProbeLock` or
`ProbeFails`, `ProbeUnlock`, `RemoveLockFile` (which may fail, and is then passed
over), `SweepDone`; at the end `Release`.
`Crash` closes the handles of a process at any point and leaves names as they
are. `Age` makes a linked file older than a day, locked or not, since locking
does not touch the modification time. `Pressured` is the set of volumes `check`
is asked to run on; lock files of other volumes may exist and are swept.

### RunJournal and Executor

`RunJournal` has two variables, the action rows and the run rows, and four
actions: open a run, plan an action once the one before is settled and none has
failed, advance the last action along PLANNED, VALIDATING, RUNNING or a skip,
SUCCEEDED or FAILED, and close the run with a result its rows bear out
(`Warranted`). A run that stops for another reason simply stays as it is.

`Executor` is one volume under pressure. A member of `Runs` is one invocation:

| pc | the process is | leaves it by |
|---|---|---|
| idle | not started | `StartCheck`: ledger and enrolment are read once, and the plan is built |
| planned | before the first measurement | `MeasureBeforeLock` |
| pressed | below `minimum_free` | `TakeLock` |
| locked | holding the lock | `BeginRun`: measured again, then journalled |
| between | at the top of the loop, or just behind `run_one` | `JournalNext`, `JournalPostCleanPrune`, `FinishRun` |
| recorded | action journalled as PLANNED | `BeginValidation` |
| validating | asking the gates | `Refuse` or `Authorise` |
| running | about to act | `PerformInProcess` or `StartCommand` |
| waiting | waiting for pnpm | `CommandEnds` |
| cleaned | a workspace clean succeeded | `RecordCleaned` |
| closing | action done and measured | `CloseAction` |
| finished | row has its result | `Return` |
| exited | gone | |

`Abort` may happen at every step: the process is killed, or a `StateError`
leaves `execute()` through `?`. The lock goes with the process; the rows stay,
and so does a running pnpm (`children`). Measurements are any member of
`FreeLevels` or a failure, every time. `Gates` are the checks of
`evaluate_workspace` in their order. What lies outside the ledger (identity,
protection files, Git, processes) is one fact per workspace that others may
change at any time; `Revalidation` takes that fact apart. `mem[r].seen` is the
copy of the ledger the process keeps, which is what revalidation asks: that is
the code, not a simplification. Planning precedes the first measurement in the
code, although README.md says the run exits above `minimum_free` "without
scanning"; nothing is written, so the model follows the code and no property
depends on it.

### Revalidation

One workspace, from the reading of the ledger to its clean. `Gates` is the order
of `evaluate_workspace`; what a gate may find wrong is a *doubt*. Each gate is a
step of its own, because the machine changes between them: `LookAtRecord` asks
the copy of the ledger, `LookAtDisk` the disk, `LookForDeniedRoot` and
`LookForSyncedFolder` the path, `StartGit`/`GitAnswers` a command that takes time
and whose answer is true of some moment of it, `StartSnapshot`/`Inspect`/`Judge`
the process table, one process after the other. `Authorise` ends an evaluation,
`Revalidate` begins the second one with the records of the first. Between any two
steps the ledger, the disk, the worktree or a process may change.

`standing`, `staying` and `arisen` are history and steer nothing: the doubts that
were there all through the present evaluation, the processes that used the
workspace all through it, and the doubts there at any time since the ledger was
read. A path is a sequence of names, and the denied roots are a set of paths, of
which the root of the file system is dropped as `push_root` drops it.

### Ledger

A path is a directory below an approved root that may hold a workspace; a `Dir`
is what the code calls (volume_id, file_id). The file system moves on its own
(`Place`, `Take`, `Rename`, `Work`) between the steps of a walk (`ReadRoot`,
`Observe`, `Skip`, `Exclude`, `RootExcluded`). A scan then applies what it saw
in one transaction: `BeginApply` takes SQLite's write lock, one of `SeenAgain`,
`SeenReplaced`, `SeenUnderOtherCase`, `SeenFirst` (the branches of
`upsert_workspace_tx`) treats each observation in the order of the paths,
`Commit` marks what is gone, and `RollBack` undoes it all. `protect` is two
transactions, `FindRow` and `SetProtected`, as in the code.

A directory that is there may all the same be excluded, for one of `Reasons`:
"denied" stands for the four that `scan_with` holds uncertain, so that the rows
below stay as they are; "changed" is `PathChangedDuringScan`, which `io_reason`
gives for a path that is gone and, in its catch-all arm, for every I/O error it
does not know; "partial" is a directory with only some of the markers. The last two
are taken for absence. The report holds `MaxDiagnostics` exclusions, and what comes
after them is lost.

Abstractions: roots do not nest and stay registered (nothing in the program
deactivates one); a `Dir` stays on its volume; that a Git fingerprint moved is a
nondeterministic answer (`bump`); the first-seen time, the plan a scan prints
and its report are left out. `kept` and `quiet` in a scan, and `asked`, record
history for the properties and steer nothing.

### Registration

The configuration, the name of the state file (`link`), the files it may name
(`table`: schema and active roots) and their write locks (`holder`) are shared;
`init[i]` is what one process has in memory. A process loads the configuration,
validates root after root, looks whether the state file exists, opens or creates
it, migrates it, looks whether the configuration exists, inserts its rows in a
transaction, replaces the configuration inside that transaction, commits, and
enrols pnpm. Every step can fail, the enrolment included, which leaves an error
and everything else as committed; the steps before the commit have the code's own compensation (`RestoreConfig`,
`RemoveState`). The process can be killed at each. `Rearrange` moves
directories underneath. Volumes matter: the table knows a path together with
its volume.

`before` and `alone` in `init[i]` record what an init found, for the properties.
An init starts only while `started < MaxInits`, so there may be two, overlapping
or one after the other.

### History

Where `Executor` sees the rows of a run as a sequence of its own, `History` has
the two tables with the numbers SQLite gives their rows. `Begin` inserts a run and
deletes what is beyond the newest `Retained`, with the actions, in one
transaction; `PlanAction` takes the next number, which is one more than the
largest there is and so may have belonged to a deleted row; `AdvanceAction`
updates by number; `FinishRun` updates by run and does not mind finding no row.
`Tick` moves the wall clock on, `PutBack` back. `ReadRuns`, `ReadActions` and
`Report` are `history`, which reads without a transaction. `done[r]` is what the
run really did, `moments` what the tables said while the reader was at it.

### Command, CommandRunner, Enrolment and Scheduler

`Command` has a child, a deadline that is over or not, and an answer; `BorneOut`
says which answers the fate of the child permits. `CommandRunner` implements it:
`Spawn`, the polling loop (`PollExited`, `PollRunning`, `Wait`, `Kill`), the two
ways of joining the readers (`TimedOut`; `Finish`, `FinishFails`), and
`bounded_capture` for each stream (`Capture` up to the limit, `Discard` beyond
it). Output is counted in units; a pipe holds `PipeSize` of them and then blocks
whoever writes. The child may exit, hang, fork a descendant that holds the pipes,
or write until the pipe is full.

`Enrolment`: `Resolve` takes the identity of the file at the path, `Ask` starts
whatever file is at that path by then, `Answered` judges the version, `Store`
replaces the row, and `PassGate` is `pnpm_gate` at any later time. `Replace` and
`Remove` change the file meanwhile.

`Scheduler`: a call walks through the script of its platform (`Enable`,
`Disable`) of file writes, removals and commands; every one may fail, a command
that failed may have done its work, and the call may be killed, leaving a torn
file or a command without a caller (`orphans`). `manager` is what the service
manager has: systemd reads unit files again at `daemon-reload`, launchd has one
agent of a name, and a login starts from the files (`AfterLogin`).

## 3. The runs

Deadlock checking is off except in `volume_lock_two_volumes`, whose process slots
start again for ever: processes end and bounds are used up.

| Run | Configuration | Checks | Instance |
|---|---|---|---|
| `pressure_runs` | `MCExecutor_runs` | `TypeOK`, `NothingAfterTarget`, `CapsHold`, `JournalSpec`, `EveryRunEnds`, `WriteAhead`, `OneCommandAtATime`, `CooldownBeforeSuccess`, `CooldownRespected` | one run by itself with three workspaces, three levels and one change by others; and two runs at once or in turn with one workspace to clean, two ticks, kills anywhere |
| `revalidation` | `MCRevalidation_gates` | `TypeOK`, `LiveDoubtsRefuse`, `RefusalsBorneOut` | two processes of five kinds, four places, two changes |
| `ledger_scans` | `MCLedger_scans` | `TypeOK`, `OneLiveRowPerPath`, `ProtectionPersists`, `AbsenceIsProven`, `HistoryKept`, `QuietScanMirrorsDisk` | three scans, two at a time, two spellings of a path and another, two directories, three outside events, a report of two exclusions |
| `registration` | `MCRegistration_inits` | `TypeOK`, `OneAuthorityPerDirectory`, `FailureLeavesNoTrace`, `SuccessIsCoordinated` | two inits, two paths, three directories on two volumes, two files, two moves |
| `history_retention` | `MCHistory_retention` | `TypeOK`, `Sound`, `RowsTellTheTruth`, `LiveRunsKept`, `ShownIsAMoment` | three runs of which two are kept, one action each, a reader |
| `adapters` | `MCAdapters` | `AdaptersTypeOK`, `MutualExclusion`, `LockHeldOnlyByLiveRun`, `RefusedOnlyByAnotherRun`, `EveryRunEnds`, `OutputIsWhole`, `CommandSpec`, `EveryCallAnswered`, `OnlyRecentPnpmPasses`, `EnabledMeansScheduled`, `DisabledMeansGone` | two process slots, two volumes' lock files, runs on one volume, three files; capture limit and pipe of one unit, two units of output; two inits, six files; three platforms, three calls, two at a time, one login |
| `volume_lock_two_volumes`, `stale_scan`, `reported_missing`, `partial_reclaim`, `stale_authority`, `reused_row` | `VolumeLock_two`, `MCLedger_stale`, `MCLedger_reported`, `Executor_partial`, `MCRevalidation_stale`, `MCHistory_clock` | one property each, violated | see section 4 |

### What they show, and why the bounds are enough

**The lock** (a part of `adapters`). With runs on one volume, `MutualExclusion` holds whatever the sweep
does to that and other lock files. The delicate case needs two slots and three
files: one linked file, one that was unlinked and is still open, one new.
`RefusedOnlyByAnotherRun` says ALREADY_RUNNING is the truth: a probe in flight
never makes a run go away. `EveryRunEnds` includes the sweep.

**The loop.** Three workspaces are one more than the cap of two, so the cap is
met. The second of the two runs was killed before it did anything (`Alone`). Levels
0, 1 and 2 are below minimum, between, and at the target (`Minimum =
1`, `Target = 2`), which hits both boundaries exactly. All workspaces are proven
when the run begins; one that is not would be left out of the plan,
as in an instance without it, and any of them may cease to be proven later.
`NothingAfterTarget` covers the post-clean prune, which is journalled outside the
loop. `CapsHold` counts refused actions, too. `JournalSpec` is the refinement of
`RunJournal`. `EveryRunEnds`: the plan is finite, the post-clean prune does not
feed itself, and nothing is retried. The clock stands still here: expiry and
cooldown belong to the next family.

**Overlap** (`Together`, the other family of `pressure_runs`). Two invocations
(`MaxLive = 2`), overlapping or one after the other, that may both plan before
either locks. The liveness property rules symmetry out, so one of the two begins
first and only one of the workspaces is ever touched. `Rough` keeps the figures
few: a measurement after an action fails, or finds the target. Kills are in both
families, and the facts change only in the first. A plan expires after one tick, the
cooldown is two. `WriteAhead` and `OneCommandAtATime` speak of pnpm processes,
including those of killed runs: a dead run's pnpm may still be at work beside a
live run's (the lock went with the process), two live ones' never are. A clean
that the journal calls SUCCEEDED has its cooldown in the ledger at whatever step
the run was killed. `CooldownRespected`: a run whose reading of the ledger is
still current cleans a workspace no sooner than a cooldown after the last time. A
run that read the ledger before another one cleaned, and got the lock after it,
cleans again; that follows from planning before locking (`workflows.rs:652`), and
no document promises otherwise. A kill between the end of a clean and
`record_workspace_cleaned` leaves the workspace without its cooldown; the
property speaks of cleans that were recorded.

**Revalidation.** `LiveDoubtsRefuse` is what "every gate is asked again" amounts
to when gates are asked one after another: a doubt that was there before the first
gate and is there after the last one stops the clean, if it is one the disk, Git or
the process table can tell. A doubt that comes behind the gate that asks for it is
not seen, and no document says it is. The four places are a plain project, one
below a denied root, one below a synced folder above the approved root, and one
with a suspicious name of its own; the five kinds of process are one inside, one
that names the workspace, and three whose directory cannot be read: the user's own,
somebody else's, and somebody else's package tool. Two changes are what it takes
for a doubt to go and come back, and for one gate to be deceived by another.
`RefusalsBorneOut`: no workspace is refused for a reason that never was one.

**Scans.** `AbsenceIsProven` is the rule "a refusal is not an absence", as far as
the code keeps it: a scan with room left in its report calls a row missing only if,
at some moment of that scan, the directory was not at the path of the row, or was
found not whole, or it or its root could not be read for a reason other than the
four uncertain ones. So a refused directory or root, a root the scan did not walk
and a report by another scan are never evidence. What README.md promises beyond
that is `ReportedIsNotMissing`, which fails (section 4). `QuietScanMirrorsDisk` is
the converse. `OneLiveRowPerPath` is the unique index `workspaces_live_by_path`: no
order of scans runs into it. Two spellings of one path are what a rename on a file
system without case needs; three events are enough to move a directory away, put
another there and put the first back. `ProtectionPersists` speaks of protections
given while no scan was under way; section 4 says what happens to the others.
`MaxDiagnostics = 2` stands for 1,000: a report with an exclusion in it and room
left, and a full one, which loses what comes after. Two scans overlap with each
other on a disk that was never scanned, with a third after them, or on one that a
first scan has found with both directories in place (`MCInit`).

**Init.** `FailureLeavesNoTrace` and `SuccessIsCoordinated` are about an init
that ran alone, since the code has no lock around it. The first is about a failure
before the commit. The second is about what was committed, whether the init then
reports success or an error, which it does when the pnpm enrolment cannot be
stored (`workflows.rs:322`): an error after the commit does not mean that nothing
was registered. But the state it finds may
be left by one that was killed or could not take its configuration back, and
directories move meanwhile. `OneAuthorityPerDirectory` holds with any overlap.
Two inits suffice for "one after another failed" as well as for "beside another".

**History.** `Retained = 2` stands for 200 and three runs are one more, so
retention deletes. `LiveRunsKept`, that retention takes no run that is at work, is
true only because few runs begin while one is at work (`MaxWhileRunning = 1`, less
than `Retained`; in the program fewer than 200, each on a volume of its own) and
because the wall clock is not put back (`MaxBack = 0`); both are assumptions, and
section 4 says what happens without the second. `RowsTellTheTruth` concerns the
numbers that are given away again, and `ShownIsAMoment` the reader between two
writers: what `history` shows of a run was true at one moment, or the run has been
deleted and shows no actions.

**Adapters.** A capture limit of one unit and two units of output give output that
fits exactly and output that is one unit too long; a pipe of one unit makes the
child block. `OutputIsWhole` is about the answers callers act on. `CommandSpec`
says that no timing of exit, poll and deadline gives an answer the child does not
bear out. `OnlyRecentPnpmPasses`: two inits with six files, of which two are
acceptable, in any order at the path. `EnabledMeansScheduled` and
`DisabledMeansGone` are about the last call, if nothing overlapped it, over
whatever two earlier calls that failed, were killed or overlapped have left; the
login is what tells what is loaded from what is on disk.

Bounds, all of them in the `.cfg` files: `MaxClock`, `MaxLive`, `MaxChanges`
(Executor) and `Rough` (MCExecutor), `MaxChanges` (Revalidation), `MaxTime`, `MaxChanges`, `MaxScans`
(Ledger), `MaxInits`, `MaxMoves` (Registration), `MaxActions`, `MaxWhileRunning`,
`MaxClock`, `MaxBack` (History), `MaxOutput` (CommandRunner), `MaxCalls`,
`MaxLogins` (Scheduler). Limits of the program are `MaxCleans`, `MaxPostClean`,
`MaxDiagnostics`, `Retained`, `MaxCapture` and `MinimumMajor`. `MCNext` of MCLedger
bounds which scans overlap.

### Fairness

`FairSpec` of `VolumeLock`, which `AdaptersSpec` takes over for its part, and
`MCSpec` of `MCExecutor` assume weak fairness of the steps of each process that
was started (`RunStep`), the only thing an operating system owes it. Starting, crashing, ageing, the clock and other people
get none. For `Executor` this includes that a command ends, which `CommandRunner`
is there to justify: `EveryCallAnswered` holds with weak fairness of the three
threads (`RunStep`, `ReaderStep`) and of the passing of time (`DeadlinePasses`),
and nothing whatever of the child, which may hang or stand at a full pipe. One
exception remains and is stated in the property: after the kill, `run()` joins the
threads that read the output (`adapters/mod.rs:234`), and a descendant of the
command that keeps the pipe open keeps the run, and the volume lock, as long as it
lives.

### Assumptions about the world

- The identity of a file that is gone does not return (`Enrolment`):
  an inode number that is used again within one enrolment would defeat the gate.
- A command whose exit code is 0 has done its work (`Scheduler`, `Executor`).
- launchd has one agent of a name and refuses to load a second.
- Between `pnpm_gate` and the start of pnpm the executable may be replaced; the
  models do not look into that window, which no check by path can close.

## 4. Where the documents and the code differ

Each is a run that ends in a counterexample, and an entry under `findings`.

- `volume_lock_two_volumes`: SAFETY.md:197 "Only one run may operate on a volume
  at once." `can_take_exclusively` lets go of the lock before the name is
  unlinked. A run that opened the file in between ends up with a lock on a
  nameless file, and the next one locks a new file. It takes runs on two volumes
  that share a state directory, and a lock file more than a day old.
- `stale_scan`: README.md:249 "protection persists across scans". A scan that
  looked before the directory was there, and commits after it was protected,
  replaces its row by an unprotected one.
- `reported_missing`: README.md:195-198 says that permission failures, identity
  changes, disappearing paths, partial workspace markers and unavailable roots are
  "reported with stable exact reasons rather than treated as absence". Only four
  reasons are held uncertain (workflows.rs:489-501). Every I/O error `io_reason`
  has no arm for (discovery.rs:430) becomes `PathChangedDuringScan`, which is not
  one of them: in the run a root that cannot be read for such an error turns the
  row of a workspace that is in place and whole into a missing one, although the
  scan reported that root. The same happens to a workspace with a partial set of
  markers and to one that is renamed between listing and visit. And a refusal
  covers the rows below the exact spelling of its path (state.rs:860-863): after a
  change of case alone, the row still has the old spelling and goes missing under a
  refusal at the new one. The row, its protection and its history come back with
  the next scan that sees the directory.
- `partial_reclaim`: journal.rs:151-153 says of `OK_PARTIAL_SAFE_RECLAIM` "Space was
  recovered safely, but the target was not reached and more proven actions remain
  for a later run", ACCEPTANCE.md:212-222 lists it and `SKIPPED_PROTECTED` among
  the results the implementation "provides and tests", and executor.rs:671-672 says
  "More proven work is waiting". But `classify()` is told only of what the loop left
  because it had met the target, which is `OK_TARGET_RESTORED` by an earlier rule;
  what the cap keeps out is not counted. In the run a check comes back above
  `minimum_free`, leaves a proven workspace to its cap and reports
  `SHORTFALL_SAFE_ACTIONS_EXHAUSTED`. No run ever gets either of the two results
  (`TwoResultsUnreachable`, proved).
- `stale_authority`: SAFETY.md:163-173 "Before execution, the engine must
  revalidate: [...] current activity and protection state." Protection, presence
  and the windows of activity are asked of the records read when `check` started.
- `reused_row`: SAFETY.md:213 "A crash or interruption must not cause unfinished
  work to be marked successful"; `advance_action` takes an update that finds no
  row for corruption (state.rs:1303). With the clock put back behind the runs that
  are kept, `begin_run` of another volume deletes a run that is at work; the
  numbers of its rows are given to the other run's, and its next update, SUCCEEDED
  included, lands there.

Seen while modelling, and not made a run:

- A store prune runs the enrolled path without asking `pnpm_gate` again; only
  workspace cleans are revalidated, although README.md:262 says "Before each
  action runs, every gate is asked again."
- A failing clean or prune ends its run (`executor.rs:491`), so a workspace whose
  clean always fails stands before every later one of every run, until its place in
  the order changes.
- The policy hash of a plan is stored with the run and never compared again,
  although SAFETY.md:163-173 lists the policy version.
- `check` never observes activity itself; what a scan last stored decides.
- `DeniedRoots` are not canonicalised, although protection.rs:113 calls them
  canonical; a denied directory reached under another name is not recognised.
- On Windows a failed `schtasks /Delete` is tolerated and the call still reports
  SCHEDULE_DISABLED; `DisabledMeansGone` therefore excepts Windows. On Linux a
  failed `disable --now` leaves the timer at work until the next login. A failed
  enable on macOS leaves the agent's file, which the next login loads.
- The thousand diagnostics of a report (`discovery.rs:419-423`) also carry the
  uncertain prefixes, so a refusal beyond the thousandth protects nothing and the
  rows below go missing. `AbsenceIsProven` is stated for reports with room left.
- With `CaseSensitive = TRUE`, TLC finds `QuietScanMirrorsDisk` violated: when a
  workspace p is renamed to P, which sorts earlier, and another directory is put
  at p, the next scan updates the row of p for the one and then replaces that row
  for the other: paths are compared without case on every file system.
- `set_protected` does not ask whether the row it found is still live, so a flag
  may be set on a row that has become history.
- The comment on `update_observed` (`state.rs:1709-1711`) says status is
  preserved; the code sets it to present, as it must (`QuietScanMirrorsDisk`
  fails otherwise: the mutant `Updated_StatusPreserved`).
- A path that comes to be another volume gets a second active row
  (`state.rs:1555`), and `scan` then refuses it as ambiguous
  (`workflows.rs:478-485`). Nothing sets a row inactive.
- Overlapping inits lose each other's work: one writes a configuration without
  the other's roots, and a failing first init removes the name of the file the
  other has filled.
- A failure to store the pnpm enrolment makes `init` return an error with the
  roots registered and configured (`workflows.rs:322`). The registration is then as
  whole as after a success (`SuccessIsCoordinated`), but nothing says so.
- `SKIPPED_ACTIVITY_UNCERTAIN` needs a run without a success, in which even the
  own-state sweep did not succeed; that takes a plan that expired before it and
  a clock that was put back before the first workspace clean.

## 5. The proofs

TLAPS checks each theorem below for every value of the constants that satisfies
the assumption of its module. The assumptions (`LockAssumption`,
`ExecutorAssumption`, `LedgerAssumption`, `RegistrationAssumption`,
`RevalidationAssumption`, `HistoryAssumption`, `RunnerAssumption`,
`EnrolmentAssumption`, `SchedulerAssumption`) only say that
sentinels are not members of the sets they stand beside, that bounds, limits and
levels are natural numbers, that `Minimum < Target` (config.rs refuses anything
else), that the order of the paths in `Registration` lists each of them once, and
that functions have their domains. `VolumeLock` needs no finiteness; the `Executor`
needs `Workspaces` finite, for the cardinality in the cap. A theorem with a
hypothesis beyond that says so in its statement.

**Executor_proofs.** `Invariance` proves `IInv`: `TypeOK` and, for every run, the
parts that tie its program counter to what it holds and has written: `LockInv`
(from `TakeLock` to `Return` it has the lock), `RowInv` (its row, its report and
its pnpm go with pc), `JournalInv` (all actions but the last are settled without
a failure, and the last is in the state pc says), `PlanInv` (the plan starts with
the own-state sweep and is walked from its start) and `RowReachable` (the two
results nobody gets). From it: `TypeCorrect`, `JournalledFirst` (`WriteAhead`),
`OneAtATime` (`OneCommandAtATime`), `CleanRecordedFirst`
(`CooldownBeforeSuccess`), `TwoResultsUnreachable` (no run ever gets
`OK_PARTIAL_SAFE_RECLAIM` or `SKIPPED_PROTECTED`, section 4),
`ReportFaithful` (a run's report is what its row says) and `ImplementsJournal`
(`JournalSpec`): `RunJournal` is instantiated with the executor's own `journal`
and `row`; the initial state maps to its initial state, `BeginRun` to `OpenRun`,
the two journalling actions to `PlanAction`, `BeginValidation`, `Refuse`,
`Authorise` and `CloseAction` to `Advance`, `FinishRun` to `CloseRun`, and every
other step, kills and other people included, to a stutter.

**Limits_proofs** builds on `IInv`. `StopsAtTarget` (`NothingAfterTarget`):
`StopInv` says that what the loop believes to be free, when it decides whether to go
on, is what the action before measured, if that was measured. `WithinCaps`
(`CapsHold`): counting what is journalled is not inductive, since the plan may
still hold more; `CapInv` bounds what is written down and what the plan still holds
together. `CooldownIsRespected` (`CooldownRespected`): `CoolInv` carries, from the
revalidation to the recording of the clean, that the last clean the run knows of is
a cooldown ago; the clock only goes on.

**Revalidation_proofs.** `NothingSlipsThrough` (`LiveDoubtsRefuse`) and
`RefusalsTrue` (`RefusalsBorneOut`), from `GatesInv`: no gate that was passed asks
for a doubt that still stands (`Behind`); if the tree was dirty all the time, dirty
is all that git has come across (`InGit`); a process that stayed is still to be
looked at, or has been noticed (`InSnapshot`); and a refusal names something that
was seen (`BorneOut`), the records included, which are as old as the check.

**Ledger_proofs.** `TypeCorrect`; `LiveRowsAreUnique`, from uniqueness in the
table and in the draft of the open transaction; `HistoryIsKept`, an action
property, from the invariant that while a transaction is open its draft extends
the table it started from (`DraftInv`): a `protect` cannot slip between, since it
needs the write lock. `ProtectionIsKept` (`ProtectionPersists`) needs to know of
every scan under way what it may still do to the protected row, by what it has
observed and how far its transaction is (`ProtectionInv`). `AbsenceProven`
(`AbsenceIsProven`) holds for any limit on the report and for every way a directory
may be excluded: `AbsenceInv` says that each directory a scan could count on is
accounted for: still to be visited, observed, or below an exclusion that its report
holds - unless the report is full (`Full`), which is when the property claims
nothing. `QuietScansMirror`
(`QuietScanMirrorsDisk`) has the hypothesis `~CaseSensitive`, without which it is
false (section 4). `MirrorInv` needs no induction over the order in which a scan
applies what it saw: at any time what a quiet scan of all roots has found is in
place, each directory once (`Faithful`); each workspace in place is still to be
visited, found, or has a marked row that is present (`Complete`); and a marked row
stands for a workspace whose observation has been done with, no two for the same
(`Exactly`). That a later observation never makes a marked row history is
`MarkedIsSame`, and there the two spellings of a path count: in place is only one
of them (`Single`).

**Registration_proofs.** `TypeCorrect`; `OneAuthority`. The table is sound not
because of the check in `add_root_tx` alone, but because the transaction that
made the check still has the write lock, and still finds the table it checked,
when it commits, with the configuration written in between. That is `Approval`:
the rows inserted and not yet committed are compatible with the file's, and the
file's lock is held. `FileInv` says that an init past `OpenState` has a file; that
an unlinked file is not handed out while somebody has it open (`Unused`) keeps a
new first init from blanking it. `FailureIsUndone` (`FailureLeavesNoTrace`), of
failures before the commit: `AloneInv` follows an init that is alone through its steps and says what of the
configuration, the name and the table differs from what it found (`Trace`), so
that each compensation takes back just that. `SuccessIsReal`
(`SuccessIsCoordinated`) follows such an init forwards, also where it then fails to
enrol pnpm: `SuccessInv` says that what
is still to be validated and what has been kept together cover what was asked for,
and that what is written to the table and to the configuration is what was kept
(`Agreed`). Of the roots that turn out to be one directory the first is kept, and it
stands for the others (`KeptStandsForAll`: the least index with that directory).

**History_proofs.** `TypeCorrectAlways` and `TablesSoundAlways` (`Sound`), which
hold even if the clock is put back (`TypeCorrect`, `TablesSound`, for
`PutBackSpec`), come from `TablesInv`: the rows of a run in the table are numbered
1, 2, ... as the actions it has journalled (`Numbered`), numbers of rows are unique
and bounded, and no action is there without its run. That begin_run deletes the
oldest rows leaves all this alone, because it deletes whole runs. `RowsAreTrue`
(`RowsTellTheTruth`), `LiveRunsAreKept` (`LiveRunsKept`) and `HistoryShowsMoments`
(`ShownIsAMoment`) have the hypothesis `Few`: fewer runs begin while one is at work
than rows of runs are kept, which in the code means fewer than the 200 of
`MAX_DETAILED_RUNS`, on other volumes, during one run. It is not in the code, but
without it a run's row may be deleted under it even by a clock that goes on.
`KeptInv` then says how far a live run's row is from being deleted: no more runs
are newer than have begun since (`Placed`). So the row is there, and the number the
process has in memory is still that of its own row (`Held`), although the numbers
of deleted rows are given away again. With a clock that is put back this fails
(section 4). `ReaderInv` says of each run still to be read that what its actions
say now goes with its row at a moment of the reading.

**Adapters_proofs.** About `CommandRunner`: `NothingLost` (`OutputIsWhole`) and
`KeepsPromise` (`CommandSpec`), from `RunnerInv`: where `run()` is, what is known of
its child (`Control`), and for each stream that no more is taken than was written
(`Flow`), that the reader discards only after it has captured all it may (`Full`),
and that a reader which has ended found its pipe empty with nobody left to write
(`Quiet`).

About `Enrolment`: `GateIsSound` (`OnlyRecentPnpmPasses`), from `Vouched`: if the
path leads to the file of a record, the version in the record is what that file
said. It holds between the two questions, for the stored row and at the gate,
because a file that was replaced does not come back under its identity.

About `Scheduler`: `EnabledIsTrue` (`EnabledMeansScheduled`) and `DisabledIsTrue`
(`DisabledMeansGone`), on each platform and for any number of calls, binaries and
logins, from `ScheduleInv`. A report is a promise about files and a manager that
anybody may have left in any state, so the invariant says nothing of them until a
call has been through: for a call that nobody disturbed (no other call at any time,
no command whose caller was killed) it says what each step it has taken has achieved
(`Enabling`, `Disabling`), and that its command, while it waits for one, has or has
not done its work. `Settled` says what is left of that when it has reported, until
the next call begins; a login in between reads files that agree with what the
manager has.

About `VolumeLock`: `LockIsLive` (`LockHeldOnlyByLiveRun`) for any set of pressured
volumes; `SoleVolumeExclusion`: if all runs are on one volume, `MutualExclusion`
holds. Exclusion is not inductive: nothing in it says that the file a run locks
is still the one its volume's name stands for. `LockInv` adds that a handle open
on the pressured volume is the file of that name (`HandleIsTheName`), that who
holds the lock owns that file (`HolderOwns`), and that a sweep never probes it,
because the sweeper itself owns it (`ProbeIsElsewhere`). The last part is what
fails with runs on two volumes. `RefusalIsTrue` (`RefusedOnlyByAnotherRun`) draws
on the same invariant: whoever owns the file that refuses is another run.

About the four together: `AdaptersTypeCorrect`, and `AdaptersAreSound`, by which a
behaviour of `Adapters` is one of each of them. So what the run checks on
`AdaptersSpec` is what the theorems say of each.

Every safety property that a passing run checks is stated by one of these theorems.
Only model-checked is liveness (`EveryRunEnds` twice, `EveryCallAnswered`), which is
out of this prover's reach like everything with ENABLED.

Facts about recursive definitions for every input would need induction theorems
with operator parameters, which the installed provers cannot instantiate; the
models use no recursion.

## 6. What is not modelled

- Status (one measurement and one comparison), platform measurements (their
  answers are the levels of `Executor`), the command line, the npm wrapper and the
  release scripts: no state, or thin wrappers over system tools.
- The sizes of the planner's windows of 24 hours and 30 days (one fact, "recent",
  read once) and the order of the candidates (any order).
- What parsers make of text: `git status`, `pnpm --version`, the process table's
  arguments, the configuration and its thresholds; the wording of units and
  reports; dry runs.
- The size bound of the state file, its corruption checks and the migrations
  between its versions.
- Nested roots, symbolic links and the depth bound of discovery; roots do not nest
  in `Ledger`.

## 7. What remains

The planner's windows as times instead of facts, over a clock that may go
backwards, with the order of the candidates: whether a workspace can be kept
from its turn.
