------------------------------ MODULE VolumeLock ------------------------------
(***************************************************************************)
(* The per-volume lock of executor.rs (VolumeLock) together with the sweep *)
(* that removes old lock files (adapters/own_state.rs), at the grain of    *)
(* the system calls they make: open-or-create, try_lock, unlock, readdir,  *)
(* stat, unlink.  An advisory lock belongs to a file, not to its name, so  *)
(* the directory (link) and the files (owner) are kept apart.              *)
(*                                                                         *)
(* Definitions named X_Bug are mistakes somebody could make in X; no       *)
(* specification uses them, the runs are shown to notice them.             *)
(*                                                                         *)
(* A member of Runs is a process slot: it runs `check`, ends or is killed, *)
(* and may run `check` again.                                              *)
(***************************************************************************)
CONSTANTS
    Runs,       \* processes that may be executing `terminal_janitor check`
    Volumes,    \* volumes whose lock file may exist in the state directory
    Pressured,  \* the volumes `check` is actually asked to run on
    Files,      \* files (inodes) the lock directory can hold
    NoFile, NoRun

\* What is assumed of the constants; Adapters has TLC evaluate it.
LockAssumption ==
    /\ Pressured \subseteq Volumes
    /\ NoFile \notin Files
    /\ NoRun \notin Runs

VARIABLES
    link,     \* link[v]: the file that lock_file_path(v) names, or NoFile
    stale,    \* files last modified more than STALE_LOCK_AGE_MILLIS ago
    owner,    \* owner[f]: the run one of whose handles holds f's lock, or NoRun
    pc,       \* pc[r]: where run r is
    volume,   \* volume[r]: the volume r was asked to run on
    handle,   \* handle[r]: the lock file r has open, or NoFile
    entries,  \* entries[r]: directory entries the sweep of r has yet to visit
    cursor,   \* cursor[r]: the entry the sweep of r is looking at
    probe     \* probe[r]: the file can_take_exclusively of r has open, or NoFile

vars == <<link, stale, owner, pc, volume, handle, entries, cursor, probe>>
directory == <<link, stale>>
sweep == <<entries, cursor, probe>>

\* The run is inside execute() with VolumeLock::acquire behind it.
HoldingStates ==
    {"locked", "sweeping", "examined", "probing", "probed", "working"}

Holding(r) == pc[r] \in HoldingStates

States == HoldingStates \cup {"idle", "opening", "opened"}

Linked(f) == \E v \in Volumes : link[v] = f

Locked(f) == owner[f] # NoRun

\* The locks once r's handles are closed.
WithoutLocksOf_KeptByTheName(r) == owner
WithoutLocksOf(r) == [f \in Files |-> IF owner[f] = r THEN NoRun ELSE owner[f]]

\* can_take_exclusively: the name still opens, and nobody holds the lock.
CanTakeExclusively_AgeIsProof(f) == f # NoFile
CanTakeExclusively(f) == f # NoFile /\ ~Locked(f)

\* A file the file system may hand out: no name and no open handle.
Unused(f) == ~Linked(f) /\ \A r \in Runs : handle[r] # f /\ probe[r] # f

-----------------------------------------------------------------------------
\* Lock files left by earlier runs, of any age; nobody is running.
Init ==
    /\ link \in [Volumes -> Files \cup {NoFile}]
    /\ \A v, w \in Volumes : link[v] = link[w] => v = w \/ link[v] = NoFile
    /\ stale \in SUBSET {f \in Files : Linked(f)}
    /\ owner = [f \in Files |-> NoRun]
    /\ pc = [r \in Runs |-> "idle"]
    /\ volume \in [Runs -> Pressured]
    /\ handle = [r \in Runs |-> NoFile]
    /\ entries = [r \in Runs |-> {}]
    /\ cursor \in [Runs -> Volumes]
    /\ probe = [r \in Runs |-> NoFile]

\* A check finds its volume below minimum_free and goes for the lock.
Begin(r) ==
    /\ pc[r] = "idle"
    /\ \E v \in Pressured : volume' = [volume EXCEPT ![r] = v]
    /\ pc' = [pc EXCEPT ![r] = "opening"]
    /\ UNCHANGED <<directory, owner, handle, sweep>>

\* OpenOptions::create(true).truncate(false): the existing file keeps its
\* modification time, a new one is fresh.
OpenLockFile(r) ==
    /\ pc[r] = "opening"
    /\ pc' = [pc EXCEPT ![r] = "opened"]
    /\ \/ /\ link[volume[r]] # NoFile
          /\ handle' = [handle EXCEPT ![r] = link[volume[r]]]
          /\ UNCHANGED directory
       \/ /\ link[volume[r]] = NoFile
          /\ \E f \in Files :
                /\ Unused(f)
                /\ link' = [link EXCEPT ![volume[r]] = f]
                /\ stale' = stale \ {f}
                /\ handle' = [handle EXCEPT ![r] = f]
    /\ UNCHANGED <<owner, volume, sweep>>

\* try_lock succeeds on the file that was opened, whatever its name is now.
TakeLock(r) ==
    /\ pc[r] = "opened"
    /\ ~Locked(handle[r])
    /\ owner' = [owner EXCEPT ![handle[r]] = r]
    /\ pc' = [pc EXCEPT ![r] = "locked"]
    /\ UNCHANGED <<directory, volume, handle, sweep>>

\* try_lock reports WouldBlock: the run ends with ALREADY_RUNNING.
Refused(r) ==
    /\ pc[r] = "opened"
    /\ Locked(handle[r])
    /\ pc' = [pc EXCEPT ![r] = "idle"]
    /\ handle' = [handle EXCEPT ![r] = NoFile]
    /\ UNCHANGED <<directory, owner, volume, sweep>>

\* CleanTerminalJanitorState, first in every plan: read_dir of the lock files.
ReadDirectory(r) ==
    /\ pc[r] = "locked"
    /\ entries' = [entries EXCEPT ![r] = {v \in Volumes : link[v] # NoFile}]
    /\ pc' = [pc EXCEPT ![r] = "sweeping"]
    /\ UNCHANGED <<directory, owner, volume, handle, cursor, probe>>

Unvisited_Rescan(r, v) == {w \in Volumes : link[w] # NoFile}
Unvisited(r, v) == entries[r] \ {v}

\* symlink_metadata and older_than of the next entry, which may be gone.
Examine(r) ==
    /\ pc[r] = "sweeping"
    /\ \E v \in entries[r] :
        /\ entries' = [entries EXCEPT ![r] = Unvisited(r, v)]
        /\ cursor' = [cursor EXCEPT ![r] = v]
        /\ pc' = [pc EXCEPT ![r] = IF link[v] \in stale THEN "examined" ELSE @]
    /\ UNCHANGED <<directory, owner, volume, handle, probe>>

\* can_take_exclusively opens the name again and finds nobody holding it.
ProbeLock(r) ==
    LET f == link[cursor[r]] IN
    /\ pc[r] = "examined"
    /\ CanTakeExclusively(f)
    /\ owner' = [owner EXCEPT ![f] = r]
    /\ probe' = [probe EXCEPT ![r] = f]
    /\ pc' = [pc EXCEPT ![r] = "probing"]
    /\ UNCHANGED <<directory, volume, handle, entries, cursor>>

\* ... or cannot open it, or finds it locked: the entry is left in place.
ProbeFails(r) ==
    LET f == link[cursor[r]] IN
    /\ pc[r] = "examined"
    /\ ~CanTakeExclusively(f)
    /\ pc' = [pc EXCEPT ![r] = "sweeping"]
    /\ UNCHANGED <<directory, owner, volume, handle, sweep>>

ProbeUnlock_Leak(r) ==
    /\ pc[r] = "probing"
    /\ probe' = [probe EXCEPT ![r] = NoFile]
    /\ pc' = [pc EXCEPT ![r] = "probed"]
    /\ UNCHANGED <<directory, owner, volume, handle, entries, cursor>>

\* The probe lets go of the lock before remove_stale_locks unlinks the file.
ProbeUnlock(r) ==
    /\ pc[r] = "probing"
    /\ owner' = [owner EXCEPT ![probe[r]] = NoRun]
    /\ probe' = [probe EXCEPT ![r] = NoFile]
    /\ pc' = [pc EXCEPT ![r] = "probed"]
    /\ UNCHANGED <<directory, volume, handle, entries, cursor>>

\* remove_file(path): whatever file has the name now loses it, unless the call
\* fails, which only keeps the file out of the count.
RemoveLockFile(r) ==
    /\ pc[r] = "probed"
    /\ \/ link' = [link EXCEPT ![cursor[r]] = NoFile]
       \/ UNCHANGED link
    /\ pc' = [pc EXCEPT ![r] = "sweeping"]
    /\ UNCHANGED <<stale, owner, volume, handle, sweep>>

SweepDone(r) ==
    /\ pc[r] = "sweeping"
    /\ entries[r] = {}
    /\ pc' = [pc EXCEPT ![r] = "working"]
    /\ UNCHANGED <<directory, owner, volume, handle, sweep>>

\* VolumeLock::drop at the end of the run: unswept when the plan expired before
\* its first action, half swept when reading the directory failed.
Release(r) ==
    /\ pc[r] \in {"locked", "sweeping", "working"}
    /\ owner' = [owner EXCEPT ![handle[r]] = NoRun]
    /\ handle' = [handle EXCEPT ![r] = NoFile]
    /\ entries' = [entries EXCEPT ![r] = {}]
    /\ pc' = [pc EXCEPT ![r] = "idle"]
    /\ UNCHANGED <<directory, volume, cursor, probe>>

\* The process is killed: the operating system closes its handles, and the
\* locks taken through them go with them.  Names stay.
Crash(r) ==
    /\ pc[r] # "idle"
    /\ owner' = WithoutLocksOf(r)
    /\ handle' = [handle EXCEPT ![r] = NoFile]
    /\ probe' = [probe EXCEPT ![r] = NoFile]
    /\ entries' = [entries EXCEPT ![r] = {}]
    /\ pc' = [pc EXCEPT ![r] = "idle"]
    /\ UNCHANGED <<directory, volume, cursor>>

\* A day passes over a lock file.  Locking does not touch the modification
\* time, so this may happen to a file that is locked.
Age(f) ==
    /\ Linked(f)
    /\ stale' = stale \cup {f}
    /\ UNCHANGED <<link, owner, pc, volume, handle, sweep>>

RunStep(r) ==
    \/ OpenLockFile(r) \/ TakeLock(r) \/ Refused(r)
    \/ ReadDirectory(r) \/ Examine(r)
    \/ ProbeLock(r) \/ ProbeFails(r) \/ ProbeUnlock(r) \/ RemoveLockFile(r)
    \/ SweepDone(r) \/ Release(r)

Next ==
    \/ \E r \in Runs : Begin(r) \/ RunStep(r) \/ Crash(r)
    \/ \E f \in Files : Age(f)

Spec == Init /\ [][Next]_vars

\* A started process is scheduled until it ends.
Fairness == \A r \in Runs : WF_vars(RunStep(r))
FairSpec == Spec /\ Fairness

-----------------------------------------------------------------------------
TypeOK ==
    /\ link \in [Volumes -> Files \cup {NoFile}]
    /\ stale \subseteq Files
    /\ owner \in [Files -> Runs \cup {NoRun}]
    /\ pc \in [Runs -> States]
    /\ volume \in [Runs -> Pressured]
    /\ handle \in [Runs -> Files \cup {NoFile}]
    /\ entries \in [Runs -> SUBSET Volumes]
    /\ cursor \in [Runs -> Volumes]
    /\ probe \in [Runs -> Files \cup {NoFile}]

\* Only one run may operate on a volume at once: what VolumeLock::acquire is
\* for.  It needs the lock file of a volume with runs to keep its name.
MutualExclusion ==
    \A r, s \in Runs :
        Holding(r) /\ Holding(s) /\ volume[r] = volume[s] => r = s

\* A lock is held through a handle of a live process: by the run it was taken
\* for, or by a probe in flight.  So a run that ended or was killed leaves a
\* file that blocks nothing (the comment on VolumeLock).
LockHeldOnlyByLiveRun ==
    \A f \in Files, r \in Runs :
        owner[f] = r => \/ Holding(r) /\ handle[r] = f
                        \/ pc[r] = "probing" /\ probe[r] = f

\* ALREADY_RUNNING is the truth: when try_lock is refused, another run really
\* is between acquire and drop on that volume.
RefusedOnlyByAnotherRun ==
    [][\A r \in Runs :
          Refused(r) => \E s \in Runs \ {r} : Holding(s) /\ volume[s] = volume[r]]_vars

\* A run that got the lock gives it back: the sweep visits each entry once and
\* neither a foreign lock nor a vanished file keeps it from going on.
EveryRunEnds == \A r \in Runs : Holding(r) ~> pc[r] = "idle"
=============================================================================
