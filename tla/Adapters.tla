------------------------------ MODULE Adapters ------------------------------
(***************************************************************************)
(* The parts that reach for the operating system: the command runner, the  *)
(* enrolment of pnpm, the schedule, and the volume lock with the sweep of  *)
(* old lock files.  They share no state, so one specification holds them   *)
(* side by side: `part` is the one a behaviour is about, the others rest.  *)
(***************************************************************************)
EXTENDS CommandRunner

CONSTANTS
    Inits, Files, NoFile, Kind, Output, Unreadable, MinimumMajor,           \* of Enrolment
    Platforms, Binaries, NoBinary, Calls, MaxCalls, MaxLogins,              \* of Scheduler
    Runs, Volumes, Pressured, LockFiles, NoRun                              \* of VolumeLock

VARIABLES
    part,
    link, used, stored, init, passed,                                       \* of Enrolment
    platform, disk, manager, call, orphans, settled, calls, logins,         \* of Scheduler
    name, stale, owner, at, volume, handle, entries, cursor, probe          \* of VolumeLock

E == INSTANCE Enrolment

S == INSTANCE Scheduler

L == INSTANCE VolumeLock WITH Files <- LockFiles, link <- name, pc <- at

ASSUME AdaptersAssumption ==
    E!EnrolmentAssumption /\ S!SchedulerAssumption /\ L!LockAssumption

evars == <<link, used, stored, init, passed>>
svars == <<platform, disk, manager, call, orphans, settled, calls, logins>>
lvars == <<name, stale, owner, at, volume, handle, entries, cursor, probe>>
avars == <<part, rvars, evars, svars, lvars>>

\* One of the states in which nobody has asked for a lock yet.
LockAtRest ==
    /\ name = [v \in Volumes |-> NoFile]
    /\ volume = CHOOSE f \in [Runs -> Pressured] : TRUE
    /\ cursor = CHOOSE f \in [Runs -> Volumes] : TRUE

AdaptersInit ==
    /\ part \in {"runner", "enrolment", "schedule", "lock"}
    /\ Init /\ E!Init /\ S!Init /\ L!Init
    /\ part # "enrolment" => link = NoFile
    /\ part # "schedule" => platform = "linux"
    /\ part # "lock" => LockAtRest

AdaptersNext ==
    /\ UNCHANGED part
    /\ \/ part = "runner" /\ Next /\ UNCHANGED <<evars, svars, lvars>>
       \/ part = "enrolment" /\ E!Next /\ UNCHANGED <<rvars, svars, lvars>>
       \/ part = "schedule" /\ S!Next /\ UNCHANGED <<rvars, evars, lvars>>
       \/ part = "lock" /\ L!Next /\ UNCHANGED <<rvars, evars, svars>>

\* The fairness of the runner and of the lock; the others need none.
AdaptersSpec ==
    /\ AdaptersInit /\ [][AdaptersNext]_avars
    /\ part = "runner" => Fairness
    /\ L!Fairness

AdaptersTypeOK == TypeOK /\ E!TypeOK /\ S!TypeOK /\ L!TypeOK

-----------------------------------------------------------------------------
(* The properties of Enrolment, Scheduler and VolumeLock, under the names  *)
(* they have there.                                                        *)

\* What passes pnpm_gate said itself that it is a recent pnpm (see Enrolment).
OnlyRecentPnpmPasses == E!OnlyRecentPnpmPasses

\* SCHEDULE_ENABLED is the truth (see Scheduler).
EnabledMeansScheduled == S!EnabledMeansScheduled

\* SCHEDULE_DISABLED leaves nothing to start after a login (see Scheduler).
DisabledMeansGone == S!DisabledMeansGone

\* One run at a time operates on the volume that is under pressure (see VolumeLock).
MutualExclusion == L!MutualExclusion

\* A run that ended or was killed blocks nobody (see VolumeLock).
LockHeldOnlyByLiveRun == L!LockHeldOnlyByLiveRun

\* ALREADY_RUNNING is the truth (see VolumeLock).
RefusedOnlyByAnotherRun == L!RefusedOnlyByAnotherRun

\* A run that got the lock gives it back (see VolumeLock).
EveryRunEnds == L!EveryRunEnds
=============================================================================
