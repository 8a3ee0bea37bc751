----------------------------- MODULE Scheduler -----------------------------
(***************************************************************************)
(* `schedule enable` and `schedule disable` (scheduler.rs) and the service *)
(* manager they talk to: a systemd user timer, a LaunchAgent or a task of  *)
(* the Task Scheduler.  A call walks through its script of writes, removals*)
(* and commands.  Each may fail, a command that fails may still have done  *)
(* its work, and the call may be killed at every step.                     *)
(*                                                                         *)
(* Definitions named X_Bug are mistakes somebody could make in X.          *)
(***************************************************************************)
EXTENDS Naturals, Sequences

CONSTANTS
    Platforms,  \* those looked at
    Binaries,   \* installed binaries that call it
    NoBinary,
    Calls,      \* processes that may be at it at one time
    MaxCalls,   \* bound: invocations of schedule enable and disable
    MaxLogins   \* bound: logins

\* What is assumed of the constants; Adapters has TLC evaluate it.
SchedulerAssumption ==
    /\ Platforms \subseteq {"linux", "macos", "windows"}
    /\ NoBinary \notin Binaries
    /\ MaxCalls \in Nat /\ MaxLogins \in Nat

VARIABLES
    platform,
    disk,      \* disk[u]: the binary unit file u names, NoBinary if there is no
               \* such file, "torn" if writing it failed or was cut off
    manager,   \* what the service manager has, see ManagerState
    call,      \* call[c]: what the invocation in process c has, see Call
    orphans,   \* commands at work whose caller was killed
    settled,   \* the call that ended last, if no other overlapped it or began since
    calls,     \* invocations so far
    logins

svars == <<platform, disk, manager, call, orphans, settled, calls, logins>>

Units == {"service", "timer", "plist"}

Contents == Binaries \cup {NoBinary, "torn"}

ManagerState ==
    [loaded : Contents,   \* the binary its definition of the check names
     active : BOOLEAN,    \* it starts that check every hour
     wanted : BOOLEAN]    \* it may start it after the next login

\* One step of a script: op is write, remove or command; a failure of a tolerated
\* command is no failure.
Write(u) == [op |-> "write", on |-> u, tolerated |-> FALSE]
Remove(u) == [op |-> "remove", on |-> u, tolerated |-> FALSE]
Demand(cmd) == [op |-> "command", on |-> cmd, tolerated |-> FALSE]
Try(cmd) == [op |-> "command", on |-> cmd, tolerated |-> TRUE]

\* The files first, and the manager is not told to read them again.
Enable_NotReloaded(p) ==
    CASE p = "linux"   -> << Write("service"), Write("timer"), Demand("enable--now") >>
      [] p = "macos"   -> << Write("plist"), Demand("load-w") >>
      [] p = "windows" -> << Demand("/Create") >>

\* platform::enable
Enable(p) ==
    CASE p = "linux"   -> << Write("service"), Write("timer"),
                             Demand("daemon-reload"), Demand("enable--now") >>
      [] p = "macos"   -> << Write("plist"), Try("unload"), Demand("load-w") >>
      [] p = "windows" -> << Demand("/Create") >>

\* The timer's file stays.
Disable_ServiceOnly(p) ==
    CASE p = "linux"   -> << Try("disable--now"), Remove("service"), Try("daemon-reload") >>
      [] p = "macos"   -> << Try("unload-w") >>
      [] p = "windows" -> << Try("/Delete") >>

\* platform::disable
Disable(p) ==
    CASE p = "linux"   -> << Try("disable--now"), Remove("timer"), Remove("service"),
                             Try("daemon-reload") >>
      [] p = "macos"   -> << Try("unload-w"), Remove("plist") >>
      [] p = "windows" -> << Try("/Delete") >>

Script(c) == IF call[c].verb = "enable" THEN Enable(platform) ELSE Disable(platform)

Call ==
    [pc : {"idle", "working", "waiting"},
     verb : {"enable", "disable"},
     binary : Binaries \cup {NoBinary},   \* ScheduleContext::binary
     step : Nat,           \* the step of the script it is at
     acted : BOOLEAN,      \* the command it waits for has done its work
     alone : BOOLEAN]      \* no other call was there at any time

\* What the service managers are asked.
Commands ==
    {"daemon-reload", "enable--now", "disable--now", "load-w", "unload", "unload-w",
     "/Create", "/Delete"}

NoCall == [pc |-> "idle", verb |-> "enable", binary |-> NoBinary, step |-> 0,
           acted |-> FALSE, alone |-> FALSE]

Unsettled == [verb |-> "none", binary |-> NoBinary]

Busy(c) == call[c].pc # "idle"

Step(c) == Script(c)[call[c].step]

-----------------------------------------------------------------------------
(* The service managers, as far as scheduler.rs relies on them.            *)

\* Whether the command can do what it is asked (launchd has one agent of a name).
Able(cmd) ==
    CASE cmd = "enable--now" -> disk["timer"] \in Binaries
      [] cmd = "load-w"      -> disk["plist"] \in Binaries /\ ~manager.active
      [] OTHER                -> TRUE

\* A task that runs the binary every hour; /F replaces the one there was.
Task(binary) == [loaded |-> binary, active |-> TRUE, wanted |-> TRUE]

\* What it does.
Effect(cmd, binary) ==
    CASE cmd = "daemon-reload" -> [manager EXCEPT !.loaded = disk["service"]]
      [] cmd = "enable--now"  -> [manager EXCEPT !.active = TRUE, !.wanted = TRUE]
      [] cmd = "disable--now" -> [manager EXCEPT !.active = FALSE, !.wanted = FALSE]
      [] cmd = "load-w"   -> [loaded |-> disk["plist"], active |-> TRUE, wanted |-> TRUE]
      [] cmd = "unload"    -> [manager EXCEPT !.active = FALSE]
      [] cmd = "unload-w" -> [manager EXCEPT !.active = FALSE, !.wanted = FALSE]
      [] cmd = "/Create"   -> Task(binary)
      [] cmd = "/Delete"   -> [manager EXCEPT !.active = FALSE, !.wanted = FALSE]

\* A login: the manager starts from the files.
AfterLogin ==
    CASE platform = "linux" ->
            [manager EXCEPT !.loaded = disk["service"],
                            !.active = manager.wanted /\ disk["timer"] \in Binaries]
      [] platform = "macos" ->
            [manager EXCEPT !.loaded = disk["plist"],
                            !.active = manager.wanted /\ disk["plist"] \in Binaries]
      [] platform = "windows" -> manager

-----------------------------------------------------------------------------
Init ==
    /\ platform \in Platforms
    /\ disk = [u \in Units |-> NoBinary]
    /\ manager = [loaded |-> NoBinary, active |-> FALSE, wanted |-> platform = "macos"]
    /\ call = [c \in Calls |-> NoCall]
    /\ orphans = {}
    /\ settled = Unsettled
    /\ calls = 0
    /\ logins = 0

Ends(c) == call' = [call EXCEPT ![c] = NoCall]

\* The script goes on, or the call returns with SCHEDULE_ENABLED or _DISABLED.
Onward(c) ==
    IF call[c].step < Len(Script(c))
    THEN /\ call' = [call EXCEPT ![c].pc = "working", ![c].step = @ + 1, ![c].acted = FALSE]
         /\ UNCHANGED settled
    ELSE /\ Ends(c)
         /\ settled' = IF call[c].alone
                       THEN [verb |-> call[c].verb, binary |-> call[c].binary]
                       ELSE settled

\* It returns with an error.
Stops(c) == Ends(c) /\ UNCHANGED settled

Begin(c) ==
    /\ ~Busy(c)
    /\ calls < MaxCalls
    /\ calls' = calls + 1
    /\ \E verb \in {"enable", "disable"}, b \in Binaries \cup {NoBinary} :
         /\ verb = "enable" <=> b # NoBinary
         /\ LET alone == orphans = {} /\ \A o \in Calls : ~Busy(o)
                begun == [call EXCEPT ![c] = [pc |-> "working", verb |-> verb, binary |-> b,
                                              step |-> 1, acted |-> FALSE, alone |-> alone]]
            IN  call' = [o \in Calls |-> IF o # c /\ Busy(o)
                                         THEN [call[o] EXCEPT !.alone = FALSE] ELSE begun[o]]
    /\ settled' = Unsettled
    /\ UNCHANGED <<platform, disk, manager, orphans, logins>>

\* write_file: fs::write truncates, then writes.
WriteFile(c) ==
    /\ call[c].pc = "working"
    /\ Step(c).op = "write"
    /\ \/ disk' = [disk EXCEPT ![Step(c).on] = call[c].binary] /\ Onward(c)
       \/ disk' \in {disk, [disk EXCEPT ![Step(c).on] = "torn"]} /\ Stops(c)
    /\ UNCHANGED <<platform, manager, orphans, calls, logins>>

\* remove_file: a file that is not there is not an error.
RemoveFile(c) ==
    /\ call[c].pc = "working"
    /\ Step(c).op = "remove"
    /\ \/ disk' = [disk EXCEPT ![Step(c).on] = NoBinary] /\ Onward(c)
       \/ disk[Step(c).on] # NoBinary /\ Stops(c) /\ UNCHANGED disk
    /\ UNCHANGED <<platform, manager, orphans, calls, logins>>

StartCommand(c) ==
    /\ call[c].pc = "working"
    /\ Step(c).op = "command"
    /\ call' = [call EXCEPT ![c].pc = "waiting"]
    /\ UNCHANGED <<platform, disk, manager, orphans, settled, calls, logins>>

\* The manager does what the command asks.
CommandActs(c) ==
    /\ call[c].pc = "waiting" /\ ~call[c].acted
    /\ Able(Step(c).on)
    /\ manager' = Effect(Step(c).on, call[c].binary)
    /\ call' = [call EXCEPT ![c].acted = TRUE]
    /\ UNCHANGED <<platform, disk, orphans, settled, calls, logins>>

\* run: ok if the exit code is 0, which says the work is done; a failure or a
\* time-out says nothing of the kind.  A command that timed out has been killed
\* and has done its work by now or never does: that the manager might still act
\* on it later is left out.
Heard(c, ok) ==
    /\ call[c].pc = "waiting"
    /\ ok => call[c].acted
    /\ IF ok \/ Step(c).tolerated THEN Onward(c) ELSE Stops(c)
    /\ UNCHANGED <<platform, disk, manager, orphans, calls, logins>>

\* The call is killed: within a write the file is torn, and a command lives on.
Crash(c) ==
    /\ Busy(c)
    /\ Ends(c)
    /\ \/ call[c].pc = "working" /\ Step(c).op = "write"
          /\ disk' \in {disk, [disk EXCEPT ![Step(c).on] = "torn"]}
          /\ UNCHANGED orphans
       \/ call[c].pc = "working" /\ Step(c).op # "write" /\ UNCHANGED <<disk, orphans>>
       \/ call[c].pc = "waiting" /\ UNCHANGED disk
          /\ orphans' = IF call[c].acted THEN orphans
                        ELSE orphans \cup {<<Step(c).on, call[c].binary>>}
    /\ UNCHANGED <<platform, manager, settled, calls, logins>>

\* A command whose caller is gone does its work, or does not.
OrphanEnds ==
    /\ \E o \in orphans :
         /\ orphans' = orphans \ {o}
         /\ \/ Able(o[1]) /\ manager' = Effect(o[1], o[2])
            \/ UNCHANGED manager
    /\ UNCHANGED <<platform, disk, call, settled, calls, logins>>

Login ==
    /\ logins < MaxLogins
    /\ logins' = logins + 1
    /\ manager' = AfterLogin
    /\ UNCHANGED <<platform, disk, call, orphans, settled, calls>>

CallStep(c) ==
    \/ Begin(c) \/ WriteFile(c) \/ RemoveFile(c) \/ StartCommand(c)
    \/ \E ok \in BOOLEAN : Heard(c, ok)
    \/ Crash(c)

Next == (\E c \in Calls : CallStep(c) \/ CommandActs(c)) \/ OrphanEnds \/ Login

Spec == Init /\ [][Next]_svars

-----------------------------------------------------------------------------
TypeOK ==
    /\ platform \in Platforms
    /\ disk \in [Units -> Contents]
    /\ manager \in ManagerState
    /\ call \in [Calls -> Call]
    /\ orphans \subseteq Commands \X (Binaries \cup {NoBinary})
    /\ settled \in [verb : {"none", "enable", "disable"}, binary : Binaries \cup {NoBinary}]
    /\ calls \in 0..MaxCalls
    /\ logins \in 0..MaxLogins

\* SCHEDULE_ENABLED is the truth: the manager starts a check with the binary that
\* was reported, and will do so after the next login, whatever enables and
\* disables that failed or were killed half way had left behind.
EnabledMeansScheduled ==
    settled.verb = "enable" =>
        /\ manager.active /\ manager.loaded = settled.binary
        /\ AfterLogin.active /\ AfterLogin.loaded = settled.binary

\* SCHEDULE_DISABLED, which needs no command to succeed: with systemd and launchd
\* nothing is started after the next login, since the files are gone.
DisabledMeansGone ==
    settled.verb = "disable" /\ platform # "windows" => ~AfterLogin.active
=============================================================================
