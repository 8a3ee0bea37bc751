------------------------------ MODULE Command ------------------------------
(***************************************************************************)
(* What a caller of CommandRunner::run (adapters/mod.rs) may rely on: one  *)
(* command at a time, one answer for each, and what the answer says of the *)
(* process that was started.  How output is read and when the process is   *)
(* looked at does not show here; CommandRunner implements this module.     *)
(***************************************************************************)

VARIABLES
    child,    \* the process: none, running, succeeded, failed, killed
    late,     \* the time it was given is over
    answer    \* what run() returned, "none" while it has not

cvars == <<child, late, answer>>

Outcomes == {"ok", "ok_truncated", "nonzero", "nonzero_truncated"}

Answers == Outcomes \cup {"spawn_failed", "io_failed", "not_unicode", "timed_out"}

\* CommandOutcome::succeeded
Succeeded(a) == a \in {"ok", "ok_truncated"}

\* The answers the fate of the process bears out.  Too late a success is still a
\* time-out, and a process that could not be looked at may still be running.
BorneOut(a) ==
    \/ child = "none"      /\ a = "spawn_failed"
    \/ child = "succeeded" /\ a \in {"ok", "ok_truncated", "not_unicode", "io_failed"}
    \/ child = "failed"    /\ a \in {"nonzero", "nonzero_truncated", "not_unicode", "io_failed"}
    \/ child = "running"   /\ a = "io_failed"
    \/ child \in {"succeeded", "failed", "killed"} /\ late /\ a = "timed_out"

Init == child = "none" /\ late = FALSE /\ answer = "none"

Start == child = "none" /\ answer = "none" /\ child' = "running" /\ UNCHANGED <<late, answer>>

End ==
    /\ child = "running"
    /\ \/ child' \in {"succeeded", "failed"}
       \/ late /\ child' = "killed"
    /\ UNCHANGED <<late, answer>>

RunLate == child # "none" /\ answer = "none" /\ late' = TRUE /\ UNCHANGED <<child, answer>>

Reply ==
    /\ answer = "none"
    /\ \E a \in Answers : BorneOut(a) /\ answer' = a
    /\ UNCHANGED <<child, late>>

\* The caller goes on with the answer; the next command starts afresh.
Take ==
    /\ answer # "none"
    /\ child' = "none" /\ late' = FALSE /\ answer' = "none"

Next == Start \/ End \/ RunLate \/ Reply \/ Take

Spec == Init /\ [][Next]_cvars
=============================================================================
