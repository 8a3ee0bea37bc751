--------------------------- MODULE CommandRunner ---------------------------
(***************************************************************************)
(* SystemCommandRunner::run (adapters/mod.rs): one command at a time, with *)
(* the child, a descendant that may inherit its output, one pipe and one   *)
(* reader thread for each stream, and the loop that polls the child until  *)
(* it has exited or its time is over.  Output is counted in units that a   *)
(* pipe and the capture limit hold a few of.                               *)
(*                                                                         *)
(* Definitions named X_Bug are mistakes somebody could make in X.          *)
(***************************************************************************)
EXTENDS Naturals

CONSTANTS
    MaxCapture,    \* MAX_CAPTURED_OUTPUT_BYTES, in units of output
    PipeSize,      \* what the system buffers in a pipe
    MaxOutput      \* bound: what is written to one stream

ASSUME RunnerAssumption ==
    MaxCapture \in Nat \ {0} /\ PipeSize \in Nat \ {0} /\ MaxOutput \in Nat

VARIABLES
    pc,          \* where run() is
    child,       \* the process: none, running, succeeded, failed, killed
    late,        \* the deadline has passed
    answer,      \* what run() returned
    descendant,  \* a process the child started, holding both pipes open
    written,     \* written[s]: units written to the stream
    captured,    \* captured[s], discarded[s]: units the reader took, of either kind
    discarded,
    reader       \* reader[s]: capturing, draining, ended or failed

runner == <<pc, answer>>
processes == <<child, descendant, late>>
output == <<written, captured, discarded, reader>>
rvars == <<runner, processes, output>>

Streams == {"stdout", "stderr"}
PcStates == {"idle", "polling", "deciding", "stopping", "joining", "done"}
ChildStates == {"none", "running", "succeeded", "failed", "killed"}
ReaderStates == {"capturing", "draining", "ended", "failed"}
Outcomes == {"ok", "ok_truncated", "nonzero", "nonzero_truncated"}
Answers == Outcomes \cup {"spawn_failed", "io_failed", "not_unicode", "timed_out"}

InPipe(s) == written[s] - captured[s] - discarded[s]

\* The write end of a pipe is closed when nobody holds it.
Held == child = "running" \/ descendant = "running"

Ended(s) == reader[s] \in {"ended", "failed"}

Init ==
    /\ pc = "idle" /\ answer = "none"
    /\ child = "none" /\ descendant = "none" /\ late = FALSE
    /\ written = [s \in Streams |-> 0]
    /\ captured = [s \in Streams |-> 0]
    /\ discarded = [s \in Streams |-> 0]
    /\ reader = [s \in Streams |-> "capturing"]

-----------------------------------------------------------------------------
(* run() itself.                                                           *)

Reply(a) == pc' = "done" /\ answer' = a

\* command.spawn(), the two reader threads and the deadline.
Spawn ==
    /\ pc = "idle"
    /\ child' = "running"
    /\ pc' = "polling"
    /\ UNCHANGED <<answer, descendant, late, output>>

SpawnFails ==
    /\ pc = "idle"
    /\ Reply("spawn_failed")
    /\ UNCHANGED <<processes, output>>

\* try_wait() found an exit status.
PollExited ==
    /\ pc = "polling"
    /\ child \in {"succeeded", "failed"}
    /\ pc' = "joining"
    /\ UNCHANGED <<answer, processes, output>>

\* try_wait() found none; the status may change before the time is looked at.
PollRunning ==
    /\ pc = "polling"
    /\ child = "running"
    /\ pc' = "deciding"
    /\ UNCHANGED <<answer, processes, output>>

\* try_wait() fails: `?` leaves the child as it is.
PollFails ==
    /\ pc = "polling"
    /\ Reply("io_failed")
    /\ UNCHANGED <<processes, output>>

\* recv_timeout(): a stream that ends, or 25 milliseconds.
Wait ==
    /\ pc = "deciding"
    /\ ~late
    /\ pc' = "polling"
    /\ UNCHANGED <<answer, processes, output>>

\* The time is over and nothing is stopped.
Kill_Never ==
    /\ pc = "deciding"
    /\ late
    /\ pc' = "stopping"
    /\ UNCHANGED <<answer, processes, output>>

\* The poll interval is taken for the deadline.
Kill_AtOnce ==
    /\ pc = "deciding"
    /\ child' = IF child = "running" THEN "killed" ELSE child
    /\ pc' = "stopping"
    /\ UNCHANGED <<answer, descendant, late, output>>

\* child.kill() and child.wait(); a child that has just exited is only reaped.
Kill ==
    /\ pc = "deciding"
    /\ late
    /\ child' = IF child = "running" THEN "killed" ELSE child
    /\ pc' = "stopping"
    /\ UNCHANGED <<answer, descendant, late, output>>

\* join() of both readers, whatever they returned.
TimedOut ==
    /\ pc = "stopping"
    /\ \A s \in Streams : Ended(s)
    /\ Reply("timed_out")
    /\ UNCHANGED <<processes, output>>

Truncated == \E s \in Streams : discarded[s] > 0

\* join() of both readers: each must have ended, and what they captured be UTF-8.
Finish ==
    /\ pc = "joining"
    /\ \A s \in Streams : reader[s] = "ended"
    /\ \/ Reply("not_unicode")
       \/ child = "succeeded" /\ Reply(IF Truncated THEN "ok_truncated" ELSE "ok")
       \/ child = "failed" /\ Reply(IF Truncated THEN "nonzero_truncated" ELSE "nonzero")
    /\ UNCHANGED <<processes, output>>

\* stdout is joined first; a reader that failed ends the run, and if it is that of
\* stdout the other one is left behind.
FinishFails ==
    /\ pc = "joining"
    /\ \/ reader["stdout"] = "failed"
       \/ reader["stdout"] = "ended" /\ reader["stderr"] = "failed"
    /\ Reply("io_failed")
    /\ UNCHANGED <<processes, output>>

\* The caller goes on, and the next call has its own child, pipes and threads.
Take ==
    /\ pc = "done"
    /\ pc' = "idle" /\ answer' = "none"
    /\ child' = "none" /\ descendant' = "none" /\ late' = FALSE
    /\ written' = [s \in Streams |-> 0]
    /\ captured' = [s \in Streams |-> 0]
    /\ discarded' = [s \in Streams |-> 0]
    /\ reader' = [s \in Streams |-> "capturing"]

-----------------------------------------------------------------------------
(* bounded_capture, one thread for each stream.                            *)

\* The reader takes all there is.
Capture_Unlimited(s) ==
    /\ child # "none" /\ reader[s] = "capturing"
    /\ InPipe(s) > 0
    /\ captured' = [captured EXCEPT ![s] = @ + 1]
    /\ UNCHANGED <<runner, processes, written, discarded, reader>>

\* read_to_end of what take() lets through.
Capture(s) ==
    /\ child # "none" /\ reader[s] = "capturing"
    /\ InPipe(s) > 0 /\ captured[s] < MaxCapture
    /\ captured' = [captured EXCEPT ![s] = @ + 1]
    /\ UNCHANGED <<runner, processes, written, discarded, reader>>

\* What lies beyond the limit is not looked for.
CaptureEnds_AtTheLimit(s) ==
    /\ child # "none" /\ reader[s] = "capturing"
    /\ \/ captured[s] = MaxCapture
       \/ InPipe(s) = 0 /\ ~Held
    /\ reader' = [reader EXCEPT ![s] = "ended"]
    /\ UNCHANGED <<runner, processes, written, captured, discarded>>

\* read_to_end returns at the limit, where draining starts, or at the end.
CaptureEnds(s) ==
    /\ child # "none" /\ reader[s] = "capturing"
    /\ \/ captured[s] = MaxCapture /\ reader' = [reader EXCEPT ![s] = "draining"]
       \/ /\ captured[s] < MaxCapture /\ InPipe(s) = 0 /\ ~Held
          /\ reader' = [reader EXCEPT ![s] = "ended"]
    /\ UNCHANGED <<runner, processes, written, captured, discarded>>

\* io::copy into the sink.
Discard(s) ==
    /\ reader[s] = "draining"
    /\ InPipe(s) > 0
    /\ discarded' = [discarded EXCEPT ![s] = @ + 1]
    /\ UNCHANGED <<runner, processes, written, captured, reader>>

DiscardEnds(s) ==
    /\ reader[s] = "draining"
    /\ InPipe(s) = 0 /\ ~Held
    /\ reader' = [reader EXCEPT ![s] = "ended"]
    /\ UNCHANGED <<runner, processes, written, captured, discarded>>

ReaderFails(s) ==
    /\ child # "none"
    /\ reader[s] \in {"capturing", "draining"}
    /\ reader' = [reader EXCEPT ![s] = "failed"]
    /\ UNCHANGED <<runner, processes, written, captured, discarded>>

-----------------------------------------------------------------------------
(* The command and the time.                                               *)

\* Child or descendant writes; a full pipe blocks the writer.
Write(s) ==
    /\ Held /\ answer = "none"
    /\ InPipe(s) < PipeSize /\ ~Ended(s)
    /\ written[s] < MaxOutput
    /\ written' = [written EXCEPT ![s] = @ + 1]
    /\ UNCHANGED <<runner, processes, captured, discarded, reader>>

\* The child starts a process that inherits its output.
Fork ==
    /\ child = "running" /\ descendant = "none" /\ answer = "none"
    /\ descendant' = "running"
    /\ UNCHANGED <<runner, child, late, output>>

DescendantEnds ==
    /\ descendant = "running"
    /\ descendant' = "gone"
    /\ UNCHANGED <<runner, child, late, output>>

Exit ==
    /\ child = "running" /\ answer = "none"
    /\ child' \in {"succeeded", "failed"}
    /\ UNCHANGED <<runner, descendant, late, output>>

DeadlinePasses ==
    /\ pc \in {"polling", "deciding"}
    /\ ~late
    /\ late' = TRUE
    /\ UNCHANGED <<runner, child, descendant, output>>

ReaderStep(s) == Capture(s) \/ CaptureEnds(s) \/ Discard(s) \/ DiscardEnds(s)

\* run() between the call and its answer, with the failures it does not choose.
RunStep == PollExited \/ PollRunning \/ Wait \/ Kill \/ TimedOut \/ Finish \/ FinishFails

Threads == RunStep \/ PollFails \/ \E s \in Streams : ReaderStep(s) \/ ReaderFails(s)

\* What the command does and the clock.
Outside == Fork \/ DescendantEnds \/ Exit \/ DeadlinePasses \/ \E s \in Streams : Write(s)

Next == Spawn \/ SpawnFails \/ Take \/ Threads \/ Outside

Spec == Init /\ [][Next]_rvars

\* The three threads are scheduled and time passes.  The child owes nothing: it
\* may run for ever or wait at a full pipe.
Fairness ==
    /\ WF_rvars(RunStep)
    /\ \A s \in Streams : WF_rvars(ReaderStep(s))
    /\ WF_rvars(DeadlinePasses)

FairSpec == Spec /\ Fairness

-----------------------------------------------------------------------------
TypeOK ==
    /\ pc \in PcStates
    /\ child \in ChildStates
    /\ late \in BOOLEAN
    /\ answer \in {"none"} \cup Answers
    /\ descendant \in {"none", "running", "gone"}
    /\ written \in [Streams -> Nat]
    /\ captured \in [Streams -> 0..MaxCapture]
    /\ discarded \in [Streams -> Nat]
    /\ reader \in [Streams -> ReaderStates]

\* An answer that is not marked as truncated carries all that was written, by the
\* child or by anybody who inherited its output, and a mark is never there for
\* output that fits: the reader that stopped at the limit looks for more.
OutputIsWhole ==
    /\ answer \in {"ok", "nonzero"} =>
          descendant # "running" /\ \A s \in Streams : captured[s] = written[s]
    /\ answer \in {"ok_truncated", "nonzero_truncated"} =>
          \E s \in Streams : captured[s] = MaxCapture /\ written[s] > MaxCapture

\* What is promised to callers.
Promise == INSTANCE Command WITH child <- child, late <- late, answer <- answer
CommandSpec == Promise!Spec

\* Every call is answered, whatever the child does: a child that hangs is killed,
\* one that writes more than anybody keeps is read to its end.  The exception is
\* a descendant that keeps the pipes open: it holds run() beyond every time-out.
EveryCallAnswered ==
    (<>[](descendant # "running")) => (pc = "polling" ~> answer # "none")
=============================================================================
