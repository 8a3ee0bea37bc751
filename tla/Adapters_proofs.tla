-------------------------- MODULE Adapters_proofs --------------------------
(***************************************************************************)
(* Proofs about the adapters: about CommandRunner for every capture limit, *)
(* pipe and amount of output, about Enrolment for any number of inits and  *)
(* any files, about Scheduler for any number of calls and binaries, about  *)
(* VolumeLock for any number of processes, volumes and lock files, and at  *)
(* the end about the four side by side (Adapters).                         *)
(*                                                                         *)
(* The runner: a reader that ended has seen its pipe empty with nobody     *)
(* left to write (Quiet), it discards only after it has captured all it    *)
(* may (Full), and an answer with output is only given when both readers   *)
(* have ended (Answered), so nothing it is based on can move any more.     *)
(***************************************************************************)
EXTENDS Adapters, Sequences, TLAPS

\* Nothing has been started, or the caller has gone on.
Fresh ==
    /\ descendant = "none" /\ late = FALSE
    /\ \A s \in Streams :
          written[s] = 0 /\ captured[s] = 0 /\ discarded[s] = 0 /\ reader[s] = "capturing"

\* Where run() is, and what is known of the child there.
Control ==
    /\ answer # "none" <=> pc = "done"
    /\ pc = "idle" => child = "none"
    /\ child = "none" => pc \in {"idle", "done"} /\ Fresh
    /\ pc \in {"polling", "deciding"} => child \in {"running", "succeeded", "failed"}
    /\ pc = "joining" => child \in {"succeeded", "failed"}
    /\ pc = "stopping" => late /\ child \in {"succeeded", "failed", "killed"}

Flow(s) == captured[s] + discarded[s] <= written[s]

Full(s) == discarded[s] > 0 \/ reader[s] = "draining" => captured[s] = MaxCapture

Quiet(s) == reader[s] = "ended" => captured[s] + discarded[s] = written[s] /\ ~Held

Whole == {"ok", "nonzero"}
Cut == {"ok_truncated", "nonzero_truncated"}

Answered ==
    /\ answer \in Whole \cup Cut => \A s \in Streams : reader[s] = "ended"
    /\ answer \in Whole => \A s \in Streams : discarded[s] = 0
    /\ answer \in Cut => \E s \in Streams : discarded[s] > 0

RunnerInv ==
    /\ TypeOK
    /\ Control
    /\ \A s \in Streams : Flow(s) /\ Full(s) /\ Quiet(s)
    /\ Answered

-----------------------------------------------------------------------------
LEMMA NothingCaptured == 0 \in 0..MaxCapture
BY RunnerAssumption

LEMMA InitHolds == Init => RunnerInv
<1> SUFFICES ASSUME Init
             PROVE  RunnerInv
  OBVIOUS
<1>1. TypeOK
  BY NothingCaptured DEF Init, TypeOK, PcStates, ChildStates, ReaderStates
<1>2. Control /\ Answered
  BY DEF Init, Control, Fresh, Answered, Whole, Cut
<1>3. \A s \in Streams : Flow(s) /\ Full(s) /\ Quiet(s)
  BY DEF Init, Flow, Full, Quiet
<1> QED
  BY <1>1, <1>2, <1>3 DEF RunnerInv

\* A step of run() alone: the streams and who may write them stay as they are.
LEMMA RunMoves ==
    ASSUME RunnerInv, UNCHANGED <<descendant, output>>, child # "none",
           pc' \in PcStates, answer' \in {"none"} \cup Answers,
           child' = child \/ (child = "running" /\ child' = "killed"),
           late' = late, Control', Answered'
    PROVE  RunnerInv'
<1>1. TypeOK'
  BY DEF RunnerInv, TypeOK, output, ChildStates
<1>2. Held' => Held
  BY DEF Held
<1>3. \A s \in Streams : Flow(s)' /\ Full(s)' /\ Quiet(s)'
  BY <1>2 DEF RunnerInv, output, Flow, Full, Quiet
<1> QED
  BY <1>1, <1>3 DEF RunnerInv

LEMMA SpawnHolds ==
    ASSUME RunnerInv, Spawn
    PROVE  RunnerInv'
<1>1. pc = "idle" /\ child = "none" /\ Fresh /\ answer = "none"
  BY DEF RunnerInv, Control, Spawn, TypeOK, PcStates
<1>2. /\ child' = "running" /\ pc' = "polling"
      /\ UNCHANGED <<answer, descendant, late, written, captured, discarded, reader>>
  BY DEF Spawn, output
<1>3. TypeOK'
  BY <1>2 DEF RunnerInv, TypeOK, PcStates, ChildStates
<1>4. Control'
  BY <1>1, <1>2 DEF Control
<1>5. \A s \in Streams : Flow(s)' /\ Full(s)' /\ Quiet(s)'
  BY <1>1, <1>2 DEF Fresh, Flow, Full, Quiet
<1>6. Answered'
  BY <1>1, <1>2 DEF Answered, Whole, Cut
<1> QED
  BY <1>3, <1>4, <1>5, <1>6 DEF RunnerInv

LEMMA SpawnFailsHolds ==
    ASSUME RunnerInv, SpawnFails
    PROVE  RunnerInv'
<1>1. pc = "idle" /\ child = "none" /\ Fresh /\ answer = "none"
  BY DEF RunnerInv, Control, SpawnFails, TypeOK, PcStates
<1>2. /\ answer' = "spawn_failed" /\ pc' = "done"
      /\ UNCHANGED <<child, descendant, late, written, captured, discarded, reader>>
  BY DEF SpawnFails, Reply, processes, output
<1>3. TypeOK'
  BY <1>2 DEF RunnerInv, TypeOK, PcStates, Answers
<1>4. Control'
  BY <1>1, <1>2 DEF Control, Fresh
<1>5. \A s \in Streams : Flow(s)' /\ Full(s)' /\ Quiet(s)'
  BY <1>2 DEF RunnerInv, Flow, Full, Quiet, Held
<1>6. Answered'
  BY <1>2 DEF Answered, Whole, Cut
<1> QED
  BY <1>3, <1>4, <1>5, <1>6 DEF RunnerInv

LEMMA PollHolds ==
    ASSUME RunnerInv, PollExited \/ PollRunning \/ Wait
    PROVE  RunnerInv'
<1>1. /\ UNCHANGED <<answer, child, descendant, late, output>> /\ child # "none"
      /\ pc' \in {"joining", "deciding", "polling"} /\ pc \in {"polling", "deciding"}
      /\ pc' = "joining" => child \in {"succeeded", "failed"}
  BY DEF RunnerInv, Control, PollExited, PollRunning, Wait, processes
<1>2. Control' /\ Answered'
  BY <1>1 DEF RunnerInv, Control, Answered, Fresh, output
<1> QED
  BY <1>1, <1>2, RunMoves DEF RunnerInv, TypeOK, PcStates

LEMMA KillHolds ==
    ASSUME RunnerInv, Kill
    PROVE  RunnerInv'
<1>1. /\ UNCHANGED <<answer, descendant, late, output>> /\ child # "none"
      /\ pc = "deciding" /\ pc' = "stopping" /\ late
      /\ child' = child \/ (child = "running" /\ child' = "killed")
      /\ child' \in {"succeeded", "failed", "killed"}
  BY DEF RunnerInv, Control, Kill
<1>2. Control' /\ Answered'
  BY <1>1 DEF RunnerInv, Control, Answered, Fresh, output
<1> QED
  BY <1>1, <1>2, RunMoves DEF RunnerInv, TypeOK, PcStates

\* An answer that says nothing of the output.
LEMMA FailureHolds ==
    ASSUME RunnerInv, PollFails \/ TimedOut \/ FinishFails
    PROVE  RunnerInv'
<1>1. /\ UNCHANGED <<child, descendant, late, output>> /\ child # "none"
      /\ pc' = "done" /\ answer' \in {"io_failed", "timed_out"}
  BY DEF RunnerInv, Control, PollFails, TimedOut, FinishFails, Reply, processes
<1>2. Control' /\ Answered'
  BY <1>1 DEF RunnerInv, Control, Answered, Whole, Cut
<1> QED
  BY <1>1, <1>2, RunMoves DEF PcStates, Answers

LEMMA FinishHolds ==
    ASSUME RunnerInv, Finish
    PROVE  RunnerInv'
<1>1. /\ UNCHANGED <<child, descendant, late, written, captured, discarded, reader>>
      /\ child # "none" /\ pc' = "done"
      /\ \A s \in Streams : reader[s] = "ended"
      /\ answer' \in {"not_unicode"} \cup Whole \cup Cut
      /\ answer' \in Whole => ~Truncated
      /\ answer' \in Cut => Truncated
  BY DEF RunnerInv, Control, Finish, Reply, processes, output, Whole, Cut
<1>2. Control'
  BY <1>1 DEF Control, Whole, Cut
<1>3. Answered'
  BY <1>1 DEF RunnerInv, TypeOK, Answered, Truncated, Whole, Cut
<1> QED
  BY <1>1, <1>2, <1>3, RunMoves DEF PcStates, Answers, Outcomes, Whole, Cut, output

LEMMA TakeHolds ==
    ASSUME RunnerInv, Take
    PROVE  RunnerInv'
<1>1. TypeOK'
  BY NothingCaptured DEF Take, TypeOK, PcStates, ChildStates, ReaderStates
<1>2. Control' /\ Answered'
  BY DEF Take, Control, Fresh, Answered, Whole, Cut
<1>3. \A s \in Streams : Flow(s)' /\ Full(s)' /\ Quiet(s)'
  BY DEF Take, Flow, Full, Quiet
<1> QED
  BY <1>1, <1>2, <1>3 DEF RunnerInv
-----------------------------------------------------------------------------
\* A reader at work moves its own stream: it has not ended, so no answer speaks of
\* what was read.
LEMMA ReaderMoves ==
    ASSUME RunnerInv, NEW s \in Streams, UNCHANGED <<runner, processes, written>>,
           child # "none", reader[s] # "ended", TypeOK',
           \A o \in Streams \ {s} :
              captured'[o] = captured[o] /\ discarded'[o] = discarded[o] /\ reader'[o] = reader[o],
           Flow(s)', Full(s)', Quiet(s)'
    PROVE  RunnerInv'
<1>1. Held' = Held
  BY DEF Held, processes
<1>2. \A o \in Streams : Flow(o)' /\ Full(o)' /\ Quiet(o)'
  BY <1>1 DEF RunnerInv, Flow, Full, Quiet
<1>3. Control'
  BY DEF RunnerInv, Control, runner, processes
<1>4. answer' \notin Whole \cup Cut
  BY DEF RunnerInv, Answered, runner
<1> QED
  BY <1>2, <1>3, <1>4 DEF RunnerInv, Answered

LEMMA CaptureHolds ==
    ASSUME RunnerInv, NEW s \in Streams, Capture(s)
    PROVE  RunnerInv'
<1>1. /\ written \in [Streams -> Nat] /\ captured \in [Streams -> 0..MaxCapture]
      /\ discarded \in [Streams -> Nat] /\ MaxCapture \in Nat
  BY RunnerAssumption DEF RunnerInv, TypeOK
<1>2. /\ captured' = [captured EXCEPT ![s] = captured[s] + 1]
      /\ captured[s] < MaxCapture /\ captured[s] + discarded[s] < written[s]
      /\ child # "none" /\ reader[s] = "capturing"
      /\ UNCHANGED <<runner, processes, written, discarded, reader>>
  BY <1>1 DEF Capture, InPipe
<1>3. captured' \in [Streams -> 0..MaxCapture]
  BY <1>1, <1>2
<1>4. TypeOK'
  BY <1>2, <1>3 DEF RunnerInv, TypeOK, runner, processes
<1>5. captured'[s] = captured[s] + 1 /\ discarded'[s] = discarded[s] /\ written'[s] = written[s]
  BY <1>1, <1>2
<1>6. Flow(s)' /\ Quiet(s)'
  BY <1>1, <1>2, <1>5 DEF Flow, Quiet
<1>7. Full(s)'
  <2>1. discarded[s] = 0
    BY <1>1, <1>2 DEF RunnerInv, Full
  <2> QED
    BY <1>2, <1>5, <2>1 DEF Full
<1> QED
  BY <1>1, <1>2, <1>4, <1>6, <1>7, ReaderMoves

LEMMA DiscardHolds ==
    ASSUME RunnerInv, NEW s \in Streams, Discard(s)
    PROVE  RunnerInv'
<1>1. /\ written \in [Streams -> Nat] /\ captured \in [Streams -> 0..MaxCapture]
      /\ discarded \in [Streams -> Nat] /\ MaxCapture \in Nat
  BY RunnerAssumption DEF RunnerInv, TypeOK
<1>2. /\ discarded' = [discarded EXCEPT ![s] = discarded[s] + 1]
      /\ captured[s] + discarded[s] < written[s]
      /\ reader[s] = "draining"
      /\ UNCHANGED <<runner, processes, written, captured, reader>>
  BY <1>1 DEF Discard, InPipe
<1>3. child # "none"
  BY <1>2 DEF RunnerInv, Control, Fresh
<1>4. TypeOK'
  BY <1>1, <1>2 DEF RunnerInv, TypeOK, runner, processes
<1>5. discarded'[s] = discarded[s] + 1 /\ captured'[s] = captured[s] /\ written'[s] = written[s]
  BY <1>1, <1>2
<1>6. Flow(s)' /\ Quiet(s)'
  BY <1>1, <1>2, <1>5 DEF Flow, Quiet
<1>7. Full(s)'
  BY <1>2, <1>5 DEF RunnerInv, Full
<1> QED
  BY <1>1, <1>2, <1>3, <1>4, <1>6, <1>7, ReaderMoves

\* A reader goes on to drain, ends or fails.
LEMMA ReaderTurns ==
    ASSUME RunnerInv, NEW s \in Streams,
           CaptureEnds(s) \/ DiscardEnds(s) \/ ReaderFails(s)
    PROVE  RunnerInv'
<1>1. /\ written \in [Streams -> Nat] /\ captured \in [Streams -> 0..MaxCapture]
      /\ discarded \in [Streams -> Nat] /\ reader \in [Streams -> ReaderStates]
  BY DEF RunnerInv, TypeOK
<1>2. /\ UNCHANGED <<runner, processes, written, captured, discarded>>
      /\ reader[s] \in {"capturing", "draining"}
      /\ \E to \in {"draining", "ended", "failed"} :
            /\ reader' = [reader EXCEPT ![s] = to]
            /\ to = "draining" => captured[s] = MaxCapture
            /\ to = "ended" => InPipe(s) = 0 /\ ~Held
  BY DEF CaptureEnds, DiscardEnds, ReaderFails
<1>3. PICK to \in {"draining", "ended", "failed"} :
            /\ reader' = [reader EXCEPT ![s] = to]
            /\ to = "draining" => captured[s] = MaxCapture
            /\ to = "ended" => InPipe(s) = 0 /\ ~Held
  BY <1>2
<1>4. child # "none"
  BY DEF RunnerInv, Control, Fresh, CaptureEnds, DiscardEnds, ReaderFails
<1>5. reader' \in [Streams -> ReaderStates] /\ reader'[s] = to
  BY <1>1, <1>3 DEF ReaderStates
<1>6. TypeOK'
  BY <1>2, <1>5 DEF RunnerInv, TypeOK, runner, processes
<1>7. Held' = Held
  BY <1>2 DEF Held, processes
<1>8. Flow(s)' /\ Full(s)'
  BY <1>2, <1>3, <1>5 DEF RunnerInv, Flow, Full
<1>9. Quiet(s)'
  BY <1>1, <1>2, <1>3, <1>5, <1>7 DEF Quiet, InPipe
<1> QED
  BY <1>1, <1>2, <1>3, <1>4, <1>6, <1>8, <1>9, ReaderMoves
-----------------------------------------------------------------------------
LEMMA WriteHolds ==
    ASSUME RunnerInv, NEW s \in Streams, Write(s)
    PROVE  RunnerInv'
<1>1. /\ written \in [Streams -> Nat] /\ captured \in [Streams -> 0..MaxCapture]
      /\ discarded \in [Streams -> Nat]
  BY DEF RunnerInv, TypeOK
<1>2. /\ written' = [written EXCEPT ![s] = written[s] + 1] /\ Held /\ answer = "none"
      /\ UNCHANGED <<runner, processes, captured, discarded, reader>>
  BY <1>1 DEF Write
<1>3. \A o \in Streams : written'[o] \in Nat /\ written'[o] >= written[o] /\ reader[o] # "ended"
  BY <1>1, <1>2 DEF RunnerInv, Quiet
<1>4. TypeOK'
  BY <1>1, <1>2 DEF RunnerInv, TypeOK, runner, processes
<1>5. Control'
  <2>1. child # "none"
    BY <1>2 DEF RunnerInv, Control, Fresh, Held
  <2> QED
    BY <1>2, <2>1 DEF RunnerInv, Control, runner, processes
<1>6. \A o \in Streams : Flow(o)' /\ Full(o)' /\ Quiet(o)'
  BY <1>1, <1>2, <1>3 DEF RunnerInv, Flow, Full, Quiet
<1>7. Answered'
  BY <1>2 DEF Answered, runner, Whole, Cut
<1> QED
  BY <1>4, <1>5, <1>6, <1>7 DEF RunnerInv

\* The command and the clock: nobody becomes a writer who was not one through another.
LEMMA OutsideHolds ==
    ASSUME RunnerInv, Fork \/ DescendantEnds \/ Exit \/ DeadlinePasses
    PROVE  RunnerInv'
<1>1. UNCHANGED <<pc, answer, written, captured, discarded, reader>>
  BY DEF Fork, DescendantEnds, Exit, DeadlinePasses, runner, output
<1>2. Held' => Held
  BY DEF Fork, DescendantEnds, Exit, DeadlinePasses, Held
<1>3. TypeOK'
  BY <1>1 DEF RunnerInv, TypeOK, Fork, DescendantEnds, Exit, DeadlinePasses, ChildStates
<1>4. Control'
  BY <1>1 DEF RunnerInv, Control, Fresh, Fork, DescendantEnds, Exit, DeadlinePasses
<1>5. \A s \in Streams : Flow(s)' /\ Full(s)' /\ Quiet(s)'
  BY <1>1, <1>2 DEF RunnerInv, Flow, Full, Quiet
<1>6. Answered'
  BY <1>1 DEF RunnerInv, Answered
<1> QED
  BY <1>3, <1>4, <1>5, <1>6 DEF RunnerInv

LEMMA StutterHolds ==
    ASSUME RunnerInv, UNCHANGED rvars
    PROVE  RunnerInv'
BY DEF rvars, runner, processes, output, RunnerInv, TypeOK, Control, Fresh, Flow, Full,
   Quiet,
       Held, Answered

LEMMA NextHolds == RunnerInv /\ [Next]_rvars => RunnerInv'
<1> SUFFICES ASSUME RunnerInv, [Next]_rvars
             PROVE  RunnerInv'
  OBVIOUS
<1>1. CASE Threads
  BY <1>1, PollHolds, KillHolds, FailureHolds, FinishHolds, CaptureHolds, DiscardHolds,
     ReaderTurns DEF Threads, RunStep, ReaderStep
<1>2. CASE Outside
  BY <1>2, WriteHolds, OutsideHolds DEF Outside
<1> QED
  BY <1>1, <1>2, SpawnHolds, SpawnFailsHolds, TakeHolds, StutterHolds DEF Next

LEMMA RunnerInvariant == Spec => []RunnerInv
BY InitHolds, NextHolds, PTL DEF Spec
-----------------------------------------------------------------------------
\* The shape of the state holds in every reachable state.
THEOREM RunnerTypeCorrect == Spec => []TypeOK
<1>1. RunnerInv => TypeOK
  BY DEF RunnerInv
<1> QED
  BY <1>1, RunnerInvariant, PTL

\* Whatever the limit, the size of the pipe and the amount of output: output that is
\* not marked carries all that was written to it, and output that is marked did not fit.
THEOREM NothingLost == Spec => []OutputIsWhole
<1>1. ASSUME RunnerInv
      PROVE  OutputIsWhole
  <2>1. \A s \in Streams : /\ captured[s] \in Nat /\ discarded[s] \in Nat /\ written[s] \in Nat
                           /\ Flow(s) /\ Full(s) /\ Quiet(s)
    BY <1>1 DEF RunnerInv, TypeOK
  <2>2. ASSUME answer \in Whole
        PROVE  descendant # "running" /\ \A s \in Streams : captured[s] = written[s]
    <3>1. \A s \in Streams : reader[s] = "ended" /\ discarded[s] = 0
      BY <1>1, <2>2 DEF RunnerInv, Answered
    <3>2. \A s \in Streams : captured[s] = written[s]
      BY <2>1, <3>1 DEF Quiet
    <3>3. ~Held
      BY <2>1, <3>1 DEF Quiet, Streams
    <3> QED
      BY <3>2, <3>3 DEF Held
  <2>3. ASSUME answer \in Cut
        PROVE  \E s \in Streams : captured[s] = MaxCapture /\ written[s] > MaxCapture
    <3>1. PICK s \in Streams : discarded[s] > 0
      BY <1>1, <2>3 DEF RunnerInv, Answered
    <3>2. captured[s] = MaxCapture /\ written[s] > MaxCapture
      BY <2>1, <3>1 DEF Full, Flow
    <3> QED
      BY <3>2
  <2> QED
    BY <2>2, <2>3 DEF OutputIsWhole, Whole, Cut
<1>2. RunnerInv => OutputIsWhole
  BY <1>1
<1> QED
  BY <1>2, RunnerInvariant, PTL
-----------------------------------------------------------------------------
(* The refinement.                                                         *)

\* What run() does is what a caller of Command may see.
LEMMA RunIsPromised ==
    ASSUME RunnerInv,
           \/ Spawn \/ SpawnFails \/ Kill \/ TimedOut \/ Finish \/ FinishFails \/ PollFails
           \/ Take \/ Exit \/ DeadlinePasses
    PROVE  [Promise!Next]_(Promise!cvars)
<1> USE DEF Promise!Next, Promise!cvars
<1>1. CASE Spawn
  BY <1>1 DEF Spawn, RunnerInv, Control, TypeOK, PcStates, Promise!Start
<1>2. CASE SpawnFails \/ PollFails \/ TimedOut \/ Finish \/ FinishFails
  <2>1. answer = "none" /\ answer' \in Promise!Answers /\ UNCHANGED <<child, late>>
    BY <1>2 DEF SpawnFails, PollFails, TimedOut, Finish, FinishFails, Reply, processes,
                RunnerInv, Control, TypeOK, PcStates, Promise!Answers, Promise!Outcomes
  <2>2. Promise!BorneOut(answer')
    BY <1>2 DEF SpawnFails, PollFails, TimedOut, Finish, FinishFails, Reply,
                RunnerInv, Control, Promise!BorneOut
  <2> QED
    BY <2>1, <2>2 DEF Promise!Reply
<1>3. CASE Kill
  BY <1>3 DEF Kill, Promise!End
<1>4. CASE Take
  BY <1>4 DEF Take, RunnerInv, Control, Promise!Take
<1>5. CASE Exit
  BY <1>5 DEF Exit, runner, Promise!End
<1>6. CASE DeadlinePasses
  BY <1>6 DEF DeadlinePasses, runner, RunnerInv, Control, Promise!RunLate
<1> QED
  BY <1>1, <1>2, <1>3, <1>4, <1>5, <1>6

LEMMA StepIsPromised == RunnerInv /\ [Next]_rvars => [Promise!Next]_(Promise!cvars)
<1> SUFFICES ASSUME RunnerInv, [Next]_rvars
             PROVE  [Promise!Next]_(Promise!cvars)
  OBVIOUS
<1>1. ASSUME NEW s \in Streams, ReaderStep(s) \/ ReaderFails(s) \/ Write(s)
      PROVE  UNCHANGED <<child, late, answer>>
  BY <1>1 DEF ReaderStep, Capture, CaptureEnds, Discard, DiscardEnds, ReaderFails, Write,
              runner, processes
<1>2. ASSUME PollExited \/ PollRunning \/ Wait \/ Fork \/ DescendantEnds \/ UNCHANGED rvars
      PROVE  UNCHANGED <<child, late, answer>>
  BY <1>2 DEF PollExited, PollRunning, Wait, Fork, DescendantEnds, runner, processes, rvars
<1> QED
  BY <1>1, <1>2, RunIsPromised DEF Next, Threads, RunStep, Outside, Promise!cvars

\* Every behaviour of the runner is one its callers were promised: one answer for
\* each call, borne out by what became of the process; in particular a time-out is
\* only answered late and never leaves the child running.
THEOREM KeepsPromise == Spec => CommandSpec
<1>1. Init => Promise!Init
  BY DEF Init, Promise!Init
<1> QED
  BY <1>1, StepIsPromised, RunnerInvariant, PTL DEF Spec, CommandSpec, Promise!Spec

-----------------------------------------------------------------------------
(* Enrolment.  The version of pnpm is read from a path, not from the file  *)
(* whose identity was taken, and the enrolment is used long after.  What   *)
(* makes this sound is that a file that was replaced does not come back    *)
(* under its identity: as long as the path leads to the enrolled file, it  *)
(* led there when the version was asked (Vouched).                         *)

\* A record of identity and version that may be held against the path.
Vouched(record) ==
    /\ record.identity \in used /\ Kind[record.identity] = "regular"
    /\ link = record.identity => record.version = Output[record.identity]

Resolved(i) ==
    init[i].pc = "resolved" =>
        init[i].identity \in used /\ Kind[init[i].identity] = "regular"

Asked(i) == init[i].pc \in {"asking", "answered"} => Vouched(init[i])

EnrolmentInv ==
    /\ E!TypeOK
    /\ link # NoFile => link \in used
    /\ \A i \in Inits : Resolved(i) /\ Asked(i)
    /\ stored = E!NotEnrolled \/ Vouched(stored)
    /\ E!OnlyRecentPnpmPasses

Memory == [pc : E!InitStates, identity : Files \cup {NoFile}, version : Nat \cup {Unreadable}]

\* The step of an init leaves the files and what others hold alone.
LEMMA StepOfOne ==
    ASSUME E!EnrolmentAssumption, EnrolmentInv, NEW i \in Inits, NEW me \in Memory,
           init' = [init EXCEPT ![i] = me],
           UNCHANGED <<link, used, stored, passed>>,
           me.pc = "resolved" => me.identity \in used /\ Kind[me.identity] = "regular",
           me.pc \in {"asking", "answered"} => Vouched(me)
    PROVE  EnrolmentInv'
<1>1. E!TypeOK'
  BY DEF EnrolmentInv, E!TypeOK, Memory
<1>2. \A j \in Inits : Resolved(j)' /\ Asked(j)'
  <2> SUFFICES ASSUME NEW j \in Inits
               PROVE  Resolved(j)' /\ Asked(j)'
    OBVIOUS
  <2>1. CASE j = i
    <3>1. init'[j] = me
      BY <2>1 DEF EnrolmentInv, E!TypeOK
    <3> QED
      BY <3>1 DEF Resolved, Asked, Vouched
  <2>2. CASE j # i
    <3>1. init'[j] = init[j]
      BY <2>2 DEF EnrolmentInv, E!TypeOK
    <3> QED
      BY <3>1 DEF EnrolmentInv, Resolved, Asked, Vouched
  <2> QED
    BY <2>1, <2>2
<1>3. (link # NoFile => link \in used)' /\ E!OnlyRecentPnpmPasses'
  BY DEF EnrolmentInv, E!OnlyRecentPnpmPasses, E!Parsed, E!MeetsMinimum
<1>4. (stored = E!NotEnrolled \/ Vouched(stored))'
  BY DEF EnrolmentInv, E!NotEnrolled, Vouched
<1> QED
  BY <1>1, <1>2, <1>3, <1>4 DEF EnrolmentInv

LEMMA EnrolmentInitHolds ==
    ASSUME E!EnrolmentAssumption, E!Init
    PROVE  EnrolmentInv
<1> USE DEF E!EnrolmentAssumption
<1>1. E!TypeOK
  BY DEF E!Init, E!TypeOK, E!NotEnrolled, E!Enrolments, E!NoInit, E!InitStates
<1>2. \A i \in Inits : Resolved(i) /\ Asked(i)
  BY DEF E!Init, Resolved, Asked, E!NoInit
<1> QED
  BY <1>1, <1>2 DEF E!Init, EnrolmentInv, E!OnlyRecentPnpmPasses

LEMMA ResolveHolds ==
    ASSUME E!EnrolmentAssumption, EnrolmentInv, NEW i \in Inits, E!Resolve(i)
    PROVE  EnrolmentInv'
<1> USE DEF E!EnrolmentAssumption
<1>1. init[i] \in Memory /\ link \in Files \cup {NoFile} /\ (link # NoFile => link \in used)
  BY DEF EnrolmentInv, E!TypeOK, Memory
<1>2. CASE E!Located /\ E!Acceptable(link)
  <2> DEFINE me == [init[i] EXCEPT !.pc = "resolved", !.identity = link]
  <2>1. me \in Memory /\ me.pc = "resolved" /\ me.identity = link
    BY <1>1 DEF Memory, E!InitStates
  <2>2. init' = [init EXCEPT ![i] = me] /\ UNCHANGED <<link, used, stored, passed>>
    BY <1>2 DEF E!Resolve
  <2>3. link \in used /\ Kind[link] = "regular"
    BY <1>1, <1>2 DEF E!Located, E!Acceptable
  <2> HIDE DEF me
  <2> QED
    BY <2>1, <2>2, <2>3, StepOfOne
<1>3. CASE ~(E!Located /\ E!Acceptable(link))
  <2> DEFINE me == [init[i] EXCEPT !.pc = "refused"]
  <2>1. me \in Memory /\ me.pc = "refused"
    BY <1>1 DEF Memory, E!InitStates
  <2>2. init' = [init EXCEPT ![i] = me] /\ UNCHANGED <<link, used, stored, passed>>
    BY <1>3 DEF E!Resolve
  <2> HIDE DEF me
  <2> QED
    BY <2>1, <2>2, StepOfOne
<1> QED
  BY <1>2, <1>3

\* The version is that of the identified file if the path still leads to it.
LEMMA AskHolds ==
    ASSUME E!EnrolmentAssumption, EnrolmentInv, NEW i \in Inits, E!Ask(i)
    PROVE  EnrolmentInv'
<1> USE DEF E!EnrolmentAssumption
<1> DEFINE said == IF link = NoFile THEN Unreadable ELSE Output[link]
           me == [init[i] EXCEPT !.pc = "asking", !.version = said]
<1>1. init[i] \in Memory /\ link \in Files \cup {NoFile} /\ used \subseteq Files
  BY DEF EnrolmentInv, E!TypeOK, Memory
<1>2. said \in Nat \cup {Unreadable}
  BY <1>1
<1>3. me \in Memory /\ me.pc = "asking" /\ me.version = said /\ me.identity = init[i].identity
  BY <1>1, <1>2 DEF Memory, E!InitStates
<1>4. init' = [init EXCEPT ![i] = me] /\ UNCHANGED <<link, used, stored, passed>>
  BY DEF E!Ask
<1>5. init[i].identity \in used /\ Kind[init[i].identity] = "regular"
  BY DEF EnrolmentInv, Resolved, E!Ask
<1>6. Vouched(me)
  BY <1>1, <1>3, <1>5 DEF Vouched
<1> HIDE DEF me, said
<1> QED
  BY <1>3, <1>4, <1>6, StepOfOne

LEMMA AnsweredHolds ==
    ASSUME E!EnrolmentAssumption, EnrolmentInv, NEW i \in Inits, NEW a, E!Answered(i, a)
    PROVE  EnrolmentInv'
<1> USE DEF E!EnrolmentAssumption
<1>1. init[i] \in Memory /\ Vouched(init[i])
  BY DEF EnrolmentInv, E!TypeOK, Memory, E!Answered, Asked
<1>2. ASSUME NEW state \in {"answered", "refused"}, E!Goes(i, state)
      PROVE  EnrolmentInv'
  <2> DEFINE me == [init[i] EXCEPT !.pc = state]
  <2>1. /\ me \in Memory /\ me.pc = state
        /\ me.identity = init[i].identity /\ me.version = init[i].version
    BY <1>1 DEF Memory, E!InitStates
  <2>2. init' = [init EXCEPT ![i] = me] /\ UNCHANGED <<link, used, stored, passed>>
    BY <1>2 DEF E!Goes, E!Answered
  <2>3. Vouched(me)
    BY <1>1, <2>1 DEF Vouched
  <2> HIDE DEF me
  <2> QED
    BY <2>1, <2>2, <2>3, StepOfOne
<1>3. E!Goes(i, "answered") \/ E!Goes(i, "refused")
  BY DEF E!Answered
<1> QED
  BY <1>2, <1>3

\* What init holds of the file becomes what the ledger holds of it.
LEMMA StoreHolds ==
    ASSUME E!EnrolmentAssumption, EnrolmentInv, NEW i \in Inits, E!Store(i)
    PROVE  EnrolmentInv'
<1> USE DEF E!EnrolmentAssumption
<1> DEFINE me == [init[i] EXCEPT !.pc = "enrolled"]
<1>1. init[i] \in Memory /\ Vouched(init[i])
  BY DEF EnrolmentInv, E!TypeOK, Memory, E!Store, Asked
<1>2. me \in Memory /\ me.pc = "enrolled"
  BY <1>1 DEF Memory, E!InitStates
<1>3. init' = [init EXCEPT ![i] = me] /\ UNCHANGED <<link, used, passed>>
  BY DEF E!Store, E!Goes
<1>4. stored' \in E!Enrolments /\ Vouched(stored)'
  BY <1>1 DEF E!Store, Vouched, E!Enrolments, Memory
<1> HIDE DEF me
<1>5. E!TypeOK'
  BY <1>2, <1>3, <1>4 DEF EnrolmentInv, E!TypeOK, Memory
<1>6. \A j \in Inits : Resolved(j)' /\ Asked(j)'
  <2> SUFFICES ASSUME NEW j \in Inits
               PROVE  Resolved(j)' /\ Asked(j)'
    OBVIOUS
  <2>1. init'[j] = IF j = i THEN me ELSE init[j]
    BY <1>3 DEF EnrolmentInv, E!TypeOK
  <2> QED
    BY <1>2, <1>3, <2>1 DEF EnrolmentInv, Resolved, Asked, Vouched
<1>7. (link # NoFile => link \in used)' /\ E!OnlyRecentPnpmPasses'
  BY <1>3 DEF EnrolmentInv, E!OnlyRecentPnpmPasses, E!Parsed, E!MeetsMinimum
<1> QED
  BY <1>4, <1>5, <1>6, <1>7 DEF EnrolmentInv

LEMMA EndHolds ==
    ASSUME E!EnrolmentAssumption, EnrolmentInv, NEW i \in Inits, E!Report(i) \/ E!Crash(i)
    PROVE  EnrolmentInv'
<1> USE DEF E!EnrolmentAssumption
<1> DEFINE me == [E!NoInit EXCEPT !.pc = "exited"]
<1>1. me \in Memory /\ me.pc = "exited"
  BY DEF Memory, E!NoInit, E!InitStates
<1>2. init' = [init EXCEPT ![i] = me] /\ UNCHANGED <<link, used, stored, passed>>
  BY DEF E!Report, E!Crash
<1> HIDE DEF me
<1> QED
  BY <1>1, <1>2, StepOfOne

\* The gate compares with what is stored, which speaks of the file at the path.
LEMMA GateHolds ==
    ASSUME E!EnrolmentAssumption, EnrolmentInv, E!PassGate
    PROVE  EnrolmentInv'
<1> USE DEF E!EnrolmentAssumption
<1>1. link \in Files /\ link = stored.identity /\ E!Parsed(stored.version)
      /\ E!MeetsMinimum(stored.version)
  BY DEF EnrolmentInv, E!TypeOK, E!PassGate, E!PnpmGate
<1>2. stored # E!NotEnrolled
  BY <1>1 DEF E!NotEnrolled
<1>3. Kind[link] = "regular" /\ stored.version = Output[link]
  BY <1>1, <1>2 DEF EnrolmentInv, Vouched
<1>4. E!OnlyRecentPnpmPasses'
  BY <1>1, <1>3 DEF E!OnlyRecentPnpmPasses, E!PassGate, E!Parsed, E!MeetsMinimum
<1>5. E!TypeOK'
  BY <1>1 DEF EnrolmentInv, E!TypeOK, E!PassGate
<1>6. (link # NoFile => link \in used)' /\ (stored = E!NotEnrolled \/ Vouched(stored))'
  BY DEF EnrolmentInv, E!PassGate, E!NotEnrolled, Vouched
<1>7. \A i \in Inits : Resolved(i)' /\ Asked(i)'
  BY DEF EnrolmentInv, E!PassGate, Resolved, Asked, Vouched
<1> QED
  BY <1>4, <1>5, <1>6, <1>7 DEF EnrolmentInv

\* No file anybody holds a record of comes to the path.
LEMMA FileChangesHold ==
    ASSUME E!EnrolmentAssumption, EnrolmentInv, E!Replace \/ E!Remove
    PROVE  EnrolmentInv'
<1> USE DEF E!EnrolmentAssumption
<1>1. E!TypeOK' /\ (link # NoFile => link \in used)'
  BY DEF EnrolmentInv, E!TypeOK, E!Replace, E!Remove
<1>2. used \subseteq used' /\ link' \notin used /\ UNCHANGED <<stored, init, passed>>
  BY DEF EnrolmentInv, E!TypeOK, E!Replace, E!Remove
<1>3. \A i \in Inits : Resolved(i)' /\ Asked(i)'
  BY <1>2 DEF EnrolmentInv, Resolved, Asked, Vouched
<1>4. (stored = E!NotEnrolled \/ Vouched(stored))'
  BY <1>2 DEF EnrolmentInv, E!NotEnrolled, Vouched
<1>5. E!OnlyRecentPnpmPasses'
  BY <1>2 DEF EnrolmentInv, E!OnlyRecentPnpmPasses, E!Parsed, E!MeetsMinimum
<1> QED
  BY <1>1, <1>3, <1>4, <1>5 DEF EnrolmentInv

LEMMA EnrolmentStutterHolds ==
    ASSUME E!EnrolmentAssumption, EnrolmentInv, UNCHANGED E!evars
    PROVE  EnrolmentInv'
BY DEF EnrolmentInv, E!evars, E!TypeOK, Resolved, Asked, Vouched, E!NotEnrolled,
       E!OnlyRecentPnpmPasses, E!Parsed, E!MeetsMinimum

LEMMA EnrolmentNextHolds ==
    ASSUME E!EnrolmentAssumption, EnrolmentInv, [E!Next]_(E!evars)
    PROVE  EnrolmentInv'
<1>1. ASSUME NEW i \in Inits, E!Step(i)
      PROVE  EnrolmentInv'
  BY <1>1, ResolveHolds, AskHolds, AnsweredHolds, StoreHolds, EndHolds DEF E!Step
<1> QED
  BY <1>1, GateHolds, FileChangesHold, EnrolmentStutterHolds DEF E!Next

LEMMA EnrolmentInvariant ==
    ASSUME E!EnrolmentAssumption
    PROVE  E!Spec => []EnrolmentInv
<1>1. E!Init => EnrolmentInv
  BY EnrolmentInitHolds
<1>2. EnrolmentInv /\ [E!Next]_(E!evars) => EnrolmentInv'
  BY EnrolmentNextHolds
<1> QED
  BY <1>1, <1>2, PTL DEF E!Spec

-----------------------------------------------------------------------------
(* Scheduler.  What a call reports rests on what it found and did itself,  *)
(* which holds only for a call that nobody disturbed: no other call was    *)
(* there at any time and no command of a killed one is still at work.  For *)
(* such a call every step leaves what the next one needs (Enabling,        *)
(* Disabling), from whatever earlier calls had left; a login in between    *)
(* makes the manager read files that agree with what it has.               *)


\* Where a call is in its script, and what a call of that verb has in hand.
AtStep(c) ==
    /\ call[c].step \in 1..Len(S!Script(c))
    /\ call[c].verb = "enable" => call[c].binary \in Binaries
    /\ call[c].pc = "waiting" => S!Step(c).op = "command"
    /\ call[c].acted => call[c].pc = "waiting"

\* The manager has what an enabled schedule needs.
Starts(b) == manager.loaded = b /\ manager.active /\ manager.wanted

\* What a call that nobody disturbed has achieved when it is at step k.
Enabling(b, k, acted) ==
    /\ platform = "linux" =>
          /\ k >= 2 => disk["service"] = b
          /\ k >= 3 => disk["timer"] = b
          /\ k = 4 \/ (k = 3 /\ acted) => manager.loaded = b
          /\ k = 4 /\ acted => manager.active /\ manager.wanted
    /\ platform = "macos" =>
          /\ k >= 2 => disk["plist"] = b
          /\ k = 3 /\ acted => Starts(b)
    /\ platform = "windows" => (acted => Starts(b))

Disabling(k) == platform = "linux" /\ k >= 3 => disk["timer"] = NoBinary

Undisturbed(c) ==
    /\ orphans = {}
    /\ \A o \in Calls : o # c => ~S!Busy(o)
    /\ call[c].verb = "enable" => Enabling(call[c].binary, call[c].step, call[c].acted)
    /\ call[c].verb = "disable" => Disabling(call[c].step)

Enabled(b) ==
    /\ b \in Binaries /\ Starts(b)
    /\ platform = "linux" => disk["service"] = b /\ disk["timer"] = b
    /\ platform = "macos" => disk["plist"] = b

Disabled ==
    /\ platform = "linux" => disk["timer"] = NoBinary
    /\ platform = "macos" => disk["plist"] = NoBinary

Settled ==
    settled.verb # "none" =>
        /\ orphans = {} /\ \A c \in Calls : ~S!Busy(c)
        /\ settled.verb = "enable" => Enabled(settled.binary)
        /\ settled.verb = "disable" => Disabled

ScheduleInv ==
    /\ S!TypeOK
    /\ \A c \in Calls : S!Busy(c) => AtStep(c)
    /\ \A c \in Calls : S!Busy(c) /\ call[c].alone => Undisturbed(c)
    /\ Settled

-----------------------------------------------------------------------------
(* The scripts.                                                            *)

\* A call is at step k of a script of so many steps, and that is s.
At(c, p, verb, steps, k, s) ==
    /\ platform = p /\ call[c].verb = verb
    /\ Len(S!Script(c)) = steps /\ call[c].step = k /\ S!Step(c) = s

\* All the places there are.
LEMMA Places ==
    ASSUME S!SchedulerAssumption, S!TypeOK, NEW c \in Calls,
           call[c].step \in 1..Len(S!Script(c))
    PROVE  \/ At(c, "linux", "enable", 4, 1, S!Write("service"))
           \/ At(c, "linux", "enable", 4, 2, S!Write("timer"))
           \/ At(c, "linux", "enable", 4, 3, S!Demand("daemon-reload"))
           \/ At(c, "linux", "enable", 4, 4, S!Demand("enable--now"))
           \/ At(c, "macos", "enable", 3, 1, S!Write("plist"))
           \/ At(c, "macos", "enable", 3, 2, S!Try("unload"))
           \/ At(c, "macos", "enable", 3, 3, S!Demand("load-w"))
           \/ At(c, "windows", "enable", 1, 1, S!Demand("/Create"))
           \/ At(c, "linux", "disable", 4, 1, S!Try("disable--now"))
           \/ At(c, "linux", "disable", 4, 2, S!Remove("timer"))
           \/ At(c, "linux", "disable", 4, 3, S!Remove("service"))
           \/ At(c, "linux", "disable", 4, 4, S!Try("daemon-reload"))
           \/ At(c, "macos", "disable", 2, 1, S!Try("unload-w"))
           \/ At(c, "macos", "disable", 2, 2, S!Remove("plist"))
           \/ At(c, "windows", "disable", 1, 1, S!Try("/Delete"))
<1>1. /\ platform \in {"linux", "macos", "windows"} /\ call[c].verb \in {"enable", "disable"}
      /\ call[c].step \in Nat
  BY DEF S!TypeOK, S!SchedulerAssumption, S!Call
<1>2. CASE platform = "linux" /\ call[c].verb = "enable"
  <2>1. S!Script(c) = << S!Write("service"), S!Write("timer"),
                       S!Demand("daemon-reload"), S!Demand("enable--now") >>
    BY <1>2 DEF S!Script, S!Enable
  <2>2. Len(S!Script(c)) = 4
    BY <2>1
  <2>3. call[c].step \in {1, 2, 3, 4}
    BY <1>1, <2>2
  <2> QED
    BY <1>2, <2>1, <2>2, <2>3 DEF At, S!Step
<1>3. CASE platform = "macos" /\ call[c].verb = "enable"
  <2>1. S!Script(c) = << S!Write("plist"), S!Try("unload"), S!Demand("load-w") >>
    BY <1>3 DEF S!Script, S!Enable
  <2>2. Len(S!Script(c)) = 3
    BY <2>1
  <2>3. call[c].step \in {1, 2, 3}
    BY <1>1, <2>2
  <2> QED
    BY <1>3, <2>1, <2>2, <2>3 DEF At, S!Step
<1>4. CASE platform = "windows" /\ call[c].verb = "enable"
  <2>1. S!Script(c) = << S!Demand("/Create") >>
    BY <1>4 DEF S!Script, S!Enable
  <2>2. Len(S!Script(c)) = 1
    BY <2>1
  <2>3. call[c].step \in {1}
    BY <1>1, <2>2
  <2> QED
    BY <1>4, <2>1, <2>2, <2>3 DEF At, S!Step
<1>5. CASE platform = "linux" /\ call[c].verb = "disable"
  <2>1. S!Script(c) = << S!Try("disable--now"), S!Remove("timer"), S!Remove("service"),
                       S!Try("daemon-reload") >>
    BY <1>5 DEF S!Script, S!Disable
  <2>2. Len(S!Script(c)) = 4
    BY <2>1
  <2>3. call[c].step \in {1, 2, 3, 4}
    BY <1>1, <2>2
  <2> QED
    BY <1>5, <2>1, <2>2, <2>3 DEF At, S!Step
<1>6. CASE platform = "macos" /\ call[c].verb = "disable"
  <2>1. S!Script(c) = << S!Try("unload-w"), S!Remove("plist") >>
    BY <1>6 DEF S!Script, S!Disable
  <2>2. Len(S!Script(c)) = 2
    BY <2>1
  <2>3. call[c].step \in {1, 2}
    BY <1>1, <2>2
  <2> QED
    BY <1>6, <2>1, <2>2, <2>3 DEF At, S!Step
<1>7. CASE platform = "windows" /\ call[c].verb = "disable"
  <2>1. S!Script(c) = << S!Try("/Delete") >>
    BY <1>7 DEF S!Script, S!Disable
  <2>2. Len(S!Script(c)) = 1
    BY <2>1
  <2>3. call[c].step \in {1}
    BY <1>1, <2>2
  <2> QED
    BY <1>7, <2>1, <2>2, <2>3 DEF At, S!Step
<1> QED
  BY <1>1, <1>2, <1>3, <1>4, <1>5, <1>6, <1>7

\* What a step of a script may be.
LEMMA StepType ==
    ASSUME S!SchedulerAssumption, S!TypeOK, NEW c \in Calls,
           call[c].step \in 1..Len(S!Script(c))
    PROVE  /\ S!Step(c).op \in {"write", "remove", "command"}
           /\ S!Step(c).op = "command" => S!Step(c).on \in S!Commands
           /\ S!Step(c).op # "command" => S!Step(c).on \in S!Units
           /\ Len(S!Script(c)) \in Nat
  BY Places DEF At, S!Write, S!Remove, S!Demand, S!Try, S!Units, S!Commands

\* Files are written to enable.
LEMMA WritePlaces ==
    ASSUME S!SchedulerAssumption, S!TypeOK, NEW c \in Calls,
           call[c].step \in 1..Len(S!Script(c)),
           S!Step(c).op = "write"
    PROVE  \/ At(c, "linux", "enable", 4, 1, S!Write("service"))
           \/ At(c, "linux", "enable", 4, 2, S!Write("timer"))
           \/ At(c, "macos", "enable", 3, 1, S!Write("plist"))
  BY Places DEF At, S!Write, S!Remove, S!Demand, S!Try

\* They are removed to disable.
LEMMA RemovePlaces ==
    ASSUME S!SchedulerAssumption, S!TypeOK, NEW c \in Calls,
           call[c].step \in 1..Len(S!Script(c)),
           S!Step(c).op = "remove"
    PROVE  \/ At(c, "linux", "disable", 4, 2, S!Remove("timer"))
           \/ At(c, "linux", "disable", 4, 3, S!Remove("service"))
           \/ At(c, "macos", "disable", 2, 2, S!Remove("plist"))
  BY Places DEF At, S!Write, S!Remove, S!Demand, S!Try

\* Commands are part of both.
LEMMA CommandPlaces ==
    ASSUME S!SchedulerAssumption, S!TypeOK, NEW c \in Calls,
           call[c].step \in 1..Len(S!Script(c)),
           S!Step(c).op = "command"
    PROVE  \/ At(c, "linux", "enable", 4, 3, S!Demand("daemon-reload"))
           \/ At(c, "linux", "enable", 4, 4, S!Demand("enable--now"))
           \/ At(c, "macos", "enable", 3, 2, S!Try("unload"))
           \/ At(c, "macos", "enable", 3, 3, S!Demand("load-w"))
           \/ At(c, "windows", "enable", 1, 1, S!Demand("/Create"))
           \/ At(c, "linux", "disable", 4, 1, S!Try("disable--now"))
           \/ At(c, "linux", "disable", 4, 4, S!Try("daemon-reload"))
           \/ At(c, "macos", "disable", 2, 1, S!Try("unload-w"))
           \/ At(c, "windows", "disable", 1, 1, S!Try("/Delete"))
  BY Places DEF At, S!Write, S!Remove, S!Demand, S!Try

\* What any command does leaves the manager with something it may have.
LEMMA EffectType ==
    ASSUME S!TypeOK, NEW cmd \in S!Commands, NEW b \in Binaries \cup {NoBinary}
    PROVE  S!Effect(cmd, b) \in S!ManagerState
<1>1. /\ manager \in S!ManagerState
      /\ disk["service"] \in S!Contents /\ disk["plist"] \in S!Contents
      /\ b \in S!Contents
  BY DEF S!TypeOK, S!Units, S!Contents
<1> QED
  BY <1>1 DEF S!Effect, S!ManagerState, S!Task, S!Commands

-----------------------------------------------------------------------------
(* One call moves.                                                         *)

\* A call that somebody else disturbs is one of two that are busy.
LEMMA OneMoves ==
    ASSUME ScheduleInv, NEW c \in Calls, S!Busy(c), NEW x \in S!Call,
           call' = [call EXCEPT ![c] = x], platform' = platform, S!TypeOK',
           S!Busy(c)' => AtStep(c)',
           S!Busy(c)' /\ call'[c].alone => call[c].alone /\ Undisturbed(c)',
           settled' = settled \/ (call[c].alone /\ Settled')
    PROVE  ScheduleInv'
<1>1. call \in [Calls -> S!Call]
  BY DEF ScheduleInv, S!TypeOK
<1>2. call'[c] = x /\ \A o \in Calls : o # c => call'[o] = call[o]
  BY <1>1
<1>3. settled.verb = "none"
  BY DEF ScheduleInv, Settled
<1>4. ASSUME NEW o \in Calls, S!Busy(o)' PROVE AtStep(o)'
  BY <1>2, <1>4 DEF ScheduleInv, AtStep, S!Busy, S!Step, S!Script
<1>5. ASSUME NEW o \in Calls, S!Busy(o)', call'[o].alone PROVE Undisturbed(o)'
  <2>1. CASE o # c
    BY <1>2, <1>5, <2>1 DEF ScheduleInv, Undisturbed, S!Busy
  <2> QED
    BY <1>5, <2>1
<1>6. Settled'
  BY <1>3 DEF Settled
<1> QED
  BY <1>4, <1>5, <1>6 DEF ScheduleInv

\* It is over and nothing is reported.
LEMMA OneEnds ==
    ASSUME S!SchedulerAssumption, ScheduleInv, NEW c \in Calls, S!Busy(c), S!Ends(c),
           platform' = platform, UNCHANGED <<settled, calls, logins>>,
           disk' \in [S!Units -> S!Contents], manager' \in S!ManagerState,
           orphans' \subseteq S!Commands \X (Binaries \cup {NoBinary})
    PROVE  ScheduleInv'
<1>1. S!NoCall \in S!Call /\ S!NoCall.pc = "idle"
  BY DEF S!NoCall, S!Call
<1>2. call' = [call EXCEPT ![c] = S!NoCall]
  BY DEF S!Ends
<1>3. S!TypeOK'
  BY <1>1, <1>2 DEF ScheduleInv, S!TypeOK
<1>4. ~S!Busy(c)'
  BY <1>1, <1>2 DEF ScheduleInv, S!TypeOK, S!Busy
<1> QED
  BY <1>1, <1>2, <1>3, <1>4, OneMoves

\* What a call has in hand when it goes on.
LEMMA GoneOn ==
    ASSUME NEW r \in S!Call
    PROVE  LET x == [r EXCEPT !.pc = "working", !.step = r.step + 1, !.acted = FALSE]
           IN  /\ x \in S!Call /\ x.pc = "working" /\ x.step = r.step + 1 /\ x.acted = FALSE
               /\ x.alone = r.alone /\ x.verb = r.verb /\ x.binary = r.binary
<1> DEFINE n == r.step + 1
           x == [r EXCEPT !.pc = "working", !.step = n, !.acted = FALSE]
<1>1. n \in Nat
  BY DEF S!Call
<1> HIDE DEF n
<1>2. x \in S!Call
  BY <1>1 DEF S!Call
<1>3. /\ x.pc = "working" /\ x.step = n /\ x.acted = FALSE
      /\ x.alone = r.alone /\ x.verb = r.verb /\ x.binary = r.binary
  BY DEF S!Call
<1> QED
  BY <1>2, <1>3 DEF n

\* The script goes on: what was achieved at this step is what the next one starts from.
LEMMA OneGoesOn ==
    ASSUME S!SchedulerAssumption, ScheduleInv, NEW c \in Calls, S!Busy(c), S!Onward(c),
           UNCHANGED <<platform, orphans, calls, logins>>,
           disk' \in [S!Units -> S!Contents], manager' \in S!ManagerState,
           NEW b, b = call[c].binary, NEW k, k = call[c].step, NEW verb, verb = call[c].verb,
           call[c].alone /\ k < Len(S!Script(c)) =>
              /\ verb = "enable" => Enabling(b, k + 1, FALSE)'
              /\ verb = "disable" => Disabling(k + 1)',
           call[c].alone /\ k = Len(S!Script(c)) =>
              /\ verb = "enable" => Enabled(b)'
              /\ verb = "disable" => Disabled'
    PROVE  ScheduleInv'
<1>1. /\ call \in [Calls -> S!Call] /\ call[c] \in S!Call /\ AtStep(c)
      /\ call[c].step \in Nat
  BY DEF ScheduleInv, S!TypeOK, S!Call
<1>2. Len(S!Script(c)) \in Nat
  BY <1>1, StepType DEF ScheduleInv, AtStep
<1>3. CASE call[c].step < Len(S!Script(c))
  <2> DEFINE x == [call[c] EXCEPT !.pc = "working", !.step = call[c].step + 1, !.acted = FALSE]
  <2>1. call' = [call EXCEPT ![c] = x] /\ settled' = settled
    BY <1>3 DEF S!Onward
  <2>2. /\ x \in S!Call /\ x.pc = "working" /\ x.step = call[c].step + 1 /\ x.acted = FALSE
        /\ x.alone = call[c].alone /\ x.verb = call[c].verb /\ x.binary = call[c].binary
    BY <1>1, GoneOn
  <2> HIDE DEF x
  <2>3. call'[c] = x /\ \A o \in Calls : o # c => call'[o] = call[o]
    BY <1>1, <2>1
  <2>4. S!TypeOK'
    BY <1>1, <2>1, <2>2 DEF ScheduleInv, S!TypeOK
  <2>5. AtStep(c)'
    <3>1. S!Script(c)' = S!Script(c)
      BY <2>2, <2>3 DEF S!Script
    <3>2. x.step \in 1..Len(S!Script(c))
      BY <1>1, <1>2, <1>3, <2>2
    <3> QED
      BY <1>1, <2>2, <2>3, <3>1, <3>2 DEF AtStep
  <2>6. ASSUME call[c].alone PROVE Undisturbed(c)'
    <3>1. orphans' = {} /\ \A o \in Calls : o # c => ~S!Busy(o)'
      BY <2>3, <2>6 DEF ScheduleInv, Undisturbed, S!Busy
    <3> QED
      BY <1>3, <2>2, <2>3, <2>6, <3>1 DEF Undisturbed
  <2> QED
    BY <2>1, <2>2, <2>3, <2>4, <2>5, <2>6, OneMoves
<1>4. CASE ~(call[c].step < Len(S!Script(c)))
  <2>1. call[c].step = Len(S!Script(c))
    BY <1>1, <1>2, <1>4 DEF AtStep
  <2>2. /\ S!Ends(c)
        /\ settled' = IF call[c].alone
                      THEN [verb |-> call[c].verb, binary |-> call[c].binary] ELSE settled
    BY <1>4 DEF S!Onward
  <2>3. CASE ~call[c].alone
    BY <2>2, <2>3, OneEnds DEF ScheduleInv, S!TypeOK
  <2>4. CASE call[c].alone
    <3>1. S!NoCall \in S!Call /\ S!NoCall.pc = "idle" /\ call' = [call EXCEPT ![c] = S!NoCall]
      BY <2>2 DEF S!NoCall, S!Call, S!Ends
    <3>2. call'[c] = S!NoCall /\ \A o \in Calls : o # c => call'[o] = call[o]
      BY <1>1, <3>1
    <3>3. /\ settled'.verb = call[c].verb /\ settled'.binary = call[c].binary
          /\ settled' \in [verb : {"none", "enable", "disable"}, binary : Binaries \cup {NoBinary}]
      BY <1>1, <2>2, <2>4 DEF S!Call
    <3>4. S!TypeOK'
      BY <1>1, <3>1, <3>3 DEF ScheduleInv, S!TypeOK
    <3>5. orphans' = {} /\ \A o \in Calls : ~S!Busy(o)'
      BY <2>4, <3>1, <3>2 DEF ScheduleInv, Undisturbed, S!Busy
    <3>6. Settled'
      BY <2>1, <2>4, <3>3, <3>5 DEF Settled
    <3>7. ~S!Busy(c)'
      BY <3>5
    <3> QED
      BY <2>4, <3>1, <3>4, <3>6, <3>7, OneMoves
  <2> QED
    BY <2>3, <2>4
<1> QED
  BY <1>3, <1>4

\* Whoever else is there is disturbed from now on.
LEMMA BeginHolds ==
    ASSUME S!SchedulerAssumption, ScheduleInv, NEW c \in Calls, S!Begin(c)
    PROVE  ScheduleInv'
<1>1. PICK verb \in {"enable", "disable"}, b \in Binaries \cup {NoBinary} :
         /\ verb = "enable" <=> b # NoBinary
         /\ LET alone == orphans = {} /\ \A o \in Calls : ~S!Busy(o)
                begun == [call EXCEPT ![c] = [pc |-> "working", verb |-> verb, binary |-> b,
                                              step |-> 1, acted |-> FALSE, alone |-> alone]]
            IN  call' = [o \in Calls |-> IF o # c /\ S!Busy(o)
                                         THEN [call[o] EXCEPT !.alone = FALSE] ELSE begun[o]]
  BY DEF S!Begin
<1> DEFINE alone == orphans = {} /\ \A o \in Calls : ~S!Busy(o)
<1>2. /\ call \in [Calls -> S!Call] /\ platform \in {"linux", "macos", "windows"}
      /\ ~S!Busy(c) /\ settled' = S!Unsettled
      /\ UNCHANGED <<platform, disk, manager, orphans, logins>>
      /\ calls' = calls + 1 /\ calls < MaxCalls /\ calls \in Nat /\ MaxCalls \in Nat
      /\ calls \in 0..MaxCalls
  BY DEF S!Begin, ScheduleInv, S!TypeOK, S!SchedulerAssumption
<1>3. PICK me \in S!Call :
         /\ me = [pc |-> "working", verb |-> verb, binary |-> b,
                  step |-> 1, acted |-> FALSE, alone |-> alone]
         /\ call'[c] = me
  <2>1. alone \in BOOLEAN
    OBVIOUS
  <2> HIDE DEF alone
  <2>2. [pc |-> "working", verb |-> verb, binary |-> b,
         step |-> 1, acted |-> FALSE, alone |-> alone] \in S!Call
    BY <2>1 DEF S!Call
  <2>3. call'[c] = [pc |-> "working", verb |-> verb, binary |-> b,
                    step |-> 1, acted |-> FALSE, alone |-> alone]
    BY <1>1, <1>2 DEF alone
  <2> QED
    BY <2>2, <2>3
<1> HIDE DEF alone
<1>4. /\ me.pc = "working" /\ me.verb = verb /\ me.binary = b /\ me.step = 1 /\ me.acted = FALSE
      /\ me.alone = alone
  BY <1>3
<1>5. ASSUME NEW o \in Calls, o # c, ~S!Busy(o) PROVE call'[o] = call[o]
  BY <1>1, <1>2, <1>5
<1>6. ASSUME NEW o \in Calls, o # c, S!Busy(o)
      PROVE  /\ call'[o] \in S!Call /\ ~call'[o].alone
             /\ call'[o].pc = call[o].pc /\ call'[o].verb = call[o].verb
             /\ call'[o].binary = call[o].binary /\ call'[o].step = call[o].step
             /\ call'[o].acted = call[o].acted
  <2>1. call'[o] = [call[o] EXCEPT !.alone = FALSE] /\ call[o] \in S!Call
    BY <1>1, <1>2, <1>6
  <2> QED
    BY <2>1 DEF S!Call
<1>7. call' \in [Calls -> S!Call]
  <2>1. \A o \in Calls : call'[o] \in S!Call
    BY <1>2, <1>3, <1>5, <1>6
  <2>2. call' = [o \in Calls |-> call'[o]]
    BY <1>1
  <2> QED
    BY <2>1, <2>2
<1>8. S!TypeOK'
  <2>1. settled' \in [verb : {"none", "enable", "disable"}, binary : Binaries \cup {NoBinary}]
    BY <1>2 DEF S!Unsettled
  <2>2. calls' \in 0..MaxCalls
    BY <1>2
  <2> QED
    BY <1>2, <1>7, <2>1, <2>2 DEF ScheduleInv, S!TypeOK
<1>9. ASSUME NEW o \in Calls, S!Busy(o)' PROVE AtStep(o)'
  <2>1. CASE o = c
    <3>1. Len(S!Script(c)') \in Nat \ {0}
      <4>1. S!Script(c)' = IF verb = "enable" THEN S!Enable(platform) ELSE S!Disable(platform)
        BY <1>2, <1>3, <1>4 DEF S!Script
      <4> QED
        BY <1>2, <4>1 DEF S!Enable, S!Disable
    <3>2. 1 \in 1..Len(S!Script(c)')
      BY <3>1
    <3>3. verb = "enable" => b \in Binaries
      BY <1>1
    <3> QED
      BY <1>3, <1>4, <2>1, <3>2, <3>3 DEF AtStep
  <2>2. CASE o # c
    <3>1. S!Busy(o)
      BY <1>5, <1>9, <2>2 DEF S!Busy
    <3>2. S!Script(o)' = S!Script(o)
      BY <1>2, <1>6, <2>2, <3>1 DEF S!Script
    <3>3. AtStep(o)
      BY <3>1 DEF ScheduleInv
    <3> QED
      BY <1>6, <2>2, <3>1, <3>2, <3>3 DEF AtStep, S!Step
  <2> QED
    BY <2>1, <2>2
<1>10. ASSUME NEW o \in Calls, S!Busy(o)', call'[o].alone PROVE Undisturbed(o)'
  <2>1. o = c
    BY <1>5, <1>6, <1>10 DEF S!Busy
  <2>2. alone
    BY <1>3, <1>4, <1>10, <2>1
  <2>3. orphans' = {} /\ \A x \in Calls : x # c => ~S!Busy(x)'
    BY <1>2, <1>5, <2>2 DEF alone, S!Busy
  <2> QED
    BY <1>3, <1>4, <2>1, <2>3 DEF Undisturbed, Enabling, Disabling
<1>11. Settled'
  BY <1>2 DEF Settled, S!Unsettled
<1> QED
  BY <1>8, <1>9, <1>10, <1>11 DEF ScheduleInv

LEMMA StartHolds ==
    ASSUME S!SchedulerAssumption, ScheduleInv, NEW c \in Calls, S!StartCommand(c)
    PROVE  ScheduleInv'
<1> DEFINE x == [call[c] EXCEPT !.pc = "waiting"]
<1>1. /\ call \in [Calls -> S!Call] /\ call[c] \in S!Call /\ AtStep(c) /\ S!Busy(c)
      /\ S!Step(c).op = "command" /\ ~call[c].acted
  BY DEF S!StartCommand, ScheduleInv, S!TypeOK, S!Busy, AtStep
<1>2. /\ x \in S!Call /\ x.pc = "waiting" /\ x.step = call[c].step /\ x.acted = call[c].acted
      /\ x.alone = call[c].alone /\ x.verb = call[c].verb /\ x.binary = call[c].binary
  BY <1>1 DEF S!Call
<1>3. call' = [call EXCEPT ![c] = x]
  BY DEF S!StartCommand
<1> HIDE DEF x
<1>4. UNCHANGED <<platform, disk, manager, orphans, settled, calls, logins>>
  BY DEF S!StartCommand
<1>5. call'[c] = x /\ \A o \in Calls : o # c => call'[o] = call[o]
  BY <1>1, <1>3
<1>6. S!TypeOK'
  BY <1>1, <1>2, <1>3, <1>4 DEF ScheduleInv, S!TypeOK
<1>7. AtStep(c)'
  BY <1>1, <1>2, <1>4, <1>5 DEF AtStep, S!Step, S!Script
<1>8. ASSUME call[c].alone PROVE Undisturbed(c)'
  BY <1>1, <1>2, <1>4, <1>5, <1>8
     DEF ScheduleInv, Undisturbed, S!Busy, Enabling, Disabling, Starts
<1> QED
  BY <1>1, <1>2, <1>3, <1>4, <1>5, <1>6, <1>7, <1>8, OneMoves

LEMMA ScheduleWriteHolds ==
    ASSUME S!SchedulerAssumption, ScheduleInv, NEW c \in Calls, S!WriteFile(c)
    PROVE  ScheduleInv'
<1>1. /\ call[c] \in S!Call /\ AtStep(c) /\ S!Busy(c) /\ S!Step(c).op = "write" /\ S!TypeOK
      /\ disk \in [S!Units -> S!Contents] /\ manager \in S!ManagerState
      /\ call[c].alone => Undisturbed(c)
      /\ UNCHANGED <<platform, manager, orphans, calls, logins>>
  BY DEF S!WriteFile, ScheduleInv, S!TypeOK, S!Busy
<1>2. \/ At(c, "linux", "enable", 4, 1, S!Write("service"))
      \/ At(c, "linux", "enable", 4, 2, S!Write("timer"))
      \/ At(c, "macos", "enable", 3, 1, S!Write("plist"))
  BY <1>1, WritePlaces DEF AtStep
<1>3. S!Step(c).on \in S!Units /\ call[c].binary \in S!Contents
  BY <1>1, StepType DEF AtStep, S!Call, S!Contents
<1>4. CASE disk' = [disk EXCEPT ![S!Step(c).on] = call[c].binary] /\ S!Onward(c)
  <2>1. PICK b, k, verb : b = call[c].binary /\ k = call[c].step /\ verb = call[c].verb
    OBVIOUS
  <2>2. disk' \in [S!Units -> S!Contents] /\ manager' \in S!ManagerState
    BY <1>1, <1>3, <1>4
  <2>3. /\ call[c].alone => Enabling(b, k + 1, FALSE)'
        /\ verb = "enable" /\ k < Len(S!Script(c)) /\ k # Len(S!Script(c))
    <3>0. call[c].alone => Enabling(b, k, call[c].acted)
      BY <1>1, <1>2, <2>1 DEF At, Undisturbed
    <3>1. CASE At(c, "linux", "enable", 4, 1, S!Write("service"))
      BY <1>1, <1>4, <2>1, <3>0, <3>1 DEF At, S!Write, Enabling, S!Units
    <3>2. CASE At(c, "linux", "enable", 4, 2, S!Write("timer"))
      BY <1>1, <1>4, <2>1, <3>0, <3>2 DEF At, S!Write, Enabling, S!Units
    <3>3. CASE At(c, "macos", "enable", 3, 1, S!Write("plist"))
      BY <1>1, <1>4, <2>1, <3>0, <3>3 DEF At, S!Write, Enabling, S!Units
    <3> QED
      BY <1>2, <3>1, <3>2, <3>3
  <2> QED
    BY <1>1, <1>4, <2>1, <2>2, <2>3, OneGoesOn
<1>5. CASE disk' \in {disk, [disk EXCEPT ![S!Step(c).on] = "torn"]} /\ S!Stops(c)
  <2>1. disk' \in [S!Units -> S!Contents] /\ manager' \in S!ManagerState
    BY <1>1, <1>3, <1>5 DEF S!Contents
  <2>2. orphans' \subseteq S!Commands \X (Binaries \cup {NoBinary})
    BY <1>1 DEF S!TypeOK
  <2> QED
    BY <1>1, <1>5, <2>1, <2>2, OneEnds DEF S!Stops
<1> QED
  BY <1>4, <1>5 DEF S!WriteFile

LEMMA RemoveHolds ==
    ASSUME S!SchedulerAssumption, ScheduleInv, NEW c \in Calls, S!RemoveFile(c)
    PROVE  ScheduleInv'
<1>1. /\ call[c] \in S!Call /\ AtStep(c) /\ S!Busy(c) /\ S!Step(c).op = "remove" /\ S!TypeOK
      /\ disk \in [S!Units -> S!Contents] /\ manager \in S!ManagerState
      /\ call[c].alone => Undisturbed(c)
      /\ UNCHANGED <<platform, manager, orphans, calls, logins>>
  BY DEF S!RemoveFile, ScheduleInv, S!TypeOK, S!Busy
<1>2. \/ At(c, "linux", "disable", 4, 2, S!Remove("timer"))
      \/ At(c, "linux", "disable", 4, 3, S!Remove("service"))
      \/ At(c, "macos", "disable", 2, 2, S!Remove("plist"))
  BY <1>1, RemovePlaces DEF AtStep
<1>3. S!Step(c).on \in S!Units
  BY <1>1, StepType DEF AtStep
<1>4. CASE disk' = [disk EXCEPT ![S!Step(c).on] = NoBinary] /\ S!Onward(c)
  <2>1. PICK b, k, verb : b = call[c].binary /\ k = call[c].step /\ verb = call[c].verb
    OBVIOUS
  <2>2. disk' \in [S!Units -> S!Contents] /\ manager' \in S!ManagerState
    BY <1>1, <1>3, <1>4 DEF S!Contents
  <2>3. /\ call[c].alone /\ k < Len(S!Script(c)) => Disabling(k + 1)'
        /\ call[c].alone /\ k = Len(S!Script(c)) => Disabled'
        /\ verb = "disable"
    BY <1>1, <1>2, <1>4, <2>1 DEF At, S!Remove, Undisturbed, Disabling, Disabled, S!Units
  <2> QED
    BY <1>1, <1>4, <2>1, <2>2, <2>3, OneGoesOn
<1>5. CASE S!Stops(c) /\ UNCHANGED disk
  <2>1. orphans' \subseteq S!Commands \X (Binaries \cup {NoBinary})
    BY <1>1 DEF S!TypeOK
  <2> QED
    BY <1>1, <1>5, <2>1, OneEnds DEF S!Stops
<1> QED
  BY <1>4, <1>5 DEF S!RemoveFile

\* A command whose caller listens has done its work.
LEMMA ActsHolds ==
    ASSUME S!SchedulerAssumption, ScheduleInv, NEW c \in Calls, S!CommandActs(c)
    PROVE  ScheduleInv'
<1> DEFINE x == [call[c] EXCEPT !.acted = TRUE]
<1>1. /\ call \in [Calls -> S!Call] /\ call[c] \in S!Call /\ AtStep(c) /\ S!Busy(c) /\ S!TypeOK
      /\ call[c].pc = "waiting" /\ S!Step(c).op = "command" /\ S!Able(S!Step(c).on)
      /\ call[c].alone => Undisturbed(c)
      /\ manager \in S!ManagerState
  BY DEF S!CommandActs, ScheduleInv, S!TypeOK, S!Busy, AtStep
<1>2. /\ x \in S!Call /\ x.pc = "waiting" /\ x.step = call[c].step /\ x.acted = TRUE
      /\ x.alone = call[c].alone /\ x.verb = call[c].verb /\ x.binary = call[c].binary
  BY <1>1 DEF S!Call
<1>3. /\ call' = [call EXCEPT ![c] = x] /\ manager' = S!Effect(S!Step(c).on, call[c].binary)
      /\ UNCHANGED <<platform, disk, orphans, settled, calls, logins>>
  BY DEF S!CommandActs
<1> HIDE DEF x
<1>4. call'[c] = x /\ \A o \in Calls : o # c => call'[o] = call[o]
  BY <1>1, <1>3
<1>5. S!TypeOK'
  <2>1. manager' \in S!ManagerState
    <3>1. S!Step(c).on \in S!Commands /\ call[c].binary \in Binaries \cup {NoBinary}
      BY <1>1, StepType DEF AtStep, S!Call
    <3> QED
      BY <1>1, <1>3, <3>1, EffectType
  <2> QED
    BY <1>1, <1>2, <1>3, <2>1 DEF S!TypeOK
<1>6. AtStep(c)'
  BY <1>1, <1>2, <1>3, <1>4 DEF AtStep, S!Step, S!Script
<1>7. ASSUME call[c].alone PROVE Undisturbed(c)'
  <2>1. orphans' = {} /\ \A o \in Calls : o # c => ~S!Busy(o)'
    BY <1>1, <1>3, <1>4, <1>7 DEF Undisturbed, S!Busy
  <2>2. PICK b, k : b = call[c].binary /\ k = call[c].step
    OBVIOUS
  <2>3. call[c].verb = "disable" => Disabling(k)'
    BY <1>1, <1>3, <1>7, <2>2 DEF Undisturbed, Disabling
  <2>4. ASSUME call[c].verb = "enable" PROVE Enabling(b, k, TRUE)'
    <3>1. Enabling(b, k, FALSE)
      <4>1. call[c].acted = FALSE
        BY <1>1 DEF S!CommandActs, S!Call
      <4> QED
        BY <1>1, <1>7, <2>2, <2>4, <4>1 DEF Undisturbed
    <3>2. CASE At(c, "linux", "enable", 4, 3, S!Demand("daemon-reload"))
      BY <1>1, <1>3, <2>2, <3>1, <3>2
         DEF At, S!Demand, Enabling, Starts, S!Effect, S!Task, S!ManagerState
    <3>3. CASE At(c, "linux", "enable", 4, 4, S!Demand("enable--now"))
      <4>1. manager' = [manager EXCEPT !.active = TRUE, !.wanted = TRUE]
        BY <1>3, <3>3 DEF At, S!Demand, S!Effect
      <4>2. manager'.loaded = manager.loaded /\ manager'.active /\ manager'.wanted
        BY <1>1, <4>1 DEF S!ManagerState
      <4> QED
        BY <1>3, <2>2, <3>1, <3>3, <4>2 DEF At, Enabling
    <3>4. CASE At(c, "macos", "enable", 3, 2, S!Try("unload"))
      BY <1>1, <1>3, <2>2, <3>1, <3>4
         DEF At, S!Try, Enabling, Starts, S!Effect, S!Task, S!ManagerState
    <3>5. CASE At(c, "macos", "enable", 3, 3, S!Demand("load-w"))
      BY <1>1, <1>3, <2>2, <3>1, <3>5
         DEF At, S!Demand, Enabling, Starts, S!Effect, S!Task, S!ManagerState
    <3>6. CASE At(c, "windows", "enable", 1, 1, S!Demand("/Create"))
      BY <1>1, <1>3, <2>2, <3>1, <3>6
         DEF At, S!Demand, Enabling, Starts, S!Effect, S!Task, S!ManagerState
    <3> QED
      BY <1>1, <2>4, <3>2, <3>3, <3>4, <3>5, <3>6, CommandPlaces DEF AtStep, At
  <2> QED
    BY <1>2, <1>4, <2>1, <2>2, <2>3, <2>4 DEF Undisturbed
<1> QED
  BY <1>1, <1>2, <1>3, <1>4, <1>5, <1>6, <1>7, OneMoves

\* An answer that lets the script go on says the work is done, or does not matter.
LEMMA HeardHolds ==
    ASSUME S!SchedulerAssumption, ScheduleInv, NEW c \in Calls, NEW ok \in BOOLEAN, S!Heard(c, ok)
    PROVE  ScheduleInv'
<1>1. /\ call[c] \in S!Call /\ AtStep(c) /\ S!Busy(c) /\ S!Step(c).op = "command" /\ S!TypeOK
      /\ disk \in [S!Units -> S!Contents] /\ manager \in S!ManagerState
      /\ call[c].alone => Undisturbed(c)
      /\ UNCHANGED <<platform, disk, manager, orphans, calls, logins>>
      /\ ok => call[c].acted
  BY DEF S!Heard, ScheduleInv, S!TypeOK, S!Busy, AtStep
<1>2. CASE ok \/ S!Step(c).tolerated
  <2>1. PICK b, k, verb : b = call[c].binary /\ k = call[c].step /\ verb = call[c].verb
    OBVIOUS
  <2>2. /\ call[c].alone /\ k < Len(S!Script(c)) =>
              /\ verb = "enable" => Enabling(b, k + 1, FALSE)'
              /\ verb = "disable" => Disabling(k + 1)'
        /\ call[c].alone /\ k = Len(S!Script(c)) =>
              /\ verb = "enable" => Enabled(b)'
              /\ verb = "disable" => Disabled'
    <3> SUFFICES ASSUME call[c].alone
                 PROVE  /\ k < Len(S!Script(c)) =>
                              /\ verb = "enable" => Enabling(b, k + 1, FALSE)'
                              /\ verb = "disable" => Disabling(k + 1)'
                        /\ k = Len(S!Script(c)) =>
                              /\ verb = "enable" => Enabled(b)'
                              /\ verb = "disable" => Disabled'
      OBVIOUS
    <3>1. /\ call[c].verb = "enable" => Enabling(b, k, call[c].acted) /\ b \in Binaries
          /\ call[c].verb = "disable" => Disabling(k)
      BY <1>1, <2>1 DEF Undisturbed, AtStep
    <3>2. CASE call[c].verb = "enable"
      <4>1. CASE At(c, "linux", "enable", 4, 3, S!Demand("daemon-reload"))
        BY <1>1, <1>2, <2>1, <3>1, <3>2, <4>1 DEF At, S!Demand, Enabling, Enabled, Starts
      <4>2. CASE At(c, "linux", "enable", 4, 4, S!Demand("enable--now"))
        BY <1>1, <1>2, <2>1, <3>1, <3>2, <4>2 DEF At, S!Demand, Enabling, Enabled, Starts
      <4>3. CASE At(c, "macos", "enable", 3, 2, S!Try("unload"))
        BY <1>1, <1>2, <2>1, <3>1, <3>2, <4>3 DEF At, S!Try, Enabling, Enabled, Starts
      <4>4. CASE At(c, "macos", "enable", 3, 3, S!Demand("load-w"))
        BY <1>1, <1>2, <2>1, <3>1, <3>2, <4>4 DEF At, S!Demand, Enabling, Enabled, Starts
      <4>5. CASE At(c, "windows", "enable", 1, 1, S!Demand("/Create"))
        BY <1>1, <1>2, <2>1, <3>1, <3>2, <4>5 DEF At, S!Demand, Enabling, Enabled, Starts
      <4> QED
        BY <1>1, <3>2, <4>1, <4>2, <4>3, <4>4, <4>5, CommandPlaces DEF AtStep, At
    <3>3. CASE call[c].verb = "disable"
      <4>1. CASE At(c, "linux", "disable", 4, 1, S!Try("disable--now"))
        BY <1>1, <2>1, <3>1, <3>3, <4>1 DEF At, Disabling, Disabled
      <4>2. CASE At(c, "linux", "disable", 4, 4, S!Try("daemon-reload"))
        BY <1>1, <2>1, <3>1, <3>3, <4>2 DEF At, Disabling, Disabled
      <4>3. CASE At(c, "macos", "disable", 2, 1, S!Try("unload-w"))
        BY <1>1, <2>1, <3>1, <3>3, <4>3 DEF At, Disabling, Disabled
      <4>4. CASE At(c, "windows", "disable", 1, 1, S!Try("/Delete"))
        BY <1>1, <2>1, <3>1, <3>3, <4>4 DEF At, Disabling, Disabled
      <4> QED
        BY <1>1, <3>3, <4>1, <4>2, <4>3, <4>4, CommandPlaces DEF AtStep, At
    <3> QED
      BY <1>1, <2>1, <3>2, <3>3 DEF S!Call
  <2>3. S!Onward(c) /\ disk' \in [S!Units -> S!Contents] /\ manager' \in S!ManagerState
    BY <1>1, <1>2 DEF S!Heard
  <2>4. S!Busy(c) /\ UNCHANGED <<platform, orphans, calls, logins>>
    BY <1>1
  <2>5. CASE verb = "enable"
    BY <2>1, <2>2, <2>3, <2>4, <2>5, OneGoesOn
  <2>6. CASE verb = "disable"
    BY <2>1, <2>2, <2>3, <2>4, <2>6, OneGoesOn
  <2> QED
    BY <1>1, <2>1, <2>5, <2>6 DEF S!Call
<1>3. CASE ~(ok \/ S!Step(c).tolerated)
  <2>1. S!Stops(c) /\ orphans' \subseteq S!Commands \X (Binaries \cup {NoBinary})
    BY <1>1, <1>3 DEF S!Heard, S!TypeOK
  <2> QED
    BY <1>1, <2>1, OneEnds DEF S!Stops
<1> QED
  BY <1>2, <1>3

LEMMA ScheduleCrashHolds ==
    ASSUME S!SchedulerAssumption, ScheduleInv, NEW c \in Calls, S!Crash(c)
    PROVE  ScheduleInv'
<1>1. /\ call[c] \in S!Call /\ AtStep(c) /\ S!Busy(c) /\ S!TypeOK /\ S!Ends(c)
      /\ disk \in [S!Units -> S!Contents] /\ manager \in S!ManagerState
      /\ UNCHANGED <<platform, manager, settled, calls, logins>>
  BY DEF S!Crash, ScheduleInv, S!TypeOK
<1>2. /\ S!Step(c).op = "command" => S!Step(c).on \in S!Commands
      /\ S!Step(c).op = "write" => S!Step(c).on \in S!Units
      /\ call[c].pc = "waiting" => S!Step(c).op = "command"
      /\ call[c].binary \in Binaries \cup {NoBinary}
  BY <1>1, StepType DEF AtStep, S!Call
<1>3. disk' \in [S!Units -> S!Contents]
  BY <1>1, <1>2 DEF S!Crash, S!Contents
<1>4. orphans' \subseteq S!Commands \X (Binaries \cup {NoBinary})
  BY <1>1, <1>2 DEF S!Crash, S!TypeOK
<1> QED
  BY <1>1, <1>3, <1>4, OneEnds

\* A command without a caller disturbs nobody who is alone.
LEMMA OrphanHolds ==
    ASSUME S!SchedulerAssumption, ScheduleInv, S!OrphanEnds
    PROVE  ScheduleInv'
<1>1. orphans # {} /\ UNCHANGED <<platform, disk, call, settled, calls, logins>>
  BY DEF S!OrphanEnds
<1>2. S!TypeOK'
  <2>1. manager' \in S!ManagerState /\ orphans' \subseteq orphans
    <3>1. PICK o \in orphans :
            /\ orphans' = orphans \ {o}
            /\ (S!Able(o[1]) /\ manager' = S!Effect(o[1], o[2])) \/ UNCHANGED manager
      BY DEF S!OrphanEnds
    <3>2. o[1] \in S!Commands /\ o[2] \in Binaries \cup {NoBinary}
      BY DEF ScheduleInv, S!TypeOK
    <3>3. S!TypeOK /\ manager \in S!ManagerState
      BY DEF ScheduleInv, S!TypeOK
    <3> QED
      BY <3>1, <3>2, <3>3, EffectType
  <2> QED
    BY <1>1, <2>1 DEF ScheduleInv, S!TypeOK
<1>3. settled.verb = "none" /\ \A c \in Calls : ~(S!Busy(c) /\ call[c].alone)
  BY <1>1 DEF ScheduleInv, Settled, Undisturbed
<1>4. \A c \in Calls : /\ S!Busy(c)' => AtStep(c)'
                       /\ ~(S!Busy(c)' /\ call'[c].alone)
  BY <1>1, <1>3 DEF ScheduleInv, AtStep, S!Busy, S!Step, S!Script
<1>5. Settled'
  BY <1>1, <1>3 DEF Settled
<1> QED
  BY <1>2, <1>4, <1>5 DEF ScheduleInv

\* The files a login reads agree with what the manager had, or it has less.
LEMMA LoginHolds ==
    ASSUME S!SchedulerAssumption, ScheduleInv, S!Login
    PROVE  ScheduleInv'
<1>1. /\ UNCHANGED <<platform, disk, call, orphans, settled, calls>>
      /\ manager' = S!AfterLogin /\ logins' = logins + 1 /\ logins < MaxLogins
      /\ logins \in 0..MaxLogins /\ MaxLogins \in Nat /\ manager \in S!ManagerState
      /\ platform \in {"linux", "macos", "windows"} /\ disk \in [S!Units -> S!Contents]
  BY DEF S!Login, ScheduleInv, S!TypeOK, S!SchedulerAssumption
<1>2. /\ manager' \in S!ManagerState /\ manager'.wanted = manager.wanted
      /\ platform = "linux" => /\ manager'.loaded = disk["service"]
                               /\ manager'.active = (manager.wanted /\ disk["timer"] \in Binaries)
      /\ platform = "macos" => /\ manager'.loaded = disk["plist"]
                               /\ manager'.active = (manager.wanted /\ disk["plist"] \in Binaries)
      /\ platform = "windows" => manager' = manager
  BY <1>1 DEF S!AfterLogin, S!ManagerState, S!Units
<1>3. S!TypeOK'
  BY <1>1, <1>2 DEF ScheduleInv, S!TypeOK
<1>4. ASSUME NEW c \in Calls, S!Busy(c)' PROVE AtStep(c)'
  BY <1>1, <1>4 DEF ScheduleInv, AtStep, S!Busy, S!Step, S!Script
<1>5. ASSUME NEW c \in Calls, S!Busy(c)', call'[c].alone PROVE Undisturbed(c)'
  <2>1. S!Busy(c) /\ Undisturbed(c) /\ AtStep(c)
    BY <1>1, <1>5 DEF ScheduleInv, S!Busy
  <2>2. ASSUME NEW b \in Binaries, NEW k \in Nat, NEW acted \in BOOLEAN, Enabling(b, k, acted)
        PROVE  Enabling(b, k, acted)'
    <3>1. CASE platform = "linux"
      BY <1>1, <1>2, <2>2, <3>1 DEF Enabling, Starts
    <3>2. CASE platform = "macos"
      BY <1>1, <1>2, <2>2, <3>2 DEF Enabling, Starts
    <3>3. CASE platform = "windows"
      BY <1>1, <1>2, <2>2, <3>3 DEF Enabling, Starts
    <3> QED
      BY <1>1, <3>1, <3>2, <3>3
  <2>3. call[c].step \in Nat /\ call[c].acted \in BOOLEAN
    BY DEF ScheduleInv, S!TypeOK, S!Call
  <2> QED
    BY <1>1, <2>1, <2>2, <2>3 DEF Undisturbed, AtStep, Disabling, S!Busy
<1>6. Settled'
  BY <1>1, <1>2 DEF ScheduleInv, Settled, Enabled, Disabled, Starts, S!Busy
<1> QED
  BY <1>3, <1>4, <1>5, <1>6 DEF ScheduleInv

LEMMA ScheduleInitHolds ==
    ASSUME S!SchedulerAssumption, S!Init
    PROVE  ScheduleInv
<1>1. S!TypeOK
  BY DEF S!SchedulerAssumption, S!Init, S!TypeOK, S!Units, S!Contents, S!ManagerState,
     S!Call, S!NoCall, S!Unsettled
<1> QED
  BY <1>1 DEF S!Init, ScheduleInv, S!Busy, S!NoCall, Settled, S!Unsettled

LEMMA ScheduleStutterHolds ==
    ASSUME ScheduleInv, UNCHANGED S!svars
    PROVE  ScheduleInv'
  BY DEF S!svars, ScheduleInv, S!TypeOK, AtStep, S!Step, S!Script, S!Busy, Undisturbed,
     Enabling, Disabling,
         Starts, Settled, Enabled, Disabled

LEMMA ScheduleNextHolds ==
    ASSUME S!SchedulerAssumption, ScheduleInv, [S!Next]_(S!svars)
    PROVE  ScheduleInv'
<1>1. ASSUME NEW c \in Calls, S!CallStep(c) \/ S!CommandActs(c) PROVE ScheduleInv'
  BY <1>1, BeginHolds, ScheduleWriteHolds, RemoveHolds, StartHolds, HeardHolds,
     ScheduleCrashHolds, ActsHolds
     DEF S!CallStep
<1> QED
  BY <1>1, OrphanHolds, LoginHolds, ScheduleStutterHolds DEF S!Next

LEMMA ScheduleInvariant == ASSUME S!SchedulerAssumption PROVE S!Spec => []ScheduleInv
<1>1. S!Init => ScheduleInv
  BY ScheduleInitHolds
<1>2. ScheduleInv /\ [S!Next]_(S!svars) => ScheduleInv'
  BY ScheduleNextHolds
<1> QED
  BY <1>1, <1>2, PTL DEF S!Spec

LEMMA EnabledTrue == ASSUME S!SchedulerAssumption, ScheduleInv PROVE S!EnabledMeansScheduled
<1>1. platform \in {"linux", "macos", "windows"} /\ manager \in S!ManagerState
  BY DEF S!SchedulerAssumption, ScheduleInv, S!TypeOK
<1> QED
  BY <1>1 DEF ScheduleInv, Settled, Enabled, Starts, S!EnabledMeansScheduled, S!AfterLogin,
     S!ManagerState

LEMMA DisabledTrue == ASSUME S!SchedulerAssumption, ScheduleInv PROVE S!DisabledMeansGone
<1>1. /\ platform \in {"linux", "macos", "windows"} /\ manager \in S!ManagerState
      /\ NoBinary \notin Binaries
  BY DEF S!SchedulerAssumption, ScheduleInv, S!TypeOK
<1> QED
  BY <1>1 DEF ScheduleInv, Settled, Disabled, S!DisabledMeansGone, S!AfterLogin,
     S!ManagerState

-----------------------------------------------------------------------------
(* The theorems of the two.                                                *)

\* The shape of the state holds in every reachable state, whatever the files are.
THEOREM EnrolmentTypeCorrect == ASSUME E!EnrolmentAssumption PROVE E!Spec => []E!TypeOK
<1>1. EnrolmentInv => E!TypeOK
  BY DEF EnrolmentInv
<1> QED
  BY <1>1, EnrolmentInvariant, PTL

\* Whatever inits overlap and whatever is done to the executable between and after
\* their steps: what pnpm_gate lets through is a file that needs no interpreter and
\* said itself that it is recent enough.
THEOREM GateIsSound ==
    ASSUME E!EnrolmentAssumption
    PROVE  E!Spec => []OnlyRecentPnpmPasses
<1>1. EnrolmentInv => OnlyRecentPnpmPasses
  BY DEF EnrolmentInv, OnlyRecentPnpmPasses
<1> QED
  BY <1>1, EnrolmentInvariant, PTL

\* The shape of the state holds however many calls, binaries and logins there are.
THEOREM ScheduleTypeCorrect == ASSUME S!SchedulerAssumption PROVE S!Spec => []S!TypeOK
<1>1. ScheduleInv => S!TypeOK
  BY DEF ScheduleInv
<1> QED
  BY <1>1, ScheduleInvariant, PTL

\* SCHEDULE_ENABLED is the truth, now and after the next login, on each platform
\* and from whatever calls that failed or were killed had left behind.
THEOREM EnabledIsTrue ==
    ASSUME S!SchedulerAssumption
    PROVE  S!Spec => []EnabledMeansScheduled
<1>1. ScheduleInv => EnabledMeansScheduled
  BY EnabledTrue DEF EnabledMeansScheduled
<1> QED
  BY <1>1, ScheduleInvariant, PTL

\* After SCHEDULE_DISABLED nothing starts with the next login, although none of the
\* commands of `schedule disable` has to succeed.
THEOREM DisabledIsTrue ==
    ASSUME S!SchedulerAssumption
    PROVE  S!Spec => []DisabledMeansGone
<1>1. ScheduleInv => DisabledMeansGone
  BY DisabledTrue DEF DisabledMeansGone
<1> QED
  BY <1>1, ScheduleInvariant, PTL

-----------------------------------------------------------------------------
(* VolumeLock, for any number of processes, volumes and lock files.        *)

\* Every variable keeps its type, sentinels included: no handle of a run is
\* ever mistaken for a file.
LEMMA LockTypeCorrect ==
  ASSUME L!LockAssumption
  PROVE  L!Spec => []L!TypeOK
<1> USE DEF L!LockAssumption
<1>1. L!Init => L!TypeOK
  BY DEF L!Init, L!TypeOK, L!States, L!HoldingStates
<1>2. L!TypeOK /\ [L!Next]_(L!vars) => L!TypeOK'
  <2> SUFFICES ASSUME L!TypeOK, [L!Next]_(L!vars) PROVE L!TypeOK'
    OBVIOUS
  <2> USE DEF L!TypeOK, L!directory, L!sweep, L!States, L!HoldingStates
  <2>1. ASSUME NEW r \in Runs, L!Begin(r) PROVE L!TypeOK'
    BY <2>1 DEF L!Begin
  <2>2. ASSUME NEW r \in Runs, L!OpenLockFile(r) PROVE L!TypeOK'
    BY <2>2 DEF L!OpenLockFile
  <2>3. ASSUME NEW r \in Runs, L!TakeLock(r) PROVE L!TypeOK'
    BY <2>3 DEF L!TakeLock
  <2>4. ASSUME NEW r \in Runs, L!Refused(r) PROVE L!TypeOK'
    BY <2>4 DEF L!Refused
  <2>5. ASSUME NEW r \in Runs, L!ReadDirectory(r) PROVE L!TypeOK'
    BY <2>5 DEF L!ReadDirectory
  <2>6. ASSUME NEW r \in Runs, L!Examine(r) PROVE L!TypeOK'
    BY <2>6 DEF L!Examine, L!Unvisited
  <2>7. ASSUME NEW r \in Runs, L!ProbeLock(r) PROVE L!TypeOK'
    BY <2>7 DEF L!ProbeLock, L!CanTakeExclusively
  <2>8. ASSUME NEW r \in Runs, L!ProbeFails(r) PROVE L!TypeOK'
    BY <2>8 DEF L!ProbeFails
  <2>9. ASSUME NEW r \in Runs, L!ProbeUnlock(r) PROVE L!TypeOK'
    BY <2>9 DEF L!ProbeUnlock
  <2>10. ASSUME NEW r \in Runs, L!RemoveLockFile(r) PROVE L!TypeOK'
    BY <2>10 DEF L!RemoveLockFile
  <2>11. ASSUME NEW r \in Runs, L!SweepDone(r) PROVE L!TypeOK'
    BY <2>11 DEF L!SweepDone
  <2>12. ASSUME NEW r \in Runs, L!Release(r) PROVE L!TypeOK'
    BY <2>12 DEF L!Release
  <2>13. ASSUME NEW r \in Runs, L!Crash(r) PROVE L!TypeOK'
    BY <2>13 DEF L!Crash, L!WithoutLocksOf
  <2>14. ASSUME NEW f \in LockFiles, L!Age(f) PROVE L!TypeOK'
    BY <2>14 DEF L!Age
  <2>15. CASE UNCHANGED L!vars
    BY <2>15 DEF L!vars
  <2> QED
    BY <2>1, <2>2, <2>3, <2>4, <2>5, <2>6, <2>7, <2>8, <2>9, <2>10, <2>11,
       <2>12, <2>13, <2>14, <2>15 DEF L!Next, L!RunStep
<1> QED
  BY <1>1, <1>2, PTL DEF L!Spec

-----------------------------------------------------------------------------
\* However many volumes are under pressure, a lock is only ever held through a
\* handle of a process that is alive and inside its run: a killed run blocks
\* nobody.
THEOREM LockIsLive ==
  ASSUME L!LockAssumption
  PROVE  L!Spec => []LockHeldOnlyByLiveRun
<1> USE DEF L!LockAssumption
<1>1. L!Init => LockHeldOnlyByLiveRun
  BY DEF L!Init, LockHeldOnlyByLiveRun, L!LockHeldOnlyByLiveRun
<1>2. L!TypeOK /\ LockHeldOnlyByLiveRun /\ [L!Next]_(L!vars) => LockHeldOnlyByLiveRun'
  <2> SUFFICES ASSUME L!TypeOK, LockHeldOnlyByLiveRun, [L!Next]_(L!vars)
               PROVE  LockHeldOnlyByLiveRun'
    OBVIOUS
  <2> USE DEF L!TypeOK, LockHeldOnlyByLiveRun, L!LockHeldOnlyByLiveRun, L!Holding,
              L!HoldingStates, L!directory, L!sweep
  <2>1. ASSUME NEW r \in Runs, L!Begin(r) PROVE LockHeldOnlyByLiveRun'
    BY <2>1 DEF L!Begin
  <2>2. ASSUME NEW r \in Runs, L!OpenLockFile(r) PROVE LockHeldOnlyByLiveRun'
    BY <2>2 DEF L!OpenLockFile
  <2>3. ASSUME NEW r \in Runs, L!TakeLock(r) PROVE LockHeldOnlyByLiveRun'
    BY <2>3 DEF L!TakeLock
  <2>4. ASSUME NEW r \in Runs, L!Refused(r) PROVE LockHeldOnlyByLiveRun'
    BY <2>4 DEF L!Refused
  <2>5. ASSUME NEW r \in Runs, L!ReadDirectory(r) PROVE LockHeldOnlyByLiveRun'
    BY <2>5 DEF L!ReadDirectory
  <2>6. ASSUME NEW r \in Runs, L!Examine(r) PROVE LockHeldOnlyByLiveRun'
    BY <2>6 DEF L!Examine
  <2>7. ASSUME NEW r \in Runs, L!ProbeLock(r) PROVE LockHeldOnlyByLiveRun'
    BY <2>7 DEF L!ProbeLock, L!CanTakeExclusively
  <2>8. ASSUME NEW r \in Runs, L!ProbeFails(r) PROVE LockHeldOnlyByLiveRun'
    BY <2>8 DEF L!ProbeFails
  <2>9. ASSUME NEW r \in Runs, L!ProbeUnlock(r) PROVE LockHeldOnlyByLiveRun'
    BY <2>9 DEF L!ProbeUnlock
  <2>10. ASSUME NEW r \in Runs, L!RemoveLockFile(r) PROVE LockHeldOnlyByLiveRun'
    BY <2>10 DEF L!RemoveLockFile
  <2>11. ASSUME NEW r \in Runs, L!SweepDone(r) PROVE LockHeldOnlyByLiveRun'
    BY <2>11 DEF L!SweepDone
  <2>12. ASSUME NEW r \in Runs, L!Release(r) PROVE LockHeldOnlyByLiveRun'
    BY <2>12 DEF L!Release
  <2>13. ASSUME NEW r \in Runs, L!Crash(r) PROVE LockHeldOnlyByLiveRun'
    BY <2>13 DEF L!Crash, L!WithoutLocksOf
  <2>14. ASSUME NEW f \in LockFiles, L!Age(f) PROVE LockHeldOnlyByLiveRun'
    BY <2>14 DEF L!Age
  <2>15. CASE UNCHANGED L!vars
    BY <2>15 DEF L!vars
  <2> QED
    BY <2>1, <2>2, <2>3, <2>4, <2>5, <2>6, <2>7, <2>8, <2>9, <2>10, <2>11,
       <2>12, <2>13, <2>14, <2>15 DEF L!Next, L!RunStep
<1> QED
  BY <1>1, <1>2, LockTypeCorrect, PTL DEF L!Spec

-----------------------------------------------------------------------------
\* The strengthening of MutualExclusion: a run that opened the lock file still
\* has the file the name leads to, and a probe never has that file.
HandleIsTheName ==
    \A r \in Runs :
        at[r] \notin {"idle", "opening"} =>
            handle[r] # NoFile /\ handle[r] = name[volume[r]]

HolderOwns == \A r \in Runs : L!Holding(r) => owner[handle[r]] = r

ProbeIsElsewhere ==
    \A r \in Runs :
        /\ at[r] \in {"probing", "probed"} => cursor[r] \notin Pressured
        /\ at[r] = "probing" => /\ probe[r] # NoFile
                                /\ owner[probe[r]] = r
                                /\ probe[r] # handle[r]

LockInv == HandleIsTheName /\ HolderOwns /\ ProbeIsElsewhere

\* It holds as long as all runs are on one volume.
LEMMA LockInvariance ==
  ASSUME L!LockAssumption, NEW v \in Volumes, Pressured = {v}
  PROVE  L!Spec => []LockInv
<1> USE DEF L!LockAssumption
<1>1. L!Init => LockInv
  BY DEF L!Init, LockInv, HandleIsTheName, HolderOwns, ProbeIsElsewhere,
         L!Holding, L!HoldingStates
<1>2. L!TypeOK /\ LockInv /\ [L!Next]_(L!vars) => LockInv'
  <2> SUFFICES ASSUME L!TypeOK, LockInv, [L!Next]_(L!vars) PROVE LockInv'
    OBVIOUS
  <2> USE DEF L!TypeOK, LockInv, HandleIsTheName, HolderOwns, ProbeIsElsewhere,
              L!Holding, L!HoldingStates, L!directory, L!sweep
  <2>1. ASSUME NEW r \in Runs, L!Begin(r) PROVE LockInv'
    BY <2>1 DEF L!Begin
  <2>2. ASSUME NEW r \in Runs, L!OpenLockFile(r) PROVE LockInv'
    BY <2>2 DEF L!OpenLockFile
  <2>3. ASSUME NEW r \in Runs, L!TakeLock(r) PROVE LockInv'
    BY <2>3 DEF L!TakeLock, L!Locked
  <2>4. ASSUME NEW r \in Runs, L!Refused(r) PROVE LockInv'
    BY <2>4 DEF L!Refused
  <2>5. ASSUME NEW r \in Runs, L!ReadDirectory(r) PROVE LockInv'
    BY <2>5 DEF L!ReadDirectory
  <2>6. ASSUME NEW r \in Runs, L!Examine(r) PROVE LockInv'
    BY <2>6 DEF L!Examine
  <2>7. ASSUME NEW r \in Runs, L!ProbeLock(r) PROVE LockInv'
    BY <2>7 DEF L!ProbeLock, L!CanTakeExclusively, L!Locked
  <2>8. ASSUME NEW r \in Runs, L!ProbeFails(r) PROVE LockInv'
    BY <2>8 DEF L!ProbeFails
  <2>9. ASSUME NEW r \in Runs, L!ProbeUnlock(r) PROVE LockInv'
    BY <2>9 DEF L!ProbeUnlock
  <2>10. ASSUME NEW r \in Runs, L!RemoveLockFile(r) PROVE LockInv'
    BY <2>10 DEF L!RemoveLockFile
  <2>11. ASSUME NEW r \in Runs, L!SweepDone(r) PROVE LockInv'
    BY <2>11 DEF L!SweepDone
  <2>12. ASSUME NEW r \in Runs, L!Release(r) PROVE LockInv'
    BY <2>12 DEF L!Release
  <2>13. ASSUME NEW r \in Runs, L!Crash(r) PROVE LockInv'
    BY <2>13 DEF L!Crash, L!WithoutLocksOf
  <2>14. ASSUME NEW f \in LockFiles, L!Age(f) PROVE LockInv'
    BY <2>14 DEF L!Age
  <2>15. CASE UNCHANGED L!vars
    BY <2>15 DEF L!vars
  <2> QED
    BY <2>1, <2>2, <2>3, <2>4, <2>5, <2>6, <2>7, <2>8, <2>9, <2>10, <2>11,
       <2>12, <2>13, <2>14, <2>15 DEF L!Next, L!RunStep
<1> QED
  BY <1>1, <1>2, LockTypeCorrect, PTL DEF L!Spec

\* While every run is on one and the same volume, the leftovers of other
\* volumes may be swept at any moment and at most one run operates.
THEOREM SoleVolumeExclusion ==
  ASSUME L!LockAssumption, NEW v \in Volumes, Pressured = {v}
  PROVE  L!Spec => []MutualExclusion
<1> USE DEF L!LockAssumption
<1>1. LockInv => MutualExclusion
  BY DEF LockInv, HandleIsTheName, HolderOwns, MutualExclusion, L!MutualExclusion,
         L!Holding, L!HoldingStates
<1> QED
  BY <1>1, LockInvariance, PTL

\* And a run that is turned away with ALREADY_RUNNING is turned away by another
\* one that operates on the volume: no sweep, probe or dead process ever does it.
THEOREM RefusalIsTrue ==
  ASSUME L!LockAssumption, NEW v \in Volumes, Pressured = {v}
  PROVE  L!Spec => RefusedOnlyByAnotherRun
<1> USE DEF L!LockAssumption
<1>1. ASSUME L!TypeOK, LockInv, LockHeldOnlyByLiveRun, NEW r \in Runs, L!Refused(r)
      PROVE  \E s \in Runs \ {r} : L!Holding(s) /\ volume[s] = volume[r]
  <2>1. at[r] = "opened" /\ handle[r] # NoFile /\ handle[r] = name[v] /\ volume[r] = v
    BY <1>1 DEF L!Refused, LockInv, HandleIsTheName, L!TypeOK
  <2>2. PICK s \in Runs : owner[handle[r]] = s
    BY <1>1, <2>1 DEF L!Refused, L!Locked, L!TypeOK
  <2>3. handle[r] \in LockFiles
    BY <1>1, <2>1 DEF L!TypeOK
  <2>4. \/ L!Holding(s) /\ handle[s] = handle[r]
        \/ at[s] = "probing" /\ probe[s] = handle[r]
    BY <1>1, <2>2, <2>3 DEF LockHeldOnlyByLiveRun, L!LockHeldOnlyByLiveRun
  <2>5. at[s] # "probing" \/ probe[s] # handle[r]
    BY <1>1, <2>1 DEF LockInv, HandleIsTheName, ProbeIsElsewhere, L!TypeOK
  <2>6. L!Holding(s) /\ s # r /\ volume[s] = v
    BY <1>1, <2>1, <2>4, <2>5 DEF L!Holding, L!HoldingStates, L!TypeOK
  <2> QED
    BY <2>1, <2>6
<1>2. L!TypeOK /\ LockInv /\ LockHeldOnlyByLiveRun /\ [L!Next]_(L!vars) =>
        [\A r \in Runs :
            L!Refused(r) => \E s \in Runs \ {r} : L!Holding(s) /\ volume[s] = volume[r]]_(L!vars)
  BY <1>1
<1> QED
  BY <1>2, LockTypeCorrect, LockInvariance, LockIsLive, PTL
     DEF L!Spec, RefusedOnlyByAnotherRun, L!RefusedOnlyByAnotherRun

-----------------------------------------------------------------------------
(* Side by side.                                                           *)

\* A step of one adapter is a step of it and leaves the others alone.
LEMMA EachForItself ==
    ASSUME [AdaptersNext]_avars
    PROVE  [Next]_rvars /\ [E!Next]_(E!evars) /\ [S!Next]_(S!svars) /\ [L!Next]_(L!vars)
BY DEF AdaptersNext, avars, evars, svars, lvars, E!evars, S!svars, L!vars

LEMMA AdaptersRefine == AdaptersSpec => Spec /\ E!Spec /\ S!Spec /\ L!Spec
<1>1. AdaptersInit => Init /\ E!Init /\ S!Init /\ L!Init
  BY DEF AdaptersInit
<1>2. [AdaptersNext]_avars =>
          [Next]_rvars /\ [E!Next]_(E!evars) /\ [S!Next]_(S!svars) /\ [L!Next]_(L!vars)
  BY EachForItself
<1> QED
  BY <1>1, <1>2, PTL DEF AdaptersSpec, Spec, E!Spec, S!Spec, L!Spec

\* The shape of the state holds in every reachable state of the four together.
THEOREM AdaptersTypeCorrect == AdaptersSpec => []AdaptersTypeOK
<1>1. E!EnrolmentAssumption /\ S!SchedulerAssumption /\ L!LockAssumption
  BY AdaptersAssumption
<1>2. RunnerInv /\ EnrolmentInv /\ ScheduleInv /\ L!TypeOK => AdaptersTypeOK
  BY DEF AdaptersTypeOK, RunnerInv, EnrolmentInv, ScheduleInv
<1> QED
  BY <1>1, <1>2, AdaptersRefine, RunnerInvariant, EnrolmentInvariant, ScheduleInvariant,
     LockTypeCorrect, PTL

\* What each of the four promises holds of them together as well.
THEOREM AdaptersAreSound ==
    AdaptersSpec => /\ CommandSpec
                    /\ [](OutputIsWhole /\ OnlyRecentPnpmPasses
                          /\ EnabledMeansScheduled /\ DisabledMeansGone
                          /\ LockHeldOnlyByLiveRun)
<1>1. E!EnrolmentAssumption /\ S!SchedulerAssumption /\ L!LockAssumption
  BY AdaptersAssumption
<1>2. /\ E!Spec => []OnlyRecentPnpmPasses
      /\ S!Spec => []EnabledMeansScheduled
      /\ S!Spec => []DisabledMeansGone
      /\ L!Spec => []LockHeldOnlyByLiveRun
  BY <1>1, GateIsSound, EnabledIsTrue, DisabledIsTrue, LockIsLive
<1> QED
  BY <1>2, AdaptersRefine, NothingLost, KeepsPromise, PTL

\* So do the promises of the lock that need all runs to be on one volume.
THEOREM LockIsSound ==
    ASSUME NEW v \in Volumes, Pressured = {v}
    PROVE  AdaptersSpec => []MutualExclusion /\ RefusedOnlyByAnotherRun
<1>1. L!LockAssumption
  BY AdaptersAssumption
<1>2. (L!Spec => []MutualExclusion) /\ (L!Spec => RefusedOnlyByAnotherRun)
  BY <1>1, SoleVolumeExclusion, RefusalIsTrue
<1> QED
  BY <1>2, AdaptersRefine, PTL
=============================================================================
