----------------------------- MODULE MCExecutor -----------------------------
(***************************************************************************)
(* Executor for TLC.  The run starts from two families of states that an   *)
(* Executor reaches, which put the bounds to different use: one check by   *)
(* itself while others work on its workspaces, and two checks that may     *)
(* overlap.  The liveness property rules symmetry out, so what is          *)
(* interchangeable is named instead: First begins before Second, and the   *)
(* one workspace that others touch is Touched.                             *)
(***************************************************************************)
EXTENDS Executor

CONSTANTS First, Second, Touched, Untouched1, Untouched2

MCRuns == {First, Second}
MCWorkspaces == {Touched, Untouched1, Untouched2}

\* Second was killed before it did anything; every workspace is proven.
Alone ==
    /\ pc = [r \in Runs |-> IF r = Second THEN "exited" ELSE "idle"]
    /\ clock = MaxClock
    /\ changes = 0
    /\ facts = [w \in Workspaces |-> "proven"]

\* One workspace to clean, the clock running, and nobody else at work.
Together ==
    /\ pc = [r \in Runs |-> "idle"]
    /\ clock = 0
    /\ changes = MaxChanges
    /\ facts = [w \in Workspaces |-> IF w = Touched THEN "proven" ELSE "active"]

MCInit ==
    /\ Alone \/ Together
    /\ pnpmSame = TRUE
    /\ lock = NoRun
    /\ children = {}
    /\ ledger = [w \in Workspaces |-> Untouched]
    /\ journal = [r \in Runs |-> <<>>]
    /\ row = [r \in Runs |-> "absent"]
    /\ mem = [r \in Runs |-> NoMemory]
    /\ report = [r \in Runs |-> "none"]

\* Bound, in the second family: a measurement after an action fails, which
\* leaves the figure as it was, or finds the target.
Rough ==
    facts[Untouched1] = "active" => \A r \in Runs :
        pc[r] \in {"cleaned", "closing"} => mem[r].freeAfter \in {Unmeasured, Target}

MCStep(r) ==
    \/ MeasureBeforeLock(r) \/ TakeLock(r) \/ BeginRun(r)
    \/ JournalNext(r) \/ JournalPostCleanPrune(r)
    \/ BeginValidation(r) \/ Refuse(r) \/ Authorise(r)
    \/ PerformInProcess(r) /\ Rough'
    \/ StartCommand(r)
    \/ CommandEnds(r) /\ Rough'
    \/ RecordCleaned(r) \/ CloseAction(r) \/ FinishRun(r) \/ Return(r)

MCNext ==
    \/ StartCheck(First)
    \/ pc[First] # "idle" /\ StartCheck(Second)
    \/ \E r \in Runs : MCStep(r) \/ Abort(r) \/ OrphanEnds(r)
    \/ Tick \/ PnpmReplaced \/ FactsChange(Touched) \/ SetProtected(Touched)

MCSpec == MCInit /\ [][MCNext]_vars /\ \A r \in Runs : WF_vars(RunStep(r))
=============================================================================
