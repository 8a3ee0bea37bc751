------------------------------ MODULE Executor ------------------------------
(***************************************************************************)
(* One volume under pressure: the check workflow (workflows.rs) and the    *)
(* threshold loop it enters (executor.rs), with the journal and the ledger *)
(* the runs share.  A member of Runs is one invocation of `check`; any of  *)
(* its steps may be its last (the process is killed, or the state store    *)
(* returns an error and `?` ends the run).                                 *)
(*                                                                         *)
(* The volume lock is a single variable here: Adapters_proofs shows that   *)
(* it excludes as long as runs are on one volume.  Disk levels, gates and  *)
(* commands are reduced to the outcomes the loop tells apart.              *)
(*                                                                         *)
(* Definitions named X_Bug are mistakes somebody could make in X; no       *)
(* specification uses them, the runs are shown to notice them.             *)
(***************************************************************************)
EXTENDS JournalStates, FiniteSets, FiniteSetsExt

CONSTANTS
    Runs, Workspaces, NoWorkspace, NoRun,
    FreeLevels,        \* what capacity_for can report
    Unmeasured,        \* it failed
    Minimum, Target,   \* Config: minimum_free and target_free
    Facts,             \* the live facts about a workspace that may arise
    PlanValidity, Cooldown,   \* in ticks of the clock
    MaxCleans,         \* MAX_AUTOMATIC_WORKSPACE_CLEANS
    MaxPostClean,      \* MAX_POST_CLEAN_STORE_PRUNES
    Never,             \* a NULL last_cleaned_at
    MaxClock,          \* bound: ticks of the clock
    MaxLive,           \* bound: invocations alive at once
    MaxChanges         \* bound: changes others make to workspaces and pnpm

\* The outcome of the gates that look outside the ledger, in planner order:
\* identity, protection found in the file system, git, process liveness.
\* "proven" passes them all.
AllFacts ==
    {"proven", "moved", "shielded", "dirty", "git_unknown", "active", "liveness_unknown"}

ASSUME ExecutorAssumption ==
    /\ NoRun \notin Runs
    /\ NoWorkspace \notin Workspaces /\ IsFiniteSet(Workspaces)
    /\ FreeLevels \subseteq Nat
    /\ Unmeasured \notin FreeLevels
    /\ Minimum \in Nat /\ Target \in Nat /\ Minimum < Target
    /\ Facts \subseteq AllFacts
    /\ PlanValidity \in Nat /\ Cooldown \in Nat
    /\ MaxCleans \in Nat /\ MaxPostClean \in Nat
    /\ Never \notin Nat
    /\ MaxClock \in Nat /\ MaxLive \in Nat /\ MaxChanges \in Nat

VARIABLES
    \* The machine
    clock,
    changes,    \* changes made so far by others, for the bound
    facts,      \* facts[w]: what the identity, git and liveness gates would find
    pnpmSame,   \* the pnpm on disk is the file that was enrolled
    lock,       \* the run holding the volume lock, or NoRun
    children,   \* runs whose pnpm process is alive, which outlives a killed run
    \* The state file
    ledger,     \* ledger[w]: protected, cleaned (last_cleaned_at)
    journal,    \* journal[r]: the run_actions rows of r
    row,        \* row[r]: its row in runs: absent, open or a result
    \* Each invocation
    pc,
    mem,        \* mem[r]: what the process has in memory, see Memory
    report      \* report[r]: the RunResult returned, "none" before

machine == <<clock, changes, facts, pnpmSame>>
store == <<ledger, journal, row>>
vars == <<machine, lock, children, store, pc, mem, report>>

Entry == [action : Actions, workspace : Workspaces \cup {NoWorkspace},
          state : ActionStates, freeAfter : FreeLevels \cup {Unmeasured}]

PlannedAction == [action : Actions, workspace : Workspaces \cup {NoWorkspace}]

LedgerRecord == [protected : BOOLEAN, cleaned : Nat \cup {Never}]

\* ExecutionInputs and LoopState of an invocation.
Memory ==
    [seen : [Workspaces -> LedgerRecord],  \* what list_workspaces returned
     enrolled : BOOLEAN,            \* a usable pnpm enrolment was read
     plan : Seq(PlannedAction),
     capped : BOOLEAN,              \* the cap alone kept an eligible workspace out
     expires : Nat,                 \* when the plan expires
     next : Nat \ {0},              \* index of the next action of the plan
     free : Nat,                    \* LoopState::free
     postCleans : Nat,              \* LoopState::post_clean_prunes
     uncertain : BOOLEAN,           \* LoopState::snapshot_uncertain
     ok : BOOLEAN,                  \* how the action in hand ended
     freeAfter : FreeLevels \cup {Unmeasured}]   \* ... and what was measured then

Untouched == [protected |-> FALSE, cleaned |-> Never]

NoMemory ==
    [seen |-> [w \in Workspaces |-> Untouched], enrolled |-> FALSE, plan |-> <<>>,
     capped |-> FALSE, expires |-> 0, next |-> 1, free |-> 0, postCleans |-> 0,
     uncertain |-> FALSE, ok |-> FALSE, freeAfter |-> Unmeasured]

PcStates ==
    {"idle", "planned", "pressed", "locked", "between", "recorded", "validating",
     "running", "waiting", "cleaned", "closing", "finished", "exited"}

Live(r) == pc[r] \notin {"idle", "exited"}

-----------------------------------------------------------------------------
(* The planner as far as the loop depends on it.                           *)

Action(a, w) == [action |-> a, workspace |-> w]

\* The first check that fails decides; "PROVEN" when none does.
FirstFailing(checks) ==
    LET F == {i \in DOMAIN checks : checks[i].fails}
    IN  IF F = {} THEN "PROVEN" ELSE checks[Min(F)].skip

Check(fails, skip) == [fails |-> fails, skip |-> skip]

\* One tick off: the cooldown is over when its last tick begins.
Cooling_OneShort(record) ==
    record.cleaned # Never /\ clock + 1 - record.cleaned < Cooldown

Cooling(record) == record.cleaned # Never /\ clock - record.cleaned < Cooldown

\* evaluate_workspace: the gates in their order, given the ledger l and whether
\* an enrolment e was read.
Gates(w, l, e) ==
    << Check(facts[w] = "moved",            "SKIPPED_CHANGED"),
       Check(l[w].protected \/ facts[w] = "shielded", "SKIPPED_PROTECTED"),
       Check(~(e /\ pnpmSame),              "SKIPPED_CHANGED"),
       Check(facts[w] = "dirty",            "SKIPPED_CHANGED"),
       Check(facts[w] = "git_unknown",      "SKIPPED_UNKNOWN"),
       Check(Cooling(l[w]),                 "SKIPPED_CHANGED"),
       Check(facts[w] = "active",           "SKIPPED_ACTIVE"),
       Check(facts[w] = "liveness_unknown", "SKIPPED_UNKNOWN") >>

Eligible(l, e) == {w \in Workspaces : FirstFailing(Gates(w, l, e)) = "PROVEN"}

\* The workspaces a plan may take, at most MaxCleans of them, in any order: the
\* order of activity is the planner's business.
Selections(S) ==
    LET n == IF Cardinality(S) < MaxCleans THEN Cardinality(S) ELSE MaxCleans
    IN  {s \in [1..n -> S] : \A i, j \in 1..n : s[i] = s[j] => i = j}

\* plan(): own state, then the store prune if pnpm passes its gate, then cleans.
PlanOf(selection, e) ==
    << Action("clean_terminal_janitor_state", NoWorkspace) >>
    \o (IF e /\ pnpmSame THEN << Action("pnpm_store_prune", NoWorkspace) >> ELSE <<>>)
    \o [i \in DOMAIN selection |-> Action("pnpm_workspace_clean", selection[i])]

-----------------------------------------------------------------------------
(* The journal rows.                                                       *)

Planned(a) == PlannedRow(a.action, a.workspace, Unmeasured)

InHand(r) == LastOf(journal[r])

\* advance_action and finish_action: the row of the action in hand.
Amended(r, state, freeAfter) ==
    [journal EXCEPT ![r][Len(journal[r])] = WithState(InHand(r), state, freeAfter)]

StatesOf(r) == {journal[r][i].state : i \in DOMAIN journal[r]}

FailedRun(r) == "FAILED" \in StatesOf(r)

\* The prune follows a clean that restored the target, too.
PostCleanDue_AnyLevel(r) ==
    /\ journal[r] # <<>>
    /\ InHand(r).action = "pnpm_workspace_clean"
    /\ ~FailedRun(r)
    /\ mem[r].postCleans < MaxPostClean
    /\ mem[r].enrolled

\* The one permitted post-clean store prune comes right after the run_one of a
\* workspace clean, however that ended short of a command failure.
PostCleanDue(r) ==
    /\ journal[r] # <<>>
    /\ InHand(r).action = "pnpm_workspace_clean"
    /\ ~FailedRun(r)
    /\ mem[r].free < Target
    /\ mem[r].postCleans < MaxPostClean
    /\ mem[r].enrolled

\* Actions left when the loop stops at the target.
Unattempted(r) == IF mem[r].free >= Target THEN Len(mem[r].plan) + 1 - mem[r].next ELSE 0

\* classify(): the first rule that applies.
Classify(r) ==
    LET succeeded == "SUCCEEDED" \in StatesOf(r)
        skips == StatesOf(r) \cap SkipStates
    IN  IF FailedRun(r) THEN "FAILED_COMMAND"
        ELSE IF mem[r].free >= Target THEN "OK_TARGET_RESTORED"
        ELSE IF mem[r].uncertain THEN "SKIPPED_SNAPSHOT_CAPACITY_UNCERTAIN"
        ELSE IF succeeded /\ Unattempted(r) > 0 THEN "OK_PARTIAL_SAFE_RECLAIM"
        ELSE IF ~succeeded /\ skips = {"SKIPPED_PROTECTED"} THEN "SKIPPED_PROTECTED"
        ELSE IF ~succeeded /\ skips \cap {"SKIPPED_UNKNOWN", "SKIPPED_ACTIVE"} # {}
             THEN "SKIPPED_ACTIVITY_UNCERTAIN"
        ELSE "SHORTFALL_SAFE_ACTIONS_EXHAUSTED"

-----------------------------------------------------------------------------
Init ==
    /\ clock = 0
    /\ changes = 0
    /\ facts \in [Workspaces -> Facts]
    /\ pnpmSame = TRUE
    /\ lock = NoRun
    /\ children = {}
    /\ ledger = [w \in Workspaces |-> Untouched]
    /\ journal = [r \in Runs |-> <<>>]
    /\ row = [r \in Runs |-> "absent"]
    /\ pc = [r \in Runs |-> "idle"]
    /\ mem = [r \in Runs |-> NoMemory]
    /\ report = [r \in Runs |-> "none"]

\* The run ends here with this report: its memory goes, and so does the lock
\* guard.
Exit(r, result) ==
    /\ pc' = [pc EXCEPT ![r] = "exited"]
    /\ report' = [report EXCEPT ![r] = result]
    /\ lock' = IF lock = r THEN NoRun ELSE lock
    /\ mem' = [mem EXCEPT ![r] = NoMemory]

Goto(r, state) == pc' = [pc EXCEPT ![r] = state] /\ UNCHANGED report

\* check(): the ledger and the enrolment are read once, and the plan built on
\* them, before anything is measured or locked.
StartCheck(r) ==
    /\ pc[r] = "idle"
    /\ Cardinality({s \in Runs : Live(s)}) < MaxLive
    /\ \E e \in BOOLEAN :
         LET eligible == Eligible(ledger, e) IN
         \E selection \in Selections(eligible) :
            mem' = [mem EXCEPT ![r] =
                      [@ EXCEPT !.seen = ledger,
                                !.enrolled = e,
                                !.plan = PlanOf(selection, e),
                                !.capped = Cardinality(eligible) > MaxCleans,
                                !.expires = clock + PlanValidity]]
    /\ Goto(r, "planned")
    /\ UNCHANGED <<machine, lock, children, store>>

\* measure() before the lock: above minimum_free nothing is locked or journalled.
MeasureBeforeLock(r) ==
    /\ pc[r] = "planned"
    /\ \E m \in FreeLevels \cup {Unmeasured} :
         \/ m = Unmeasured /\ Exit(r, "FAILED_STORAGE_MEASUREMENT")
         \/ m # Unmeasured /\ m >= Minimum /\ Exit(r, "OK_NO_PRESSURE")
         \/ m # Unmeasured /\ m < Minimum /\ Goto(r, "pressed") /\ UNCHANGED <<lock, mem>>
    /\ UNCHANGED <<machine, children, store>>

\* The guard is bound to _ and dropped on the spot.
TakeLock_DroppedAtOnce(r) ==
    /\ pc[r] = "pressed"
    /\ \/ lock = NoRun /\ Goto(r, "locked") /\ UNCHANGED <<lock, mem>>
       \/ lock # NoRun /\ Exit(r, "ALREADY_RUNNING")
    /\ UNCHANGED <<machine, children, store>>

\* VolumeLock::acquire.
TakeLock(r) ==
    /\ pc[r] = "pressed"
    /\ \/ lock = NoRun /\ lock' = r /\ Goto(r, "locked") /\ UNCHANGED mem
       \/ lock # NoRun /\ Exit(r, "ALREADY_RUNNING")
    /\ UNCHANGED <<machine, children, store>>

\* measure() under the lock, then begin_run.
BeginRun(r) ==
    /\ pc[r] = "locked"
    /\ \E m \in FreeLevels \cup {Unmeasured} :
         \/ m = Unmeasured /\ Exit(r, "FAILED_STORAGE_MEASUREMENT") /\ UNCHANGED row
         \/ m # Unmeasured /\ m >= Minimum /\ Exit(r, "OK_NO_PRESSURE") /\ UNCHANGED row
         \/ /\ m # Unmeasured /\ m < Minimum
            /\ row' = [row EXCEPT ![r] = "open"]
            /\ mem' = [mem EXCEPT ![r].free = m]
            /\ Goto(r, "between")
            /\ UNCHANGED lock
    /\ UNCHANGED <<machine, children, ledger, journal>>

-----------------------------------------------------------------------------
(* The loop.  "between" is the top of the loop and the point after run_one. *)

\* No break after a command failure.
LoopGoesOn_PastFailure(r) == mem[r].next <= Len(mem[r].plan) /\ mem[r].free < Target

LoopGoesOn(r) == ~FailedRun(r) /\ mem[r].next <= Len(mem[r].plan) /\ mem[r].free < Target

\* record_planned_action for the next action of the plan.
JournalNext(r) ==
    /\ pc[r] = "between"
    /\ ~PostCleanDue(r)
    /\ LoopGoesOn(r)
    /\ journal' = [journal EXCEPT ![r] = Append(@, Planned(mem[r].plan[mem[r].next]))]
    /\ mem' = [mem EXCEPT ![r].next = @ + 1]
    /\ Goto(r, "recorded")
    /\ UNCHANGED <<machine, lock, children, ledger, row>>

\* The prune is not counted.
JournalPostCleanPrune_Uncounted(r) ==
    /\ pc[r] = "between"
    /\ PostCleanDue(r)
    /\ journal' = [journal EXCEPT ![r] =
                      Append(@, Planned(Action("pnpm_store_prune", NoWorkspace)))]
    /\ Goto(r, "recorded")
    /\ UNCHANGED <<machine, lock, children, ledger, row, mem>>

\* record_planned_action for the post-clean store prune.
JournalPostCleanPrune(r) ==
    /\ pc[r] = "between"
    /\ PostCleanDue(r)
    /\ journal' = [journal EXCEPT ![r] =
                      Append(@, Planned(Action("pnpm_store_prune", NoWorkspace)))]
    /\ mem' = [mem EXCEPT ![r].postCleans = @ + 1]
    /\ Goto(r, "recorded")
    /\ UNCHANGED <<machine, lock, children, ledger, row>>

\* advance_action(Validating).
BeginValidation(r) ==
    /\ pc[r] = "recorded"
    /\ journal' = Amended(r, "VALIDATING", Unmeasured)
    /\ Goto(r, "validating")
    /\ UNCHANGED <<machine, lock, children, ledger, row, mem>>

\* What run_one asks before it runs the action in hand, when capacity_confidence
\* is SnapshotUncertain iff u: the ledger is the one seen when the plan was built,
\* and only a workspace clean is asked the gates again.
Checks(r, u) ==
    LET clean == InHand(r).action = "pnpm_workspace_clean" IN
    << Check(clean /\ u,               "SKIPPED_UNKNOWN"),
       Check(clock >= mem[r].expires,  "SKIPPED_CHANGED") >>
    \o (IF clean THEN Gates(InHand(r).workspace, mem[r].seen, mem[r].enrolled) ELSE <<>>)

\* A refused action is validated again instead of being skipped for good.
Refuse_Retried(r) ==
    /\ pc[r] = "validating"
    /\ \E u \in BOOLEAN :
         /\ FirstFailing(Checks(r, u)) \in SkipStates
         /\ journal' = Amended(r, FirstFailing(Checks(r, u)), Unmeasured)
    /\ Goto(r, "recorded")
    /\ UNCHANGED <<machine, lock, children, ledger, row, mem>>

\* finish_action with a skip.
Refuse(r) ==
    /\ pc[r] = "validating"
    /\ \E u \in BOOLEAN :
         /\ FirstFailing(Checks(r, u)) \in SkipStates
         /\ journal' = Amended(r, FirstFailing(Checks(r, u)), Unmeasured)
         /\ mem' = [mem EXCEPT ![r].uncertain =
                       @ \/ (u /\ InHand(r).action = "pnpm_workspace_clean")]
    /\ Goto(r, "between")
    /\ UNCHANGED <<machine, lock, children, ledger, row>>

\* The action is run without having been marked RUNNING.
Authorise_Unwritten(r) ==
    /\ pc[r] = "validating"
    /\ \E u \in BOOLEAN : FirstFailing(Checks(r, u)) = "PROVEN"
    /\ Goto(r, "running")
    /\ UNCHANGED <<machine, lock, children, store, mem>>

\* advance_action(Running).
Authorise(r) ==
    /\ pc[r] = "validating"
    /\ \E u \in BOOLEAN : FirstFailing(Checks(r, u)) = "PROVEN"
    /\ journal' = Amended(r, "RUNNING", Unmeasured)
    /\ Goto(r, "running")
    /\ UNCHANGED <<machine, lock, children, ledger, row, mem>>

\* A failed measurement overwrites LoopState::free.
Measured_Regardless(r, ok, m) ==
    mem' = [mem EXCEPT ![r].ok = ok, ![r].freeAfter = m, ![r].free = m]

\* measure() after the action; a failed measurement leaves LoopState::free.
Measured(r, ok, m) ==
    mem' = [mem EXCEPT ![r].ok = ok,
                       ![r].freeAfter = m,
                       ![r].free = IF m = Unmeasured THEN @ ELSE m]

\* perform() without a process of its own: the own-state sweep, or a pnpm that
\* could not be started.
PerformInProcess(r) ==
    /\ pc[r] = "running"
    /\ \E ok \in BOOLEAN, m \in FreeLevels \cup {Unmeasured} :
         /\ ok => InHand(r).action = "clean_terminal_janitor_state"
         /\ Measured(r, ok, m)
    /\ Goto(r, "closing")
    /\ UNCHANGED <<machine, lock, children, store>>

\* perform(): CommandRunner::run spawns pnpm.
StartCommand(r) ==
    /\ pc[r] = "running"
    /\ InHand(r).action # "clean_terminal_janitor_state"
    /\ children' = children \cup {r}
    /\ Goto(r, "waiting")
    /\ UNCHANGED <<machine, lock, store, mem>>

\* The clean is recorded only when what it freed could be measured.
CommandEnds_MeasuredOnly(r) ==
    /\ pc[r] = "waiting"
    /\ children' = children \ {r}
    /\ \E ok \in BOOLEAN, m \in FreeLevels \cup {Unmeasured} :
         /\ Measured(r, ok, m)
         /\ Goto(r, IF ok /\ m # Unmeasured /\ InHand(r).action = "pnpm_workspace_clean"
                    THEN "cleaned" ELSE "closing")
    /\ UNCHANGED <<machine, lock, store>>

\* pnpm ends within CLEANUP_TIMEOUT, or is killed and counts as a failure.
CommandEnds(r) ==
    /\ pc[r] = "waiting"
    /\ children' = children \ {r}
    /\ \E ok \in BOOLEAN, m \in FreeLevels \cup {Unmeasured} :
         /\ Measured(r, ok, m)
         /\ Goto(r, IF ok /\ InHand(r).action = "pnpm_workspace_clean"
                    THEN "cleaned" ELSE "closing")
    /\ UNCHANGED <<machine, lock, store>>

\* record_workspace_cleaned, before the action is finished.
RecordCleaned(r) ==
    /\ pc[r] = "cleaned"
    /\ ledger' = [ledger EXCEPT ![InHand(r).workspace].cleaned = clock]
    /\ Goto(r, "closing")
    /\ UNCHANGED <<machine, lock, children, journal, row, mem>>

\* finish_action with the outcome; the outcome is a local of run_one.
CloseAction(r) ==
    /\ pc[r] = "closing"
    /\ journal' = Amended(r, IF mem[r].ok THEN "SUCCEEDED" ELSE "FAILED",
                          mem[r].freeAfter)
    /\ mem' = [mem EXCEPT ![r].ok = FALSE, ![r].freeAfter = Unmeasured]
    /\ Goto(r, "between")
    /\ UNCHANGED <<machine, lock, children, ledger, row>>

\* classify and finish_run.
FinishRun(r) ==
    /\ pc[r] = "between"
    /\ ~PostCleanDue(r)
    /\ ~LoopGoesOn(r)
    /\ row' = [row EXCEPT ![r] = Classify(r)]
    /\ Goto(r, "finished")
    /\ UNCHANGED <<machine, lock, children, ledger, journal, mem>>

Return(r) ==
    /\ pc[r] = "finished"
    /\ Exit(r, row[r])
    /\ UNCHANGED <<machine, children, store>>

\* The process is killed, or a StateError leaves execute() early.  The lock goes
\* with the process; the journal stays as it is, and so does a running pnpm.
Abort(r) ==
    /\ Live(r)
    /\ Exit(r, "none")
    /\ UNCHANGED <<machine, children, store>>

-----------------------------------------------------------------------------
(* Everybody else.                                                         *)

processes == <<pc, mem, report>>

Tick ==
    /\ clock < MaxClock
    /\ clock' = clock + 1
    /\ UNCHANGED <<changes, facts, pnpmSame, lock, children, store, processes>>

Change == changes < MaxChanges /\ changes' = changes + 1

\* People and tools work in the workspace.
FactsChange(w) ==
    /\ Change
    /\ \E f \in Facts \ {facts[w]} : facts' = [facts EXCEPT ![w] = f]
    /\ UNCHANGED <<clock, pnpmSame, lock, children, store, processes>>

\* pnpm is upgraded or replaced on disk.
PnpmReplaced ==
    /\ Change
    /\ pnpmSame' = FALSE
    /\ UNCHANGED <<clock, facts, lock, children, store, processes>>

\* protect add and protect remove, from another process.
SetProtected(w) ==
    /\ Change
    /\ ledger' = [ledger EXCEPT ![w].protected = ~@]
    /\ UNCHANGED <<clock, facts, pnpmSame, lock, children, journal, row, processes>>

\* A pnpm whose run was killed comes to its end.
OrphanEnds(r) ==
    /\ r \in children
    /\ pc[r] = "exited"
    /\ children' = children \ {r}
    /\ UNCHANGED <<machine, lock, store, processes>>

RunStep(r) ==
    \/ MeasureBeforeLock(r) \/ TakeLock(r) \/ BeginRun(r)
    \/ JournalNext(r) \/ JournalPostCleanPrune(r)
    \/ BeginValidation(r) \/ Refuse(r) \/ Authorise(r)
    \/ PerformInProcess(r) \/ StartCommand(r) \/ CommandEnds(r)
    \/ RecordCleaned(r) \/ CloseAction(r) \/ FinishRun(r) \/ Return(r)

Environment ==
    \/ Tick \/ PnpmReplaced
    \/ \E w \in Workspaces : FactsChange(w) \/ SetProtected(w)
    \/ \E r \in Runs : OrphanEnds(r)

Next ==
    \/ \E r \in Runs : StartCheck(r) \/ RunStep(r) \/ Abort(r)
    \/ Environment

Spec == Init /\ [][Next]_vars

\* A process that was started is scheduled until it ends.  Commands end: they
\* are killed at CLEANUP_TIMEOUT, and it is assumed that no descendant of theirs
\* goes on holding their output open, which CommandRunner reads to its end.
FairSpec == Spec /\ \A r \in Runs : WF_vars(RunStep(r))

-----------------------------------------------------------------------------
TypeOK ==
    /\ clock \in Nat
    /\ changes \in Nat
    /\ facts \in [Workspaces -> Facts]
    /\ pnpmSame \in BOOLEAN
    /\ lock \in Runs \cup {NoRun}
    /\ children \subseteq Runs
    /\ ledger \in [Workspaces -> LedgerRecord]
    /\ journal \in [Runs -> Seq(Entry)]
    /\ row \in [Runs -> {"absent", "open"} \cup RunResults]
    /\ pc \in [Runs -> PcStates]
    /\ mem \in [Runs -> Memory]
    /\ report \in [Runs -> {"none"} \cup RunResults \cup UnjournalledResults]

\* Journalled before execution: whenever a pnpm process is alive, killed run or
\* not, the journal already says RUNNING for the action it works on, and goes on
\* saying so, in a run without a result.
WriteAhead ==
    \A r \in children :
        /\ journal[r] # <<>>
        /\ InHand(r).state = "RUNNING"
        /\ row[r] = "open"

\* The point of the lock: two live runs never have pnpm at work together.
OneCommandAtATime ==
    \A r, s \in children : Live(r) /\ Live(s) => r = s

\* Whatever step a run is killed at, a clean the journal calls SUCCEEDED is one
\* whose cooldown the ledger has.
CooldownBeforeSuccess ==
    \A r \in Runs : \A i \in DOMAIN journal[r] :
        LET e == journal[r][i] IN
        e.action = "pnpm_workspace_clean" /\ e.state = "SUCCEEDED"
            => ledger[e.workspace].cleaned # Never

\* Stop immediately at target_free: nothing is journalled, the post-clean prune
\* included, once an action of the run measured the target.
NothingAfterTarget ==
    \A r \in Runs : \A i \in 1..(Len(journal[r]) - 1) :
        journal[r][i].freeAfter # Unmeasured => journal[r][i].freeAfter < Target

CountOf(r, action) == Cardinality({i \in DOMAIN journal[r] : journal[r][i].action = action})

\* At most two workspace cleans, one own-state sweep, and one store prune beside
\* the post-clean one in a run, counting the refused ones.
CapsHold ==
    \A r \in Runs :
        /\ CountOf(r, "pnpm_workspace_clean") <= MaxCleans
        /\ CountOf(r, "clean_terminal_janitor_state") <= 1
        /\ CountOf(r, "pnpm_store_prune") <= 1 + MaxPostClean

\* "Space was recovered safely, but the target was not reached and more proven
\* actions remain for a later run" (journal.rs, of OK_PARTIAL_SAFE_RECLAIM): a run
\* that ends like this does not say that every authorised action was exhausted.
\* Workspaces remain when the cap alone kept them out of the plan; the space is
\* recovered when a run that began below minimum_free ends above it.
PartialReclaimReported ==
    \A r \in Runs :
        /\ pc[r] = "finished"
        /\ mem[r].capped
        /\ "SUCCEEDED" \in StatesOf(r)
        /\ Minimum <= mem[r].free /\ mem[r].free < Target
        => row[r] # "SHORTFALL_SAFE_ACTIONS_EXHAUSTED"

\* A run that found no pressure, no lock or no measurement left no trace in the
\* journal, and a run that reports a result has that result in its row.
ReportMatchesJournal ==
    \A r \in Runs :
        /\ report[r] \in UnjournalledResults => row[r] = "absent" /\ journal[r] = <<>>
        /\ report[r] \in RunResults => row[r] = report[r]

\* A cleaned workspace is left alone for the cooldown by every run that could
\* know of it: whoever records a clean sooner read the ledger before the last one.
CooldownRespected ==
    [][\A r \in Runs, w \in Workspaces :
          /\ pc[r] = "cleaned" /\ pc'[r] = "closing"
          /\ InHand(r).workspace = w
          /\ ledger[w].cleaned # Never
          /\ mem[r].seen[w].cleaned = ledger[w].cleaned
          => clock - ledger[w].cleaned >= Cooldown]_vars

\* Every run comes to an end: the plan is finite, the post-clean prune does not
\* feed itself, and nothing is retried.
EveryRunEnds == \A r \in Runs : Live(r) ~> pc[r] = "exited"

\* The executor keeps what the journal promises: RunJournal with the rows that
\* the executor writes for the rows its reader finds.
Journal == INSTANCE RunJournal WITH
    Runs <- Runs, Workspaces <- Workspaces, NoWorkspace <- NoWorkspace,
    FreeLevels <- FreeLevels, Unmeasured <- Unmeasured,
    journal <- journal, row <- row
JournalSpec == Journal!Spec

=============================================================================
