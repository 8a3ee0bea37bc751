--------------------------- MODULE Executor_proofs ---------------------------
(***************************************************************************)
(* What the executor guarantees for any number of invocations, workspaces, *)
(* free-space levels and limits.                                           *)
(*                                                                         *)
(* RunInv(r), the inductive invariant, ties where a run is (pc) to what it *)
(* holds and what it has written:                                          *)
(*   LockInv     from TakeLock to Return a run holds the lock;             *)
(*   RowInv      its row and its report go with pc;                        *)
(*   JournalInv  rows before the last are settled without a failure, and   *)
(*               the last is in the state pc says;                         *)
(*   PlanInv     the plan begins with the own-state sweep and names real   *)
(*               workspaces, and the loop walks it from its beginning.     *)
(***************************************************************************)
EXTENDS Executor, FiniteSetTheorems, TLAPS

LEMMA ElementOfSeq ==
    ASSUME NEW S, NEW s \in Seq(S), NEW n \in Nat \ {0}, n <= Len(s)
    PROVE  s[n] \in S
  OBVIOUS

LEMMA IndexOfSeq ==
    ASSUME NEW S, NEW s \in Seq(S), NEW n \in Nat \ {0}, n <= Len(s)
    PROVE  n \in DOMAIN s
  OBVIOUS

USE ExecutorAssumption

BeforeTheRun == {"idle", "planned", "pressed", "locked"}

AtWork == {"running", "waiting", "cleaned", "closing"}

InLoop == {"between", "recorded", "validating"} \cup AtWork

\* The state of the action in hand when the run is at p.
StateInHand(p) ==
    CASE p = "recorded"   -> {"PLANNED"}
      [] p = "validating" -> {"VALIDATING"}
      [] p \in AtWork     -> {"RUNNING"}
      [] OTHER            -> ActionStates

IsClean(e) == e.action = "pnpm_workspace_clean"

LockInv(r) == pc[r] \in {"locked", "finished"} \cup InLoop => lock = r

RowInv(r) ==
    /\ pc[r] \in BeforeTheRun => row[r] = "absent"
    /\ pc[r] \in InLoop => row[r] = "open"
    /\ pc[r] = "finished" => row[r] \in RunResults
    /\ row[r] = "absent" => journal[r] = <<>>
    /\ r \in children =>
          /\ pc[r] \in {"waiting", "exited"}
          /\ row[r] = "open"
          /\ journal[r] # <<>>
          /\ InHand(r).state = "RUNNING"
    /\ report[r] # "none" => pc[r] = "exited"
    /\ report[r] \in UnjournalledResults => row[r] = "absent"
    /\ report[r] \in RunResults => row[r] = report[r]

JournalInv(r) ==
    /\ \A i \in 1..(Len(journal[r]) - 1) :
          journal[r][i].state \in TerminalStates \ {"FAILED"}
    /\ pc[r] \in InLoop \ {"between"} =>
          journal[r] # <<>> /\ InHand(r).state \in StateInHand(pc[r])
    /\ pc[r] \in {"between", "finished"} /\ journal[r] # <<>> =>
          InHand(r).state \in TerminalStates
    /\ pc[r] = "cleaned" => IsClean(InHand(r))
    /\ pc[r] = "closing" /\ mem[r].ok /\ IsClean(InHand(r)) =>
          ledger[InHand(r).workspace].cleaned # Never
    /\ \A i \in DOMAIN journal[r] : IsClean(journal[r][i]) =>
          /\ journal[r][i].workspace \in Workspaces
          /\ journal[r][i].state = "SUCCEEDED" =>
                ledger[journal[r][i].workspace].cleaned # Never
    /\ journal[r] # <<>> =>
          /\ journal[r][1].action = "clean_terminal_janitor_state"
          /\ journal[r][1].state # "SKIPPED_PROTECTED"

PlanInv(r) ==
    /\ pc[r] = "idle" => mem[r].next = 1 /\ ~mem[r].uncertain
    /\ pc[r] \in {"planned", "pressed", "locked"} \cup InLoop =>
          /\ mem[r].plan # <<>>
          /\ mem[r].plan[1].action = "clean_terminal_janitor_state"
          /\ \A i \in DOMAIN mem[r].plan :
                IsClean(mem[r].plan[i]) => mem[r].plan[i].workspace \in Workspaces
    /\ pc[r] \in {"planned", "pressed", "locked"} => mem[r].next = 1 /\ ~mem[r].uncertain
    /\ pc[r] \in InLoop /\ journal[r] = <<>> => mem[r].next = 1 /\ mem[r].free < Target
    /\ pc[r] \in InLoop /\ mem[r].uncertain => "SKIPPED_UNKNOWN" \in StatesOf(r)

\* The two results that classify() does not come to.
RowReachable(r) == row[r] \notin {"OK_PARTIAL_SAFE_RECLAIM", "SKIPPED_PROTECTED"}

RunInv(r) ==
    LockInv(r) /\ RowInv(r) /\ JournalInv(r) /\ PlanInv(r) /\ RowReachable(r)

IInv == TypeOK /\ \A r \in Runs : RunInv(r)

-----------------------------------------------------------------------------

LEMMA LastElement ==
    ASSUME NEW T, NEW s \in Seq(T), s # <<>>
    PROVE  Len(s) \in Nat /\ Len(s) >= 1 /\ Len(s) \in DOMAIN s /\ LastOf(s) \in T
  BY DEF LastOf

LEMMA ReplacedLast ==
    ASSUME NEW T, NEW s \in Seq(T), s # <<>>, NEW e \in T
    PROVE  LET t == [s EXCEPT ![Len(s)] = e]
           IN  /\ t \in Seq(T)
               /\ Len(t) = Len(s)
               /\ \A i \in 1..(Len(s) - 1) : t[i] = s[i]
               /\ LastOf(t) = e
  BY DEF LastOf

LEMMA AmendedFacts ==
    ASSUME journal \in [Runs -> Seq(Entry)], NEW r \in Runs, journal[r] # <<>>,
           NEW s \in ActionStates, NEW m \in FreeLevels \cup {Unmeasured}
    PROVE  /\ Amended(r, s, m) \in [Runs -> Seq(Entry)]
           /\ \A q \in Runs \ {r} : Amended(r, s, m)[q] = journal[q]
           /\ Len(Amended(r, s, m)[r]) = Len(journal[r])
           /\ \A i \in 1..(Len(journal[r]) - 1) : Amended(r, s, m)[r][i] = journal[r][i]
           /\ LastOf(Amended(r, s, m)[r]) =
                [action |-> InHand(r).action, workspace |-> InHand(r).workspace,
                 state |-> s, freeAfter |-> m]
  <1> DEFINE e == [action |-> InHand(r).action, workspace |-> InHand(r).workspace,
                   state |-> s, freeAfter |-> m]
             t == [journal[r] EXCEPT ![Len(journal[r])] = e]
  <1>1. journal[r] \in Seq(Entry)
    OBVIOUS
  <1>2. InHand(r) \in Entry
    BY <1>1, LastElement DEF InHand
  <1>3. e \in Entry
    BY <1>2 DEF Entry
  <1>4. /\ t \in Seq(Entry)
        /\ Len(t) = Len(journal[r])
        /\ \A i \in 1..(Len(journal[r]) - 1) : t[i] = journal[r][i]
        /\ LastOf(t) = e
    BY <1>1, <1>3, ReplacedLast
  <1>5. Amended(r, s, m) = [journal EXCEPT ![r] = t]
    BY DEF Amended, WithState
  <1> QED
    BY <1>4, <1>5

\* The untouched ledger record and the empty memory have their types.
LEMMA InitialMemory == Untouched \in LedgerRecord /\ NoMemory \in Memory
<1>1. Untouched \in LedgerRecord
  BY DEF Untouched, LedgerRecord
<1>2. <<>> \in Seq(PlannedAction)
  OBVIOUS
<1> QED
  BY <1>1, <1>2 DEF NoMemory, Memory

\* A plan is a sequence of planned actions that begins with the own-state sweep
\* and cleans workspaces of the ledger only.
LEMMA PlanFacts ==
    ASSUME NEW S \in SUBSET Workspaces, NEW e \in BOOLEAN, NEW s \in Selections(S)
    PROVE  /\ PlanOf(s, e) \in Seq(PlannedAction)
           /\ PlanOf(s, e) # <<>>
           /\ PlanOf(s, e)[1].action = "clean_terminal_janitor_state"
           /\ \A i \in DOMAIN PlanOf(s, e) :
                 IsClean(PlanOf(s, e)[i]) => PlanOf(s, e)[i].workspace \in Workspaces
<1> DEFINE n == IF Cardinality(S) < MaxCleans THEN Cardinality(S) ELSE MaxCleans
           own == Action("clean_terminal_janitor_state", NoWorkspace)
           prune == Action("pnpm_store_prune", NoWorkspace)
           cleans == [i \in DOMAIN s |-> Action("pnpm_workspace_clean", s[i])]
           middle == IF e /\ pnpmSame THEN <<prune>> ELSE <<>>
<1>1. n \in Nat
  BY FS_Subset, FS_CardinalityType
<1>2. s \in [1..n -> Workspaces]
  BY DEF Selections
<1>3. own \in PlannedAction /\ prune \in PlannedAction
  BY DEF Action, PlannedAction, Actions
<1>4. cleans \in Seq(PlannedAction)
      /\ \A i \in DOMAIN cleans : cleans[i].workspace \in Workspaces
  <2>1. \A i \in 1..n : Action("pnpm_workspace_clean", s[i]) \in PlannedAction
                        /\ Action("pnpm_workspace_clean", s[i]).workspace \in Workspaces
    BY <1>2 DEF Action, PlannedAction, Actions
  <2>2. cleans = [i \in 1..n |-> Action("pnpm_workspace_clean", s[i])]
    BY <1>2
  <2> HIDE DEF cleans
  <2> QED
    BY <1>1, <2>1, <2>2
<1>5. middle \in Seq(PlannedAction)
      /\ \A i \in DOMAIN middle : middle[i].action = "pnpm_store_prune"
  BY <1>3 DEF Action
<1>6. PlanOf(s, e) = <<own>> \o middle \o cleans
  BY DEF PlanOf
<1>7. own.action = "clean_terminal_janitor_state"
  BY DEF Action
<1> HIDE DEF own, prune, cleans, middle, n
<1>8. <<own>> \o middle \in Seq(PlannedAction) /\ Len(<<own>> \o middle) = 1 + Len(middle)
  BY <1>3, <1>5
<1>9. PlanOf(s, e) \in Seq(PlannedAction)
      /\ Len(PlanOf(s, e)) = 1 + Len(middle) + Len(cleans)
      /\ PlanOf(s, e)[1] = own
      /\ \A i \in DOMAIN PlanOf(s, e) :
            \/ PlanOf(s, e)[i] = own
            \/ \E j \in DOMAIN middle : PlanOf(s, e)[i] = middle[j]
            \/ \E j \in DOMAIN cleans : PlanOf(s, e)[i] = cleans[j]
  BY <1>3, <1>4, <1>5, <1>6, <1>8
<1> QED
  BY <1>4, <1>5, <1>7, <1>9 DEF IsClean

-----------------------------------------------------------------------------
\* Every assignment the loop makes to its memory keeps the memory's type.
LEMMA MemoryStep ==
    ASSUME mem \in [Runs -> Memory], NEW r \in Runs
    PROVE  /\ \A m \in Nat : mem' = [mem EXCEPT ![r].free = m] => mem' \in [Runs -> Memory]
           /\ mem' = [mem EXCEPT ![r].next = @ + 1] => mem' \in [Runs -> Memory]
           /\ mem' = [mem EXCEPT ![r].postCleans = @ + 1] => mem' \in [Runs -> Memory]
           /\ \A b \in BOOLEAN : mem' = [mem EXCEPT ![r].uncertain = @ \/ b]
                 => mem' \in [Runs -> Memory]
           /\ \A ok \in BOOLEAN, m \in FreeLevels \cup {Unmeasured} :
                 Measured(r, ok, m) => mem' \in [Runs -> Memory]
           /\ mem' = [mem EXCEPT ![r].ok = FALSE, ![r].freeAfter = Unmeasured]
                 => mem' \in [Runs -> Memory]
<1>1. mem[r] \in Memory
  OBVIOUS
<1>2. ASSUME NEW m \in Nat, mem' = [mem EXCEPT ![r].free = m] PROVE mem' \in [Runs -> Memory]
  BY <1>1, <1>2 DEF Memory
<1>3. ASSUME mem' = [mem EXCEPT ![r].next = @ + 1] PROVE mem' \in [Runs -> Memory]
  <2>1. mem[r].next + 1 \in Nat \ {0}
    BY <1>1 DEF Memory
  <2> QED
    BY <1>1, <1>3, <2>1 DEF Memory
<1>4. ASSUME mem' = [mem EXCEPT ![r].postCleans = @ + 1] PROVE mem' \in [Runs -> Memory]
  <2>1. mem[r].postCleans + 1 \in Nat
    BY <1>1 DEF Memory
  <2> QED
    BY <1>1, <1>4, <2>1 DEF Memory
<1>5. ASSUME NEW b \in BOOLEAN, mem' = [mem EXCEPT ![r].uncertain = @ \/ b]
      PROVE  mem' \in [Runs -> Memory]
  <2>1. (mem[r].uncertain \/ b) \in BOOLEAN
    OBVIOUS
  <2> QED
    BY <1>1, <1>5, <2>1 DEF Memory
<1>6. ASSUME NEW ok \in BOOLEAN, NEW m \in FreeLevels \cup {Unmeasured}, Measured(r, ok, m)
      PROVE  mem' \in [Runs -> Memory]
  <2>1. (IF m = Unmeasured THEN mem[r].free ELSE m) \in Nat
    BY <1>1 DEF Memory
  <2> QED
    BY <1>1, <1>6, <2>1 DEF Measured, Memory
<1>7. ASSUME mem' = [mem EXCEPT ![r].ok = FALSE, ![r].freeAfter = Unmeasured]
      PROVE  mem' \in [Runs -> Memory]
  BY <1>1, <1>7 DEF Memory
<1> QED
  BY <1>2, <1>3, <1>4, <1>5, <1>6, <1>7

\* So does the plan a check starts with.
LEMMA MemoryStart ==
    ASSUME mem \in [Runs -> Memory], ledger \in [Workspaces -> LedgerRecord],
           clock \in Nat, NEW r \in Runs, StartCheck(r)
    PROVE  /\ mem' \in [Runs -> Memory]
           /\ mem'[r].plan # <<>>
           /\ mem'[r].plan[1].action = "clean_terminal_janitor_state"
           /\ \A i \in DOMAIN mem'[r].plan :
                 IsClean(mem'[r].plan[i]) => mem'[r].plan[i].workspace \in Workspaces
           /\ mem'[r].next = mem[r].next
           /\ mem'[r].uncertain = mem[r].uncertain
           /\ \A q \in Runs \ {r} : mem'[q] = mem[q]
<1>0. PICK e \in BOOLEAN : \E selection \in Selections(Eligible(ledger, e)) :
         mem' = [mem EXCEPT ![r] =
                   [@ EXCEPT !.seen = ledger,
                             !.enrolled = e,
                             !.plan = PlanOf(selection, e),
                             !.capped = Cardinality(Eligible(ledger, e)) > MaxCleans,
                             !.expires = clock + PlanValidity]]
  BY DEF StartCheck
<1>1. PICK selection \in Selections(Eligible(ledger, e)) :
         mem' = [mem EXCEPT ![r] =
                   [@ EXCEPT !.seen = ledger,
                             !.enrolled = e,
                             !.plan = PlanOf(selection, e),
                             !.capped = Cardinality(Eligible(ledger, e)) > MaxCleans,
                             !.expires = clock + PlanValidity]]
  BY <1>0
<1> DEFINE p == PlanOf(selection, e)
           c == Cardinality(Eligible(ledger, e)) > MaxCleans
           x == clock + PlanValidity
<1>2. /\ p \in Seq(PlannedAction)
      /\ p # <<>>
      /\ p[1].action = "clean_terminal_janitor_state"
      /\ \A i \in DOMAIN p : IsClean(p[i]) => p[i].workspace \in Workspaces
  BY PlanFacts DEF Eligible
<1>3. c \in BOOLEAN /\ x \in Nat /\ mem[r] \in Memory
  OBVIOUS
<1>4. mem' = [mem EXCEPT ![r] = [mem[r] EXCEPT !.seen = ledger, !.enrolled = e,
                                                !.plan = p, !.capped = c, !.expires = x]]
  BY <1>1
<1> HIDE DEF p, c, x
<1>5. mem' \in [Runs -> Memory] /\ mem'[r].plan = p
      /\ mem'[r].next = mem[r].next /\ mem'[r].uncertain = mem[r].uncertain
  BY <1>2, <1>3, <1>4 DEF Memory
<1>6. \A q \in Runs \ {r} : mem'[q] = mem[q]
  BY <1>4
<1> QED
  BY <1>2, <1>5, <1>6

\* Where the journal has an action in hand, amending it keeps the types.
LEMMA TypeStep ==
    TypeOK /\ (\A r \in Runs : JournalInv(r) /\ PlanInv(r) /\ RowInv(r)) /\ [Next]_vars => TypeOK'
<1> SUFFICES ASSUME TypeOK, \A r \in Runs : JournalInv(r) /\ PlanInv(r) /\ RowInv(r), [Next]_vars
             PROVE  TypeOK'
  OBVIOUS
<1> USE DEF TypeOK, machine, store, processes
<1>0. \A r \in Runs : mem[r] \in Memory /\ journal[r] \in Seq(Entry)
  OBVIOUS
<1>1. ASSUME NEW r \in Runs, NEW x, Exit(r, x),
             x \in {"none"} \cup RunResults \cup UnjournalledResults
      PROVE  /\ pc' \in [Runs -> PcStates]
             /\ mem' \in [Runs -> Memory]
             /\ lock' \in Runs \cup {NoRun}
             /\ report' \in [Runs -> {"none"} \cup RunResults \cup UnjournalledResults]
  BY <1>1, InitialMemory DEF Exit, PcStates
<1>2. ASSUME NEW r \in Runs, NEW x \in PcStates, Goto(r, x)
      PROVE  /\ pc' \in [Runs -> PcStates]
             /\ report' \in [Runs -> {"none"} \cup RunResults \cup UnjournalledResults]
  BY <1>2 DEF Goto
<1>3. ASSUME NEW r \in Runs, journal[r] # <<>>, NEW s \in ActionStates,
             NEW m \in FreeLevels \cup {Unmeasured}, journal' = Amended(r, s, m)
      PROVE  journal' \in [Runs -> Seq(Entry)]
  BY <1>3, AmendedFacts
<1>4. ASSUME NEW r \in Runs, NEW a \in PlannedAction,
             journal' = [journal EXCEPT ![r] = Append(@, Planned(a))]
      PROVE  journal' \in [Runs -> Seq(Entry)]
  <2>1. Planned(a) \in Entry
    BY DEF Planned, PlannedRow, Entry, PlannedAction, ActionStates
  <2>2. Append(journal[r], Planned(a)) \in Seq(Entry)
    BY <2>1, <1>0
  <2> QED
    BY <1>4, <2>2
<1>10. ASSUME NEW r \in Runs, StartCheck(r) PROVE TypeOK'
  <2>1. mem' \in [Runs -> Memory]
    BY <1>10, MemoryStart
  <2> QED
    BY <1>10, <1>2, <2>1 DEF StartCheck, PcStates
<1>11. ASSUME NEW r \in Runs, MeasureBeforeLock(r) PROVE TypeOK'
  BY <1>11, <1>1, <1>2 DEF MeasureBeforeLock, PcStates, UnjournalledResults
<1>12. ASSUME NEW r \in Runs, TakeLock(r) PROVE TypeOK'
  BY <1>12, <1>1, <1>2 DEF TakeLock, PcStates, UnjournalledResults
<1>13. ASSUME NEW r \in Runs, BeginRun(r) PROVE TypeOK'
  <2>1. ASSUME NEW m \in FreeLevels, mem' = [mem EXCEPT ![r].free = m]
        PROVE  mem' \in [Runs -> Memory]
    BY <2>1, MemoryStep
  <2>2. PICK m \in FreeLevels \cup {Unmeasured} :
           \/ m = Unmeasured /\ Exit(r, "FAILED_STORAGE_MEASUREMENT") /\ UNCHANGED row
           \/ m # Unmeasured /\ m >= Minimum /\ Exit(r, "OK_NO_PRESSURE") /\ UNCHANGED row
           \/ /\ m # Unmeasured /\ m < Minimum
              /\ row' = [row EXCEPT ![r] = "open"]
              /\ mem' = [mem EXCEPT ![r].free = m]
              /\ Goto(r, "between")
              /\ UNCHANGED lock
    BY <1>13 DEF BeginRun
  <2> QED
    BY <1>13, <1>1, <1>2, <2>1, <2>2 DEF BeginRun, PcStates, UnjournalledResults
<1>14. ASSUME NEW r \in Runs, JournalNext(r) PROVE TypeOK'
  <2>1. mem[r].plan[mem[r].next] \in PlannedAction
    <3>1. mem[r].plan \in Seq(PlannedAction) /\ mem[r].next \in Nat \ {0}
      BY <1>0 DEF Memory
    <3>2. mem[r].next <= Len(mem[r].plan)
      BY <1>14 DEF JournalNext, LoopGoesOn
    <3> HIDE <1>0
    <3> QED
      BY <3>1, <3>2, ElementOfSeq
  <2>2. journal' \in [Runs -> Seq(Entry)]
    BY <1>14, <1>4, <2>1 DEF JournalNext
  <2>3. mem' \in [Runs -> Memory]
    BY <1>14, MemoryStep DEF JournalNext
  <2> QED
    BY <1>14, <1>2, <2>2, <2>3 DEF JournalNext, PcStates
<1>15. ASSUME NEW r \in Runs, JournalPostCleanPrune(r) PROVE TypeOK'
  <2>1. Action("pnpm_store_prune", NoWorkspace) \in PlannedAction
    BY DEF Action, PlannedAction, Actions
  <2>2. journal' \in [Runs -> Seq(Entry)]
    BY <1>15, <1>4, <2>1 DEF JournalPostCleanPrune
  <2>3. mem' \in [Runs -> Memory]
    BY <1>15, MemoryStep DEF JournalPostCleanPrune
  <2> QED
    BY <1>15, <1>2, <2>2, <2>3 DEF JournalPostCleanPrune, PcStates
<1>16. ASSUME NEW r \in Runs, BeginValidation(r) PROVE TypeOK'
  <2>1. journal' \in [Runs -> Seq(Entry)]
    BY <1>16, <1>3 DEF BeginValidation, JournalInv, ActionStates, UnresolvedStates, InLoop
  <2> QED
    BY <1>16, <1>2, <2>1 DEF BeginValidation, PcStates
<1>17. ASSUME NEW r \in Runs, Refuse(r) PROVE TypeOK'
  <2>1. journal' \in [Runs -> Seq(Entry)]
    BY <1>17, <1>3 DEF Refuse, JournalInv, ActionStates, TerminalStates, InLoop
  <2>2. mem' \in [Runs -> Memory]
    BY <1>17, MemoryStep DEF Refuse
  <2> QED
    BY <1>17, <1>2, <2>1, <2>2 DEF Refuse, PcStates
<1>18. ASSUME NEW r \in Runs, Authorise(r) PROVE TypeOK'
  <2>1. journal' \in [Runs -> Seq(Entry)]
    BY <1>18, <1>3 DEF Authorise, JournalInv, ActionStates, UnresolvedStates, InLoop
  <2> QED
    BY <1>18, <1>2, <2>1 DEF Authorise, PcStates
<1>19. ASSUME NEW r \in Runs
       PROVE  \A ok \in BOOLEAN, m \in FreeLevels \cup {Unmeasured} :
                 Measured(r, ok, m) => mem' \in [Runs -> Memory]
  BY MemoryStep
<1>20. ASSUME NEW r \in Runs, PerformInProcess(r) PROVE TypeOK'
  BY <1>20, <1>2, <1>19 DEF PerformInProcess, PcStates
<1>21. ASSUME NEW r \in Runs, StartCommand(r) PROVE TypeOK'
  BY <1>21, <1>2 DEF StartCommand, PcStates
<1>22. ASSUME NEW r \in Runs, CommandEnds(r) PROVE TypeOK'
  BY <1>22, <1>2, <1>19 DEF CommandEnds, PcStates
<1>23. ASSUME NEW r \in Runs, RecordCleaned(r) PROVE TypeOK'
  <2>1. ledger' \in [Workspaces -> LedgerRecord]
    <3> DEFINE w == InHand(r).workspace
               rec == [ledger[w] EXCEPT !.cleaned = clock]
    <3>1. ledger \in [Workspaces -> LedgerRecord] /\ clock \in Nat
      BY <1>0
    <3>2. w \in Workspaces => rec \in LedgerRecord
      <4>1. \A x \in LedgerRecord : [x EXCEPT !.cleaned = clock] \in LedgerRecord
        BY <3>1 DEF LedgerRecord
      <4> QED
        BY <3>1, <4>1
    <3>3. ledger' = [ledger EXCEPT ![w] = rec]
      BY <1>23 DEF RecordCleaned
    <3> HIDE DEF w, rec
    <3> QED
      BY <3>1, <3>2, <3>3
  <2> QED
    BY <1>23, <1>2, <2>1 DEF RecordCleaned, PcStates
<1>24. ASSUME NEW r \in Runs, CloseAction(r) PROVE TypeOK'
  <2>1. journal' \in [Runs -> Seq(Entry)]
    BY <1>24, <1>3, <1>0
       DEF CloseAction, JournalInv, ActionStates, TerminalStates, InLoop, AtWork, Memory
  <2>2. mem' \in [Runs -> Memory]
    BY <1>24, MemoryStep DEF CloseAction
  <2> QED
    BY <1>24, <1>2, <2>1, <2>2 DEF CloseAction, PcStates
<1>25. ASSUME NEW r \in Runs, FinishRun(r) PROVE TypeOK'
  <2>1. Classify(r) \in RunResults
    BY DEF Classify, RunResults
  <2> QED
    BY <1>25, <1>2, <2>1 DEF FinishRun, PcStates
<1>26. ASSUME NEW r \in Runs, Return(r) PROVE TypeOK'
  BY <1>26, <1>1 DEF Return, RowInv
<1>27. ASSUME NEW r \in Runs, Abort(r) PROVE TypeOK'
  BY <1>27, <1>1 DEF Abort
<1>28. CASE Tick
  BY <1>28 DEF Tick
<1>29. ASSUME NEW w \in Workspaces, FactsChange(w) PROVE TypeOK'
  BY <1>29 DEF FactsChange, Change
<1>30. CASE PnpmReplaced
  <2>1. pnpmSame' \in BOOLEAN
    BY <1>30 DEF PnpmReplaced
  <2> QED
    BY <1>30, <2>1 DEF PnpmReplaced, Change
<1>31. ASSUME NEW w \in Workspaces, SetProtected(w) PROVE TypeOK'
  <2>1. ledger' \in [Workspaces -> LedgerRecord]
    <3>1. ledger \in [Workspaces -> LedgerRecord] /\ ledger[w] \in LedgerRecord
      BY <1>0
    <3>2. [ledger[w] EXCEPT !.protected = ~@] \in LedgerRecord
      BY <3>1 DEF LedgerRecord
    <3>3. ledger' = [ledger EXCEPT ![w] = [ledger[w] EXCEPT !.protected = ~@]]
      BY <1>31 DEF SetProtected
    <3> QED
      BY <3>1, <3>2, <3>3
  <2> QED
    BY <1>31, <2>1 DEF SetProtected, Change
<1>32. ASSUME NEW r \in Runs, OrphanEnds(r) PROVE TypeOK'
  BY <1>32 DEF OrphanEnds
<1>33. CASE UNCHANGED vars
  BY <1>33 DEF vars
<1> QED
  BY <1>10, <1>11, <1>12, <1>13, <1>14, <1>15, <1>16, <1>17, <1>18, <1>20, <1>21, <1>22,
     <1>23, <1>24, <1>25, <1>26, <1>27, <1>28, <1>29, <1>30, <1>31, <1>32, <1>33
  DEF Next, RunStep, Environment

-----------------------------------------------------------------------------
(* What a step leaves alone.                                               *)

\* No step of anybody takes a recorded clean back.
KeepsCleans == \A w \in Workspaces : ledger[w].cleaned # Never => ledger'[w].cleaned # Never

\* The step is none of q's business.
NotOf(q) ==
    /\ pc'[q] = pc[q] /\ mem'[q] = mem[q] /\ journal'[q] = journal[q]
    /\ row'[q] = row[q] /\ report'[q] = report[q]
    /\ q \in children' <=> q \in children
    /\ lock = q => lock' = q

\* A step that is none of q's business keeps what is known about q.
LEMMA Frame ==
    ASSUME NEW q \in Runs, TypeOK, RunInv(q), NotOf(q), KeepsCleans
    PROVE  RunInv(q)'
<1> USE DEF NotOf
<1>1. LockInv(q)'
  BY DEF RunInv, LockInv
<1>2. RowInv(q)' /\ RowReachable(q)'
  BY DEF RunInv, RowInv, RowReachable, InHand
<1>3. PlanInv(q)'
  BY DEF RunInv, PlanInv, StatesOf
<1>4. JournalInv(q)'
  <2>1. journal[q] \in Seq(Entry)
    BY DEF TypeOK
  <2>2. journal[q] # <<>> =>
           InHand(q) = journal[q][Len(journal[q])] /\ Len(journal[q]) \in DOMAIN journal[q]
    BY <2>1 DEF InHand, LastOf
  <2>3. InHand(q)' = InHand(q)
    BY DEF InHand
  <2>4. \A i \in DOMAIN journal[q] : IsClean(journal[q][i]) =>
          /\ journal[q][i].workspace \in Workspaces
          /\ journal[q][i].state = "SUCCEEDED" =>
                ledger'[journal[q][i].workspace].cleaned # Never
    BY DEF RunInv, JournalInv, KeepsCleans
  <2>5. pc[q] = "closing" /\ mem[q].ok /\ IsClean(InHand(q)) =>
          ledger'[InHand(q).workspace].cleaned # Never
    <3> SUFFICES ASSUME pc[q] = "closing", mem[q].ok, IsClean(InHand(q))
                 PROVE  ledger'[InHand(q).workspace].cleaned # Never
      OBVIOUS
    <3>1. journal[q] # <<>>
      BY DEF RunInv, JournalInv, InLoop, AtWork
    <3>2. InHand(q).workspace \in Workspaces
      BY <2>2, <3>1 DEF RunInv, JournalInv
    <3> QED
      BY <3>2 DEF RunInv, JournalInv, KeepsCleans
  <2> QED
    BY <2>3, <2>4, <2>5 DEF RunInv, JournalInv
<1> QED
  BY <1>1, <1>2, <1>3, <1>4 DEF RunInv

\* Outside RecordCleaned the ledger's cleans do not change.
LEMMA SameLedger == ledger' = ledger => KeepsCleans
  BY DEF KeepsCleans

\* A run ends: nothing it wrote changes, and nobody else notices but by the lock.
LEMMA ExitStep ==
    ASSUME NEW r \in Runs, NEW x, TypeOK, RunInv(r), Exit(r, x), UNCHANGED <<children, store>>,
           \/ x = "none"
           \/ x \in UnjournalledResults /\ row[r] = "absent"
           \/ x \in RunResults /\ row[r] = x
    PROVE  RunInv(r)' /\ KeepsCleans /\ \A q \in Runs \ {r} : NotOf(q)
<1> USE DEF Exit, store
<1>1. pc'[r] = "exited" /\ report'[r] = x /\ journal'[r] = journal[r] /\ row'[r] = row[r]
      /\ ledger' = ledger /\ children' = children
  BY DEF TypeOK
<1>2. KeepsCleans
  BY <1>1, SameLedger
<1>3. \A q \in Runs \ {r} : NotOf(q)
  BY DEF TypeOK, NotOf
<1>4. LockInv(r)' /\ PlanInv(r)' /\ RowReachable(r)'
  BY <1>1 DEF RunInv, LockInv, PlanInv, RowReachable, InLoop, AtWork
<1>5. RowInv(r)'
  <2>1. x \in UnjournalledResults => row[r] = "absent"
    BY DEF RunResults, UnjournalledResults
  <2>2. x \in RunResults => row[r] = x
    BY DEF RunResults, UnjournalledResults
  <2>3. InHand(r)' = InHand(r)
    BY <1>1 DEF InHand
  <2> QED
    BY <1>1, <2>1, <2>2, <2>3 DEF RunInv, RowInv, BeforeTheRun, InLoop, AtWork
<1>6. JournalInv(r)'
  BY <1>1 DEF RunInv, JournalInv, InLoop, AtWork
<1> QED
  BY <1>2, <1>3, <1>4, <1>5, <1>6 DEF RunInv

\* The part of JournalInv that does not speak of pc.
RowsInv(r) ==
    /\ \A i \in 1..(Len(journal[r]) - 1) :
          journal[r][i].state \in TerminalStates \ {"FAILED"}
    /\ \A i \in DOMAIN journal[r] : IsClean(journal[r][i]) =>
          /\ journal[r][i].workspace \in Workspaces
          /\ journal[r][i].state = "SUCCEEDED" =>
                ledger[journal[r][i].workspace].cleaned # Never
    /\ journal[r] # <<>> =>
          /\ journal[r][1].action = "clean_terminal_janitor_state"
          /\ journal[r][1].state # "SKIPPED_PROTECTED"

\* Amending the action in hand keeps the rows in order, if a clean is closed as
\* SUCCEEDED only when the ledger has it, and a sweep never as protected.
LEMMA AmendStep ==
    ASSUME TypeOK, NEW r \in Runs, JournalInv(r), journal[r] # <<>>, ledger' = ledger,
           NEW s \in ActionStates, NEW m \in FreeLevels \cup {Unmeasured},
           journal' = Amended(r, s, m),
           s = "SUCCEEDED" /\ IsClean(InHand(r)) =>
                ledger[InHand(r).workspace].cleaned # Never,
           s = "SKIPPED_PROTECTED" => IsClean(InHand(r))
    PROVE  /\ RowsInv(r)'
           /\ journal'[r] # <<>>
           /\ InHand(r)'.state = s
           /\ InHand(r)'.action = InHand(r).action
           /\ InHand(r)'.workspace = InHand(r).workspace
           /\ \A q \in Runs \ {r} : journal'[q] = journal[q]
           /\ StatesOf(r)' \subseteq StatesOf(r) \cup {s}
           /\ s \in StatesOf(r)'
           /\ StatesOf(r) \subseteq StatesOf(r)' \cup {InHand(r).state}
<1> DEFINE n == Len(journal[r])
<1>1. journal[r] \in Seq(Entry) /\ journal \in [Runs -> Seq(Entry)]
  BY DEF TypeOK
<1>2. n \in Nat /\ n >= 1 /\ InHand(r) = journal[r][n] /\ DOMAIN journal[r] = 1..n
  BY <1>1, LastElement DEF InHand, LastOf
<1>3. /\ journal'[r] \in Seq(Entry)
      /\ \A q \in Runs \ {r} : journal'[q] = journal[q]
      /\ Len(journal'[r]) = n
      /\ \A i \in 1..(n - 1) : journal'[r][i] = journal[r][i]
      /\ LastOf(journal'[r]) = [action |-> InHand(r).action, workspace |-> InHand(r).workspace,
                                state |-> s, freeAfter |-> m]
  <2> DEFINE A == Amended(r, s, m)
  <2>1. /\ A \in [Runs -> Seq(Entry)]
        /\ \A q \in Runs \ {r} : A[q] = journal[q]
        /\ Len(A[r]) = n
        /\ \A i \in 1..(n - 1) : A[r][i] = journal[r][i]
        /\ LastOf(A[r]) = [action |-> InHand(r).action, workspace |-> InHand(r).workspace,
                           state |-> s, freeAfter |-> m]
    BY <1>1, AmendedFacts
  <2> HIDE DEF A, n
  <2>2. journal' = A
    BY DEF A
  <2> QED
    BY <2>1, <2>2
<1>4. /\ journal'[r][n].state = s
      /\ journal'[r][n].action = InHand(r).action
      /\ journal'[r][n].workspace = InHand(r).workspace
      /\ InHand(r)' = journal'[r][n]
      /\ DOMAIN journal'[r] = 1..n
      /\ journal'[r] # <<>>
  BY <1>2, <1>3 DEF InHand, LastOf
<1> HIDE DEF n
<1>5. \A i \in 1..n : i = n \/ i \in 1..(n - 1)
  BY <1>2
<1>6. RowsInv(r)'
  <2>1. \A i \in 1..(Len(journal'[r]) - 1) :
           journal'[r][i].state \in TerminalStates \ {"FAILED"}
    BY <1>3 DEF JournalInv, n
  <2>2. \A i \in DOMAIN journal'[r] : IsClean(journal'[r][i]) =>
          /\ journal'[r][i].workspace \in Workspaces
          /\ journal'[r][i].state = "SUCCEEDED" =>
                ledger[journal'[r][i].workspace].cleaned # Never
    <3> SUFFICES ASSUME NEW i \in 1..n, IsClean(journal'[r][i])
                 PROVE  /\ journal'[r][i].workspace \in Workspaces
                        /\ journal'[r][i].state = "SUCCEEDED" =>
                              ledger[journal'[r][i].workspace].cleaned # Never
      BY <1>4
    <3>1. CASE i = n
      BY <3>1, <1>2, <1>4 DEF JournalInv, IsClean
    <3>2. CASE i \in 1..(n - 1)
      BY <3>2, <1>2, <1>3 DEF JournalInv, IsClean
    <3> QED
      BY <3>1, <3>2, <1>5
  <2>3. journal'[r][1].action = "clean_terminal_janitor_state"
        /\ journal'[r][1].state # "SKIPPED_PROTECTED"
    <3>1. CASE n = 1
      BY <3>1, <1>2, <1>4 DEF JournalInv, IsClean
    <3>2. CASE n > 1
      BY <3>2, <1>2, <1>3 DEF JournalInv
    <3> QED
      BY <3>1, <3>2, <1>2
  <2> QED
    BY <2>1, <2>2, <2>3 DEF RowsInv
<1>7. /\ StatesOf(r)' = {journal'[r][i].state : i \in 1..n}
      /\ StatesOf(r) = {journal[r][i].state : i \in 1..n}
  BY <1>2, <1>4 DEF StatesOf
<1>8. /\ StatesOf(r)' \subseteq StatesOf(r) \cup {s}
      /\ s \in StatesOf(r)'
      /\ StatesOf(r) \subseteq StatesOf(r)' \cup {InHand(r).state}
  <2>1. StatesOf(r)' \subseteq StatesOf(r) \cup {s}
    BY <1>2, <1>3, <1>4, <1>5, <1>7
  <2>2. s \in StatesOf(r)'
    BY <1>2, <1>4, <1>7
  <2>3. StatesOf(r) \subseteq StatesOf(r)' \cup {InHand(r).state}
    BY <1>2, <1>3, <1>5, <1>7
  <2> QED
    BY <2>1, <2>2, <2>3
<1> QED
  BY <1>3, <1>4, <1>6, <1>8

\* A step that leaves journal and ledger alone keeps the rows in order.
LEMMA RowsKept ==
    ASSUME NEW r \in Runs, JournalInv(r), journal'[r] = journal[r], ledger' = ledger
    PROVE  RowsInv(r)'
  BY DEF JournalInv, RowsInv

-----------------------------------------------------------------------------
(* The gates.                                                              *)

\* The least of a set of positive numbers that has 1.
LEMMA MinIsOne == ASSUME NEW F \in SUBSET Nat, 1 \in F, 0 \notin F PROVE Min(F) = 1
<1>1. \E x \in F : \A y \in F : x <= y
  OBVIOUS
<1>2. Min(F) \in F /\ \A y \in F : Min(F) <= y
  BY <1>1 DEF Min
<1> QED
  <2> DEFINE x == Min(F)
  <2>1. x \in F /\ x <= 1
    BY <1>2
  <2> HIDE DEF x
  <2>2. x \in Nat /\ x # 0
    BY <2>1
  <2>3. x = 1
    BY <2>1, <2>2
  <2> QED
    BY <2>3 DEF x

LEMMA CheckFields ==
    ASSUME NEW b \in BOOLEAN, NEW s PROVE (Check(b, s).fails <=> b) /\ Check(b, s).skip = s
  BY DEF Check

\* What is not a workspace clean is refused for the plan's age only.
LEMMA OnlyExpiry ==
    ASSUME NEW r \in Runs, NEW u \in BOOLEAN, ~IsClean(InHand(r))
    PROVE  FirstFailing(Checks(r, u)) \in {"PROVEN", "SKIPPED_CHANGED"}
<1> DEFINE b == InHand(r).action = "pnpm_workspace_clean" /\ u
           x == clock >= mem[r].expires
           c == << Check(b, "SKIPPED_UNKNOWN"), Check(x, "SKIPPED_CHANGED") >>
           F == {i \in DOMAIN c : c[i].fails}
<1>1. Checks(r, u) = c \o <<>>
  BY DEF Checks, IsClean
<1>2. c \o <<>> = c
  <2>1. c \in Seq({Check(b, "SKIPPED_UNKNOWN"), Check(x, "SKIPPED_CHANGED")})
    OBVIOUS
  <2> HIDE DEF c
  <2> QED
    BY <2>1
<1>3. DOMAIN c = {1, 2} /\ ~c[1].fails /\ c[2].skip = "SKIPPED_CHANGED"
  <2>1. ~b
    BY DEF IsClean
  <2>2. b \in BOOLEAN /\ x \in BOOLEAN
    OBVIOUS
  <2> HIDE DEF b, x
  <2>3. ~Check(b, "SKIPPED_UNKNOWN").fails /\ Check(x, "SKIPPED_CHANGED").skip = "SKIPPED_CHANGED"
    BY <2>1, <2>2, CheckFields
  <2>4. DOMAIN c = {1, 2} /\ c[1] = Check(b, "SKIPPED_UNKNOWN") /\ c[2] = Check(x, "SKIPPED_CHANGED")
    OBVIOUS
  <2> QED
    BY <2>3, <2>4
<1> HIDE DEF c
<1>4. F = {} \/ F = {2}
  BY <1>3
<1>5. Min({2}) = 2
  <2>1. Min({2}) \in {2}
    BY DEF Min
  <2> QED
    BY <2>1
<1>6. FirstFailing(Checks(r, u)) = IF F = {} THEN "PROVEN" ELSE c[Min(F)].skip
  BY <1>1, <1>2 DEF FirstFailing
<1> QED
  BY <1>3, <1>4, <1>5, <1>6

LEMMA JoinedChecks ==
    ASSUME NEW T, NEW a \in Seq(T), NEW b \in Seq(T), Len(a) = 2
    PROVE  1 \in DOMAIN (a \o b) /\ 0 \notin DOMAIN (a \o b) /\ DOMAIN (a \o b) \subseteq Nat
           /\ (a \o b)[1] = a[1]
  OBVIOUS

\* Snapshot-uncertain capacity refuses a clean before anything else does.
LEMMA UncertainFirst ==
    ASSUME NEW r \in Runs, IsClean(InHand(r))
    PROVE  FirstFailing(Checks(r, TRUE)) = "SKIPPED_UNKNOWN"
<1> DEFINE b == InHand(r).action = "pnpm_workspace_clean" /\ TRUE
           g == Gates(InHand(r).workspace, mem[r].seen, mem[r].enrolled)
           h == << Check(b, "SKIPPED_UNKNOWN"), Check(clock >= mem[r].expires, "SKIPPED_CHANGED") >>
           T == {h[1], h[2]} \cup {g[i] : i \in 1..8}
           c == h \o g
           F == {i \in DOMAIN c : c[i].fails}
<1>1. Checks(r, TRUE) = c
  BY DEF Checks, IsClean
<1>2. g \in Seq(T)
  <2>1. Len(g) = 8 /\ g = [i \in 1..8 |-> g[i]]
    BY DEF Gates
  <2> HIDE DEF g, h
  <2> QED
    BY <2>1
<1>3. h \in Seq(T) /\ Len(h) = 2 /\ h[1].fails /\ h[1].skip = "SKIPPED_UNKNOWN"
  <2>1. b /\ b \in BOOLEAN
    BY DEF IsClean
  <2> HIDE DEF b
  <2>2. Check(b, "SKIPPED_UNKNOWN").fails /\ Check(b, "SKIPPED_UNKNOWN").skip = "SKIPPED_UNKNOWN"
    BY <2>1, CheckFields
  <2>3. h[1] = Check(b, "SKIPPED_UNKNOWN") /\ Len(h) = 2 /\ h = [i \in 1..2 |-> h[i]]
    OBVIOUS
  <2> HIDE DEF h, g
  <2>4. h \in Seq(T)
    <3>1. h[1] \in T /\ h[2] \in T
      OBVIOUS
    <3> HIDE DEF T
    <3> QED
      BY <2>3, <3>1
  <2> QED
    BY <2>2, <2>3, <2>4
<1> HIDE DEF g, h, T
<1>4. 1 \in DOMAIN c /\ 0 \notin DOMAIN c /\ DOMAIN c \subseteq Nat /\ c[1] = h[1]
  BY <1>2, <1>3, JoinedChecks
<1> HIDE DEF c
<1>5. F \in SUBSET Nat /\ 1 \in F /\ 0 \notin F
  BY <1>3, <1>4
<1>6. Min(F) = 1
  BY <1>5, MinIsOne
<1>7. FirstFailing(Checks(r, TRUE)) = IF F = {} THEN "PROVEN" ELSE c[Min(F)].skip
  BY <1>1 DEF FirstFailing
<1> QED
  BY <1>3, <1>4, <1>5, <1>6, <1>7

-----------------------------------------------------------------------------
(* The steps of one run.                                                   *)

\* What is shown of each of them.
StepOf(r) == RunInv(r)' /\ KeepsCleans /\ \A q \in Runs \ {r} : NotOf(q)

\* Goto moves one run and reports nothing.
LEMMA GotoFacts ==
    ASSUME TypeOK, NEW r \in Runs, NEW x, Goto(r, x)
    PROVE  pc'[r] = x /\ report' = report /\ \A q \in Runs \ {r} : pc'[q] = pc[q]
  BY DEF TypeOK, Goto

\* The rows in order and the action in hand make up JournalInv.
LEMMA JournalParts ==
    ASSUME NEW r \in Runs, RowsInv(r)',
           pc'[r] \in InLoop \ {"between"} =>
               journal'[r] # <<>> /\ InHand(r)'.state \in StateInHand(pc'[r]),
           pc'[r] \in {"between", "finished"} /\ journal'[r] # <<>> =>
               InHand(r)'.state \in TerminalStates,
           pc'[r] = "cleaned" => IsClean(InHand(r))',
           pc'[r] = "closing" /\ mem'[r].ok /\ IsClean(InHand(r))' =>
               ledger'[InHand(r)'.workspace].cleaned # Never
    PROVE  JournalInv(r)'
  BY DEF JournalInv, RowsInv

LEMMA StepStartCheck ==
    ASSUME TypeOK, NEW r \in Runs, RunInv(r), StartCheck(r) PROVE StepOf(r)
<1> USE DEF machine, store
<1>1. /\ pc[r] = "idle" /\ pc'[r] = "planned" /\ report' = report
      /\ \A q \in Runs \ {r} : pc'[q] = pc[q]
  BY GotoFacts DEF StartCheck
<1>2. UNCHANGED <<lock, children, ledger, journal, row>>
  BY DEF StartCheck
<1>3. /\ mem'[r].plan # <<>>
      /\ mem'[r].plan[1].action = "clean_terminal_janitor_state"
      /\ \A i \in DOMAIN mem'[r].plan :
            IsClean(mem'[r].plan[i]) => mem'[r].plan[i].workspace \in Workspaces
      /\ mem'[r].next = mem[r].next
      /\ mem'[r].uncertain = mem[r].uncertain
      /\ \A q \in Runs \ {r} : mem'[q] = mem[q]
  BY MemoryStart DEF TypeOK
<1>4. KeepsCleans /\ \A q \in Runs \ {r} : NotOf(q)
  BY <1>1, <1>2, <1>3, SameLedger DEF NotOf
<1>5. LockInv(r)' /\ RowInv(r)' /\ RowReachable(r)' /\ JournalInv(r)'
  BY <1>1, <1>2
     DEF RunInv, LockInv, RowInv, RowReachable, JournalInv, BeforeTheRun, InLoop, AtWork, InHand
<1>6. PlanInv(r)'
  BY <1>1, <1>3 DEF RunInv, PlanInv, InLoop, AtWork
<1> QED
  BY <1>4, <1>5, <1>6 DEF StepOf, RunInv

LEMMA StepMeasureBeforeLock ==
    ASSUME TypeOK, NEW r \in Runs, RunInv(r), MeasureBeforeLock(r) PROVE StepOf(r)
<1> USE DEF machine, store
<1>1. pc[r] = "planned" /\ row[r] = "absent" /\ UNCHANGED <<children, store>>
  BY DEF MeasureBeforeLock, RunInv, RowInv, BeforeTheRun
<1>2. ASSUME NEW x \in UnjournalledResults, Exit(r, x) PROVE StepOf(r)
  BY <1>1, <1>2, ExitStep DEF StepOf
<1>3. ASSUME Goto(r, "pressed"), UNCHANGED <<lock, mem>> PROVE StepOf(r)
  <2>1. pc'[r] = "pressed" /\ report' = report /\ \A q \in Runs \ {r} : pc'[q] = pc[q]
    BY <1>3, GotoFacts
  <2>2. KeepsCleans /\ \A q \in Runs \ {r} : NotOf(q)
    BY <1>1, <1>3, <2>1, SameLedger DEF NotOf
  <2>3. RunInv(r)'
    BY <1>1, <1>3, <2>1 DEF RunInv, LockInv, RowInv, RowReachable, JournalInv, PlanInv,
                            BeforeTheRun, InLoop, AtWork, InHand
  <2> QED
    BY <2>2, <2>3 DEF StepOf
<1> QED
  BY <1>2, <1>3 DEF MeasureBeforeLock, UnjournalledResults

LEMMA StepTakeLock ==
    ASSUME TypeOK, NEW r \in Runs, RunInv(r), TakeLock(r) PROVE StepOf(r)
<1> USE DEF machine, store
<1>1. pc[r] = "pressed" /\ row[r] = "absent" /\ UNCHANGED <<children, store>>
  BY DEF TakeLock, RunInv, RowInv, BeforeTheRun
<1>2. CASE Exit(r, "ALREADY_RUNNING")
  BY <1>1, <1>2, ExitStep DEF StepOf, UnjournalledResults
<1>3. ASSUME lock = NoRun, lock' = r, Goto(r, "locked"), UNCHANGED mem PROVE StepOf(r)
  <2>1. pc'[r] = "locked" /\ report' = report /\ \A q \in Runs \ {r} : pc'[q] = pc[q]
    BY <1>3, GotoFacts
  <2>2. KeepsCleans /\ \A q \in Runs \ {r} : NotOf(q)
    BY <1>1, <1>3, <2>1, SameLedger DEF NotOf
  <2>3. RunInv(r)'
    BY <1>1, <1>3, <2>1 DEF RunInv, LockInv, RowInv, RowReachable, JournalInv, PlanInv,
                            BeforeTheRun, InLoop, AtWork, InHand
  <2> QED
    BY <2>2, <2>3 DEF StepOf
<1> QED
  BY <1>2, <1>3 DEF TakeLock

LEMMA StepBeginRun ==
    ASSUME TypeOK, NEW r \in Runs, RunInv(r), BeginRun(r) PROVE StepOf(r)
<1> USE DEF machine, store
<1>1. pc[r] = "locked" /\ row[r] = "absent" /\ lock = r /\ journal[r] = <<>>
      /\ UNCHANGED <<children, ledger, journal>>
  BY DEF BeginRun, RunInv, RowInv, LockInv, BeforeTheRun
<1>2. ASSUME NEW x \in UnjournalledResults, Exit(r, x), UNCHANGED row PROVE StepOf(r)
  BY <1>1, <1>2, ExitStep DEF StepOf
<1>3. ASSUME NEW m \in FreeLevels, m < Minimum, row' = [row EXCEPT ![r] = "open"],
             mem' = [mem EXCEPT ![r].free = m], Goto(r, "between"), UNCHANGED lock
      PROVE  StepOf(r)
  <2>1. pc'[r] = "between" /\ report' = report /\ \A q \in Runs \ {r} : pc'[q] = pc[q]
    BY <1>3, GotoFacts
  <2>2. mem[r] \in Memory /\ m < Target
    BY <1>3 DEF TypeOK
  <2>3. /\ mem'[r].free = m /\ mem'[r].plan = mem[r].plan /\ mem'[r].next = mem[r].next
        /\ mem'[r].uncertain = mem[r].uncertain
        /\ \A q \in Runs \ {r} : mem'[q] = mem[q]
    BY <1>3, <2>2 DEF TypeOK, Memory
  <2>4. row'[r] = "open" /\ \A q \in Runs \ {r} : row'[q] = row[q]
    BY <1>3 DEF TypeOK
  <2>5. KeepsCleans /\ \A q \in Runs \ {r} : NotOf(q)
    BY <1>1, <1>3, <2>1, <2>3, <2>4, SameLedger DEF NotOf
  <2>6. LockInv(r)' /\ RowInv(r)' /\ RowReachable(r)'
    BY <1>1, <1>3, <2>1, <2>4 DEF RunInv, LockInv, RowInv, RowReachable, BeforeTheRun, InLoop,
                                  AtWork, UnjournalledResults, RunResults
  <2>7. JournalInv(r)'
    BY <1>1, <2>1 DEF RunInv, JournalInv
  <2>8. PlanInv(r)'
    BY <1>1, <2>1, <2>2, <2>3 DEF RunInv, PlanInv, InLoop, AtWork
  <2> QED
    BY <2>5, <2>6, <2>7, <2>8 DEF StepOf, RunInv
<1> QED
  BY <1>2, <1>3 DEF BeginRun, UnjournalledResults

\* The end of a run, by Return or by the death of the process.
LEMMA StepEnd ==
    ASSUME TypeOK, NEW r \in Runs, RunInv(r), Return(r) \/ Abort(r) PROVE StepOf(r)
<1>1. UNCHANGED <<children, store>>
  BY DEF Return, Abort
<1>2. Exit(r, "none") \/ (row[r] \in RunResults /\ Exit(r, row[r]))
  BY DEF Return, Abort, RunInv, RowInv
<1>3. ASSUME NEW x, Exit(r, x), x = "none" \/ (x \in RunResults /\ row[r] = x) PROVE StepOf(r)
  BY <1>1, <1>3, ExitStep DEF StepOf
<1> QED
  BY <1>2, <1>3

-----------------------------------------------------------------------------
(* The steps of the loop.                                                  *)

\* Writing down a new action after settled rows keeps the rows in order.
LEMMA AppendStep ==
    ASSUME TypeOK, NEW r \in Runs, RunInv(r), pc[r] = "between", ~FailedRun(r),
           NEW a \in PlannedAction, journal' = [journal EXCEPT ![r] = Append(@, Planned(a))],
           ledger' = ledger,
           journal[r] = <<>> => a.action = "clean_terminal_janitor_state",
           IsClean(a) => a.workspace \in Workspaces
    PROVE  /\ RowsInv(r)'
           /\ journal'[r] # <<>>
           /\ InHand(r)' = Planned(a)
           /\ StatesOf(r)' = StatesOf(r) \cup {"PLANNED"}
           /\ \A q \in Runs \ {r} : journal'[q] = journal[q]
<1> DEFINE n == Len(journal[r])
           e == Planned(a)
<1>1. journal[r] \in Seq(Entry) /\ journal \in [Runs -> Seq(Entry)] /\ n \in Nat
  BY DEF TypeOK
<1>2. e \in Entry /\ e.action = a.action /\ e.workspace = a.workspace /\ e.state = "PLANNED"
  BY DEF Planned, PlannedRow, Entry, PlannedAction, ActionStates
<1> HIDE DEF e
<1>3. journal'[r] = Append(journal[r], e) /\ \A q \in Runs \ {r} : journal'[q] = journal[q]
  BY <1>1 DEF e
<1>4. /\ Len(journal'[r]) = n + 1
      /\ DOMAIN journal'[r] = 1..(n + 1)
      /\ DOMAIN journal[r] = 1..n
      /\ journal'[r][n + 1] = e
      /\ \A i \in 1..n : journal'[r][i] = journal[r][i]
  BY <1>1, <1>2, <1>3
<1> HIDE DEF n
<1>5. InHand(r)' = e /\ journal'[r] # <<>>
  BY <1>1, <1>4 DEF InHand, LastOf
<1>6. \A i \in 1..(n + 1) : i = n + 1 \/ i \in 1..n
  BY <1>1
<1>7. StatesOf(r)' = {journal'[r][i].state : i \in 1..(n + 1)}
      /\ StatesOf(r) = {journal[r][i].state : i \in 1..n}
  BY <1>4 DEF StatesOf
<1>8. StatesOf(r)' = StatesOf(r) \cup {"PLANNED"}
  <2>1. \A i \in 1..n : i \in 1..(n + 1)
    BY <1>1
  <2>2. n + 1 \in 1..(n + 1)
    BY <1>1
  <2> QED
    BY <1>2, <1>4, <1>6, <1>7, <2>1, <2>2
<1>9. \A i \in 1..n : journal[r][i].state \in TerminalStates \ {"FAILED"}
  <2>1. journal[r] # <<>> => InHand(r) = journal[r][n] /\ InHand(r).state \in TerminalStates
    BY DEF RunInv, JournalInv, InHand, LastOf, n
  <2>2. \A i \in 1..n : journal[r] # <<>> /\ (i = n \/ i \in 1..(n - 1))
    BY <1>1 DEF n
  <2>3. "FAILED" \notin StatesOf(r)
    BY DEF FailedRun
  <2>4. \A i \in 1..(n - 1) : journal[r][i].state \in TerminalStates
    BY DEF RunInv, JournalInv, n
  <2> QED
    BY <1>7, <2>1, <2>2, <2>3, <2>4
<1>10. RowsInv(r)'
  <2>1. \A i \in 1..(Len(journal'[r]) - 1) :
           journal'[r][i].state \in TerminalStates \ {"FAILED"}
    BY <1>1, <1>4, <1>9
  <2>2. \A i \in DOMAIN journal'[r] : IsClean(journal'[r][i]) =>
          /\ journal'[r][i].workspace \in Workspaces
          /\ journal'[r][i].state = "SUCCEEDED" =>
                ledger[journal'[r][i].workspace].cleaned # Never
    <3> SUFFICES ASSUME NEW i \in 1..(n + 1), IsClean(journal'[r][i])
                 PROVE  /\ journal'[r][i].workspace \in Workspaces
                        /\ journal'[r][i].state = "SUCCEEDED" =>
                              ledger[journal'[r][i].workspace].cleaned # Never
      BY <1>4
    <3>1. CASE i = n + 1
      BY <3>1, <1>2, <1>4 DEF IsClean
    <3>2. CASE i \in 1..n
      BY <3>2, <1>4 DEF RunInv, JournalInv
    <3> QED
      BY <3>1, <3>2, <1>6
  <2>3. journal'[r][1].action = "clean_terminal_janitor_state"
        /\ journal'[r][1].state # "SKIPPED_PROTECTED"
    <3>1. CASE journal[r] = <<>>
      BY <3>1, <1>2, <1>4 DEF n
    <3>2. CASE journal[r] # <<>>
      <4>1. 1 \in 1..n
        BY <3>2, <1>1 DEF n
      <4> QED
        BY <3>2, <4>1, <1>4 DEF RunInv, JournalInv
    <3> QED
      BY <3>1, <3>2
  <2> QED
    BY <2>1, <2>2, <2>3 DEF RowsInv
<1> QED
  BY <1>3, <1>5, <1>8, <1>10 DEF e

\* Both ways of writing an action down leave the rest alike.
LEMMA StepAppended ==
    ASSUME TypeOK, NEW r \in Runs, RunInv(r), pc[r] = "between", ~FailedRun(r),
           NEW a \in PlannedAction, journal' = [journal EXCEPT ![r] = Append(@, Planned(a))],
           journal[r] = <<>> => a.action = "clean_terminal_janitor_state",
           IsClean(a) => a.workspace \in Workspaces,
           Goto(r, "recorded"), UNCHANGED <<lock, children, ledger, row>>,
           mem'[r].plan = mem[r].plan, mem'[r].uncertain = mem[r].uncertain,
           \A q \in Runs \ {r} : mem'[q] = mem[q]
    PROVE  StepOf(r)
<1>1. pc'[r] = "recorded" /\ report' = report /\ \A q \in Runs \ {r} : pc'[q] = pc[q]
  BY GotoFacts
<1>2. /\ RowsInv(r)'
      /\ journal'[r] # <<>>
      /\ InHand(r)' = Planned(a)
      /\ StatesOf(r)' = StatesOf(r) \cup {"PLANNED"}
      /\ \A q \in Runs \ {r} : journal'[q] = journal[q]
  BY AppendStep
<1>3. InHand(r)'.state = "PLANNED"
  BY <1>2 DEF Planned, PlannedRow
<1>4. KeepsCleans /\ \A q \in Runs \ {r} : NotOf(q)
  BY <1>1, <1>2, SameLedger DEF NotOf
<1>5. LockInv(r)' /\ RowInv(r)' /\ RowReachable(r)'
  BY <1>1 DEF RunInv, LockInv, RowInv, RowReachable, BeforeTheRun, InLoop, AtWork
<1>6. JournalInv(r)'
  <2>1. InHand(r)'.state \in StateInHand(pc'[r])
    BY <1>1, <1>3 DEF StateInHand, AtWork
  <2> QED
    BY <1>1, <1>2, <2>1, JournalParts
<1>7. PlanInv(r)'
  BY <1>1, <1>2 DEF RunInv, PlanInv, InLoop, AtWork
<1> QED
  BY <1>4, <1>5, <1>6, <1>7 DEF StepOf, RunInv

LEMMA StepJournalNext ==
    ASSUME TypeOK, NEW r \in Runs, RunInv(r), JournalNext(r) PROVE StepOf(r)
<1> DEFINE a == mem[r].plan[mem[r].next]
<1>1. mem[r] \in Memory /\ pc[r] = "between"
  BY DEF TypeOK, JournalNext
<1>2. mem[r].plan \in Seq(PlannedAction) /\ mem[r].next \in DOMAIN mem[r].plan
  <2>1. mem[r].plan \in Seq(PlannedAction) /\ mem[r].next \in Nat \ {0}
    BY <1>1 DEF Memory
  <2>2. mem[r].next <= Len(mem[r].plan)
    BY DEF JournalNext, LoopGoesOn
  <2> QED
    BY <2>1, <2>2, IndexOfSeq
<1>3. a \in PlannedAction
  BY <1>2
<1>4. /\ IsClean(a) => a.workspace \in Workspaces
      /\ journal[r] = <<>> => a.action = "clean_terminal_janitor_state"
  BY <1>1, <1>2 DEF RunInv, PlanInv, InLoop
<1>5. /\ mem'[r].plan = mem[r].plan /\ mem'[r].uncertain = mem[r].uncertain
      /\ \A q \in Runs \ {r} : mem'[q] = mem[q]
  BY <1>1 DEF JournalNext, Memory, TypeOK
<1>6. /\ journal' = [journal EXCEPT ![r] = Append(@, Planned(a))]
      /\ ~FailedRun(r) /\ Goto(r, "recorded") /\ UNCHANGED <<lock, children, ledger, row>>
  BY DEF JournalNext, LoopGoesOn
<1> HIDE DEF a
<1> QED
  BY <1>1, <1>3, <1>4, <1>5, <1>6, StepAppended

LEMMA StepJournalPostCleanPrune ==
    ASSUME TypeOK, NEW r \in Runs, RunInv(r), JournalPostCleanPrune(r) PROVE StepOf(r)
<1> DEFINE a == Action("pnpm_store_prune", NoWorkspace)
<1>1. mem[r] \in Memory /\ pc[r] = "between"
  BY DEF TypeOK, JournalPostCleanPrune
<1>2. a \in PlannedAction /\ ~IsClean(a)
  BY DEF Action, PlannedAction, Actions, IsClean
<1>3. /\ mem'[r].plan = mem[r].plan /\ mem'[r].uncertain = mem[r].uncertain
      /\ \A q \in Runs \ {r} : mem'[q] = mem[q]
  BY <1>1 DEF JournalPostCleanPrune, Memory, TypeOK
<1>4. /\ journal' = [journal EXCEPT ![r] = Append(@, Planned(a))]
      /\ journal[r] # <<>> /\ ~FailedRun(r)
      /\ Goto(r, "recorded") /\ UNCHANGED <<lock, children, ledger, row>>
  BY DEF JournalPostCleanPrune, PostCleanDue
<1> HIDE DEF a
<1> QED
  BY <1>1, <1>2, <1>3, <1>4, StepAppended

LEMMA StepBeginValidation ==
    ASSUME TypeOK, NEW r \in Runs, RunInv(r), BeginValidation(r) PROVE StepOf(r)
<1>1. pc[r] = "recorded" /\ journal[r] # <<>> /\ InHand(r).state = "PLANNED"
  BY DEF BeginValidation, RunInv, JournalInv, InLoop, StateInHand, AtWork
<1>2. pc'[r] = "validating" /\ report' = report /\ \A q \in Runs \ {r} : pc'[q] = pc[q]
  BY GotoFacts DEF BeginValidation
<1>3. UNCHANGED <<lock, children, ledger, row, mem>>
  BY DEF BeginValidation
<1>4. /\ RowsInv(r)' /\ journal'[r] # <<>> /\ InHand(r)'.state = "VALIDATING"
      /\ \A q \in Runs \ {r} : journal'[q] = journal[q]
      /\ StatesOf(r) \subseteq StatesOf(r)' \cup {InHand(r).state}
  <2>1. "VALIDATING" \in ActionStates
    BY DEF ActionStates, UnresolvedStates
  <2>2. journal' = Amended(r, "VALIDATING", Unmeasured)
    BY DEF BeginValidation
  <2> QED
    BY <1>1, <1>3, <2>1, <2>2, AmendStep DEF RunInv
<1>5. KeepsCleans /\ \A q \in Runs \ {r} : NotOf(q)
  BY <1>2, <1>3, <1>4, SameLedger DEF NotOf
<1>6. LockInv(r)' /\ RowInv(r)' /\ RowReachable(r)'
  BY <1>1, <1>2, <1>3, <1>4 DEF RunInv, LockInv, RowInv, RowReachable, BeforeTheRun, InLoop, AtWork
<1>7. JournalInv(r)'
  <2>1. InHand(r)'.state \in StateInHand(pc'[r])
    BY <1>2, <1>4 DEF StateInHand, AtWork
  <2> QED
    BY <1>2, <1>4, <2>1, JournalParts
<1>8. PlanInv(r)'
  BY <1>1, <1>2, <1>3, <1>4 DEF RunInv, PlanInv, InLoop, AtWork
<1> QED
  BY <1>5, <1>6, <1>7, <1>8 DEF StepOf, RunInv

LEMMA StepRefuse ==
    ASSUME TypeOK, NEW r \in Runs, RunInv(r), Refuse(r) PROVE StepOf(r)
<1>1. pc[r] = "validating" /\ journal[r] # <<>> /\ InHand(r).state = "VALIDATING"
  BY DEF Refuse, RunInv, JournalInv, InLoop, StateInHand, AtWork
<1>2. pc'[r] = "between" /\ report' = report /\ \A q \in Runs \ {r} : pc'[q] = pc[q]
  BY GotoFacts DEF Refuse
<1>3. UNCHANGED <<lock, children, ledger, row>>
  BY DEF Refuse
<1>4. PICK u \in BOOLEAN :
         /\ FirstFailing(Checks(r, u)) \in SkipStates
         /\ journal' = Amended(r, FirstFailing(Checks(r, u)), Unmeasured)
         /\ mem' = [mem EXCEPT ![r].uncertain =
                       @ \/ (u /\ InHand(r).action = "pnpm_workspace_clean")]
  BY DEF Refuse
<1> DEFINE s == FirstFailing(Checks(r, u))
<1>5. /\ mem'[r].plan = mem[r].plan /\ mem'[r].next = mem[r].next /\ mem'[r].free = mem[r].free
      /\ mem'[r].uncertain => mem[r].uncertain \/ (u /\ IsClean(InHand(r)))
      /\ \A q \in Runs \ {r} : mem'[q] = mem[q]
  <2>1. mem[r] \in Memory
    BY DEF TypeOK
  <2>2. mem'[r] = [mem[r] EXCEPT !.uncertain =
                      @ \/ (u /\ InHand(r).action = "pnpm_workspace_clean")]
        /\ \A q \in Runs \ {r} : mem'[q] = mem[q]
    BY <1>4 DEF TypeOK
  <2>3. mem'[r].uncertain = (mem[r].uncertain \/ (u /\ InHand(r).action = "pnpm_workspace_clean"))
    BY <2>1, <2>2 DEF Memory
  <2>4. mem'[r].plan = mem[r].plan /\ mem'[r].next = mem[r].next /\ mem'[r].free = mem[r].free
    BY <2>1, <2>2 DEF Memory
  <2>5. mem'[r].uncertain => mem[r].uncertain \/ (u /\ IsClean(InHand(r)))
    BY <2>3 DEF IsClean
  <2> QED
    BY <2>2, <2>4, <2>5
<1>6. s \in SkipStates /\ s \in ActionStates /\ s \in TerminalStates /\ s # "SUCCEEDED"
  BY <1>4 DEF ActionStates, TerminalStates, SkipStates
<1>7. s = "SKIPPED_PROTECTED" => IsClean(InHand(r))
  BY OnlyExpiry
<1>8. u /\ IsClean(InHand(r)) => s = "SKIPPED_UNKNOWN"
  <2>1. ASSUME u, IsClean(InHand(r)) PROVE s = "SKIPPED_UNKNOWN"
    <3>1. u = TRUE
      BY <2>1
    <3> QED
      BY <2>1, <3>1, UncertainFirst
  <2> QED
    BY <2>1
<1>9. journal' = Amended(r, s, Unmeasured)
  BY <1>4
<1> HIDE DEF s
<1>10. /\ RowsInv(r)' /\ journal'[r] # <<>> /\ InHand(r)'.state = s
       /\ \A q \in Runs \ {r} : journal'[q] = journal[q]
       /\ s \in StatesOf(r)'
       /\ StatesOf(r) \subseteq StatesOf(r)' \cup {InHand(r).state}
  BY <1>1, <1>3, <1>6, <1>7, <1>9, AmendStep DEF RunInv
<1>11. KeepsCleans /\ \A q \in Runs \ {r} : NotOf(q)
  BY <1>2, <1>3, <1>5, <1>10, SameLedger DEF NotOf
<1>12. LockInv(r)' /\ RowInv(r)' /\ RowReachable(r)'
  BY <1>1, <1>2, <1>3, <1>10 DEF RunInv, LockInv, RowInv, RowReachable, BeforeTheRun, InLoop, AtWork
<1>13. JournalInv(r)'
  BY <1>2, <1>6, <1>10, JournalParts
<1>14. PlanInv(r)'
  BY <1>1, <1>2, <1>5, <1>8, <1>10 DEF RunInv, PlanInv, InLoop, AtWork
<1> QED
  BY <1>11, <1>12, <1>13, <1>14 DEF StepOf, RunInv

LEMMA StepAuthorise ==
    ASSUME TypeOK, NEW r \in Runs, RunInv(r), Authorise(r) PROVE StepOf(r)
<1>1. pc[r] = "validating" /\ journal[r] # <<>> /\ InHand(r).state = "VALIDATING"
  BY DEF Authorise, RunInv, JournalInv, InLoop, StateInHand, AtWork
<1>2. pc'[r] = "running" /\ report' = report /\ \A q \in Runs \ {r} : pc'[q] = pc[q]
  BY GotoFacts DEF Authorise
<1>3. UNCHANGED <<lock, children, ledger, row, mem>>
  BY DEF Authorise
<1>4. /\ RowsInv(r)' /\ journal'[r] # <<>> /\ InHand(r)'.state = "RUNNING"
      /\ \A q \in Runs \ {r} : journal'[q] = journal[q]
      /\ StatesOf(r) \subseteq StatesOf(r)' \cup {InHand(r).state}
  <2>1. "RUNNING" \in ActionStates
    BY DEF ActionStates, UnresolvedStates
  <2>2. journal' = Amended(r, "RUNNING", Unmeasured)
    BY DEF Authorise
  <2> QED
    BY <1>1, <1>3, <2>1, <2>2, AmendStep DEF RunInv
<1>5. KeepsCleans /\ \A q \in Runs \ {r} : NotOf(q)
  BY <1>2, <1>3, <1>4, SameLedger DEF NotOf
<1>6. LockInv(r)' /\ RowInv(r)' /\ RowReachable(r)'
  BY <1>1, <1>2, <1>3, <1>4 DEF RunInv, LockInv, RowInv, RowReachable, BeforeTheRun, InLoop, AtWork
<1>7. JournalInv(r)'
  <2>1. InHand(r)'.state \in StateInHand(pc'[r])
    BY <1>2, <1>4 DEF StateInHand, AtWork
  <2> QED
    BY <1>2, <1>4, <2>1, JournalParts
<1>8. PlanInv(r)'
  BY <1>1, <1>2, <1>3, <1>4 DEF RunInv, PlanInv, InLoop, AtWork
<1> QED
  BY <1>5, <1>6, <1>7, <1>8 DEF StepOf, RunInv

\* What a measurement does not touch.
LEMMA MeasuredFacts ==
    ASSUME TypeOK, NEW r \in Runs, NEW ok \in BOOLEAN, NEW m, Measured(r, ok, m)
    PROVE  /\ mem'[r].ok = ok
           /\ mem'[r].plan = mem[r].plan /\ mem'[r].next = mem[r].next
           /\ mem'[r].uncertain = mem[r].uncertain
           /\ \A q \in Runs \ {r} : mem'[q] = mem[q]
<1>1. mem[r] \in Memory
  BY DEF TypeOK
<1> QED
  BY <1>1 DEF Measured, Memory, TypeOK

\* A step of a run at work that leaves journal and ledger alone.
LEMMA StepAtWork ==
    ASSUME TypeOK, NEW r \in Runs, RunInv(r), pc[r] \in {"running", "waiting"},
           UNCHANGED <<lock, ledger, journal, row>>,
           NEW p \in {"waiting", "cleaned", "closing"}, Goto(r, p),
           children' \ {r} = children \ {r},
           r \in children' => p = "waiting",
           mem'[r].plan = mem[r].plan, mem'[r].uncertain = mem[r].uncertain,
           \A q \in Runs \ {r} : mem'[q] = mem[q],
           p = "cleaned" => IsClean(InHand(r)),
           p = "closing" /\ mem'[r].ok => ~IsClean(InHand(r))
    PROVE  StepOf(r)
<1>1. journal[r] # <<>> /\ InHand(r).state = "RUNNING"
  BY DEF RunInv, JournalInv, InLoop, StateInHand, AtWork
<1>2. pc'[r] = p /\ report' = report /\ \A q \in Runs \ {r} : pc'[q] = pc[q]
  BY GotoFacts
<1>3. journal' = journal /\ InHand(r)' = InHand(r)
  BY DEF InHand
<1>4. KeepsCleans /\ \A q \in Runs \ {r} : NotOf(q)
  BY <1>2, SameLedger DEF NotOf
<1>5. LockInv(r)' /\ RowInv(r)' /\ RowReachable(r)'
  BY <1>1, <1>2, <1>3 DEF RunInv, LockInv, RowInv, RowReachable, BeforeTheRun, InLoop, AtWork
<1>6. JournalInv(r)'
  <2>1. RowsInv(r)'
    BY <1>3, RowsKept DEF RunInv
  <2>2. InHand(r)'.state \in StateInHand(pc'[r])
    BY <1>1, <1>2, <1>3 DEF StateInHand, AtWork
  <2> QED
    BY <1>1, <1>2, <1>3, <2>1, <2>2, JournalParts DEF IsClean
<1>7. PlanInv(r)'
  <2>1. StatesOf(r)' = StatesOf(r)
    BY <1>3 DEF StatesOf
  <2> QED
    BY <1>1, <1>2, <1>3, <2>1 DEF RunInv, PlanInv, InLoop, AtWork
<1> QED
  BY <1>4, <1>5, <1>6, <1>7 DEF StepOf, RunInv

LEMMA StepPerform ==
    ASSUME TypeOK, NEW r \in Runs, RunInv(r),
           PerformInProcess(r) \/ StartCommand(r) \/ CommandEnds(r)
    PROVE  StepOf(r)
<1> USE DEF store
<1>1. CASE PerformInProcess(r)
  <2>1. PICK ok \in BOOLEAN, m \in FreeLevels \cup {Unmeasured} :
           (ok => InHand(r).action = "clean_terminal_janitor_state") /\ Measured(r, ok, m)
    BY <1>1 DEF PerformInProcess
  <2>2. /\ pc[r] = "running" /\ Goto(r, "closing")
        /\ UNCHANGED <<lock, children, ledger, journal, row>>
    BY <1>1 DEF PerformInProcess
  <2>3. r \notin children
    BY <2>2 DEF RunInv, RowInv
  <2>4. mem'[r].ok => ~IsClean(InHand(r))
    BY <2>1, MeasuredFacts DEF IsClean
  <2>5. /\ mem'[r].plan = mem[r].plan /\ mem'[r].uncertain = mem[r].uncertain
        /\ \A q \in Runs \ {r} : mem'[q] = mem[q]
    BY <2>1, MeasuredFacts
  <2> QED
    BY <2>2, <2>3, <2>4, <2>5, StepAtWork
<1>2. CASE StartCommand(r)
  BY <1>2, StepAtWork DEF StartCommand
<1>3. CASE CommandEnds(r)
  <2>1. PICK ok \in BOOLEAN, m \in FreeLevels \cup {Unmeasured} :
           /\ Measured(r, ok, m)
           /\ Goto(r, IF ok /\ InHand(r).action = "pnpm_workspace_clean"
                      THEN "cleaned" ELSE "closing")
    BY <1>3 DEF CommandEnds
  <2>2. pc[r] = "waiting" /\ children' = children \ {r} /\ UNCHANGED <<lock, ledger, journal, row>>
    BY <1>3 DEF CommandEnds
  <2>3. /\ mem'[r].ok = ok
        /\ mem'[r].plan = mem[r].plan /\ mem'[r].uncertain = mem[r].uncertain
        /\ \A q \in Runs \ {r} : mem'[q] = mem[q]
    BY <2>1, MeasuredFacts
  <2>4. CASE ok /\ IsClean(InHand(r))
    <3>1. Goto(r, "cleaned")
      BY <2>1, <2>4 DEF IsClean
    <3> QED
      BY <2>2, <2>3, <2>4, <3>1, StepAtWork
  <2>5. CASE ~(ok /\ IsClean(InHand(r)))
    <3>1. Goto(r, "closing")
      BY <2>1, <2>5 DEF IsClean
    <3> QED
      BY <2>2, <2>3, <2>5, <3>1, StepAtWork
  <2> QED
    BY <2>4, <2>5
<1> QED
  BY <1>1, <1>2, <1>3

LEMMA StepRecordCleaned ==
    ASSUME TypeOK, NEW r \in Runs, RunInv(r), RecordCleaned(r) PROVE StepOf(r)
<1>1. /\ pc[r] = "cleaned" /\ journal[r] # <<>> /\ InHand(r).state = "RUNNING"
      /\ IsClean(InHand(r)) /\ r \notin children
  BY DEF RecordCleaned, RunInv, JournalInv, RowInv, InLoop, StateInHand, AtWork
<1>2. pc'[r] = "closing" /\ report' = report /\ \A q \in Runs \ {r} : pc'[q] = pc[q]
  BY GotoFacts DEF RecordCleaned
<1>3. UNCHANGED <<lock, children, journal, row, mem>> /\ InHand(r)' = InHand(r)
  BY DEF RecordCleaned, InHand
<1>4. InHand(r).workspace \in Workspaces
  <2>1. journal[r] \in Seq(Entry)
    BY DEF TypeOK
  <2>2. Len(journal[r]) \in DOMAIN journal[r]
    BY <1>1, <2>1, LastElement
  <2> QED
    BY <1>1, <2>2 DEF RunInv, JournalInv, InHand, LastOf
<1>5. /\ ledger'[InHand(r).workspace].cleaned # Never
      /\ KeepsCleans
  <2>1. clock # Never /\ ledger \in [Workspaces -> LedgerRecord]
    BY DEF TypeOK
  <2>2. ledger' = [ledger EXCEPT ![InHand(r).workspace].cleaned = clock]
    BY DEF RecordCleaned
  <2>3. ledger'[InHand(r).workspace].cleaned = clock
    BY <1>4, <2>1, <2>2 DEF LedgerRecord
  <2>4. \A w \in Workspaces : ledger'[w].cleaned = ledger[w].cleaned \/ w = InHand(r).workspace
    BY <2>1, <2>2 DEF LedgerRecord
  <2> QED
    BY <2>1, <2>3, <2>4 DEF KeepsCleans
<1>6. \A q \in Runs \ {r} : NotOf(q)
  BY <1>2, <1>3 DEF NotOf
<1>7. LockInv(r)' /\ RowInv(r)' /\ RowReachable(r)'
  BY <1>1, <1>2, <1>3 DEF RunInv, LockInv, RowInv, RowReachable, BeforeTheRun, InLoop, AtWork
<1>8. JournalInv(r)'
  <2>1. RowsInv(r)'
    BY <1>3, <1>5 DEF RunInv, JournalInv, RowsInv, KeepsCleans
  <2>2. InHand(r)'.state \in StateInHand(pc'[r])
    BY <1>1, <1>2, <1>3 DEF StateInHand, AtWork
  <2> QED
    BY <1>1, <1>2, <1>3, <1>5, <2>1, <2>2, JournalParts
<1>9. PlanInv(r)'
  <2>1. StatesOf(r)' = StatesOf(r)
    BY <1>3 DEF StatesOf
  <2> QED
    BY <1>1, <1>2, <1>3, <2>1 DEF RunInv, PlanInv, InLoop, AtWork
<1> QED
  BY <1>5, <1>6, <1>7, <1>8, <1>9 DEF StepOf, RunInv

LEMMA StepCloseAction ==
    ASSUME TypeOK, NEW r \in Runs, RunInv(r), CloseAction(r) PROVE StepOf(r)
<1> DEFINE s == IF mem[r].ok THEN "SUCCEEDED" ELSE "FAILED"
           m == mem[r].freeAfter
<1>1. pc[r] = "closing" /\ journal[r] # <<>> /\ InHand(r).state = "RUNNING" /\ r \notin children
  BY DEF CloseAction, RunInv, JournalInv, RowInv, InLoop, StateInHand, AtWork
<1>2. pc'[r] = "between" /\ report' = report /\ \A q \in Runs \ {r} : pc'[q] = pc[q]
  BY GotoFacts DEF CloseAction
<1>3. UNCHANGED <<lock, children, ledger, row>> /\ mem[r] \in Memory
  BY DEF CloseAction, TypeOK
<1>4. /\ mem'[r].plan = mem[r].plan /\ mem'[r].next = mem[r].next /\ mem'[r].free = mem[r].free
      /\ mem'[r].uncertain = mem[r].uncertain
      /\ \A q \in Runs \ {r} : mem'[q] = mem[q]
  BY <1>3 DEF CloseAction, Memory, TypeOK
<1>5. s \in ActionStates /\ s \in TerminalStates /\ s # "SKIPPED_PROTECTED"
  BY DEF ActionStates, TerminalStates
<1>6. s = "SUCCEEDED" /\ IsClean(InHand(r)) => ledger[InHand(r).workspace].cleaned # Never
  BY <1>1 DEF RunInv, JournalInv
<1>7. journal' = Amended(r, s, m) /\ m \in FreeLevels \cup {Unmeasured}
  BY <1>3 DEF CloseAction, Memory
<1> HIDE DEF s, m
<1>8. /\ RowsInv(r)' /\ journal'[r] # <<>> /\ InHand(r)'.state = s
      /\ \A q \in Runs \ {r} : journal'[q] = journal[q]
      /\ StatesOf(r) \subseteq StatesOf(r)' \cup {InHand(r).state}
  BY <1>1, <1>3, <1>5, <1>6, <1>7, AmendStep DEF RunInv
<1>9. KeepsCleans /\ \A q \in Runs \ {r} : NotOf(q)
  BY <1>2, <1>3, <1>4, <1>8, SameLedger DEF NotOf
<1>10. LockInv(r)' /\ RowInv(r)' /\ RowReachable(r)'
  BY <1>1, <1>2, <1>3, <1>8 DEF RunInv, LockInv, RowInv, RowReachable, BeforeTheRun, InLoop, AtWork
<1>11. JournalInv(r)'
  BY <1>2, <1>5, <1>8, JournalParts
<1>12. PlanInv(r)'
  BY <1>1, <1>2, <1>4, <1>8 DEF RunInv, PlanInv, InLoop, AtWork
<1> QED
  BY <1>9, <1>10, <1>11, <1>12 DEF StepOf, RunInv

\* When the loop is over every row is settled, and the sweep is among them.
LEMMA SettledAtTheEnd ==
    ASSUME TypeOK, NEW r \in Runs, RunInv(r), pc[r] = "between"
    PROVE  /\ StatesOf(r) \subseteq TerminalStates
           /\ journal[r] # <<>> => 1 \in DOMAIN journal[r] /\ journal[r][1].state \in StatesOf(r)
<1> DEFINE n == Len(journal[r])
<1>1. journal[r] \in Seq(Entry) /\ n \in Nat /\ DOMAIN journal[r] = 1..n
  BY DEF TypeOK
<1>2. \A i \in 1..n : journal[r] # <<>> /\ (i = n \/ i \in 1..(n - 1))
  BY <1>1
<1>3. \A i \in 1..n : journal[r][i].state \in TerminalStates
  BY <1>2 DEF RunInv, JournalInv, InHand, LastOf
<1>4. journal[r] # <<>> => 1 \in 1..n
  BY <1>1
<1> QED
  BY <1>1, <1>3, <1>4 DEF StatesOf

\* classify() cannot give the two results.
LEMMA ClassifyReach ==
    ASSUME TypeOK, NEW r \in Runs, RunInv(r), pc[r] = "between", ~LoopGoesOn(r)
    PROVE  Classify(r) \in RunResults \ {"OK_PARTIAL_SAFE_RECLAIM", "SKIPPED_PROTECTED"}
<1>1. mem[r] \in Memory
  BY DEF TypeOK
<1>2. mem[r].free \in Nat /\ mem[r].plan \in Seq(PlannedAction)
  BY <1>1 DEF Memory
<1>3. Classify(r) \in RunResults
  BY DEF Classify, RunResults
<1>4. Classify(r) # "OK_PARTIAL_SAFE_RECLAIM"
  <2>1. ~(mem[r].free >= Target) => ~(Unattempted(r) > 0)
    BY DEF Unattempted
  <2> QED
    BY <2>1 DEF Classify
<1>5. ASSUME ~FailedRun(r), ~(mem[r].free >= Target), "SUCCEEDED" \notin StatesOf(r),
             StatesOf(r) \cap SkipStates = {"SKIPPED_PROTECTED"}
      PROVE  FALSE
  <2>1. CASE journal[r] = <<>>
    <3>1. mem[r].next = 1 /\ mem[r].plan # <<>>
      BY <2>1 DEF RunInv, PlanInv, InLoop
    <3>2. mem[r].next <= Len(mem[r].plan) /\ mem[r].free < Target
      BY <1>2, <1>5, <3>1
    <3> QED
      BY <1>5, <3>2 DEF LoopGoesOn
  <2>2. CASE journal[r] # <<>>
    <3>1. journal[r][1].state \in StatesOf(r) \cap TerminalStates
          /\ journal[r][1].state # "SKIPPED_PROTECTED"
      BY <2>2, SettledAtTheEnd DEF RunInv, JournalInv
    <3>2. journal[r][1].state # "SUCCEEDED" /\ journal[r][1].state # "FAILED"
      BY <1>5, <3>1 DEF FailedRun
    <3> QED
      BY <1>5, <3>1, <3>2 DEF TerminalStates
  <2> QED
    BY <2>1, <2>2
<1>6. Classify(r) # "SKIPPED_PROTECTED"
  BY <1>5 DEF Classify
<1> QED
  BY <1>3, <1>4, <1>6

LEMMA StepFinishRun ==
    ASSUME TypeOK, NEW r \in Runs, RunInv(r), FinishRun(r) PROVE StepOf(r)
<1>1. pc[r] = "between" /\ ~LoopGoesOn(r) /\ row[r] = "open" /\ lock = r /\ r \notin children
      /\ report[r] = "none"
  BY DEF FinishRun, RunInv, RowInv, LockInv, InLoop
<1>2. pc'[r] = "finished" /\ report' = report /\ \A q \in Runs \ {r} : pc'[q] = pc[q]
  BY GotoFacts DEF FinishRun
<1>3. UNCHANGED <<lock, children, ledger, journal, mem>> /\ InHand(r)' = InHand(r)
  BY DEF FinishRun, InHand
<1>4. row'[r] = Classify(r) /\ \A q \in Runs \ {r} : row'[q] = row[q]
  BY DEF FinishRun, TypeOK
<1>5. row'[r] \in RunResults \ {"OK_PARTIAL_SAFE_RECLAIM", "SKIPPED_PROTECTED"}
  BY <1>1, <1>4, ClassifyReach
<1>6. KeepsCleans /\ \A q \in Runs \ {r} : NotOf(q)
  BY <1>2, <1>3, <1>4, SameLedger DEF NotOf
<1>7. LockInv(r)' /\ RowInv(r)' /\ RowReachable(r)'
  BY <1>1, <1>2, <1>3, <1>5 DEF LockInv, RowInv, RowReachable, BeforeTheRun, InLoop, AtWork,
                                RunResults, UnjournalledResults
<1>8. JournalInv(r)'
  <2>1. RowsInv(r)'
    BY <1>3, RowsKept DEF RunInv
  <2> QED
    BY <1>1, <1>2, <1>3, <2>1, JournalParts DEF RunInv, JournalInv, InLoop, AtWork
<1>9. PlanInv(r)'
  BY <1>2 DEF PlanInv, InLoop, AtWork
<1> QED
  BY <1>6, <1>7, <1>8, <1>9 DEF StepOf, RunInv

-----------------------------------------------------------------------------
(* The theorems.                                                           *)

LEMMA Initially == Init => IInv
<1> SUFFICES ASSUME Init PROVE IInv
  OBVIOUS
<1>1. TypeOK
  BY InitialMemory DEF Init, TypeOK, PcStates
<1>2. ASSUME NEW r \in Runs PROVE RunInv(r)
  BY DEF Init, RunInv, LockInv, RowInv, JournalInv, PlanInv, RowReachable, NoMemory,
         BeforeTheRun, InLoop, AtWork, RunResults, UnjournalledResults
<1> QED
  BY <1>1, <1>2 DEF IInv

LEMMA Inductive == IInv /\ [Next]_vars => IInv'
<1> SUFFICES ASSUME IInv, [Next]_vars PROVE IInv'
  OBVIOUS
<1>1. TypeOK /\ \A r \in Runs : RunInv(r)
  BY DEF IInv
<1>2. TypeOK'
  BY <1>1, TypeStep DEF RunInv
<1>3. ASSUME NEW r \in Runs, StepOf(r) PROVE \A q \in Runs : RunInv(q)'
  BY <1>1, <1>3, Frame DEF StepOf
<1>4. ASSUME NEW r \in Runs, StartCheck(r) \/ RunStep(r) \/ Abort(r)
      PROVE  StepOf(r)
  BY <1>1, <1>4, StepStartCheck, StepMeasureBeforeLock, StepTakeLock, StepBeginRun,
     StepJournalNext, StepJournalPostCleanPrune, StepBeginValidation, StepRefuse, StepAuthorise,
     StepPerform, StepRecordCleaned, StepCloseAction, StepFinishRun, StepEnd
  DEF RunStep
<1>5. ASSUME \/ Tick \/ PnpmReplaced \/ UNCHANGED vars
             \/ \E w \in Workspaces : FactsChange(w) \/ SetProtected(w)
      PROVE  KeepsCleans /\ \A q \in Runs : NotOf(q)
  <2> USE DEF NotOf, processes, store, machine
  <2>1. CASE Tick
    BY <2>1, SameLedger DEF Tick
  <2>2. CASE PnpmReplaced
    BY <2>2, SameLedger DEF PnpmReplaced
  <2>3. ASSUME NEW w \in Workspaces, FactsChange(w) PROVE KeepsCleans /\ \A q \in Runs : NotOf(q)
    BY <2>3, SameLedger DEF FactsChange
  <2>4. ASSUME NEW w \in Workspaces, SetProtected(w) PROVE KeepsCleans /\ \A q \in Runs : NotOf(q)
    <3>1. \A v \in Workspaces : ledger'[v].cleaned = ledger[v].cleaned
      BY <1>1, <2>4 DEF SetProtected, TypeOK, LedgerRecord
    <3> QED
      BY <2>4, <3>1 DEF SetProtected, KeepsCleans
  <2>5. CASE UNCHANGED vars
    BY <2>5, SameLedger DEF vars
  <2> QED
    BY <1>5, <2>1, <2>2, <2>3, <2>4, <2>5
<1>6. ASSUME NEW r \in Runs, OrphanEnds(r) PROVE StepOf(r)
  <2> USE DEF processes, store, machine
  <2>1. KeepsCleans /\ \A q \in Runs \ {r} : NotOf(q)
    BY <1>6, SameLedger DEF OrphanEnds, NotOf
  <2>2. UNCHANGED <<lock, journal, row, ledger, pc, mem, report>> /\ r \notin children'
    BY <1>6 DEF OrphanEnds
  <2>3. RunInv(r)'
    BY <1>1, <2>2 DEF RunInv, LockInv, RowInv, JournalInv, PlanInv, RowReachable, InHand, StatesOf
  <2> QED
    BY <2>1, <2>3 DEF StepOf
<1>7. ASSUME NEW r \in Runs, StepOf(r) \/ (KeepsCleans /\ \A q \in Runs : NotOf(q))
      PROVE  IInv'
  BY <1>1, <1>2, <1>3, <1>7, Frame DEF IInv
<1>8. CASE Runs = {}
  BY <1>2, <1>8 DEF IInv
<1> QED
  BY <1>4, <1>5, <1>6, <1>7, <1>8 DEF Next, Environment

\* The inductive invariant holds throughout.
THEOREM Invariance == Spec => []IInv
  BY Initially, Inductive, PTL DEF Spec

\* Every variable keeps its type.
THEOREM TypeCorrect == Spec => []TypeOK
<1>1. IInv => TypeOK
  BY DEF IInv
<1> QED
  BY <1>1, Invariance, PTL

\* Journalled before execution: a living pnpm, orphaned or not, always has a row
\* that says RUNNING, in a run without a result.
THEOREM JournalledFirst == Spec => []WriteAhead
<1>1. IInv => WriteAhead
  BY DEF IInv, TypeOK, WriteAhead, RunInv, RowInv
<1> QED
  BY <1>1, Invariance, PTL

\* However many invocations there are, no two of those alive have pnpm at work.
THEOREM OneAtATime == Spec => []OneCommandAtATime
<1>1. IInv => OneCommandAtATime
  <2> SUFFICES ASSUME IInv, NEW r \in children, NEW s \in children, Live(r), Live(s)
               PROVE  r = s
    BY DEF OneCommandAtATime
  <2>1. r \in Runs /\ s \in Runs
    BY DEF IInv, TypeOK
  <2>2. pc[r] = "waiting" /\ pc[s] = "waiting"
    BY <2>1 DEF IInv, RunInv, RowInv, Live
  <2>3. lock = r /\ lock = s
    BY <2>1, <2>2 DEF IInv, RunInv, LockInv, InLoop, AtWork
  <2> QED
    BY <2>3
<1> QED
  BY <1>1, Invariance, PTL

\* A clean the journal calls SUCCEEDED is in the ledger, wherever runs are killed.
THEOREM CleanRecordedFirst == Spec => []CooldownBeforeSuccess
<1>1. IInv => CooldownBeforeSuccess
  BY DEF IInv, CooldownBeforeSuccess, RunInv, JournalInv, IsClean
<1> QED
  BY <1>1, Invariance, PTL

\* Why PartialReclaimReported fails, in every instance: what classify() counts as
\* unattempted is left only at the target, so the partial result is never stored,
\* and the own-state sweep, which no protection refuses, is part of every run, so
\* SKIPPED_PROTECTED is not stored either.
THEOREM TwoResultsUnreachable ==
    Spec => [](\A r \in Runs : row[r] \notin {"OK_PARTIAL_SAFE_RECLAIM", "SKIPPED_PROTECTED"})
<1>1. IInv => \A r \in Runs : row[r] \notin {"OK_PARTIAL_SAFE_RECLAIM", "SKIPPED_PROTECTED"}
  BY DEF IInv, RunInv, RowReachable
<1> QED
  BY <1>1, Invariance, PTL

\* What a run reports is what its rows say.
THEOREM ReportFaithful == Spec => []ReportMatchesJournal
<1>1. IInv => ReportMatchesJournal
  BY DEF IInv, ReportMatchesJournal, RunInv, RowInv
<1> QED
  BY <1>1, Invariance, PTL

-----------------------------------------------------------------------------
(* The executor implements RunJournal.                                     *)

\* The result finish_run stores is borne out by the rows.
LEMMA ClassifyWarranted ==
    ASSUME TypeOK, NEW r \in Runs, RunInv(r), pc[r] = "between", ~LoopGoesOn(r)
    PROVE  Journal!Warranted(r, Classify(r))
<1> DEFINE S == StatesOf(r)
           c == Classify(r)
<1>1. Journal!StatesOf(r) = S
  BY DEF Journal!StatesOf, StatesOf
<1>2. mem[r].uncertain => "SKIPPED_UNKNOWN" \in S
  BY DEF RunInv, PlanInv, InLoop
<1>3. c # "OK_PARTIAL_SAFE_RECLAIM" /\ c # "SKIPPED_PROTECTED"
  BY ClassifyReach
<1>4. c = "FAILED_COMMAND" <=> "FAILED" \in S
  BY DEF Classify, FailedRun
<1>5. c = "SKIPPED_SNAPSHOT_CAPACITY_UNCERTAIN" => "SKIPPED_UNKNOWN" \in S
  BY <1>2 DEF Classify
<1>6. c = "SKIPPED_ACTIVITY_UNCERTAIN" =>
         "SUCCEEDED" \notin S /\ S \cap {"SKIPPED_ACTIVE", "SKIPPED_UNKNOWN"} # {}
  BY DEF Classify, SkipStates
<1> HIDE DEF S, c
<1> QED
  BY <1>1, <1>3, <1>4, <1>5, <1>6 DEF Journal!Warranted, c

\* The two modules share one vocabulary.
LEMMA SameVocabulary ==
    /\ Journal!Actions = Actions /\ Journal!SkipStates = SkipStates
    /\ Journal!TerminalStates = TerminalStates /\ Journal!RunResults = RunResults
  BY DEF Journal!Actions, Actions, Journal!SkipStates, SkipStates, Journal!TerminalStates,
         TerminalStates, Journal!RunResults, RunResults

\* Amending the action in hand is an Advance.
LEMMA AmendIsAdvance ==
    ASSUME NEW r \in Runs, row[r] = "open", journal[r] # <<>>, UNCHANGED row,
           NEW s, NEW m \in FreeLevels \cup {Unmeasured}, journal' = Amended(r, s, m),
           s \in Journal!Successors(InHand(r).state),
           m # Unmeasured => s \in {"SUCCEEDED", "FAILED"}
    PROVE  Journal!Next
<1>1. InHand(r) = Journal!LastOf(journal[r])
  BY DEF InHand, LastOf, Journal!LastOf
<1>2. journal' = [journal EXCEPT ![r][Len(journal[r])] =
                     Journal!WithState(Journal!LastOf(journal[r]), s, m)]
  BY <1>1 DEF Amended, WithState, Journal!WithState
<1>3. Journal!Advance(r)
  BY <1>1, <1>2 DEF Journal!Advance
<1> QED
  BY <1>3 DEF Journal!Next

LEMMA JournalStep == IInv /\ [Next]_vars => [Journal!Next]_(Journal!jvars)
<1> SUFFICES ASSUME IInv, [Next]_vars PROVE Journal!Next \/ UNCHANGED <<journal, row>>
  BY DEF Journal!jvars
<1> USE DEF machine, store, processes
<1>0. TypeOK /\ \A r \in Runs : RunInv(r)
  BY DEF IInv
<1>1. ASSUME NEW r \in Runs, BeginRun(r) PROVE Journal!Next \/ UNCHANGED <<journal, row>>
  <2>1. row[r] = "absent"
    BY <1>0, <1>1 DEF BeginRun, RunInv, RowInv, BeforeTheRun
  <2>2. UNCHANGED journal /\ (UNCHANGED row \/ row' = [row EXCEPT ![r] = "open"])
    BY <1>1 DEF BeginRun
  <2> QED
    BY <2>1, <2>2 DEF Journal!Next, Journal!OpenRun
<1>2. ASSUME NEW r \in Runs, pc[r] = "between", ~FailedRun(r), UNCHANGED row,
             NEW a \in PlannedAction, journal' = [journal EXCEPT ![r] = Append(@, Planned(a))]
      PROVE  Journal!Next
  <2>1. row[r] = "open"
    BY <1>0, <1>2 DEF RunInv, RowInv, InLoop
  <2>2. Journal!StatesOf(r) = StatesOf(r)
    BY DEF Journal!StatesOf, StatesOf
  <2>3. Journal!Settled(r) /\ "FAILED" \notin Journal!StatesOf(r)
    BY <1>0, <1>2, <2>2, SettledAtTheEnd, SameVocabulary DEF Journal!Settled, FailedRun
  <2>4. a.action \in Actions /\ a.workspace \in Workspaces \cup {NoWorkspace}
    BY DEF PlannedAction
  <2>5. journal' = [journal EXCEPT ![r] =
                       Append(@, Journal!PlannedRow(a.action, a.workspace, Unmeasured))]
    BY <1>2 DEF Planned, PlannedRow, Journal!PlannedRow
  <2>6. Journal!PlanAction(r)
    BY <1>2, <2>1, <2>3, <2>4, <2>5, SameVocabulary DEF Journal!PlanAction
  <2> QED
    BY <2>6 DEF Journal!Next
<1>3. ASSUME NEW r \in Runs, JournalNext(r) PROVE Journal!Next
  <2> DEFINE a == mem[r].plan[mem[r].next]
  <2>1. mem[r] \in Memory
    BY <1>0 DEF TypeOK
  <2>2. mem[r].plan \in Seq(PlannedAction) /\ mem[r].next \in Nat \ {0}
    BY <2>1 DEF Memory
  <2>3. a \in PlannedAction
    <3>1. mem[r].next <= Len(mem[r].plan)
      BY <1>3 DEF JournalNext, LoopGoesOn
    <3> QED
      BY <2>2, <3>1
  <2>4. journal' = [journal EXCEPT ![r] = Append(@, Planned(a))]
        /\ pc[r] = "between" /\ ~FailedRun(r) /\ UNCHANGED row
    BY <1>3 DEF JournalNext, LoopGoesOn
  <2> HIDE DEF a
  <2> QED
    BY <1>2, <2>3, <2>4
<1>4. ASSUME NEW r \in Runs, JournalPostCleanPrune(r) PROVE Journal!Next
  <2> DEFINE a == Action("pnpm_store_prune", NoWorkspace)
  <2>1. a \in PlannedAction
    BY DEF Action, PlannedAction, Actions
  <2>2. journal' = [journal EXCEPT ![r] = Append(@, Planned(a))]
        /\ pc[r] = "between" /\ ~FailedRun(r) /\ UNCHANGED row
    BY <1>4 DEF JournalPostCleanPrune, PostCleanDue
  <2> HIDE DEF a
  <2> QED
    BY <1>2, <2>1, <2>2
<1>5. ASSUME NEW r \in Runs, pc[r] \in InLoop \ {"between"}
      PROVE  row[r] = "open" /\ journal[r] # <<>> /\ InHand(r).state \in StateInHand(pc[r])
  BY <1>0, <1>5 DEF RunInv, RowInv, JournalInv, InLoop
<1>6. ASSUME NEW r \in Runs, BeginValidation(r) PROVE Journal!Next
  <2>1. pc[r] = "recorded" /\ journal' = Amended(r, "VALIDATING", Unmeasured) /\ UNCHANGED row
    BY <1>6 DEF BeginValidation
  <2>2. row[r] = "open" /\ journal[r] # <<>> /\ InHand(r).state = "PLANNED"
    BY <1>5, <2>1 DEF StateInHand, InLoop, AtWork
  <2>3. "VALIDATING" \in Journal!Successors("PLANNED")
    BY DEF Journal!Successors
  <2> QED
    BY <2>1, <2>2, <2>3, AmendIsAdvance
<1>7. ASSUME NEW r \in Runs, Refuse(r) PROVE Journal!Next
  <2>1. PICK u \in BOOLEAN :
           /\ FirstFailing(Checks(r, u)) \in SkipStates
           /\ journal' = Amended(r, FirstFailing(Checks(r, u)), Unmeasured)
    BY <1>7 DEF Refuse
  <2>2. pc[r] = "validating" /\ UNCHANGED row
    BY <1>7 DEF Refuse
  <2>3. row[r] = "open" /\ journal[r] # <<>> /\ InHand(r).state = "VALIDATING"
    BY <1>5, <2>2 DEF StateInHand, InLoop, AtWork
  <2>4. SkipStates \subseteq Journal!Successors("VALIDATING")
    BY SameVocabulary DEF Journal!Successors
  <2> QED
    BY <2>1, <2>2, <2>3, <2>4, AmendIsAdvance
<1>8. ASSUME NEW r \in Runs, Authorise(r) PROVE Journal!Next
  <2>1. pc[r] = "validating" /\ journal' = Amended(r, "RUNNING", Unmeasured) /\ UNCHANGED row
    BY <1>8 DEF Authorise
  <2>2. row[r] = "open" /\ journal[r] # <<>> /\ InHand(r).state = "VALIDATING"
    BY <1>5, <2>1 DEF StateInHand, InLoop, AtWork
  <2>3. "RUNNING" \in Journal!Successors("VALIDATING")
    BY DEF Journal!Successors
  <2> QED
    BY <2>1, <2>2, <2>3, AmendIsAdvance
<1>9. ASSUME NEW r \in Runs, CloseAction(r) PROVE Journal!Next
  <2> DEFINE s == IF mem[r].ok THEN "SUCCEEDED" ELSE "FAILED"
             m == mem[r].freeAfter
  <2>1. pc[r] = "closing" /\ journal' = Amended(r, s, m) /\ UNCHANGED row
    BY <1>9 DEF CloseAction
  <2>2. row[r] = "open" /\ journal[r] # <<>> /\ InHand(r).state = "RUNNING"
    BY <1>5, <2>1 DEF StateInHand, InLoop, AtWork
  <2>3. s \in {"SUCCEEDED", "FAILED"} /\ s \in Journal!Successors("RUNNING")
    BY DEF Journal!Successors
  <2>4. m \in FreeLevels \cup {Unmeasured}
    BY <1>0 DEF TypeOK, Memory
  <2> HIDE DEF s, m
  <2> QED
    BY <2>1, <2>2, <2>3, <2>4, AmendIsAdvance
<1>10. ASSUME NEW r \in Runs, FinishRun(r) PROVE Journal!Next
  <2>1. /\ pc[r] = "between" /\ ~LoopGoesOn(r)
        /\ row' = [row EXCEPT ![r] = Classify(r)] /\ UNCHANGED journal
    BY <1>10 DEF FinishRun
  <2>2. row[r] = "open"
    BY <1>0, <2>1 DEF RunInv, RowInv, InLoop
  <2>3. Journal!Settled(r)
    BY <1>0, <2>1, SettledAtTheEnd, SameVocabulary DEF Journal!Settled, Journal!StatesOf, StatesOf
  <2>4. Classify(r) \in RunResults /\ Journal!Warranted(r, Classify(r))
    BY <1>0, <2>1, ClassifyReach, ClassifyWarranted
  <2>5. Journal!CloseRun(r)
    BY <2>1, <2>2, <2>3, <2>4, SameVocabulary DEF Journal!CloseRun
  <2> QED
    BY <2>5 DEF Journal!Next
<1>11. ASSUME NEW r \in Runs, StartCheck(r) \/ RunStep(r) \/ Abort(r) \/ OrphanEnds(r)
       PROVE  Journal!Next \/ UNCHANGED <<journal, row>>
  <2>1. CASE \/ StartCheck(r) \/ MeasureBeforeLock(r) \/ TakeLock(r) \/ PerformInProcess(r)
             \/ StartCommand(r) \/ CommandEnds(r) \/ RecordCleaned(r) \/ Return(r) \/ Abort(r)
             \/ OrphanEnds(r)
    BY <2>1 DEF StartCheck, MeasureBeforeLock, TakeLock, PerformInProcess, StartCommand,
                CommandEnds, RecordCleaned, Return, Abort, OrphanEnds
  <2> QED
    BY <1>1, <1>3, <1>4, <1>6, <1>7, <1>8, <1>9, <1>10, <1>11, <2>1 DEF RunStep
<1>12. ASSUME \/ Tick \/ PnpmReplaced \/ UNCHANGED vars
              \/ \E w \in Workspaces : FactsChange(w) \/ SetProtected(w)
       PROVE  UNCHANGED <<journal, row>>
  BY <1>12 DEF Tick, PnpmReplaced, vars, FactsChange, SetProtected
<1> QED
  BY <1>11, <1>12 DEF Next, Environment

\* Whatever the disk, pnpm, the users and the other runs do, and wherever a run
\* is killed, the journal keeps the promises of RunJournal.
THEOREM ImplementsJournal == Spec => JournalSpec
<1>1. Init => Journal!Init
  BY DEF Init, Journal!Init
<1> QED
  BY <1>1, JournalStep, Invariance, PTL DEF Spec, JournalSpec, Journal!Spec
=============================================================================
