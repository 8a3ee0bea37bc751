---------------------------- MODULE Limits_proofs ----------------------------
(***************************************************************************)
(* Where the threshold loop stops, what it does at most and what it leaves *)
(* alone, for any number of invocations, workspaces, free-space levels and *)
(* limits.                                                                 *)
(*                                                                         *)
(* StopInv(r): when the loop decides whether to go on, what it believes to *)
(* be free is what the action before measured, if that was measured.       *)
(* CapInv(r): what a run has written down and what its plan still holds    *)
(* are together within the limits.                                         *)
(* CoolInv(r): the last clean a run knows of, of the workspace it is       *)
(* cleaning, is old enough.                                                *)
(***************************************************************************)
EXTENDS Executor_proofs

USE ExecutorAssumption

StopInv(r) ==
    /\ \A i \in 1..(Len(journal[r]) - 1) :
          journal[r][i].freeAfter # Unmeasured => journal[r][i].freeAfter < Target
    /\ pc[r] = "between" /\ journal[r] # <<>> /\ InHand(r).freeAfter # Unmeasured =>
          mem[r].free = InHand(r).freeAfter
    /\ pc[r] \in {"cleaned", "closing"} /\ mem[r].freeAfter # Unmeasured =>
          mem[r].free = mem[r].freeAfter

\* How many actions of kind a a plan holds at most.
Most(a) == IF a = "pnpm_workspace_clean" THEN MaxCleans ELSE 1

\* Those of the plan that are still to come.
Ahead(r, a) == {i \in DOMAIN mem[r].plan : i >= mem[r].next /\ mem[r].plan[i].action = a}

\* The post-clean prunes, done and permitted.
Extra(r, a) == IF a = "pnpm_store_prune" THEN mem[r].postCleans ELSE 0
Permitted(a) == IF a = "pnpm_store_prune" THEN MaxPostClean ELSE 0

HasPlan == {"planned", "pressed", "locked"} \cup InLoop

CapInv(r) ==
    /\ pc[r] \notin HasPlan => \A a \in Actions : CountOf(r, a) <= Most(a) + Permitted(a)
    /\ pc[r] = "idle" => mem[r].postCleans = 0
    /\ pc[r] \in HasPlan =>
          /\ mem[r].postCleans <= MaxPostClean
          /\ \A a \in Actions :
                CountOf(r, a) + Cardinality(Ahead(r, a)) <= Most(a) + Extra(r, a)

LimitInv(r) == StopInv(r) /\ CapInv(r)

-----------------------------------------------------------------------------
(* Counting.                                                               *)

OfKind(s, a) == {i \in DOMAIN s : s[i].action = a}

LEMMA CountType ==
    ASSUME NEW T, NEW s \in Seq(T), NEW a
    PROVE  IsFiniteSet(OfKind(s, a)) /\ Cardinality(OfKind(s, a)) \in Nat
<1>1. DOMAIN s = 1..Len(s) /\ Len(s) \in Nat
  OBVIOUS
<1>2. IsFiniteSet(1..Len(s))
  BY <1>1, FS_Interval
<1>3. OfKind(s, a) \in SUBSET (1..Len(s))
  BY <1>1 DEF OfKind
<1> QED
  BY <1>2, <1>3, FS_Subset, FS_CardinalityType

LEMMA CountAppended ==
    ASSUME NEW T, NEW s \in Seq(T), NEW e \in T, NEW a
    PROVE  Cardinality(OfKind(Append(s, e), a)) =
              Cardinality(OfKind(s, a)) + (IF e.action = a THEN 1 ELSE 0)
<1> DEFINE n == Len(s)
           t == Append(s, e)
<1>1. /\ n \in Nat /\ DOMAIN s = 1..n /\ DOMAIN t = 1..(n + 1)
      /\ \A i \in 1..n : t[i] = s[i]
      /\ t[n + 1] = e
  OBVIOUS
<1> HIDE DEF n, t
<1>2. IsFiniteSet(OfKind(s, a)) /\ Cardinality(OfKind(s, a)) \in Nat
  BY CountType
<1>3. \A i : i \in 1..(n + 1) <=> i \in 1..n \/ i = n + 1
  BY <1>1
<1>4. n + 1 \notin OfKind(s, a)
  BY <1>1 DEF OfKind
<1>5. CASE e.action = a
  <2>1. OfKind(t, a) = OfKind(s, a) \cup {n + 1}
    BY <1>1, <1>3, <1>5 DEF OfKind
  <2> QED
    BY <1>2, <1>4, <1>5, <2>1, FS_AddElement DEF t
<1>6. CASE e.action # a
  <2>1. OfKind(t, a) = OfKind(s, a)
    BY <1>1, <1>3, <1>6 DEF OfKind
  <2> QED
    BY <1>2, <1>6, <2>1 DEF t
<1> QED
  BY <1>5, <1>6

\* A plan holds one sweep, at most one prune and at most MaxCleans cleans.
LEMMA PlanCounts ==
    ASSUME NEW S \in SUBSET Workspaces, NEW e \in BOOLEAN, NEW s \in Selections(S),
           NEW a \in Actions
    PROVE  Cardinality(OfKind(PlanOf(s, e), a)) <= Most(a)
<1> DEFINE n == IF Cardinality(S) < MaxCleans THEN Cardinality(S) ELSE MaxCleans
           own == Action("clean_terminal_janitor_state", NoWorkspace)
           prune == Action("pnpm_store_prune", NoWorkspace)
           cleans == [i \in DOMAIN s |-> Action("pnpm_workspace_clean", s[i])]
           middle == IF e /\ pnpmSame THEN <<prune>> ELSE <<>>
           k == 1 + Len(middle)
           p == PlanOf(s, e)
<1>1. n \in Nat /\ n <= MaxCleans
  BY FS_Subset, FS_CardinalityType
<1>2. s \in [1..n -> S]
  BY DEF Selections
<1>3. /\ own \in PlannedAction /\ prune \in PlannedAction
      /\ own.action = "clean_terminal_janitor_state"
      /\ prune.action = "pnpm_store_prune"
  BY DEF Action, PlannedAction, Actions
<1>4. /\ cleans \in Seq(PlannedAction) /\ Len(cleans) = n
      /\ \A i \in 1..n : cleans[i].action = "pnpm_workspace_clean"
  <2>1. \A i \in 1..n : /\ Action("pnpm_workspace_clean", s[i]) \in PlannedAction
                        /\ Action("pnpm_workspace_clean", s[i]).action = "pnpm_workspace_clean"
    BY <1>2 DEF Action, PlannedAction, Actions
  <2>2. cleans = [i \in 1..n |-> Action("pnpm_workspace_clean", s[i])]
    BY <1>2
  <2> HIDE DEF cleans, n
  <2> QED
    BY <1>1, <2>1, <2>2
<1>5. /\ middle \in Seq(PlannedAction)
      /\ Len(middle) = 0 \/ (Len(middle) = 1 /\ middle[1] = prune)
  BY <1>3
<1>6. p = <<own>> \o middle \o cleans
  BY DEF PlanOf
<1> HIDE DEF own, prune, cleans, middle, n, p
<1> DEFINE head == <<own>> \o middle
<1>7. /\ DOMAIN p = 1..(k + n)
      /\ p[1] = own
      /\ k = 2 => p[2] = prune
      /\ \A i \in (k + 1)..(k + n) : p[i] = cleans[i - k]
  <2>1. head \in Seq(PlannedAction) /\ Len(head) = k /\ head[1] = own
    BY <1>3, <1>5
  <2>2. k = 2 => head[2] = prune
    BY <1>3, <1>5
  <2>3. p = head \o cleans
    BY <1>6
  <2>4. k = 1 \/ k = 2
    BY <1>5
  <2> HIDE DEF head, k
  <2> QED
    BY <1>1, <1>4, <2>1, <2>2, <2>3, <2>4
<1>8. k = 1 \/ k = 2
  BY <1>5
<1> HIDE DEF k
<1>9. \A i \in 1..(k + n) : i = 1 \/ (i = 2 /\ k = 2) \/ i \in (k + 1)..(k + n)
  BY <1>1, <1>8
<1>10. \A i \in (k + 1)..(k + n) : p[i].action = "pnpm_workspace_clean"
  <2> SUFFICES ASSUME NEW i \in (k + 1)..(k + n) PROVE p[i].action = "pnpm_workspace_clean"
    OBVIOUS
  <2>1. i - k \in 1..n
    BY <1>1, <1>8
  <2> QED
    BY <1>4, <1>7, <2>1
<1>11. CASE a = "clean_terminal_janitor_state"
  <2>0. IsFiniteSet({1}) /\ Cardinality({1}) = 1
    BY FS_Singleton
  <2>1. OfKind(p, a) \subseteq {1}
    BY <1>3, <1>7, <1>9, <1>10, <1>11 DEF OfKind
  <2>2. Cardinality(OfKind(p, a)) <= 1
    BY <2>0, <2>1, FS_Subset
  <2> QED
    BY <1>11, <2>2 DEF Most, p
<1>12. CASE a = "pnpm_store_prune"
  <2>0. IsFiniteSet({2}) /\ Cardinality({2}) = 1
    BY FS_Singleton
  <2>1. OfKind(p, a) \subseteq {2}
    BY <1>3, <1>7, <1>9, <1>10, <1>12 DEF OfKind
  <2>2. Cardinality(OfKind(p, a)) <= 1
    BY <2>0, <2>1, FS_Subset
  <2> QED
    BY <1>12, <2>2 DEF Most, p
<1>13. CASE a = "pnpm_workspace_clean"
  <2>1. OfKind(p, a) \subseteq (k + 1)..(k + n)
    BY <1>3, <1>7, <1>9, <1>13 DEF OfKind
  <2>2. k + 1 \in Int /\ k + n \in Int
    BY <1>1, <1>8
  <2>3. IsFiniteSet((k + 1)..(k + n)) /\ Cardinality((k + 1)..(k + n)) = n
    BY <1>1, <1>8, <2>2, FS_Interval
  <2>4. Cardinality(OfKind(p, a)) <= n
    BY <2>1, <2>3, FS_Subset
  <2>5. Cardinality(OfKind(p, a)) \in Nat
    BY <2>1, <2>3, FS_Subset, FS_CardinalityType
  <2>6. Most(a) = MaxCleans
    BY <1>13 DEF Most
  <2> QED
    BY <1>1, <2>4, <2>5, <2>6 DEF p
<1> QED
  BY <1>11, <1>12, <1>13 DEF Actions

-----------------------------------------------------------------------------
(* What a step leaves alone.                                               *)

LEMMA CountIsOfKind == \A r \in Runs, a \in Actions :
    CountOf(r, a) = Cardinality(OfKind(journal[r], a))
  BY DEF CountOf, OfKind

LEMMA CountNat ==
    ASSUME TypeOK, NEW r \in Runs, NEW a \in Actions
    PROVE  CountOf(r, a) \in Nat
<1>1. journal[r] \in Seq(Entry)
  BY DEF TypeOK
<1> QED
  BY <1>1, CountType, CountIsOfKind

LEMMA AheadNat ==
    ASSUME TypeOK, NEW r \in Runs, NEW a \in Actions
    PROVE  IsFiniteSet(Ahead(r, a)) /\ Cardinality(Ahead(r, a)) \in Nat
<1>1. mem[r].plan \in Seq(PlannedAction)
  BY DEF TypeOK, Memory
<1>2. IsFiniteSet(OfKind(mem[r].plan, a))
  BY <1>1, CountType
<1>3. Ahead(r, a) \in SUBSET OfKind(mem[r].plan, a)
  BY DEF Ahead, OfKind
<1> QED
  BY <1>2, <1>3, FS_Subset, FS_CardinalityType

\* A step that is none of q's business keeps its limits.
LEMMA LimitFrame ==
    ASSUME NEW q \in Runs, LimitInv(q), NotOf(q)
    PROVE  LimitInv(q)'
<1> USE DEF NotOf
<1>1. StopInv(q)'
  BY DEF LimitInv, StopInv, InHand
<1>2. \A a \in Actions : CountOf(q, a)' = CountOf(q, a) /\ Ahead(q, a)' = Ahead(q, a)
                         /\ Extra(q, a)' = Extra(q, a)
  BY DEF CountOf, Ahead, Extra
<1>3. CapInv(q)'
  BY <1>2 DEF LimitInv, CapInv, Most, Permitted
<1> QED
  BY <1>1, <1>3 DEF LimitInv

\* Either way the run is within its limits.
LEMMA WithinLimits ==
    ASSUME TypeOK, NEW r \in Runs, CapInv(r), NEW a \in Actions
    PROVE  CountOf(r, a) <= Most(a) + Permitted(a)
<1>1. CASE pc[r] \notin HasPlan
  BY <1>1 DEF CapInv
<1>2. CASE pc[r] \in HasPlan
  <2>1. CountOf(r, a) \in Nat /\ Cardinality(Ahead(r, a)) \in Nat
    BY CountNat, AheadNat
  <2>2. Most(a) \in Nat /\ Extra(r, a) \in Nat /\ Permitted(a) \in Nat
    BY DEF Most, Extra, Permitted, TypeOK, Memory
  <2>3. Extra(r, a) <= Permitted(a)
    BY <1>2 DEF CapInv, Extra, Permitted
  <2>4. CountOf(r, a) + Cardinality(Ahead(r, a)) <= Most(a) + Extra(r, a)
    BY <1>2 DEF CapInv
  <2> QED
    BY <2>1, <2>2, <2>3, <2>4
<1> QED
  BY <1>1, <1>2

\* The counts of a run that writes nothing new down and goes on with its plan.
LEMMA SameCounts ==
    ASSUME TypeOK, NEW r \in Runs, CapInv(r), pc'[r] # "idle", pc'[r] \in HasPlan => pc[r] \in HasPlan,
           \A a \in Actions : CountOf(r, a)' = CountOf(r, a),
           pc'[r] \in HasPlan =>
              /\ mem'[r].plan = mem[r].plan
              /\ mem'[r].next = mem[r].next
              /\ mem'[r].postCleans = mem[r].postCleans
    PROVE  CapInv(r)'
<1>1. ASSUME pc'[r] \in HasPlan
      PROVE  \A a \in Actions : Ahead(r, a)' = Ahead(r, a) /\ Extra(r, a)' = Extra(r, a)
  BY <1>1 DEF Ahead, Extra
<1>2. \A a \in Actions : CountOf(r, a) <= Most(a) + Permitted(a)
  BY WithinLimits
<1> QED
  BY <1>1, <1>2 DEF CapInv, Most, Permitted

\* A step of r that leaves its rows alone, and does not come to where what was
\* measured matters, keeps StopInv.
LEMMA SameRows ==
    ASSUME NEW r \in Runs, StopInv(r), journal'[r] = journal[r],
           \/ pc'[r] \notin {"between", "cleaned", "closing"}
           \/ pc'[r] = "between" /\ journal[r] = <<>>
           \/ pc'[r] \in {"cleaned", "closing"} /\
              (mem'[r].freeAfter # Unmeasured => mem'[r].free = mem'[r].freeAfter)
    PROVE  StopInv(r)'
  BY DEF StopInv, InHand

LEMMA SameRowsCount ==
    ASSUME NEW r \in Runs, journal'[r] = journal[r]
    PROVE  \A a \in Actions : CountOf(r, a)' = CountOf(r, a)
  BY DEF CountOf

-----------------------------------------------------------------------------
(* The steps of one run.                                                   *)

LEMMA LimitExit ==
    ASSUME TypeOK, NEW r \in Runs, LimitInv(r), NEW x, Exit(r, x), journal' = journal
    PROVE  LimitInv(r)'
<1>1. pc'[r] = "exited"
  BY DEF TypeOK, Exit
<1>2. StopInv(r)'
  BY <1>1, SameRows DEF LimitInv
<1>3. CapInv(r)'
  BY <1>1, SameCounts, SameRowsCount DEF LimitInv, HasPlan, InLoop, AtWork
<1> QED
  BY <1>2, <1>3 DEF LimitInv

\* Steps on the way to the loop and between the writings of an action.
LEMMA LimitGoto ==
    ASSUME TypeOK, NEW r \in Runs, LimitInv(r), NEW p, Goto(r, p), journal' = journal,
           UNCHANGED mem, pc[r] \in HasPlan, p # "idle",
           \/ p \notin {"between", "cleaned", "closing"}
           \/ p = "closing" /\ pc[r] = "cleaned"
    PROVE  LimitInv(r)'
<1>1. pc'[r] = p
  BY GotoFacts
<1>2. StopInv(r)'
  BY <1>1, SameRows DEF LimitInv, StopInv
<1>3. CapInv(r)'
  BY <1>1, SameCounts, SameRowsCount DEF LimitInv
<1> QED
  BY <1>2, <1>3 DEF LimitInv

LEMMA LimitStartCheck ==
    ASSUME TypeOK, NEW r \in Runs, RunInv(r), LimitInv(r), StartCheck(r)
    PROVE  LimitInv(r)'
<1>1. pc[r] = "idle" /\ pc'[r] = "planned" /\ journal' = journal
  BY GotoFacts DEF StartCheck, store
<1>2. journal[r] = <<>> /\ mem[r].next = 1 /\ mem[r].postCleans = 0
  BY <1>1 DEF RunInv, RowInv, PlanInv, BeforeTheRun, LimitInv, CapInv
<1>3. PICK e \in BOOLEAN : \E selection \in Selections(Eligible(ledger, e)) :
         mem' = [mem EXCEPT ![r] =
                   [@ EXCEPT !.seen = ledger,
                             !.enrolled = e,
                             !.plan = PlanOf(selection, e),
                             !.capped = Cardinality(Eligible(ledger, e)) > MaxCleans,
                             !.expires = clock + PlanValidity]]
  BY DEF StartCheck
<1>4. PICK selection \in Selections(Eligible(ledger, e)) :
         mem' = [mem EXCEPT ![r] =
                   [@ EXCEPT !.seen = ledger,
                             !.enrolled = e,
                             !.plan = PlanOf(selection, e),
                             !.capped = Cardinality(Eligible(ledger, e)) > MaxCleans,
                             !.expires = clock + PlanValidity]]
  BY <1>3
<1>5. \A a \in Actions : Cardinality(OfKind(PlanOf(selection, e), a)) <= Most(a)
  BY PlanCounts DEF Eligible
<1>6. mem[r] \in Memory
  BY DEF TypeOK
<1> DEFINE p == PlanOf(selection, e)
           c == Cardinality(Eligible(ledger, e)) > MaxCleans
<1>7. mem' = [mem EXCEPT ![r] = [mem[r] EXCEPT !.seen = ledger, !.enrolled = e, !.plan = p,
                                   !.capped = c, !.expires = clock + PlanValidity]]
  BY <1>4
<1> HIDE DEF p, c
<1>8. mem'[r].plan = p /\ mem'[r].next = 1 /\ mem'[r].postCleans = 0
  BY <1>2, <1>6, <1>7 DEF TypeOK, Memory
<1>9. p \in Seq(PlannedAction)
  BY PlanFacts DEF Eligible, p
<1>10. \A a \in Actions : CountOf(r, a)' = 0
  BY <1>1, <1>2, FS_EmptySet DEF CountOf
<1>11. \A a \in Actions : Ahead(r, a)' = OfKind(p, a) /\ Extra(r, a)' = 0
  BY <1>8, <1>9 DEF Ahead, OfKind, Extra
<1>12. \A a \in Actions : Cardinality(OfKind(p, a)) \in Nat
  BY <1>9, CountType
<1>13. CapInv(r)'
  <2>1. ASSUME NEW a \in Actions
        PROVE  CountOf(r, a)' + Cardinality(Ahead(r, a)') <= Most(a) + Extra(r, a)'
    <3>1. Cardinality(OfKind(p, a)) <= Most(a)
      BY <1>5 DEF p
    <3>2. Cardinality(OfKind(p, a)) \in Nat /\ Most(a) \in Nat
      BY <1>12 DEF Most
    <3> QED
      BY <1>10, <1>11, <3>1, <3>2
  <2>2. pc'[r] \in HasPlan
    BY <1>1 DEF HasPlan
  <2> QED
    BY <1>1, <1>8, <2>1, <2>2 DEF CapInv, Most, Permitted
<1>14. StopInv(r)'
  BY <1>1, SameRows DEF LimitInv
<1> QED
  BY <1>13, <1>14 DEF LimitInv

LEMMA LimitBegin ==
    ASSUME TypeOK, NEW r \in Runs, RunInv(r), LimitInv(r), BeginRun(r)
    PROVE  LimitInv(r)'
<1>1. pc[r] = "locked" /\ journal' = journal /\ journal[r] = <<>>
  BY DEF BeginRun, RunInv, RowInv, BeforeTheRun
<1>2. ASSUME NEW m \in FreeLevels \cup {Unmeasured}, mem' = [mem EXCEPT ![r].free = m],
             Goto(r, "between")
      PROVE  LimitInv(r)'
  <2>1. pc'[r] = "between"
    BY <1>2, GotoFacts
  <2>2. /\ mem'[r].plan = mem[r].plan /\ mem'[r].next = mem[r].next
        /\ mem'[r].postCleans = mem[r].postCleans
    BY <1>2 DEF TypeOK, Memory
  <2>3. StopInv(r)'
    BY <1>1, <2>1, SameRows DEF LimitInv
  <2>4. CapInv(r)'
    BY <1>1, <2>1, <2>2, SameCounts, SameRowsCount DEF LimitInv, HasPlan, InLoop
  <2> QED
    BY <2>3, <2>4 DEF LimitInv
<1> QED
  BY <1>1, <1>2, LimitExit DEF BeginRun

\* Writing an action down: the loop goes on only below the target.
LEMMA AppendStops ==
    ASSUME TypeOK, NEW r \in Runs, StopInv(r), pc[r] = "between", mem[r].free < Target,
           NEW e \in Entry, journal'[r] = Append(journal[r], e), pc'[r] = "recorded"
    PROVE  StopInv(r)'
<1> DEFINE n == Len(journal[r])
<1>1. journal[r] \in Seq(Entry) /\ n \in Nat
  BY DEF TypeOK
<1>2. /\ Len(journal'[r]) = n + 1
      /\ \A i \in 1..n : journal'[r][i] = journal[r][i]
  BY <1>1
<1>3. ASSUME NEW i \in 1..n, journal[r][i].freeAfter # Unmeasured
      PROVE  journal[r][i].freeAfter < Target
  <2>1. CASE i \in 1..(n - 1)
    BY <1>3, <2>1 DEF StopInv
  <2>2. CASE i = n
    <3>1. journal[r] # <<>> /\ InHand(r) = journal[r][i]
      BY <1>1, <2>2 DEF InHand, LastOf
    <3> QED
      BY <1>3, <3>1 DEF StopInv
  <2> QED
    BY <1>1, <2>1, <2>2
<1> HIDE DEF n
<1>4. \A i \in 1..(Len(journal'[r]) - 1) : i \in 1..n
  BY <1>1, <1>2
<1> QED
  BY <1>2, <1>3, <1>4 DEF StopInv

LEMMA PlannedIsEntry ==
    ASSUME NEW a \in PlannedAction
    PROVE  Planned(a) \in Entry /\ Planned(a).action = a.action
  BY DEF Planned, PlannedRow, Entry, PlannedAction, ActionStates

LEMMA CountWritten ==
    ASSUME TypeOK, NEW r \in Runs, NEW e \in Entry, journal'[r] = Append(journal[r], e),
           NEW a \in Actions
    PROVE  CountOf(r, a)' = CountOf(r, a) + (IF e.action = a THEN 1 ELSE 0)
<1>1. journal[r] \in Seq(Entry)
  BY DEF TypeOK
<1>2. CountOf(r, a)' = Cardinality(OfKind(Append(journal[r], e), a))
  BY DEF CountOf, OfKind
<1>3. CountOf(r, a) = Cardinality(OfKind(journal[r], a))
  BY CountIsOfKind
<1> QED
  BY <1>1, <1>2, <1>3, CountAppended

LEMMA LimitJournalNext ==
    ASSUME TypeOK, NEW r \in Runs, RunInv(r), LimitInv(r), JournalNext(r)
    PROVE  LimitInv(r)'
<1> DEFINE n == mem[r].next
           p == mem[r].plan
           b == p[n]
<1>1. /\ pc[r] = "between" /\ pc'[r] = "recorded"
      /\ mem[r].free < Target /\ n <= Len(p)
      /\ journal'[r] = Append(journal[r], Planned(b))
  BY GotoFacts DEF JournalNext, LoopGoesOn, TypeOK
<1>2. p \in Seq(PlannedAction) /\ n \in Nat \ {0}
  BY DEF TypeOK, Memory
<1>3. n \in DOMAIN p /\ b \in PlannedAction
  BY <1>1, <1>2, IndexOfSeq, ElementOfSeq
<1>4. mem'[r].plan = p /\ mem'[r].next = n + 1 /\ mem'[r].postCleans = mem[r].postCleans
  BY DEF JournalNext, TypeOK, Memory
<1> HIDE DEF n, p, b
<1>5. Planned(b) \in Entry /\ Planned(b).action = b.action
  BY <1>3, PlannedIsEntry
<1>6. StopInv(r)'
  BY <1>1, <1>5, AppendStops DEF LimitInv
<1>7. ASSUME NEW a \in Actions
      PROVE  CountOf(r, a)' + Cardinality(Ahead(r, a)') = CountOf(r, a) + Cardinality(Ahead(r, a))
  <2>1. CountOf(r, a)' = CountOf(r, a) + (IF b.action = a THEN 1 ELSE 0)
    BY <1>1, <1>5, CountWritten
  <2>2. Ahead(r, a) = {i \in DOMAIN p : i >= n /\ p[i].action = a}
    BY DEF Ahead, p, n
  <2>3. Ahead(r, a)' = {i \in DOMAIN p : i >= n + 1 /\ p[i].action = a}
    BY <1>4 DEF Ahead
  <2>4. \A i \in DOMAIN p : i >= n + 1 <=> i >= n /\ i # n
    BY <1>2
  <2>5. Ahead(r, a)' = Ahead(r, a) \ {n}
    BY <2>2, <2>3, <2>4
  <2>6. n \in Ahead(r, a) <=> b.action = a
    BY <1>2, <1>3, <2>2 DEF b
  <2>7. IsFiniteSet(Ahead(r, a)) /\ Cardinality(Ahead(r, a)) \in Nat
    BY AheadNat
  <2>8. Cardinality(Ahead(r, a)') =
           IF b.action = a THEN Cardinality(Ahead(r, a)) - 1 ELSE Cardinality(Ahead(r, a))
    <3>1. CASE b.action = a
      <4>1. n \in Ahead(r, a)
        BY <2>6, <3>1
      <4>2. Cardinality(Ahead(r, a) \ {n}) = Cardinality(Ahead(r, a)) - 1
        BY <2>7, <4>1, FS_RemoveElement
      <4> QED
        BY <2>5, <3>1, <4>2
    <3>2. CASE b.action # a
      <4>1. Ahead(r, a)' = Ahead(r, a)
        BY <2>5, <2>6, <3>2
      <4> QED
        BY <3>2, <4>1
    <3> QED
      BY <3>1, <3>2
  <2>9. CountOf(r, a) \in Nat
    BY CountNat
  <2> QED
    BY <2>1, <2>7, <2>8, <2>9
<1>8. CapInv(r)'
  <2>1. pc[r] \in HasPlan /\ pc'[r] \in HasPlan /\ pc'[r] # "idle"
    BY <1>1 DEF HasPlan, InLoop
  <2>2. /\ mem[r].postCleans <= MaxPostClean
        /\ \A a \in Actions :
              CountOf(r, a) + Cardinality(Ahead(r, a)) <= Most(a) + Extra(r, a)
    BY <2>1 DEF LimitInv, CapInv
  <2>3. \A a \in Actions : Extra(r, a)' = Extra(r, a)
    BY <1>4 DEF Extra
  <2>4. \A a \in Actions :
           CountOf(r, a)' + Cardinality(Ahead(r, a)') <= Most(a) + Extra(r, a)'
    BY <1>7, <2>2, <2>3
  <2> QED
    BY <1>4, <2>1, <2>2, <2>4 DEF CapInv, Most, Permitted
<1> QED
  BY <1>6, <1>8 DEF LimitInv

LEMMA LimitPostCleanPrune ==
    ASSUME TypeOK, NEW r \in Runs, RunInv(r), LimitInv(r), JournalPostCleanPrune(r)
    PROVE  LimitInv(r)'
<1> DEFINE b == Action("pnpm_store_prune", NoWorkspace)
<1>1. /\ pc[r] = "between" /\ pc'[r] = "recorded"
      /\ mem[r].free < Target /\ mem[r].postCleans < MaxPostClean
      /\ journal'[r] = Append(journal[r], Planned(b))
  BY GotoFacts DEF JournalPostCleanPrune, PostCleanDue, TypeOK
<1>2. b \in PlannedAction /\ b.action = "pnpm_store_prune"
  BY DEF Action, PlannedAction, Actions
<1>3. /\ mem'[r].plan = mem[r].plan /\ mem'[r].next = mem[r].next
      /\ mem'[r].postCleans = mem[r].postCleans + 1 /\ mem[r].postCleans \in Nat
  BY DEF JournalPostCleanPrune, TypeOK, Memory
<1> HIDE DEF b
<1>4. Planned(b) \in Entry /\ Planned(b).action = "pnpm_store_prune"
  BY <1>2, PlannedIsEntry
<1>5. StopInv(r)'
  BY <1>1, <1>4, AppendStops DEF LimitInv
<1>6. pc[r] \in HasPlan /\ pc'[r] \in HasPlan /\ pc'[r] # "idle"
  BY <1>1 DEF HasPlan, InLoop
<1>7. ASSUME NEW a \in Actions
      PROVE  CountOf(r, a)' + Cardinality(Ahead(r, a)') <= Most(a) + Extra(r, a)'
  <2>1. CountOf(r, a)' = CountOf(r, a) + (IF a = "pnpm_store_prune" THEN 1 ELSE 0)
    BY <1>1, <1>4, CountWritten
  <2>2. Extra(r, a)' = Extra(r, a) + (IF a = "pnpm_store_prune" THEN 1 ELSE 0)
    BY <1>3 DEF Extra
  <2>3. Ahead(r, a)' = Ahead(r, a)
    BY <1>3 DEF Ahead
  <2>4. CountOf(r, a) \in Nat /\ Cardinality(Ahead(r, a)) \in Nat
    BY CountNat, AheadNat
  <2>5. CountOf(r, a) + Cardinality(Ahead(r, a)) <= Most(a) + Extra(r, a)
    BY <1>6 DEF LimitInv, CapInv
  <2>6. Most(a) \in Nat /\ Extra(r, a) \in Nat
    BY <1>3 DEF Most, Extra
  <2> QED
    BY <2>1, <2>2, <2>3, <2>4, <2>5, <2>6
<1>8. CapInv(r)'
  <2>1. mem'[r].postCleans <= MaxPostClean
    BY <1>1, <1>3
  <2> QED
    BY <1>6, <1>7, <2>1 DEF CapInv, Most, Permitted
<1> QED
  BY <1>5, <1>8 DEF LimitInv

\* Amending the action in hand changes no count and no row before it.
LEMMA AmendCounts ==
    ASSUME TypeOK, NEW r \in Runs, journal[r] # <<>>,
           NEW s \in ActionStates, NEW m \in FreeLevels \cup {Unmeasured},
           journal' = Amended(r, s, m)
    PROVE  /\ journal'[r] # <<>>
           /\ InHand(r)'.freeAfter = m
           /\ Len(journal'[r]) = Len(journal[r])
           /\ \A i \in 1..(Len(journal[r]) - 1) : journal'[r][i] = journal[r][i]
           /\ \A a \in Actions : CountOf(r, a)' = CountOf(r, a)
<1> DEFINE n == Len(journal[r])
           A == Amended(r, s, m)
<1>1. journal[r] \in Seq(Entry) /\ n \in Nat /\ n >= 1 /\ journal \in [Runs -> Seq(Entry)]
  BY LastElement DEF TypeOK
<1>2. /\ A[r] \in Seq(Entry) /\ Len(A[r]) = n
      /\ \A i \in 1..(n - 1) : A[r][i] = journal[r][i]
      /\ LastOf(A[r]) = [action |-> InHand(r).action, workspace |-> InHand(r).workspace,
                          state |-> s, freeAfter |-> m]
  BY <1>1, AmendedFacts
<1> HIDE DEF A
<1>3. journal'[r] = A[r]
  BY DEF A
<1>4. A[r][n].action = journal[r][n].action
  BY <1>2 DEF LastOf, InHand
<1>5. DOMAIN journal'[r] = 1..n /\ DOMAIN journal[r] = 1..n
  BY <1>1, <1>2, <1>3
<1>6. \A i \in 1..n : i = n \/ i \in 1..(n - 1)
  BY <1>1
<1>7. \A i \in 1..n : journal'[r][i].action = journal[r][i].action
  BY <1>2, <1>3, <1>4, <1>6
<1>8. \A a \in Actions : CountOf(r, a)' = CountOf(r, a)
  <2>1. \A a \in Actions : {i \in 1..n : journal'[r][i].action = a}
                          = {i \in 1..n : journal[r][i].action = a}
    BY <1>7
  <2> QED
    BY <1>5, <2>1 DEF CountOf
<1>9. InHand(r)'.freeAfter = m
  BY <1>2, <1>3 DEF InHand
<1>10. journal'[r] # <<>>
  BY <1>1, <1>2, <1>3
<1> QED
  BY <1>2, <1>3, <1>8, <1>9, <1>10

\* A step of r that amends the action in hand.
LEMMA LimitAmend ==
    ASSUME TypeOK, NEW r \in Runs, LimitInv(r), journal[r] # <<>>, pc[r] \in HasPlan,
           NEW s \in ActionStates, NEW m \in FreeLevels \cup {Unmeasured},
           journal' = Amended(r, s, m),
           pc'[r] \in HasPlan \ {"cleaned", "closing"},
           mem'[r].plan = mem[r].plan, mem'[r].next = mem[r].next,
           mem'[r].postCleans = mem[r].postCleans,
           pc'[r] = "between" /\ m # Unmeasured => mem'[r].free = m
    PROVE  LimitInv(r)'
<1>1. /\ InHand(r)'.freeAfter = m
      /\ Len(journal'[r]) = Len(journal[r])
      /\ \A i \in 1..(Len(journal[r]) - 1) : journal'[r][i] = journal[r][i]
      /\ \A a \in Actions : CountOf(r, a)' = CountOf(r, a)
  BY AmendCounts
<1>2. StopInv(r)'
  <2>1. \A i \in 1..(Len(journal[r]) - 1) :
           journal[r][i].freeAfter # Unmeasured => journal[r][i].freeAfter < Target
    BY DEF LimitInv, StopInv
  <2>2. \A i \in 1..(Len(journal'[r]) - 1) :
           journal'[r][i].freeAfter # Unmeasured => journal'[r][i].freeAfter < Target
    BY <1>1, <2>1
  <2>3. pc'[r] \notin {"cleaned", "closing"}
    OBVIOUS
  <2> QED
    BY <1>1, <2>2, <2>3 DEF StopInv
<1>3. pc'[r] # "idle"
  BY DEF HasPlan, InLoop, AtWork
<1>4. CapInv(r)'
  BY <1>1, <1>3, SameCounts DEF LimitInv
<1> QED
  BY <1>2, <1>4 DEF LimitInv

LEMMA LimitWrite ==
    ASSUME TypeOK, NEW r \in Runs, RunInv(r), LimitInv(r),
           BeginValidation(r) \/ Refuse(r) \/ Authorise(r) \/ CloseAction(r)
    PROVE  LimitInv(r)'
<1>1. journal[r] # <<>> /\ mem[r] \in Memory
  BY DEF BeginValidation, Refuse, Authorise, CloseAction, RunInv, JournalInv, InLoop, AtWork, TypeOK
<1>2. CASE BeginValidation(r)
  <2>1. /\ pc[r] = "recorded" /\ pc'[r] = "validating" /\ UNCHANGED mem
        /\ journal' = Amended(r, "VALIDATING", Unmeasured)
    BY <1>2, GotoFacts DEF BeginValidation
  <2>2. "VALIDATING" \in ActionStates
    BY DEF ActionStates, UnresolvedStates
  <2> QED
    BY <1>1, <2>1, <2>2, LimitAmend DEF HasPlan, InLoop, AtWork
<1>3. CASE Refuse(r)
  <2>1. PICK u \in BOOLEAN :
           /\ FirstFailing(Checks(r, u)) \in SkipStates
           /\ journal' = Amended(r, FirstFailing(Checks(r, u)), Unmeasured)
           /\ mem' = [mem EXCEPT ![r].uncertain =
                         @ \/ (u /\ InHand(r).action = "pnpm_workspace_clean")]
    BY <1>3 DEF Refuse
  <2> DEFINE x == FirstFailing(Checks(r, u))
  <2>2. x \in ActionStates /\ journal' = Amended(r, x, Unmeasured)
    BY <2>1 DEF ActionStates, TerminalStates
  <2>3. pc[r] = "validating" /\ pc'[r] = "between"
    BY <1>3, GotoFacts DEF Refuse
  <2>4. /\ mem'[r].plan = mem[r].plan /\ mem'[r].next = mem[r].next
        /\ mem'[r].postCleans = mem[r].postCleans
    BY <1>1, <2>1 DEF TypeOK, Memory
  <2> HIDE DEF x
  <2> QED
    BY <1>1, <2>2, <2>3, <2>4, LimitAmend DEF HasPlan, InLoop, AtWork
<1>4. CASE Authorise(r)
  <2>1. /\ pc[r] = "validating" /\ pc'[r] = "running" /\ UNCHANGED mem
        /\ journal' = Amended(r, "RUNNING", Unmeasured)
    BY <1>4, GotoFacts DEF Authorise
  <2>2. "RUNNING" \in ActionStates
    BY DEF ActionStates, UnresolvedStates
  <2> QED
    BY <1>1, <2>1, <2>2, LimitAmend DEF HasPlan, InLoop, AtWork
<1>5. CASE CloseAction(r)
  <2> DEFINE x == IF mem[r].ok THEN "SUCCEEDED" ELSE "FAILED"
             m == mem[r].freeAfter
  <2>1. /\ pc[r] = "closing" /\ pc'[r] = "between"
        /\ journal' = Amended(r, x, m)
        /\ mem' = [mem EXCEPT ![r].ok = FALSE, ![r].freeAfter = Unmeasured]
    BY <1>5, GotoFacts DEF CloseAction
  <2>2. x \in ActionStates
    BY DEF ActionStates, TerminalStates
  <2>3. m \in FreeLevels \cup {Unmeasured}
    BY <1>1 DEF Memory
  <2>4. /\ mem'[r].plan = mem[r].plan /\ mem'[r].next = mem[r].next
        /\ mem'[r].postCleans = mem[r].postCleans /\ mem'[r].free = mem[r].free
    BY <1>1, <2>1 DEF TypeOK, Memory
  <2>5. m # Unmeasured => mem[r].free = m
    BY <2>1 DEF LimitInv, StopInv
  <2> HIDE DEF x, m
  <2> QED
    BY <1>1, <2>1, <2>2, <2>3, <2>4, <2>5, LimitAmend DEF HasPlan, InLoop, AtWork
<1> QED
  BY <1>2, <1>3, <1>4, <1>5

LEMMA LimitMeasured ==
    ASSUME TypeOK, NEW r \in Runs, LimitInv(r), pc[r] \in {"running", "waiting"},
           NEW ok \in BOOLEAN, NEW m \in FreeLevels \cup {Unmeasured}, Measured(r, ok, m),
           NEW p \in {"cleaned", "closing"}, Goto(r, p), journal' = journal
    PROVE  LimitInv(r)'
<1>1. pc'[r] = p
  BY GotoFacts
<1>2. mem[r] \in Memory
  BY DEF TypeOK
<1>3. /\ mem'[r].plan = mem[r].plan /\ mem'[r].next = mem[r].next
      /\ mem'[r].postCleans = mem[r].postCleans
      /\ mem'[r].freeAfter = m
      /\ m # Unmeasured => mem'[r].free = m
  BY <1>2 DEF Measured, TypeOK, Memory
<1>4. StopInv(r)'
  BY <1>1, <1>3, SameRows DEF LimitInv
<1>5. CapInv(r)'
  BY <1>1, <1>3, SameCounts, SameRowsCount DEF LimitInv, HasPlan, InLoop, AtWork
<1> QED
  BY <1>4, <1>5 DEF LimitInv

LEMMA LimitStep ==
    ASSUME TypeOK, NEW r \in Runs, RunInv(r), LimitInv(r),
           StartCheck(r) \/ RunStep(r) \/ Abort(r)
    PROVE  LimitInv(r)'
<1> USE DEF store, machine
<1>1. CASE MeasureBeforeLock(r) \/ TakeLock(r)
  <2>1. ASSUME NEW p \in {"pressed", "locked"}, Goto(r, p), UNCHANGED mem, journal' = journal,
               pc[r] \in {"planned", "pressed"}
        PROVE  LimitInv(r)'
    BY <2>1, LimitGoto DEF HasPlan
  <2> QED
    BY <1>1, <2>1, LimitExit DEF MeasureBeforeLock, TakeLock
<1>2. CASE PerformInProcess(r) \/ CommandEnds(r)
  BY <1>2, LimitMeasured DEF PerformInProcess, CommandEnds
<1>3. CASE StartCommand(r)
  BY <1>3, LimitGoto DEF StartCommand, HasPlan, InLoop, AtWork
<1>4. CASE RecordCleaned(r)
  BY <1>4, LimitGoto DEF RecordCleaned, HasPlan, InLoop, AtWork
<1>5. CASE FinishRun(r)
  BY <1>5, LimitGoto DEF FinishRun, HasPlan, InLoop, AtWork
<1>6. CASE Return(r) \/ Abort(r)
  BY <1>6, LimitExit DEF Return, Abort
<1> QED
  BY <1>1, <1>2, <1>3, <1>4, <1>5, <1>6, LimitStartCheck, LimitBegin, LimitJournalNext,
     LimitPostCleanPrune, LimitWrite DEF RunStep

-----------------------------------------------------------------------------
LimitsInv == \A r \in Runs : LimitInv(r)

LEMMA LimitsInitially == Init => LimitsInv
<1> SUFFICES ASSUME Init, NEW r \in Runs PROVE LimitInv(r)
  BY DEF LimitsInv
<1>1. journal[r] = <<>> /\ pc[r] = "idle" /\ mem[r].postCleans = 0
  BY DEF Init, NoMemory
<1>2. \A a \in Actions : CountOf(r, a) = 0
  BY <1>1, FS_EmptySet DEF CountOf
<1>3. \A a \in Actions : 0 <= Most(a) + Permitted(a)
  BY DEF Most, Permitted
<1> QED
  BY <1>1, <1>2, <1>3 DEF LimitInv, StopInv, CapInv, HasPlan, InLoop, AtWork

LEMMA LimitsInductive == IInv /\ LimitsInv /\ [Next]_vars => LimitsInv'
<1> SUFFICES ASSUME IInv, LimitsInv, [Next]_vars PROVE LimitsInv'
  OBVIOUS
<1>1. TypeOK /\ \A r \in Runs : RunInv(r) /\ LimitInv(r)
  BY DEF IInv, LimitsInv
<1>2. ASSUME NEW r \in Runs, StartCheck(r) \/ RunStep(r) \/ Abort(r) PROVE LimitsInv'
  <2>1. \A q \in Runs \ {r} : NotOf(q)
    BY <1>1, <1>2, StepStartCheck, StepMeasureBeforeLock, StepTakeLock, StepBeginRun,
       StepJournalNext, StepJournalPostCleanPrune, StepBeginValidation, StepRefuse,
       StepAuthorise, StepPerform, StepRecordCleaned, StepCloseAction, StepFinishRun, StepEnd
    DEF RunStep, StepOf
  <2>2. LimitInv(r)'
    BY <1>1, <1>2, LimitStep
  <2> QED
    BY <1>1, <2>1, <2>2, LimitFrame DEF LimitsInv
<1>3. ASSUME UNCHANGED <<pc, mem, journal>> PROVE LimitsInv'
  <2> SUFFICES ASSUME NEW r \in Runs PROVE LimitInv(r)'
    BY DEF LimitsInv
  <2>1. StopInv(r)'
    BY <1>1, <1>3 DEF LimitInv, StopInv, InHand
  <2>2. \A a \in Actions : CountOf(r, a)' = CountOf(r, a) /\ Ahead(r, a)' = Ahead(r, a)
                           /\ Extra(r, a)' = Extra(r, a)
    BY <1>3 DEF CountOf, Ahead, Extra
  <2>3. CapInv(r)'
    BY <1>1, <1>3, <2>2 DEF LimitInv, CapInv, Most, Permitted
  <2> QED
    BY <2>1, <2>3 DEF LimitInv
<1>4. Environment \/ UNCHANGED vars => UNCHANGED <<pc, mem, journal>>
  BY DEF Environment, Tick, PnpmReplaced, FactsChange, SetProtected, OrphanEnds,
         processes, store, vars
<1> QED
  BY <1>2, <1>3, <1>4 DEF Next

\* What a run has counted, measured and written down keeps within its limits in every
\* reachable state: the invariant both theorems below follow from.
THEOREM LimitsInvariance == Spec => []LimitsInv
<1>1. Spec => []IInv
  BY Invariance
<1> QED
  BY <1>1, LimitsInitially, LimitsInductive, PTL DEF Spec

\* Stop immediately at target_free: once an action of a run has measured the
\* target, the run writes no other action down, whatever its plan still holds and
\* the post-clean prune included.
THEOREM StopsAtTarget == Spec => []NothingAfterTarget
<1>1. LimitsInv => NothingAfterTarget
  BY DEF LimitsInv, LimitInv, StopInv, NothingAfterTarget
<1> QED
  BY <1>1, LimitsInvariance, PTL

\* The caps of a run: MAX_AUTOMATIC_WORKSPACE_CLEANS, one sweep, one store prune
\* and MAX_POST_CLEAN_STORE_PRUNES more, counting what was refused.
THEOREM WithinCaps == Spec => []CapsHold
<1>1. IInv /\ LimitsInv => CapsHold
  <2> SUFFICES ASSUME IInv, LimitsInv, NEW r \in Runs
               PROVE  /\ CountOf(r, "pnpm_workspace_clean") <= MaxCleans
                      /\ CountOf(r, "clean_terminal_janitor_state") <= 1
                      /\ CountOf(r, "pnpm_store_prune") <= 1 + MaxPostClean
    BY DEF CapsHold
  <2>1. \A a \in Actions : CountOf(r, a) <= Most(a) + Permitted(a)
    BY WithinLimits DEF IInv, LimitsInv, LimitInv
  <2> QED
    BY <2>1 DEF Most, Permitted, Actions
<1> QED
  BY <1>1, Invariance, LimitsInvariance, PTL

-----------------------------------------------------------------------------
(* The cooldown.  From the gates that let a clean through until it is      *)
(* recorded, what the run read of the workspace's last clean is old        *)
(* enough: it reads no more, and the clock only goes on.                   *)

Cleaning(r) ==
    \/ pc[r] \in {"running", "waiting"} /\ IsClean(InHand(r))
    \/ pc[r] = "cleaned"

CoolInv(r) ==
    \A w \in Workspaces :
        Cleaning(r) /\ InHand(r).workspace = w => ~Cooling(mem[r].seen[w])

LEMMA MinOfTen == ASSUME NEW F \in SUBSET (1..10), F # {} PROVE Min(F) \in F
<1>1. \E x \in F : \A y \in F : x <= y
  <2>1. \A y \in F : y \in 1..10
    OBVIOUS
  <2>2. CASE 1 \in F \/ 2 \in F \/ 3 \in F
    BY <2>1, <2>2
  <2>3. CASE ~(\E y \in F : y <= 3) /\ (4 \in F \/ 5 \in F \/ 6 \in F)
    BY <2>1, <2>3
  <2>4. CASE ~(\E y \in F : y <= 6) /\ (7 \in F \/ 8 \in F \/ 9 \in F \/ 10 \in F)
    BY <2>1, <2>4
  <2>5. PICK x \in F : x \in 1..10
    BY <2>1
  <2> QED
    BY <2>1, <2>2, <2>3, <2>4, <2>5
<1> QED
  BY <1>1 DEF Min

\* A clean is let through only if no gate fails; the cooldown is the sixth.
LEMMA ProvenRested ==
    ASSUME NEW r \in Runs, NEW u \in BOOLEAN, IsClean(InHand(r)),
           FirstFailing(Checks(r, u)) = "PROVEN"
    PROVE  ~Cooling(mem[r].seen[InHand(r).workspace])
<1> DEFINE w == InHand(r).workspace
           cold == Cooling(mem[r].seen[w])
           g == Gates(w, mem[r].seen, mem[r].enrolled)
           h == << Check(InHand(r).action = "pnpm_workspace_clean" /\ u, "SKIPPED_UNKNOWN"),
                   Check(clock >= mem[r].expires, "SKIPPED_CHANGED") >>
           c == h \o g
           F == {i \in DOMAIN c : c[i].fails}
<1>1. Checks(r, u) = c
  BY DEF Checks, IsClean
<1>2. /\ Len(h) = 2 /\ h = [i \in 1..2 |-> h[i]]
      /\ \A i \in 1..2 : h[i].skip # "PROVEN"
  <2>1. h[1].skip = "SKIPPED_UNKNOWN" /\ h[2].skip = "SKIPPED_CHANGED"
    BY DEF Check
  <2>2. Len(h) = 2 /\ h = [i \in 1..2 |-> h[i]]
    OBVIOUS
  <2> HIDE DEF h
  <2> QED
    BY <2>1, <2>2
<1>3. /\ Len(g) = 8 /\ g = [i \in 1..8 |-> g[i]]
      /\ \A i \in 1..8 : g[i].skip # "PROVEN"
      /\ g[6].fails = cold
  <2>1. /\ g[1].skip = "SKIPPED_CHANGED" /\ g[2].skip = "SKIPPED_PROTECTED"
        /\ g[3].skip = "SKIPPED_CHANGED" /\ g[4].skip = "SKIPPED_CHANGED"
        /\ g[5].skip = "SKIPPED_UNKNOWN" /\ g[6].skip = "SKIPPED_CHANGED"
        /\ g[7].skip = "SKIPPED_ACTIVE" /\ g[8].skip = "SKIPPED_UNKNOWN"
    BY DEF Gates, Check
  <2>2. Len(g) = 8 /\ g = [i \in 1..8 |-> g[i]]
    BY DEF Gates
  <2>3. g[6].fails = cold
    BY DEF Gates, Check
  <2> HIDE DEF g, cold
  <2> QED
    BY <2>1, <2>2, <2>3
<1> HIDE DEF g, h
<1>4. /\ DOMAIN c = 1..10
      /\ \A i \in 1..2 : c[i] = h[i]
      /\ \A i \in 3..10 : c[i] = g[i - 2]
  <2> DEFINE T == {h[i] : i \in 1..2} \cup {g[i] : i \in 1..8}
  <2>1. h \in Seq(T) /\ g \in Seq(T)
    BY <1>2, <1>3
  <2> HIDE DEF T
  <2> QED
    BY <1>2, <1>3, <2>1
<1> HIDE DEF c
<1>5. \A i \in DOMAIN c : c[i].skip # "PROVEN"
  <2>1. \A i \in 3..10 : i - 2 \in 1..8
    OBVIOUS
  <2>2. \A i \in 1..10 : i \in 1..2 \/ i \in 3..10
    OBVIOUS
  <2> QED
    BY <1>2, <1>3, <1>4, <2>1, <2>2
<1>6. FirstFailing(Checks(r, u)) = IF F = {} THEN "PROVEN" ELSE c[Min(F)].skip
  BY <1>1 DEF FirstFailing
<1>7. F = {}
  <2>1. SUFFICES ASSUME F # {} PROVE Min(F) \in DOMAIN c
    BY <1>5, <1>6
  <2>2. F \in SUBSET (1..10)
    BY <1>4
  <2> HIDE DEF F
  <2>3. Min(F) \in F
    BY <2>1, <2>2, MinOfTen
  <2> QED
    BY <2>3 DEF F
<1>8. 6 + 2 \in DOMAIN c /\ c[8] = g[6]
  BY <1>4
<1> QED
  BY <1>3, <1>7, <1>8

\* What a step of r itself does to it.
LEMMA CoolStep ==
    ASSUME TypeOK, NEW r \in Runs, RunInv(r), CoolInv(r),
           StartCheck(r) \/ RunStep(r) \/ Abort(r)
    PROVE  CoolInv(r)'
<1>1. clock' = clock /\ mem[r] \in Memory
  BY DEF StartCheck, RunStep, Abort, MeasureBeforeLock, TakeLock, BeginRun, JournalNext,
         JournalPostCleanPrune, BeginValidation, Refuse, Authorise, PerformInProcess, StartCommand,
         CommandEnds, RecordCleaned, CloseAction, FinishRun, Return, machine, TypeOK
<1>2. CASE Authorise(r)
  <2>1. /\ pc[r] = "validating" /\ pc'[r] = "running" /\ mem' = mem
        /\ journal' = Amended(r, "RUNNING", Unmeasured)
    BY <1>2, GotoFacts DEF Authorise
  <2>2. "RUNNING" \in ActionStates /\ journal[r] # <<>> /\ journal \in [Runs -> Seq(Entry)]
    BY <2>1 DEF ActionStates, UnresolvedStates, RunInv, JournalInv, InLoop, AtWork, TypeOK
  <2>3. LastOf(journal'[r]) = [action |-> InHand(r).action, workspace |-> InHand(r).workspace,
                               state |-> "RUNNING", freeAfter |-> Unmeasured]
    BY <2>1, <2>2, AmendedFacts
  <2>4. InHand(r)'.action = InHand(r).action /\ InHand(r)'.workspace = InHand(r).workspace
    BY <2>3 DEF InHand
  <2>5. PICK u \in BOOLEAN : FirstFailing(Checks(r, u)) = "PROVEN"
    BY <1>2 DEF Authorise
  <2>6. IsClean(InHand(r)) => ~Cooling(mem[r].seen[InHand(r).workspace])
    BY <2>5, ProvenRested
  <2> QED
    BY <1>1, <2>1, <2>4, <2>6 DEF CoolInv, Cleaning, IsClean, Cooling
<1>3. CASE StartCommand(r)
  <2>1. pc[r] = "running" /\ pc'[r] = "waiting" /\ UNCHANGED <<mem, journal>>
    BY <1>3, GotoFacts DEF StartCommand, store
  <2> QED
    BY <1>1, <2>1 DEF CoolInv, Cleaning, InHand, Cooling
<1>4. CASE CommandEnds(r)
  <2>1. PICK ok \in BOOLEAN, m \in FreeLevels \cup {Unmeasured} :
           /\ Measured(r, ok, m)
           /\ Goto(r, IF ok /\ InHand(r).action = "pnpm_workspace_clean"
                      THEN "cleaned" ELSE "closing")
    BY <1>4 DEF CommandEnds
  <2>2. pc[r] = "waiting" /\ journal' = journal
    BY <1>4 DEF CommandEnds, store
  <2>3. mem'[r].seen = mem[r].seen
    BY <1>1, <2>1 DEF Measured, TypeOK, Memory
  <2>4. pc'[r] = "closing" \/ (pc'[r] = "cleaned" /\ IsClean(InHand(r)))
    BY <2>1, GotoFacts DEF IsClean
  <2> QED
    BY <1>1, <2>2, <2>3, <2>4 DEF CoolInv, Cleaning, InHand, Cooling
<1>5. CASE StartCheck(r) \/ MeasureBeforeLock(r) \/ TakeLock(r) \/ BeginRun(r) \/ Return(r)
           \/ Abort(r)
  <2>1. pc'[r] \in {"planned", "pressed", "locked", "between", "exited"}
    BY <1>5, GotoFacts DEF StartCheck, MeasureBeforeLock, TakeLock, BeginRun, Return, Abort, Exit,
       TypeOK
  <2> QED
    BY <2>1 DEF CoolInv, Cleaning
<1>6. CASE JournalNext(r) \/ JournalPostCleanPrune(r) \/ BeginValidation(r) \/ Refuse(r)
           \/ PerformInProcess(r) \/ RecordCleaned(r) \/ CloseAction(r) \/ FinishRun(r)
  <2>1. pc'[r] \in {"recorded", "validating", "between", "closing", "finished"}
    BY <1>6, GotoFacts DEF JournalNext, JournalPostCleanPrune, BeginValidation, Refuse,
       PerformInProcess, RecordCleaned, CloseAction, FinishRun
  <2> QED
    BY <2>1 DEF CoolInv, Cleaning
<1> QED
  BY <1>2, <1>3, <1>4, <1>5, <1>6 DEF RunStep

\* What others do, the passing of time included.
LEMMA CoolFrame ==
    ASSUME TypeOK, NEW r \in Runs, CoolInv(r), clock' \in Nat, clock' >= clock,
           pc'[r] = pc[r], mem'[r] = mem[r], journal'[r] = journal[r]
    PROVE  CoolInv(r)'
<1>1. \A w \in Workspaces : mem[r].seen[w] \in LedgerRecord
  BY DEF TypeOK, Memory
<1>2. \A w \in Workspaces : ~Cooling(mem[r].seen[w]) => ~Cooling(mem[r].seen[w])'
  <2> SUFFICES ASSUME NEW w \in Workspaces, ~Cooling(mem[r].seen[w])
               PROVE  ~Cooling(mem[r].seen[w])'
    OBVIOUS
  <2>1. mem'[r].seen[w] = mem[r].seen[w] /\ mem[r].seen[w].cleaned \in Nat \cup {Never}
    BY <1>1 DEF LedgerRecord
  <2> QED
    BY <2>1 DEF Cooling, TypeOK
<1> QED
  BY <1>2 DEF CoolInv, Cleaning, InHand

CoolsInv == \A r \in Runs : CoolInv(r)

LEMMA CoolsInductive == IInv /\ CoolsInv /\ [Next]_vars => CoolsInv'
<1> SUFFICES ASSUME IInv, CoolsInv, [Next]_vars PROVE CoolsInv'
  OBVIOUS
<1>1. TypeOK /\ \A r \in Runs : RunInv(r) /\ CoolInv(r)
  BY DEF IInv, CoolsInv
<1>2. clock \in Nat /\ clock' \in Nat /\ clock' >= clock
  <2>1. clock \in Nat
    BY <1>1 DEF TypeOK
  <2>2. ASSUME NEW r \in Runs, StartCheck(r) \/ RunStep(r) \/ Abort(r) PROVE clock' = clock
    BY <2>2 DEF StartCheck, RunStep, Abort, MeasureBeforeLock, TakeLock, BeginRun, JournalNext,
         JournalPostCleanPrune, BeginValidation, Refuse, Authorise, PerformInProcess, StartCommand,
         CommandEnds, RecordCleaned, CloseAction, FinishRun, Return, machine
  <2>3. Environment \/ UNCHANGED vars => clock' = clock \/ clock' = clock + 1
    BY DEF Environment, Tick, PnpmReplaced, FactsChange, SetProtected, OrphanEnds, machine, vars
  <2> QED
    BY <2>1, <2>2, <2>3 DEF Next
<1>3. ASSUME NEW r \in Runs, StartCheck(r) \/ RunStep(r) \/ Abort(r) PROVE CoolsInv'
  <2>1. \A q \in Runs \ {r} : NotOf(q)
    BY <1>1, <1>3, StepStartCheck, StepMeasureBeforeLock, StepTakeLock, StepBeginRun,
       StepJournalNext, StepJournalPostCleanPrune, StepBeginValidation, StepRefuse,
       StepAuthorise, StepPerform, StepRecordCleaned, StepCloseAction, StepFinishRun, StepEnd
    DEF RunStep, StepOf
  <2>2. CoolInv(r)'
    BY <1>1, <1>3, CoolStep
  <2> QED
    BY <1>1, <1>2, <2>1, <2>2, CoolFrame DEF CoolsInv, NotOf
<1>4. Environment \/ UNCHANGED vars => UNCHANGED <<pc, mem, journal>>
  BY DEF Environment, Tick, PnpmReplaced, FactsChange, SetProtected, OrphanEnds,
         processes, store, vars
<1> QED
  BY <1>1, <1>2, <1>3, <1>4, CoolFrame DEF Next, CoolsInv

\* A run records a clean only of a workspace whose last clean, if it could know of
\* it, is a cooldown ago: what it read is asked once more when the clean begins, and
\* what was old enough then still is when it is recorded.
THEOREM CooldownIsRespected == Spec => CooldownRespected
<1>1. Init => CoolsInv
  BY DEF Init, CoolsInv, CoolInv, Cleaning
<1>2. IInv /\ CoolsInv /\ [Next]_vars =>
        [\A r \in Runs, w \in Workspaces :
           /\ pc[r] = "cleaned" /\ pc'[r] = "closing"
           /\ InHand(r).workspace = w
           /\ ledger[w].cleaned # Never
           /\ mem[r].seen[w].cleaned = ledger[w].cleaned
           => clock - ledger[w].cleaned >= Cooldown]_vars
  <2> SUFFICES ASSUME IInv, CoolsInv, NEW r \in Runs, NEW w \in Workspaces,
                      pc[r] = "cleaned", InHand(r).workspace = w, ledger[w].cleaned # Never,
                      mem[r].seen[w].cleaned = ledger[w].cleaned
               PROVE  clock - ledger[w].cleaned >= Cooldown
    OBVIOUS
  <2>1. ~Cooling(mem[r].seen[w])
    BY DEF CoolsInv, CoolInv, Cleaning
  <2>2. clock \in Nat /\ ledger[w].cleaned \in Nat /\ Cooldown \in Nat
    BY DEF IInv, TypeOK, LedgerRecord
  <2> QED
    BY <2>1, <2>2 DEF Cooling
<1>3. Spec => []IInv
  BY Invariance
<1> QED
  BY <1>1, <1>2, <1>3, CoolsInductive, PTL DEF Spec, CooldownRespected
=============================================================================
