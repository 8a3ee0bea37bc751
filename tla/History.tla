------------------------------- MODULE History ------------------------------
(***************************************************************************)
(* The tables runs and run_actions in time (state.rs): runs of different   *)
(* volumes write them together, begin_run deletes what is beyond the last  *)
(* MAX_DETAILED_RUNS, and `history` reads them without a transaction.      *)
(* Executor and RunJournal see one run's rows; here rows come and go.      *)
(*                                                                         *)
(* Definitions named X_Bug are mistakes somebody could make in X.          *)
(***************************************************************************)
EXTENDS Naturals, Sequences, FiniteSets

CONSTANTS
    Runs,            \* invocations of check that begin a run
    Retained,        \* MAX_DETAILED_RUNS
    MaxActions,      \* bound: actions of a run
    MaxWhileRunning, \* so many runs at most begin while one is at work
    MaxClock,        \* bound: the wall clock
    MaxBack          \* bound: times it is put back

ASSUME HistoryAssumption ==
    /\ IsFiniteSet(Runs)
    /\ Retained \in Nat \ {0} /\ MaxActions \in Nat \ {0}
    /\ MaxWhileRunning \in Nat /\ MaxClock \in Nat /\ MaxBack \in Nat

VARIABLES
    wall, back,   \* the wall clock, and how often it was put back
    runs,         \* the rows of runs, see RunRow
    actions,      \* the rows of run_actions, see ActionRow
    run,          \* run[r]: what the process of run r has, see Process
    reader,       \* `history`, see Reader
    \* History
    done,         \* done[r]: the states of the actions of r, as r left them
    moments,      \* what the tables said of the runs at any time while they were read
    later         \* later[r]: how many runs began while r is at work

tables == <<runs, actions>>
clocks == <<wall, back>>
past == <<done, moments, later>>
vars == <<clocks, tables, run, reader, past>>

States == {"PLANNED", "VALIDATING", "RUNNING", "SKIPPED", "SUCCEEDED", "FAILED"}
Settled == {"SKIPPED", "SUCCEEDED", "FAILED"}
Results == {"open", "result"}

RunRow == [run : Runs, started : Nat, result : Results]

\* id is the row id of SQLite: one more than the largest there is.
ActionRow == [id : Nat, run : Runs, sequence : Nat, state : States]

Process ==
    [pc : {"idle", "begun", "acting", "ended"},
     id : Nat]    \* ActionId of the action in hand

\* What is said of a run.
Account == [run : Runs, result : Results, states : Seq(States)]

Reader ==
    [pc : {"idle", "reading"},
     rows : SUBSET RunRow,     \* raw_runs: those whose actions are still to be read
     shown : SUBSET Account]   \* the run that was read last

Idle == [pc |-> "idle", rows |-> {}, shown |-> {}]

\* Newest first: started_at DESC.  No two runs here begin in one millisecond, where
\* the id decides.
Newer(a, b) == a.started > b.started

\* The newest rows of a table, as far as the limit goes.
Newest(rows) == {a \in rows : Cardinality({b \in rows : Newer(b, a)}) < Retained}

RowsOf(r, table) == {a \in table : a.run = r}

Ids(table) == {a.id : a \in table}

\* Numbered by how many there are.
NextId_ByCount(table) == 1 + Cardinality(table)

NextId(table) == IF table = {} THEN 1 ELSE 1 + CHOOSE i \in Ids(table) : \A j \in Ids(table) : i >= j

\* The states of a run's actions in their order.
StatesOf(r, table) ==
    [i \in 1..Cardinality(RowsOf(r, table)) |->
        (CHOOSE a \in RowsOf(r, table) : a.sequence = i).state]

Alive(r) == run[r].pc \in {"begun", "acting"}

Row(r) == CHOOSE row \in runs : row.run = r

Recorded(r) == \E row \in runs : row.run = r

\* What the tables say of r.
Seen(r) == [run |-> r, result |-> Row(r).result, states |-> StatesOf(r, actions)]

SeenNow == {Seen(r) : r \in {o \in Runs : Recorded(o)}}

Watched == moments' = IF reader.pc = "reading" THEN moments \cup SeenNow' ELSE moments

Ends(r) ==
    /\ run' = [run EXCEPT ![r] = [pc |-> "ended", id |-> 0]]
    /\ later' = [later EXCEPT ![r] = 0]

-----------------------------------------------------------------------------
Init ==
    /\ wall = 0 /\ back = 0
    /\ runs = {} /\ actions = {}
    /\ run = [r \in Runs |-> [pc |-> "idle", id |-> 0]]
    /\ reader = Idle
    /\ done = [r \in Runs |-> << >>]
    /\ moments = {}
    /\ later = [r \in Runs |-> 0]

\* The oldest are kept.
Pruned_Newest(rows) == {a \in rows : Cardinality({b \in rows : Newer(a, b)}) < Retained}

\* prune_runs_tx
Pruned(rows) == Newest(rows)

\* begin_run: the insertion and the deletion are one transaction, and the actions of
\* a deleted run go with it (ON DELETE CASCADE).
Begin(r) ==
    /\ run[r].pc = "idle"
    /\ \A row \in runs : row.started # wall
    /\ \A o \in Runs : Alive(o) => later[o] < MaxWhileRunning
    /\ runs' = Pruned(runs \cup {[run |-> r, started |-> wall, result |-> "open"]})
    /\ actions' = {a \in actions : \E row \in runs' : row.run = a.run}
    /\ run' = [run EXCEPT ![r].pc = "begun"]
    /\ later' = [o \in Runs |-> IF Alive(o) THEN later[o] + 1 ELSE later[o]]
    /\ UNCHANGED <<clocks, reader, done>>
    /\ Watched

\* record_planned_action: the row refers to its run, which must be there.
PlanAction(r) ==
    /\ run[r].pc = "begun" /\ Len(done[r]) < MaxActions
    /\ IF Recorded(r)
       THEN /\ actions' = actions \cup {[id |-> NextId(actions), run |-> r,
                                         sequence |-> Len(done[r]) + 1, state |-> "PLANNED"]}
            /\ run' = [run EXCEPT ![r] = [pc |-> "acting", id |-> NextId(actions)]]
            /\ done' = [done EXCEPT ![r] = Append(@, "PLANNED")]
            /\ UNCHANGED later
       ELSE Ends(r) /\ UNCHANGED <<actions, done>>
    /\ UNCHANGED <<clocks, runs, reader>>
    /\ Watched

\* WHERE sequence: those of every run.
Updated_BySequence(id, state) ==
    {IF \E o \in actions : o.id = id /\ o.sequence = a.sequence
     THEN [a EXCEPT !.state = state] ELSE a : a \in actions}

\* The name of the variant for the name of the state.
Updated_DebugName(id, state) ==
    {IF a.id = id THEN [a EXCEPT !.state = IF state = "SKIPPED" THEN "Skipped" ELSE state]
     ELSE a : a \in actions}

\* UPDATE run_actions ... WHERE id: any row with that number.
Updated(id, state) ==
    {IF a.id = id THEN [a EXCEPT !.state = state] ELSE a : a \in actions}

InHand(r, state) ==
    IF state \in Settled THEN [pc |-> "begun", id |-> 0] ELSE [run[r] EXCEPT !.pc = "acting"]

\* The action's new state; no such row is corruption, which ends the run.
Write(r, state) ==
    /\ done' = [done EXCEPT ![r][Len(done[r])] = state]
    /\ IF run[r].id \in Ids(actions)
       THEN /\ actions' = Updated(run[r].id, state)
            /\ run' = [run EXCEPT ![r] = InHand(r, state)]
            /\ UNCHANGED later
       ELSE Ends(r) /\ UNCHANGED actions

Successors(state) ==
    CASE state = "PLANNED"    -> {"VALIDATING"}
      [] state = "VALIDATING" -> {"RUNNING", "SKIPPED"}
      [] state = "RUNNING"    -> {"SUCCEEDED", "FAILED"}
      [] OTHER                -> {}

\* advance_action and finish_action.
AdvanceAction(r) ==
    /\ run[r].pc = "acting"
    /\ \E state \in Successors(done[r][Len(done[r])]) : Write(r, state)
    /\ UNCHANGED <<clocks, runs, reader>>
    /\ Watched

\* The result is written before the last action.
FinishRun_TooEarly(r) ==
    /\ run[r].pc = "begun"
    /\ runs' = {IF row.run = r THEN [row EXCEPT !.result = "result"] ELSE row : row \in runs}
    /\ UNCHANGED <<clocks, actions, run, reader, done, later>>
    /\ Watched

\* finish_run: an UPDATE that finds no row is no error.
FinishRun(r) ==
    /\ run[r].pc = "begun"
    /\ runs' = {IF row.run = r THEN [row EXCEPT !.result = "result"] ELSE row : row \in runs}
    /\ Ends(r)
    /\ UNCHANGED <<clocks, actions, reader, done>>
    /\ Watched

Crash(r) ==
    /\ Alive(r)
    /\ Ends(r)
    /\ UNCHANGED <<clocks, tables, reader, done, moments>>

Tick == wall < MaxClock /\ wall' = wall + 1 /\ UNCHANGED <<back, tables, run, reader, past>>

PutBack ==
    /\ back < MaxBack /\ wall > 0
    /\ wall' \in 0..(wall - 1)
    /\ back' = back + 1
    /\ UNCHANGED <<tables, run, reader, past>>

-----------------------------------------------------------------------------
(* list_runs: the runs first, then the actions of each.                    *)

ReadRuns ==
    /\ reader.pc = "idle"
    /\ reader' = [reader EXCEPT !.pc = "reading", !.rows = runs]
    /\ moments' = SeenNow
    /\ UNCHANGED <<clocks, tables, run, done, later>>

\* actions_for_run
ReadActions ==
    /\ reader.pc = "reading"
    /\ \E row \in reader.rows :
         /\ \A other \in reader.rows : other = row \/ Newer(row, other)
         /\ reader' = [reader EXCEPT
                          !.rows = @ \ {row},
                          !.shown = {[run |-> row.run, result |-> row.result,
                                      states |-> StatesOf(row.run, actions)]}]
    /\ UNCHANGED <<clocks, tables, run, past>>

Report ==
    /\ reader.pc = "reading" /\ reader.rows = {}
    /\ reader' = Idle
    /\ moments' = {}
    /\ UNCHANGED <<clocks, tables, run, done, later>>

RunStep(r) == Begin(r) \/ PlanAction(r) \/ AdvanceAction(r) \/ FinishRun(r) \/ Crash(r)

Next == (\E r \in Runs : RunStep(r)) \/ Tick \/ ReadRuns \/ ReadActions \/ Report

Spec == Init /\ [][Next]_vars

\* The same with a wall clock that people set.
PutBackSpec == Init /\ [][Next \/ PutBack]_vars

-----------------------------------------------------------------------------
TypeOK ==
    /\ wall \in 0..MaxClock /\ back \in 0..MaxBack
    /\ runs \subseteq RunRow /\ actions \subseteq ActionRow
    /\ run \in [Runs -> Process]
    /\ reader \in Reader
    /\ done \in [Runs -> Seq(States)]
    /\ moments \subseteq Account
    /\ later \in [Runs -> 0..MaxWhileRunning]

\* The history has its bound, rows have unique numbers, every action has its run.
Sound ==
    /\ Cardinality(runs) <= Retained
    /\ \A a, b \in actions : a.id = b.id \/ (a.run = b.run /\ a.sequence = b.sequence) => a = b
    /\ \A a \in actions : \E row \in runs : row.run = a.run

\* No row says more than the run that it belongs to did: an update finds its own row
\* or none, although the numbers of deleted rows are given away again.
RowsTellTheTruth ==
    \A a \in actions : a.sequence <= Len(done[a.run]) /\ a.state = done[a.run][a.sequence]

\* A run that is at work has its rows, all of them.
LiveRunsKept ==
    \A r \in Runs : Alive(r) => Recorded(r) /\ StatesOf(r, actions) = done[r]

\* What `history` shows of a run is what the ledger said at one moment, although its
\* row and its actions are read one after the other while it goes on; a run that is
\* deleted in between is shown without actions.
ShownIsAMoment ==
    \A s \in reader.shown : s \in moments \/ (s.states = << >> /\ ~Recorded(s.run))
=============================================================================
