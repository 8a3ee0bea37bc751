--------------------------- MODULE History_proofs ---------------------------
(***************************************************************************)
(* Proofs about History, for any number of runs, of actions and of rows    *)
(* that are kept.                                                          *)
(*                                                                         *)
(* TablesInv is what the tables owe to their transactions alone, whatever  *)
(* the clock does: rows of one run are numbered without a gap, and nothing *)
(* is there without its run.  KeptInv is what retention adds as long as    *)
(* the clock goes on and fewer runs begin beside a run than are kept: a    *)
(* live run is not among the oldest (Placed), so the row it is about to    *)
(* update is its own (Held), and rows agree with what was done.  ReaderInv *)
(* says that what is still to be read would show a moment.                 *)
(***************************************************************************)
EXTENDS History, FunctionTheorems, FiniteSetTheorems, WellFoundedInduction, TLAPS

USE HistoryAssumption

\* Fewer runs begin while one is at work than are kept.
Few == MaxWhileRunning < Retained

\* The rows of r are numbered as the actions `states` is about.
Numbered(r, table, states) ==
    /\ \A a, b \in RowsOf(r, table) : a.sequence = b.sequence => a = b
    /\ \A a \in RowsOf(r, table) : a.sequence \in 1..Len(states)
    /\ \A i \in 1..Len(states) : \E a \in RowsOf(r, table) : a.sequence = i

\* Rows of runs are told apart by their run and by when it started.
Apart(rows) == \A x, y \in rows : x.run = y.run \/ x.started = y.started => x = y

UniqueIds(table) == \A a, b \in table : a.id = b.id => a = b

Bounded(table) == \E bound \in Nat : \A a \in table : a.id <= bound

Owned(table, rows) == \A a \in table : \E row \in rows : row.run = a.run

\* The tables rs and acts, when the actions of the runs are dn and the runs are at rn.
Consistent(rs, acts, dn, rn) ==
    /\ rs \in SUBSET RunRow /\ acts \in SUBSET ActionRow
    /\ IsFiniteSet(rs) /\ Cardinality(rs) <= Retained
    /\ Apart(rs)
    /\ \A row \in rs : rn[row.run].pc # "idle" /\ Numbered(row.run, acts, dn[row.run])
    /\ UniqueIds(acts) /\ Bounded(acts)
    /\ Owned(acts, rs)

\* What a run has done goes with where it is.
Working(dn, rn) ==
    \A r \in Runs :
        /\ rn[r].pc = "idle" => dn[r] = << >>
        /\ rn[r].pc = "acting" => Len(dn[r]) > 0

TablesInv == TypeOK /\ Consistent(runs, actions, done, run) /\ Working(done, run)

\* How many runs began after the one of this row.
Since(row) == Cardinality({b \in runs : Newer(b, row)})

Placed(r) ==
    Alive(r) => \E row \in runs : row.run = r /\ row.result = "open" /\ Since(row) <= later[r]

Held(r) ==
    run[r].pc = "acting" =>
        \E a \in actions : a.id = run[r].id /\ a.run = r /\ a.sequence = Len(done[r])

KeptInv ==
    /\ \A row \in runs : row.started <= wall
    /\ \A r \in Runs : Placed(r) /\ Held(r)
    /\ RowsTellTheTruth

\* A run whose actions are still to be read.
Pending(row) ==
    /\ run[row.run].pc # "idle"
    /\ Alive(row.run) => row.result = "open"
    /\ Recorded(row.run) =>
          [run |-> row.run, result |-> row.result, states |-> StatesOf(row.run, actions)] \in moments

Told(s) ==
    /\ run[s.run].pc # "idle"
    /\ s \in moments \/ (s.states = << >> /\ ~Recorded(s.run))

ReaderInv ==
    /\ reader.pc = "idle" => reader = Idle
    /\ \A row \in reader.rows : Pending(row)
    /\ \A s \in reader.shown : Told(s)

-----------------------------------------------------------------------------
(* Numbers.                                                                *)

\* A set of natural numbers that is not empty has a least member.
LEMMA Least ==
    ASSUME NEW S \in SUBSET Nat, S # {}
    PROVE  \E x \in S : \A y \in S : x <= y
<1> DEFINE Below == OpToRel(<, Nat)
<1>1. IsWellFoundedOn(Below, Nat)
  BY NatLessThanWellFounded
<1>2. PICK x \in S : \A y \in S : <<y, x>> \notin Below
  <2> HIDE DEF Below
  <2> QED BY <1>1, WFMin
<1>3. ASSUME NEW y \in S PROVE x <= y
  <2>1. ~(y < x)
    BY <1>2 DEF OpToRel
  <2> QED BY <2>1
<1> QED BY <1>2, <1>3

\* One that is bounded has a greatest.
LEMMA Greatest ==
    ASSUME NEW S \in SUBSET Nat, S # {}, NEW bound \in Nat, \A y \in S : y <= bound
    PROVE  \E x \in S : \A y \in S : x >= y
<1> DEFINE Gaps == {bound - y : y \in S}
<1>1. Gaps \in SUBSET Nat /\ Gaps # {}
  <2>1. \A y \in S : bound - y \in Nat
    OBVIOUS
  <2> QED BY <2>1
<1>2. PICK gap \in Gaps : \A g \in Gaps : gap <= g
  BY <1>1, Least
<1>3. PICK x \in S : gap = bound - x
  BY <1>2
<1>4. ASSUME NEW y \in S PROVE x >= y
  BY <1>2, <1>3, bound - y \in Gaps
<1> QED BY <1>4

\* NextId is a number no row of the table has.
LEMMA NextIdIsNew ==
    ASSUME NEW table \in SUBSET ActionRow, Bounded(table)
    PROVE  NextId(table) \in Nat /\ \A a \in table : a.id < NextId(table)
<1>1. CASE table = {}
  BY <1>1 DEF NextId
<1>2. CASE table # {}
  <2>1. PICK bound \in Nat : \A a \in table : a.id <= bound
    BY DEF Bounded
  <2>2. Ids(table) \in SUBSET Nat /\ Ids(table) # {} /\ \A i \in Ids(table) : i <= bound
    BY <1>2, <2>1 DEF Ids, ActionRow
  <2>3. \E i \in Ids(table) : \A j \in Ids(table) : i >= j
    BY <2>1, <2>2, Greatest
  <2> DEFINE last == CHOOSE i \in Ids(table) : \A j \in Ids(table) : i >= j
  <2>4. last \in Ids(table) /\ \A j \in Ids(table) : last >= j
    BY <2>3
  <2>5. NextId(table) = 1 + last
    BY <1>2 DEF NextId
  <2>6. \A a \in table : a.id \in Ids(table)
    BY DEF Ids
  <2> HIDE DEF last
  <2> QED BY <2>2, <2>4, <2>5, <2>6
<1> QED BY <1>1, <1>2

-----------------------------------------------------------------------------
(* The rows of one run.                                                    *)

\* As many rows as numbers.
LEMMA NumberedCardinality ==
    ASSUME NEW r, NEW table, NEW states, Len(states) \in Nat, Numbered(r, table, states)
    PROVE  Cardinality(RowsOf(r, table)) = Len(states)
<1> DEFINE rows == RowsOf(r, table)
           n == Len(states)
           f == [a \in rows |-> a.sequence]
<1>1. f \in Bijection(rows, 1..n)
  <2>1. f \in [rows -> 1..n]
    BY DEF Numbered
  <2>2. \A a, b \in rows : f[a] = f[b] => a = b
    BY DEF Numbered
  <2>3. \A i \in 1..n : \E a \in rows : f[a] = i
    BY DEF Numbered
  <2> HIDE DEF rows, f, n
  <2> QED BY <2>1, <2>2, <2>3 DEF Bijection, Injection, Surjection, IsInjective
<1>2. ExistsBijection(1..n, rows)
  <2> HIDE DEF rows, f, n
  <2>1. ExistsBijection(rows, 1..n)
    BY <1>1 DEF ExistsBijection
  <2> QED BY <2>1, Fun_ExistsBijSymmetric
<1> HIDE DEF rows, f
<1>3. Cardinality(rows) = n
  BY <1>2, FS_CountingElements
<1> QED BY <1>3 DEF rows

\* What the table says of r, in the order of its actions.
LEMMA StatesOfNumbered ==
    ASSUME NEW r, NEW table \in SUBSET ActionRow, NEW states, Len(states) \in Nat,
           Numbered(r, table, states)
    PROVE  /\ StatesOf(r, table) \in Seq(States)
           /\ Len(StatesOf(r, table)) = Len(states)
           /\ DOMAIN StatesOf(r, table) = 1..Len(states)
           /\ \A a \in RowsOf(r, table) : StatesOf(r, table)[a.sequence] = a.state
<1> DEFINE n == Len(states)
           one(i) == CHOOSE a \in RowsOf(r, table) : a.sequence = i
<1>1. StatesOf(r, table) = [i \in 1..n |-> one(i).state]
  BY NumberedCardinality DEF StatesOf
<1>2. ASSUME NEW i \in 1..n
      PROVE  one(i) \in RowsOf(r, table) /\ one(i).sequence = i
  BY DEF Numbered
<1>3. \A i \in 1..n : one(i).state \in States
  BY <1>2 DEF RowsOf, ActionRow
<1>4. ASSUME NEW a \in RowsOf(r, table)
      PROVE  a.sequence \in 1..n /\ one(a.sequence) = a
  <2>1. a.sequence \in 1..n
    BY DEF Numbered
  <2>2. one(a.sequence) \in RowsOf(r, table) /\ one(a.sequence).sequence = a.sequence
    BY <1>2, <2>1
  <2> QED BY <2>1, <2>2 DEF Numbered
<1> HIDE DEF one
<1> QED BY <1>1, <1>3, <1>4

LEMMA StatesOfNone ==
    ASSUME NEW r, NEW table, RowsOf(r, table) = {}
    PROVE  StatesOf(r, table) = << >>
<1>1. Cardinality(RowsOf(r, table)) = 0
  BY FS_EmptySet
<1>2. 1..0 = {}
  OBVIOUS
<1> QED BY <1>1, <1>2 DEF StatesOf

-----------------------------------------------------------------------------
(* Retention.                                                              *)

\* No more than the limit are kept: the oldest of those is older than all others.
LEMMA NewestFewEnough ==
    ASSUME NEW rows \in SUBSET RunRow, IsFiniteSet(rows), Apart(rows)
    PROVE  /\ IsFiniteSet(Newest(rows))
           /\ Cardinality(Newest(rows)) <= Retained
<1>0. Newest(rows) \in SUBSET rows
  BY DEF Newest
<1>1. IsFiniteSet(Newest(rows))
  BY <1>0, FS_Subset
<1>2. CASE Newest(rows) = {}
  BY <1>2, FS_EmptySet
<1>3. CASE Newest(rows) # {}
  <2> DEFINE times == {a.started : a \in Newest(rows)}
  <2>1. times \in SUBSET Nat /\ times # {}
    BY <1>0, <1>3 DEF RunRow
  <2>2. PICK first \in times : \A t \in times : first <= t
    BY <2>1, Least
  <2>3. PICK oldest \in Newest(rows) : oldest.started = first
    BY <2>2
  <2> DEFINE newer == {b \in rows : Newer(b, oldest)}
  <2>4. IsFiniteSet(newer) /\ Cardinality(newer) \in Nat /\ Cardinality(newer) < Retained
    <3>1. newer \in SUBSET rows
      OBVIOUS
    <3>2. IsFiniteSet(newer)
      BY <3>1, FS_Subset
    <3> QED BY <2>3, <3>2, FS_CardinalityType DEF Newest
  <2>5. Newest(rows) \in SUBSET (newer \cup {oldest})
    <3> SUFFICES ASSUME NEW a \in Newest(rows), a # oldest PROVE Newer(a, oldest)
      BY <1>0
    <3>1. a \in rows /\ oldest \in rows /\ a.started \in Nat /\ oldest.started \in Nat
      BY <1>0, <2>3 DEF RunRow
    <3>2. oldest.started <= a.started
      BY <2>2, <2>3
    <3>3. a.started # oldest.started
      BY <3>1 DEF Apart
    <3> QED BY <3>1, <3>2, <3>3 DEF Newer
  <2>6. IsFiniteSet(newer \cup {oldest}) /\ Cardinality(newer \cup {oldest}) <= Cardinality(newer) + 1
    <3> HIDE DEF newer
    <3>1. /\ IsFiniteSet(newer \cup {oldest})
          /\ Cardinality(newer \cup {oldest}) =
                IF oldest \in newer THEN Cardinality(newer) ELSE Cardinality(newer) + 1
      BY <2>4, FS_AddElement
    <3> QED BY <2>4, <3>1
  <2>7. Cardinality(Newest(rows)) <= Cardinality(newer \cup {oldest})
    BY <2>5, <2>6, FS_Subset
  <2>8. Cardinality(Newest(rows)) \in Nat /\ Cardinality(newer \cup {oldest}) \in Nat
    BY <1>1, <2>6, FS_CardinalityType
  <2> HIDE DEF newer
  <2> QED BY <1>1, <2>4, <2>6, <2>7, <2>8
<1> QED BY <1>1, <1>2, <1>3

-----------------------------------------------------------------------------
(* The tables stay consistent.                                             *)

RunRecord(r, rs) == CHOOSE row \in rs : row.run = r

SeenIn(rs, acts) ==
    {[run |-> r, result |-> RunRecord(r, rs).result, states |-> StatesOf(r, acts)] :
        r \in {o \in Runs : \E row \in rs : row.run = o}}

LEMMA SeenNowIsSeenIn == SeenNow = SeenIn(runs, actions) /\ SeenNow' = SeenIn(runs', actions')
  BY DEF SeenNow, SeenIn, Seen, Row, RunRecord, Recorded

\* What the tables say of any run, recorded or not, is a sequence of states.
LEMMA StatesType ==
    ASSUME NEW rs, NEW acts, NEW dn, NEW rn, NEW r \in Runs,
           Consistent(rs, acts, dn, rn), dn \in [Runs -> Seq(States)]
    PROVE  StatesOf(r, acts) \in Seq(States)
<1>1. CASE \E row \in rs : row.run = r
  <2>1. Numbered(r, acts, dn[r]) /\ Len(dn[r]) \in Nat /\ acts \in SUBSET ActionRow
    BY <1>1 DEF Consistent
  <2> QED BY <2>1, StatesOfNumbered
<1>2. CASE ~ \E row \in rs : row.run = r
  <2>1. RowsOf(r, acts) = {}
    BY <1>2 DEF Consistent, Owned, RowsOf
  <2>2. StatesOf(r, acts) = << >>
    BY <2>1, StatesOfNone
  <2> QED BY <2>2
<1> QED BY <1>1, <1>2

LEMMA SeenInType ==
    ASSUME NEW rs, NEW acts, NEW dn, NEW rn,
           Consistent(rs, acts, dn, rn), dn \in [Runs -> Seq(States)]
    PROVE  SeenIn(rs, acts) \in SUBSET Account
<1> SUFFICES ASSUME NEW r \in Runs, \E row \in rs : row.run = r
             PROVE  [run |-> r, result |-> RunRecord(r, rs).result,
                     states |-> StatesOf(r, acts)] \in Account
  BY DEF SeenIn
<1>1. RunRecord(r, rs) \in rs
  BY DEF RunRecord
<1>2. RunRecord(r, rs).result \in Results
  BY <1>1 DEF Consistent, RunRow
<1>3. StatesOf(r, acts) \in Seq(States)
  BY StatesType
<1> QED BY <1>2, <1>3 DEF Account

LEMMA WatchedType ==
    ASSUME TypeOK, Watched, Consistent(runs', actions', done', run'),
           done' \in [Runs -> Seq(States)]
    PROVE  moments' \in SUBSET Account
<1>1. SeenNow' \in SUBSET Account
  BY SeenNowIsSeenIn, SeenInType
<1> QED BY <1>1 DEF Watched, TypeOK

LEMMA EndsType ==
    ASSUME TypeOK, NEW r \in Runs, Ends(r)
    PROVE  /\ run' \in [Runs -> Process] /\ later' \in [Runs -> 0..MaxWhileRunning]
           /\ run'[r].pc = "ended" /\ \A o \in Runs : o # r => run'[o] = run[o]
  BY DEF TypeOK, Ends, Process

\* What one table says of a run does not depend on other rows.
LEMMA NumberedSame ==
    ASSUME NEW r, NEW old, NEW new, NEW states, RowsOf(r, new) = RowsOf(r, old),
           Numbered(r, old, states)
    PROVE  Numbered(r, new, states)
  BY DEF Numbered

\* Consistency says nothing of a run but whether it has begun.
LEMMA ConsistentElsewhere ==
    ASSUME NEW rs, NEW acts, NEW dn, NEW rn, NEW rn2, Consistent(rs, acts, dn, rn),
           \A row \in rs : rn[row.run].pc # "idle" => rn2[row.run].pc # "idle"
    PROVE  Consistent(rs, acts, dn, rn2)
  BY DEF Consistent

\* What is left to show of a step when the tables are consistent after it.
LEMMA TablesRest ==
    ASSUME TablesInv, Consistent(runs', actions', done', run'), Working(done', run'),
           done' \in [Runs -> Seq(States)], run' \in [Runs -> Process],
           later' \in [Runs -> 0..MaxWhileRunning],
           UNCHANGED <<clocks, reader>>, Watched \/ UNCHANGED moments
    PROVE  TablesInv'
<1>1. moments' \in SUBSET Account
  BY WatchedType DEF TablesInv, TypeOK
<1>2. wall' = wall /\ back' = back /\ reader' = reader
  BY DEF clocks
<1>3. TypeOK'
  BY <1>1, <1>2 DEF TypeOK, TablesInv, Consistent
<1> QED BY <1>3 DEF TablesInv

LEMMA TablesBegin ==
    ASSUME TablesInv, NEW r \in Runs, Begin(r)
    PROVE  TablesInv'
<1> DEFINE new == [run |-> r, started |-> wall, result |-> "open"]
           all == runs \cup {new}
<1>1. new \in RunRow /\ new.run = r /\ new.started = wall
  BY DEF TablesInv, TypeOK, RunRow, Results
<1>2. /\ runs \in SUBSET RunRow /\ actions \in SUBSET ActionRow /\ IsFiniteSet(runs)
      /\ Apart(runs) /\ Owned(actions, runs)
      /\ done \in [Runs -> Seq(States)] /\ run \in [Runs -> Process]
  BY DEF TablesInv, Consistent, TypeOK
<1>20. done[r] = << >>
  BY DEF TablesInv, Working, Begin
<1>3. run[r].pc = "idle" /\ \A row \in runs : row.run # r /\ row.started # wall
  BY DEF TablesInv, Consistent, Begin
<1>4. runs' = Newest(all) /\ runs' \subseteq all
  BY DEF Begin, Pruned, Newest
<1>5. all \in SUBSET RunRow /\ IsFiniteSet(all) /\ Apart(all)
  <2>1. IsFiniteSet(all)
    BY <1>2, FS_AddElement
  <2>2. Apart(all)
    BY <1>1, <1>2, <1>3 DEF Apart
  <2> QED BY <1>1, <1>2, <2>1, <2>2
<1>6. IsFiniteSet(runs') /\ Cardinality(runs') <= Retained
  BY <1>4, <1>5, NewestFewEnough
<1>7. run' = [run EXCEPT ![r].pc = "begun"]
  BY DEF Begin
<1>8. /\ run' \in [Runs -> Process] /\ run'[r].pc = "begun"
      /\ \A o \in Runs : o # r => run'[o] = run[o]
  BY <1>2, <1>7 DEF Process
<1>9. actions' \subseteq actions /\ Owned(actions', runs')
  BY DEF Begin, Owned
<1>10. UNCHANGED done
  BY DEF Begin
<1>11. ASSUME NEW row \in runs'
       PROVE  run'[row.run].pc # "idle" /\ Numbered(row.run, actions', done'[row.run])
  <2>1. CASE row = new
    <3>1. RowsOf(r, actions') = {}
      BY <1>2, <1>3, <1>9 DEF RowsOf, Owned
    <3> QED BY <2>1, <3>1, <1>1, <1>2, <1>20, <1>8, <1>10 DEF Numbered
  <2>2. CASE row # new
    <3>1. row \in runs /\ row.run \in Runs /\ row.run # r
      BY <2>2, <1>2, <1>3, <1>4 DEF RunRow
    <3>2. RowsOf(row.run, actions') = RowsOf(row.run, actions)
      BY <1>11 DEF RowsOf, Begin
    <3>3. Numbered(row.run, actions, done[row.run]) /\ run[row.run].pc # "idle"
      BY <3>1 DEF TablesInv, Consistent
    <3> QED BY <3>1, <3>2, <3>3, <1>8, <1>10, NumberedSame
  <2> QED BY <2>1, <2>2
<1>12. UniqueIds(actions') /\ Bounded(actions')
  BY <1>9 DEF TablesInv, Consistent, UniqueIds, Bounded
<1>13. Consistent(runs', actions', done', run')
  <2>1. runs' \in SUBSET RunRow /\ actions' \in SUBSET ActionRow /\ Apart(runs')
    BY <1>2, <1>4, <1>5, <1>9 DEF Apart
  <2> QED BY <2>1, <1>6, <1>9, <1>11, <1>12 DEF Consistent
<1>14. Working(done', run')
  BY <1>20, <1>8, <1>10 DEF TablesInv, Working
<1>15. later' \in [Runs -> 0..MaxWhileRunning]
  <2>1. \A o \in Runs : Alive(o) => later[o] + 1 \in 0..MaxWhileRunning
    BY DEF TablesInv, TypeOK, Begin
  <2> QED BY <2>1 DEF TablesInv, TypeOK, Begin
<1> QED BY <1>2, <1>8, <1>10, <1>13, <1>14, <1>15, TablesRest DEF Begin

\* Nothing changes but that a run has ended.
LEMMA TablesEnds ==
    ASSUME TablesInv, NEW r \in Runs, Ends(r), Alive(r),
           Consistent(runs', actions', done', run), done' \in [Runs -> Seq(States)],
           \A o \in Runs : o # r => done'[o] = done[o],
           UNCHANGED <<clocks, reader>>, Watched \/ UNCHANGED moments
    PROVE  TablesInv'
<1>1. /\ run' \in [Runs -> Process] /\ later' \in [Runs -> 0..MaxWhileRunning]
      /\ run'[r].pc = "ended" /\ \A o \in Runs : o # r => run'[o] = run[o]
  BY EndsType DEF TablesInv
<1>2. Consistent(runs', actions', done', run')
  <2>1. \A row \in runs' : row.run \in Runs
    BY DEF Consistent, RunRow
  <2> QED BY <1>1, <2>1, ConsistentElsewhere
<1>3. Working(done', run')
  BY <1>1 DEF TablesInv, Working
<1> QED BY <1>1, <1>2, <1>3, TablesRest

LEMMA TablesPlan ==
    ASSUME TablesInv, NEW r \in Runs, PlanAction(r)
    PROVE  TablesInv'
<1>1. /\ runs \in SUBSET RunRow /\ actions \in SUBSET ActionRow
      /\ Bounded(actions) /\ UniqueIds(actions) /\ Owned(actions, runs)
      /\ done \in [Runs -> Seq(States)] /\ run \in [Runs -> Process]
      /\ later \in [Runs -> 0..MaxWhileRunning]
  BY DEF TablesInv, TypeOK, Consistent
<1>2. run[r].pc = "begun" /\ Alive(r) /\ UNCHANGED <<clocks, reader>> /\ runs' = runs
  BY DEF PlanAction, Alive
<1>3. CASE ~Recorded(r)
  <2>1. Ends(r) /\ UNCHANGED <<actions, done>>
    BY <1>3 DEF PlanAction
  <2>2. Consistent(runs', actions', done', run)
    BY <1>2, <2>1 DEF TablesInv
  <2> QED BY <1>1, <1>2, <2>1, <2>2, TablesEnds DEF PlanAction
<1>4. CASE Recorded(r)
  <2> DEFINE n == Len(done[r])
             new == [id |-> NextId(actions), run |-> r, sequence |-> n + 1, state |-> "PLANNED"]
  <2>1. NextId(actions) \in Nat /\ \A a \in actions : a.id < NextId(actions)
    BY <1>1, NextIdIsNew
  <2>2. n \in Nat /\ done[r] \in Seq(States)
    BY <1>1
  <2>3. new \in ActionRow
    BY <2>1, <2>2 DEF ActionRow, States
  <2>4. /\ actions' = actions \cup {new}
        /\ run' = [run EXCEPT ![r] = [pc |-> "acting", id |-> NextId(actions)]]
        /\ done' = [done EXCEPT ![r] = Append(done[r], "PLANNED")]
        /\ later' = later
    BY <1>4 DEF PlanAction
  <2>5. /\ done' \in [Runs -> Seq(States)] /\ Len(done'[r]) = n + 1
        /\ \A o \in Runs : o # r => done'[o] = done[o]
    <3>1. Append(done[r], "PLANNED") \in Seq(States) /\ Len(Append(done[r], "PLANNED")) = n + 1
      BY <2>2 DEF States
    <3> QED BY <1>1, <2>4, <3>1
  <2>6. /\ run' \in [Runs -> Process] /\ run'[r].pc = "acting"
        /\ \A o \in Runs : o # r => run'[o] = run[o]
    BY <1>1, <2>1, <2>4 DEF Process
  <2>7. Numbered(r, actions, done[r])
    BY <1>4 DEF TablesInv, Consistent, Recorded
  <2>8. Numbered(r, actions', done'[r])
    <3>1. RowsOf(r, actions') = RowsOf(r, actions) \cup {new}
      BY <2>4 DEF RowsOf
    <3>2. \A a \in RowsOf(r, actions) : a.sequence \in 1..n
      BY <2>7 DEF Numbered
    <3>3. \A a, b \in RowsOf(r, actions') : a.sequence = b.sequence => a = b
      BY <2>2, <2>7, <3>1, <3>2 DEF Numbered
    <3>4. \A a \in RowsOf(r, actions') : a.sequence \in 1..(n + 1)
      BY <2>2, <3>1, <3>2
    <3>5. ASSUME NEW i \in 1..(n + 1) PROVE \E a \in RowsOf(r, actions') : a.sequence = i
      <4>1. CASE i = n + 1
        <5>1. new \in RowsOf(r, actions') /\ new.sequence = i
          BY <3>1, <4>1
        <5> QED BY <5>1
      <4>2. CASE i # n + 1
        <5>1. i \in 1..n
          BY <2>2, <4>2
        <5> QED BY <2>7, <3>1, <5>1 DEF Numbered
      <4> QED BY <4>1, <4>2
    <3> QED BY <2>5, <3>3, <3>4, <3>5 DEF Numbered
  <2>9. ASSUME NEW row \in runs'
        PROVE  run'[row.run].pc # "idle" /\ Numbered(row.run, actions', done'[row.run])
    <3>1. row \in runs /\ row.run \in Runs
      BY <1>1, <1>2 DEF RunRow
    <3>2. CASE row.run = r
      BY <2>6, <2>8, <3>2
    <3>3. CASE row.run # r
      <4>1. RowsOf(row.run, actions') = RowsOf(row.run, actions)
        BY <2>4, <3>3 DEF RowsOf
      <4>2. Numbered(row.run, actions, done[row.run]) /\ run[row.run].pc # "idle"
        BY <3>1 DEF TablesInv, Consistent
      <4> QED BY <2>5, <2>6, <3>1, <3>3, <4>1, <4>2, NumberedSame
    <3> QED BY <3>2, <3>3
  <2>10. UniqueIds(actions') /\ Bounded(actions')
    <3>1. UniqueIds(actions')
      BY <1>1, <2>1, <2>4 DEF UniqueIds, ActionRow
    <3>2. \A a \in actions' : a.id <= NextId(actions)
      BY <1>1, <2>1, <2>4 DEF ActionRow
    <3> QED BY <2>1, <3>1, <3>2 DEF Bounded
  <2>11. Owned(actions', runs')
    BY <1>1, <1>2, <1>4, <2>4 DEF Owned, Recorded
  <2>12. Consistent(runs', actions', done', run')
    <3>1. actions' \in SUBSET ActionRow
      BY <1>1, <2>3, <2>4
    <3>2. IsFiniteSet(runs') /\ Cardinality(runs') <= Retained /\ Apart(runs')
      BY <1>2 DEF TablesInv, Consistent
    <3> HIDE DEF new
    <3> QED BY <1>1, <1>2, <3>1, <3>2, <2>9, <2>10, <2>11 DEF Consistent
  <2>13. Working(done', run')
    <3> SUFFICES ASSUME NEW o \in Runs
                 PROVE  /\ run'[o].pc = "idle" => done'[o] = << >>
                        /\ run'[o].pc = "acting" => Len(done'[o]) > 0
      BY DEF Working
    <3>1. CASE o = r
      <4> HIDE DEF new
      <4> QED BY <2>2, <2>5, <2>6, <3>1
    <3>2. CASE o # r
      BY <2>5, <2>6, <3>2 DEF TablesInv, Working
    <3> QED BY <3>1, <3>2
  <2> QED BY <1>1, <1>2, <2>4, <2>5, <2>6, <2>12, <2>13, TablesRest DEF PlanAction
<1> QED BY <1>3, <1>4

\* The row a after the update of the row with this number.
Up(a, id, state) == IF a.id = id THEN [a EXCEPT !.state = state] ELSE a

LEMMA UpRow ==
    ASSUME NEW a \in ActionRow, NEW id, NEW state \in States
    PROVE  /\ Up(a, id, state) \in ActionRow
           /\ Up(a, id, state).id = a.id /\ Up(a, id, state).run = a.run
           /\ Up(a, id, state).sequence = a.sequence
           /\ Up(a, id, state).state = IF a.id = id THEN state ELSE a.state
  BY DEF Up, ActionRow

\* An update changes no row's number, run or place.
LEMMA UpdatedRows ==
    ASSUME NEW id, NEW state \in States, actions \in SUBSET ActionRow
    PROVE  /\ Updated(id, state) = {Up(a, id, state) : a \in actions}
           /\ Updated(id, state) \in SUBSET ActionRow
           /\ UniqueIds(actions) => UniqueIds(Updated(id, state))
           /\ Bounded(actions) => Bounded(Updated(id, state))
           /\ \A rs : Owned(actions, rs) => Owned(Updated(id, state), rs)
           /\ \A r, states : Numbered(r, actions, states) => Numbered(r, Updated(id, state), states)
<1> DEFINE table == {Up(a, id, state) : a \in actions}
<1>1. Updated(id, state) = table
  BY DEF Updated, Up
<1>2. ASSUME NEW b \in table
      PROVE  \E a \in actions : /\ b = Up(a, id, state) /\ b \in ActionRow
                                /\ b.id = a.id /\ b.run = a.run /\ b.sequence = a.sequence
  BY UpRow
<1>3. ASSUME NEW a \in actions
      PROVE  /\ Up(a, id, state) \in table /\ Up(a, id, state).run = a.run
             /\ Up(a, id, state).sequence = a.sequence
  BY UpRow
<1> HIDE DEF table
<1>4. table \in SUBSET ActionRow
  BY <1>2
<1>5. UniqueIds(actions) => UniqueIds(table)
  BY <1>2 DEF UniqueIds
<1>6. Bounded(actions) => Bounded(table)
  <2> SUFFICES ASSUME NEW bound \in Nat, \A a \in actions : a.id <= bound
               PROVE  \A b \in table : b.id <= bound
    BY DEF Bounded
  <2> QED BY <1>2
<1>7. ASSUME NEW rs, Owned(actions, rs) PROVE Owned(table, rs)
  BY <1>2, <1>7 DEF Owned
<1>8. ASSUME NEW r, NEW states, Numbered(r, actions, states)
      PROVE  Numbered(r, table, states)
  <2>1. ASSUME NEW b \in RowsOf(r, table)
        PROVE  \E a \in RowsOf(r, actions) : b = Up(a, id, state) /\ b.sequence = a.sequence
    BY <1>2 DEF RowsOf
  <2>2. \A a, b \in RowsOf(r, table) : a.sequence = b.sequence => a = b
    BY <1>8, <2>1 DEF Numbered
  <2>3. \A a \in RowsOf(r, table) : a.sequence \in 1..Len(states)
    BY <1>8, <2>1 DEF Numbered
  <2>4. ASSUME NEW i \in 1..Len(states) PROVE \E b \in RowsOf(r, table) : b.sequence = i
    <3>1. PICK a \in RowsOf(r, actions) : a.sequence = i
      BY <1>8 DEF Numbered
    <3>2. Up(a, id, state) \in RowsOf(r, table) /\ Up(a, id, state).sequence = i
      BY <1>3, <3>1 DEF RowsOf
    <3> QED BY <3>2
  <2> QED BY <2>2, <2>3, <2>4 DEF Numbered
<1>9. Updated(id, state) = {Up(a, id, state) : a \in actions}
  BY <1>1 DEF table
<1> QED BY <1>1, <1>4, <1>5, <1>6, <1>7, <1>8, <1>9, Zenon

\* A run's own account changes in its last place.
LEMMA LastChanged ==
    ASSUME TablesInv, NEW r \in Runs, run[r].pc = "acting", NEW state \in States,
           done' = [done EXCEPT ![r][Len(done[r])] = state]
    PROVE  /\ done' \in [Runs -> Seq(States)]
           /\ Len(done'[r]) = Len(done[r]) /\ Len(done[r]) \in Nat \ {0}
           /\ done'[r][Len(done[r])] = state
           /\ \A i \in 1..Len(done[r]) : i # Len(done[r]) => done'[r][i] = done[r][i]
           /\ \A o \in Runs : o # r => done'[o] = done[o]
<1> DEFINE n == Len(done[r])
           last == [done[r] EXCEPT ![n] = state]
<1>1. done \in [Runs -> Seq(States)] /\ n \in Nat /\ n > 0
  BY DEF TablesInv, TypeOK, Working
<1>2. /\ last \in Seq(States) /\ Len(last) = n /\ last[n] = state
      /\ \A i \in 1..n : i # n => last[i] = done[r][i]
  BY <1>1
<1>3. done' = [done EXCEPT ![r] = last]
  OBVIOUS
<1> HIDE DEF last
<1> QED BY <1>1, <1>2, <1>3

LEMMA SuccessorsType ==
    ASSUME NEW state, NEW next \in Successors(state)
    PROVE  next \in States
  BY DEF Successors, States

\* Rows of other lengths and places do not change with what the actions are.
LEMMA ConsistentAgain ==
    ASSUME TablesInv, NEW id, NEW state \in States,
           done' \in [Runs -> Seq(States)], \A o \in Runs : Len(done'[o]) = Len(done[o]),
           NEW acts, acts = actions \/ acts = Updated(id, state)
    PROVE  Consistent(runs, acts, done', run)
<1>1. Consistent(runs, actions, done, run)
  BY DEF TablesInv
<1>2. /\ acts \in SUBSET ActionRow /\ UniqueIds(acts) /\ Bounded(acts) /\ Owned(acts, runs)
      /\ \A r, states : Numbered(r, actions, states) => Numbered(r, acts, states)
  <2>1. /\ actions \in SUBSET ActionRow /\ UniqueIds(actions) /\ Bounded(actions)
        /\ Owned(actions, runs)
    BY <1>1 DEF Consistent
  <2>2. CASE acts = actions
    BY <2>1, <2>2
  <2>3. CASE acts = Updated(id, state)
    BY <2>1, <2>3, UpdatedRows
  <2> QED BY <2>2, <2>3
<1>3. ASSUME NEW row \in runs
      PROVE  run[row.run].pc # "idle" /\ Numbered(row.run, acts, done'[row.run])
  <2>1. /\ row.run \in Runs /\ run[row.run].pc # "idle"
        /\ Numbered(row.run, actions, done[row.run])
    BY <1>1 DEF Consistent, RunRow
  <2>2. Numbered(row.run, acts, done[row.run])
    BY <1>2, <2>1
  <2> QED BY <2>1, <2>2 DEF Numbered
<1> QED BY <1>1, <1>2, <1>3 DEF Consistent

LEMMA TablesAdvance ==
    ASSUME TablesInv, NEW r \in Runs, AdvanceAction(r)
    PROVE  TablesInv'
<1>1. PICK state \in States : Write(r, state)
  BY SuccessorsType DEF AdvanceAction
<1>2. /\ run[r].pc = "acting" /\ Alive(r) /\ UNCHANGED <<clocks, reader>> /\ runs' = runs
      /\ Watched
  BY DEF AdvanceAction, Alive
<1>3. /\ done' \in [Runs -> Seq(States)] /\ Len(done'[r]) = Len(done[r])
      /\ Len(done[r]) \in Nat \ {0} /\ \A o \in Runs : o # r => done'[o] = done[o]
  BY <1>1, <1>2, LastChanged DEF Write
<1>4. \A o \in Runs : Len(done'[o]) = Len(done[o])
  BY <1>3
<1>5. CASE run[r].id \in Ids(actions)
  <2>1. /\ actions' = Updated(run[r].id, state) /\ run' = [run EXCEPT ![r] = InHand(r, state)]
        /\ later' = later
    BY <1>1, <1>5 DEF Write
  <2>2. /\ run' \in [Runs -> Process] /\ run'[r].pc \in {"begun", "acting"}
        /\ \A o \in Runs : o # r => run'[o] = run[o]
    <3>1. run \in [Runs -> Process]
      BY DEF TablesInv, TypeOK
    <3>2. InHand(r, state) \in Process /\ InHand(r, state).pc \in {"begun", "acting"}
      BY <3>1 DEF InHand, Process
    <3> QED BY <2>1, <3>1, <3>2
  <2>3. Consistent(runs', actions', done', run)
    BY <1>2, <1>3, <1>4, <2>1, ConsistentAgain
  <2>4. Consistent(runs', actions', done', run')
    <3>1. \A row \in runs' : row.run \in Runs
      BY <2>3 DEF Consistent, RunRow
    <3> QED BY <2>2, <2>3, <3>1, ConsistentElsewhere
  <2>5. Working(done', run')
    <3>1. Working(done, run)
      BY DEF TablesInv
    <3>2. ASSUME NEW o \in Runs
          PROVE  /\ run'[o].pc = "idle" => done'[o] = << >>
                 /\ run'[o].pc = "acting" => Len(done'[o]) > 0
      <4>1. CASE o = r
        BY <1>3, <2>2, <4>1
      <4>2. CASE o # r
        BY <1>3, <2>2, <3>1, <4>2 DEF Working
      <4> QED BY <4>1, <4>2
    <3> QED BY <3>2 DEF Working
  <2>6. later' \in [Runs -> 0..MaxWhileRunning]
    BY <2>1 DEF TablesInv, TypeOK
  <2> QED BY <1>2, <1>3, <2>2, <2>4, <2>5, <2>6, TablesRest
<1>6. CASE run[r].id \notin Ids(actions)
  <2>1. Ends(r) /\ actions' = actions
    BY <1>1, <1>6 DEF Write
  <2>2. Consistent(runs', actions', done', run)
    BY <1>2, <1>3, <1>4, <2>1, ConsistentAgain
  <2> QED BY <1>2, <1>3, <2>1, <2>2, TablesEnds
<1> QED BY <1>5, <1>6

LEMMA TablesFinish ==
    ASSUME TablesInv, NEW r \in Runs, FinishRun(r)
    PROVE  TablesInv'
<1> DEFINE With(row) == IF row.run = r THEN [row EXCEPT !.result = "result"] ELSE row
           f == [row \in runs |-> With(row)]
<1>1. /\ runs \in SUBSET RunRow /\ IsFiniteSet(runs) /\ Cardinality(runs) <= Retained
      /\ Apart(runs) /\ Owned(actions, runs)
      /\ \A row \in runs : run[row.run].pc # "idle" /\ Numbered(row.run, actions, done[row.run])
  BY DEF TablesInv, Consistent
<1>2. /\ runs' = {With(row) : row \in runs} /\ Ends(r) /\ Alive(r) /\ Watched
      /\ actions' = actions /\ done' = done /\ UNCHANGED <<clocks, reader>>
  BY DEF FinishRun, Alive
<1>3. ASSUME NEW row \in RunRow
      PROVE  /\ With(row) \in RunRow /\ With(row).run = row.run
             /\ With(row).started = row.started
  BY DEF RunRow, Results
<1>4. IsFiniteSet(runs') /\ Cardinality(runs') <= Retained
  <2>1. f \in Surjection(runs, runs')
    <3>1. f \in [runs -> runs'] /\ \A y \in runs' : \E x \in runs : f[x] = y
      BY <1>2
    <3> HIDE DEF f
    <3> QED BY <3>1 DEF Surjection
  <2>2. IsFiniteSet(runs') /\ Cardinality(runs') <= Cardinality(runs)
    <3> HIDE DEF f
    <3> QED BY <1>1, <2>1, FS_Surjection
  <2> QED BY <1>1, <2>2, FS_CardinalityType
<1>5. ASSUME NEW b \in runs'
      PROVE  \E a \in runs : /\ b = With(a) /\ b \in RunRow
                             /\ b.run = a.run /\ b.started = a.started
  BY <1>1, <1>2, <1>3
<1>6. ASSUME NEW a \in runs PROVE With(a) \in runs' /\ With(a).run = a.run
  BY <1>1, <1>2, <1>3
<1> HIDE DEF With, f
<1>7. Apart(runs')
  BY <1>1, <1>5 DEF Apart
<1>8. Owned(actions, runs')
  BY <1>1, <1>6 DEF Owned
<1>9. Consistent(runs', actions', done', run)
  <2>1. \A row \in runs' : /\ run[row.run].pc # "idle"
                           /\ Numbered(row.run, actions', done'[row.run])
    BY <1>1, <1>2, <1>5
  <2>2. runs' \in SUBSET RunRow
    BY <1>5
  <2>3. actions' \in SUBSET ActionRow /\ UniqueIds(actions') /\ Bounded(actions')
    BY <1>2 DEF TablesInv, Consistent
  <2> QED BY <1>2, <1>4, <1>7, <1>8, <2>1, <2>2, <2>3 DEF Consistent
<1>10. done' \in [Runs -> Seq(States)] /\ \A o \in Runs : o # r => done'[o] = done[o]
  BY <1>2 DEF TablesInv, TypeOK
<1> QED BY <1>2, <1>9, <1>10, TablesEnds

LEMMA TablesCrash ==
    ASSUME TablesInv, NEW r \in Runs, Crash(r)
    PROVE  TablesInv'
<1>1. /\ runs' = runs /\ actions' = actions /\ done' = done /\ moments' = moments
      /\ Ends(r) /\ Alive(r) /\ UNCHANGED <<clocks, reader>>
  BY DEF Crash, tables
<1>2. Consistent(runs', actions', done', run) /\ done' \in [Runs -> Seq(States)]
  BY <1>1 DEF TablesInv, TypeOK
<1> QED BY <1>1, <1>2, TablesEnds

\* Whoever reads changes no table, and no clock does.
LEMMA TablesElsewhere ==
    ASSUME TablesInv, Tick \/ PutBack \/ ReadRuns \/ ReadActions \/ Report \/ UNCHANGED vars
    PROVE  TablesInv'
<1>1. runs' = runs /\ actions' = actions /\ done' = done /\ run' = run /\ later' = later
  BY DEF Tick, PutBack, ReadRuns, ReadActions, Report, vars, tables, past
<1>2. Consistent(runs', actions', done', run') /\ Working(done', run')
  BY <1>1 DEF TablesInv
<1>3. wall' \in 0..MaxClock /\ back' \in 0..MaxBack
  <2>1. wall \in 0..MaxClock /\ back \in 0..MaxBack
    BY DEF TablesInv, TypeOK
  <2>2. CASE Tick
    BY <2>1, <2>2 DEF Tick
  <2>3. CASE PutBack
    BY <2>1, <2>3 DEF PutBack
  <2>4. CASE UNCHANGED clocks
    BY <2>1, <2>4 DEF clocks
  <2> QED BY <2>2, <2>3, <2>4 DEF ReadRuns, ReadActions, Report, vars
<1>4. reader' \in Reader
  <2>1. CASE ReadRuns
    BY <2>1 DEF ReadRuns, TablesInv, TypeOK, Reader
  <2>2. CASE ReadActions
    <3>1. PICK row \in reader.rows :
             reader' = [reader EXCEPT
                          !.rows = @ \ {row},
                          !.shown = {[run |-> row.run, result |-> row.result,
                                      states |-> StatesOf(row.run, actions)]}]
      BY <2>2 DEF ReadActions
    <3>2. row \in RunRow /\ reader \in Reader
      BY DEF TablesInv, TypeOK, Reader
    <3>3. StatesOf(row.run, actions) \in Seq(States)
      BY <3>2, StatesType DEF TablesInv, TypeOK, RunRow
    <3>4. [run |-> row.run, result |-> row.result,
           states |-> StatesOf(row.run, actions)] \in Account
      BY <3>2, <3>3 DEF RunRow, Account
    <3> QED BY <3>1, <3>2, <3>4 DEF Reader
  <2>3. CASE Report
    BY <2>3 DEF Report, Idle, Reader
  <2>4. CASE Tick \/ PutBack \/ UNCHANGED vars
    BY <2>4 DEF Tick, PutBack, vars, TablesInv, TypeOK
  <2> QED BY <2>1, <2>2, <2>3, <2>4
<1>5. moments' \in SUBSET Account
  <2>1. CASE ReadRuns
    <3>1. SeenNow \in SUBSET Account
      BY SeenNowIsSeenIn, SeenInType DEF TablesInv, TypeOK
    <3> QED BY <2>1, <3>1 DEF ReadRuns
  <2>2. CASE ~ReadRuns
    BY <2>2 DEF Tick, PutBack, ReadActions, Report, vars, past, TablesInv, TypeOK
  <2> QED BY <2>1, <2>2
<1>6. TypeOK'
  BY <1>1, <1>3, <1>4, <1>5 DEF TablesInv, TypeOK
<1> QED BY <1>2, <1>6 DEF TablesInv

LEMMA TablesInit == Init => TablesInv
<1> SUFFICES ASSUME Init PROVE TablesInv
  OBVIOUS
<1>1. Cardinality(runs) = 0 /\ IsFiniteSet(runs)
  BY FS_EmptySet DEF Init
<1>2. TypeOK
  BY DEF Init, TypeOK, Process, Reader, Idle
<1>3. Consistent(runs, actions, done, run)
  <2>1. Bounded(actions) /\ UniqueIds(actions) /\ Owned(actions, runs) /\ Apart(runs)
    BY 0 \in Nat DEF Init, Bounded, UniqueIds, Owned, Apart
  <2> QED BY <1>1, <2>1 DEF Init, Consistent
<1>4. Working(done, run)
  BY DEF Init, Working
<1> QED BY <1>2, <1>3, <1>4 DEF TablesInv

LEMMA TablesStep ==
    ASSUME TablesInv, [Next \/ PutBack]_vars
    PROVE  TablesInv'
<1>1. ASSUME NEW r \in Runs, RunStep(r) PROVE TablesInv'
  BY <1>1, TablesBegin, TablesPlan, TablesAdvance, TablesFinish, TablesCrash DEF RunStep
<1> QED BY <1>1, TablesElsewhere DEF Next

LEMMA TablesSafe == PutBackSpec => []TablesInv
  BY TablesInit, TablesStep, PTL DEF PutBackSpec

LEMMA PutBackMore == Spec => PutBackSpec
<1>1. [Next]_vars => [Next \/ PutBack]_vars
  OBVIOUS
<1> QED BY <1>1, PTL DEF Spec, PutBackSpec

\* What there is in the tables and in the process has its type, whatever the clock does:
\* in particular the states read back of any run, there or deleted, are a sequence.
THEOREM TypeCorrect == PutBackSpec => []TypeOK
<1>1. TablesInv => TypeOK
  BY DEF TablesInv
<1> QED BY <1>1, TablesSafe, PTL

\* The ledger never holds more runs than MAX_DETAILED_RUNS, and every action row is the
\* only one of its number, the only one of its place and not without its run: after each
\* begin_run, record_planned_action and UPDATE of any number of runs side by side, and
\* with a clock that is put back.
THEOREM TablesSound == PutBackSpec => []Sound
<1>1. TablesInv => Sound
  <2> SUFFICES ASSUME TablesInv PROVE Sound
    OBVIOUS
  <2>1. ASSUME NEW a \in actions, NEW b \in actions, a.run = b.run, a.sequence = b.sequence
        PROVE  a = b
    <3>1. PICK row \in runs : row.run = a.run
      BY DEF TablesInv, Consistent, Owned
    <3>2. Numbered(a.run, actions, done[a.run])
      BY <3>1 DEF TablesInv, Consistent
    <3> QED BY <2>1, <3>2 DEF Numbered, RowsOf
  <2> QED BY <2>1 DEF TablesInv, Consistent, UniqueIds, Owned, Sound
<1> QED BY <1>1, TablesSafe, PTL

\* The same of the clock that is not put back.
THEOREM TypeCorrectAlways == Spec => []TypeOK
  BY TypeCorrect, PutBackMore, PTL

\* The same of the clock that is not put back.
THEOREM TablesSoundAlways == Spec => []Sound
  BY TablesSound, PutBackMore, PTL

-----------------------------------------------------------------------------
(* What retention keeps.                                                   *)

LEMMA SinceType ==
    ASSUME TablesInv, NEW row
    PROVE  Since(row) \in Nat /\ IsFiniteSet({b \in runs : Newer(b, row)})
<1>1. IsFiniteSet(runs) /\ {b \in runs : Newer(b, row)} \in SUBSET runs
  BY DEF TablesInv, Consistent
<1>2. IsFiniteSet({b \in runs : Newer(b, row)})
  BY <1>1, FS_Subset
<1> QED BY <1>2, FS_CardinalityType DEF Since

\* A live run keeps its place as long as its row does.
LEMMA PlacedSame ==
    ASSUME NEW r \in Runs, Placed(r), runs' = runs,
           Alive(r)' => Alive(r) /\ later'[r] = later[r]
    PROVE  Placed(r)'
  BY DEF Placed, Since

LEMMA HeldSame ==
    ASSUME NEW r \in Runs, Held(r), actions' = actions, run'[r] = run[r], done'[r] = done[r]
    PROVE  Held(r)'
  BY DEF Held

LEMMA LiveIsRecorded ==
    ASSUME NEW r \in Runs, Placed(r), Alive(r)
    PROVE  Recorded(r)
  BY DEF Placed, Recorded

LEMMA KeptBegin ==
    ASSUME Few, TablesInv, TablesInv', KeptInv, NEW r \in Runs, Begin(r)
    PROVE  KeptInv'
<1> DEFINE new == [run |-> r, started |-> wall, result |-> "open"]
           all == runs \cup {new}
<1>1. /\ runs \in SUBSET RunRow /\ IsFiniteSet(runs) /\ wall \in Nat
      /\ run \in [Runs -> Process] /\ later \in [Runs -> 0..MaxWhileRunning]
  BY DEF TablesInv, Consistent, TypeOK
<1>2. new.run = r /\ new.started = wall /\ new.result = "open" /\ new \in RunRow
  BY <1>1 DEF RunRow, Results
<1>3. /\ runs' = Newest(all) /\ wall' = wall /\ done' = done /\ ~Alive(r)
      /\ \A o \in Runs : Alive(o) => later[o] < MaxWhileRunning
      /\ \A o \in Runs : o # r => run'[o] = run[o]
      /\ \A o \in Runs : later'[o] = IF Alive(o) THEN later[o] + 1 ELSE later[o]
      /\ run'[r].pc = "begun"
  BY <1>1 DEF Begin, Pruned, Newest, clocks, Alive, Process
<1> HIDE DEF new
<1>4. \A row \in runs' : row.started <= wall'
  <2>1. runs' \subseteq all
    BY <1>3 DEF Newest
  <2> QED BY <1>1, <1>2, <1>3, <2>1 DEF KeptInv
<1>5. Placed(r)'
  <2>1. {b \in all : Newer(b, new)} = {}
    BY <1>1, <1>2 DEF KeptInv, Newer, RunRow
  <2>2. Cardinality({b \in all : Newer(b, new)}) = 0
    BY <2>1, FS_EmptySet
  <2>3. PICK row : row = new
    OBVIOUS
  <2>4. row \in runs' /\ row.run = r /\ row.result = "open"
    BY <1>2, <1>3, <2>2, <2>3 DEF Newest
  <2>5. {b \in runs' : Newer(b, row)} = {}
    BY <1>3, <2>1, <2>3 DEF Newest
  <2>6. Since(row)' = 0
    <3>1. Cardinality({b \in runs' : Newer(b, row)}) = 0
      BY <2>5, FS_EmptySet
    <3> QED BY <3>1 DEF Since
  <2>7. later'[r] \in Nat
    BY <1>1, <1>3
  <2> QED BY <2>4, <2>6, <2>7 DEF Placed
<1>6. ASSUME NEW o \in Runs, o # r PROVE Placed(o)'
  <2> SUFFICES ASSUME Alive(o)' PROVE Placed(o)'
    BY DEF Placed
  <2>1. Alive(o) /\ later'[o] = later[o] + 1 /\ later[o] \in Nat /\ later[o] + 1 < Retained
    BY <1>1, <1>3, <1>6 DEF Alive, Few
  <2>2. PICK row \in runs : row.run = o /\ row.result = "open" /\ Since(row) <= later[o]
    BY <2>1 DEF KeptInv, Placed
  <2> DEFINE before == {b \in runs : Newer(b, row)}
             after == {b \in all : Newer(b, row)}
  <2>3. IsFiniteSet(before) /\ Cardinality(before) \in Nat /\ Cardinality(before) <= later[o]
    BY <2>2, SinceType DEF Since
  <2>4. IsFiniteSet(before \cup {new}) /\ Cardinality(before \cup {new}) <= later[o] + 1
    <3> HIDE DEF before
    <3>1. /\ IsFiniteSet(before \cup {new})
          /\ Cardinality(before \cup {new}) =
                IF new \in before THEN Cardinality(before) ELSE Cardinality(before) + 1
      BY <2>3, FS_AddElement
    <3> QED BY <2>1, <2>3, <3>1
  <2>5. /\ IsFiniteSet(after) /\ Cardinality(after) \in Nat
        /\ Cardinality(after) <= Cardinality(before \cup {new})
    <3>1. after \in SUBSET (before \cup {new})
      OBVIOUS
    <3> HIDE DEF before, after
    <3> QED BY <2>4, <3>1, FS_Subset, FS_CardinalityType
  <2>6. Cardinality(before \cup {new}) \in Nat
    <3> HIDE DEF before
    <3> QED BY <2>4, FS_CardinalityType
  <2>7. Cardinality(after) < Retained /\ Cardinality(after) <= later'[o]
    <3> HIDE DEF before, after
    <3> QED BY <2>1, <2>4, <2>5, <2>6
  <2>8. row \in runs'
    BY <1>3, <2>7 DEF Newest
  <2>9. Since(row)' <= later'[o]
    <3> DEFINE now == {b \in runs' : Newer(b, row)}
    <3>1. now \in SUBSET after /\ Since(row)' = Cardinality(now)
      BY <1>3 DEF Newest, Since
    <3>2. Cardinality(now) <= Cardinality(after) /\ Cardinality(now) \in Nat
      <4> HIDE DEF now, after
      <4> QED BY <2>5, <3>1, FS_Subset, FS_CardinalityType
    <3> HIDE DEF now, after
    <3> QED BY <2>1, <2>5, <2>7, <3>1, <3>2
  <2> QED BY <2>2, <2>8, <2>9 DEF Placed
<1>7. ASSUME NEW o \in Runs PROVE Held(o)'
  <2> SUFFICES ASSUME run'[o].pc = "acting" PROVE Held(o)'
    BY DEF Held
  <2>1. o # r /\ run'[o] = run[o] /\ Alive(o)'
    BY <1>3 DEF Alive
  <2>2. PICK a \in actions : a.id = run[o].id /\ a.run = o /\ a.sequence = Len(done[o])
    BY <2>1 DEF KeptInv, Held
  <2>3. a \in actions'
    <3>1. PICK row \in runs' : row.run = o
      BY <1>6, <2>1 DEF Placed
    <3>2. actions' = {x \in actions : \E y \in runs' : y.run = x.run}
      BY DEF Begin
    <3> QED BY <2>2, <3>1, <3>2
  <2> QED BY <1>3, <2>1, <2>2, <2>3 DEF Held
<1>8. RowsTellTheTruth'
  <2>1. actions' \subseteq actions
    BY DEF Begin
  <2> QED BY <1>3, <2>1 DEF KeptInv, RowsTellTheTruth
<1> QED BY <1>4, <1>5, <1>6, <1>7, <1>8 DEF KeptInv

LEMMA KeptPlan ==
    ASSUME TablesInv, KeptInv, NEW r \in Runs, PlanAction(r)
    PROVE  KeptInv'
<1> DEFINE n == Len(done[r])
           new == [id |-> NextId(actions), run |-> r, sequence |-> n + 1, state |-> "PLANNED"]
<1>1. /\ actions \in SUBSET ActionRow /\ done \in [Runs -> Seq(States)]
      /\ run \in [Runs -> Process] /\ n \in Nat
  BY DEF TablesInv, TypeOK
<1>2. Alive(r) /\ Recorded(r)
  BY LiveIsRecorded DEF PlanAction, Alive, KeptInv
<1>3. /\ actions' = actions \cup {new}
      /\ run' = [run EXCEPT ![r] = [pc |-> "acting", id |-> NextId(actions)]]
      /\ done' = [done EXCEPT ![r] = Append(done[r], "PLANNED")]
      /\ later' = later /\ runs' = runs /\ wall' = wall
  BY <1>2 DEF PlanAction, clocks
<1>4. /\ Len(done'[r]) = n + 1 /\ done'[r][n + 1] = "PLANNED"
      /\ \A i \in 1..n : done'[r][i] = done[r][i]
      /\ \A o \in Runs : o # r => done'[o] = done[o]
  <2>1. done[r] \in Seq(States)
    BY <1>1
  <2>2. done'[r] = Append(done[r], "PLANNED") /\ \A o \in Runs : o # r => done'[o] = done[o]
    BY <1>1, <1>3
  <2> QED BY <2>1, <2>2
<1>5. /\ run'[r].pc = "acting" /\ run'[r].id = NextId(actions)
      /\ \A o \in Runs : o # r => run'[o] = run[o]
  BY <1>1, <1>3
<1>6. /\ new \in actions' /\ new.id = NextId(actions) /\ new.run = r /\ new.sequence = n + 1
      /\ new.state = "PLANNED" /\ \A a \in actions' : a = new \/ a \in actions
  BY <1>3
<1> HIDE DEF new, n
<1>7. ASSUME NEW o \in Runs PROVE Placed(o)' /\ Held(o)'
  <2>1. Placed(o) /\ Held(o)
    BY DEF KeptInv
  <2>2. CASE o = r
    BY <1>2, <1>3, <1>4, <1>5, <1>6, <2>1, <2>2, PlacedSame DEF Held
  <2>3. CASE o # r
    <3>1. Placed(o)'
      BY <1>3, <1>5, <2>1, <2>3, PlacedSame DEF Alive
    <3>2. Held(o)'
      BY <1>3, <1>4, <1>5, <2>1, <2>3 DEF Held
    <3> QED BY <3>1, <3>2
  <2> QED BY <2>2, <2>3
<1>8. ASSUME NEW a \in actions'
      PROVE  a.sequence <= Len(done'[a.run]) /\ a.state = done'[a.run][a.sequence]
  <2>1. CASE a = new
    BY <1>1, <1>4, <1>6, <2>1
  <2>2. CASE a # new /\ a.run # r
    BY <1>1, <1>4, <1>6, <2>2 DEF KeptInv, RowsTellTheTruth, ActionRow
  <2>3. CASE a # new /\ a.run = r
    <3>1. a \in actions /\ a.sequence <= n /\ a.state = done[r][a.sequence]
      BY <1>6, <2>3 DEF KeptInv, RowsTellTheTruth, n
    <3>2. a.sequence \in 1..n
      <4>1. Numbered(r, actions, done[r]) /\ a \in RowsOf(r, actions)
        BY <1>2, <2>3, <3>1 DEF TablesInv, Consistent, Recorded, RowsOf
      <4> QED BY <4>1 DEF Numbered, n
    <3> QED BY <1>1, <1>4, <2>3, <3>1, <3>2
  <2> QED BY <2>1, <2>2, <2>3
<1>9. \A row \in runs' : row.started <= wall'
  BY <1>3 DEF KeptInv
<1> QED BY <1>7, <1>8, <1>9 DEF KeptInv, RowsTellTheTruth

\* The update finds the run's own row, its last.
LEMMA KeptAdvance ==
    ASSUME TablesInv, KeptInv, NEW r \in Runs, AdvanceAction(r)
    PROVE  KeptInv'
<1> DEFINE n == Len(done[r])
           id == run[r].id
<1>1. PICK state \in States : Write(r, state)
  BY SuccessorsType DEF AdvanceAction
<1>2. /\ run[r].pc = "acting" /\ Alive(r) /\ UNCHANGED clocks /\ runs' = runs
      /\ actions \in SUBSET ActionRow /\ run \in [Runs -> Process] /\ UniqueIds(actions)
      /\ done \in [Runs -> Seq(States)]
  BY DEF AdvanceAction, Alive, TablesInv, TypeOK, Consistent
<1>3. PICK mine \in actions : mine.id = id /\ mine.run = r /\ mine.sequence = n
  BY <1>2 DEF KeptInv, Held
<1>4. id \in Ids(actions)
  BY <1>3 DEF Ids
<1>5. /\ actions' = Updated(id, state) /\ run' = [run EXCEPT ![r] = InHand(r, state)]
      /\ later' = later /\ done' = [done EXCEPT ![r][n] = state]
  BY <1>1, <1>4 DEF Write
<1>6. /\ Len(done'[r]) = n /\ n \in Nat \ {0} /\ done'[r][n] = state
      /\ \A i \in 1..n : i # n => done'[r][i] = done[r][i]
      /\ \A o \in Runs : o # r => done'[o] = done[o]
  BY <1>2, <1>5, LastChanged
<1>7. /\ run'[r].pc \in {"begun", "acting"} /\ run'[r].pc = "acting" => run'[r].id = id
      /\ \A o \in Runs : o # r => run'[o] = run[o]
  <2>1. InHand(r, state).pc \in {"begun", "acting"}
    BY <1>2 DEF InHand, Process
  <2>2. InHand(r, state).pc = "acting" => InHand(r, state).id = id
    BY <1>2 DEF InHand, Process
  <2> QED BY <1>2, <1>5, <2>1, <2>2
<1>8. actions' = {Up(a, id, state) : a \in actions}
  BY <1>2, <1>5, UpdatedRows
<1> HIDE DEF id, n
<1>9. ASSUME NEW a \in actions
      PROVE  \E b \in actions' : b.id = a.id /\ b.run = a.run /\ b.sequence = a.sequence
  BY <1>2, <1>8, UpRow
<1>10. ASSUME NEW o \in Runs PROVE Placed(o)'
  <2>1. Alive(o)' => Alive(o)
    BY <1>2, <1>7 DEF Alive
  <2> QED BY <1>2, <1>5, <2>1, PlacedSame DEF KeptInv
<1>11. ASSUME NEW o \in Runs PROVE Held(o)'
  <2>1. CASE o = r
    BY <1>3, <1>6, <1>7, <1>9, <2>1 DEF Held, n
  <2>2. CASE o # r
    <3> SUFFICES ASSUME run'[o].pc = "acting" PROVE Held(o)'
      BY DEF Held
    <3>1. PICK a \in actions : a.id = run[o].id /\ a.run = o /\ a.sequence = Len(done[o])
      BY <1>7, <2>2 DEF KeptInv, Held
    <3>2. PICK b \in actions' : b.id = a.id /\ b.run = a.run /\ b.sequence = a.sequence
      BY <1>9
    <3>3. done'[o] = done[o] /\ run'[o] = run[o]
      BY <1>6, <1>7, <2>2
    <3> QED BY <3>1, <3>2, <3>3 DEF Held
  <2> QED BY <2>1, <2>2
<1>12. ASSUME NEW b \in actions'
       PROVE  b.sequence <= Len(done'[b.run]) /\ b.state = done'[b.run][b.sequence]
  <2>1. PICK a \in actions : b = Up(a, id, state)
    BY <1>8
  <2>2. /\ b.run = a.run /\ b.sequence = a.sequence /\ a.run \in Runs
        /\ b.state = IF a.id = id THEN state ELSE a.state
    BY <1>2, <2>1, UpRow DEF ActionRow
  <2>3. a.sequence <= Len(done[a.run]) /\ a.state = done[a.run][a.sequence]
    BY DEF KeptInv, RowsTellTheTruth
  <2>4. CASE a.id = id
    <3>1. a = mine
      BY <1>2, <1>3, <2>4 DEF UniqueIds
    <3> QED BY <1>3, <1>6, <2>2, <2>4, <3>1
  <2>5. CASE a.id # id /\ a.run = r
    <3>1. Recorded(r)
      BY <1>2, LiveIsRecorded DEF KeptInv
    <3>2. Numbered(r, actions, done[r])
      BY <3>1 DEF TablesInv, Consistent, Recorded
    <3>3. a \in RowsOf(r, actions) /\ mine \in RowsOf(r, actions)
      BY <1>3, <2>5 DEF RowsOf
    <3>4. a.sequence \in 1..n /\ a.sequence # n
      BY <1>3, <2>5, <3>2, <3>3 DEF Numbered, n
    <3> QED BY <1>6, <2>2, <2>3, <2>5, <3>4
  <2>6. CASE a.run # r /\ a.id # id
    BY <1>6, <2>2, <2>3, <2>6
  <2>7. a.run = r \/ a.id # id
    BY <1>2, <1>3 DEF UniqueIds
  <2> QED BY <2>4, <2>5, <2>6, <2>7
<1>13. \A row \in runs' : row.started <= wall'
  BY <1>2 DEF KeptInv, clocks
<1> QED BY <1>10, <1>11, <1>12, <1>13 DEF KeptInv, RowsTellTheTruth

LEMMA KeptFinish ==
    ASSUME TablesInv, KeptInv, NEW r \in Runs, FinishRun(r)
    PROVE  KeptInv'
<1> DEFINE With(row) == IF row.run = r THEN [row EXCEPT !.result = "result"] ELSE row
<1>1. /\ runs' = {With(row) : row \in runs} /\ wall' = wall
      /\ actions' = actions /\ done' = done
      /\ ~Alive(r)' /\ runs \in SUBSET RunRow /\ run'[r].pc = "ended"
      /\ \A o \in Runs : o # r => run'[o] = run[o] /\ later'[o] = later[o]
  BY EndsType DEF FinishRun, clocks, TablesInv, TypeOK, Ends, Alive
<1>2. \A row \in runs : With(row).started = row.started
  BY <1>1 DEF RunRow
<1>3. ASSUME NEW o \in Runs PROVE Placed(o)'
  <2> SUFFICES ASSUME Alive(o)' PROVE Placed(o)'
    BY DEF Placed
  <2>1. o # r /\ Alive(o) /\ later'[o] = later[o] /\ later[o] \in Nat
    BY <1>1 DEF Alive, TablesInv, TypeOK
  <2>2. PICK row \in runs : row.run = o /\ row.result = "open" /\ Since(row) <= later[o]
    BY <2>1 DEF KeptInv, Placed
  <2>3. row \in runs'
    BY <1>1, <2>1, <2>2
  <2> DEFINE before == {b \in runs : Newer(b, row)}
             after == {b \in runs' : Newer(b, row)}
             f == [b \in before |-> With(b)]
  <2>4. f \in Surjection(before, after)
    <3>1. ASSUME NEW b \in before PROVE With(b) \in after
      BY <1>1, <1>2 DEF Newer
    <3>2. ASSUME NEW c \in after PROVE \E b \in before : With(b) = c
      BY <1>1, <1>2 DEF Newer
    <3>3. f \in [before -> after] /\ \A c \in after : \E b \in before : f[b] = c
      <4> HIDE DEF before, after, With
      <4> QED BY <3>1, <3>2
    <3> HIDE DEF f, before, after
    <3> QED BY <3>3 DEF Surjection
  <2>5. /\ IsFiniteSet(before) /\ Since(row) = Cardinality(before) /\ Since(row) \in Nat
        /\ Since(row)' = Cardinality(after)
    BY SinceType DEF Since
  <2>6. IsFiniteSet(after) /\ Cardinality(after) <= Cardinality(before)
    <3> HIDE DEF f, before, after
    <3> QED BY <2>4, <2>5, FS_Surjection
  <2>7. Cardinality(after) \in Nat
    <3> HIDE DEF after
    <3> QED BY <2>6, FS_CardinalityType
  <2>8. Since(row)' <= later'[o]
    <3> HIDE DEF f, before, after
    <3> QED BY <2>1, <2>2, <2>5, <2>6, <2>7
  <2> QED BY <2>2, <2>3, <2>8 DEF Placed
<1>4. ASSUME NEW o \in Runs PROVE Held(o)'
  <2>1. CASE o = r
    BY <1>1, <2>1 DEF Held
  <2>2. CASE o # r
    BY <1>1, <2>2, HeldSame DEF KeptInv
  <2> QED BY <2>1, <2>2
<1>5. RowsTellTheTruth'
  BY <1>1 DEF KeptInv, RowsTellTheTruth
<1>6. \A row \in runs' : row.started <= wall'
  BY <1>1, <1>2 DEF KeptInv
<1> QED BY <1>3, <1>4, <1>5, <1>6 DEF KeptInv

LEMMA KeptElsewhere ==
    ASSUME TablesInv, KeptInv,
           \/ \E r \in Runs : Crash(r)
           \/ Tick \/ ReadRuns \/ ReadActions \/ Report \/ UNCHANGED vars
    PROVE  KeptInv'
<1>1. runs' = runs /\ actions' = actions /\ done' = done
  BY DEF Crash, Tick, ReadRuns, ReadActions, Report, vars, tables, past
<1>2. wall \in Nat /\ wall' \in Nat /\ wall <= wall'
  <2>1. wall \in Nat
    BY DEF TablesInv, TypeOK
  <2>2. CASE Tick
    BY <2>1, <2>2 DEF Tick
  <2>3. CASE ~Tick
    <3>1. UNCHANGED clocks
      BY <2>3 DEF Crash, ReadRuns, ReadActions, Report, vars
    <3> QED BY <2>1, <3>1 DEF clocks
  <2> QED BY <2>2, <2>3
<1>3. ASSUME NEW o \in Runs
      PROVE  (run'[o] = run[o] /\ later'[o] = later[o]) \/ run'[o].pc = "ended"
  <2>1. CASE \E r \in Runs : Crash(r)
    BY <2>1 DEF Crash, Ends, TablesInv, TypeOK
  <2>2. CASE ~ \E r \in Runs : Crash(r)
    BY <2>2 DEF Tick, ReadRuns, ReadActions, Report, vars, past
  <2> QED BY <2>1, <2>2
<1>4. ASSUME NEW o \in Runs PROVE Placed(o)' /\ Held(o)'
  <2>1. Placed(o)'
    BY <1>1, <1>3, PlacedSame DEF KeptInv, Alive
  <2>2. Held(o)'
    BY <1>1, <1>3 DEF KeptInv, Held
  <2> QED BY <2>1, <2>2
<1>5. RowsTellTheTruth'
  BY <1>1 DEF KeptInv, RowsTellTheTruth
<1>6. \A row \in runs' : row.started <= wall'
  BY <1>1, <1>2 DEF KeptInv, TablesInv, TypeOK, RunRow
<1> QED BY <1>4, <1>5, <1>6 DEF KeptInv

LEMMA KeptInit == Init => KeptInv
  BY DEF Init, KeptInv, Placed, Held, Alive, RowsTellTheTruth

LEMMA KeptStep ==
    ASSUME Few, TablesInv, TablesInv', KeptInv, [Next]_vars
    PROVE  KeptInv'
<1>1. ASSUME NEW r \in Runs, RunStep(r) PROVE KeptInv'
  BY <1>1, KeptBegin, KeptPlan, KeptAdvance, KeptFinish, KeptElsewhere DEF RunStep
<1> QED BY <1>1, KeptElsewhere DEF Next

LEMMA KeptSafe ==
    ASSUME Few
    PROVE  Spec => [](TablesInv /\ KeptInv)
<1>1. Init => KeptInv
  BY KeptInit
<1>2. TablesInv /\ TablesInv' /\ KeptInv /\ [Next]_vars => KeptInv'
  BY KeptStep
<1> QED BY <1>1, <1>2, TablesSafe, PutBackMore, PTL DEF Spec

\* As long as fewer runs begin beside a run than MAX_DETAILED_RUNS, no row of run_actions
\* says more or anything else of an action than the run that planned it did: the UPDATE
\* by number finds the run's own row, although numbers of deleted rows are given away
\* again.
THEOREM RowsAreTrue ==
    ASSUME Few
    PROVE  Spec => []RowsTellTheTruth
<1>1. KeptInv => RowsTellTheTruth
  BY DEF KeptInv
<1> QED BY <1>1, KeptSafe, PTL

\* Under the same condition a run that is at work finds its row and all its actions in
\* the ledger, with the states it gave them: no begin_run of another volume deletes them.
THEOREM LiveRunsAreKept ==
    ASSUME Few
    PROVE  Spec => []LiveRunsKept
<1>1. TablesInv /\ KeptInv => LiveRunsKept
  <2> SUFFICES ASSUME TablesInv, KeptInv, NEW r \in Runs, Alive(r)
               PROVE  Recorded(r) /\ StatesOf(r, actions) = done[r]
    BY DEF LiveRunsKept
  <2>1. Recorded(r)
    BY LiveIsRecorded DEF KeptInv
  <2>2. /\ Numbered(r, actions, done[r]) /\ actions \in SUBSET ActionRow
        /\ done[r] \in Seq(States) /\ Len(done[r]) \in Nat
    BY <2>1 DEF TablesInv, TypeOK, Consistent, Recorded
  <2>3. /\ StatesOf(r, actions) \in Seq(States)
        /\ Len(StatesOf(r, actions)) = Len(done[r])
        /\ \A a \in RowsOf(r, actions) : StatesOf(r, actions)[a.sequence] = a.state
    BY <2>2, StatesOfNumbered
  <2>4. ASSUME NEW i \in 1..Len(done[r]) PROVE StatesOf(r, actions)[i] = done[r][i]
    <3>1. PICK a \in RowsOf(r, actions) : a.sequence = i
      BY <2>2 DEF Numbered
    <3> QED BY <2>3, <3>1 DEF RowsOf, KeptInv, RowsTellTheTruth
  <2> QED BY <2>1, <2>2, <2>3, <2>4
<1> QED BY <1>1, KeptSafe, PTL

-----------------------------------------------------------------------------
(* What `history` shows.                                                   *)

\* What is said of a run depends on its rows only.
LEMMA SameRowsSameStates ==
    ASSUME NEW r, NEW old, NEW new, RowsOf(r, new) = RowsOf(r, old)
    PROVE  StatesOf(r, new) = StatesOf(r, old)
  BY DEF StatesOf

\* There is one row of a run.
LEMMA RowOfRun ==
    ASSUME TablesInv, NEW row \in runs
    PROVE  Row(row.run) = row /\ row.run \in Runs /\ Recorded(row.run)
<1>1. Row(row.run) \in runs /\ Row(row.run).run = row.run
  BY DEF Row
<1> QED BY <1>1 DEF TablesInv, Consistent, Apart, RunRow, Recorded

\* What the tables say of a run that is live after a step is among what they say then.
LEMMA LiveIsSeen ==
    ASSUME TablesInv', KeptInv', NEW r \in Runs, Alive(r)'
    PROVE  [run |-> r, result |-> "open", states |-> StatesOf(r, actions')] \in SeenNow'
<1>1. PICK row \in runs' : row.run = r /\ row.result = "open"
  BY DEF KeptInv, Placed
<1>2. Row(r)' \in runs' /\ Row(r)'.run = r
  BY <1>1 DEF Row
<1>3. Row(r)' = row /\ Recorded(r)'
  BY <1>1, <1>2 DEF TablesInv, Consistent, Apart, Recorded
<1> QED BY <1>1, <1>3 DEF SeenNow, Seen

\* What a step does to a run that has begun: only its own steps change what the tables
\* say of it, and those are watched.
LEMMA BegunRun ==
    ASSUME TablesInv, KeptInv, NEW r \in Runs, RunStep(r), NEW o \in Runs, run[o].pc # "idle"
    PROVE  /\ run'[o].pc # "idle"
           /\ Alive(o)' => Alive(o)
           /\ Recorded(o)' => Recorded(o)
           /\ Recorded(o)' =>
                 \/ StatesOf(o, actions') = StatesOf(o, actions)
                 \/ Alive(o)' /\ Watched
           /\ reader' = reader /\ moments \subseteq moments'
<1>0. run \in [Runs -> Process] /\ runs \in SUBSET RunRow /\ actions \in SUBSET ActionRow
  BY DEF TablesInv, TypeOK
<1>1. reader' = reader
  BY DEF RunStep, Begin, PlanAction, AdvanceAction, FinishRun, Crash
<1>2. moments \subseteq moments'
  BY DEF RunStep, Begin, PlanAction, AdvanceAction, FinishRun, Crash, Watched
<1>3. CASE Begin(r)
  <2>1. o # r /\ run'[o] = run[o]
    BY <1>0, <1>3 DEF Begin
  <2>2. Recorded(o)' => Recorded(o)
    BY <1>3, <2>1 DEF Begin, Pruned, Newest, Recorded
  <2>3. ASSUME Recorded(o)' PROVE StatesOf(o, actions') = StatesOf(o, actions)
    <3>1. RowsOf(o, actions') = RowsOf(o, actions)
      BY <1>3, <2>3 DEF Begin, RowsOf, Recorded
    <3> QED BY <3>1, SameRowsSameStates
  <2> QED BY <1>1, <1>2, <2>1, <2>2, <2>3 DEF Alive
<1>4. CASE FinishRun(r) \/ Crash(r)
  <2>1. actions' = actions /\ Ends(r)
    BY <1>4 DEF FinishRun, Crash, tables
  <2>2. (run'[o] = run[o] \/ run'[o].pc = "ended")
    BY <1>0, <2>1 DEF Ends
  <2>3. Recorded(o)' => Recorded(o)
    <3>1. CASE FinishRun(r)
      <4>1. \A new \in runs' : \E row \in runs : new.run = row.run
        BY <1>0, <3>1 DEF FinishRun, RunRow
      <4> QED BY <4>1 DEF Recorded
    <3>2. CASE Crash(r)
      BY <3>2 DEF Crash, tables, Recorded
    <3> QED BY <1>4, <3>1, <3>2
  <2> QED BY <1>1, <1>2, <2>1, <2>2, <2>3 DEF Alive
<1>5. CASE PlanAction(r) \/ AdvanceAction(r)
  <2>1. runs' = runs /\ Watched /\ Alive(r)
    BY <1>5 DEF PlanAction, AdvanceAction, Alive
  <2>2. Recorded(o)' => Recorded(o)
    BY <2>1 DEF Recorded
  <2>3. CASE Ends(r) /\ actions' = actions
    BY <1>0, <1>1, <1>2, <2>2, <2>3 DEF Ends, Alive
  <2>4. CASE ~(Ends(r) /\ actions' = actions)
    <3>1. /\ run'[r].pc \in {"begun", "acting"}
          /\ \A x \in Runs : x # r => run'[x] = run[x] /\ RowsOf(x, actions') = RowsOf(x, actions)
      <4>1. CASE PlanAction(r)
        <5>1. /\ run' = [run EXCEPT ![r] = [pc |-> "acting", id |-> NextId(actions)]]
              /\ actions' = actions \cup {[id |-> NextId(actions), run |-> r,
                                           sequence |-> Len(done[r]) + 1, state |-> "PLANNED"]}
          BY <2>4, <4>1 DEF PlanAction
        <5>2. \A x \in Runs : x # r => RowsOf(x, actions') = RowsOf(x, actions)
          BY <5>1 DEF RowsOf
        <5> QED BY <1>0, <5>1, <5>2
      <4>2. CASE AdvanceAction(r)
        <5>1. PICK state \in States : Write(r, state)
          BY <4>2, SuccessorsType DEF AdvanceAction
        <5>2. /\ run[r].id \in Ids(actions) /\ actions' = Updated(run[r].id, state)
              /\ run' = [run EXCEPT ![r] = InHand(r, state)] /\ run[r].pc = "acting"
          BY <2>4, <4>2, <5>1 DEF Write, AdvanceAction
        <5>3. InHand(r, state).pc \in {"begun", "acting"}
          BY <1>0 DEF InHand, Process
        <5>4. PICK mine \in actions : mine.id = run[r].id /\ mine.run = r
          BY <5>2 DEF KeptInv, Held
        <5>5. ASSUME NEW x \in Runs, x # r PROVE RowsOf(x, actions') = RowsOf(x, actions)
          <6>1. actions' = {Up(a, run[r].id, state) : a \in actions}
            BY <1>0, <5>2, UpdatedRows
          <6>2. ASSUME NEW a \in actions, a.run = x PROVE Up(a, run[r].id, state) = a
            BY <5>4, <5>5, <6>2 DEF Up, TablesInv, Consistent, UniqueIds
          <6>3. \A a \in actions : Up(a, run[r].id, state).run = a.run
            BY <1>0, UpRow
          <6> QED BY <6>1, <6>2, <6>3 DEF RowsOf
        <5> QED BY <1>0, <5>2, <5>3, <5>5
      <4> QED BY <1>5, <4>1, <4>2
    <3>2. CASE o = r
      BY <1>1, <1>2, <2>1, <2>2, <3>1, <3>2 DEF Alive
    <3>3. CASE o # r
      BY <1>1, <1>2, <2>2, <3>1, <3>3, SameRowsSameStates DEF Alive
    <3> QED BY <3>2, <3>3
  <2> QED BY <2>3, <2>4
<1> QED BY <1>3, <1>4, <1>5 DEF RunStep

\* A run that is still to be read or is shown is told of as it was at one moment.
LEMMA ReaderRun ==
    ASSUME TablesInv, TablesInv', KeptInv, KeptInv', ReaderInv, NEW r \in Runs, RunStep(r)
    PROVE  ReaderInv'
<1>0. /\ reader.rows \subseteq RunRow /\ reader.shown \subseteq Account
      /\ reader.pc \in {"idle", "reading"}
  BY DEF TablesInv, TypeOK, Reader
<1>1. reader' = reader /\ moments \subseteq moments'
  BY DEF RunStep, Begin, PlanAction, AdvanceAction, FinishRun, Crash, Watched
<1>2. ASSUME NEW row \in reader.rows PROVE Pending(row)'
  <2> DEFINE o == row.run
  <2>1. o \in Runs /\ Pending(row) /\ reader.pc = "reading"
    BY <1>0 DEF RunRow, ReaderInv, Idle
  <2>2. /\ run'[o].pc # "idle"
        /\ Alive(o)' => Alive(o)
        /\ Recorded(o)' => Recorded(o)
        /\ Recorded(o)' =>
              \/ StatesOf(o, actions') = StatesOf(o, actions)
              \/ Alive(o)' /\ Watched
    BY <2>1, BegunRun DEF Pending
  <2>3. Alive(o)' => row.result = "open"
    BY <2>1, <2>2 DEF Pending
  <2>4. ASSUME Recorded(o)'
        PROVE  [run |-> o, result |-> row.result, states |-> StatesOf(o, actions')] \in moments'
    <3>1. CASE StatesOf(o, actions') = StatesOf(o, actions)
      BY <1>1, <2>1, <2>2, <2>4, <3>1 DEF Pending
    <3>2. CASE Alive(o)' /\ Watched
      <4>1. [run |-> o, result |-> "open", states |-> StatesOf(o, actions')] \in SeenNow'
        BY <2>1, <3>2, LiveIsSeen
      <4> QED BY <2>1, <2>3, <3>2, <4>1 DEF Watched
    <3> QED BY <2>2, <2>4, <3>1, <3>2
  <2> QED BY <2>2, <2>3, <2>4 DEF Pending
<1>3. ASSUME NEW s \in reader.shown PROVE Told(s)'
  <2>1. s.run \in Runs /\ Told(s)
    BY <1>0 DEF Account, ReaderInv
  <2>2. /\ run'[s.run].pc # "idle"
        /\ Recorded(s.run)' => Recorded(s.run)
    BY <2>1, BegunRun DEF Told
  <2> QED BY <1>1, <2>1, <2>2 DEF Told
<1> QED BY <1>1, <1>2, <1>3 DEF ReaderInv

LEMMA ReaderElsewhere ==
    ASSUME TablesInv, KeptInv, ReaderInv,
           Tick \/ ReadRuns \/ ReadActions \/ Report \/ UNCHANGED vars
    PROVE  ReaderInv'
<1>1. runs' = runs /\ actions' = actions /\ run' = run
  BY DEF Tick, ReadRuns, ReadActions, Report, vars, tables
<1>2. CASE Tick \/ UNCHANGED vars
  <2>1. reader' = reader /\ moments' = moments
    BY <1>2 DEF Tick, vars, past
  <2> QED BY <1>1, <2>1 DEF ReaderInv, Pending, Told, Alive, Recorded
<1>3. CASE ReadRuns
  <2>1. /\ reader'.rows = runs /\ reader'.shown = {} /\ reader'.pc = "reading"
        /\ moments' = SeenNow
    BY <1>3 DEF ReadRuns, ReaderInv, Idle
  <2>2. ASSUME NEW row \in runs PROVE Pending(row)'
    <3>1. Row(row.run) = row /\ row.run \in Runs /\ Recorded(row.run)
      BY RowOfRun
    <3>2. Seen(row.run) \in moments'
      BY <2>1, <3>1 DEF SeenNow
    <3>3. run[row.run].pc # "idle"
      BY DEF TablesInv, Consistent
    <3>4. Alive(row.run) => row.result = "open"
      <4> SUFFICES ASSUME Alive(row.run) PROVE row.result = "open"
        OBVIOUS
      <4>1. PICK own \in runs : own.run = row.run /\ own.result = "open"
        BY <3>1 DEF KeptInv, Placed
      <4> QED BY <4>1 DEF TablesInv, Consistent, Apart
    <3> QED BY <1>1, <3>1, <3>2, <3>3, <3>4 DEF Pending, Alive, Seen
  <2> QED BY <2>1, <2>2 DEF ReaderInv
<1>4. CASE ReadActions
  <2>1. PICK row \in reader.rows :
           reader' = [reader EXCEPT
                        !.rows = @ \ {row},
                        !.shown = {[run |-> row.run, result |-> row.result,
                                    states |-> StatesOf(row.run, actions)]}]
    BY <1>4 DEF ReadActions
  <2> DEFINE s == [run |-> row.run, result |-> row.result, states |-> StatesOf(row.run, actions)]
  <2>2. /\ reader'.rows \subseteq reader.rows /\ reader'.shown = {s} /\ reader'.pc = "reading"
        /\ moments' = moments
    BY <1>4, <2>1 DEF ReadActions, past, TablesInv, TypeOK, Reader
  <2>3. Told(s)
    <3>1. Pending(row)
      BY DEF ReaderInv
    <3>2. ASSUME ~Recorded(row.run) PROVE s.states = << >>
      <4>1. RowsOf(row.run, actions) = {}
        BY <3>2 DEF TablesInv, Consistent, Owned, RowsOf, Recorded
      <4> QED BY <4>1, StatesOfNone
    <3> QED BY <3>1, <3>2 DEF Pending, Told
  <2>4. \A told \in reader'.shown : Told(told)'
    <3>1. s' = s
      BY <1>1
    <3> HIDE DEF s
    <3> QED BY <1>1, <2>2, <2>3, <3>1 DEF Told, Recorded
  <2>5. \A other \in reader'.rows : Pending(other)'
    BY <1>1, <2>2 DEF ReaderInv, Pending, Alive, Recorded
  <2> QED BY <2>2, <2>4, <2>5 DEF ReaderInv
<1>5. CASE Report
  BY <1>5 DEF Report, ReaderInv, Idle
<1> QED BY <1>2, <1>3, <1>4, <1>5

LEMMA ReaderInit == Init => ReaderInv
  BY DEF Init, ReaderInv, Idle

LEMMA ReaderStep ==
    ASSUME TablesInv, TablesInv', KeptInv, KeptInv', ReaderInv, [Next]_vars
    PROVE  ReaderInv'
  BY ReaderRun, ReaderElsewhere DEF Next

\* Under the same condition `history` shows every run as the ledger said it at one
\* moment while it was read, although it reads the runs and the actions of each of them
\* one after the other and in no transaction; a run deleted in between is shown without
\* actions.
THEOREM HistoryShowsMoments ==
    ASSUME Few
    PROVE  Spec => []ShownIsAMoment
<1>1. Init => ReaderInv
  BY ReaderInit
<1>2. /\ TablesInv /\ KeptInv /\ (TablesInv /\ KeptInv)' /\ ReaderInv /\ [Next]_vars
      => ReaderInv'
  BY ReaderStep
<1>3. ReaderInv => ShownIsAMoment
  BY DEF ReaderInv, Told, ShownIsAMoment
<1> QED BY <1>1, <1>2, <1>3, KeptSafe, PTL DEF Spec
=============================================================================
