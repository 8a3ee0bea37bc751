---------------------------- MODULE Ledger_proofs ----------------------------
(***************************************************************************)
(* What the ledger guarantees for any number of scans, paths, directories  *)
(* and exclusion reasons, whatever the file system does meanwhile.         *)
(*                                                                         *)
(* No property here is inductive as it stands: a transaction works on its  *)
(* own copy of the table, so IInv says of that copy what the properties    *)
(* say of the table, and that the copy still tells all the table told when *)
(* the transaction began - which holds because the write lock keeps every  *)
(* other writer out until it ends.  ProtectionInv, AbsenceInv and          *)
(* MirrorInv, further down, say what protection, absence and mirroring     *)
(* rest on: what the scans under way have seen, and how they account for   *)
(* what they could count on.                                               *)
(***************************************************************************)
EXTENDS Ledger, SequenceTheorems, FiniteSetTheorems, TLAPS

USE LedgerAssumption

Unique(rs) ==
    \A i, j \in DOMAIN rs :
        Live(rs, i) /\ Live(rs, j) /\ rs[i].path = rs[j].path => i = j

\* A transaction's copy of the table.
DraftInv == writer # NoScan => Extends(rows, draft)

IInv ==
    /\ TypeOK
    /\ Unique(rows) /\ Unique(draft)
    /\ DraftInv

-----------------------------------------------------------------------------
(* The records a scan keeps.                                               *)

LEMMA IdleType == Idle \in ScanState
BY DEF Idle, ScanState

LEMMA ExcludingType ==
    ASSUME NEW sc \in ScanState, NEW at \in Paths \cup Roots,
           NEW why \in {"denied", "partial", "changed", "duplicate"}
    PROVE  Excluding(sc, at, why) \in ScanState
<1>1. [path |-> at, reason |-> why] \in Exclusion
  BY DEF Exclusion
<1>2. sc.excluded \cup {[path |-> at, reason |-> why]} \in SUBSET Exclusion
  BY <1>1 DEF ScanState
<1> QED BY <1>2 DEF Excluding, ScanState

LEMMA WitnessedType ==
    ASSUME NEW sc \in ScanState, NEW ps, NEW why
    PROVE  Witnessed(sc, ps, why) \in ScanState
<1>1. {pd \in sc.kept : pd[1] \notin ps} \in SUBSET (Paths \X Dirs)
  BY DEF ScanState
<1> QED BY <1>1 DEF Witnessed, ScanState

-----------------------------------------------------------------------------
(* The rows of the table.                                                  *)

LEMMA FreshType ==
    ASSUME NEW o \in Observation
    PROVE  /\ Fresh(o) \in Row
           /\ Fresh(o).path = o.path /\ Fresh(o).status = "present"
BY DEF Fresh, Row, Observation, LiveStates

LEMMA LaterType ==
    ASSUME NEW a \in Times, NEW b \in Times
    PROVE  Later(a, b) \in Times /\ Later(a, b) >= a
BY DEF Later, Times

LEMMA UpdatedType ==
    ASSUME NEW row \in Row, NEW o \in Observation, NEW bump \in Times
    PROVE  /\ Updated(row, o, bump) \in Row
           /\ Updated(row, o, bump).path = row.path
           /\ Updated(row, o, bump).dir = row.dir
           /\ Updated(row, o, bump).status = "present"
           /\ Updated(row, o, bump).activity >= row.activity
<1>1. row.activity \in Times /\ o.activity \in Times
  BY DEF Row, Observation
<1>2. Later(o.activity, bump) \in Times
  BY <1>1, LaterType
<1>3. /\ Later(row.activity, Later(o.activity, bump)) \in Times
      /\ Later(row.activity, Later(o.activity, bump)) >= row.activity
  BY <1>1, <1>2, LaterType
<1> QED BY <1>3 DEF Updated, Row, LiveStates

\* To set one row to what tells as much, and to add a row, keeps what was told.
LEMMA ExtendsUpdate ==
    ASSUME NEW old \in Seq(Row), NEW new \in Seq(Row), Extends(old, new),
           NEW i \in DOMAIN new, NEW row \in Row,
           row.path = new[i].path, row.dir = new[i].dir,
           row.activity >= new[i].activity,
           new[i].status = "replaced" => row.status = "replaced"
    PROVE  /\ [new EXCEPT ![i] = row] \in Seq(Row)
           /\ Extends(old, [new EXCEPT ![i] = row])
<1> DEFINE after == [new EXCEPT ![i] = row]
<1>1. /\ after \in Seq(Row) /\ Len(after) = Len(new)
      /\ \A j \in DOMAIN new : after[j] = IF j = i THEN row ELSE new[j]
  BY ExceptSeq
<1>2. \A j \in DOMAIN old : j \in DOMAIN new
  BY DEF Extends
<1>3. ASSUME NEW j \in DOMAIN old
      PROVE  /\ after[j].path = old[j].path /\ after[j].dir = old[j].dir
             /\ after[j].activity >= old[j].activity
             /\ old[j].status = "replaced" => after[j].status = "replaced"
  <2>1. new[j] \in Row /\ old[j] \in Row /\ j \in DOMAIN new
    BY <1>2, ElementOfSeq
  <2>2. new[j].activity \in Nat /\ old[j].activity \in Nat /\ row.activity \in Nat
    BY <2>1 DEF Row, Times
  <2>3. CASE j = i
    BY <2>1, <2>2, <2>3, <1>1 DEF Extends
  <2>4. CASE j # i
    BY <2>1, <2>2, <2>4, <1>1 DEF Extends
  <2> QED BY <2>3, <2>4
<1> QED BY <1>1, <1>3 DEF Extends

LEMMA ExtendsAppend ==
    ASSUME NEW old \in Seq(Row), NEW new \in Seq(Row), Extends(old, new),
           NEW row \in Row
    PROVE  /\ Append(new, row) \in Seq(Row)
           /\ Extends(old, Append(new, row))
<1>1. /\ Append(new, row) \in Seq(Row) /\ Len(Append(new, row)) = Len(new) + 1
      /\ \A j \in 1 .. Len(new) : Append(new, row)[j] = new[j]
  BY AppendProperties
<1>2. \A j \in DOMAIN old : j \in 1 .. Len(new)
  BY DEF Extends
<1> QED BY <1>1, <1>2 DEF Extends

\* Neither makes two live rows of one path, as long as the row set was live
\* and the path added is one no live row has.
LEMMA UniqueUpdate ==
    ASSUME NEW rs \in Seq(Row), Unique(rs), NEW i \in DOMAIN rs, NEW row \in Row,
           row.path = rs[i].path, Live(rs, i) \/ row.status = rs[i].status
    PROVE  Unique([rs EXCEPT ![i] = row])
<1>1. /\ DOMAIN [rs EXCEPT ![i] = row] = DOMAIN rs
      /\ \A j \in DOMAIN rs : [rs EXCEPT ![i] = row][j] = IF j = i THEN row ELSE rs[j]
  OBVIOUS
<1> QED BY <1>1 DEF Unique, Live

LEMMA UniqueAppend ==
    ASSUME NEW rs \in Seq(Row), Unique(rs), NEW row \in Row,
           \A i \in DOMAIN rs : Live(rs, i) => rs[i].path # row.path
    PROVE  Unique(Append(rs, row))
<1>1. /\ DOMAIN Append(rs, row) = DOMAIN rs \cup {Len(rs) + 1}
      /\ \A j \in DOMAIN rs : Append(rs, row)[j] = rs[j]
      /\ Append(rs, row)[Len(rs) + 1] = row
  BY AppendProperties, Len(rs) \in Nat
<1> QED BY <1>1 DEF Unique, Live

-----------------------------------------------------------------------------
(* Init and the steps outside the transaction.                             *)

LEMMA InitInv == Init => IInv
<1> SUFFICES ASSUME Init PROVE IInv
  OBVIOUS
<1>1. <<>> \in Seq(Row) /\ Len(<<>>) = 0 /\ DOMAIN <<>> = {}
  OBVIOUS
<1>2. scan \in [Scanners -> ScanState]
  BY IdleType DEF Init
<1>3. TypeOK
  <2>1. mtime \in [Dirs -> Times]
    BY DEF Init, Times
  <2>2. command \in [row: 0 .. Len(rows), flag: BOOLEAN, calm: BOOLEAN]
    BY <1>1 DEF Init, NoCommand
  <2>3. changes \in 0 .. MaxChanges /\ scans \in 0 .. MaxScans
    BY DEF Init
  <2> QED BY <1>1, <1>2, <2>1, <2>2, <2>3 DEF Init, TypeOK
<1> QED BY <1>1, <1>3 DEF Init, IInv, Unique, DraftInv

LEMMA ChangeInv ==
    ASSUME IInv, FileSystemStep
    PROVE  IInv'
<1> USE DEF IInv
<1>1. UNCHANGED <<rows, draft, writer, command, scans>>
  BY DEF FileSystemStep, Place, Take, Rename, Work, Change, ledger
<1>2. changes' \in 0 .. MaxChanges
  BY DEF FileSystemStep, Place, Take, Rename, Work, Change, Event, TypeOK
<1>3. dir' \in [Paths -> Dirs \cup {NoDir}]
  BY DEF FileSystemStep, Place, Take, Rename, Work, TypeOK
<1>4. mtime' \in [Dirs -> Times]
  BY DEF FileSystemStep, Place, Take, Rename, Work, TypeOK
<1>5. asked' \subseteq [path: Paths, dir: Dirs, calm: BOOLEAN]
  BY DEF FileSystemStep, Place, Take, Rename, Work, Forget, TypeOK
<1>6. scan' \in [Scanners -> ScanState]
  <2>1. ASSUME NEW p \in Paths, Disturb(p) PROVE scan' \in [Scanners -> ScanState]
    <3>1. ASSUME NEW s \in Scanners
          PROVE  [scan[s] EXCEPT !.kept = {pd \in @ : pd[1] # p}, !.quiet = FALSE]
                    \in ScanState
      <4>1. scan[s] \in ScanState
        BY DEF TypeOK
      <4>2. {pd \in scan[s].kept : pd[1] # p} \in SUBSET (Paths \X Dirs)
        BY <4>1 DEF ScanState
      <4> QED BY <4>1, <4>2 DEF ScanState
    <3> QED BY <2>1, <3>1 DEF Disturb
  <2>2. (\E p \in Paths : Disturb(p)) \/ UNCHANGED scan
    BY DEF FileSystemStep, Place, Take, Rename, Work
  <2> QED BY <2>1, <2>2 DEF TypeOK
<1>7. TypeOK'
  BY <1>1, <1>2, <1>3, <1>4, <1>5, <1>6 DEF TypeOK
<1> QED BY <1>1, <1>7 DEF Unique, Live, DraftInv, Extends

LEMMA StartScanInv ==
    ASSUME IInv, NEW s \in Scanners, StartScan(s)
    PROVE  IInv'
<1> USE DEF IInv
<1>1. UNCHANGED <<dir, mtime, rows, draft, writer, asked>>
  BY DEF StartScan, fileSystem, ledger
<1>2. scan' \in [Scanners -> ScanState]
  <2>1. PICK valid \in SUBSET Roots :
           scan' = [scan EXCEPT ![s] =
                      [Idle EXCEPT !.pc = "walking", !.valid = valid, !.unread = valid,
                                   !.kept = InPlace, !.quiet = TRUE]]
    BY DEF StartScan
  <2>2. InPlace \in SUBSET (Paths \X Dirs)
    BY DEF InPlace
  <2>3. [Idle EXCEPT !.pc = "walking", !.valid = valid, !.unread = valid,
                     !.kept = InPlace, !.quiet = TRUE] \in ScanState
    BY <2>2 DEF Idle, ScanState
  <2> QED BY <2>1, <2>3 DEF TypeOK
<1>3. changes' \in 0 .. MaxChanges /\ scans' \in 0 .. MaxScans
  BY DEF StartScan, Event, TypeOK
<1>4. command' \in [row: 0 .. Len(rows), flag: BOOLEAN, calm: BOOLEAN]
  BY DEF StartScan, TypeOK
<1>5. TypeOK'
  BY <1>1, <1>2, <1>3, <1>4 DEF TypeOK
<1> QED BY <1>1, <1>5 DEF Unique, Live, DraftInv, Extends

LEMMA WalkInv ==
    ASSUME IInv, NEW s \in Scanners,
           ReadRoot(s) \/ RootExcluded(s) \/ Observe(s) \/ Skip(s) \/ Exclude(s)
    PROVE  IInv'
<1> USE DEF IInv
<1> DEFINE Reported == {"denied", "partial", "changed", "duplicate"}
<1>1. UNCHANGED <<dir, mtime, rows, draft, writer, command, asked, scans>>
  BY DEF ReadRoot, RootExcluded, Observe, Skip, Exclude, Visit, Walk, fileSystem, ledger
<1>2. changes' \in 0 .. MaxChanges
  <2>1. UNCHANGED changes \/ Event
    BY DEF ReadRoot, RootExcluded, Observe, Skip, Exclude
  <2> QED BY <2>1 DEF Event, TypeOK
<1>3. scan[s] \in ScanState
  BY DEF TypeOK
<1>4. ASSUME NEW at \in Paths \cup Roots, NEW ps, NEW why \in Reported
      PROVE  Witnessed(Excluding(scan[s], at, why), ps, why) \in ScanState
  BY <1>3, <1>4, ExcludingType, WitnessedType
<1>5. scan' \in [Scanners -> ScanState]
  <2>1. CASE ReadRoot(s)
    <3>1. PICK r \in scan[s].unread :
             scan' = [scan EXCEPT
                        ![s].unread = @ \ {r}, ![s].met = {},
                        ![s].listed = {p \in Paths : RootOf[p] = r /\ dir[p] # NoDir}]
      BY <2>1 DEF ReadRoot
    <3> DEFINE there == {p \in Paths : RootOf[p] = r /\ dir[p] # NoDir}
               after == [scan[s] EXCEPT !.unread = @ \ {r}, !.met = {}, !.listed = there]
    <3>2. there \in SUBSET Paths
      OBVIOUS
    <3>3. scan' = [scan EXCEPT ![s] = after]
      BY <3>1
    <3> HIDE DEF there
    <3>4. after \in ScanState
      BY <1>3, <3>2 DEF ScanState
    <3> HIDE DEF after
    <3> QED BY <3>3, <3>4 DEF TypeOK
  <2>2. CASE RootExcluded(s)
    <3>1. PICK r \in scan[s].unread : \E why \in Reasons \ {"partial"} :
             scan' = [scan EXCEPT ![s] =
                        [Witnessed(Excluding(scan[s], r, why),
                                   {p \in Paths : RootOf[p] = r}, why)
                           EXCEPT !.unread = @ \ {r}]]
      BY <2>2 DEF RootExcluded
    <3>2. PICK why \in Reported :
             scan' = [scan EXCEPT ![s] =
                        [Witnessed(Excluding(scan[s], r, why),
                                   {p \in Paths : RootOf[p] = r}, why)
                           EXCEPT !.unread = @ \ {r}]]
      BY <3>1
    <3>3. r \in Paths \cup Roots
      BY <1>3 DEF ScanState
    <3> DEFINE after == Witnessed(Excluding(scan[s], r, why),
                                  {p \in Paths : RootOf[p] = r}, why)
    <3>4. after \in ScanState
      BY <3>3, <1>4
    <3> HIDE DEF after
    <3>5. [after EXCEPT !.unread = @ \ {r}] \in ScanState
      BY <3>4 DEF ScanState
    <3> QED BY <3>2, <3>5 DEF TypeOK, after
  <2>3. CASE Observe(s)
    <3>1. PICK p \in Paths :
             /\ dir[p] # NoDir
             /\ scan' = [scan EXCEPT ![s].listed = @ \ {p},
                                     ![s].found = @ \cup {[path |-> p, dir |-> dir[p],
                                                           activity |-> mtime[dir[p]]]}]
      BY <2>3 DEF Observe
    <3>2. [path |-> p, dir |-> dir[p], activity |-> mtime[dir[p]]] \in Observation
      BY <3>1 DEF Observation, TypeOK
    <3> DEFINE o == [path |-> p, dir |-> dir[p], activity |-> mtime[dir[p]]]
               after == [scan[s] EXCEPT !.listed = @ \ {p}, !.found = @ \cup {o}]
    <3>3. o \in Observation
      BY <3>2
    <3>4. scan' = [scan EXCEPT ![s] = after]
      BY <3>1
    <3> HIDE DEF o
    <3>5. after \in ScanState
      BY <1>3, <3>3 DEF ScanState
    <3> HIDE DEF after
    <3> QED BY <3>4, <3>5 DEF TypeOK
  <2>4. CASE Skip(s)
    <3>1. PICK p \in Paths : \E why \in Reported :
             scan' = [scan EXCEPT ![s] =
                        [Witnessed(Excluding(scan[s], p, why), {p}, why)
                           EXCEPT !.listed = @ \ {p}]]
      BY <2>4 DEF Skip
    <3>2. PICK why \in Reported :
             scan' = [scan EXCEPT ![s] =
                        [Witnessed(Excluding(scan[s], p, why), {p}, why)
                           EXCEPT !.listed = @ \ {p}]]
      BY <3>1
    <3> DEFINE after == Witnessed(Excluding(scan[s], p, why), {p}, why)
    <3>3. after \in ScanState
      BY <1>4
    <3> HIDE DEF after
    <3>4. [after EXCEPT !.listed = @ \ {p}] \in ScanState
      BY <3>3 DEF ScanState
    <3> QED BY <3>2, <3>4 DEF TypeOK, after
  <2>5. CASE Exclude(s)
    <3>1. PICK p \in Paths, why \in Reasons, entered \in BOOLEAN :
             /\ dir[p] # NoDir
             /\ scan' = [scan EXCEPT ![s] =
                           [Witnessed(Excluding(scan[s], p, why), {p}, why)
                              EXCEPT !.listed = @ \ {p},
                                     !.met = IF entered THEN @ \cup {dir[p]} ELSE @]]
      BY <2>5 DEF Exclude
    <3> DEFINE after == Witnessed(Excluding(scan[s], p, why), {p}, why)
    <3>2. after \in ScanState
      BY <1>4
    <3>3. dir[p] \in Dirs
      BY <3>1 DEF TypeOK
    <3> HIDE DEF after
    <3>4. [after EXCEPT !.listed = @ \ {p},
                        !.met = IF entered THEN @ \cup {dir[p]} ELSE @] \in ScanState
      BY <3>2, <3>3 DEF ScanState
    <3> QED BY <3>1, <3>4 DEF TypeOK, after
  <2> QED BY <2>1, <2>2, <2>3, <2>4, <2>5
<1>6. TypeOK'
  BY <1>1, <1>2, <1>5 DEF TypeOK
<1> QED BY <1>1, <1>6 DEF Unique, Live, DraftInv, Extends

-----------------------------------------------------------------------------
(* The transaction.                                                        *)

LEMMA BeginApplyInv ==
    ASSUME IInv, NEW s \in Scanners, BeginApply(s)
    PROVE  IInv'
<1> USE DEF IInv
<1>1. /\ UNCHANGED <<dir, mtime, rows, command, asked, changes, scans>>
      /\ draft' = rows /\ writer' = s
  BY DEF BeginApply, fileSystem, budget
<1>2. scan' \in [Scanners -> ScanState]
  <2>1. scan' = [scan EXCEPT ![s].pc = "applying"]
    BY DEF BeginApply
  <2>2. [scan[s] EXCEPT !.pc = "applying"] \in ScanState
    <3>1. scan[s] \in ScanState
      BY DEF TypeOK
    <3> QED BY <3>1 DEF ScanState
  <2> QED BY <2>1, <2>2 DEF TypeOK
<1>3. TypeOK'
  BY <1>1, <1>2 DEF TypeOK
<1>4. \A i \in DOMAIN rows : rows[i].activity \in Nat
  <2> SUFFICES ASSUME NEW i \in DOMAIN rows PROVE rows[i].activity \in Nat
    OBVIOUS
  <2>1. rows[i] \in Row
    BY ElementOfSeq DEF TypeOK
  <2> QED BY <2>1 DEF Row, Times
<1>5. Extends(rows, rows)
  BY <1>4 DEF Extends, TypeOK
<1>6. DraftInv'
  BY <1>1, <1>5 DEF DraftInv, Extends
<1> QED BY <1>1, <1>3, <1>6 DEF Unique, Live

\* What the four outcomes of upsert_workspace_tx have in common.
LEMMA UpsertInv ==
    ASSUME IInv, NEW s \in Scanners, NEW o \in scan[s].found,
           Upserting(s, o), NEW i \in Nat \ {0}, Seen(s, o, i),
           draft' \in Seq(Row), Unique(draft'), Extends(rows, draft')
    PROVE  IInv'
<1> USE DEF IInv
<1>1. UNCHANGED <<dir, mtime, rows, writer, command, asked, changes, scans>>
  BY DEF Upserting, fileSystem, budget
<1>2. scan' \in [Scanners -> ScanState]
  <2>1. scan[s] \in ScanState
    BY DEF TypeOK
  <2>2. [scan[s] EXCEPT !.found = @ \ {o}, !.seen = @ \cup {i}] \in ScanState
    BY <2>1 DEF ScanState
  <2>3. scan' = [scan EXCEPT ![s] = [scan[s] EXCEPT !.found = @ \ {o}, !.seen = @ \cup {i}]]
    BY DEF Seen
  <2> QED BY <2>2, <2>3 DEF TypeOK
<1>3. TypeOK'
  BY <1>1, <1>2 DEF TypeOK
<1>4. DraftInv'
  BY <1>1 DEF DraftInv, Extends
<1> QED BY <1>1, <1>3, <1>4 DEF Unique, Live

LEMMA UpdateRowInv ==
    ASSUME IInv, NEW s \in Scanners, NEW o \in scan[s].found, Upserting(s, o),
           NEW i \in DOMAIN draft, Live(draft, i), UpdateRow(s, o, i)
    PROVE  IInv'
<1> USE DEF IInv
<1>1. PICK bump \in Times : draft' = [draft EXCEPT ![i] = Updated(draft[i], o, bump)]
  BY DEF UpdateRow
<1>2. o \in Observation /\ draft[i] \in Row
  BY ElementOfSeq DEF TypeOK, ScanState
<1> DEFINE row == Updated(draft[i], o, bump)
<1>3. /\ row \in Row /\ row.path = draft[i].path /\ row.dir = draft[i].dir
      /\ row.status = "present" /\ row.activity >= draft[i].activity
  BY <1>2, UpdatedType
<1>4. draft[i].status # "replaced"
  BY DEF Live, LiveStates
<1>5. Extends(rows, draft) /\ rows \in Seq(Row) /\ draft \in Seq(Row)
  <2>1. s # NoScan
    OBVIOUS
  <2> QED BY <2>1 DEF DraftInv, Upserting, TypeOK
<1> HIDE DEF row
<1>6. draft' \in Seq(Row) /\ Extends(rows, draft')
  <2>1. draft' = [draft EXCEPT ![i] = row]
    BY <1>1 DEF row
  <2> QED BY <2>1, <1>3, <1>4, <1>5, ExtendsUpdate
<1>7. Unique(draft')
  <2>1. draft' = [draft EXCEPT ![i] = row]
    BY <1>1 DEF row
  <2> QED BY <2>1, <1>3, <1>5, UniqueUpdate
<1>8. i \in Nat \ {0}
  BY <1>5
<1> QED BY <1>6, <1>7, <1>8, UpsertInv DEF UpdateRow

LEMMA InsertInv ==
    ASSUME IInv, NEW s \in Scanners, NEW o \in scan[s].found, Upserting(s, o),
           NEW table \in Seq(Row), Unique(table), Extends(rows, table),
           Len(table) = Len(draft),
           \A i \in DOMAIN table : Live(table, i) => table[i].path # o.path,
           draft' = Append(table, Fresh(o)), Seen(s, o, Len(draft) + 1)
    PROVE  IInv'
<1> USE DEF IInv
<1>1. o \in Observation
  BY DEF TypeOK, ScanState
<1>2. Fresh(o) \in Row /\ Fresh(o).path = o.path
  BY <1>1, FreshType
<1>3. draft' \in Seq(Row) /\ Extends(rows, draft')
  BY <1>2, ExtendsAppend DEF TypeOK
<1>4. Unique(draft')
  BY <1>2, UniqueAppend
<1>5. Len(draft) + 1 \in Nat \ {0}
  BY LenProperties DEF TypeOK
<1> QED BY <1>3, <1>4, <1>5, UpsertInv

LEMMA SeenInv ==
    ASSUME IInv, NEW s \in Scanners,
           SeenAgain(s) \/ SeenReplaced(s) \/ SeenUnderOtherCase(s) \/ SeenFirst(s)
    PROVE  IInv'
<1> USE DEF IInv
<1>1. CASE SeenAgain(s)
  <2>1. PICK o \in scan[s].found :
           /\ Upserting(s, o)
           /\ \E i \in Exact(draft, o) : UpdateRow(s, o, i)
    BY <1>1 DEF SeenAgain
  <2>2. PICK i \in DOMAIN draft : Live(draft, i) /\ UpdateRow(s, o, i)
    BY <2>1 DEF Exact
  <2> QED BY <2>1, <2>2, UpdateRowInv
<1>2. CASE SeenUnderOtherCase(s)
  <2>1. PICK o \in scan[s].found :
           /\ Upserting(s, o)
           /\ \E i \in SameFile(draft, o) : UpdateRow(s, o, i)
    BY <1>2 DEF SeenUnderOtherCase
  <2>2. PICK i \in DOMAIN draft : Live(draft, i) /\ UpdateRow(s, o, i)
    BY <2>1 DEF SameFile
  <2> QED BY <2>1, <2>2, UpdateRowInv
<1>3. CASE SeenFirst(s)
  <2>1. PICK o \in scan[s].found :
           /\ Upserting(s, o) /\ Exact(draft, o) = {}
           /\ draft' = Append(draft, Fresh(o))
           /\ Seen(s, o, Len(draft) + 1)
    BY <1>3 DEF SeenFirst
  <2>2. \A i \in DOMAIN draft : Live(draft, i) => draft[i].path # o.path
    BY <2>1 DEF Exact
  <2>3. Extends(rows, draft) /\ draft \in Seq(Row)
    BY <2>1 DEF DraftInv, Upserting, TypeOK
  <2> QED BY <2>1, <2>2, <2>3, InsertInv
<1>4. CASE SeenReplaced(s)
  <2>1. PICK o \in scan[s].found :
           /\ Upserting(s, o)
           /\ \E i \in Exact(draft, o) :
                  draft' = Append([draft EXCEPT ![i].status = "replaced"], Fresh(o))
           /\ Seen(s, o, Len(draft) + 1)
    BY <1>4 DEF SeenReplaced
  <2>2. PICK i \in Exact(draft, o) :
           draft' = Append([draft EXCEPT ![i].status = "replaced"], Fresh(o))
    BY <2>1
  <2>3. Extends(rows, draft) /\ draft \in Seq(Row) /\ rows \in Seq(Row)
    BY <2>1 DEF DraftInv, Upserting, TypeOK
  <2>4. i \in DOMAIN draft /\ Live(draft, i) /\ draft[i].path = o.path
    BY DEF Exact
  <2> DEFINE row == [draft[i] EXCEPT !.status = "replaced"]
             table == [draft EXCEPT ![i] = row]
  <2>5. draft[i] \in Row
    BY <2>3, <2>4, ElementOfSeq
  <2>6. /\ row \in Row /\ row.path = draft[i].path /\ row.dir = draft[i].dir
        /\ row.status = "replaced" /\ row.activity >= draft[i].activity
    BY <2>5 DEF Row, Times
  <2>7. draft' = Append(table, Fresh(o))
    BY <2>2
  <2> HIDE DEF row
  <2>8. table \in Seq(Row) /\ Extends(rows, table)
    BY <2>3, <2>4, <2>6, ExtendsUpdate
  <2>9. Len(table) = Len(draft) /\ DOMAIN table = DOMAIN draft
    BY <2>3, <2>4, <2>6, ExceptSeq
  <2>10. Unique(table)
    BY <2>3, <2>4, <2>6, UniqueUpdate
  <2>11. \A j \in DOMAIN table : Live(table, j) => table[j].path # o.path
    <3> SUFFICES ASSUME NEW j \in DOMAIN table, Live(table, j) PROVE table[j].path # o.path
      OBVIOUS
    <3>1. table[j] = IF j = i THEN row ELSE draft[j]
      BY <2>9
    <3>2. j # i
      BY <3>1, <2>6 DEF Live, LiveStates
    <3>3. Live(draft, j)
      BY <3>1, <3>2 DEF Live
    <3> QED BY <2>4, <2>9, <3>1, <3>2, <3>3 DEF Unique
  <2> HIDE DEF table
  <2> QED BY <2>1, <2>7, <2>8, <2>9, <2>10, <2>11, InsertInv
<1> QED BY <1>1, <1>2, <1>3, <1>4

\* The rows the commit leaves: those of the draft, some of them missing.
LEMMA CommitInv ==
    ASSUME IInv, NEW s \in Scanners, Commit(s)
    PROVE  IInv' /\ Extends(rows, rows')
<1> USE DEF IInv
<1>1. /\ UNCHANGED <<dir, mtime, command, asked, changes, scans>>
      /\ writer = s /\ writer' = NoScan /\ draft' = <<>>
      /\ scan' = [scan EXCEPT ![s] = Idle]
  BY DEF Commit, fileSystem, budget
<1>2. rows \in Seq(Row) /\ draft \in Seq(Row) /\ Extends(rows, draft)
  BY <1>1 DEF TypeOK, DraftInv
<1> DEFINE left(i) == IF i \in Absent(draft, scan[s])
                      THEN [draft[i] EXCEPT !.status = "missing"] ELSE draft[i]
<1>3. rows' = [i \in DOMAIN draft |-> left(i)]
  BY DEF Commit
<1>4. ASSUME NEW i \in DOMAIN draft
      PROVE  /\ left(i) \in Row
             /\ left(i).path = draft[i].path /\ left(i).dir = draft[i].dir
             /\ left(i).activity = draft[i].activity
             /\ left(i).status = draft[i].status
                  \/ (Live(draft, i) /\ left(i).status = "missing")
  <2>1. draft[i] \in Row
    BY <1>2, ElementOfSeq
  <2>2. i \in Absent(draft, scan[s]) => Live(draft, i)
    BY DEF Absent
  <2> QED BY <2>1, <2>2 DEF Row, LiveStates
<1> HIDE DEF left
<1>5. /\ rows' \in Seq(Row) /\ Len(rows') = Len(draft) /\ DOMAIN rows' = DOMAIN draft
      /\ \A i \in DOMAIN draft : rows'[i] = left(i)
  <2>1. DOMAIN draft = 1 .. Len(draft) /\ Len(draft) \in Nat
    BY <1>2, LenProperties
  <2> QED BY <1>3, <1>4, <2>1, IsASeq, LenProperties
<1>6. Unique(rows')
  BY <1>4, <1>5 DEF Unique, Live, LiveStates
<1>7. Extends(rows, rows')
  <2>1. \A i \in DOMAIN rows : i \in DOMAIN draft
    BY <1>2 DEF Extends
  <2>2. \A i \in DOMAIN rows : draft[i].status = "replaced" => rows'[i].status = "replaced"
    BY <1>4, <1>5, <2>1 DEF Live, LiveStates
  <2> QED BY <1>2, <1>4, <1>5, <2>1, <2>2 DEF Extends
<1>8. TypeOK'
  <2>1. scan' \in [Scanners -> ScanState]
    BY <1>1, IdleType DEF TypeOK
  <2>2. command' \in [row: 0 .. Len(rows'), flag: BOOLEAN, calm: BOOLEAN]
    <3>1. Len(rows) <= Len(rows') /\ Len(rows) \in Nat /\ Len(rows') \in Nat
      BY <1>2, <1>5, <1>7, LenProperties DEF Extends
    <3> QED BY <1>1, <3>1 DEF TypeOK
  <2>3. draft' \in Seq(Row)
    BY <1>1
  <2> QED BY <1>1, <1>5, <2>1, <2>2, <2>3 DEF TypeOK
<1>9. Unique(draft)' /\ DraftInv'
  BY <1>1 DEF Unique, DraftInv
<1> QED BY <1>6, <1>7, <1>8, <1>9 DEF Unique, Live

LEMMA RollBackInv ==
    ASSUME IInv, NEW s \in Scanners, RollBack(s)
    PROVE  IInv'
<1> USE DEF IInv
<1>1. /\ UNCHANGED <<dir, mtime, rows, command, asked, changes, scans>>
      /\ writer' = NoScan /\ draft' = <<>>
      /\ scan' = [scan EXCEPT ![s] = Idle]
  BY DEF RollBack, fileSystem, budget
<1>2. scan' \in [Scanners -> ScanState]
  BY <1>1, IdleType DEF TypeOK
<1>3. TypeOK'
  BY <1>1, <1>2 DEF TypeOK
<1> QED BY <1>1, <1>3 DEF Unique, Live, DraftInv

-----------------------------------------------------------------------------
(* The protect command.                                                    *)

LEMMA FindRowInv ==
    ASSUME IInv, NEW p \in Paths, NEW flag \in BOOLEAN, FindRow(p, flag)
    PROVE  IInv'
<1> USE DEF IInv
<1>1. UNCHANGED <<dir, mtime, rows, writer, draft, scan, asked, scans>>
  BY DEF FindRow, fileSystem, ledger
<1>2. changes' \in 0 .. MaxChanges
  BY DEF FindRow, Event, TypeOK
<1>3. command' \in [row: 0 .. Len(rows), flag: BOOLEAN, calm: BOOLEAN]
  <2>1. PICK i \in DOMAIN rows : command' = [row |-> i, flag |-> flag, calm |-> Calm]
    BY DEF FindRow
  <2>2. i \in 0 .. Len(rows)
    BY DEF TypeOK
  <2>3. Calm \in BOOLEAN
    BY DEF Calm
  <2> QED BY <2>1, <2>2, <2>3
<1>4. TypeOK'
  BY <1>1, <1>2, <1>3 DEF TypeOK
<1> QED BY <1>1, <1>4 DEF Unique, Live, DraftInv, Extends

LEMMA SetProtectedInv ==
    ASSUME IInv, SetProtected
    PROVE  IInv' /\ Extends(rows, rows')
<1> USE DEF IInv
<1> DEFINE i == command.row
           row == [rows[i] EXCEPT !.protected = command.flag]
<1>1. /\ UNCHANGED <<dir, mtime, writer, draft, scan, changes, scans>>
      /\ writer = NoScan
      /\ command' = NoCommand
      /\ rows' = [rows EXCEPT ![i] = row]
  BY DEF SetProtected, fileSystem, budget
<1>2. i \in DOMAIN rows /\ rows \in Seq(Row)
  BY DEF SetProtected, NoCommand, TypeOK
<1>3. rows[i] \in Row /\ command.flag \in BOOLEAN /\ command.calm \in BOOLEAN
  BY <1>2, ElementOfSeq DEF TypeOK
<1>4. /\ row \in Row /\ row.path = rows[i].path /\ row.dir = rows[i].dir
      /\ row.activity = rows[i].activity /\ row.status = rows[i].status
  BY <1>3 DEF Row
<1>5. rows[i].activity \in Nat /\ \A j \in DOMAIN rows : rows[j].activity \in Nat
  <2> SUFFICES ASSUME NEW j \in DOMAIN rows PROVE rows[j].activity \in Nat
    BY <1>2
  <2>1. rows[j] \in Row
    BY <1>2, ElementOfSeq
  <2> QED BY <2>1 DEF Row, Times
<1> HIDE DEF row
<1>6. Extends(rows, rows)
  BY <1>2, <1>5 DEF Extends
<1>7. rows' \in Seq(Row) /\ Extends(rows, rows')
  <2>1. row.activity >= rows[i].activity
    BY <1>4, <1>5
  <2> HIDE DEF i
  <2>2. [rows EXCEPT ![i] = row] \in Seq(Row) /\ Extends(rows, [rows EXCEPT ![i] = row])
    BY <1>2, <1>4, <1>6, <2>1, ExtendsUpdate
  <2> QED BY <1>1, <2>2
<1>8. Unique(rows')
  BY <1>1, <1>2, <1>4, UniqueUpdate
<1>9. asked' \subseteq [path: Paths, dir: Dirs, calm: BOOLEAN]
  <2>1. rows[i].path \in Paths /\ rows[i].dir \in Dirs
    BY <1>3 DEF Row
  <2>2. [path |-> rows[i].path, dir |-> rows[i].dir, calm |-> command.calm]
           \in [path: Paths, dir: Dirs, calm: BOOLEAN]
    BY <2>1, <1>3
  <2> QED BY <2>2 DEF SetProtected, TypeOK
<1>10. command' \in [row: 0 .. Len(rows'), flag: BOOLEAN, calm: BOOLEAN]
  <2>1. Len(rows') \in Nat
    BY <1>7, LenProperties
  <2> QED BY <1>1, <2>1 DEF NoCommand
<1>11. TypeOK'
  BY <1>1, <1>7, <1>9, <1>10 DEF TypeOK
<1>12. Unique(draft)' /\ DraftInv'
  BY <1>1 DEF Unique, Live, DraftInv
<1> QED BY <1>7, <1>8, <1>11, <1>12 DEF Unique, Live

-----------------------------------------------------------------------------
\* Every step keeps the invariant and what the table has told.
LEMMA StepInv ==
    ASSUME IInv, [Next]_vars
    PROVE  IInv' /\ Extends(rows, rows')
<1> USE DEF IInv
<1>1. Extends(rows, rows)
  <2> SUFFICES ASSUME NEW i \in DOMAIN rows PROVE rows[i].activity \in Nat
    BY DEF Extends, TypeOK
  <2>1. rows[i] \in Row
    BY ElementOfSeq DEF TypeOK
  <2> QED BY <2>1 DEF Row, Times
<1>2. ASSUME UNCHANGED rows PROVE Extends(rows, rows')
  BY <1>1, <1>2
<1>3. CASE UNCHANGED vars
  <2>1. UNCHANGED <<dir, mtime, rows, writer, draft, scan, command, asked, changes, scans>>
    BY <1>3 DEF vars, fileSystem, ledger, budget
  <2>2. TypeOK'
    BY <2>1 DEF TypeOK
  <2> QED BY <2>1, <2>2, <1>2 DEF Unique, Live, DraftInv, Extends
<1>4. CASE FileSystemStep
  <2>1. UNCHANGED rows
    BY <1>4 DEF FileSystemStep, Place, Take, Rename, Work, Change, ledger
  <2> QED BY <1>2, <1>4, <2>1, ChangeInv
<1>5. ASSUME NEW s \in Scanners, ScanStep(s) PROVE IInv' /\ Extends(rows, rows')
  <2>1. CASE StartScan(s)
    BY <1>2, <2>1, StartScanInv DEF StartScan, ledger
  <2>2. CASE ReadRoot(s) \/ RootExcluded(s) \/ Observe(s) \/ Skip(s) \/ Exclude(s)
    <3>1. UNCHANGED rows
      BY <2>2 DEF ReadRoot, RootExcluded, Observe, Skip, Exclude, Visit, Walk, ledger
    <3> QED BY <1>2, <2>2, <3>1, WalkInv
  <2>3. CASE BeginApply(s)
    BY <1>2, <2>3, BeginApplyInv DEF BeginApply
  <2>4. CASE SeenAgain(s) \/ SeenReplaced(s) \/ SeenUnderOtherCase(s) \/ SeenFirst(s)
    <3>1. UNCHANGED rows
      BY <2>4 DEF SeenAgain, SeenReplaced, SeenUnderOtherCase, SeenFirst, Upserting
    <3> QED BY <1>2, <2>4, <3>1, SeenInv
  <2>5. CASE Commit(s)
    BY <2>5, CommitInv
  <2>6. CASE RollBack(s)
    BY <1>2, <2>6, RollBackInv DEF RollBack
  <2> QED BY <1>5, <2>1, <2>2, <2>3, <2>4, <2>5, <2>6 DEF ScanStep
<1>6. ASSUME NEW p \in Paths, NEW flag \in BOOLEAN, FindRow(p, flag)
      PROVE  IInv' /\ Extends(rows, rows')
  BY <1>2, <1>6, FindRowInv DEF FindRow, ledger
<1>7. CASE SetProtected
  BY <1>7, SetProtectedInv
<1> QED BY <1>3, <1>4, <1>5, <1>6, <1>7 DEF Next

\* The scans and commands never leave the states TypeOK describes.
THEOREM TypeCorrect == Spec => []TypeOK
<1>1. IInv => TypeOK
  BY DEF IInv
<1> QED BY InitInv, StepInv, <1>1, PTL DEF Spec

\* However many scans overlap and whatever they saw, the table never holds two
\* live rows for one path, nor does the copy a transaction is about to commit:
\* apply_scan never runs into the unique index workspaces_live_by_path.
THEOREM LiveRowsAreUnique == Spec => []OneLiveRowPerPath
<1>1. IInv => OneLiveRowPerPath
  BY DEF IInv, OneLiveRowPerPath, Unique
<1> QED BY InitInv, StepInv, <1>1, PTL DEF Spec

\* No scan, however old what it saw, and no command takes back what the ledger
\* has told: rows, their path and directory, history, and the last activity.
THEOREM HistoryIsKept == Spec => HistoryKept
<1>1. IInv /\ [Next]_vars => [Extends(rows, rows')]_vars
  BY StepInv
<1> QED BY InitInv, StepInv, <1>1, PTL DEF Spec, HistoryKept

-----------------------------------------------------------------------------
(* Protection.  What the owner protected in a calm moment has a protected  *)
(* live row, in an open transaction's copy, too, and no scan holds an      *)
(* observation of another directory at its path: each has looked since.    *)

Holds(rs, a) ==
    \E i \in DOMAIN rs :
        Live(rs, i) /\ rs[i].path = a.path /\ rs[i].dir = a.dir /\ rs[i].protected

Kept(a) ==
    /\ dir[a.path] \in {a.dir, NoDir}
    /\ \A s \in Scanners : \A o \in scan[s].found : o.path = a.path => o.dir = a.dir
    /\ Holds(rows, a)
    /\ writer # NoScan => Holds(draft, a)

ProtectionInv ==
    /\ \A a \in asked : a.calm => Kept(a)
    /\ \A s \in Scanners : scan[s].pc = "idle" => scan[s].found = {}
    /\ command.row # 0 /\ command.calm => Calm

LEMMA AskedType ==
    ASSUME TypeOK, NEW a \in asked
    PROVE  a.path \in Paths /\ a.dir \in Dirs
BY DEF TypeOK

\* A step that neither looks nor applies: all scans keep what they found, the
\* table and its copy stay, and what is asked is asked already.
LEMMA ProtectionFrame ==
    ASSUME TypeOK, ProtectionInv, UNCHANGED <<rows, draft, writer>>,
           \A a \in asked' : a \in asked,
           \A a \in asked' : a.calm => dir'[a.path] \in {a.dir, NoDir},
           \A s \in Scanners : scan'[s].found = scan[s].found /\ scan'[s].pc = scan[s].pc,
           command' = command \/ command'.row = 0 \/ (command'.calm => Calm)
    PROVE  ProtectionInv'
<1>1. Calm' <=> Calm
  BY DEF Calm
<1>2. \A a \in asked' : a.calm => Kept(a)'
  BY DEF ProtectionInv, Kept, Holds, Live
<1> QED BY <1>1, <1>2 DEF ProtectionInv

LEMMA FileSystemProtection ==
    ASSUME TypeOK, ProtectionInv, FileSystemStep
    PROVE  ProtectionInv'
<1>1. UNCHANGED <<rows, draft, writer, command>>
  BY DEF FileSystemStep, Place, Take, Rename, Work, Change, ledger
<1>2. ASSUME NEW p \in Paths, Disturb(p)
      PROVE  \A s \in Scanners : scan'[s].found = scan[s].found /\ scan'[s].pc = scan[s].pc
  <2> SUFFICES ASSUME NEW s \in Scanners
               PROVE  scan'[s].found = scan[s].found /\ scan'[s].pc = scan[s].pc
    OBVIOUS
  <2>1. scan[s] \in ScanState
    BY DEF TypeOK
  <2> QED BY <1>2, <2>1 DEF Disturb, ScanState
<1>3. \A a \in asked : a.calm => dir[a.path] \in {a.dir, NoDir}
  BY DEF ProtectionInv, Kept
<1>4. ASSUME NEW p \in Paths, NEW d \in Dirs, Place(p, d) PROVE ProtectionInv'
  <2>1. /\ \A a \in asked' : a \in asked /\ (a.path # p \/ a.dir = d)
        /\ dir' = [dir EXCEPT ![p] = d] /\ Disturb(p)
    BY <1>4 DEF Place, Forget
  <2>2. \A a \in asked' : a.calm => dir'[a.path] \in {a.dir, NoDir}
    BY <2>1, <1>3, AskedType DEF TypeOK
  <2> QED BY <1>1, <1>2, <2>1, <2>2, ProtectionFrame
<1>5. ASSUME NEW p \in Paths, Take(p) PROVE ProtectionInv'
  <2>1. asked' = asked /\ dir' = [dir EXCEPT ![p] = NoDir] /\ Disturb(p)
    BY <1>5 DEF Take
  <2>2. \A a \in asked' : a.calm => dir'[a.path] \in {a.dir, NoDir}
    BY <2>1, <1>3, AskedType DEF TypeOK
  <2> QED BY <1>1, <1>2, <2>1, <2>2, ProtectionFrame
<1>6. ASSUME NEW p \in Paths, NEW q \in Paths, Rename(p, q) PROVE ProtectionInv'
  <2>1. /\ \A a \in asked' : a \in asked /\ (a.path # q \/ a.dir = dir[p])
        /\ p # q /\ dir' = [dir EXCEPT ![q] = dir[p], ![p] = NoDir] /\ Disturb(p)
    BY <1>6 DEF Rename, Forget
  <2>2. \A a \in asked' : a.calm => dir'[a.path] \in {a.dir, NoDir}
    BY <2>1, <1>3, AskedType DEF TypeOK
  <2> QED BY <1>1, <1>2, <2>1, <2>2, ProtectionFrame
<1>7. ASSUME NEW d \in Dirs, Work(d) PROVE ProtectionInv'
  <2>1. asked' = asked /\ dir' = dir /\ scan' = scan
    BY <1>7 DEF Work
  <2> QED BY <1>1, <1>3, <2>1, ProtectionFrame
<1> QED BY <1>4, <1>5, <1>6, <1>7 DEF FileSystemStep

-----------------------------------------------------------------------------
\* A step of scan s that leaves the directories, the table and the asked alone,
\* and after which every observation s has not had before is of what is there.
LEMMA WalkProtection ==
    ASSUME TypeOK, ProtectionInv, NEW s \in Scanners,
           UNCHANGED <<dir, rows, draft, writer, asked>>,
           \A t \in Scanners \ {s} : scan'[t] = scan[t],
           scan'[s].pc # "idle",
           \A o \in scan'[s].found :
              o \in scan[s].found \/ (dir[o.path] = o.dir /\ o.dir # NoDir),
           (command' = command /\ scan[s].pc # "idle") \/ ~command'.calm
    PROVE  ProtectionInv'
<1>1. ASSUME NEW a \in asked, a.calm PROVE Kept(a)'
  <2>1. Kept(a)
    BY <1>1 DEF ProtectionInv
  <2>2. \A o \in scan'[s].found : o.path = a.path => o.dir = a.dir
    BY <2>1 DEF Kept
  <2>3. \A t \in Scanners : \A o \in scan'[t].found : o.path = a.path => o.dir = a.dir
    BY <2>1, <2>2 DEF Kept
  <2> QED BY <2>1, <2>3 DEF Kept, Holds, Live
<1>2. \A t \in Scanners : scan'[t].pc = "idle" => scan'[t].found = {}
  BY DEF ProtectionInv
<1>3. command'.row # 0 /\ command'.calm => Calm'
  BY DEF ProtectionInv, Calm
<1> QED BY <1>1, <1>2, <1>3 DEF ProtectionInv

LEMMA SameFound ==
    ASSUME NEW sc \in ScanState, NEW at \in Paths \cup Roots,
           NEW why \in {"denied", "partial", "changed", "duplicate"}, NEW ps
    PROVE  LET after == Witnessed(Excluding(sc, at, why), ps, why)
           IN  after \in ScanState /\ after.found = sc.found /\ after.pc = sc.pc
<1> DEFINE x == Excluding(sc, at, why)
<1>1. x \in ScanState
  BY ExcludingType
<1>2. x.found = sc.found /\ x.pc = sc.pc
  BY DEF Excluding, ScanState
<1> HIDE DEF x
<1>3. Witnessed(x, ps, why) \in ScanState
  BY <1>1, WitnessedType
<1>4. Witnessed(x, ps, why).found = x.found /\ Witnessed(x, ps, why).pc = x.pc
  BY <1>1 DEF Witnessed, ScanState
<1> QED BY <1>2, <1>3, <1>4 DEF x

LEMMA LookingProtection ==
    ASSUME TypeOK, ProtectionInv, NEW s \in Scanners,
           StartScan(s) \/ ReadRoot(s) \/ RootExcluded(s) \/ Observe(s) \/ Skip(s) \/ Exclude(s)
    PROVE  ProtectionInv'
<1>1. scan[s] \in ScanState /\ scan \in [Scanners -> ScanState]
  BY DEF TypeOK
<1>2. CASE StartScan(s)
  <2>1. PICK valid \in SUBSET Roots :
           scan' = [scan EXCEPT ![s] =
                      [Idle EXCEPT !.pc = "walking", !.valid = valid, !.unread = valid,
                                   !.kept = InPlace, !.quiet = TRUE]]
    BY <1>2 DEF StartScan
  <2>2. scan'[s].found = {} /\ scan'[s].pc = "walking"
    BY <1>1, <2>1 DEF Idle
  <2>3. \A t \in Scanners \ {s} : scan'[t] = scan[t]
    BY <1>1, <2>1
  <2>4. UNCHANGED <<dir, rows, draft, writer, asked>> /\ ~command'.calm
    <3>1. command' = [command EXCEPT !.calm = FALSE]
          /\ command \in [row: 0 .. Len(rows), flag: BOOLEAN, calm: BOOLEAN]
      BY <1>2 DEF StartScan, TypeOK
    <3> QED BY <1>2, <3>1 DEF StartScan, fileSystem, ledger
  <2> QED BY <2>2, <2>3, <2>4, WalkProtection
<1>3. ASSUME Walk(s), NEW next, scan' = [scan EXCEPT ![s] = next], next.pc = "walking",
             \A o \in next.found :
                o \in scan[s].found \/ (dir[o.path] = o.dir /\ o.dir # NoDir)
      PROVE  ProtectionInv'
  <2>1. scan'[s] = next /\ \A t \in Scanners \ {s} : scan'[t] = scan[t]
    BY <1>1, <1>3
  <2>2. UNCHANGED <<dir, rows, draft, writer, asked, command>> /\ scan[s].pc = "walking"
    BY <1>3 DEF Walk, fileSystem, ledger
  <2> QED BY <1>3, <2>1, <2>2, WalkProtection
<1>4. CASE ReadRoot(s)
  <2>1. PICK r \in scan[s].unread :
           scan' = [scan EXCEPT
                      ![s].unread = @ \ {r}, ![s].met = {},
                      ![s].listed = {p \in Paths : RootOf[p] = r /\ dir[p] # NoDir}]
    BY <1>4 DEF ReadRoot
  <2> DEFINE next == [scan[s] EXCEPT !.unread = @ \ {r}, !.met = {},
                         !.listed = {p \in Paths : RootOf[p] = r /\ dir[p] # NoDir}]
  <2>2. scan' = [scan EXCEPT ![s] = next]
    BY <2>1
  <2>3. next.found = scan[s].found /\ next.pc = scan[s].pc
    BY <1>1 DEF ScanState
  <2>4. Walk(s) /\ scan[s].pc = "walking"
    BY <1>4 DEF ReadRoot, Walk
  <2> HIDE DEF next
  <2> QED BY <1>3, <2>2, <2>3, <2>4
<1>5. CASE Observe(s)
  <2>1. PICK p \in Paths :
           /\ Visit(s, p) /\ dir[p] # NoDir
           /\ scan' = [scan EXCEPT ![s].listed = @ \ {p},
                                   ![s].found = @ \cup {[path |-> p, dir |-> dir[p],
                                                         activity |-> mtime[dir[p]]]}]
    BY <1>5 DEF Observe
  <2> DEFINE o == [path |-> p, dir |-> dir[p], activity |-> mtime[dir[p]]]
             next == [scan[s] EXCEPT !.listed = @ \ {p}, !.found = @ \cup {o}]
  <2>2. scan' = [scan EXCEPT ![s] = next]
    BY <2>1
  <2>3. next.found = scan[s].found \cup {o} /\ next.pc = scan[s].pc
    BY <1>1 DEF ScanState
  <2>4. o.path = p /\ o.dir = dir[p]
    OBVIOUS
  <2>5. Walk(s) /\ scan[s].pc = "walking"
    BY <2>1 DEF Visit, Walk
  <2> HIDE DEF next, o
  <2>6. \A x \in next.found :
           x \in scan[s].found \/ (dir[x.path] = x.dir /\ x.dir # NoDir)
    BY <2>1, <2>3, <2>4
  <2> QED BY <1>3, <2>2, <2>3, <2>5, <2>6
<1>6. CASE RootExcluded(s)
  <2>1. PICK r \in scan[s].unread, why \in Reasons \ {"partial"} :
           scan' = [scan EXCEPT ![s] =
              [Witnessed(Excluding(scan[s], r, why), {p \in Paths : RootOf[p] = r}, why)
                  EXCEPT !.unread = @ \ {r}]]
    BY <1>6 DEF RootExcluded
  <2> DEFINE after == Witnessed(Excluding(scan[s], r, why), {p \in Paths : RootOf[p] = r}, why)
             next == [after EXCEPT !.unread = @ \ {r}]
  <2>2. r \in Paths \cup Roots /\ why \in {"denied", "partial", "changed", "duplicate"}
    BY <1>1 DEF ScanState
  <2>3. after \in ScanState /\ after.found = scan[s].found /\ after.pc = scan[s].pc
    BY <1>1, <2>2, SameFound
  <2>4. scan' = [scan EXCEPT ![s] = next]
    BY <2>1
  <2> HIDE DEF after
  <2>5. next.found = scan[s].found /\ next.pc = scan[s].pc
    BY <2>3 DEF ScanState
  <2>6. Walk(s) /\ scan[s].pc = "walking"
    BY <1>6 DEF RootExcluded, Walk
  <2> HIDE DEF next
  <2> QED BY <1>3, <2>4, <2>5, <2>6
<1>7. CASE Skip(s)
  <2>1. PICK p \in Paths :
           /\ Visit(s, p)
           /\ LET why == IF dir[p] = NoDir THEN "changed" ELSE "duplicate"
                  after == Witnessed(Excluding(scan[s], p, why), {p}, why)
              IN scan' = [scan EXCEPT ![s] = [after EXCEPT !.listed = @ \ {p}]]
    BY <1>7 DEF Skip
  <2> DEFINE why == IF dir[p] = NoDir THEN "changed" ELSE "duplicate"
             after == Witnessed(Excluding(scan[s], p, why), {p}, why)
             next == [after EXCEPT !.listed = @ \ {p}]
  <2>2. why \in {"denied", "partial", "changed", "duplicate"}
    OBVIOUS
  <2>3. scan' = [scan EXCEPT ![s] = next]
    BY <2>1
  <2> HIDE DEF why
  <2>4. after \in ScanState /\ after.found = scan[s].found /\ after.pc = scan[s].pc
    BY <1>1, <2>2, SameFound
  <2> HIDE DEF after
  <2>5. next.found = scan[s].found /\ next.pc = scan[s].pc
    BY <2>4 DEF ScanState
  <2>6. Walk(s) /\ scan[s].pc = "walking"
    BY <2>1 DEF Visit, Walk
  <2> HIDE DEF next
  <2> QED BY <1>3, <2>3, <2>5, <2>6
<1>8. CASE Exclude(s)
  <2>1. PICK p \in Paths, why \in Reasons, entered \in BOOLEAN :
           /\ Visit(s, p)
           /\ LET after == Witnessed(Excluding(scan[s], p, why), {p}, why)
              IN scan' = [scan EXCEPT ![s] =
                    [after EXCEPT !.listed = @ \ {p},
                                  !.met = IF entered THEN @ \cup {dir[p]} ELSE @]]
    BY <1>8 DEF Exclude
  <2> DEFINE after == Witnessed(Excluding(scan[s], p, why), {p}, why)
             next == [after EXCEPT !.listed = @ \ {p},
                                   !.met = IF entered THEN @ \cup {dir[p]} ELSE @]
  <2>2. scan' = [scan EXCEPT ![s] = next]
    BY <2>1
  <2>3. after \in ScanState /\ after.found = scan[s].found /\ after.pc = scan[s].pc
    BY <1>1, SameFound
  <2> HIDE DEF after
  <2>4. next.found = scan[s].found /\ next.pc = scan[s].pc
    BY <2>3 DEF ScanState
  <2>5. Walk(s) /\ scan[s].pc = "walking"
    BY <2>1 DEF Visit, Walk
  <2> HIDE DEF next
  <2> QED BY <1>3, <2>2, <2>4, <2>5
<1> QED BY <1>2, <1>4, <1>5, <1>6, <1>7, <1>8

-----------------------------------------------------------------------------
\* A step of the transaction of s on its copy of the table.
LEMMA DraftProtection ==
    ASSUME TypeOK, ProtectionInv, NEW s \in Scanners,
           UNCHANGED <<dir, rows, command, asked>>, writer' = s,
           \A t \in Scanners \ {s} : scan'[t] = scan[t],
           scan'[s].found \subseteq scan[s].found,
           scan[s].pc # "idle", scan'[s].pc # "idle",
           \A a \in asked : Kept(a) => Holds(draft', a)
    PROVE  ProtectionInv'
<1>1. ASSUME NEW a \in asked, a.calm PROVE Kept(a)'
  <2>1. Kept(a) /\ Holds(draft', a)
    BY <1>1 DEF ProtectionInv
  <2>2. \A t \in Scanners : \A o \in scan'[t].found : o \in scan[t].found
    OBVIOUS
  <2>3. Holds(rows, a)' /\ Holds(draft, a)'
    BY <2>1 DEF Kept, Holds, Live
  <2> QED BY <2>1, <2>2, <2>3 DEF Kept
<1>2. \A t \in Scanners : scan'[t].pc = "idle" => scan'[t].found = {}
  BY DEF ProtectionInv
<1>3. command'.row # 0 /\ command'.calm => Calm'
  BY DEF ProtectionInv, Calm
<1> QED BY <1>1, <1>2, <1>3 DEF ProtectionInv

LEMMA HoldsUpdate ==
    ASSUME NEW rs \in Seq(Row), NEW i \in DOMAIN rs, NEW row \in Row, NEW a, Holds(rs, a),
           row.path = rs[i].path, row.dir = rs[i].dir, row.status \in LiveStates,
           row.protected = rs[i].protected
    PROVE  Holds([rs EXCEPT ![i] = row], a)
<1>1. /\ DOMAIN [rs EXCEPT ![i] = row] = DOMAIN rs
      /\ \A j \in DOMAIN rs : [rs EXCEPT ![i] = row][j] = IF j = i THEN row ELSE rs[j]
  OBVIOUS
<1>2. PICK j \in DOMAIN rs :
         Live(rs, j) /\ rs[j].path = a.path /\ rs[j].dir = a.dir /\ rs[j].protected
  BY DEF Holds
<1> QED BY <1>1, <1>2 DEF Holds, Live

LEMMA HoldsAppend ==
    ASSUME NEW rs \in Seq(Row), NEW row \in Row, NEW a, Holds(rs, a)
    PROVE  Holds(Append(rs, row), a)
<1>1. \A j \in DOMAIN rs : j \in DOMAIN Append(rs, row) /\ Append(rs, row)[j] = rs[j]
  BY AppendProperties, LenProperties
<1>2. PICK j \in DOMAIN rs :
         Live(rs, j) /\ rs[j].path = a.path /\ rs[j].dir = a.dir /\ rs[j].protected
  BY DEF Holds
<1> QED BY <1>1, <1>2 DEF Holds, Live

LEMMA ApplyingProtection ==
    ASSUME IInv, ProtectionInv, NEW s \in Scanners,
           SeenAgain(s) \/ SeenReplaced(s) \/ SeenUnderOtherCase(s) \/ SeenFirst(s),
           scan[s].pc = "applying"
    PROVE  ProtectionInv'
<1> USE DEF IInv
<1>1. scan[s] \in ScanState /\ scan \in [Scanners -> ScanState]
      /\ draft \in Seq(Row)
  BY DEF TypeOK
<1>2. ASSUME NEW o \in scan[s].found, NEW i, Upserting(s, o), Seen(s, o, i),
             \A a \in asked : Kept(a) => Holds(draft', a)
      PROVE  ProtectionInv'
  <2>1. scan'[s].found = scan[s].found \ {o} /\ scan'[s].pc = scan[s].pc
        /\ \A t \in Scanners \ {s} : scan'[t] = scan[t]
    BY <1>1, <1>2 DEF Seen, ScanState
  <2>2. UNCHANGED <<dir, rows, command, asked>> /\ writer' = s
    BY <1>2 DEF Upserting, fileSystem
  <2> QED BY <1>2, <2>1, <2>2, DraftProtection
<1>3. ASSUME NEW a \in asked, NEW o \in scan[s].found, Kept(a), Upserting(s, o)
      PROVE  Holds(draft, a) /\ (o.path = a.path => o.dir = a.dir)
  <2>1. writer # NoScan
    BY <1>3 DEF Upserting
  <2> QED BY <1>3, <2>1 DEF Kept
<1>4. ASSUME NEW o \in scan[s].found, NEW i \in DOMAIN draft, Upserting(s, o), UpdateRow(s, o, i)
      PROVE  ProtectionInv'
  <2>1. PICK bump \in Times : draft' = [draft EXCEPT ![i] = Updated(@, o, bump)]
    BY <1>4 DEF UpdateRow
  <2> DEFINE row == Updated(draft[i], o, bump)
  <2>2. draft[i] \in Row /\ o \in Observation
    BY <1>1, ElementOfSeq DEF ScanState
  <2>3. /\ row \in Row /\ row.path = draft[i].path /\ row.dir = draft[i].dir
        /\ row.status \in LiveStates
    BY <2>2, UpdatedType DEF LiveStates
  <2>4. row.protected = draft[i].protected
    BY <2>2 DEF Updated, Row
  <2>5. draft' = [draft EXCEPT ![i] = row]
    BY <2>1
  <2> HIDE DEF row
  <2>6. \A a \in asked : Kept(a) => Holds(draft', a)
    BY <1>1, <1>3, <1>4, <2>3, <2>4, <2>5, HoldsUpdate
  <2> QED BY <1>2, <1>4, <2>6 DEF UpdateRow
<1>5. CASE SeenAgain(s)
  <2>1. PICK o \in scan[s].found :
           Upserting(s, o) /\ \E i \in Exact(draft, o) : UpdateRow(s, o, i)
    BY <1>5 DEF SeenAgain
  <2> QED BY <1>4, <2>1 DEF Exact
<1>6. CASE SeenUnderOtherCase(s)
  <2>1. PICK o \in scan[s].found :
           Upserting(s, o) /\ \E i \in SameFile(draft, o) : UpdateRow(s, o, i)
    BY <1>6 DEF SeenUnderOtherCase
  <2> QED BY <1>4, <2>1 DEF SameFile
<1>7. CASE SeenFirst(s)
  <2>1. PICK o \in scan[s].found :
           /\ Upserting(s, o)
           /\ draft' = Append(draft, Fresh(o))
           /\ Seen(s, o, Len(draft) + 1)
    BY <1>7 DEF SeenFirst
  <2>2. Fresh(o) \in Row
    BY <1>1, FreshType DEF ScanState
  <2>3. \A a \in asked : Kept(a) => Holds(draft', a)
    BY <1>1, <1>3, <2>1, <2>2, HoldsAppend
  <2> QED BY <1>2, <2>1, <2>3
<1>8. CASE SeenReplaced(s)
  <2>1. PICK o \in scan[s].found :
           /\ Upserting(s, o)
           /\ \E i \in Exact(draft, o) :
                 /\ draft[i].dir # o.dir
                 /\ draft' = Append([draft EXCEPT ![i].status = "replaced"], Fresh(o))
           /\ Seen(s, o, Len(draft) + 1)
    BY <1>8 DEF SeenReplaced
  <2>2. PICK i \in DOMAIN draft :
           /\ draft[i].path = o.path /\ draft[i].dir # o.dir
           /\ draft' = Append([draft EXCEPT ![i].status = "replaced"], Fresh(o))
    BY <2>1 DEF Exact
  <2> DEFINE row == [draft[i] EXCEPT !.status = "replaced"]
             table == [draft EXCEPT ![i] = row]
  <2>3. draft[i] \in Row /\ Fresh(o) \in Row
    BY <1>1, ElementOfSeq, FreshType DEF ScanState
  <2>4. row \in Row
    BY <2>3 DEF Row
  <2>5. draft' = Append(table, Fresh(o))
    BY <2>2
  <2> HIDE DEF row
  <2>6. /\ table \in Seq(Row) /\ DOMAIN table = DOMAIN draft
        /\ \A j \in DOMAIN draft : table[j] = IF j = i THEN row ELSE draft[j]
    BY <1>1, <2>4
  <2> HIDE DEF table
  <2>7. ASSUME NEW a \in asked, Kept(a) PROVE Holds(draft', a)
    <3>1. Holds(draft, a) /\ (o.path = a.path => o.dir = a.dir)
      BY <1>3, <2>1, <2>7
    <3>2. PICK j \in DOMAIN draft :
             Live(draft, j) /\ draft[j].path = a.path /\ draft[j].dir = a.dir
             /\ draft[j].protected
      BY <3>1 DEF Holds
    <3>3. j # i
      BY <2>2, <3>1, <3>2
    <3>4. Holds(table, a)
      BY <2>6, <3>2, <3>3 DEF Holds, Live
    <3> QED BY <2>3, <2>5, <2>6, <3>4, HoldsAppend
  <2> QED BY <1>2, <2>1, <2>7
<1> QED BY <1>5, <1>6, <1>7, <1>8

\* A transaction begins with a copy of the table, and ends with it or without.
LEMMA BeginProtection ==
    ASSUME TypeOK, ProtectionInv, NEW s \in Scanners, BeginApply(s)
    PROVE  ProtectionInv'
<1>1. scan[s] \in ScanState /\ scan \in [Scanners -> ScanState]
  BY DEF TypeOK
<1>2. /\ UNCHANGED <<dir, rows, command, asked>> /\ writer' = s /\ draft' = rows
      /\ scan[s].pc = "walking"
      /\ scan' = [scan EXCEPT ![s] = [scan[s] EXCEPT !.pc = "applying"]]
  BY DEF BeginApply, fileSystem
<1>3. /\ scan'[s].pc = "applying" /\ scan'[s].found = scan[s].found
      /\ \A t \in Scanners \ {s} : scan'[t] = scan[t]
  BY <1>1, <1>2 DEF ScanState
<1>4. \A a \in asked : Kept(a) => Holds(draft', a)
  BY <1>2 DEF Kept
<1> QED BY <1>2, <1>3, <1>4, DraftProtection

LEMMA EndProtection ==
    ASSUME TypeOK, ProtectionInv, NEW s \in Scanners,
           UNCHANGED <<dir, command, asked>>, writer = s, writer' = NoScan,
           scan' = [scan EXCEPT ![s] = Idle],
           rows' = rows \/ \A a \in asked : Holds(draft, a) => Holds(rows', a)
    PROVE  ProtectionInv'
<1>1. scan'[s].found = {} /\ \A t \in Scanners \ {s} : scan'[t] = scan[t]
  BY DEF Idle, TypeOK
<1>2. ASSUME NEW a \in asked, a.calm PROVE Kept(a)'
  <2>1. Kept(a) /\ Holds(draft, a)
    BY <1>2 DEF ProtectionInv, Kept
  <2>2. Holds(rows', a)
    BY <2>1 DEF Kept
  <2>3. Holds(rows, a)'
    BY <2>2 DEF Holds, Live
  <2> QED BY <1>1, <2>1, <2>3 DEF Kept
<1>3. \A t \in Scanners : scan'[t].pc = "idle" => scan'[t].found = {}
  BY <1>1 DEF ProtectionInv
<1>4. scan'[s].pc = "idle"
  BY DEF Idle, TypeOK
<1>5. command'.row # 0 /\ command'.calm => Calm'
  BY <1>1, <1>4 DEF ProtectionInv, Calm
<1> QED BY <1>2, <1>3, <1>5 DEF ProtectionInv

LEMMA CommitProtection ==
    ASSUME TypeOK, ProtectionInv, NEW s \in Scanners, Commit(s)
    PROVE  ProtectionInv'
<1>1. /\ UNCHANGED <<dir, command, asked>> /\ writer = s /\ writer' = NoScan
      /\ scan' = [scan EXCEPT ![s] = Idle]
  BY DEF Commit, fileSystem
<1> DEFINE left(i) == IF i \in Absent(draft, scan[s])
                      THEN [draft[i] EXCEPT !.status = "missing"] ELSE draft[i]
<1>2. rows' = [i \in DOMAIN draft |-> left(i)]
  BY DEF Commit
<1>3. ASSUME NEW i \in DOMAIN draft
      PROVE  /\ left(i).path = draft[i].path /\ left(i).dir = draft[i].dir
             /\ left(i).protected = draft[i].protected
             /\ Live(draft, i) => left(i).status \in LiveStates
  <2>1. draft[i] \in Row
    BY ElementOfSeq DEF TypeOK
  <2> QED BY <2>1 DEF Row, Live, LiveStates
<1> HIDE DEF left
<1>4. DOMAIN rows' = DOMAIN draft /\ \A i \in DOMAIN draft : rows'[i] = left(i)
  BY <1>2
<1>5. \A a \in asked : Holds(draft, a) => Holds(rows', a)
  BY <1>3, <1>4 DEF Holds, Live
<1> QED BY <1>1, <1>5, EndProtection

-----------------------------------------------------------------------------
LEMMA SetProtection ==
    ASSUME TypeOK, ProtectionInv, SetProtected
    PROVE  ProtectionInv'
<1> DEFINE i == command.row
           row == [rows[i] EXCEPT !.protected = command.flag]
<1>1. /\ UNCHANGED <<dir, writer, draft, scan>>
      /\ writer = NoScan /\ i # 0 /\ command'.row = 0
      /\ rows' = [rows EXCEPT ![i] = row]
  BY DEF SetProtected, NoCommand, fileSystem
<1>2. i \in DOMAIN rows /\ rows \in Seq(Row)
  BY DEF SetProtected, NoCommand, TypeOK
<1>3. rows[i] \in Row
  BY <1>2, ElementOfSeq
<1>4. /\ row.path = rows[i].path /\ row.dir = rows[i].dir
      /\ row.status = rows[i].status /\ row.protected = command.flag
  BY <1>3 DEF Row
<1> HIDE DEF row
<1>5. /\ DOMAIN rows' = DOMAIN rows
      /\ \A j \in DOMAIN rows : rows'[j] = IF j = i THEN row ELSE rows[j]
  BY <1>1, <1>2
<1>6. ASSUME NEW a \in asked, a.calm, a.path # rows[i].path \/ a.dir # rows[i].dir
      PROVE  Kept(a)'
  <2>1. Kept(a)
    BY <1>6 DEF ProtectionInv
  <2>2. PICK j \in DOMAIN rows :
           Live(rows, j) /\ rows[j].path = a.path /\ rows[j].dir = a.dir /\ rows[j].protected
    BY <2>1 DEF Kept, Holds
  <2>3. j # i
    BY <1>6, <2>2
  <2>4. Holds(rows, a)'
    BY <1>5, <2>2, <2>3 DEF Holds, Live
  <2> QED BY <1>1, <2>1, <2>4 DEF Kept
<1>7. ASSUME command.flag, Live(rows, i), dir[rows[i].path] = rows[i].dir, command.calm,
             NEW a, a = [path |-> rows[i].path, dir |-> rows[i].dir, calm |-> command.calm]
      PROVE  Kept(a)'
  <2>1. \A s \in Scanners : scan[s].found = {}
    BY <1>1, <1>7 DEF ProtectionInv, Calm
  <2>2. i \in DOMAIN rows' /\ rows'[i] = row
    BY <1>2, <1>5
  <2>3. /\ Live(rows', i) /\ rows'[i].protected
        /\ rows'[i].path = a.path /\ rows'[i].dir = a.dir
    BY <1>4, <1>7, <2>2 DEF Live
  <2> HIDE DEF i
  <2>4. Holds(rows, a)'
    BY <2>2, <2>3 DEF Holds, Live
  <2> QED BY <1>1, <1>7, <2>1, <2>4 DEF Kept
<1>8. ASSUME NEW a \in asked', a.calm PROVE Kept(a)'
  <2>1. \/ a \in asked /\ (a.path # rows[i].path \/ a.dir # rows[i].dir)
        \/ /\ command.flag /\ Live(rows, i) /\ dir[rows[i].path] = rows[i].dir
           /\ a = [path |-> rows[i].path, dir |-> rows[i].dir, calm |-> command.calm]
    BY <1>8 DEF SetProtected
  <2> HIDE DEF i
  <2> QED BY <1>6, <1>7, <1>8, <2>1
<1> QED BY <1>1, <1>8 DEF ProtectionInv

\* Who has the write lock is applying.
WriterInv == \A s \in Scanners : writer = s => scan[s].pc = "applying"

LEMMA ProtectionStep ==
    ASSUME IInv, ProtectionInv, WriterInv, [Next]_vars
    PROVE  ProtectionInv'
<1>0. TypeOK
  BY DEF IInv
<1>1. CASE UNCHANGED vars
  <2>1. UNCHANGED <<dir, rows, draft, writer, scan, command, asked>>
    BY <1>1 DEF vars, fileSystem, ledger
  <2>2. \A a \in asked : a.calm => dir[a.path] \in {a.dir, NoDir}
    BY DEF ProtectionInv, Kept
  <2> QED BY <1>0, <2>1, <2>2, ProtectionFrame
<1>2. ASSUME NEW p \in Paths, NEW flag \in BOOLEAN, FindRow(p, flag) PROVE ProtectionInv'
  <2>1. UNCHANGED <<dir, rows, draft, writer, scan, asked>> /\ (command'.calm => Calm)
    BY <1>2 DEF FindRow, fileSystem, ledger
  <2>2. \A a \in asked : a.calm => dir[a.path] \in {a.dir, NoDir}
    BY DEF ProtectionInv, Kept
  <2> QED BY <1>0, <2>1, <2>2, ProtectionFrame
<1>3. ASSUME NEW s \in Scanners, ScanStep(s) PROVE ProtectionInv'
  <2>1. CASE SeenAgain(s) \/ SeenReplaced(s) \/ SeenUnderOtherCase(s) \/ SeenFirst(s)
    <3>1. scan[s].pc = "applying"
      BY <2>1 DEF SeenAgain, SeenReplaced, SeenUnderOtherCase, SeenFirst, Upserting, WriterInv
    <3> QED BY <2>1, <3>1, ApplyingProtection
  <2>2. CASE RollBack(s)
    BY <1>0, <2>2, EndProtection DEF RollBack, fileSystem
  <2> QED BY <1>0, <1>3, <2>1, <2>2, LookingProtection, BeginProtection, CommitProtection
          DEF ScanStep
<1> QED BY <1>0, <1>1, <1>2, <1>3, FileSystemProtection, SetProtection DEF Next

LEMMA WriterStep ==
    ASSUME TypeOK, WriterInv, [Next]_vars
    PROVE  WriterInv'
<1> USE DEF WriterInv
<1>1. scan \in [Scanners -> ScanState]
  BY DEF TypeOK
<1>2. CASE UNCHANGED vars
  BY <1>2 DEF vars, ledger
<1>3. CASE FileSystemStep
  <2>1. ASSUME NEW p \in Paths, Disturb(p)
        PROVE  \A s \in Scanners : scan'[s].pc = scan[s].pc
    <3> SUFFICES ASSUME NEW s \in Scanners PROVE scan'[s].pc = scan[s].pc
      OBVIOUS
    <3>1. scan[s] \in ScanState
      BY <1>1
    <3> QED BY <2>1, <3>1 DEF Disturb, ScanState
  <2>2. \A s \in Scanners : scan'[s].pc = scan[s].pc
    BY <1>3, <2>1 DEF FileSystemStep, Place, Take, Rename, Work
  <2>3. writer' = writer
    BY <1>3 DEF FileSystemStep, Place, Take, Rename, Work, Change, ledger
  <2> QED BY <2>2, <2>3
<1>4. CASE SetProtected \/ \E p \in Paths, flag \in BOOLEAN : FindRow(p, flag)
  BY <1>4 DEF SetProtected, FindRow, ledger
<1>5. ASSUME NEW s \in Scanners, ScanStep(s) PROVE WriterInv'
  <2>1. CASE StartScan(s) \/ ReadRoot(s) \/ RootExcluded(s) \/ Observe(s) \/ Skip(s) \/ Exclude(s)
    <3>1. scan[s].pc # "applying" /\ writer' = writer
      BY <2>1 DEF StartScan, ReadRoot, RootExcluded, Observe, Skip, Exclude, Visit, Walk, ledger
    <3>2. \A t \in Scanners \ {s} : scan'[t] = scan[t]
      BY <1>1, <2>1 DEF StartScan, ReadRoot, RootExcluded, Observe, Skip, Exclude
    <3> QED BY <3>1, <3>2
  <2>2. CASE BeginApply(s)
    <3>1. scan[s] \in ScanState
      BY <1>1
    <3>2. scan' = [scan EXCEPT ![s] = [scan[s] EXCEPT !.pc = "applying"]] /\ writer' = s
      BY <2>2 DEF BeginApply
    <3> QED BY <1>1, <3>1, <3>2 DEF ScanState
  <2>3. CASE SeenAgain(s) \/ SeenReplaced(s) \/ SeenUnderOtherCase(s) \/ SeenFirst(s)
    <3>1. PICK o, i : Seen(s, o, i)
      BY <2>3 DEF SeenAgain, SeenReplaced, SeenUnderOtherCase, SeenFirst, UpdateRow
    <3>2. writer' = writer
      BY <2>3 DEF SeenAgain, SeenReplaced, SeenUnderOtherCase, SeenFirst, Upserting
    <3>3. \A t \in Scanners : scan'[t].pc = scan[t].pc
      <4>1. scan[s] \in ScanState
        BY <1>1
      <4> QED BY <1>1, <3>1, <4>1 DEF Seen, ScanState
    <3> QED BY <3>2, <3>3
  <2>4. CASE Commit(s) \/ RollBack(s)
    <3>1. writer' = NoScan
      BY <2>4 DEF Commit, RollBack
    <3> QED BY <3>1
  <2> QED BY <1>5, <2>1, <2>2, <2>3, <2>4 DEF ScanStep
<1> QED BY <1>2, <1>3, <1>4, <1>5 DEF Next

LEMMA ProtectionInit == Init => ProtectionInv /\ WriterInv
<1> SUFFICES ASSUME Init PROVE ProtectionInv /\ WriterInv
  OBVIOUS
<1>1. \A s \in Scanners : scan[s].found = {}
  BY DEF Init, Idle
<1> QED BY <1>1 DEF Init, NoCommand, ProtectionInv, WriterInv

\* What the owner protected in a calm moment is protected ever after, until he
\* withdraws it or another directory takes the place.
THEOREM ProtectionIsKept == Spec => []ProtectionPersists
<1>1. IInv /\ ProtectionInv => ProtectionPersists
  <2> SUFFICES ASSUME IInv, ProtectionInv, NEW a \in asked, a.calm, NEW i \in DOMAIN rows,
                      Live(rows, i), rows[i].path = a.path, rows[i].dir = a.dir
               PROVE  rows[i].protected
    BY DEF ProtectionPersists, Shielded
  <2>1. PICK j \in DOMAIN rows : Live(rows, j) /\ rows[j].path = a.path /\ rows[j].protected
    BY DEF ProtectionInv, Kept, Holds
  <2>2. i = j
    BY <2>1 DEF IInv, Unique
  <2> QED BY <2>1, <2>2
<1>2. IInv /\ ProtectionInv /\ WriterInv /\ [Next]_vars
         => IInv' /\ ProtectionInv' /\ WriterInv'
  BY StepInv, ProtectionStep, WriterStep DEF IInv, WriterInv
<1> QED BY InitInv, ProtectionInit, <1>1, <1>2, PTL DEF Spec

-----------------------------------------------------------------------------
(* Absence.  Whatever a scan could count on from its start (kept) is still *)
(* where it was, and the scan accounts for it: it is not asked about it,   *)
(* was refused it, has still to come to it, holds an observation of it or  *)
(* has marked its row as seen in the transaction's copy - or its report is *)
(* full, and a refusal may have found no room in it.                       *)

\* The rows of rs that stand for pd are among those seen.
Matched(rs, seen, pd) ==
    \A i \in DOMAIN rs : Live(rs, i) /\ rs[i].path = pd[1] /\ rs[i].dir = pd[2] => i \in seen

\* push_exclusion drops what comes now.
Full(sc) == ~(Cardinality(sc.excluded) < MaxDiagnostics)

Accounted(sc, rs, pd) ==
    \/ Full(sc)
    \/ RootOf[pd[1]] \notin sc.valid
    \/ Uncertain(sc, pd[1])
    \/ \E o \in sc.found : o.path = pd[1] /\ o.dir = pd[2]
    \/ sc.pc = "walking" /\ (RootOf[pd[1]] \in sc.unread \/ pd[1] \in sc.listed)
    \/ sc.pc = "applying" /\ Matched(rs, sc.seen, pd)

Witness(sc, rs) == \A pd \in sc.kept : dir[pd[1]] = pd[2] /\ Accounted(sc, rs, pd)

\* Who applies has the write lock, and its copy calls nothing missing that the
\* table calls present.
AbsenceInv ==
    /\ \A s \in Scanners : Witness(scan[s], draft)
    /\ \A s \in Scanners : scan[s].pc = "applying" => writer = s
    /\ writer # NoScan =>
          \A i \in DOMAIN rows : rows[i].status = "present" => draft[i].status # "missing"

LEMMA KeptType ==
    ASSUME TypeOK, NEW s \in Scanners, NEW pd \in scan[s].kept
    PROVE  pd[1] \in Paths /\ pd[2] \in Dirs /\ RootOf[pd[1]] \in Roots
<1>1. pd \in Paths \X Dirs
  BY DEF TypeOK, ScanState
<1> QED BY <1>1

\* What stays accounted for when a walk goes on.
LEMMA AccountedLater ==
    ASSUME NEW sc, NEW next, NEW rs, NEW pd, Accounted(sc, rs, pd),
           sc.pc = "walking", next.pc = "walking", next.valid = sc.valid,
           sc.excluded \subseteq next.excluded, Full(sc) => Full(next),
           sc.found \subseteq next.found,
           RootOf[pd[1]] \in sc.unread => RootOf[pd[1]] \in next.unread,
           pd[1] \in sc.listed => pd[1] \in next.listed
    PROVE  Accounted(next, rs, pd)
BY DEF Accounted, Uncertain

\* A step that leaves the table and its copy as they are.
LEMMA AbsenceFrame ==
    ASSUME AbsenceInv, UNCHANGED <<rows, draft, writer>>,
           \A s \in Scanners : scan'[s].pc = "applying" => scan[s].pc = "applying",
           \A s \in Scanners : \A pd \in scan'[s].kept :
              dir'[pd[1]] = pd[2] /\ Accounted(scan'[s], draft, pd)
    PROVE  AbsenceInv'
<1>1. \A s \in Scanners : Witness(scan[s], draft)'
  BY DEF Witness, Accounted, Uncertain, Full, Matched, Live
<1> QED BY <1>1 DEF AbsenceInv

LEMMA FileSystemAbsence ==
    ASSUME TypeOK, AbsenceInv, FileSystemStep
    PROVE  AbsenceInv'
<1>1. UNCHANGED <<rows, draft, writer>>
  BY DEF FileSystemStep, Place, Take, Rename, Work, Change, ledger
<1>2. ASSUME NEW p \in Paths, Disturb(p),
             \A q \in Paths \ {p} : dir[q] # NoDir => dir'[q] = dir[q]
      PROVE  AbsenceInv'
  <2>1. ASSUME NEW s \in Scanners
        PROVE  /\ scan'[s].pc = scan[s].pc
               /\ \A pd \in scan'[s].kept : dir'[pd[1]] = pd[2] /\ Accounted(scan'[s], draft, pd)
    <3>1. scan[s] \in ScanState
      BY DEF TypeOK
    <3>2. /\ scan'[s].pc = scan[s].pc /\ scan'[s].valid = scan[s].valid
          /\ scan'[s].unread = scan[s].unread /\ scan'[s].listed = scan[s].listed
          /\ scan'[s].found = scan[s].found /\ scan'[s].excluded = scan[s].excluded
          /\ scan'[s].seen = scan[s].seen
          /\ scan'[s].kept = {pd \in scan[s].kept : pd[1] # p}
      BY <1>2, <3>1 DEF Disturb, ScanState
    <3>3. ASSUME NEW pd \in scan'[s].kept
          PROVE  dir'[pd[1]] = pd[2] /\ Accounted(scan'[s], draft, pd)
      <4>1. pd \in scan[s].kept /\ pd[1] # p
        BY <3>2, <3>3
      <4>2. pd[1] \in Paths \ {p} /\ pd[2] \in Dirs
        BY <4>1, KeptType
      <4>3. dir[pd[1]] = pd[2] /\ Accounted(scan[s], draft, pd)
        BY <4>1 DEF AbsenceInv, Witness
      <4>4. Accounted(scan'[s], draft, pd)
        BY <3>2, <4>3 DEF Accounted, Uncertain, Full
      <4>5. dir[pd[1]] # NoDir
        BY <4>2, <4>3
      <4> QED BY <1>2, <4>2, <4>3, <4>4, <4>5
    <3> QED BY <3>2, <3>3
  <2> QED BY <1>1, <2>1, AbsenceFrame
<1>3. ASSUME NEW p \in Paths, NEW d \in Dirs, Place(p, d) PROVE AbsenceInv'
  <2>1. dir' = [dir EXCEPT ![p] = d] /\ Disturb(p)
    BY <1>3 DEF Place
  <2> QED BY <1>2, <2>1 DEF TypeOK
<1>4. ASSUME NEW p \in Paths, Take(p) PROVE AbsenceInv'
  <2>1. dir' = [dir EXCEPT ![p] = NoDir] /\ Disturb(p)
    BY <1>4 DEF Take
  <2> QED BY <1>2, <2>1 DEF TypeOK
<1>5. ASSUME NEW p \in Paths, NEW q \in Paths, Rename(p, q) PROVE AbsenceInv'
  <2>1. /\ dir' = [dir EXCEPT ![q] = dir[p], ![p] = NoDir]
        /\ Disturb(p) /\ dir[q] = NoDir
    BY <1>5 DEF Rename, Free
  <2> QED BY <1>2, <2>1 DEF TypeOK
<1>6. ASSUME NEW d \in Dirs, Work(d) PROVE AbsenceInv'
  <2>1. dir' = dir /\ scan' = scan
    BY <1>6 DEF Work
  <2> QED BY <1>1, <2>1, AbsenceFrame DEF AbsenceInv, Witness
<1> QED BY <1>3, <1>4, <1>5, <1>6 DEF FileSystemStep

-----------------------------------------------------------------------------
\* A step of scan s that only looks.
LEMMA WalkAbsence ==
    ASSUME AbsenceInv, NEW s \in Scanners, UNCHANGED <<dir, rows, draft, writer>>,
           \A t \in Scanners \ {s} : scan'[t] = scan[t],
           scan'[s].pc = "walking", Witness(scan'[s], draft)
    PROVE  AbsenceInv'
BY AbsenceFrame DEF AbsenceInv, Witness

\* What an exclusion leaves as it was, and that it is reported.
Reported(sc, at, why, ps) ==
    LET after == Witnessed(Excluding(sc, at, why), ps, why) IN
    /\ after \in ScanState
    /\ after.pc = sc.pc /\ after.valid = sc.valid /\ after.found = sc.found
    /\ after.unread = sc.unread /\ after.listed = sc.listed
    /\ sc.excluded \subseteq after.excluded
    /\ Full(sc) => Full(after)
    /\ Full(sc) \/ [path |-> at, reason |-> why] \in after.excluded
    /\ after.kept \subseteq sc.kept
    /\ why # "denied" => \A pd \in after.kept : pd[1] \notin ps

LEMMA ExcludedNow ==
    ASSUME NEW sc \in ScanState, NEW at \in Paths \cup Roots,
           NEW why \in {"denied", "partial", "changed", "duplicate"}, NEW ps
    PROVE  Reported(sc, at, why, ps)
<1> DEFINE x == Excluding(sc, at, why)
           after == Witnessed(x, ps, why)
<1>1. x \in ScanState
  BY ExcludingType
<1>3. /\ x.pc = sc.pc /\ x.valid = sc.valid /\ x.found = sc.found
      /\ x.unread = sc.unread /\ x.listed = sc.listed /\ x.kept = sc.kept
      /\ x.excluded = IF Full(sc) THEN sc.excluded
                      ELSE sc.excluded \cup {[path |-> at, reason |-> why]}
  <2>1. CASE Full(sc)
    <3>1. x = sc
      BY <2>1 DEF Excluding, Full
    <3> QED BY <2>1, <3>1
  <2>2. CASE ~Full(sc)
    <3>1. x = [sc EXCEPT !.excluded = @ \cup {[path |-> at, reason |-> why]}]
      BY <2>2 DEF Excluding, Full
    <3> QED BY <2>2, <3>1 DEF ScanState
  <2> QED BY <2>1, <2>2
<1> HIDE DEF x
<1>5. after \in ScanState
  BY <1>1, WitnessedType
<1>6. /\ after.pc = x.pc /\ after.valid = x.valid /\ after.found = x.found
      /\ after.unread = x.unread /\ after.listed = x.listed /\ after.excluded = x.excluded
      /\ after.kept = IF why = "denied" THEN x.kept ELSE {pd \in x.kept : pd[1] \notin ps}
  BY <1>1 DEF Witnessed, ScanState
<1> HIDE DEF after
<1>7. /\ after \in ScanState
      /\ after.pc = sc.pc /\ after.valid = sc.valid /\ after.found = sc.found
      /\ after.unread = sc.unread /\ after.listed = sc.listed
      /\ sc.excluded \subseteq after.excluded
      /\ Full(sc) => after.excluded = sc.excluded
      /\ Full(sc) \/ [path |-> at, reason |-> why] \in after.excluded
      /\ after.kept \subseteq sc.kept
      /\ why # "denied" => \A pd \in after.kept : pd[1] \notin ps
  BY <1>3, <1>5, <1>6
<1>8. Full(sc) => Full(after)
  BY <1>7 DEF Full
<1> QED BY <1>7, <1>8 DEF after, x, Reported

LEMMA LookingAbsence ==
    ASSUME TypeOK, AbsenceInv, NEW s \in Scanners,
           StartScan(s) \/ ReadRoot(s) \/ RootExcluded(s) \/ Observe(s) \/ Skip(s) \/ Exclude(s)
    PROVE  AbsenceInv'
<1>1. scan[s] \in ScanState /\ scan \in [Scanners -> ScanState]
  BY DEF TypeOK
<1>2. CASE StartScan(s)
  <2>1. PICK valid \in SUBSET Roots :
           scan' = [scan EXCEPT ![s] =
                      [Idle EXCEPT !.pc = "walking", !.valid = valid, !.unread = valid,
                                   !.kept = InPlace, !.quiet = TRUE]]
    BY <1>2 DEF StartScan
  <2>2. /\ scan'[s].pc = "walking" /\ scan'[s].valid = valid /\ scan'[s].unread = valid
        /\ scan'[s].kept = InPlace
    BY <1>1, <2>1 DEF Idle
  <2>3. Witness(scan'[s], draft)
    BY <2>2 DEF Witness, Accounted, InPlace
  <2>4. \A t \in Scanners \ {s} : scan'[t] = scan[t]
    BY <1>1, <2>1
  <2>5. UNCHANGED <<dir, rows, draft, writer>>
    BY <1>2 DEF StartScan, fileSystem, ledger
  <2> QED BY <2>2, <2>3, <2>4, <2>5, WalkAbsence
<1>3. ASSUME Walk(s), NEW next, scan' = [scan EXCEPT ![s] = next], next.pc = "walking",
             next.kept \subseteq scan[s].kept,
             \A pd \in next.kept : Accounted(next, draft, pd)
      PROVE  AbsenceInv'
  <2>1. scan'[s] = next /\ \A t \in Scanners \ {s} : scan'[t] = scan[t]
    BY <1>1, <1>3
  <2>2. UNCHANGED <<dir, rows, draft, writer>>
    BY <1>3 DEF Walk, fileSystem, ledger
  <2>3. Witness(next, draft)
    BY <1>3 DEF AbsenceInv, Witness
  <2> QED BY <1>3, <2>1, <2>2, <2>3, WalkAbsence
<1>4. ASSUME NEW pd \in scan[s].kept
      PROVE  /\ pd[1] \in Paths /\ dir[pd[1]] = pd[2] /\ dir[pd[1]] # NoDir
             /\ Accounted(scan[s], draft, pd)
  BY <1>4, KeptType DEF AbsenceInv, Witness
<1>5. CASE ReadRoot(s)
  <2>1. PICK r \in scan[s].unread :
           scan' = [scan EXCEPT
                      ![s].unread = @ \ {r}, ![s].met = {},
                      ![s].listed = {p \in Paths : RootOf[p] = r /\ dir[p] # NoDir}]
    BY <1>5 DEF ReadRoot
  <2> DEFINE below == {p \in Paths : RootOf[p] = r /\ dir[p] # NoDir}
             next == [scan[s] EXCEPT !.unread = @ \ {r}, !.met = {}, !.listed = below]
  <2>2. scan' = [scan EXCEPT ![s] = next]
    BY <2>1
  <2>3. /\ next.found = scan[s].found /\ next.pc = scan[s].pc /\ next.kept = scan[s].kept
        /\ next.valid = scan[s].valid /\ next.excluded = scan[s].excluded
        /\ next.unread = scan[s].unread \ {r} /\ next.listed = below
    BY <1>1 DEF ScanState
  <2>4. Walk(s) /\ scan[s].pc = "walking" /\ scan[s].listed = {}
    BY <1>5 DEF ReadRoot, Walk
  <2> HIDE DEF next
  <2>5. ASSUME NEW pd \in next.kept PROVE Accounted(next, draft, pd)
    <3>1. Accounted(scan[s], draft, pd) /\ pd[1] \in Paths /\ dir[pd[1]] # NoDir
      BY <1>4, <2>3, <2>5
    <3>2. CASE RootOf[pd[1]] = r
      BY <2>3, <2>4, <3>1, <3>2 DEF Accounted
    <3>3. CASE RootOf[pd[1]] # r
      BY <2>3, <2>4, <3>1, <3>3, AccountedLater DEF Full
    <3> QED BY <3>2, <3>3
  <2> QED BY <1>3, <2>2, <2>3, <2>4, <2>5
<1>6. CASE Observe(s)
  <2>1. PICK p \in Paths :
           /\ Visit(s, p)
           /\ scan' = [scan EXCEPT ![s].listed = @ \ {p},
                                   ![s].found = @ \cup {[path |-> p, dir |-> dir[p],
                                                         activity |-> mtime[dir[p]]]}]
    BY <1>6 DEF Observe
  <2> DEFINE o == [path |-> p, dir |-> dir[p], activity |-> mtime[dir[p]]]
             next == [scan[s] EXCEPT !.listed = @ \ {p}, !.found = @ \cup {o}]
  <2>2. scan' = [scan EXCEPT ![s] = next]
    BY <2>1
  <2>3. /\ next.found = scan[s].found \cup {o} /\ next.pc = scan[s].pc
        /\ next.kept = scan[s].kept /\ next.valid = scan[s].valid
        /\ next.excluded = scan[s].excluded
        /\ next.unread = scan[s].unread /\ next.listed = scan[s].listed \ {p}
    BY <1>1 DEF ScanState
  <2>4. o.path = p /\ o.dir = dir[p]
    OBVIOUS
  <2>5. Walk(s) /\ scan[s].pc = "walking"
    BY <2>1 DEF Visit, Walk
  <2> HIDE DEF next, o
  <2>6. ASSUME NEW pd \in next.kept PROVE Accounted(next, draft, pd)
    <3>1. Accounted(scan[s], draft, pd) /\ dir[pd[1]] = pd[2]
      BY <1>4, <2>3, <2>6
    <3>2. CASE pd[1] = p
      <4>1. o \in next.found /\ o.path = pd[1] /\ o.dir = pd[2]
        BY <2>3, <2>4, <3>1, <3>2
      <4> QED BY <4>1 DEF Accounted
    <3>3. CASE pd[1] # p
      BY <2>3, <2>5, <3>1, <3>3, AccountedLater DEF Full
    <3> QED BY <3>2, <3>3
  <2> QED BY <1>3, <2>2, <2>3, <2>5, <2>6
<1>7. CASE RootExcluded(s)
  <2>1. PICK r \in scan[s].unread, why \in Reasons \ {"partial"} :
           scan' = [scan EXCEPT ![s] =
              [Witnessed(Excluding(scan[s], r, why), {p \in Paths : RootOf[p] = r}, why)
                  EXCEPT !.unread = @ \ {r}]]
    BY <1>7 DEF RootExcluded
  <2> DEFINE after == Witnessed(Excluding(scan[s], r, why), {p \in Paths : RootOf[p] = r}, why)
             next == [after EXCEPT !.unread = @ \ {r}]
  <2>2. r \in Paths \cup Roots /\ why \in {"denied", "partial", "changed", "duplicate"}
    BY <1>1, LedgerAssumption DEF ScanState
  <2>3. /\ after \in ScanState
        /\ after.pc = scan[s].pc /\ after.valid = scan[s].valid /\ after.found = scan[s].found
        /\ after.unread = scan[s].unread /\ after.listed = scan[s].listed
        /\ scan[s].excluded \subseteq after.excluded
        /\ Full(scan[s]) => Full(after)
        /\ Full(scan[s]) \/ [path |-> r, reason |-> why] \in after.excluded
        /\ after.kept \subseteq scan[s].kept
        /\ why # "denied" => \A pd \in after.kept : pd[1] \notin {p \in Paths : RootOf[p] = r}
    <3>1. r \in Paths \cup Roots /\ why \in {"denied", "partial", "changed", "duplicate"}
      BY <2>2
    <3>2. Reported(scan[s], r, why, {p \in Paths : RootOf[p] = r})
      BY <1>1, <3>1, ExcludedNow
    <3> QED BY <3>2 DEF Reported
  <2>4. scan' = [scan EXCEPT ![s] = next]
    BY <2>1
  <2> HIDE DEF after
  <2>5. /\ next.found = after.found /\ next.pc = after.pc /\ next.kept = after.kept
        /\ next.valid = after.valid /\ next.excluded = after.excluded
        /\ next.unread = after.unread \ {r} /\ next.listed = after.listed
    BY <2>3 DEF ScanState
  <2>6. Walk(s) /\ scan[s].pc = "walking"
    BY <1>7 DEF RootExcluded, Walk
  <2> HIDE DEF next
  <2>7. ASSUME NEW pd \in next.kept PROVE Accounted(next, draft, pd)
    <3>1. Accounted(scan[s], draft, pd)
      BY <1>4, <2>3, <2>5, <2>7
    <3>2. CASE RootOf[pd[1]] = r
      <4>1. why = "denied"
        BY <1>4, <2>3, <2>5, <2>7, <3>2
      <4>2. CASE Full(scan[s])
        BY <2>3, <2>5, <4>2 DEF Accounted, Full
      <4>3. CASE ~Full(scan[s])
        <5>1. [path |-> r, reason |-> why] \in next.excluded /\ why \in UncertainReasons
          BY <2>3, <2>5, <4>1, <4>3 DEF UncertainReasons
        <5> QED BY <3>2, <5>1 DEF Accounted, Uncertain, Full
      <4> QED BY <4>2, <4>3
    <3>3. CASE RootOf[pd[1]] # r
      BY <2>3, <2>5, <2>6, <3>1, <3>3, AccountedLater DEF Full
    <3> QED BY <3>2, <3>3
  <2> QED BY <1>3, <2>3, <2>4, <2>5, <2>6, <2>7
<1>8. CASE Skip(s)
  <2>1. PICK p \in Paths :
           /\ Visit(s, p)
           /\ LET why == IF dir[p] = NoDir THEN "changed" ELSE "duplicate"
                  after == Witnessed(Excluding(scan[s], p, why), {p}, why)
              IN scan' = [scan EXCEPT ![s] = [after EXCEPT !.listed = @ \ {p}]]
    BY <1>8 DEF Skip
  <2> DEFINE why == IF dir[p] = NoDir THEN "changed" ELSE "duplicate"
             after == Witnessed(Excluding(scan[s], p, why), {p}, why)
             next == [after EXCEPT !.listed = @ \ {p}]
  <2>2. why \in {"denied", "partial", "changed", "duplicate"} /\ why # "denied"
    OBVIOUS
  <2>3. scan' = [scan EXCEPT ![s] = next]
    BY <2>1
  <2> HIDE DEF why
  <2>4. /\ after \in ScanState
        /\ after.pc = scan[s].pc /\ after.valid = scan[s].valid /\ after.found = scan[s].found
        /\ after.unread = scan[s].unread /\ after.listed = scan[s].listed
        /\ scan[s].excluded \subseteq after.excluded
        /\ Full(scan[s]) => Full(after)
        /\ after.kept \subseteq scan[s].kept
        /\ \A pd \in after.kept : pd[1] \notin {p}
    <3>1. p \in Paths \cup Roots /\ why \in {"denied", "partial", "changed", "duplicate"}
      BY <2>2
    <3>2. Reported(scan[s], p, why, {p})
      BY <1>1, <3>1, ExcludedNow
    <3> QED BY <2>2, <3>2 DEF Reported
  <2> HIDE DEF after
  <2>5. /\ next.found = after.found /\ next.pc = after.pc /\ next.kept = after.kept
        /\ next.valid = after.valid /\ next.excluded = after.excluded
        /\ next.unread = after.unread /\ next.listed = after.listed \ {p}
    BY <2>4 DEF ScanState
  <2>6. Walk(s) /\ scan[s].pc = "walking"
    BY <2>1 DEF Visit, Walk
  <2> HIDE DEF next
  <2>7. ASSUME NEW pd \in next.kept PROVE Accounted(next, draft, pd)
    <3>1. Accounted(scan[s], draft, pd) /\ pd[1] # p
      BY <1>4, <2>4, <2>5, <2>7
    <3> QED BY <2>4, <2>5, <2>6, <3>1, AccountedLater DEF Full
  <2> QED BY <1>3, <2>3, <2>4, <2>5, <2>6, <2>7
<1>9. CASE Exclude(s)
  <2>1. PICK p \in Paths, why \in Reasons, entered \in BOOLEAN :
           /\ Visit(s, p)
           /\ LET after == Witnessed(Excluding(scan[s], p, why), {p}, why)
              IN scan' = [scan EXCEPT ![s] =
                    [after EXCEPT !.listed = @ \ {p},
                                  !.met = IF entered THEN @ \cup {dir[p]} ELSE @]]
    BY <1>9 DEF Exclude
  <2> DEFINE after == Witnessed(Excluding(scan[s], p, why), {p}, why)
             next == [after EXCEPT !.listed = @ \ {p},
                                   !.met = IF entered THEN @ \cup {dir[p]} ELSE @]
  <2>2. scan' = [scan EXCEPT ![s] = next]
    BY <2>1
  <2>3. /\ after \in ScanState
        /\ after.pc = scan[s].pc /\ after.valid = scan[s].valid /\ after.found = scan[s].found
        /\ after.unread = scan[s].unread /\ after.listed = scan[s].listed
        /\ scan[s].excluded \subseteq after.excluded
        /\ Full(scan[s]) => Full(after)
        /\ Full(scan[s]) \/ [path |-> p, reason |-> why] \in after.excluded
        /\ after.kept \subseteq scan[s].kept
        /\ why # "denied" => \A pd \in after.kept : pd[1] \notin {p}
    <3>1. p \in Paths \cup Roots /\ why \in {"denied", "partial", "changed", "duplicate"}
      BY LedgerAssumption
    <3>2. Reported(scan[s], p, why, {p})
      BY <1>1, <3>1, ExcludedNow
    <3> QED BY <3>2 DEF Reported
  <2> HIDE DEF after
  <2>4. /\ next.found = after.found /\ next.pc = after.pc /\ next.kept = after.kept
        /\ next.valid = after.valid /\ next.excluded = after.excluded
        /\ next.unread = after.unread /\ next.listed = after.listed \ {p}
    BY <2>3 DEF ScanState
  <2>5. Walk(s) /\ scan[s].pc = "walking"
    BY <2>1 DEF Visit, Walk
  <2> HIDE DEF next
  <2>6. ASSUME NEW pd \in next.kept PROVE Accounted(next, draft, pd)
    <3>1. Accounted(scan[s], draft, pd)
      BY <1>4, <2>3, <2>4, <2>6
    <3>2. CASE pd[1] = p
      <4>1. why = "denied"
        BY <2>3, <2>4, <2>6, <3>2
      <4>2. CASE Full(scan[s])
        BY <2>3, <2>4, <4>2 DEF Accounted, Full
      <4>3. CASE ~Full(scan[s])
        <5>1. [path |-> p, reason |-> why] \in next.excluded /\ why \in UncertainReasons
          BY <2>3, <2>4, <4>1, <4>3 DEF UncertainReasons
        <5> QED BY <3>2, <5>1 DEF Accounted, Uncertain, Full
      <4> QED BY <4>2, <4>3
    <3>3. CASE pd[1] # p
      BY <2>3, <2>4, <2>5, <3>1, <3>3, AccountedLater DEF Full
    <3> QED BY <3>2, <3>3
  <2> QED BY <1>3, <2>2, <2>3, <2>4, <2>5, <2>6
<1> QED BY <1>2, <1>5, <1>6, <1>7, <1>8, <1>9

-----------------------------------------------------------------------------
\* The rows of a copy that are live after a step were so before, as what they are,
\* or are marked as seen.
LEMMA MatchedLater ==
    ASSUME NEW rs, NEW new, NEW seen, NEW marked, NEW pd, Matched(rs, seen, pd),
           seen \subseteq marked,
           \A i \in DOMAIN new : Live(new, i) =>
              \/ i \in marked
              \/ i \in DOMAIN rs /\ Live(rs, i) /\ rs[i].path = new[i].path /\ rs[i].dir = new[i].dir
    PROVE  Matched(new, marked, pd)
BY DEF Matched

\* A step of the transaction of s that has done with observation o.
LEMMA UpsertAbsence ==
    ASSUME TypeOK, AbsenceInv, NEW s \in Scanners, writer = s, scan[s].pc = "applying",
           UNCHANGED <<dir, rows, writer>>,
           NEW o \in scan[s].found, NEW k, Seen(s, o, k),
           \A i \in DOMAIN draft' : Live(draft', i) =>
              \/ i \in scan[s].seen \cup {k}
              \/ /\ i \in DOMAIN draft /\ Live(draft, i)
                 /\ draft[i].path = draft'[i].path /\ draft[i].dir = draft'[i].dir,
           Matched(draft', scan[s].seen \cup {k}, <<o.path, o.dir>>),
           \A i \in DOMAIN rows : draft'[i].status = "missing" => draft[i].status = "missing"
    PROVE  AbsenceInv'
<1>1. scan[s] \in ScanState /\ scan \in [Scanners -> ScanState]
  BY DEF TypeOK
<1>2. /\ scan'[s].pc = "applying" /\ scan'[s].kept = scan[s].kept
      /\ scan'[s].valid = scan[s].valid /\ scan'[s].excluded = scan[s].excluded
      /\ scan'[s].found = scan[s].found \ {o} /\ scan'[s].seen = scan[s].seen \cup {k}
      /\ \A t \in Scanners \ {s} : scan'[t] = scan[t]
  BY <1>1 DEF Seen, ScanState
<1>3. Witness(scan'[s], draft')
  <2>1. ASSUME NEW pd \in scan[s].kept PROVE Accounted(scan'[s], draft', pd)
    <3>1. Accounted(scan[s], draft, pd)
      BY DEF AbsenceInv, Witness
    <3>2. CASE Matched(draft, scan[s].seen, pd)
      <4>1. Matched(draft', scan'[s].seen, pd)
        BY <1>2, <3>2, MatchedLater
      <4> QED BY <1>2, <4>1 DEF Accounted
    <3>3. CASE o.path = pd[1] /\ o.dir = pd[2]
      <4>1. Matched(draft', scan'[s].seen, pd)
        BY <1>2, <3>3 DEF Matched
      <4> QED BY <1>2, <4>1 DEF Accounted
    <3>4. CASE ~(o.path = pd[1] /\ o.dir = pd[2]) /\ ~Matched(draft, scan[s].seen, pd)
      BY <1>2, <3>1, <3>4 DEF Accounted, Uncertain, Full
    <3> QED BY <3>2, <3>3, <3>4
  <2> QED BY <1>2, <2>1 DEF AbsenceInv, Witness
<1>4. ASSUME NEW t \in Scanners \ {s} PROVE Witness(scan'[t], draft')
  <2>1. scan[t].pc # "applying" /\ scan'[t] = scan[t]
    BY <1>2 DEF AbsenceInv
  <2> QED BY <2>1 DEF AbsenceInv, Witness, Accounted
<1>5. \A t \in Scanners : Witness(scan[t], draft)'
  BY <1>3, <1>4 DEF Witness, Accounted, Uncertain, Full, Matched, Live
<1> QED BY <1>2, <1>5 DEF AbsenceInv

LEMMA ApplyingAbsence ==
    ASSUME IInv, AbsenceInv, NEW s \in Scanners,
           SeenAgain(s) \/ SeenReplaced(s) \/ SeenUnderOtherCase(s) \/ SeenFirst(s),
           scan[s].pc = "applying"
    PROVE  AbsenceInv'
<1> USE DEF IInv
<1>1. scan[s] \in ScanState /\ TypeOK /\ draft \in Seq(Row) /\ DOMAIN rows \subseteq DOMAIN draft
  <2>1. writer = s /\ s # NoScan
    BY DEF SeenAgain, SeenReplaced, SeenUnderOtherCase, SeenFirst, Upserting
  <2>2. Extends(rows, draft) /\ rows \in Seq(Row) /\ draft \in Seq(Row)
    BY <2>1 DEF DraftInv, TypeOK
  <2>3. DOMAIN rows \subseteq DOMAIN draft
    BY <2>2 DEF Extends
  <2> QED BY <2>2, <2>3 DEF TypeOK
<1>2. ASSUME NEW o \in scan[s].found, Upserting(s, o)
      PROVE  /\ writer = s /\ UNCHANGED <<dir, rows, writer>>
             /\ o \in Observation
  BY <1>1, <1>2 DEF Upserting, fileSystem, ScanState
<1>3. ASSUME NEW o \in scan[s].found, NEW i \in DOMAIN draft, Live(draft, i),
             Upserting(s, o), UpdateRow(s, o, i),
             \A j \in DOMAIN draft :
                Live(draft, j) /\ draft[j].path = o.path => j = i
      PROVE  AbsenceInv'
  <2>1. PICK bump \in Times : draft' = [draft EXCEPT ![i] = Updated(@, o, bump)]
    BY <1>3 DEF UpdateRow
  <2> DEFINE row == Updated(draft[i], o, bump)
  <2>2. draft[i] \in Row /\ o \in Observation
    BY <1>1, <1>2, <1>3, ElementOfSeq
  <2>3. row.path = draft[i].path /\ row.dir = draft[i].dir /\ row.status = "present"
    BY <2>2, UpdatedType
  <2>4. draft' = [draft EXCEPT ![i] = row]
    BY <2>1
  <2> HIDE DEF row
  <2>5. /\ DOMAIN draft' = DOMAIN draft
        /\ \A j \in DOMAIN draft : draft'[j] = IF j = i THEN row ELSE draft[j]
    BY <1>1, <2>4
  <2>6. \A j \in DOMAIN draft' : Live(draft', j) =>
            /\ j \in DOMAIN draft /\ Live(draft, j)
            /\ draft[j].path = draft'[j].path /\ draft[j].dir = draft'[j].dir
    BY <1>3, <2>3, <2>5 DEF Live
  <2>7. Matched(draft', scan[s].seen \cup {i}, <<o.path, o.dir>>)
    BY <1>3, <2>6 DEF Matched
  <2>8. \A j \in DOMAIN rows : draft'[j].status = "missing" => draft[j].status = "missing"
    BY <1>1, <2>3, <2>5
  <2>9. Seen(s, o, i)
    BY <1>3 DEF UpdateRow
  <2> QED BY <1>1, <1>2, <1>3, <2>6, <2>7, <2>8, <2>9, UpsertAbsence
<1>4. CASE SeenAgain(s)
  <2>1. PICK o \in scan[s].found :
           Upserting(s, o) /\ \E i \in Exact(draft, o) : UpdateRow(s, o, i)
    BY <1>4 DEF SeenAgain
  <2>2. PICK i \in DOMAIN draft : Live(draft, i) /\ draft[i].path = o.path /\ UpdateRow(s, o, i)
    BY <2>1 DEF Exact
  <2> QED BY <1>3, <2>1, <2>2 DEF Unique
<1>5. CASE SeenUnderOtherCase(s)
  <2>1. PICK o \in scan[s].found :
           /\ Upserting(s, o) /\ Exact(draft, o) = {}
           /\ \E i \in SameFile(draft, o) : UpdateRow(s, o, i)
    BY <1>5 DEF SeenUnderOtherCase
  <2>2. PICK i \in DOMAIN draft : Live(draft, i) /\ UpdateRow(s, o, i)
    BY <2>1 DEF SameFile
  <2>3. \A j \in DOMAIN draft : ~(Live(draft, j) /\ draft[j].path = o.path)
    BY <2>1 DEF Exact
  <2> QED BY <1>3, <2>1, <2>2, <2>3
<1>6. ASSUME NEW o \in scan[s].found, Upserting(s, o), NEW table \in Seq(Row),
             draft' = Append(table, Fresh(o)), Seen(s, o, Len(draft) + 1),
             DOMAIN table = DOMAIN draft,
             \A i \in DOMAIN draft :
                \/ table[i] = draft[i] /\ ~(Live(draft, i) /\ draft[i].path = o.path)
                \/ table[i].status = "replaced"
      PROVE  AbsenceInv'
  <2>1. Fresh(o) \in Row /\ Len(table) = Len(draft) /\ Len(draft) \in Nat
    <3>1. Len(draft) \in Nat /\ Len(table) \in Nat /\ 1 .. Len(table) = 1 .. Len(draft)
      BY <1>1, <1>6, LenProperties
    <3> QED BY <1>2, <1>6, <3>1, FreshType
  <2>2. /\ DOMAIN draft' = DOMAIN draft \cup {Len(draft) + 1}
        /\ \A i \in DOMAIN draft : draft'[i] = table[i]
    BY <1>6, <2>1, AppendProperties
  <2>3. \A i \in DOMAIN draft' : Live(draft', i) =>
            \/ i = Len(draft) + 1
            \/ /\ i \in DOMAIN draft /\ Live(draft, i) /\ draft'[i] = draft[i]
               /\ draft[i].path # o.path
    BY <1>6, <2>2 DEF Live, LiveStates
  <2> DEFINE k == Len(draft) + 1
  <2>4. Matched(draft', scan[s].seen \cup {k}, <<o.path, o.dir>>)
    BY <2>3 DEF Matched
  <2>5. \A i \in DOMAIN rows : draft'[i].status = "missing" => draft[i].status = "missing"
    BY <1>1, <1>6, <2>2
  <2>6. \A i \in DOMAIN draft' : Live(draft', i) =>
            \/ i \in scan[s].seen \cup {k}
            \/ /\ i \in DOMAIN draft /\ Live(draft, i)
               /\ draft[i].path = draft'[i].path /\ draft[i].dir = draft'[i].dir
    BY <2>3
  <2>7. Seen(s, o, k) /\ TypeOK /\ writer = s /\ UNCHANGED <<dir, rows, writer>>
    BY <1>1, <1>2, <1>6
  <2> HIDE DEF k
  <2> QED BY <2>4, <2>5, <2>6, <2>7, UpsertAbsence
<1>7. CASE SeenFirst(s)
  <2>1. PICK o \in scan[s].found :
           /\ Upserting(s, o) /\ Exact(draft, o) = {}
           /\ draft' = Append(draft, Fresh(o))
           /\ Seen(s, o, Len(draft) + 1)
    BY <1>7 DEF SeenFirst
  <2>2. \A j \in DOMAIN draft : ~(Live(draft, j) /\ draft[j].path = o.path)
    BY <2>1 DEF Exact
  <2> QED BY <1>1, <1>6, <2>1, <2>2
<1>8. CASE SeenReplaced(s)
  <2>1. PICK o \in scan[s].found :
           /\ Upserting(s, o)
           /\ \E i \in Exact(draft, o) :
                 draft' = Append([draft EXCEPT ![i].status = "replaced"], Fresh(o))
           /\ Seen(s, o, Len(draft) + 1)
    BY <1>8 DEF SeenReplaced
  <2>2. PICK i \in DOMAIN draft :
           /\ Live(draft, i) /\ draft[i].path = o.path
           /\ draft' = Append([draft EXCEPT ![i].status = "replaced"], Fresh(o))
    BY <2>1 DEF Exact
  <2> DEFINE row == [draft[i] EXCEPT !.status = "replaced"]
             table == [draft EXCEPT ![i] = row]
  <2>3. draft[i] \in Row
    BY <1>1, ElementOfSeq
  <2>4. row \in Row /\ row.status = "replaced"
    BY <2>3 DEF Row
  <2>5. draft' = Append(table, Fresh(o))
    BY <2>2
  <2> HIDE DEF row
  <2>6. /\ table \in Seq(Row) /\ DOMAIN table = DOMAIN draft
        /\ \A j \in DOMAIN draft : table[j] = IF j = i THEN row ELSE draft[j]
    BY <1>1, <2>4
  <2> HIDE DEF table
  <2>7. \A j \in DOMAIN draft :
           \/ table[j] = draft[j] /\ ~(Live(draft, j) /\ draft[j].path = o.path)
           \/ table[j].status = "replaced"
    BY <2>2, <2>4, <2>6 DEF Unique
  <2> QED BY <1>6, <2>1, <2>5, <2>6, <2>7
<1> QED BY <1>4, <1>5, <1>7, <1>8

\* A transaction begins with a copy of the table, and ends with it or without.
LEMMA BeginAbsence ==
    ASSUME TypeOK, AbsenceInv, NEW s \in Scanners, BeginApply(s)
    PROVE  AbsenceInv'
<1>1. scan[s] \in ScanState /\ scan \in [Scanners -> ScanState]
  BY DEF TypeOK
<1>2. /\ UNCHANGED <<dir, rows>> /\ writer = NoScan /\ writer' = s /\ draft' = rows
      /\ scan[s].pc = "walking" /\ scan[s].unread = {} /\ scan[s].listed = {}
      /\ scan' = [scan EXCEPT ![s] = [scan[s] EXCEPT !.pc = "applying"]]
  BY DEF BeginApply, fileSystem
<1>3. /\ scan'[s].pc = "applying" /\ scan'[s].found = scan[s].found
      /\ scan'[s].valid = scan[s].valid /\ scan'[s].excluded = scan[s].excluded
      /\ scan'[s].kept = scan[s].kept
      /\ \A t \in Scanners \ {s} : scan'[t] = scan[t]
  BY <1>1, <1>2 DEF ScanState
<1>4. \A t \in Scanners : scan[t].pc # "applying"
  BY <1>2, LedgerAssumption DEF AbsenceInv
<1>5. ASSUME NEW t \in Scanners PROVE Witness(scan'[t], draft')
  BY <1>2, <1>3, <1>4 DEF AbsenceInv, Witness, Accounted, Uncertain, Full
<1>6. \A t \in Scanners : Witness(scan[t], draft)'
  BY <1>2, <1>5 DEF Witness, Accounted, Uncertain, Full, Matched, Live
<1>7. \A t \in Scanners : scan'[t].pc = "applying" => writer' = t
  BY <1>2, <1>3, <1>4
<1>8. \A i \in DOMAIN rows' : rows'[i].status = "present" => draft'[i].status # "missing"
  BY <1>2
<1> QED BY <1>6, <1>7, <1>8 DEF AbsenceInv

LEMMA EndAbsence ==
    ASSUME TypeOK, AbsenceInv, NEW s \in Scanners, Commit(s) \/ RollBack(s)
    PROVE  AbsenceInv'
<1>1. /\ dir' = dir /\ writer = s /\ writer' = NoScan
      /\ scan' = [scan EXCEPT ![s] = Idle]
  BY DEF Commit, RollBack, fileSystem
<1>2. /\ scan'[s].pc = "idle" /\ scan'[s].kept = {}
      /\ \A t \in Scanners \ {s} : scan'[t] = scan[t]
  BY <1>1 DEF Idle, TypeOK
<1>3. \A t \in Scanners \ {s} : scan[t].pc # "applying"
  BY <1>1 DEF AbsenceInv
<1>4. ASSUME NEW t \in Scanners PROVE Witness(scan'[t], draft')
  BY <1>2, <1>3 DEF AbsenceInv, Witness, Accounted
<1>5. \A t \in Scanners : Witness(scan[t], draft)'
  BY <1>1, <1>4 DEF Witness, Accounted, Uncertain, Full, Matched, Live
<1> QED BY <1>1, <1>2, <1>3, <1>5 DEF AbsenceInv

LEMMA AbsenceStep ==
    ASSUME IInv, AbsenceInv, WriterInv, [Next]_vars
    PROVE  AbsenceInv'
<1>0. TypeOK
  BY DEF IInv
<1>1. CASE UNCHANGED vars
  <2>1. UNCHANGED <<dir, rows, draft, writer, scan>>
    BY <1>1 DEF vars, fileSystem, ledger
  <2> QED BY <2>1, AbsenceFrame DEF AbsenceInv, Witness
<1>2. ASSUME NEW p \in Paths, NEW flag \in BOOLEAN, FindRow(p, flag) PROVE AbsenceInv'
  <2>1. UNCHANGED <<dir, rows, draft, writer, scan>>
    BY <1>2 DEF FindRow, fileSystem, ledger
  <2> QED BY <2>1, AbsenceFrame DEF AbsenceInv, Witness
<1>3. CASE SetProtected
  <2>1. UNCHANGED <<dir, draft, writer, scan>> /\ writer = NoScan
    BY <1>3 DEF SetProtected, fileSystem
  <2>2. \A s \in Scanners : Witness(scan[s], draft)'
    BY <2>1 DEF AbsenceInv, Witness, Accounted, Uncertain, Full, Matched, Live
  <2> QED BY <2>1, <2>2 DEF AbsenceInv
<1>4. ASSUME NEW s \in Scanners, ScanStep(s) PROVE AbsenceInv'
  <2>1. CASE SeenAgain(s) \/ SeenReplaced(s) \/ SeenUnderOtherCase(s) \/ SeenFirst(s)
    <3>1. scan[s].pc = "applying"
      BY <2>1 DEF SeenAgain, SeenReplaced, SeenUnderOtherCase, SeenFirst, Upserting, WriterInv
    <3> QED BY <2>1, <3>1, ApplyingAbsence
  <2>2. CASE StartScan(s) \/ ReadRoot(s) \/ RootExcluded(s) \/ Observe(s) \/ Skip(s) \/ Exclude(s)
    BY <1>0, <2>2, LookingAbsence
  <2>3. CASE BeginApply(s)
    BY <1>0, <2>3, BeginAbsence
  <2>4. CASE Commit(s) \/ RollBack(s)
    BY <1>0, <2>4, EndAbsence
  <2> QED BY <1>4, <2>1, <2>2, <2>3, <2>4 DEF ScanStep
<1> QED BY <1>0, <1>1, <1>2, <1>3, <1>4, FileSystemAbsence DEF Next

LEMMA AbsenceInit == Init => AbsenceInv
<1> SUFFICES ASSUME Init PROVE AbsenceInv
  OBVIOUS
<1>1. \A s \in Scanners : scan[s].kept = {} /\ scan[s].pc = "idle"
  BY DEF Init, Idle
<1> QED BY <1>1 DEF Init, AbsenceInv, Witness

\* Under a transaction the table changes only by its commit.
LEMMA OnlyCommitWrites ==
    ASSUME [Next]_vars, NEW s \in Scanners, writer = s, rows' # rows
    PROVE  Commit(s)
<1>1. s # NoScan
  BY LedgerAssumption
<1>2. ~SetProtected
  BY <1>1 DEF SetProtected
<1>3. /\ ~UNCHANGED vars /\ ~FileSystemStep
      /\ ~\E p \in Paths, flag \in BOOLEAN : FindRow(p, flag)
  BY DEF vars, FileSystemStep, Place, Take, Rename, Work, Change, FindRow, ledger
<1>4. PICK t \in Scanners : ScanStep(t)
  BY <1>2, <1>3 DEF Next
<1>5. /\ ~StartScan(t) /\ ~ReadRoot(t) /\ ~RootExcluded(t) /\ ~Observe(t)
      /\ ~Skip(t) /\ ~Exclude(t)
  BY DEF StartScan, ReadRoot, RootExcluded, Observe, Skip, Exclude, Visit, Walk, ledger
<1>6. /\ ~BeginApply(t) /\ ~SeenAgain(t) /\ ~SeenReplaced(t) /\ ~SeenUnderOtherCase(t)
      /\ ~SeenFirst(t) /\ ~RollBack(t)
  BY DEF BeginApply, SeenAgain, SeenReplaced, SeenUnderOtherCase, SeenFirst, Upserting, RollBack
<1> QED BY <1>4, <1>5, <1>6 DEF ScanStep, Commit

LEMMA NothingKeptIsMissed ==
    ASSUME IInv, AbsenceInv, [Next]_vars, NEW i \in DOMAIN rows, NEW s \in Scanners,
           Missed(s, i), Cardinality(scan[s].excluded) < MaxDiagnostics
    PROVE  <<rows[i].path, rows[i].dir>> \notin scan[s].kept
<1>1. rows' # rows /\ writer = s /\ s # NoScan /\ rows[i].status = "present"
      /\ rows'[i].status = "missing"
  BY LedgerAssumption DEF AbsenceInv, Missed
<1>3. Commit(s)
  BY <1>1, OnlyCommitWrites
<1>4. /\ i \in DOMAIN draft /\ draft[i].path = rows[i].path /\ draft[i].dir = rows[i].dir
      /\ draft[i].status # "missing"
  <2>1. Extends(rows, draft) /\ rows \in Seq(Row) /\ draft \in Seq(Row)
    BY <1>1 DEF IInv, DraftInv, TypeOK
  <2>2. i \in DOMAIN draft
    BY <2>1 DEF Extends
  <2> QED BY <1>1, <2>1, <2>2 DEF Extends, AbsenceInv
<1>5. i \in Absent(draft, scan[s]) /\ scan[s].found = {}
  <2>1. rows'[i] = IF i \in Absent(draft, scan[s])
                   THEN [draft[i] EXCEPT !.status = "missing"] ELSE draft[i]
    BY <1>3, <1>4 DEF Commit
  <2> QED BY <1>1, <1>3, <1>4, <2>1 DEF Commit
<1>6. /\ Live(draft, i) /\ i \notin scan[s].seen
      /\ RootOf[rows[i].path] \in scan[s].valid /\ ~Uncertain(scan[s], rows[i].path)
  BY <1>4, <1>5 DEF Absent
<1>7. ~Accounted(scan[s], draft, <<rows[i].path, rows[i].dir>>)
  BY <1>3, <1>4, <1>5, <1>6 DEF Accounted, Matched, Full, Missed
<1> QED BY <1>7 DEF AbsenceInv, Witness

\* A refusal is not an absence: a scan whose report had room to the end declares
\* a workspace missing only if it was not at the path of its row all through the
\* scan, was found not whole, or could not be read for a reason the code does not
\* hold uncertain.
THEOREM AbsenceProven == Spec => AbsenceIsProven
<1>1. IInv /\ AbsenceInv /\ [Next]_vars =>
        [\A i \in DOMAIN rows, s \in Scanners :
           Missed(s, i) /\ Cardinality(scan[s].excluded) < MaxDiagnostics
           => <<rows[i].path, rows[i].dir>> \notin scan[s].kept]_vars
  BY NothingKeptIsMissed
<1>2. IInv /\ AbsenceInv /\ WriterInv /\ [Next]_vars => IInv' /\ AbsenceInv' /\ WriterInv'
  BY StepInv, AbsenceStep, WriterStep DEF IInv, WriterInv
<1> QED BY InitInv, ProtectionInit, AbsenceInit, <1>1, <1>2, PTL DEF Spec, AbsenceIsProven

-----------------------------------------------------------------------------
(* Mirroring.  A scan of all roots during which nothing moved has found    *)
(* only what is in place (Faithful), has found or has still to come to all *)
(* of it, or has marked a row for it (Complete), and the rows it has       *)
(* marked are one for each such workspace (Exactly).                       *)

\* A directory is in one place, and of paths that differ in case one is taken.
Single ==
    \A p, q \in Paths : p # q /\ dir[p] # NoDir =>
        dir[p] # dir[q] /\ (~SamePath(p, q) \/ dir[q] = NoDir)

\* Row i of rs is the one for the workspace pd.
StandsFor(rs, i, pd) ==
    /\ i \in DOMAIN rs /\ rs[i].status = "present"
    /\ rs[i].dir = pd[2] /\ SamePath(rs[i].path, pd[1])

Faithful(sc) ==
    /\ sc.excluded = {}
    /\ \A o \in sc.found : <<o.path, o.dir>> \in InPlace
    /\ \A o, other \in sc.found : o.dir = other.dir => o = other

Complete(sc, rs) ==
    \A pd \in InPlace :
        \/ \E o \in sc.found : o.path = pd[1] /\ o.dir = pd[2]
        \/ sc.pc = "walking" /\ (RootOf[pd[1]] \in sc.unread \/ pd[1] \in sc.listed)
        \/ sc.pc = "applying" /\ \E i \in sc.seen : StandsFor(rs, i, pd)

Exactly(sc, rs) ==
    /\ sc.pc = "walking" => sc.seen = {}
    /\ \A i \in sc.seen : \E pd \in InPlace :
           StandsFor(rs, i, pd) /\ \A o \in sc.found : o.dir # pd[2]
    /\ \A i, j \in sc.seen : rs[i].dir = rs[j].dir => i = j

Mirroring(sc, rs) == Faithful(sc) /\ Complete(sc, rs) /\ Exactly(sc, rs)

Undisturbed(sc) == sc.quiet /\ sc.valid = Roots

MirrorInv ==
    /\ Single
    /\ \A s \in Scanners : scan[s].pc = "applying" => writer = s
    /\ \A s \in Scanners : Undisturbed(scan[s]) => Mirroring(scan[s], draft)

\* A step that leaves the directories where they are.
LEMMA MirrorFrame ==
    ASSUME MirrorInv, dir' = dir,
           \A s \in Scanners : scan'[s].pc = "applying" => writer' = s,
           \A s \in Scanners : Undisturbed(scan'[s]) => Mirroring(scan'[s], draft')
    PROVE  MirrorInv'
<1>1. Single'
  BY DEF MirrorInv, Single, SamePath
<1>2. \A s \in Scanners : (Undisturbed(scan[s]) => Mirroring(scan[s], draft))'
  BY DEF Undisturbed, Mirroring, Faithful, Complete, Exactly, StandsFor, InPlace, SamePath
<1> QED BY <1>1, <1>2 DEF MirrorInv

\* Nor does it touch scans or the copy of the table.
LEMMA MirrorStays ==
    ASSUME MirrorInv, UNCHANGED <<dir, scan, draft, writer>>
    PROVE  MirrorInv'
BY MirrorFrame DEF MirrorInv

LEMMA FileSystemMirror ==
    ASSUME TypeOK, MirrorInv, ~CaseSensitive, FileSystemStep
    PROVE  MirrorInv'
<1>1. UNCHANGED <<draft, writer>>
  BY DEF FileSystemStep, Place, Take, Rename, Work, Change, ledger
<1>2. ASSUME NEW p \in Paths, Disturb(p), Single'
      PROVE  MirrorInv'
  <2>1. ASSUME NEW s \in Scanners
        PROVE  scan'[s].pc = scan[s].pc /\ ~scan'[s].quiet
    <3>1. scan[s] \in ScanState
      BY DEF TypeOK
    <3> QED BY <1>2, <3>1 DEF Disturb, ScanState
  <2> QED BY <1>1, <1>2, <2>1 DEF MirrorInv, Undisturbed
<1>3. dir \in [Paths -> Dirs \cup {NoDir}]
  BY DEF TypeOK
<1>4. ASSUME NEW p \in Paths, NEW d \in Dirs, Place(p, d) PROVE MirrorInv'
  <2>1. /\ Disturb(p) /\ dir' = [dir EXCEPT ![p] = d]
        /\ \A q \in Paths : dir[q] # d
        /\ \A q \in Paths \ {p} : SamePath(p, q) => dir[q] = NoDir
    BY <1>4 DEF Place, Free
  <2>2. \A q \in Paths : dir'[q] = IF q = p THEN d ELSE dir[q]
    BY <1>3, <2>1
  <2>3. Single'
    BY <2>1, <2>2 DEF MirrorInv, Single, SamePath
  <2> QED BY <1>2, <2>1, <2>3
<1>5. ASSUME NEW p \in Paths, Take(p) PROVE MirrorInv'
  <2>1. Disturb(p) /\ dir' = [dir EXCEPT ![p] = NoDir]
    BY <1>5 DEF Take
  <2>2. \A q \in Paths : dir'[q] = IF q = p THEN NoDir ELSE dir[q]
    BY <1>3, <2>1
  <2>3. Single'
    BY <2>2 DEF MirrorInv, Single, SamePath
  <2> QED BY <1>2, <2>1, <2>3
<1>6. ASSUME NEW p \in Paths, NEW q \in Paths, Rename(p, q) PROVE MirrorInv'
  <2>1. /\ Disturb(p) /\ dir' = [dir EXCEPT ![q] = dir[p], ![p] = NoDir]
        /\ p # q /\ dir[p] # NoDir /\ dir[q] = NoDir
        /\ \A r \in Paths \ {p} : SamePath(q, r) => dir[r] = NoDir
    BY <1>6 DEF Rename, Free
  <2>2. \A r \in Paths :
            dir'[r] = IF r = p THEN NoDir ELSE IF r = q THEN dir[p] ELSE dir[r]
    BY <1>3, <2>1
  <2>3. Single'
    <3> SUFFICES ASSUME NEW r \in Paths, NEW t \in Paths, r # t, dir'[r] # NoDir
                 PROVE  dir'[r] # dir'[t] /\ (~SamePath(r, t) \/ dir'[t] = NoDir)
      BY DEF Single, SamePath
    <3>1. \A x, y \in Paths : x # y /\ dir[x] # NoDir =>
             dir[x] # dir[y] /\ (CaseOf[x] = CaseOf[y] => dir[y] = NoDir)
      BY DEF MirrorInv, Single, SamePath
    <3>2. \A x \in Paths \ {p} : CaseOf[x] = CaseOf[q] => dir[x] = NoDir
      BY <2>1 DEF SamePath
    <3>3. CASE r = q
      <4>1. t # p => dir[p] # dir[t]
        BY <2>1, <3>1
      <4> QED BY <2>1, <2>2, <3>2, <3>3, <4>1 DEF SamePath
    <3>4. CASE t = q
      <4>1. r # p /\ dir'[r] = dir[r] /\ dir'[t] = dir[p]
        BY <2>1, <2>2, <3>4
      <4> QED BY <2>1, <3>1, <3>2, <3>4, <4>1 DEF SamePath
    <3>5. CASE r # q /\ t # q
      <4>1. r # p /\ dir'[r] = dir[r]
        BY <2>2, <3>5
      <4>2. dir'[t] = IF t = p THEN NoDir ELSE dir[t]
        BY <2>2, <3>5
      <4> QED BY <3>1, <4>1, <4>2 DEF SamePath
    <3> QED BY <3>3, <3>4, <3>5
  <2> QED BY <1>2, <2>1, <2>3
<1>7. ASSUME NEW d \in Dirs, Work(d) PROVE MirrorInv'
  BY <1>1, <1>7, MirrorStays DEF Work
<1> QED BY <1>4, <1>5, <1>6, <1>7 DEF FileSystemStep

-----------------------------------------------------------------------------
\* A step of scan s that only looks.
LEMMA LookingMirror ==
    ASSUME TypeOK, MirrorInv, NEW s \in Scanners,
           StartScan(s) \/ ReadRoot(s) \/ RootExcluded(s) \/ Observe(s) \/ Skip(s) \/ Exclude(s)
    PROVE  MirrorInv'
<1>1. scan[s] \in ScanState /\ scan \in [Scanners -> ScanState]
  BY DEF TypeOK
<1>2. UNCHANGED <<dir, draft, writer>>
  BY DEF StartScan, ReadRoot, RootExcluded, Observe, Skip, Exclude, Visit, Walk, fileSystem, ledger
<1>3. ASSUME NEW next, scan' = [scan EXCEPT ![s] = next], next.pc = "walking",
             Undisturbed(next) => Mirroring(next, draft)
      PROVE  MirrorInv'
  <2>1. scan'[s] = next /\ \A t \in Scanners \ {s} : scan'[t] = scan[t]
    BY <1>1, <1>3
  <2> QED BY <1>2, <1>3, <2>1, MirrorFrame DEF MirrorInv
<1>4. CASE StartScan(s)
  <2>1. PICK valid \in SUBSET Roots :
           scan' = [scan EXCEPT ![s] =
                      [Idle EXCEPT !.pc = "walking", !.valid = valid, !.unread = valid,
                                   !.kept = InPlace, !.quiet = TRUE]]
    BY <1>4 DEF StartScan
  <2> DEFINE next == [Idle EXCEPT !.pc = "walking", !.valid = valid, !.unread = valid,
                                  !.kept = InPlace, !.quiet = TRUE]
  <2>2. /\ next.pc = "walking" /\ next.valid = valid /\ next.unread = valid
        /\ next.excluded = {} /\ next.found = {} /\ next.seen = {}
    BY DEF Idle
  <2>3. scan' = [scan EXCEPT ![s] = next]
    BY <2>1
  <2> HIDE DEF next
  <2>4. \A pd \in InPlace : RootOf[pd[1]] \in Roots
    BY DEF InPlace
  <2>5. Undisturbed(next) => Mirroring(next, draft)
    BY <2>2, <2>4 DEF Undisturbed, Mirroring, Faithful, Complete, Exactly
  <2> QED BY <1>3, <2>2, <2>3, <2>5
<1>5. CASE ReadRoot(s)
  <2>1. PICK r \in scan[s].unread :
           scan' = [scan EXCEPT
                      ![s].unread = @ \ {r}, ![s].met = {},
                      ![s].listed = {p \in Paths : RootOf[p] = r /\ dir[p] # NoDir}]
    BY <1>5 DEF ReadRoot
  <2> DEFINE below == {p \in Paths : RootOf[p] = r /\ dir[p] # NoDir}
             next == [scan[s] EXCEPT !.unread = @ \ {r}, !.met = {}, !.listed = below]
  <2>2. scan' = [scan EXCEPT ![s] = next]
    BY <2>1
  <2>3. /\ next.pc = scan[s].pc /\ next.valid = scan[s].valid /\ next.quiet = scan[s].quiet
        /\ next.excluded = scan[s].excluded /\ next.found = scan[s].found
        /\ next.seen = scan[s].seen
        /\ next.unread = scan[s].unread \ {r} /\ next.listed = below
    BY <1>1 DEF ScanState
  <2> HIDE DEF next
  <2>4. scan[s].pc = "walking" /\ scan[s].listed = {}
    BY <1>5 DEF ReadRoot, Walk
  <2>5. ASSUME NEW pd \in InPlace
        PROVE  pd[1] \in Paths /\ dir[pd[1]] # NoDir
    BY <2>5 DEF InPlace
  <2>6. Mirroring(scan[s], draft) => Mirroring(next, draft)
    <3> SUFFICES ASSUME Mirroring(scan[s], draft) PROVE Mirroring(next, draft)
      OBVIOUS
    <3>1. Faithful(next) /\ Exactly(next, draft)
      BY <2>3 DEF Mirroring, Faithful, Exactly
    <3>2. Complete(next, draft)
      BY <2>3, <2>4, <2>5 DEF Mirroring, Complete
    <3> QED BY <3>1, <3>2 DEF Mirroring
  <2>7. Undisturbed(next) => Undisturbed(scan[s])
    BY <2>3 DEF Undisturbed
  <2> QED BY <1>3, <2>2, <2>3, <2>4, <2>6, <2>7 DEF MirrorInv
<1>6. CASE Observe(s)
  <2>1. PICK p \in Paths :
           /\ Visit(s, p) /\ dir[p] # NoDir /\ dir[p] \notin Visited(scan[s])
           /\ scan' = [scan EXCEPT ![s].listed = @ \ {p},
                                   ![s].found = @ \cup {[path |-> p, dir |-> dir[p],
                                                         activity |-> mtime[dir[p]]]}]
    BY <1>6 DEF Observe
  <2> DEFINE o == [path |-> p, dir |-> dir[p], activity |-> mtime[dir[p]]]
             next == [scan[s] EXCEPT !.listed = @ \ {p}, !.found = @ \cup {o}]
  <2>2. scan' = [scan EXCEPT ![s] = next]
    BY <2>1
  <2>3. /\ next.pc = scan[s].pc /\ next.valid = scan[s].valid /\ next.quiet = scan[s].quiet
        /\ next.excluded = scan[s].excluded /\ next.found = scan[s].found \cup {o}
        /\ next.seen = scan[s].seen /\ next.unread = scan[s].unread
        /\ next.listed = scan[s].listed \ {p}
    BY <1>1 DEF ScanState
  <2>4. o.path = p /\ o.dir = dir[p] /\ <<p, dir[p]>> \in InPlace
    BY <2>1 DEF InPlace, TypeOK
  <2> HIDE DEF next, o
  <2>5. \A other \in scan[s].found : other.dir # o.dir
    BY <2>1, <2>4 DEF Visited
  <2>6. scan[s].pc = "walking"
    BY <2>1 DEF Visit, Walk
  <2>7. Mirroring(scan[s], draft) => Mirroring(next, draft)
    <3> SUFFICES ASSUME Mirroring(scan[s], draft) PROVE Mirroring(next, draft)
      OBVIOUS
    <3>1. Faithful(next)
      BY <2>3, <2>4, <2>5 DEF Mirroring, Faithful
    <3>2. Exactly(next, draft)
      BY <2>3, <2>6 DEF Mirroring, Exactly
    <3>3. Complete(next, draft)
      <4> SUFFICES ASSUME NEW pd \in InPlace
                   PROVE  \/ \E other \in next.found : other.path = pd[1] /\ other.dir = pd[2]
                          \/ RootOf[pd[1]] \in next.unread \/ pd[1] \in next.listed
        BY <2>3, <2>6 DEF Complete
      <4>1. CASE pd[1] = p
        <5>1. pd[2] = dir[p]
          BY <4>1 DEF InPlace
        <5> QED BY <2>3, <2>4, <4>1, <5>1
      <4>2. CASE pd[1] # p
        BY <2>3, <2>6, <4>2 DEF Mirroring, Complete
      <4> QED BY <4>1, <4>2
    <3> QED BY <3>1, <3>2, <3>3 DEF Mirroring
  <2>8. Undisturbed(next) => Undisturbed(scan[s])
    BY <2>3 DEF Undisturbed
  <2> QED BY <1>3, <2>2, <2>3, <2>6, <2>7, <2>8 DEF MirrorInv
<1>7. ASSUME NEW at \in Paths \cup Roots, NEW why \in {"denied", "partial", "changed", "duplicate"},
             NEW ps
      PROVE  LET after == Witnessed(Excluding(scan[s], at, why), ps, why)
             IN after \in ScanState /\ ~after.quiet /\ after.pc = scan[s].pc
  <2>1. Excluding(scan[s], at, why) \in ScanState
    BY <1>1, <1>7, ExcludingType
  <2>2. Excluding(scan[s], at, why).pc = scan[s].pc
    BY <1>1 DEF Excluding, ScanState
  <2>3. Witnessed(Excluding(scan[s], at, why), ps, why) \in ScanState
    BY <2>1, WitnessedType
  <2> QED BY <2>1, <2>2, <2>3 DEF Witnessed, ScanState
<1>8. ASSUME NEW next, scan' = [scan EXCEPT ![s] = next],
             NEW after \in ScanState, ~after.quiet, after.pc = scan[s].pc,
             next.quiet = after.quiet, next.pc = after.pc, Walk(s)
      PROVE  MirrorInv'
  BY <1>3, <1>8 DEF Walk, Undisturbed
<1>9. CASE RootExcluded(s)
  <2>1. PICK r \in scan[s].unread, why \in Reasons :
           LET after == Witnessed(Excluding(scan[s], r, why), {p \in Paths : RootOf[p] = r}, why)
           IN scan' = [scan EXCEPT ![s] = [after EXCEPT !.unread = @ \ {r}]]
    BY <1>9 DEF RootExcluded
  <2> DEFINE after == Witnessed(Excluding(scan[s], r, why), {p \in Paths : RootOf[p] = r}, why)
             next == [after EXCEPT !.unread = @ \ {r}]
  <2>2. scan' = [scan EXCEPT ![s] = next]
    BY <2>1
  <2>3. r \in Paths \cup Roots /\ why \in {"denied", "partial", "changed", "duplicate"}
    BY <1>1, LedgerAssumption DEF ScanState
  <2>4. after \in ScanState /\ ~after.quiet /\ after.pc = scan[s].pc
    BY <1>7, <2>3
  <2> HIDE DEF after
  <2>5. next.quiet = after.quiet /\ next.pc = after.pc
    BY <2>4 DEF ScanState
  <2> HIDE DEF next
  <2> QED BY <1>8, <1>9, <2>2, <2>4, <2>5 DEF RootExcluded
<1>10. CASE Skip(s)
  <2>1. PICK p \in Paths, why \in {"changed", "duplicate"} :
           LET after == Witnessed(Excluding(scan[s], p, why), {p}, why)
           IN scan' = [scan EXCEPT ![s] = [after EXCEPT !.listed = @ \ {p}]]
    BY <1>10 DEF Skip
  <2> DEFINE after == Witnessed(Excluding(scan[s], p, why), {p}, why)
             next == [after EXCEPT !.listed = @ \ {p}]
  <2>2. scan' = [scan EXCEPT ![s] = next]
    BY <2>1
  <2>3. after \in ScanState /\ ~after.quiet /\ after.pc = scan[s].pc
    BY <1>7
  <2> HIDE DEF after
  <2>4. next.quiet = after.quiet /\ next.pc = after.pc
    BY <2>3 DEF ScanState
  <2> HIDE DEF next
  <2>5. Walk(s)
    BY <1>10 DEF Skip, Visit
  <2> QED BY <1>8, <2>2, <2>3, <2>4, <2>5
<1>11. CASE Exclude(s)
  <2>1. PICK p \in Paths, why \in Reasons, entered \in BOOLEAN :
           LET after == Witnessed(Excluding(scan[s], p, why), {p}, why)
           IN scan' = [scan EXCEPT ![s] =
                 [after EXCEPT !.listed = @ \ {p},
                               !.met = IF entered THEN @ \cup {dir[p]} ELSE @]]
    BY <1>11 DEF Exclude
  <2> DEFINE after == Witnessed(Excluding(scan[s], p, why), {p}, why)
             next == [after EXCEPT !.listed = @ \ {p},
                                   !.met = IF entered THEN @ \cup {dir[p]} ELSE @]
  <2>2. scan' = [scan EXCEPT ![s] = next]
    BY <2>1
  <2>3. after \in ScanState /\ ~after.quiet /\ after.pc = scan[s].pc
    <3>1. why \in {"denied", "partial", "changed", "duplicate"}
      BY LedgerAssumption
    <3> QED BY <1>7, <3>1
  <2> HIDE DEF after
  <2>4. next.quiet = after.quiet /\ next.pc = after.pc
    BY <2>3 DEF ScanState
  <2> HIDE DEF next
  <2>5. Walk(s)
    BY <1>11 DEF Exclude, Visit
  <2> QED BY <1>8, <2>2, <2>3, <2>4, <2>5
<1> QED BY <1>4, <1>5, <1>6, <1>9, <1>10, <1>11

-----------------------------------------------------------------------------
\* A row already marked at the path of an observation is one for its directory.
LEMMA MarkedIsSame ==
    ASSUME Single, NEW sc, NEW rs, Mirroring(sc, rs), NEW o \in sc.found,
           NEW i \in sc.seen, rs[i].path = o.path
    PROVE  rs[i].dir = o.dir
<1>1. PICK pd \in InPlace : StandsFor(rs, i, pd)
  BY DEF Mirroring, Exactly
<1>2. <<o.path, o.dir>> \in InPlace
  BY DEF Mirroring, Faithful
<1>3. /\ o.path \in Paths /\ dir[o.path] = o.dir /\ o.dir # NoDir
      /\ pd[1] \in Paths /\ dir[pd[1]] = pd[2] /\ pd[2] # NoDir
  BY <1>2 DEF InPlace
<1>4. SamePath(o.path, pd[1])
  BY <1>1 DEF StandsFor, SamePath
<1>5. o.path = pd[1]
  BY <1>3, <1>4 DEF Single
<1> QED BY <1>1, <1>3, <1>5 DEF StandsFor

\* Observation o is done with, and row k is marked for it.
DoneWith(sc, next, o, k) ==
    /\ o \in sc.found /\ sc.pc = "applying" /\ next.pc = "applying"
    /\ next.excluded = sc.excluded /\ next.found = sc.found \ {o}
    /\ next.seen = sc.seen \cup {k}

\* The rows marked before are as they were, up to their activity and protection.
MarkedAsBefore(sc, rs, new) ==
    \A i \in sc.seen : /\ i \in DOMAIN new /\ new[i].status = rs[i].status
                       /\ new[i].path = rs[i].path /\ new[i].dir = rs[i].dir

LEMMA MirrorUpsert ==
    ASSUME NEW sc, NEW next, NEW rs, NEW new, NEW o, NEW k,
           Mirroring(sc, rs), DoneWith(sc, next, o, k), MarkedAsBefore(sc, rs, new),
           StandsFor(new, k, <<o.path, o.dir>>)
    PROVE  Mirroring(next, new)
<1> USE DEF DoneWith, MarkedAsBefore
<1>1. Faithful(next)
  BY DEF Mirroring, Faithful
<1>2. ASSUME NEW i \in sc.seen, NEW pd, StandsFor(rs, i, pd) PROVE StandsFor(new, i, pd)
  BY <1>2 DEF StandsFor
<1>3. Complete(next, new)
  <2> SUFFICES ASSUME NEW pd \in InPlace
               PROVE  \/ \E other \in next.found : other.path = pd[1] /\ other.dir = pd[2]
                      \/ \E i \in next.seen : StandsFor(new, i, pd)
    BY DEF Complete
  <2>1. CASE o.path = pd[1] /\ o.dir = pd[2]
    BY <2>1 DEF StandsFor
  <2>2. CASE \E i \in sc.seen : StandsFor(rs, i, pd)
    BY <1>2, <2>2
  <2>3. CASE \E other \in sc.found \ {o} : other.path = pd[1] /\ other.dir = pd[2]
    BY <2>3
  <2> QED BY <2>1, <2>2, <2>3 DEF Mirroring, Complete
<1>4. <<o.path, o.dir>> \in InPlace /\ \A other \in next.found : other.dir # o.dir
  BY DEF Mirroring, Faithful
<1>5. \A i \in sc.seen : new[i].dir # o.dir
  BY DEF Mirroring, Exactly, StandsFor
<1>6. new[k].dir = o.dir
  BY DEF StandsFor
<1>7. Exactly(next, new)
  <2>1. ASSUME NEW i \in next.seen
        PROVE  \E pd \in InPlace :
                  StandsFor(new, i, pd) /\ \A other \in next.found : other.dir # pd[2]
    <3>1. CASE i = k
      BY <1>4, <3>1
    <3>2. CASE i \in sc.seen
      <4>1. PICK pd \in InPlace : StandsFor(rs, i, pd) /\ \A other \in sc.found : other.dir # pd[2]
        BY <3>2 DEF Mirroring, Exactly
      <4> QED BY <1>2, <3>2, <4>1
    <3> QED BY <3>1, <3>2
  <2>2. \A i, j \in next.seen : new[i].dir = new[j].dir => i = j
    BY <1>5, <1>6 DEF Mirroring, Exactly
  <2> QED BY <2>1, <2>2 DEF Exactly
<1> QED BY <1>1, <1>3, <1>7 DEF Mirroring

LEMMA ApplyingMirror ==
    ASSUME IInv, MirrorInv, NEW s \in Scanners,
           SeenAgain(s) \/ SeenReplaced(s) \/ SeenUnderOtherCase(s) \/ SeenFirst(s),
           scan[s].pc = "applying"
    PROVE  MirrorInv'
<1>1. scan[s] \in ScanState /\ scan \in [Scanners -> ScanState] /\ draft \in Seq(Row)
  BY DEF IInv, TypeOK
<1>2. writer = s /\ UNCHANGED <<dir, writer>>
  BY DEF SeenAgain, SeenReplaced, SeenUnderOtherCase, SeenFirst, Upserting, fileSystem
<1>3. ASSUME NEW o \in scan[s].found, NEW k, Seen(s, o, k),
             StandsFor(draft', k, <<o.path, o.dir>>),
             Mirroring(scan[s], draft) =>
               \A i \in scan[s].seen :
                  /\ i \in DOMAIN draft' /\ draft'[i].status = draft[i].status
                  /\ draft'[i].path = draft[i].path /\ draft'[i].dir = draft[i].dir
      PROVE  MirrorInv'
  <2>1. /\ scan'[s].pc = "applying" /\ scan'[s].valid = scan[s].valid
        /\ scan'[s].quiet = scan[s].quiet /\ scan'[s].excluded = scan[s].excluded
        /\ scan'[s].found = scan[s].found \ {o} /\ scan'[s].seen = scan[s].seen \cup {k}
        /\ \A t \in Scanners \ {s} : scan'[t] = scan[t]
    BY <1>1, <1>3 DEF Seen, ScanState
  <2>2. Mirroring(scan[s], draft) => Mirroring(scan'[s], draft')
    <3>1. DoneWith(scan[s], scan'[s], o, k)
      BY <2>1 DEF DoneWith
    <3>2. Mirroring(scan[s], draft) => MarkedAsBefore(scan[s], draft, draft')
      BY <1>3 DEF MarkedAsBefore
    <3> QED BY <1>3, <3>1, <3>2, MirrorUpsert
  <2>3. Undisturbed(scan'[s]) => Undisturbed(scan[s])
    BY <2>1 DEF Undisturbed
  <2>4. ASSUME NEW t \in Scanners \ {s}, Undisturbed(scan'[t])
        PROVE  Mirroring(scan'[t], draft')
    <3>1. scan[t].pc # "applying" /\ scan'[t] = scan[t] /\ Mirroring(scan[t], draft)
      BY <1>2, <2>1, <2>4 DEF MirrorInv
    <3>2. scan[t].seen = {} \/ scan[t].pc # "walking"
      BY <3>1 DEF Mirroring, Exactly
    <3> QED BY <3>1, <3>2 DEF Mirroring, Complete, Exactly
  <2> QED BY <1>2, <2>1, <2>2, <2>3, <2>4, MirrorFrame DEF MirrorInv
<1>4. ASSUME NEW o \in scan[s].found, NEW i \in DOMAIN draft, UpdateRow(s, o, i),
             draft[i].dir = o.dir, SamePath(draft[i].path, o.path)
      PROVE  MirrorInv'
  <2>1. PICK bump \in Times : draft' = [draft EXCEPT ![i] = Updated(@, o, bump)]
    BY <1>4 DEF UpdateRow
  <2> DEFINE row == Updated(draft[i], o, bump)
  <2>2. draft[i] \in Row /\ o \in Observation
    BY <1>1, ElementOfSeq DEF ScanState
  <2>3. row.path = draft[i].path /\ row.dir = draft[i].dir /\ row.status = "present"
    BY <2>2, UpdatedType
  <2>4. draft' = [draft EXCEPT ![i] = row]
    BY <2>1
  <2> HIDE DEF row
  <2>5. /\ DOMAIN draft' = DOMAIN draft
        /\ \A j \in DOMAIN draft : draft'[j] = IF j = i THEN row ELSE draft[j]
    BY <1>1, <2>4
  <2>6. StandsFor(draft', i, <<o.path, o.dir>>)
    BY <1>4, <2>3, <2>5 DEF StandsFor
  <2>7. ASSUME Mirroring(scan[s], draft), NEW j \in scan[s].seen
        PROVE  /\ j \in DOMAIN draft' /\ draft'[j].status = draft[j].status
               /\ draft'[j].path = draft[j].path /\ draft'[j].dir = draft[j].dir
    <3>1. j \in DOMAIN draft /\ draft[j].status = "present"
      BY <2>7 DEF Mirroring, Exactly, StandsFor
    <3> QED BY <2>3, <2>5, <3>1
  <2>8. Seen(s, o, i)
    BY <1>4 DEF UpdateRow
  <2> QED BY <1>3, <2>6, <2>7, <2>8
<1>5. ASSUME NEW o \in scan[s].found, NEW table \in Seq(Row), DOMAIN table = DOMAIN draft,
             draft' = Append(table, Fresh(o)), Seen(s, o, Len(draft) + 1),
             Mirroring(scan[s], draft) => \A i \in scan[s].seen : table[i] = draft[i]
      PROVE  MirrorInv'
  <2>1. Fresh(o) \in Row /\ Len(table) = Len(draft) /\ Len(draft) \in Nat
    <3>1. Len(draft) \in Nat /\ Len(table) \in Nat /\ 1 .. Len(table) = 1 .. Len(draft)
      BY <1>1, <1>5, LenProperties
    <3>2. o \in Observation
      BY <1>1 DEF ScanState
    <3> QED BY <3>1, <3>2, FreshType
  <2>2. /\ DOMAIN draft' = DOMAIN draft \cup {Len(draft) + 1}
        /\ \A i \in DOMAIN draft : draft'[i] = table[i]
        /\ draft'[Len(draft) + 1] = Fresh(o)
    BY <1>5, <2>1, AppendProperties
  <2>3. StandsFor(draft', Len(draft) + 1, <<o.path, o.dir>>)
    BY <2>2 DEF StandsFor, Fresh, SamePath
  <2>4. ASSUME Mirroring(scan[s], draft), NEW j \in scan[s].seen
        PROVE  /\ j \in DOMAIN draft' /\ draft'[j].status = draft[j].status
               /\ draft'[j].path = draft[j].path /\ draft'[j].dir = draft[j].dir
    <3>1. j \in DOMAIN draft
      BY <2>4 DEF Mirroring, Exactly, StandsFor
    <3> QED BY <1>5, <2>2, <2>4, <3>1
  <2> QED BY <1>3, <1>5, <2>3, <2>4
<1>6. CASE SeenAgain(s)
  <2>1. PICK o \in scan[s].found :
           \E i \in Exact(draft, o) : draft[i].dir = o.dir /\ UpdateRow(s, o, i)
    BY <1>6 DEF SeenAgain
  <2>2. PICK i \in DOMAIN draft :
           draft[i].path = o.path /\ draft[i].dir = o.dir /\ UpdateRow(s, o, i)
    BY <2>1 DEF Exact
  <2> QED BY <1>4, <2>2 DEF SamePath
<1>7. CASE SeenUnderOtherCase(s)
  <2>1. PICK o \in scan[s].found :
           \E i \in SameFile(draft, o) :
              SamePath(draft[i].path, o.path) /\ UpdateRow(s, o, i)
    BY <1>7 DEF SeenUnderOtherCase
  <2>2. PICK i \in DOMAIN draft :
           draft[i].dir = o.dir /\ SamePath(draft[i].path, o.path) /\ UpdateRow(s, o, i)
    BY <2>1 DEF SameFile
  <2> QED BY <1>4, <2>2
<1>8. CASE SeenFirst(s)
  <2>1. PICK o \in scan[s].found :
           draft' = Append(draft, Fresh(o)) /\ Seen(s, o, Len(draft) + 1)
    BY <1>8 DEF SeenFirst
  <2> QED BY <1>1, <1>5, <2>1
<1>9. CASE SeenReplaced(s)
  <2>1. PICK o \in scan[s].found :
           /\ \E i \in Exact(draft, o) :
                 /\ draft[i].dir # o.dir
                 /\ draft' = Append([draft EXCEPT ![i].status = "replaced"], Fresh(o))
           /\ Seen(s, o, Len(draft) + 1)
    BY <1>9 DEF SeenReplaced
  <2>2. PICK i \in DOMAIN draft :
           /\ draft[i].path = o.path /\ draft[i].dir # o.dir
           /\ draft' = Append([draft EXCEPT ![i].status = "replaced"], Fresh(o))
    BY <2>1 DEF Exact
  <2> DEFINE row == [draft[i] EXCEPT !.status = "replaced"]
             table == [draft EXCEPT ![i] = row]
  <2>3. row \in Row
    <3>1. draft[i] \in Row
      BY <1>1, ElementOfSeq
    <3> QED BY <3>1 DEF Row
  <2>4. draft' = Append(table, Fresh(o))
    BY <2>2
  <2> HIDE DEF row
  <2>5. /\ table \in Seq(Row) /\ DOMAIN table = DOMAIN draft
        /\ \A j \in DOMAIN draft : table[j] = IF j = i THEN row ELSE draft[j]
    BY <1>1, <2>3
  <2> HIDE DEF table
  <2>6. ASSUME Mirroring(scan[s], draft), NEW j \in scan[s].seen PROVE table[j] = draft[j]
    <3>1. j \in DOMAIN draft
      BY <2>6 DEF Mirroring, Exactly, StandsFor
    <3>2. j # i
      <4>1. draft[j].path = o.path => draft[j].dir = o.dir
        BY <2>6, MarkedIsSame DEF MirrorInv
      <4> QED BY <2>2, <4>1
    <3> QED BY <2>5, <3>1, <3>2
  <2> QED BY <1>5, <2>1, <2>4, <2>5, <2>6
<1> QED BY <1>6, <1>7, <1>8, <1>9

\* The copy is made, or given up, by scans that have marked nothing.
LEMMA TransactionMirror ==
    ASSUME TypeOK, MirrorInv, NEW s \in Scanners, BeginApply(s) \/ Commit(s) \/ RollBack(s)
    PROVE  MirrorInv'
<1>1. scan[s] \in ScanState /\ scan \in [Scanners -> ScanState]
  BY DEF TypeOK
<1>2. ASSUME NEW t \in Scanners, scan[t].pc # "applying", Undisturbed(scan[t]), NEW rs
      PROVE  Mirroring(scan[t], rs)
  <2>1. Mirroring(scan[t], draft)
    BY <1>2 DEF MirrorInv
  <2>2. scan[t].seen = {} \/ scan[t].pc # "walking"
    BY <2>1 DEF Mirroring, Exactly
  <2> QED BY <1>2, <2>1, <2>2 DEF Mirroring, Complete, Exactly
<1>3. CASE BeginApply(s)
  <2>1. /\ dir' = dir /\ writer = NoScan /\ writer' = s
        /\ scan[s].pc = "walking" /\ scan[s].unread = {} /\ scan[s].listed = {}
        /\ scan' = [scan EXCEPT ![s] = [scan[s] EXCEPT !.pc = "applying"]]
    BY <1>3 DEF BeginApply, fileSystem
  <2>2. /\ scan'[s].pc = "applying" /\ scan'[s].found = scan[s].found
        /\ scan'[s].valid = scan[s].valid /\ scan'[s].excluded = scan[s].excluded
        /\ scan'[s].quiet = scan[s].quiet /\ scan'[s].seen = scan[s].seen
        /\ \A t \in Scanners \ {s} : scan'[t] = scan[t]
    BY <1>1, <2>1 DEF ScanState
  <2>3. \A t \in Scanners : scan[t].pc # "applying"
    BY <2>1 DEF MirrorInv
  <2>4. ASSUME Undisturbed(scan'[s]) PROVE Mirroring(scan'[s], draft')
    <3>1. Mirroring(scan[s], draft)
      BY <2>2, <2>4 DEF MirrorInv, Undisturbed
    <3>2. scan[s].seen = {}
      BY <2>1, <3>1 DEF Mirroring, Exactly
    <3> QED BY <2>1, <2>2, <3>1, <3>2 DEF Mirroring, Faithful, Complete, Exactly
  <2>5. ASSUME NEW t \in Scanners \ {s}, Undisturbed(scan'[t])
        PROVE  Mirroring(scan'[t], draft')
    <3>1. Undisturbed(scan[t]) /\ scan'[t] = scan[t]
      BY <2>2, <2>5
    <3>2. Mirroring(scan[t], draft')
      BY <1>2, <2>3, <3>1
    <3> QED BY <3>1, <3>2
  <2> QED BY <2>1, <2>2, <2>3, <2>4, <2>5, MirrorFrame
<1>4. CASE Commit(s) \/ RollBack(s)
  <2>1. /\ dir' = dir /\ writer = s /\ writer' = NoScan
        /\ scan' = [scan EXCEPT ![s] = Idle]
    BY <1>4 DEF Commit, RollBack, fileSystem
  <2>2. /\ scan'[s].pc = "idle" /\ ~scan'[s].quiet
        /\ \A t \in Scanners \ {s} : scan'[t] = scan[t]
    BY <1>1, <2>1 DEF Idle
  <2>3. \A t \in Scanners \ {s} : scan[t].pc # "applying"
    BY <2>1 DEF MirrorInv
  <2>4. ASSUME NEW t \in Scanners \ {s}, Undisturbed(scan'[t])
        PROVE  Mirroring(scan'[t], draft')
    <3>1. Undisturbed(scan[t]) /\ scan'[t] = scan[t]
      BY <2>2, <2>4
    <3>2. Mirroring(scan[t], draft')
      BY <1>2, <2>3, <3>1
    <3> QED BY <3>1, <3>2
  <2>5. ~Undisturbed(scan'[s])
    BY <2>2 DEF Undisturbed
  <2>6. \A t \in Scanners : scan'[t].pc = "applying" => writer' = t
    BY <2>2, <2>3
  <2> QED BY <2>1, <2>4, <2>5, <2>6, MirrorFrame
<1> QED BY <1>3, <1>4

LEMMA MirrorStep ==
    ASSUME IInv, MirrorInv, WriterInv, ~CaseSensitive, [Next]_vars
    PROVE  MirrorInv'
<1>0. TypeOK
  BY DEF IInv
<1>1. CASE UNCHANGED vars
  BY <1>1, MirrorStays DEF vars, fileSystem, ledger
<1>2. CASE SetProtected \/ \E p \in Paths, flag \in BOOLEAN : FindRow(p, flag)
  BY <1>2, MirrorStays DEF SetProtected, FindRow, fileSystem, ledger
<1>3. ASSUME NEW s \in Scanners, ScanStep(s) PROVE MirrorInv'
  <2>1. CASE SeenAgain(s) \/ SeenReplaced(s) \/ SeenUnderOtherCase(s) \/ SeenFirst(s)
    <3>1. scan[s].pc = "applying"
      BY <2>1 DEF SeenAgain, SeenReplaced, SeenUnderOtherCase, SeenFirst, Upserting, WriterInv
    <3> QED BY <2>1, <3>1, ApplyingMirror
  <2>2. CASE StartScan(s) \/ ReadRoot(s) \/ RootExcluded(s) \/ Observe(s) \/ Skip(s) \/ Exclude(s)
    BY <1>0, <2>2, LookingMirror
  <2>3. CASE BeginApply(s) \/ Commit(s) \/ RollBack(s)
    BY <1>0, <2>3, TransactionMirror
  <2> QED BY <1>3, <2>1, <2>2, <2>3 DEF ScanStep
<1> QED BY <1>0, <1>1, <1>2, <1>3, FileSystemMirror DEF Next

LEMMA MirrorInit == Init /\ ~CaseSensitive => MirrorInv
<1> SUFFICES ASSUME Init, ~CaseSensitive PROVE MirrorInv
  OBVIOUS
<1>1. \A s \in Scanners : ~scan[s].quiet /\ scan[s].pc = "idle"
  BY DEF Init, Idle
<1>2. Single
  BY DEF Init, Single
<1> QED BY <1>1, <1>2 DEF MirrorInv, Undisturbed

\* What a quiet scan of all roots commits: the rows that are present are those
\* it has marked.
LEMMA CommitMirrors ==
    ASSUME IInv, MirrorInv, WriterInv, NEW s \in Scanners, Commit(s), Undisturbed(scan[s])
    PROVE  Mirrors'
<1>1. /\ Mirroring(scan[s], draft) /\ scan[s].pc = "applying"
      /\ scan[s].found = {} /\ scan[s].excluded = {} /\ scan[s].valid = Roots
      /\ draft \in Seq(Row) /\ dir' = dir
  BY DEF MirrorInv, WriterInv, Commit, Mirroring, Faithful, Undisturbed, IInv, TypeOK, fileSystem
<1>2. /\ DOMAIN rows' = DOMAIN draft
      /\ \A i \in DOMAIN draft :
            rows'[i] = IF i \in Absent(draft, scan[s])
                       THEN [draft[i] EXCEPT !.status = "missing"] ELSE draft[i]
  BY DEF Commit
<1>3. \A i \in scan[s].seen : /\ i \in DOMAIN draft /\ draft[i].status = "present"
                              /\ i \notin Absent(draft, scan[s])
  BY <1>1 DEF Mirroring, Exactly, StandsFor, Absent
<1>4. ASSUME NEW i \in DOMAIN draft, i \notin scan[s].seen
      PROVE  rows'[i].status # "present"
  <2>1. draft[i] \in Row
    BY <1>1, ElementOfSeq
  <2>2. RootOf[draft[i].path] \in Roots /\ ~Uncertain(scan[s], draft[i].path)
    BY <1>1, <2>1 DEF Row, Uncertain
  <2>3. CASE Live(draft, i)
    <3>1. i \in Absent(draft, scan[s])
      BY <1>1, <1>4, <2>2, <2>3 DEF Absent
    <3> QED BY <1>2, <2>1, <3>1 DEF Row
  <2>4. CASE ~Live(draft, i)
    <3>1. i \notin Absent(draft, scan[s])
      BY <2>4 DEF Absent
    <3> QED BY <1>2, <2>4, <3>1 DEF Live, LiveStates
  <2> QED BY <2>3, <2>4
<1> DEFINE present == {i \in DOMAIN rows' : rows'[i].status = "present"}
<1>5. present = scan[s].seen /\ \A i \in present : rows'[i] = draft[i]
  BY <1>2, <1>3, <1>4
<1>6. ASSUME NEW pd \in InPlace
      PROVE  Cardinality({i \in present : rows'[i].dir = pd[2]}) = 1
  <2>1. PICK i \in scan[s].seen : StandsFor(draft, i, pd)
    BY <1>1 DEF Mirroring, Complete
  <2>2. {j \in present : rows'[j].dir = pd[2]} = {i}
    BY <1>1, <1>5, <2>1 DEF Mirroring, Exactly, StandsFor
  <2> QED BY <2>2, FS_Singleton
<1>7. \A i \in present : \E pd \in InPlace :
         rows'[i].dir = pd[2] /\ SamePath(rows'[i].path, pd[1])
  BY <1>1, <1>5 DEF Mirroring, Exactly, StandsFor
<1>8. InPlace' = InPlace
  BY <1>1 DEF InPlace
<1> QED BY <1>6, <1>7, <1>8 DEF Mirrors, SamePath

\* A scan that nothing disturbed and that reached every root leaves a ledger that
\* mirrors the disk, if the file system does not tell apart what the ledger does not.
THEOREM QuietScansMirror == ASSUME ~CaseSensitive PROVE Spec => QuietScanMirrorsDisk
<1>1. IInv /\ MirrorInv /\ WriterInv /\ [Next]_vars =>
        [\A s \in Scanners :
           (writer = s /\ scan[s].quiet /\ scan[s].valid = Roots /\ rows' # rows)
           => Mirrors']_vars
  BY OnlyCommitWrites, CommitMirrors DEF Undisturbed
<1>2. IInv /\ MirrorInv /\ WriterInv /\ [Next]_vars => IInv' /\ MirrorInv' /\ WriterInv'
  BY StepInv, MirrorStep, WriterStep DEF IInv, WriterInv
<1> QED BY InitInv, ProtectionInit, MirrorInit, <1>1, <1>2, PTL DEF Spec, QuietScanMirrorsDisk
=============================================================================
