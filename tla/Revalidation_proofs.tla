------------------------ MODULE Revalidation_proofs ------------------------
(***************************************************************************)
(* Proofs about Revalidation, for any number of processes of any kinds, any*)
(* paths and any number of changes.                                        *)
(*                                                                         *)
(* The argument: the gates that were passed found nothing that is still    *)
(* there (Behind), git and the snapshot, which take time, have kept track  *)
(* of what stayed while they ran (InGit, InSnapshot), and a refusal names  *)
(* something that was seen (BorneOut).                                     *)
(***************************************************************************)
EXTENDS Revalidation, TLAPS

\* The doubts a revalidation finds out about by looking.
LiveDoubts == DiskDoubts \cup PathDoubts \cup {"dirty"}

Behind(c) ==
    c.pc \notin {"idle", "refused"} =>
        \A n \in 1..14 : n < c.at /\ Gates[n] \in LiveDoubts => Gates[n] \notin standing

Placed(c) ==
    /\ c.pc = "in_git" => c.at = 12
    /\ c.pc = "in_snapshot" => c.at = 14
    /\ c.pc \in {"planned", "cleaning"} => c.at = 15

InGit(c) == c.pc = "in_git" /\ "dirty" \in standing => c.trees = {"dirty"}

InSnapshot(c) ==
    c.pc = "in_snapshot" => \A p \in staying : p \in c.left \/ c.active \/ c.blind

Inspected(c) == c.pc \notin {"idle", "refused"} /\ c.at = 15 => staying = {}

BorneOut(c) ==
    /\ c.pc # "idle" => c.record \subseteq arisen
    /\ "dirty" \in c.trees => "dirty" \in arisen
    /\ c.active => "used" \in arisen
    /\ c.pc = "refused" => c.reason \in arisen \cup {"unknown"}

SoundCheck(c) ==
    Behind(c) /\ Placed(c) /\ InGit(c) /\ InSnapshot(c) /\ Inspected(c) /\ BorneOut(c)

GatesInv ==
    /\ TypeOK
    /\ standing \subseteq Present
    /\ staying \subseteq Users
    /\ check.pc # "idle" => Present \subseteq arisen
    /\ check.pc = "idle" => check.trees = {} /\ ~check.active
    /\ SoundCheck(check)

LEMMA GatesAre ==
    /\ Len(Gates) = 14
    /\ Gates[1] = "absent" /\ Gates[2] = "unapproved" /\ Gates[3] = "moved"
    /\ Gates[4] = "elsewhere" /\ Gates[5] = "protected" /\ Gates[6] = "denied"
    /\ Gates[7] = "synced" /\ Gates[8] = "no_package" /\ Gates[9] = "no_manifest"
    /\ Gates[10] = "no_lockfile" /\ Gates[11] = "pnpm" /\ Gates[12] = "dirty"
    /\ Gates[13] = "recent" /\ Gates[14] = "used"
BY DEF Gates

\* Where two gates of special standing are.
LEMMA GatePlaces ==
    ASSUME NEW n \in 1..14
    PROVE  /\ Gates[n] = "dirty" => n = 12
           /\ Gates[n] = "used" => n = 14
BY GatesAre

LEMMA First == 1 \in 1..(Len(Gates) + 1)
BY GatesAre

LEMMA PresentTyped ==
    ASSUME TypeOK
    PROVE  Present \subseteq Doubts /\ Users \subseteq Procs /\ Alive \subseteq Procs
BY DEF TypeOK, Present, Users, Alive, Doubts, PathDoubts

LEMMA MachineSame ==
    ASSUME UNCHANGED machine
    PROVE  Present' = Present /\ Users' = Users /\ Alive' = Alive
BY DEF machine, Present, Users, Alive, Suspicious, Uses

\* What the parts of a check are.
LEMMA CheckParts ==
    ASSUME NEW c \in Check
    PROVE  /\ c.at \in 1..15 /\ c.record \in SUBSET LedgerDoubts /\ c.left \in SUBSET Procs
           /\ c.trees \in SUBSET {"clean", "dirty", "none"}
           /\ c.active \in BOOLEAN /\ c.blind \in BOOLEAN
BY GatesAre DEF Check

\* A step of the check that leaves the machine and the history alone.
LEMMA CheckMoves ==
    ASSUME GatesInv, NEW me \in Check, check' = me, UNCHANGED <<machine, history>>,
           SoundCheck(me), me.pc # "idle", check.pc # "idle"
    PROVE  GatesInv'
<1>1. TypeOK'
  BY DEF GatesInv, TypeOK, machine, history
<1>2. Present' = Present /\ Users' = Users
  BY MachineSame
<1>3. UNCHANGED <<standing, staying, arisen>>
  BY DEF history
<1>4. SoundCheck(check)'
  BY <1>3 DEF SoundCheck, Behind, Placed, InGit, InSnapshot, Inspected, BorneOut
<1> QED
  BY <1>1, <1>2, <1>3, <1>4 DEF GatesInv

LEMMA GatePassed ==
    ASSUME GatesInv, check.pc \in {"asking", "in_git", "in_snapshot"}, check.at <= 14,
           Gates[check.at] \in LiveDoubts => Gates[check.at] \notin standing,
           check.at = 14 => staying = {},
           check' = Passed, UNCHANGED <<machine, history>>
    PROVE  GatesInv'
<1>1. check \in Check /\ check.at \in 1..14
  BY GatesAre DEF GatesInv, TypeOK, Check
<1>2. /\ Passed \in Check /\ Passed.pc = "asking" /\ Passed.at = check.at + 1
      /\ Passed.trees = {} /\ Passed.active = FALSE /\ Passed.record = check.record
  <2>1. check.at + 1 \in 1..(Len(Gates) + 1)
    BY <1>1, GatesAre
  <2> QED
    BY <1>1, <2>1 DEF Passed, Check
<1>3. SoundCheck(Passed)
  <2>1. Behind(Passed)
    BY <1>1, <1>2 DEF GatesInv, SoundCheck, Behind
  <2>2. Inspected(Passed)
    BY <1>1, <1>2 DEF Inspected
  <2>3. BorneOut(Passed)
    BY <1>2 DEF GatesInv, SoundCheck, BorneOut
  <2> QED
    BY <1>2, <2>1, <2>2, <2>3 DEF SoundCheck, Placed, InGit, InSnapshot
<1> QED
  BY <1>2, <1>3, CheckMoves

LEMMA GateRefused ==
    ASSUME GatesInv, check.pc # "idle", NEW reason \in (arisen \cap Doubts) \cup {"unknown"},
           check' = RefusedFor(reason), UNCHANGED <<machine, history>>
    PROVE  GatesInv'
<1> DEFINE me == RefusedFor(reason)
<1>1. check \in Check
  BY DEF GatesInv, TypeOK
<1>2. /\ me \in Check /\ me.pc = "refused" /\ me.reason = reason
      /\ me.trees = {} /\ me.active = FALSE /\ me.record = check.record
  BY <1>1 DEF RefusedFor, Check
<1> HIDE DEF me
<1>3. SoundCheck(me)
  BY <1>2 DEF GatesInv, SoundCheck, Behind, Placed, InGit, InSnapshot, Inspected, BorneOut
<1> QED
  BY <1>2, <1>3, CheckMoves DEF me

\* What stands is there now, and what is there has arisen.
LEMMA Standing ==
    ASSUME GatesInv
    PROVE  /\ standing \subseteq Present /\ Present \subseteq Doubts
           /\ check.pc # "idle" => Present \subseteq arisen /\ check.record \subseteq arisen
           /\ check.record \subseteq LedgerDoubts
BY PresentTyped DEF GatesInv, SoundCheck, BorneOut, TypeOK, Check
-----------------------------------------------------------------------------
LEMMA InitHolds == Init => GatesInv
<1> SUFFICES ASSUME Init
             PROVE  GatesInv
  OBVIOUS
<1>1. Idle \in Check
  BY GatesAre DEF Idle, Check
<1>2. TypeOK
  BY <1>1, RevalidationAssumption DEF Init, TypeOK
<1>3. SoundCheck(Idle)
  BY DEF Idle, SoundCheck, Behind, Placed, InGit, InSnapshot, Inspected, BorneOut
<1> QED
  BY <1>2, <1>3 DEF Init, GatesInv, Idle

\* An evaluation begins with nothing behind it.
LEMMA EvaluationHolds ==
    ASSUME GatesInv, Read \/ Revalidate
    PROVE  GatesInv'
<1>1. /\ check \in Check /\ ledger \subseteq LedgerDoubts /\ Present \subseteq Doubts
      /\ Users \subseteq Procs /\ ledger \subseteq Present
  BY PresentTyped DEF GatesInv, TypeOK, Present
<1>2. Present' = Present /\ Users' = Users
  BY MachineSame DEF Read, Revalidate
<1>3. /\ standing' = Present /\ staying' = Users
      /\ Present \subseteq arisen' /\ arisen' \subseteq Doubts
  <2>1. CASE Read
    BY <2>1, <1>1 DEF Read
  <2>2. CASE Revalidate
    BY <2>2, <1>1 DEF Revalidate, GatesInv, TypeOK
  <2> QED
    BY <2>1, <2>2
<1>4. /\ check' \in Check /\ check'.pc = "asking" /\ check'.at = 1
      /\ check'.record \subseteq arisen'
      /\ check'.trees = check.trees /\ check'.active = check.active
  <2>1. CASE Read
    <3> DEFINE asked == [check EXCEPT !.pc = "asking", !.phase = "plan", !.at = 1]
    <3>1. /\ asked \in Check /\ asked.pc = "asking" /\ asked.at = 1
          /\ asked.trees = check.trees /\ asked.active = check.active
      BY <1>1, First DEF Check
    <3>2. check' = [asked EXCEPT !.record = ledger] /\ arisen' = Present
      BY <2>1 DEF Read, Evaluation
    <3> HIDE DEF asked
    <3> QED
      BY <1>1, <3>1, <3>2 DEF Check
  <2>2. CASE Revalidate
    <3>1. check' = [check EXCEPT !.pc = "asking", !.phase = "run", !.at = 1]
      BY <2>2 DEF Revalidate, Evaluation
    <3>2. check.record \subseteq arisen /\ arisen' = arisen
      BY <2>2, Standing DEF Revalidate
    <3> QED
      BY <1>1, <3>1, <3>2, First DEF Check
  <2> QED
    BY <2>1, <2>2
<1>5. ("dirty" \in check.trees => "dirty" \in arisen')
      /\ (check.active => "used" \in arisen')
  <2>1. CASE Read
    BY <2>1 DEF Read, GatesInv
  <2>2. CASE Revalidate
    BY <2>2 DEF Revalidate, GatesInv, SoundCheck, BorneOut
  <2> QED
    BY <2>1, <2>2
<1>6. SoundCheck(check)'
  BY <1>4, <1>5 DEF SoundCheck, Behind, Placed, InGit, InSnapshot, Inspected, BorneOut
<1>7. UNCHANGED <<path, ledger, disk, tree, procs, changes>>
  BY DEF Read, Revalidate, machine
<1>8. TypeOK'
  BY <1>1, <1>3, <1>4, <1>7 DEF GatesInv, TypeOK
<1> QED
  BY <1>4, <1>8, <1>2, <1>3, <1>6, <1>7 DEF GatesInv

LEMMA RecordHolds ==
    ASSUME GatesInv, NEW gate, LookAtRecord(gate)
    PROVE  GatesInv'
<1>1. /\ check.pc = "asking" /\ check.at \in 1..14 /\ Gates[check.at] = gate
      /\ gate \in LedgerDoubts /\ UNCHANGED <<machine, history>>
  BY GatesAre, CheckParts DEF LookAtRecord, Asks, GatesInv, TypeOK
<1>2. gate \notin LiveDoubts /\ gate # "used" /\ gate \in Doubts
  BY <1>1 DEF LedgerDoubts, LiveDoubts, DiskDoubts, PathDoubts, Doubts
<1>3. check.at # 14
  BY <1>1, <1>2, GatesAre
<1>4. CASE gate \in check.record
  BY <1>1, <1>2, <1>4, Standing, GateRefused DEF LookAtRecord
<1>5. CASE gate \notin check.record
  BY <1>1, <1>2, <1>3, <1>5, GatePassed DEF LookAtRecord
<1> QED
  BY <1>4, <1>5

LEMMA DiskHolds ==
    ASSUME GatesInv, NEW gate, LookAtDisk(gate)
    PROVE  GatesInv'
<1>1. /\ check.pc = "asking" /\ check.at \in 1..14 /\ Gates[check.at] = gate
      /\ gate \in DiskDoubts /\ UNCHANGED <<machine, history>>
  BY GatesAre, CheckParts DEF LookAtDisk, Asks, GatesInv, TypeOK
<1>2. gate # "used" /\ gate \in Doubts
  BY <1>1 DEF DiskDoubts, Doubts
<1>3. check.at # 14
  BY <1>1, <1>2, GatesAre
<1>4. CASE gate \in disk
  <2>1. gate \in arisen
    BY <1>1, <1>4, Standing DEF Present
  <2> QED
    BY <1>1, <1>2, <1>4, <2>1, GateRefused DEF LookAtDisk
<1>5. CASE gate \notin disk
  <2>1. gate \notin Present
    BY <1>1, <1>5 DEF GatesInv, TypeOK, Present, LedgerDoubts, DiskDoubts
  <2> QED
    BY <1>1, <1>3, <1>5, <2>1, Standing, GatePassed DEF LookAtDisk
<1> QED
  BY <1>4, <1>5

\* A root covers the path if it is one of the path's beginnings.
LEMMA CoveredIsDenied ==
    ASSUME TypeOK
    PROVE  Covered <=> "denied" \in Present
<1>1. path \in Seq(STRING)
  BY RevalidationAssumption DEF TypeOK
<1>2. Covered <=> \E i \in 1..Len(path) : SubSeq(path, 1, i) \in DeniedRoots
  <2>1. ASSUME NEW root \in DeniedRoots, Len(root) <= Len(path), SubSeq(path, 1, Len(root)) = root
        PROVE  \E i \in 1..Len(path) : SubSeq(path, 1, i) \in DeniedRoots
    <3>1. root \in Seq(STRING) /\ root # << >>
      BY RevalidationAssumption DEF DeniedRoots
    <3>2. Len(root) \in 1..Len(path)
      BY <1>1, <2>1, <3>1
    <3> QED
      BY <2>1, <3>2
  <2>2. ASSUME NEW i \in 1..Len(path), SubSeq(path, 1, i) \in DeniedRoots
        PROVE  Covered
    <3> DEFINE root == SubSeq(path, 1, i)
    <3>1. Len(root) = i /\ i <= Len(path)
      BY <1>1
    <3>2. root \in DeniedRoots /\ SubSeq(path, 1, Len(root)) = root
      BY <2>2, <3>1
    <3> HIDE DEF root
    <3> QED
      BY <3>1, <3>2 DEF Covered
  <2> QED
    BY <2>1, <2>2 DEF Covered
<1>3. "denied" \notin ledger \cup disk
  BY DEF TypeOK, LedgerDoubts, DiskDoubts
<1> QED
  BY <1>2, <1>3 DEF Present

LEMMA SyncedIsPresent ==
    ASSUME TypeOK
    PROVE  Synced <=> "synced" \in Present
<1>1. "synced" \notin ledger \cup disk
  BY DEF TypeOK, LedgerDoubts, DiskDoubts
<1>2. Synced <=> Suspicious(path) # {}
  BY DEF Synced, Suspicious
<1> QED
  BY <1>1, <1>2 DEF Present

LEMMA PathHolds ==
    ASSUME GatesInv, LookForDeniedRoot \/ LookForSyncedFolder
    PROVE  GatesInv'
<1> DEFINE gate == Gates[check.at]
<1>1. /\ check.pc = "asking" /\ check.at \in 1..14 /\ UNCHANGED <<machine, history>>
      /\ gate \in {"denied", "synced"}
  BY GatesAre, CheckParts DEF LookForDeniedRoot, LookForSyncedFolder, Asks, GatesInv, TypeOK
<1>2. gate \in Doubts /\ check.at # 14
  BY <1>1, GatesAre DEF Doubts, PathDoubts
<1>3. check' = IF gate \in Present THEN RefusedFor(gate) ELSE Passed
  BY CoveredIsDenied, SyncedIsPresent
     DEF LookForDeniedRoot, LookForSyncedFolder, Asks, GatesInv
<1>4. CASE gate \in Present
  BY <1>1, <1>2, <1>3, <1>4, Standing, GateRefused
<1>5. CASE gate \notin Present
  BY <1>1, <1>2, <1>3, <1>5, Standing, GatePassed
<1> QED
  BY <1>4, <1>5

LEMMA StartGitHolds ==
    ASSUME GatesInv, StartGit
    PROVE  GatesInv'
<1> DEFINE me == [check EXCEPT !.pc = "in_git", !.trees = {tree}]
<1>1. check \in Check /\ tree \in {"clean", "dirty", "none"}
  BY DEF GatesInv, TypeOK
<1>2. check.pc = "asking" /\ check.at \in 1..14 /\ Gates[check.at] = "dirty"
  BY <1>1, GatesAre, CheckParts DEF StartGit, Asks
<1>3. check.at = 12
  BY <1>2, GatePlaces
<1>4. /\ me \in Check /\ me.pc = "in_git" /\ me.trees = {tree} /\ me.at = check.at
      /\ me.record = check.record /\ me.active = check.active
  BY <1>1 DEF Check
<1>5. check' = me /\ UNCHANGED <<machine, history>>
  BY DEF StartGit
<1> HIDE DEF me
<1>6. tree = "dirty" <=> "dirty" \in Present
  BY DEF GatesInv, TypeOK, Present, LedgerDoubts, DiskDoubts
<1>7. SoundCheck(me)
  <2>1. Behind(me)
    BY <1>2, <1>4 DEF GatesInv, SoundCheck, Behind
  <2>2. InGit(me)
    BY <1>4, <1>6, Standing DEF InGit
  <2>3. BorneOut(me)
    BY <1>2, <1>4, <1>6, Standing DEF GatesInv, SoundCheck, BorneOut
  <2> QED
    BY <1>3, <1>4, <2>1, <2>2, <2>3 DEF SoundCheck, Placed, InSnapshot, Inspected
<1> QED
  BY <1>2, <1>4, <1>5, <1>7, CheckMoves

\* A tree that was dirty all the time is all git came across.
LEMMA GitHolds ==
    ASSUME GatesInv, NEW t, GitAnswers(t)
    PROVE  GatesInv'
<1>1. check.pc = "in_git" /\ check.at = 12 /\ t \in check.trees \cup {"none"}
      /\ UNCHANGED <<machine, history>>
  BY DEF GitAnswers, GatesInv, SoundCheck, Placed
<1>2. t \in {"clean", "dirty", "none"}
  BY <1>1, CheckParts DEF GatesInv, TypeOK
<1>3. CASE t = "clean"
  <2>1. "dirty" \notin standing
    BY <1>1, <1>3 DEF GatesInv, SoundCheck, InGit
  <2>2. check' = Passed
    BY <1>3 DEF GitAnswers
  <2> QED
    BY <1>1, <2>1, <2>2, GatesAre, GatePassed
<1>4. CASE t = "dirty"
  <2>1. "dirty" \in arisen \cap Doubts
    BY <1>1, <1>4 DEF GatesInv, SoundCheck, BorneOut, Doubts
  <2>2. check' = RefusedFor("dirty")
    BY <1>4 DEF GitAnswers
  <2> QED
    BY <1>1, <2>1, <2>2, GateRefused
<1>5. CASE t = "none"
  <2>1. check' = RefusedFor("unknown")
    BY <1>5 DEF GitAnswers
  <2> QED
    BY <1>1, <2>1, GateRefused
<1> QED
  BY <1>2, <1>3, <1>4, <1>5

LEMMA SnapshotHolds ==
    ASSUME GatesInv, StartSnapshot \/ SnapshotFails
    PROVE  GatesInv'
<1>1. /\ check.pc = "asking" /\ check.at \in 1..14 /\ Gates[check.at] = "used"
      /\ check \in Check /\ UNCHANGED <<machine, history>>
  BY GatesAre, CheckParts DEF StartSnapshot, SnapshotFails, Asks, GatesInv, TypeOK
<1>2. check.at = 14
  BY <1>1, GatePlaces
<1>3. CASE SnapshotFails
  BY <1>1, <1>3, GateRefused DEF SnapshotFails
<1>4. CASE StartSnapshot
  <2> DEFINE me == [check EXCEPT !.pc = "in_snapshot", !.left = Alive]
  <2>1. Alive \subseteq Procs /\ staying \subseteq Alive
    BY PresentTyped DEF GatesInv, Users
  <2>2. /\ me \in Check /\ me.pc = "in_snapshot" /\ me.left = Alive /\ me.at = check.at
        /\ me.record = check.record /\ me.active = check.active /\ me.trees = check.trees
    BY <1>1, <2>1 DEF Check
  <2>3. check' = me
    BY <1>4 DEF StartSnapshot
  <2> HIDE DEF me
  <2>4. SoundCheck(me)
    <3>1. Behind(me)
      BY <1>1, <2>2 DEF GatesInv, SoundCheck, Behind
    <3>2. InSnapshot(me)
      BY <2>1, <2>2 DEF InSnapshot
    <3>3. BorneOut(me)
      BY <1>1, <2>2 DEF GatesInv, SoundCheck, BorneOut
    <3> QED
      BY <1>2, <2>2, <3>1, <3>2, <3>3 DEF SoundCheck, Placed, InGit, Inspected
  <2> QED
    BY <1>1, <2>2, <2>3, <2>4, CheckMoves
<1> QED
  BY <1>3, <1>4

\* A process that stayed is one whose use of the workspace can be seen, or one that
\* cannot be looked into and counts.
LEMMA InspectHolds ==
    ASSUME GatesInv, NEW p \in Procs, Inspect(p)
    PROVE  GatesInv'
<1> DEFINE k == procs[p]
           sees == k # Gone /\ (k.directory = "inside" \/ k.mentions)
           fails == k # Gone /\ ~Visible(k) /\ (k.own \/ k.tool)
           me == [check EXCEPT !.left = @ \ {p}, !.active = @ \/ sees, !.blind = @ \/ fails]
<1>1. check \in Check /\ check.pc = "in_snapshot" /\ check.at = 14
      /\ check.active \in BOOLEAN /\ check.blind \in BOOLEAN
  BY CheckParts DEF Inspect, GatesInv, TypeOK, SoundCheck, Placed
<1>2. p \in Users => sees \/ fails
  BY DEF Users, Alive, Uses, Visible
<1>3. sees => p \in Users
  BY DEF Users, Alive, Uses
<1>4. check' = me /\ UNCHANGED <<machine, history>>
  BY DEF Inspect
<1> HIDE DEF sees, fails
<1>5. /\ me \in Check /\ me.pc = "in_snapshot" /\ me.at = 14
      /\ me.record = check.record /\ me.trees = check.trees /\ me.left = check.left \ {p}
  BY <1>1 DEF Check
<1>6. (me.active <=> check.active \/ sees) /\ (me.blind <=> check.blind \/ fails)
  BY <1>1 DEF Check
<1> HIDE DEF me
<1>7. SoundCheck(me)
  <2>1. Behind(me)
    BY <1>1, <1>5 DEF GatesInv, SoundCheck, Behind
  <2>2. InSnapshot(me)
    BY <1>1, <1>2, <1>5, <1>6 DEF GatesInv, SoundCheck, InSnapshot
  <2>3. sees => "used" \in arisen
    BY <1>1, <1>3, Standing DEF Present
  <2>4. BorneOut(me)
    BY <1>1, <1>5, <1>6, <2>3 DEF GatesInv, SoundCheck, BorneOut
  <2> QED
    BY <1>5, <2>1, <2>2, <2>4 DEF SoundCheck, Placed, InGit, Inspected
<1> QED
  BY <1>1, <1>4, <1>5, <1>7, CheckMoves

LEMMA JudgeHolds ==
    ASSUME GatesInv, Judge
    PROVE  GatesInv'
<1>1. check.pc = "in_snapshot" /\ check.left = {} /\ check.at = 14
      /\ UNCHANGED <<machine, history>>
  BY DEF Judge, GatesInv, SoundCheck, Placed
<1>2. CASE check.active
  BY <1>1, <1>2, GateRefused DEF Judge, GatesInv, SoundCheck, BorneOut, Doubts
<1>3. CASE ~check.active /\ check.blind
  BY <1>1, <1>3, GateRefused DEF Judge
<1>4. CASE ~check.active /\ ~check.blind
  <2>1. staying = {}
    BY <1>1, <1>4 DEF GatesInv, SoundCheck, InSnapshot
  <2>2. Gates[check.at] \notin LiveDoubts
    BY <1>1, GatesAre DEF LiveDoubts, DiskDoubts, PathDoubts
  <2>3. check' = Passed
    BY <1>4 DEF Judge
  <2> QED
    BY <1>1, <2>1, <2>2, <2>3, GatePassed
<1> QED
  BY <1>2, <1>3, <1>4

LEMMA AuthoriseHolds ==
    ASSUME GatesInv, Authorise
    PROVE  GatesInv'
<1> DEFINE to == IF check.phase = "plan" THEN "planned" ELSE "cleaning"
           me == [check EXCEPT !.pc = to]
<1>1. check \in Check /\ check.pc = "asking" /\ check.at = 15
  BY GatesAre DEF Authorise, GatesInv, TypeOK
<1>2. check' = me /\ UNCHANGED <<machine, history>>
  BY DEF Authorise
<1>3. to \in {"planned", "cleaning"}
  OBVIOUS
<1> HIDE DEF to
<1>4. /\ me \in Check /\ me.pc = to /\ me.at = 15 /\ me.trees = check.trees
      /\ me.record = check.record /\ me.active = check.active
  BY <1>1, <1>3 DEF Check
<1> HIDE DEF me
<1>5. SoundCheck(me)
  BY <1>1, <1>3, <1>4
     DEF GatesInv, SoundCheck, Behind, Placed, InGit, InSnapshot, Inspected, BorneOut
<1> QED
  BY <1>1, <1>2, <1>3, <1>4, <1>5, CheckMoves

-----------------------------------------------------------------------------
(* The others: what changes is watched.                                    *)

\* The check as it is when the machine changes: git may come across the new tree.
LEMMA ChangeHolds ==
    ASSUME GatesInv, Watched, TypeOK', check.pc # "idle",
           \/ check' = check
           \/ check.pc = "in_git" /\ check' = [check EXCEPT !.trees = @ \cup {tree'}]
    PROVE  GatesInv'
<1>1. /\ check'.pc = check.pc /\ check'.at = check.at /\ check'.record = check.record
      /\ check'.left = check.left /\ check'.reason = check.reason
      /\ check'.active = check.active /\ check'.blind = check.blind
      /\ check'.trees = check.trees \/ check'.trees = check.trees \cup {tree'}
  BY DEF GatesInv, TypeOK, Check
<1>2. /\ standing' = standing \cap Present' /\ staying' = staying \cap Users'
      /\ arisen' = arisen \cup Present'
  BY DEF Watched
<1>3. "dirty" \in Present' <=> tree' = "dirty"
  BY DEF TypeOK, Present, LedgerDoubts, DiskDoubts
<1>4. Behind(check)' /\ Placed(check)'
  BY <1>1, <1>2 DEF GatesInv, SoundCheck, Behind, Placed
<1>5. InGit(check)' /\ InSnapshot(check)' /\ Inspected(check)'
  BY <1>1, <1>2, <1>3 DEF GatesInv, SoundCheck, InGit, InSnapshot, Inspected
<1>6. BorneOut(check)'
  BY <1>1, <1>2, <1>3 DEF GatesInv, SoundCheck, BorneOut
<1> QED
  BY <1>1, <1>2, <1>4, <1>5, <1>6 DEF GatesInv, SoundCheck

\* The history is well formed after a change.
LEMMA WatchedTyped ==
    ASSUME TypeOK, Watched, Present' \subseteq Doubts
    PROVE  (standing \subseteq Doubts /\ staying \subseteq Procs /\ arisen \subseteq Doubts)'
BY DEF TypeOK, Watched

\* The doubts of a machine that is well formed.
LEMMA PresentTypedAfter ==
    ASSUME (ledger \subseteq LedgerDoubts /\ disk \subseteq DiskDoubts)'
    PROVE  Present' \subseteq Doubts
BY DEF Present, Doubts, PathDoubts

LEMMA LedgerHolds ==
    ASSUME GatesInv, LedgerChanges
    PROVE  GatesInv'
<1>1. /\ check.pc # "idle" /\ Watched /\ UNCHANGED <<path, disk, tree, procs, check>>
      /\ changes' \in 0..MaxChanges
  BY RevalidationAssumption DEF GatesInv, TypeOK, LedgerChanges, Changing
<1>2. ledger' \subseteq LedgerDoubts
  BY DEF GatesInv, TypeOK, LedgerChanges, LedgerDoubts
<1>3. TypeOK'
  BY <1>1, <1>2, WatchedTyped, PresentTypedAfter DEF GatesInv, TypeOK
<1> QED
  BY <1>1, <1>3, ChangeHolds

LEMMA DiskChangeHolds ==
    ASSUME GatesInv, DiskChanges
    PROVE  GatesInv'
<1>1. /\ check.pc # "idle" /\ Watched /\ UNCHANGED <<path, ledger, tree, procs, check>>
      /\ changes' \in 0..MaxChanges
  BY RevalidationAssumption DEF GatesInv, TypeOK, DiskChanges, Changing
<1>2. disk' \subseteq DiskDoubts
  BY DEF GatesInv, TypeOK, DiskChanges
<1>3. TypeOK'
  BY <1>1, <1>2, WatchedTyped, PresentTypedAfter DEF GatesInv, TypeOK
<1> QED
  BY <1>1, <1>3, ChangeHolds

LEMMA TreeHolds ==
    ASSUME GatesInv, TreeChanges
    PROVE  GatesInv'
<1>1. /\ check.pc # "idle" /\ Watched /\ UNCHANGED <<path, ledger, disk, procs>>
      /\ changes' \in 0..MaxChanges /\ tree' \in {"clean", "dirty", "none"}
  BY RevalidationAssumption DEF GatesInv, TypeOK, TreeChanges, Changing
<1>2. \/ check' = check
      \/ check.pc = "in_git" /\ check' = [check EXCEPT !.trees = @ \cup {tree'}]
  <2>1. CASE check.pc = "in_git"
    BY <2>1 DEF TreeChanges
  <2>2. CASE check.pc # "in_git"
    BY <2>2 DEF TreeChanges, GatesInv, TypeOK, Check
  <2> QED
    BY <2>1, <2>2
<1>3. check' \in Check
  BY <1>1, <1>2 DEF GatesInv, TypeOK, Check
<1>4. TypeOK'
  BY <1>1, <1>3, WatchedTyped, PresentTypedAfter DEF GatesInv, TypeOK
<1> QED
  BY <1>1, <1>2, <1>4, ChangeHolds

LEMMA ProcessHolds ==
    ASSUME GatesInv, ProcessChanges
    PROVE  GatesInv'
<1>1. /\ check.pc # "idle" /\ Watched /\ UNCHANGED <<path, ledger, disk, tree, check>>
      /\ changes' \in 0..MaxChanges
  BY RevalidationAssumption DEF GatesInv, TypeOK, ProcessChanges, Changing
<1>2. procs' \in [Procs -> Kinds \cup {Gone}]
  BY DEF GatesInv, TypeOK, ProcessChanges
<1>3. TypeOK'
  BY <1>1, <1>2, WatchedTyped, PresentTypedAfter DEF GatesInv, TypeOK
<1> QED
  BY <1>1, <1>3, ChangeHolds

LEMMA StutterHolds ==
    ASSUME GatesInv, UNCHANGED vars
    PROVE  GatesInv'
<1>1. UNCHANGED <<machine, history, check>>
  BY DEF vars
<1>2. Present' = Present /\ Users' = Users
  BY <1>1, MachineSame
<1> QED
  BY <1>1, <1>2 DEF GatesInv, TypeOK, machine, history, SoundCheck, Behind, Placed, InGit,
                    InSnapshot, Inspected, BorneOut

LEMMA CheckStepHolds ==
    ASSUME GatesInv, CheckStep
    PROVE  GatesInv'
BY EvaluationHolds, RecordHolds, DiskHolds, PathHolds, StartGitHolds, GitHolds, SnapshotHolds,
   InspectHolds, JudgeHolds, AuthoriseHolds DEF CheckStep

LEMMA NextHolds == GatesInv /\ [Next]_vars => GatesInv'
BY CheckStepHolds, LedgerHolds, DiskChangeHolds, TreeHolds, ProcessHolds, StutterHolds DEF Next

LEMMA GatesInvariant == Spec => []GatesInv
BY InitHolds, NextHolds, PTL DEF Spec
-----------------------------------------------------------------------------
\* The shape of the state holds in every reachable state.
THEOREM TypeCorrect == Spec => []TypeOK
<1>1. GatesInv => TypeOK
  BY DEF GatesInv
<1> QED
  BY <1>1, GatesInvariant, PTL

\* However many processes come and go and however the disk and the worktree change
\* between one gate and the next: what stood against the clean all through its
\* revalidation and can be told from the disk, git or the process table refuses it.
THEOREM NothingSlipsThrough == Spec => []LiveDoubtsRefuse
<1>1. ASSUME GatesInv, check.pc = "cleaning"
      PROVE  standing \cap LiveDoubts = {} /\ staying = {}
  <2>1. check.at = 15 /\ Behind(check) /\ staying = {}
    BY <1>1 DEF GatesInv, SoundCheck, Placed, Inspected
  <2>2. \A d \in LiveDoubts : \E n \in 1..14 : Gates[n] = d
    BY GatesAre DEF LiveDoubts, DiskDoubts, PathDoubts
  <2> QED
    BY <1>1, <2>1, <2>2 DEF Behind
<1>2. GatesInv => LiveDoubtsRefuse
  BY <1>1 DEF LiveDoubtsRefuse, LiveDoubts
<1> QED
  BY <1>2, GatesInvariant, PTL

\* No refusal is made up: its reason was one at some time since the ledger was read.
THEOREM RefusalsTrue == Spec => []RefusalsBorneOut
<1>1. GatesInv => RefusalsBorneOut
  BY DEF GatesInv, SoundCheck, BorneOut, RefusalsBorneOut
<1> QED
  BY <1>1, GatesInvariant, PTL
=============================================================================
