------------------------- MODULE Registration_proofs -------------------------
(***************************************************************************)
(* What registration guarantees for any number of inits, paths,            *)
(* directories, volumes and state files, wherever inits fail or are        *)
(* killed.                                                                 *)
(***************************************************************************)
EXTENDS Registration, NaturalsInduction, WellFoundedInduction, TLAPS

OutputState ==
    [by: Inits \cup {NoInit},
     result: {"none", "complete", "failed", "rollback failed"}]

LEMMA Bounds == MaxInits \in Nat /\ MaxMoves \in Nat
  BY RegistrationAssumption

LEMMA IdleType == Idle \in InitState
  BY DEF Idle, InitState, Absent, ConfigState

\* What an init has in memory and what is printed keep their shapes.
LEMMA BecomesType ==
    ASSUME TypeOK, NEW i \in Inits, NEW me \in InitState, Becomes(i, me)
    PROVE  init' \in [Inits -> InitState] /\ output' \in OutputState
  BY DEF TypeOK, Becomes, Silent, OutputState

LEMMA GoesType ==
    ASSUME TypeOK, NEW i \in Inits, NEW to, Goes(i, to),
           to \in {"checked", "opened", "ready", "inserted", "written", "committed",
                   "restoring", "removing"}
    PROVE  init' \in [Inits -> InitState] /\ output' \in OutputState
<1>1. init[i] \in InitState
  BY DEF TypeOK
<1>2. [init[i] EXCEPT !.pc = to] \in InitState
  BY <1>1 DEF InitState
<1> QED
  BY <1>2, BecomesType DEF Goes

LEMMA ReturnsType ==
    ASSUME TypeOK, NEW i \in Inits, NEW result, Returns(i, result),
           result \in {"none", "complete", "failed", "rollback failed"}
    PROVE  init' \in [Inits -> InitState] /\ output' \in OutputState
  BY IdleType DEF TypeOK, Returns, OutputState

LEMMA KeptIsPart == \A roots : Kept(roots) \subseteq roots
  BY DEF Kept

LEMMA FreeType ==
    ASSUME TypeOK, NEW f, NEW i \in Inits
    PROVE  Free(f, i) \in [Files -> Inits \cup {NoInit}]
  BY DEF TypeOK, Free

-----------------------------------------------------------------------------
LEMMA TypeCorrectInit == Init => TypeOK
<1> SUFFICES ASSUME Init PROVE TypeOK
  OBVIOUS
<1>1. init \in [Inits -> InitState]
  BY IdleType DEF Init
<1>2. Absent \in ConfigState /\ Blank \in [schema: BOOLEAN, roots: SUBSET Root]
  BY DEF Absent, ConfigState, Blank
<1> QED
  BY <1>1, <1>2, Bounds DEF Init, TypeOK, Silent

\* Every variable keeps its type.
THEOREM TypeCorrect == Spec => []TypeOK
<1>1. Init => TypeOK
  BY TypeCorrectInit
<1>2. TypeOK /\ [Next]_vars => TypeOK'
  <2> SUFFICES ASSUME TypeOK, [Next]_vars PROVE TypeOK'
    OBVIOUS
  <2> USE DEF At, files
  <2>0. TypeOK' <=> /\ dir' \in [Paths -> Dirs \cup {NoDir}]
                    /\ config' \in ConfigState
                    /\ link' \in Files \cup {NoFile}
                    /\ table' \in [Files -> [schema: BOOLEAN, roots: SUBSET Root]]
                    /\ holder' \in [Files -> Inits \cup {NoInit}]
                    /\ init' \in [Inits -> InitState]
                    /\ output' \in OutputState
                    /\ started' \in 0 .. MaxInits /\ moves' \in 0 .. MaxMoves
    BY DEF TypeOK, OutputState
  <2>1. ASSUME NEW i \in Inits, Load(i) PROVE TypeOK'
    <3>1. started' \in 0 .. MaxInits
      <4>1. started \in 0 .. MaxInits /\ started < MaxInits /\ started' = started + 1
        BY <2>1 DEF Load, TypeOK
      <4> QED
        BY <4>1, Bounds
    <3>2. Registered \in SUBSET Root
      BY DEF Registered, TypeOK
    <3>3. PICK wanted \in SUBSET Paths :
             init' = [j \in Inits |->
                      IF j = i
                      THEN [Idle EXCEPT !.pc = "loaded", !.previous = config.roots,
                                        !.pending = Supplied(config.roots, wanted),
                                        !.alone = \A k \in Inits : ~Active(k),
                                        !.before = [config |-> config, known |-> Registered,
                                                    wanted |-> wanted]]
                      ELSE [init[j] EXCEPT !.alone = FALSE, !.before = Idle.before]]
      BY <2>1 DEF Load
    <3>4. config \in ConfigState /\ config.roots \in SUBSET Paths
      BY DEF TypeOK, ConfigState
    <3>5. [config |-> config, known |-> Registered, wanted |-> wanted]
             \in [config: ConfigState, known: SUBSET Root, wanted: SUBSET Paths]
      BY <3>2, <3>4
    <3>6. [Idle EXCEPT !.pc = "loaded", !.previous = config.roots,
                       !.pending = Supplied(config.roots, wanted),
                       !.alone = \A k \in Inits : ~Active(k),
                       !.before = [config |-> config, known |-> Registered,
                                   wanted |-> wanted]] \in InitState
      <4> DEFINE lone == \A k \in Inits : ~Active(k)
                 found == [config |-> config, known |-> Registered, wanted |-> wanted]
      <4>1. lone \in BOOLEAN
        OBVIOUS
      <4>2. Supplied(config.roots, wanted) \in SUBSET Paths
        BY <3>4 DEF Supplied
      <4>3. found \in [config: ConfigState, known: SUBSET Root, wanted: SUBSET Paths]
        BY <3>5
      <4> HIDE DEF lone, found
      <4>4. [Idle EXCEPT !.pc = "loaded", !.previous = config.roots,
                         !.pending = Supplied(config.roots, wanted),
                         !.alone = lone, !.before = found] \in InitState
        BY <3>4, <4>1, <4>2, <4>3, IdleType DEF InitState
      <4> QED
        BY <4>4 DEF lone, found
    <3>7. ASSUME NEW j \in Inits
          PROVE  [init[j] EXCEPT !.alone = FALSE, !.before = Idle.before] \in InitState
      <4>1. init[j] \in InitState
        BY DEF TypeOK
      <4>2. Idle.before \in [config: ConfigState, known: SUBSET Root, wanted: SUBSET Paths]
        BY IdleType DEF InitState
      <4> QED
        BY <4>1, <4>2 DEF InitState
    <3>8. init' \in [Inits -> InitState]
      BY <3>3, <3>6, <3>7
    <3>9. output' \in OutputState
      BY <2>1 DEF Load, Silent, OutputState
    <3> QED
      BY <2>1, <3>1, <3>8, <3>9 DEF Load, TypeOK, OutputState
  <2>2. ASSUME NEW i \in Inits, Validate(i) PROVE TypeOK'
    <3>1. PICK p \in init[i].pending :
            IF dir[p] = NoDir
            THEN Returns(i, "failed")
            ELSE Becomes(i, [init[i] EXCEPT
                               !.pc = IF init[i].pending = {p} THEN "validated" ELSE @,
                               !.pending = @ \ {p},
                               !.roots = @ \cup {[path |-> p, dir |-> dir[p]]}])
      BY <2>2 DEF Validate
    <3>2. init[i] \in InitState /\ p \in Paths
      BY DEF TypeOK, InitState
    <3>3. CASE dir[p] = NoDir
      BY <2>2, <3>1, <3>3, ReturnsType, <2>0 DEF Validate, TypeOK
    <3>4. CASE dir[p] # NoDir
      <4>1. [path |-> p, dir |-> dir[p]] \in Root
        BY <3>2, <3>4 DEF Root, TypeOK
      <4>2. [init[i] EXCEPT
               !.pc = IF init[i].pending = {p} THEN "validated" ELSE @,
               !.pending = @ \ {p},
               !.roots = @ \cup {[path |-> p, dir |-> dir[p]]}] \in InitState
        BY <3>2, <4>1 DEF InitState
      <4> QED
        BY <2>2, <3>1, <3>4, <4>2, BecomesType, <2>0 DEF Validate, TypeOK
    <3> QED
      BY <3>3, <3>4
  <2>3. ASSUME NEW i \in Inits, CheckState(i) PROVE TypeOK'
    <3>1. init[i] \in InitState
      BY DEF TypeOK
    <3>2. [init[i] EXCEPT !.pc = "checked", !.existed = link # NoFile] \in InitState
      BY <3>1 DEF InitState
    <3> QED
      BY <2>3, <3>2, BecomesType, <2>0 DEF CheckState, TypeOK
  <2>4. ASSUME NEW i \in Inits, OpenState(i) PROVE TypeOK'
    <3>1. PICK f \in Files :
            /\ IF link = NoFile
               THEN link' = f /\ table' = [table EXCEPT ![f] = Blank]
               ELSE f = link /\ UNCHANGED <<link, table>>
            /\ Becomes(i, [init[i] EXCEPT
                             !.file = f, !.pc = IF table'[f].schema THEN "opened" ELSE "blank"])
      BY <2>4 DEF OpenState
    <3>2. init[i] \in InitState
      BY DEF TypeOK
    <3>3. [init[i] EXCEPT !.file = f,
                          !.pc = IF table'[f].schema THEN "opened" ELSE "blank"] \in InitState
      BY <3>2 DEF InitState
    <3>4. link' \in Files \cup {NoFile}
           /\ table' \in [Files -> [schema: BOOLEAN, roots: SUBSET Root]]
      <4>1. Blank \in [schema: BOOLEAN, roots: SUBSET Root]
        BY DEF Blank
      <4>2. [table EXCEPT ![f] = Blank] \in [Files -> [schema: BOOLEAN, roots: SUBSET Root]]
        BY <4>1 DEF TypeOK
      <4> QED
        BY <3>1, <4>2 DEF TypeOK
    <3> QED
      BY <2>4, <3>1, <3>3, <3>4, BecomesType, <2>0 DEF OpenState, TypeOK
  <2>5. ASSUME NEW i \in Inits, Migrate(i) PROVE TypeOK'
    <3>1. init' \in [Inits -> InitState] /\ output' \in OutputState
      BY <2>5, GoesType, ReturnsType DEF Migrate
    <3>2. table' \in [Files -> [schema: BOOLEAN, roots: SUBSET Root]]
      <4> DEFINE f == init[i].file
      <4>1. [table EXCEPT ![f].schema = TRUE] \in [Files -> [schema: BOOLEAN, roots: SUBSET Root]]
        BY DEF TypeOK
      <4> QED
        BY <2>5, <4>1 DEF Migrate, TypeOK
    <3> QED
      BY <2>5, <3>1, <3>2, <2>0 DEF Migrate, TypeOK
  <2>6. ASSUME NEW i \in Inits, OpenFails(i) PROVE TypeOK'
    BY <2>6, ReturnsType, <2>0 DEF OpenFails, TypeOK
  <2>7. ASSUME NEW i \in Inits, LookAtConfig(i) PROVE TypeOK'
    <3>1. init[i] \in InitState /\ config.exists \in BOOLEAN
      BY DEF TypeOK, ConfigState
    <3>2. [init[i] EXCEPT !.pc = "ready", !.listed = config.exists] \in InitState
      BY <3>1 DEF InitState
    <3> QED
      BY <2>7, <3>2, BecomesType, <2>0 DEF LookAtConfig, TypeOK
  <2>8. ASSUME NEW i \in Inits, AddRoots(i) PROVE TypeOK'
    <3>1. init' \in [Inits -> InitState] /\ output' \in OutputState
      BY <2>8, GoesType DEF AddRoots
    <3>2. holder' \in [Files -> Inits \cup {NoInit}]
      <4> DEFINE f == init[i].file
      <4>1. [holder EXCEPT ![f] = i] \in [Files -> Inits \cup {NoInit}]
        BY DEF TypeOK
      <4>2. holder' = [holder EXCEPT ![f] = i] \/ holder' = holder
        BY <2>8 DEF AddRoots
      <4> QED
        BY <4>1, <4>2 DEF TypeOK
    <3> QED
      BY <2>8, <3>1, <3>2, <2>0 DEF AddRoots, TypeOK
  <2>9. ASSUME NEW i \in Inits, TransactionFails(i) PROVE TypeOK'
    BY <2>9, GoesType, <2>0 DEF TransactionFails, TypeOK
  <2>10. ASSUME NEW i \in Inits, WriteConfig(i) PROVE TypeOK'
    <3>1. Kept(init[i].roots) \subseteq Root
      BY KeptIsPart DEF TypeOK, InitState
    <3>2. config' \in ConfigState
      BY <2>10, <3>1 DEF WriteConfig, ConfigState, PathsOf, Root
    <3> QED
      BY <2>10, <3>2, GoesType, <2>0 DEF WriteConfig, TypeOK
  <2>11. ASSUME NEW i \in Inits, WriteConfigFails(i) PROVE TypeOK'
    BY <2>11, FreeType, GoesType, <2>0 DEF WriteConfigFails, TypeOK
  <2>12. ASSUME NEW i \in Inits, Commit(i) PROVE TypeOK'
    <3>1. Kept(init[i].roots) \subseteq Root
      BY KeptIsPart DEF TypeOK, InitState
    <3>2. table' \in [Files -> [schema: BOOLEAN, roots: SUBSET Root]]
      <4> DEFINE f == init[i].file
                 after == [table[f] EXCEPT !.roots = @ \cup Kept(init[i].roots)]
                 Table == [schema: BOOLEAN, roots: SUBSET Root]
      <4>1. table \in [Files -> Table]
        BY DEF TypeOK
      <4>2. f \in Files => after \in Table
        BY <3>1, <4>1
      <4>3. table' = [table EXCEPT ![f] = after]
        BY <2>12 DEF Commit
      <4> HIDE DEF f, after, Table
      <4>4. table' \in [Files -> Table]
        BY <4>1, <4>2, <4>3
      <4> QED
        BY <4>4 DEF Table
    <3> QED
      BY <2>12, <3>2, FreeType, GoesType, <2>0 DEF Commit, TypeOK
  <2>13. ASSUME NEW i \in Inits, Enrol(i) PROVE TypeOK'
    BY <2>13, ReturnsType, <2>0 DEF Enrol, TypeOK
  <2>14. ASSUME NEW i \in Inits, CommitFails(i) PROVE TypeOK'
    BY <2>14, FreeType, GoesType, <2>0 DEF CommitFails, TypeOK
  <2>15. ASSUME NEW i \in Inits, RestoreConfig(i) PROVE TypeOK'
    <3>1. config' \in ConfigState
      BY <2>15 DEF RestoreConfig, Restored, Absent, ConfigState, TypeOK, InitState
    <3> QED
      BY <2>15, <3>1, GoesType, <2>0 DEF RestoreConfig, TypeOK
  <2>16. ASSUME NEW i \in Inits, RestoreConfigFails(i) PROVE TypeOK'
    <3>1. init[i] \in InitState
      BY DEF TypeOK
    <3>2. [init[i] EXCEPT !.pc = "removing", !.restored = FALSE] \in InitState
      BY <3>1 DEF InitState
    <3> QED
      BY <2>16, <3>2, BecomesType, <2>0 DEF RestoreConfigFails, TypeOK
  <2>17. ASSUME NEW i \in Inits, RemoveState(i) PROVE TypeOK'
    <3>1. init' \in [Inits -> InitState] /\ output' \in OutputState
      BY <2>17, ReturnsType DEF RemoveState
    <3> QED
      BY <2>17, <3>1, <2>0 DEF RemoveState, LinkAfter, TypeOK
  <2>18. ASSUME NEW i \in Inits, Kill(i) PROVE TypeOK'
    BY <2>18, ReturnsType, <2>0 DEF Kill, TypeOK
  <2>19. ASSUME NEW p \in Paths, Rearrange(p) PROVE TypeOK'
    <3>1. moves' \in 0 .. MaxMoves
      <4>1. moves \in 0 .. MaxMoves /\ moves < MaxMoves /\ moves' = moves + 1
        BY <2>19 DEF Rearrange, TypeOK
      <4> QED
        BY <4>1, Bounds
    <3>2. dir' \in [Paths -> Dirs \cup {NoDir}]
      BY <2>19 DEF Rearrange, TypeOK
    <3> QED
      BY <2>19, <3>1, <3>2, <2>0 DEF Rearrange, Silent, OutputState, TypeOK
  <2>20. CASE UNCHANGED vars
    BY <2>20 DEF vars, TypeOK
  <2> QED
    BY <2>1, <2>2, <2>3, <2>4, <2>5, <2>6, <2>7, <2>8, <2>9, <2>10, <2>11, <2>12, <2>13,
       <2>14, <2>15, <2>16, <2>17, <2>18, <2>19, <2>20 DEF Next, Step
<1> QED
  BY <1>1, <1>2, PTL DEF Spec
-----------------------------------------------------------------------------
(* No directory ever holds two authorities.  What the table promises is kept *)
(* by the check in add_root_tx only because the transaction that makes the   *)
(* check still has the write lock, and still finds the table as it was, when *)
(* it commits, with the configuration written in between.                    *)

\* On one volume, two roots are at one path exactly if they are one directory.
Compatible(roots) ==
    \A r, k \in roots : VolumeOf[k.dir] = VolumeOf[r.dir] => (k.path = r.path <=> k.dir = r.dir)

\* An init that opened the state file has one.
FileInv(i) ==
    init[i].pc \in {"blank", "opened", "ready", "inserted", "written"} => init[i].file \in Files

\* The rows an init inserted and has not committed fit the table, which nobody
\* else may write.
Approval(i) ==
    init[i].pc \in {"inserted", "written"} =>
        /\ holder[init[i].file] = i
        /\ Compatible(table[init[i].file].roots \cup Kept(init[i].roots))

IInv ==
    /\ TypeOK
    /\ \A f \in Files : Compatible(table[f].roots)
    /\ \A i \in Inits : FileInv(i) /\ Approval(i)

LEMMA BecomesTo ==
    ASSUME TypeOK, NEW i \in Inits, NEW me, Becomes(i, me)
    PROVE  init'[i] = me /\ \A j \in Inits \ {i} : init'[j] = init[j]
  BY DEF TypeOK, Becomes

LEMMA ReturnsTo ==
    ASSUME TypeOK, NEW i \in Inits, NEW result, Returns(i, result)
    PROVE  init'[i].pc = "idle" /\ \A j \in Inits \ {i} : init'[j] = init[j]
<1>1. init'[i] = Idle /\ \A j \in Inits \ {i} : init'[j] = init[j]
  BY DEF TypeOK, Returns
<1> QED
  BY <1>1 DEF Idle

LEMMA GoesTo ==
    ASSUME TypeOK, NEW i \in Inits, NEW to, Goes(i, to)
    PROVE  /\ init'[i].pc = to /\ init'[i].file = init[i].file
           /\ init'[i].roots = init[i].roots
           /\ \A j \in Inits \ {i} : init'[j] = init[j]
<1>1. init[i] \in InitState
  BY DEF TypeOK
<1>2. init'[i] = [init[i] EXCEPT !.pc = to]
  BY BecomesTo DEF Goes
<1>3. \A j \in Inits \ {i} : init'[j] = init[j]
  BY BecomesTo DEF Goes
<1> QED
  BY <1>1, <1>2, <1>3 DEF InitState

\* A check that finds no conflict leaves a table that fits.
LEMMA NoConflict ==
    ASSUME NEW known, NEW new, Compatible(known),
           \A r \in new : ~Conflicts(known \cup new, r)
    PROVE  Compatible(known \cup new)
<1> SUFFICES ASSUME NEW r \in known \cup new, NEW k \in known \cup new,
                    VolumeOf[k.dir] = VolumeOf[r.dir]
             PROVE  k.path = r.path <=> k.dir = r.dir
  BY DEF Compatible
<1>1. CASE r \in new
  BY <1>1 DEF Conflicts
<1>2. CASE k \in new
  BY <1>2 DEF Conflicts
<1>3. CASE r \in known /\ k \in known
  BY <1>3 DEF Compatible
<1> QED
  BY <1>1, <1>2, <1>3

\* A step of init i that changes no roots, takes no lock of another init and
\* leaves i without rows to commit.
LEMMA QuietStep ==
    ASSUME IInv, TypeOK', NEW i \in Inits,
           \A j \in Inits \ {i} : /\ init'[j].pc = init[j].pc /\ init'[j].file = init[j].file
                                  /\ init'[j].roots = init[j].roots,
           \A f \in Files : table'[f].roots = table[f].roots,
           \A f \in Files : \A j \in Inits \ {i} : holder[f] = j => holder'[f] = j,
           init'[i].pc \notin {"inserted", "written"},
           init'[i].pc \in {"blank", "opened", "ready"} => init'[i].file \in Files
    PROVE  IInv'
<1>1. \A f \in Files : Compatible(table[f].roots)'
  BY DEF IInv, Compatible
<1>2. FileInv(i)' /\ Approval(i)'
  BY DEF FileInv, Approval
<1>3. ASSUME NEW j \in Inits \ {i} PROVE FileInv(j)' /\ Approval(j)'
  <2>1. FileInv(j) /\ Approval(j)
    BY DEF IInv
  <2>2. FileInv(j)'
    BY <2>1 DEF FileInv
  <2>3. ASSUME init'[j].pc \in {"inserted", "written"}
        PROVE  /\ holder'[init'[j].file] = j
               /\ Compatible(table[init[j].file].roots \cup Kept(init[j].roots))'
    <3>1. /\ init[j].file \in Files /\ holder[init[j].file] = j
          /\ Compatible(table[init[j].file].roots \cup Kept(init[j].roots))
      BY <2>1, <2>3 DEF FileInv, Approval
    <3>2. /\ table'[init'[j].file].roots = table[init[j].file].roots
          /\ Kept(init'[j].roots) = Kept(init[j].roots)
      BY <3>1
    <3> QED
      BY <3>1, <3>2 DEF Compatible
  <2> QED
    BY <2>2, <2>3 DEF Approval
<1> QED
  BY <1>1, <1>2, <1>3 DEF IInv

\* The invariant of registration is kept by every step.
LEMMA RegistrationInduction == IInv /\ TypeOK' /\ [Next]_vars => IInv'
<1> SUFFICES ASSUME IInv, TypeOK', [Next]_vars PROVE IInv'
  OBVIOUS
<1> USE DEF At, files
<1>0. TypeOK /\ (\A i \in Inits : FileInv(i) /\ Approval(i))
  BY DEF IInv
<1>1. ASSUME NEW i \in Inits, Load(i) PROVE IInv'
  <2>1. \A j \in Inits : /\ init'[j].file = IF j = i THEN Idle.file ELSE init[j].file
                         /\ init'[j].roots = IF j = i THEN Idle.roots ELSE init[j].roots
                         /\ init'[j].pc = IF j = i THEN "loaded" ELSE init[j].pc
    <3>1. \A j \in Inits : init[j] \in InitState
      BY <1>0 DEF TypeOK
    <3>2. PICK wanted :
             init' = [j \in Inits |->
                      IF j = i
                      THEN [Idle EXCEPT !.pc = "loaded", !.previous = config.roots,
                                        !.pending = Supplied(config.roots, wanted),
                                        !.alone = \A k \in Inits : ~Active(k),
                                        !.before = [config |-> config, known |-> Registered,
                                                    wanted |-> wanted]]
                      ELSE [init[j] EXCEPT !.alone = FALSE, !.before = Idle.before]]
      BY <1>1 DEF Load
    <3> QED
      BY <3>1, <3>2, IdleType DEF InitState
  <2> QED
    BY <1>1, <2>1, QuietStep DEF Load
<1>2. ASSUME NEW i \in Inits, Validate(i) PROVE IInv'
  <2>1. PICK p \in init[i].pending :
          IF dir[p] = NoDir
          THEN Returns(i, "failed")
          ELSE Becomes(i, [init[i] EXCEPT
                             !.pc = IF init[i].pending = {p} THEN "validated" ELSE @,
                             !.pending = @ \ {p},
                             !.roots = @ \cup {[path |-> p, dir |-> dir[p]]}])
    BY <1>2 DEF Validate
  <2>2. init[i] \in InitState /\ init[i].pc = "loaded"
    BY <1>0, <1>2 DEF TypeOK, Validate
  <2>3. /\ init'[i].pc \in {"idle", "loaded", "validated"}
        /\ \A j \in Inits \ {i} : init'[j] = init[j]
    <3>1. CASE dir[p] = NoDir
      BY <1>0, <2>1, <3>1, ReturnsTo
    <3>2. CASE dir[p] # NoDir
      <4> DEFINE me == [init[i] EXCEPT
                          !.pc = IF init[i].pending = {p} THEN "validated" ELSE @,
                          !.pending = @ \ {p},
                          !.roots = @ \cup {[path |-> p, dir |-> dir[p]]}]
      <4>1. me.pc \in {"loaded", "validated"}
        BY <2>2 DEF InitState
      <4>2. Becomes(i, me)
        BY <2>1, <3>2
      <4> HIDE DEF me
      <4> QED
        BY <1>0, <4>1, <4>2, BecomesTo
    <3> QED
      BY <3>1, <3>2
  <2> QED
    BY <1>2, <2>3, QuietStep DEF Validate
<1>3. ASSUME NEW i \in Inits, CheckState(i) PROVE IInv'
  <2> DEFINE me == [init[i] EXCEPT !.pc = "checked", !.existed = link # NoFile]
  <2>1. init[i] \in InitState
    BY <1>0 DEF TypeOK
  <2>2. me.pc = "checked" /\ Becomes(i, me)
    BY <1>3, <2>1 DEF CheckState, InitState
  <2> HIDE DEF me
  <2>3. init'[i].pc = "checked" /\ \A j \in Inits \ {i} : init'[j] = init[j]
    BY <1>0, <2>2, BecomesTo
  <2> QED
    BY <1>3, <2>3, QuietStep DEF CheckState
<1>4. ASSUME NEW i \in Inits, OpenState(i) PROVE IInv'
  <2>1. PICK f \in Files :
          /\ IF link = NoFile
             THEN Unused(f) /\ link' = f /\ table' = [table EXCEPT ![f] = Blank]
             ELSE f = link /\ UNCHANGED <<link, table>>
          /\ Becomes(i, [init[i] EXCEPT
                           !.file = f, !.pc = IF table'[f].schema THEN "opened" ELSE "blank"])
    BY <1>4 DEF OpenState
  <2>2. init[i] \in InitState
    BY <1>0 DEF TypeOK
  <2>3. init'[i].file = f /\ init'[i].pc \in {"opened", "blank"}
    <3>1. init'[i] = [init[i] EXCEPT
                         !.file = f, !.pc = IF table'[f].schema THEN "opened" ELSE "blank"]
      BY <1>0, <2>1, BecomesTo
    <3> QED
      BY <2>2, <3>1 DEF InitState
  <2>4. \A j \in Inits \ {i} : init'[j] = init[j]
    BY <1>0, <2>1, BecomesTo
  <2>5. CASE link = NoFile
    <3>1. \A g \in Files : table'[g].roots = IF g = f THEN {} ELSE table[g].roots
      <4>1. Blank.roots = {}
        BY DEF Blank
      <4>2. table' = [table EXCEPT ![f] = Blank]
        BY <2>1, <2>5
      <4> QED
        BY <1>0, <4>1, <4>2 DEF TypeOK
    <3>2. \A g \in Files : Compatible(table[g].roots)'
      BY <3>1 DEF IInv, Compatible
    <3>3. ASSUME NEW j \in Inits \ {i} PROVE FileInv(j)' /\ Approval(j)'
      <4>1. FileInv(j)'
        BY <1>0, <2>4 DEF FileInv
      <4>2. ASSUME init[j].pc \in {"inserted", "written"}
            PROVE  Compatible(table[init[j].file].roots \cup Kept(init[j].roots))'
        <5>1. init[j].file \in Files /\ init[j].file # f
          BY <1>0, <2>1, <2>5, <4>2 DEF FileInv, Unused
        <5>2. table'[init'[j].file].roots = table[init[j].file].roots
          BY <2>4, <3>1, <5>1
        <5>3. Compatible(table[init[j].file].roots \cup Kept(init[j].roots))
          BY <1>0, <4>2 DEF Approval
        <5> QED
          BY <2>4, <5>2, <5>3 DEF Compatible
      <4>3. init[j].pc \in {"inserted", "written"} => holder'[init[j].file] = j
        BY <1>0, <1>4 DEF Approval, OpenState
      <4> QED
        BY <2>4, <4>1, <4>2, <4>3 DEF Approval
    <3>4. FileInv(i)' /\ Approval(i)'
      BY <2>3 DEF FileInv, Approval
    <3> QED
      BY <3>2, <3>3, <3>4 DEF IInv
  <2>6. CASE link # NoFile
    BY <1>4, <2>1, <2>3, <2>4, <2>6, QuietStep DEF OpenState
  <2> QED
    BY <2>5, <2>6
<1>5. ASSUME NEW i \in Inits, Migrate(i) PROVE IInv'
  <2>1. init[i] \in InitState /\ init[i].pc = "blank"
    BY <1>0, <1>5 DEF TypeOK, Migrate
  <2>2. init'[i].pc = "idle" \/ (init'[i].pc = "opened" /\ init'[i].file = init[i].file)
    BY <1>0, <1>5, GoesTo, ReturnsTo DEF Migrate
  <2>3. \A j \in Inits \ {i} : init'[j] = init[j]
    BY <1>0, <1>5, GoesTo, ReturnsTo DEF Migrate
  <2>4. \A f \in Files : table'[f].roots = table[f].roots
    <3> DEFINE f == init[i].file
    <3>1. table' = [table EXCEPT ![f].schema = TRUE] \/ table' = table
      BY <1>5 DEF Migrate
    <3> HIDE DEF f
    <3>2. table \in [Files -> [schema: BOOLEAN, roots: SUBSET Root]]
      BY <1>0 DEF TypeOK
    <3>3. \A g \in Files : [table EXCEPT ![f].schema = TRUE][g].roots = table[g].roots
      BY <3>2
    <3> QED
      BY <3>1, <3>3
  <2>5. init[i].file \in Files
    BY <1>0, <2>1 DEF FileInv
  <2>6. holder' = holder
    BY <1>5 DEF Migrate
  <2> QED
    BY <2>2, <2>3, <2>4, <2>5, <2>6, QuietStep
<1>6. ASSUME NEW i \in Inits, LookAtConfig(i) PROVE IInv'
  <2>1. init[i] \in InitState /\ init[i].file \in Files
    BY <1>0, <1>6 DEF TypeOK, FileInv, LookAtConfig
  <2>2. init'[i].pc = "ready" /\ init'[i].file = init[i].file
    <3>1. init'[i] = [init[i] EXCEPT !.pc = "ready", !.listed = config.exists]
      BY <1>0, <1>6, BecomesTo DEF LookAtConfig
    <3> QED
      BY <2>1, <3>1 DEF InitState
  <2>3. \A j \in Inits \ {i} : init'[j] = init[j]
    BY <1>0, <1>6, BecomesTo DEF LookAtConfig
  <2> QED
    BY <1>6, <2>1, <2>2, <2>3, QuietStep DEF LookAtConfig
<1>7. ASSUME NEW i \in Inits, AddRoots(i) PROVE IInv'
  <2> DEFINE f == init[i].file
             new == Kept(init[i].roots)
  <2>1. init[i] \in InitState /\ f \in Files /\ holder[f] = NoInit
    BY <1>0, <1>7 DEF TypeOK, FileInv, AddRoots
  <2>2. \A j \in Inits \ {i} : init'[j] = init[j]
    BY <1>0, <1>7, GoesTo DEF AddRoots
  <2>3. table' = table
    BY <1>7 DEF AddRoots
  <2>4. CASE \E r \in new : Conflicts(table[f].roots \cup new, r)
    <3>1. Goes(i, "removing") /\ holder' = holder
      BY <1>7, <2>4 DEF AddRoots
    <3>2. init'[i].pc = "removing"
      BY <1>0, <3>1, GoesTo
    <3> QED
      BY <2>2, <2>3, <3>1, <3>2, QuietStep
  <2>5. CASE \A r \in new : ~Conflicts(table[f].roots \cup new, r)
    <3>1. Goes(i, "inserted") /\ holder' = [holder EXCEPT ![f] = i]
      BY <1>7, <2>5 DEF AddRoots
    <3>2. init'[i].pc = "inserted" /\ init'[i].file = f /\ init'[i].roots = init[i].roots
      BY <1>0, <3>1, GoesTo
    <3>3. Compatible(table[f].roots)
      BY <2>1 DEF IInv
    <3>4. Compatible(table[f].roots \cup new)
      <4> HIDE DEF f, new
      <4> QED
        BY <2>5, <3>3, NoConflict
    <3>5. holder'[f] = i /\ \A g \in Files \ {f} : holder'[g] = holder[g]
      BY <1>0, <2>1, <3>1 DEF TypeOK
    <3>6. FileInv(i)' /\ Approval(i)'
      <4>1. Compatible(table[init[i].file].roots \cup Kept(init[i].roots))'
        <5>1. /\ table'[init'[i].file].roots = table[f].roots
              /\ Kept(init'[i].roots) = new
          BY <2>3, <3>2
        <5> QED
          BY <3>4, <5>1 DEF Compatible
      <4> QED
        BY <2>1, <3>2, <3>5, <4>1 DEF FileInv, Approval
    <3>7. ASSUME NEW j \in Inits \ {i} PROVE FileInv(j)' /\ Approval(j)'
      <4>1. FileInv(j)'
        BY <1>0, <2>2 DEF FileInv
      <4>2. ASSUME init[j].pc \in {"inserted", "written"}
            PROVE  /\ holder'[init[j].file] = j
                   /\ Compatible(table[init[j].file].roots \cup Kept(init[j].roots))'
        <5>1. /\ init[j].file \in Files /\ holder[init[j].file] = j
              /\ Compatible(table[init[j].file].roots \cup Kept(init[j].roots))
          BY <1>0, <4>2 DEF FileInv, Approval
        <5>2. init[j].file # f
          BY <2>1, <5>1, RegistrationAssumption
        <5> QED
          BY <2>2, <2>3, <3>5, <5>1, <5>2 DEF Compatible
      <4> QED
        BY <2>2, <4>1, <4>2 DEF Approval
    <3>8. \A g \in Files : Compatible(table[g].roots)'
      BY <2>3 DEF IInv, Compatible
    <3> QED
      BY <3>6, <3>7, <3>8 DEF IInv
  <2> QED
    BY <2>4, <2>5
<1>8. ASSUME NEW i \in Inits, TransactionFails(i) \/ RestoreConfig(i) PROVE IInv'
  <2>1. init'[i].pc = "removing" /\ \A j \in Inits \ {i} : init'[j] = init[j]
    BY <1>0, <1>8, GoesTo DEF TransactionFails, RestoreConfig
  <2> QED
    BY <1>8, <2>1, QuietStep DEF TransactionFails, RestoreConfig
<1>9. ASSUME NEW i \in Inits, RestoreConfigFails(i) PROVE IInv'
  <2> DEFINE me == [init[i] EXCEPT !.pc = "removing", !.restored = FALSE]
  <2>1. init[i] \in InitState
    BY <1>0 DEF TypeOK
  <2>2. me.pc = "removing" /\ Becomes(i, me)
    BY <1>9, <2>1 DEF RestoreConfigFails, InitState
  <2> HIDE DEF me
  <2>3. init'[i].pc = "removing" /\ \A j \in Inits \ {i} : init'[j] = init[j]
    BY <1>0, <2>2, BecomesTo
  <2> QED
    BY <1>9, <2>3, QuietStep DEF RestoreConfigFails
<1>10. ASSUME NEW i \in Inits, WriteConfig(i) PROVE IInv'
  <2>1. init[i] \in InitState /\ init[i].pc = "inserted" /\ FileInv(i) /\ Approval(i)
    BY <1>0, <1>10 DEF TypeOK, WriteConfig
  <2>2. /\ init'[i].pc = "written" /\ init'[i].file = init[i].file
        /\ init'[i].roots = init[i].roots
    BY <1>0, <1>10, GoesTo DEF WriteConfig
  <2>3. \A j \in Inits \ {i} : init'[j] = init[j]
    BY <1>0, <1>10, GoesTo DEF WriteConfig
  <2>4. table' = table /\ holder' = holder
    BY <1>10 DEF WriteConfig
  <2>5. FileInv(i)' /\ Approval(i)'
    BY <2>1, <2>2, <2>4 DEF FileInv, Approval, Compatible
  <2>6. \A j \in Inits \ {i} : FileInv(j)' /\ Approval(j)'
    BY <1>0, <2>3, <2>4 DEF FileInv, Approval, Compatible
  <2>7. \A f \in Files : Compatible(table[f].roots)'
    BY <2>4 DEF IInv, Compatible
  <2> QED
    BY <2>5, <2>6, <2>7 DEF IInv
<1>11. ASSUME NEW i \in Inits, WriteConfigFails(i) \/ CommitFails(i) PROVE IInv'
  <2>1. init[i] \in InitState
    BY <1>0 DEF TypeOK
  <2>2. init'[i].pc \in {"removing", "restoring"}
    BY <1>0, <1>11, GoesTo DEF WriteConfigFails, CommitFails
  <2>3. \A j \in Inits \ {i} : init'[j] = init[j]
    BY <1>0, <1>11, GoesTo DEF WriteConfigFails, CommitFails
  <2>4. \A f \in Files : \A j \in Inits \ {i} : holder[f] = j => holder'[f] = j
    BY <1>0, <1>11 DEF TypeOK, WriteConfigFails, CommitFails, Free
  <2>5. table' = table
    BY <1>11 DEF WriteConfigFails, CommitFails
  <2> QED
    BY <2>2, <2>3, <2>4, <2>5, QuietStep
<1>12. ASSUME NEW i \in Inits, Commit(i) PROVE IInv'
  <2> DEFINE f == init[i].file
             new == Kept(init[i].roots)
  <2>1. init[i] \in InitState /\ f \in Files /\ holder[f] = i
    BY <1>0, <1>12 DEF TypeOK, FileInv, Approval, Commit
  <2>2. init'[i].pc = "committed"
    BY <1>0, <1>12, GoesTo DEF Commit
  <2>3. \A j \in Inits \ {i} : init'[j] = init[j]
    BY <1>0, <1>12, GoesTo DEF Commit
  <2>4. \A g \in Files :
           table'[g].roots = IF g = f THEN table[f].roots \cup new ELSE table[g].roots
    <3>1. table' = [table EXCEPT ![f].roots = @ \cup new]
      BY <1>12 DEF Commit
    <3> QED
      BY <1>0, <2>1, <3>1 DEF TypeOK
  <2>5. Compatible(table[f].roots \cup new)
    BY <1>0, <1>12 DEF Approval, Commit
  <2>6. ASSUME NEW g \in Files PROVE Compatible(table[g].roots)'
    <3>1. Compatible(table[g].roots)
      BY DEF IInv
    <3>2. CASE g = f
      BY <2>4, <2>5, <3>2 DEF Compatible
    <3>3. CASE g # f
      BY <2>4, <3>1, <3>3 DEF Compatible
    <3> QED
      BY <3>2, <3>3
  <2>7. FileInv(i)' /\ Approval(i)'
    BY <2>2 DEF FileInv, Approval
  <2>8. ASSUME NEW j \in Inits \ {i} PROVE FileInv(j)' /\ Approval(j)'
    <3>1. FileInv(j)'
      BY <1>0, <2>3 DEF FileInv
    <3>2. ASSUME init[j].pc \in {"inserted", "written"}
          PROVE  /\ holder'[init[j].file] = j
                 /\ Compatible(table[init[j].file].roots \cup Kept(init[j].roots))'
      <4>1. /\ init[j].file \in Files /\ holder[init[j].file] = j
            /\ Compatible(table[init[j].file].roots \cup Kept(init[j].roots))
        BY <1>0, <3>2 DEF FileInv, Approval
      <4>2. init[j].file # f
        BY <2>1, <4>1
      <4>3. holder'[init[j].file] = j
        BY <1>0, <1>12, <4>1 DEF TypeOK, Commit, Free
      <4>4. table'[init'[j].file].roots = table[init[j].file].roots
        BY <2>3, <2>4, <4>1, <4>2
      <4> QED
        BY <2>3, <4>1, <4>3, <4>4 DEF Compatible
    <3> QED
      BY <2>3, <3>1, <3>2 DEF Approval
  <2> QED
    BY <2>6, <2>7, <2>8 DEF IInv
<1>13. ASSUME NEW i \in Inits, OpenFails(i) \/ Enrol(i) \/ RemoveState(i) \/ Kill(i)
      PROVE  IInv'
  <2>1. PICK result : Returns(i, result)
    BY <1>13 DEF OpenFails, Enrol, RemoveState, Kill
  <2>2. init'[i].pc = "idle" /\ \A j \in Inits \ {i} : init'[j] = init[j]
    BY <1>0, <2>1, ReturnsTo
  <2>3. \A f \in Files : \A j \in Inits \ {i} : holder[f] = j => holder'[f] = j
    BY <1>0, <1>13 DEF TypeOK, OpenFails, Enrol, RemoveState, Kill
  <2>4. table' = table
    BY <1>13 DEF OpenFails, Enrol, RemoveState, Kill
  <2> QED
    BY <2>2, <2>3, <2>4, QuietStep
<1>14. CASE UNCHANGED vars \/ \E p \in Paths : Rearrange(p)
  <2>1. UNCHANGED <<table, holder, init>>
    BY <1>14 DEF vars, Rearrange
  <2> QED
    BY <1>0, <2>1 DEF IInv, FileInv, Approval, Compatible
<1> QED
  BY <1>1, <1>2, <1>3, <1>4, <1>5, <1>6, <1>7, <1>8, <1>9, <1>10, <1>11,
     <1>12, <1>13, <1>14 DEF Next, Step

\* No ledger ever approves one directory under two paths, or one path as two
\* directories of one volume.
THEOREM OneAuthority == Spec => []OneAuthorityPerDirectory
<1>1. Init => IInv
  <2> SUFFICES ASSUME Init PROVE /\ \A f \in Files : Compatible(table[f].roots)
                                 /\ \A i \in Inits : FileInv(i) /\ Approval(i)
    BY TypeCorrectInit DEF IInv
  <2>1. \A f \in Files : table[f].roots = {}
    BY DEF Init, Blank
  <2>2. \A i \in Inits : init[i].pc = "idle"
    BY DEF Init, Idle
  <2> QED
    BY <2>1, <2>2 DEF Compatible, FileInv, Approval
<1>2. IInv => OneAuthorityPerDirectory
  <2> SUFFICES ASSUME IInv, NEW f \in Files, NEW r \in table[f].roots, NEW k \in table[f].roots
               PROVE  /\ r.dir = k.dir => r = k
                      /\ r.path = k.path /\ VolumeOf[r.dir] = VolumeOf[k.dir] => r = k
    BY DEF OneAuthorityPerDirectory
  <2>1. r \in Root /\ k \in Root
    BY DEF IInv, TypeOK
  <2>2. r.dir = k.dir /\ r.path = k.path => r = k
    BY <2>1 DEF Root
  <2>3. VolumeOf[k.dir] = VolumeOf[r.dir] => (k.path = r.path <=> k.dir = r.dir)
    BY DEF IInv, Compatible
  <2> QED
    BY <2>2, <2>3
<1> QED
  BY <1>1, <1>2, TypeCorrect, RegistrationInduction, PTL DEF Spec
-----------------------------------------------------------------------------
(* A failure leaves no trace.  What an init that runs alone may rely on is   *)
(* said of its memory m, the name l of the state file, the tables t and the  *)
(* configuration c.                                                          *)

\* Steps before the state file is open, with it open and nothing committed, those
\* that know whether there was a configuration, those that have not replaced it.
Unopened == {"loaded", "validated", "checked"}
Uncommitted == {"blank", "opened", "ready", "inserted", "written", "restoring", "removing"}
Looked == {"ready", "inserted", "written", "restoring", "removing"}
Untouched == Unopened \cup {"blank", "opened", "ready", "inserted"}

Found(l, t) == IF l = NoFile THEN {} ELSE t[l].roots

Trace(m, l, t, c) ==
    /\ m.previous = m.before.config.roots
    /\ ~m.before.config.exists => m.before.config = Absent
    /\ m.pc \in Unopened => Found(l, t) = m.before.known
    /\ m.pc = "checked" => (m.existed <=> l # NoFile)
    /\ m.pc \in Uncommitted =>
          /\ l = m.file /\ l \in Files /\ t[l].roots = m.before.known
          /\ ~m.existed => m.before.known = {}
    /\ m.pc \in Looked => (m.listed <=> m.before.config.exists)
    /\ m.pc \in Untouched \/ (m.pc = "removing" /\ m.restored) => c = m.before.config

Empty(c) == ~c.exists => c = Absent

AloneInv ==
    /\ Empty(config)
    /\ \A i \in Inits : Active(i) /\ init[i].alone =>
          /\ \A j \in Inits \ {i} : ~Active(j)
          /\ Trace(init[i], link, table, config)

\* A step of an init in the course of its work: nobody else runs alone.
LEMMA AloneStep ==
    ASSUME TypeOK, AloneInv, NEW i \in Inits, Active(i), NEW me, Becomes(i, me),
           me.alone = init[i].alone, Empty(config'),
           init[i].alone /\ Trace(init[i], link, table, config)
              => Trace(me, link', table', config')
    PROVE  AloneInv'
<1>1. init'[i] = me /\ \A j \in Inits \ {i} : init'[j] = init[j]
  BY BecomesTo
<1>2. ASSUME NEW j \in Inits, init'[j].pc # "idle", init'[j].alone
      PROVE  /\ \A k \in Inits \ {j} : init'[k].pc = "idle"
             /\ Trace(init'[j], link', table', config')
  <2>1. j = i
    BY <1>1, <1>2 DEF AloneInv, Active
  <2>2. init[i].alone
    BY <1>1, <1>2, <2>1
  <2>3. \A k \in Inits \ {i} : init[k].pc = "idle"
    BY <2>2 DEF AloneInv, Active
  <2>4. Trace(me, link', table', config')
    BY <2>2 DEF AloneInv
  <2> QED
    BY <1>1, <2>1, <2>3, <2>4
<1> QED
  BY <1>2 DEF AloneInv, Active

\* A step that ends an init.
LEMMA AloneReturn ==
    ASSUME TypeOK, AloneInv, NEW i \in Inits, Active(i), NEW result, Returns(i, result),
           Empty(config')
    PROVE  AloneInv'
<1>1. init'[i].pc = "idle" /\ \A j \in Inits \ {i} : init'[j] = init[j]
  BY ReturnsTo
<1>2. \A j \in Inits : ~(init'[j].pc # "idle" /\ init'[j].alone)
  BY <1>1 DEF AloneInv, Active
<1> QED
  BY <1>2 DEF AloneInv, Active

LEMMA AloneLoad ==
    ASSUME TypeOK, AloneInv, NEW i \in Inits, Load(i)
    PROVE  AloneInv'
<1> USE DEF files
<1>1. PICK wanted :
         init' = [j \in Inits |->
                      IF j = i
                      THEN [Idle EXCEPT !.pc = "loaded", !.previous = config.roots,
                                        !.pending = Supplied(config.roots, wanted),
                                        !.alone = \A k \in Inits : ~Active(k),
                                        !.before = [config |-> config, known |-> Registered,
                                                    wanted |-> wanted]]
                      ELSE [init[j] EXCEPT !.alone = FALSE, !.before = Idle.before]]
  BY DEF Load
<1>2. \A j \in Inits : init[j] \in InitState
  BY DEF TypeOK
<1>3. \A j \in Inits \ {i} : init'[j].pc = init[j].pc /\ init'[j].alone = FALSE
  BY <1>1, <1>2 DEF InitState
<1>4. /\ init'[i].pc = "loaded" /\ init'[i].previous = config.roots
      /\ init'[i].alone = (\A k \in Inits : ~Active(k))
      /\ init'[i].before = [config |-> config, known |-> Registered, wanted |-> wanted]
  BY <1>1 DEF Idle
<1>5. UNCHANGED <<config, link, table>>
  BY DEF Load
<1>6. Trace(init'[i], link', table', config')
  BY <1>4, <1>5 DEF Trace, AloneInv, Empty, Found, Registered, Unopened, Uncommitted, Looked
<1>7. init'[i].alone => \A k \in Inits \ {i} : init'[k].pc = "idle"
  BY <1>3, <1>4 DEF Active
<1> QED
  BY <1>3, <1>5, <1>6, <1>7 DEF AloneInv, Active

\* The steps up to the open state file.
LEMMA AloneOpening ==
    ASSUME TypeOK, AloneInv, NEW i \in Inits,
           Validate(i) \/ CheckState(i) \/ OpenState(i) \/ Migrate(i) \/ OpenFails(i)
    PROVE  AloneInv'
<1> USE DEF At, files
<1>1. init[i] \in InitState /\ Active(i) /\ Empty(config') /\ config' = config
  BY DEF TypeOK, Active, AloneInv, Validate, CheckState, OpenState, Migrate, OpenFails
<1>2. CASE \E result : Returns(i, result)
  BY <1>1, <1>2, AloneReturn
<1>3. CASE Validate(i) /\ ~\E result : Returns(i, result)
  <2>1. PICK p : Becomes(i, [init[i] EXCEPT
                                 !.pc = IF init[i].pending = {p} THEN "validated" ELSE @,
                                 !.pending = @ \ {p},
                                 !.roots = @ \cup {[path |-> p, dir |-> dir[p]]}])
    BY <1>3 DEF Validate
  <2> DEFINE me == [init[i] EXCEPT
                                 !.pc = IF init[i].pending = {p} THEN "validated" ELSE @,
                                 !.pending = @ \ {p},
                                 !.roots = @ \cup {[path |-> p, dir |-> dir[p]]}]
  <2>2. /\ me.pc \in {"loaded", "validated"} /\ init[i].pc = "loaded"
        /\ me.alone = init[i].alone /\ me.previous = init[i].previous
        /\ me.before = init[i].before
    BY <1>1, <1>3 DEF InitState, Validate
  <2>3. link' = link /\ table' = table
    BY <1>3 DEF Validate
  <2>4. Becomes(i, me)
    BY <2>1
  <2> HIDE DEF me
  <2>5. Trace(init[i], link, table, config) => Trace(me, link', table', config')
    BY <1>1, <2>2, <2>3 DEF Trace, Unopened, Uncommitted, Looked, Untouched
  <2> QED
    BY <1>1, <2>2, <2>4, <2>5, AloneStep
<1>4. CASE CheckState(i)
  <2> DEFINE me == [init[i] EXCEPT !.pc = "checked", !.existed = link # NoFile]
  <2>1. /\ me.pc = "checked" /\ me.existed = (link # NoFile) /\ init[i].pc = "validated"
        /\ me.alone = init[i].alone /\ me.previous = init[i].previous
        /\ me.before = init[i].before
    BY <1>1, <1>4 DEF InitState, CheckState
  <2>2. link' = link /\ table' = table /\ Becomes(i, me)
    BY <1>4 DEF CheckState
  <2> HIDE DEF me
  <2>3. Trace(init[i], link, table, config) => Trace(me, link', table', config')
    BY <1>1, <2>1, <2>2 DEF Trace, Unopened, Uncommitted, Looked, Untouched
  <2> QED
    BY <1>1, <2>1, <2>2, <2>3, AloneStep
<1>5. CASE OpenState(i)
  <2>1. PICK f \in Files :
           /\ IF link = NoFile
              THEN link' = f /\ table' = [table EXCEPT ![f] = Blank]
              ELSE f = link /\ UNCHANGED <<link, table>>
           /\ Becomes(i, [init[i] EXCEPT
                             !.file = f, !.pc = IF table'[f].schema THEN "opened" ELSE "blank"])
    BY <1>5 DEF OpenState
  <2> DEFINE me == [init[i] EXCEPT
                       !.file = f, !.pc = IF table'[f].schema THEN "opened" ELSE "blank"]
  <2>2. /\ me.pc \in {"opened", "blank"} /\ me.file = f /\ init[i].pc = "checked"
        /\ me.alone = init[i].alone /\ me.previous = init[i].previous
        /\ me.before = init[i].before /\ me.existed = init[i].existed
    BY <1>1, <1>5 DEF InitState, OpenState
  <2>3. Becomes(i, me)
    BY <2>1
  <2>4. link' = f /\ table'[f].roots = Found(link, table)
    <3>1. CASE link = NoFile
      <4>1. table'[f] = Blank /\ link' = f
        BY <2>1, <3>1 DEF TypeOK
      <4>2. Blank.roots = {}
        BY DEF Blank
      <4> QED
        BY <3>1, <4>1, <4>2 DEF Found
    <3>2. CASE link # NoFile
      BY <2>1, <3>2 DEF Found
    <3> QED
      BY <3>1, <3>2
  <2> HIDE DEF me
  <2>5. Trace(init[i], link, table, config) => Trace(me, link', table', config')
    BY <1>1, <2>2, <2>4 DEF Trace, Found, Unopened, Uncommitted, Looked, Untouched
  <2> QED
    BY <1>1, <2>2, <2>3, <2>5, AloneStep
<1>6. CASE Migrate(i) /\ ~\E result : Returns(i, result)
  <2> DEFINE f == init[i].file
             me == [init[i] EXCEPT !.pc = "opened"]
  <2>1. /\ me.pc = "opened" /\ me.file = f /\ init[i].pc = "blank"
        /\ me.alone = init[i].alone /\ me.previous = init[i].previous
        /\ me.before = init[i].before /\ me.existed = init[i].existed
    BY <1>1, <1>6 DEF InitState, Migrate
  <2>2. Becomes(i, me) /\ link' = link /\ table' = [table EXCEPT ![f].schema = TRUE]
    BY <1>6 DEF Migrate, Goes
  <2>3. f \in Files => table'[f].roots = table[f].roots
    BY <2>2 DEF TypeOK
  <2> HIDE DEF me
  <2>4. Trace(init[i], link, table, config) => Trace(me, link', table', config')
    BY <1>1, <2>1, <2>2, <2>3 DEF Trace, Unopened, Uncommitted, Looked, Untouched
  <2> QED
    BY <1>1, <2>1, <2>2, <2>4, AloneStep
<1>7. OpenFails(i) => \E result : Returns(i, result)
  BY DEF OpenFails
<1> QED
  BY <1>2, <1>3, <1>4, <1>5, <1>6, <1>7

\* The steps with it open.
LEMMA AloneWriting ==
    ASSUME TypeOK, AloneInv, NEW i \in Inits, NEW to, At(i, init[i].pc), Goes(i, to),
           link' = link, Empty(config'),
           init[i].pc \in Uncommitted,
           \/ to \in {"inserted", "removing"} /\ init[i].pc \in {"ready", "inserted"}
                /\ UNCHANGED <<table, config>>
           \/ to = "written" /\ init[i].pc = "inserted" /\ UNCHANGED table
           \/ to = "restoring" /\ init[i].pc = "written" /\ UNCHANGED table
           \/ to = "removing" /\ init[i].pc = "restoring" /\ UNCHANGED table
                /\ config' = Restored(init[i])
           \/ to = "committed"
    PROVE  AloneInv'
<1> DEFINE me == [init[i] EXCEPT !.pc = to]
<1>1. init[i] \in InitState /\ Active(i)
  BY DEF TypeOK, Active, Uncommitted
<1>2. /\ me.pc = to /\ me.file = init[i].file /\ me.listed = init[i].listed
      /\ me.alone = init[i].alone /\ me.previous = init[i].previous
      /\ me.before = init[i].before /\ me.existed = init[i].existed
      /\ me.restored = init[i].restored
  BY <1>1 DEF InitState
<1>3. Becomes(i, me)
  BY DEF Goes
<1>4. init[i].before.config \in ConfigState
  BY <1>1 DEF InitState
<1>5. Trace(init[i], link, table, config) /\ init[i].pc \in Looked
         => Restored(init[i]) = init[i].before.config
  BY <1>4 DEF Trace, Restored, ConfigState
<1> HIDE DEF me
<1>6. Trace(init[i], link, table, config) => Trace(me, link', table', config')
  BY <1>2, <1>5 DEF Trace, Unopened, Uncommitted, Looked, Untouched
<1> QED
  BY <1>1, <1>2, <1>3, <1>6, AloneStep

LEMMA AloneOpened ==
    ASSUME TypeOK, AloneInv, NEW i \in Inits,
           \/ AddRoots(i) \/ TransactionFails(i) \/ WriteConfig(i) \/ WriteConfigFails(i)
           \/ Commit(i) \/ CommitFails(i) \/ RestoreConfig(i)
    PROVE  AloneInv'
<1> USE DEF At, files, Uncommitted
<1>1. Empty(config)
  BY DEF AloneInv
<1>2. CASE AddRoots(i)
  <2>1. \E to \in {"inserted", "removing"} : Goes(i, to)
    BY <1>2 DEF AddRoots
  <2> QED
    BY <1>1, <1>2, <2>1, AloneWriting DEF AddRoots
<1>3. CASE TransactionFails(i)
  BY <1>1, <1>3, AloneWriting DEF TransactionFails
<1>4. CASE WriteConfig(i)
  BY <1>4, AloneWriting DEF WriteConfig, Empty
<1>5. CASE WriteConfigFails(i)
  BY <1>1, <1>5, AloneWriting DEF WriteConfigFails
<1>6. CASE Commit(i)
  BY <1>1, <1>6, AloneWriting DEF Commit
<1>7. CASE CommitFails(i)
  BY <1>1, <1>7, AloneWriting DEF CommitFails
<1>8. CASE RestoreConfig(i)
  BY <1>8, AloneWriting DEF RestoreConfig, Empty, Restored
<1> QED
  BY <1>2, <1>3, <1>4, <1>5, <1>6, <1>7, <1>8

\* Whether there was a configuration, and that it could not be taken back.
LEMMA AloneNoting ==
    ASSUME TypeOK, AloneInv, NEW i \in Inits, LookAtConfig(i) \/ RestoreConfigFails(i)
    PROVE  AloneInv'
<1> USE DEF At, files
<1>1. init[i] \in InitState /\ Active(i) /\ Empty(config') /\ UNCHANGED <<link, table, config>>
  BY DEF TypeOK, Active, AloneInv, LookAtConfig, RestoreConfigFails
<1>2. CASE LookAtConfig(i)
  <2> DEFINE me == [init[i] EXCEPT !.pc = "ready", !.listed = config.exists]
  <2>1. /\ me.pc = "ready" /\ me.listed = config.exists /\ init[i].pc = "opened"
        /\ me.alone = init[i].alone /\ me.previous = init[i].previous
        /\ me.before = init[i].before /\ me.existed = init[i].existed
        /\ me.file = init[i].file
    BY <1>1, <1>2 DEF InitState, LookAtConfig
  <2>2. Becomes(i, me)
    BY <1>2 DEF LookAtConfig
  <2> HIDE DEF me
  <2>3. Trace(init[i], link, table, config) => Trace(me, link', table', config')
    BY <1>1, <2>1 DEF Trace, Unopened, Uncommitted, Looked, Untouched
  <2> QED
    BY <1>1, <2>1, <2>2, <2>3, AloneStep
<1>3. CASE RestoreConfigFails(i)
  <2> DEFINE me == [init[i] EXCEPT !.pc = "removing", !.restored = FALSE]
  <2>1. /\ me.pc = "removing" /\ me.restored = FALSE /\ init[i].pc = "restoring"
        /\ me.alone = init[i].alone /\ me.previous = init[i].previous
        /\ me.before = init[i].before /\ me.existed = init[i].existed
        /\ me.file = init[i].file /\ me.listed = init[i].listed
    BY <1>1, <1>3 DEF InitState, RestoreConfigFails
  <2>2. Becomes(i, me)
    BY <1>3 DEF RestoreConfigFails
  <2> HIDE DEF me
  <2>3. Trace(init[i], link, table, config) => Trace(me, link', table', config')
    BY <1>1, <2>1 DEF Trace, Unopened, Uncommitted, Looked, Untouched
  <2> QED
    BY <1>1, <2>1, <2>2, <2>3, AloneStep
<1> QED
  BY <1>2, <1>3

LEMMA AloneInduction == TypeOK /\ AloneInv /\ [Next]_vars => AloneInv'
<1> SUFFICES ASSUME TypeOK, AloneInv, [Next]_vars PROVE AloneInv'
  OBVIOUS
<1>1. ASSUME NEW i \in Inits, Enrol(i) \/ RemoveState(i) \/ Kill(i) PROVE AloneInv'
  <2>1. PICK result : Returns(i, result)
    BY <1>1 DEF Enrol, RemoveState, Kill
  <2>2. Active(i) /\ Empty(config')
    BY <1>1 DEF Enrol, RemoveState, Kill, At, Active, AloneInv
  <2> QED
    BY <2>1, <2>2, AloneReturn
<1>2. CASE UNCHANGED vars \/ \E p \in Paths : Rearrange(p)
  <2>1. UNCHANGED <<init, link, table, config>>
    BY <1>2 DEF vars, files, Rearrange
  <2> QED
    BY <2>1 DEF AloneInv, Active
<1> QED
  BY <1>1, <1>2, AloneLoad, AloneOpening, AloneOpened, AloneNoting DEF Next, Step

LEMMA AloneStart == Init => AloneInv
  BY DEF Init, AloneInv, Active, Idle, Empty

\* What ends an init that ran alone is a step of its own.
LEMMA EndsItself ==
    ASSUME TypeOK, AloneInv, Next, NEW i \in Inits, NEW result, Ends(i, result)
    PROVE  Step(i) /\ output' # Silent /\ \A other : Returns(i, other) => other = result
<1> USE DEF At, files
<1>1. \A j \in Inits \ {i} : init[j].pc = "idle"
  BY DEF Ends, AloneInv, Active
<1>2. output'.by = i /\ output'.result = result /\ init[i].pc # "idle"
  BY DEF Ends, Active
<1>3. output' # Silent
  BY <1>2, RegistrationAssumption DEF Silent
<1>4. ASSUME NEW j \in Inits \ {i}, Step(j)
      PROVE  FALSE
  <2>1. init[j].pc = "idle"
    BY <1>1
  <2>2. Load(j)
    BY <1>4, <2>1 DEF Step, Validate, CheckState, OpenState, Migrate, OpenFails,
       LookAtConfig, AddRoots, TransactionFails, WriteConfig, WriteConfigFails, Commit,
       CommitFails, Enrol, RestoreConfig, RestoreConfigFails, RemoveState, Kill, Active
  <2> QED
    BY <1>3, <2>2 DEF Load
<1>5. Step(i)
  BY <1>3, <1>4 DEF Next, Rearrange
<1> QED
  BY <1>2, <1>3, <1>5 DEF Returns

\* Wherever an init that ran alone fails before its roots are committed, and whatever
\* an earlier one left behind: configuration and registered roots are as it found
\* them.
THEOREM FailureIsUndone == Spec => FailureLeavesNoTrace
<1>2. ASSUME TypeOK, AloneInv, Next, NEW i \in Inits, Ends(i, "failed"),
             init[i].pc # "committed"
      PROVE  config' = init[i].before.config /\ Registered' = init[i].before.known
  <2> USE DEF At, files
  <2>1. /\ Trace(init[i], link, table, config)
        /\ \A j \in Inits \ {i} : init[j].pc = "idle"
    BY <1>2 DEF Ends, AloneInv, Active
  <2>2. /\ Step(i) /\ output' # Silent /\ init[i].pc # "idle"
        /\ \A result : Returns(i, result) => result = "failed"
    BY <1>2, EndsItself DEF Ends, Active
  <2>3. Validate(i) \/ Migrate(i) \/ OpenFails(i) \/ (RemoveState(i) /\ init[i].restored)
    BY <1>2, <2>2 DEF Step, Load, CheckState, OpenState, LookAtConfig, AddRoots,
       TransactionFails, WriteConfig, WriteConfigFails, Commit, CommitFails, Enrol,
       RestoreConfig, RestoreConfigFails, RemoveState, Kill, Active, Becomes, Goes
  <2>4. CASE Validate(i) \/ OpenFails(i) \/ Migrate(i)
    <3>1. UNCHANGED <<config, link>> /\ init[i].pc \in Unopened \cup {"blank"}
      BY <2>4 DEF Validate, OpenFails, Migrate, Unopened
    <3>2. link # NoFile => table'[link].roots = table[link].roots
      <4>1. CASE UNCHANGED table
        BY <4>1
      <4>2. CASE Migrate(i) /\ ~UNCHANGED table
        <5>1. Goes(i, "opened")
          BY <4>2 DEF Migrate
        <5> QED
          BY <2>2, <5>1 DEF Goes, Becomes
      <4> QED
        BY <2>4, <4>1, <4>2 DEF Validate, OpenFails
    <3>3. Found(link, table) = init[i].before.known /\ config = init[i].before.config
      BY <2>1, <3>1, RegistrationAssumption DEF Trace, Found, Unopened, Uncommitted, Untouched
    <3> QED
      BY <3>1, <3>2, <3>3 DEF Registered, Found
  <2>5. CASE RemoveState(i) /\ init[i].restored
    <3>1. /\ UNCHANGED <<config, table>> /\ init[i].pc = "removing"
          /\ link' = IF init[i].existed THEN link ELSE NoFile
      BY <2>5 DEF RemoveState, LinkAfter
    <3> QED
      BY <2>1, <2>5, <3>1, RegistrationAssumption
         DEF Trace, Registered, Uncommitted, Looked, Untouched
  <2> QED
    BY <2>3, <2>4, <2>5
<1>3. TypeOK /\ AloneInv /\ [Next]_vars =>
        [\A i \in Inits :
            Ends(i, "failed") /\ init[i].pc # "committed" =>
               config' = init[i].before.config /\ Registered' = init[i].before.known]_vars
  BY <1>2
<1> QED
  BY <1>3, AloneStart, AloneInduction, TypeCorrect, PTL DEF Spec, FailureLeavesNoTrace
-----------------------------------------------------------------------------
(* A success is what it says.  Of neighbours that are one directory the    *)
(* first is registered, so every directory asked for is registered under   *)
(* some path, and what is configured is what was registered.               *)

\* Every directory of the validated roots is that of one that is kept.
LEMMA KeptStandsForAll ==
    ASSUME NEW roots \in SUBSET Root, NEW r \in roots
    PROVE  \E k \in Kept(roots) : k.dir = r.dir
<1> DEFINE Places == {n \in DOMAIN Order : \E k \in roots : k.path = Order[n] /\ k.dir = r.dir}
           Below == OpToRel(<, Nat)
<1>1. Places \in SUBSET Nat /\ Places # {}
  <2>1. DOMAIN Order \in SUBSET Nat
    BY RegistrationAssumption
  <2>2. r.path \in Paths
    BY DEF Root
  <2> QED
    BY <2>1, <2>2 DEF Paths
<1>2. PICK n \in Places : \A m \in Places : ~(m < n)
  <2>1. IsWellFoundedOn(Below, Nat)
    BY NatLessThanWellFounded
  <2>2. \E n \in Places : \A m \in Places : <<m, n>> \notin Below
    <3> HIDE DEF Below, Places
    <3> QED
      BY <1>1, <2>1, WFMin
  <2> QED
    BY <1>1, <2>2 DEF OpToRel
<1>3. PICK k \in roots : k.path = Order[n] /\ k.dir = r.dir
  OBVIOUS
<1>4. ASSUME NEW q \in roots, Before(q.path, k.path), q.dir = k.dir
      PROVE  FALSE
  <2>1. PICK m, o \in DOMAIN Order : m < o /\ Order[m] = q.path /\ Order[o] = k.path
    BY <1>4 DEF Before
  <2>2. o = n
    BY <1>3, <2>1, RegistrationAssumption
  <2> QED
    BY <1>2, <1>3, <1>4, <2>1, <2>2
<1> QED
  BY <1>3, <1>4 DEF Kept

\* What an init that runs alone has still to validate and has validated, what it wrote
\* to the configuration and what it committed.
Agreed(m, l, t, c) ==
    /\ m.before.config.roots \cup m.before.wanted \subseteq m.pending \cup PathsOf(m.roots)
    /\ m.pc # "loaded" => m.pending = {}
    /\ m.pc \in {"written", "committed"} => c.roots = PathsOf(Kept(m.roots))
    /\ m.pc = "committed" => l \in Files /\ Kept(m.roots) \subseteq t[l].roots

SuccessInv ==
    \A i \in Inits : Active(i) /\ init[i].alone => Agreed(init[i], link, table, config)

\* A step of an init in the course of its work: nobody else runs alone.
LEMMA AgreedStep ==
    ASSUME TypeOK, AloneInv, SuccessInv, NEW i \in Inits, Active(i), NEW me, Becomes(i, me),
           me.alone = init[i].alone,
           Trace(init[i], link, table, config) /\ Agreed(init[i], link, table, config)
              => Agreed(me, link', table', config')
    PROVE  SuccessInv'
<1>1. init'[i] = me /\ \A j \in Inits \ {i} : init'[j] = init[j]
  BY BecomesTo
<1>2. ASSUME NEW j \in Inits, init'[j].pc # "idle", init'[j].alone
      PROVE  Agreed(init'[j], link', table', config')
  <2>1. j = i
    BY <1>1, <1>2 DEF AloneInv, Active
  <2>2. Trace(init[i], link, table, config) /\ Agreed(init[i], link, table, config)
    BY <1>1, <1>2, <2>1 DEF AloneInv, SuccessInv
  <2> QED
    BY <1>1, <2>1, <2>2
<1> QED
  BY <1>2 DEF SuccessInv, Active

\* One that neither validates nor writes anything to go by.
LEMMA AgreedQuiet ==
    ASSUME TypeOK, AloneInv, SuccessInv, NEW i \in Inits, Active(i), NEW me, Becomes(i, me),
           me.alone = init[i].alone, me.before = init[i].before,
           me.pending = init[i].pending, me.roots = init[i].roots,
           init[i].pc # "loaded", me.pc \notin {"loaded", "written", "committed"}
    PROVE  SuccessInv'
  BY AgreedStep DEF Agreed

LEMMA AgreedReturn ==
    ASSUME TypeOK, AloneInv, SuccessInv, NEW i \in Inits, Active(i), NEW result,
           Returns(i, result)
    PROVE  SuccessInv'
<1>1. init'[i].pc = "idle" /\ \A j \in Inits \ {i} : init'[j] = init[j]
  BY ReturnsTo
<1> QED
  BY <1>1 DEF AloneInv, SuccessInv, Active

\* The roots that are configured are validated again with those that are asked for.
LEMMA AgreedLoad ==
    ASSUME TypeOK, AloneInv, SuccessInv, NEW i \in Inits, Load(i)
    PROVE  SuccessInv'
<1>1. PICK wanted :
         init' = [j \in Inits |->
                      IF j = i
                      THEN [Idle EXCEPT !.pc = "loaded", !.previous = config.roots,
                                        !.pending = Supplied(config.roots, wanted),
                                        !.alone = \A k \in Inits : ~Active(k),
                                        !.before = [config |-> config, known |-> Registered,
                                                    wanted |-> wanted]]
                      ELSE [init[j] EXCEPT !.alone = FALSE, !.before = Idle.before]]
  BY DEF Load
<1>2. \A j \in Inits : init[j] \in InitState
  BY DEF TypeOK
<1>3. \A j \in Inits \ {i} : init'[j].alone = FALSE
  BY <1>1, <1>2 DEF InitState
<1>4. /\ init'[i].pc = "loaded" /\ init'[i].pending = config.roots \cup wanted
      /\ init'[i].before = [config |-> config, known |-> Registered, wanted |-> wanted]
  BY <1>1 DEF Idle, Supplied
<1>5. Agreed(init'[i], link', table', config')
  BY <1>4 DEF Agreed
<1> QED
  BY <1>3, <1>5 DEF SuccessInv

\* A root that is validated is one of the roots from then on.
LEMMA AgreedValidate ==
    ASSUME TypeOK, AloneInv, SuccessInv, NEW i \in Inits, Validate(i)
    PROVE  SuccessInv'
<1>1. init[i] \in InitState /\ Active(i) /\ init[i].pc = "loaded"
  BY DEF TypeOK, Active, Validate, At
<1>2. CASE \E result : Returns(i, result)
  BY <1>1, <1>2, AgreedReturn
<1>3. CASE ~\E result : Returns(i, result)
  <2>1. PICK p : Becomes(i, [init[i] EXCEPT
                                 !.pc = IF init[i].pending = {p} THEN "validated" ELSE @,
                                 !.pending = @ \ {p},
                                 !.roots = @ \cup {[path |-> p, dir |-> dir[p]]}])
    BY <1>3 DEF Validate
  <2> DEFINE new == [path |-> p, dir |-> dir[p]]
             me == [init[i] EXCEPT
                                 !.pc = IF init[i].pending = {p} THEN "validated" ELSE @,
                                 !.pending = @ \ {p},
                                 !.roots = @ \cup {new}]
  <2>2. /\ me.pc = IF init[i].pending = {p} THEN "validated" ELSE "loaded"
        /\ me.pending = init[i].pending \ {p} /\ me.roots = init[i].roots \cup {new}
        /\ me.alone = init[i].alone /\ me.before = init[i].before
    BY <1>1 DEF InitState
  <2>3. Becomes(i, me)
    BY <2>1
  <2>4. new.path = p
    OBVIOUS
  <2> HIDE DEF me, new
  <2>5. init[i].pending \cup PathsOf(init[i].roots) \subseteq me.pending \cup PathsOf(me.roots)
    BY <2>2, <2>4 DEF PathsOf
  <2>6. /\ me.pc # "loaded" => me.pending = {}
        /\ me.pc \notin {"written", "committed"}
    BY <2>2
  <2>7. Agreed(init[i], link, table, config) => Agreed(me, link', table', config')
    BY <2>2, <2>5, <2>6 DEF Agreed
  <2> QED
    BY <1>1, <2>2, <2>3, <2>7, AgreedStep
<1> QED
  BY <1>2, <1>3

\* The steps that only go on.
LEMMA AgreedGoes ==
    ASSUME TypeOK, AloneInv, SuccessInv, NEW i \in Inits,
           NEW to \in {"opened", "inserted", "restoring", "removing"}, Goes(i, to),
           init[i].pc \notin {"idle", "loaded"}
    PROVE  SuccessInv'
<1> DEFINE me == [init[i] EXCEPT !.pc = to]
<1>1. init[i] \in InitState /\ Active(i) /\ Becomes(i, me)
  BY DEF TypeOK, Active, Goes
<1>2. /\ me.alone = init[i].alone /\ me.before = init[i].before
      /\ me.pending = init[i].pending /\ me.roots = init[i].roots
      /\ me.pc = to
  BY <1>1 DEF InitState
<1> HIDE DEF me
<1> QED
  BY <1>1, <1>2, AgreedQuiet

\* Those that note something, too.
LEMMA AgreedNotes ==
    ASSUME TypeOK, AloneInv, SuccessInv, NEW i \in Inits,
           CheckState(i) \/ OpenState(i) \/ LookAtConfig(i) \/ RestoreConfigFails(i)
    PROVE  SuccessInv'
<1>1. /\ init[i] \in InitState /\ Active(i) /\ init[i].pc # "loaded"
  BY DEF TypeOK, Active, At, CheckState, OpenState, LookAtConfig, RestoreConfigFails
<1>2. PICK me : /\ Becomes(i, me)
                /\ me.alone = init[i].alone /\ me.before = init[i].before
                /\ me.pending = init[i].pending /\ me.roots = init[i].roots
                /\ me.pc \in {"checked", "opened", "blank", "ready", "removing"}
  <2>1. CASE CheckState(i)
    <3> DEFINE x == [init[i] EXCEPT !.pc = "checked", !.existed = link # NoFile]
    <3>1. /\ x.alone = init[i].alone /\ x.before = init[i].before
          /\ x.pending = init[i].pending /\ x.roots = init[i].roots /\ x.pc = "checked"
      BY <1>1 DEF InitState
    <3> QED
      BY <2>1, <3>1 DEF CheckState
  <2>2. CASE OpenState(i)
    <3>1. PICK f \in Files :
             Becomes(i, [init[i] EXCEPT
                           !.file = f, !.pc = IF table'[f].schema THEN "opened" ELSE "blank"])
      BY <2>2 DEF OpenState
    <3> DEFINE x == [init[i] EXCEPT
                       !.file = f, !.pc = IF table'[f].schema THEN "opened" ELSE "blank"]
    <3>2. /\ x.alone = init[i].alone /\ x.before = init[i].before
          /\ x.pending = init[i].pending /\ x.roots = init[i].roots
          /\ x.pc \in {"opened", "blank"}
      BY <1>1 DEF InitState
    <3> QED
      BY <3>1, <3>2
  <2>3. CASE LookAtConfig(i)
    <3> DEFINE x == [init[i] EXCEPT !.pc = "ready", !.listed = config.exists]
    <3>1. /\ x.alone = init[i].alone /\ x.before = init[i].before
          /\ x.pending = init[i].pending /\ x.roots = init[i].roots /\ x.pc = "ready"
      BY <1>1 DEF InitState
    <3> QED
      BY <2>3, <3>1 DEF LookAtConfig
  <2>4. CASE RestoreConfigFails(i)
    <3> DEFINE x == [init[i] EXCEPT !.pc = "removing", !.restored = FALSE]
    <3>1. /\ x.alone = init[i].alone /\ x.before = init[i].before
          /\ x.pending = init[i].pending /\ x.roots = init[i].roots /\ x.pc = "removing"
      BY <1>1 DEF InitState
    <3> QED
      BY <2>4, <3>1 DEF RestoreConfigFails
  <2> QED
    BY <2>1, <2>2, <2>3, <2>4
<1> QED
  BY <1>1, <1>2, AgreedQuiet

\* The configuration lists what will be registered ...
LEMMA AgreedWrite ==
    ASSUME TypeOK, AloneInv, SuccessInv, NEW i \in Inits, WriteConfig(i)
    PROVE  SuccessInv'
<1> DEFINE me == [init[i] EXCEPT !.pc = "written"]
<1>1. init[i] \in InitState /\ Active(i) /\ Becomes(i, me) /\ init[i].pc = "inserted"
  BY DEF TypeOK, Active, At, Goes, WriteConfig
<1>2. /\ me.alone = init[i].alone /\ me.before = init[i].before
      /\ me.pending = init[i].pending /\ me.roots = init[i].roots
      /\ me.pc = "written"
  BY <1>1 DEF InitState
<1>3. config'.roots = PathsOf(Kept(init[i].roots))
  BY DEF WriteConfig
<1> HIDE DEF me
<1>4. Agreed(init[i], link, table, config) => Agreed(me, link', table', config')
  BY <1>1, <1>2, <1>3 DEF Agreed
<1> QED
  BY <1>1, <1>2, <1>4, AgreedStep

\* ... and it is registered in the file the ledger's name stands for.
LEMMA AgreedCommit ==
    ASSUME TypeOK, AloneInv, SuccessInv, NEW i \in Inits, Commit(i)
    PROVE  SuccessInv'
<1> DEFINE f == init[i].file
           me == [init[i] EXCEPT !.pc = "committed"]
<1>1. init[i] \in InitState /\ Active(i) /\ Becomes(i, me) /\ init[i].pc = "written"
  BY DEF TypeOK, Active, At, Goes, Commit
<1>2. /\ me.alone = init[i].alone /\ me.before = init[i].before
      /\ me.pending = init[i].pending /\ me.roots = init[i].roots
      /\ me.pc = "committed"
  BY <1>1 DEF InitState
<1>3. /\ table' = [table EXCEPT ![f].roots = @ \cup Kept(init[i].roots)]
      /\ config' = config /\ link' = link
  BY DEF Commit
<1>4. f \in Files => Kept(init[i].roots) \subseteq table'[f].roots
  BY <1>3 DEF TypeOK
<1>5. Trace(init[i], link, table, config) => link = f /\ f \in Files
  BY <1>1 DEF Trace, Uncommitted
<1> HIDE DEF me
<1>6. Trace(init[i], link, table, config) /\ Agreed(init[i], link, table, config)
         => Agreed(me, link', table', config')
  BY <1>1, <1>2, <1>3, <1>4, <1>5 DEF Agreed
<1> QED
  BY <1>1, <1>2, <1>6, AgreedStep

LEMMA SuccessInduction == TypeOK /\ AloneInv /\ SuccessInv /\ [Next]_vars => SuccessInv'
<1> SUFFICES ASSUME TypeOK, AloneInv, SuccessInv, [Next]_vars PROVE SuccessInv'
  OBVIOUS
<1>1. ASSUME NEW i \in Inits, OpenFails(i) \/ Enrol(i) \/ RemoveState(i) \/ Kill(i)
      PROVE  SuccessInv'
  <2>1. (\E result : Returns(i, result)) /\ Active(i)
    BY <1>1 DEF OpenFails, Enrol, RemoveState, Kill, At, Active
  <2> QED
    BY <2>1, AgreedReturn
<1>2. ASSUME NEW i \in Inits,
             AddRoots(i) \/ TransactionFails(i) \/ WriteConfigFails(i) \/ CommitFails(i)
                \/ RestoreConfig(i)
      PROVE  SuccessInv'
  <2>1. /\ \E to \in {"inserted", "restoring", "removing"} : Goes(i, to)
        /\ init[i].pc \notin {"idle", "loaded"}
    BY <1>2 DEF At, AddRoots, TransactionFails, WriteConfigFails, CommitFails, RestoreConfig
  <2> QED
    BY <2>1, AgreedGoes
<1>3. ASSUME NEW i \in Inits, Migrate(i)
      PROVE  SuccessInv'
  <2>1. Goes(i, "opened") \/ Returns(i, "failed")
    BY <1>3 DEF Migrate
  <2>2. init[i].pc = "blank" /\ Active(i)
    BY <1>3 DEF Migrate, At, Active
  <2> QED
    BY <2>1, <2>2, AgreedGoes, AgreedReturn
<1>4. CASE UNCHANGED vars \/ \E p \in Paths : Rearrange(p)
  <2>1. UNCHANGED <<init, link, table, config>>
    BY <1>4 DEF vars, files, Rearrange
  <2> QED
    BY <2>1 DEF SuccessInv, Active
<1> QED
  BY <1>1, <1>2, <1>3, <1>4, AgreedLoad, AgreedValidate, AgreedNotes, AgreedWrite, AgreedCommit
     DEF Next, Step

\* Whatever earlier inits left behind and whatever moves meanwhile: if an init that ran
\* alone reports success, or a failure after its commit, every directory it found at
\* the roots it was given or that were configured is registered and listed, and it
\* lists nothing else.
THEOREM SuccessIsReal == Spec => SuccessIsCoordinated
<1>1. Init => SuccessInv
  BY DEF Init, SuccessInv, Active, Idle
<1>2. ASSUME TypeOK, AloneInv, SuccessInv, Next, NEW i \in Inits, Registers(i)
      PROVE  /\ \A p \in init[i].before.config.roots \cup init[i].before.wanted :
                    \E r \in init[i].roots, k \in Registered' :
                        r.path = p /\ k.dir = r.dir /\ k.path \in config'.roots
             /\ \A p \in config'.roots :
                    \E k \in Registered' \cap init[i].roots : k.path = p
  <2> DEFINE roots == init[i].roots
  <2>1. PICK result : Ends(i, result)
    BY <1>2 DEF Registers
  <2>2. Step(i) /\ output' # Silent /\ init[i].pc = "committed" /\ output'.by = i
        /\ output'.result # "none"
    BY <1>2, <2>1, EndsItself DEF Registers, Ends
  <2>3. init[i].pc = "committed" /\ UNCHANGED <<config, link, table>>
    <3>1. ~Kill(i)
      BY <2>2 DEF Kill, Returns
    <3>2. Enrol(i)
      BY <2>2, <3>1 DEF Step, Load, Validate, CheckState, OpenState, Migrate, OpenFails, LookAtConfig,
         AddRoots, TransactionFails, WriteConfig, WriteConfigFails, Commit, CommitFails,
         RestoreConfig, RestoreConfigFails, RemoveState, Kill, At, Active
    <3> QED
      BY <2>2, <3>2 DEF Enrol, At, files
  <2>4. Agreed(init[i], link, table, config)
    BY <1>2, <2>1 DEF Ends, SuccessInv
  <2>5. /\ init[i].before.config.roots \cup init[i].before.wanted \subseteq PathsOf(roots)
        /\ config'.roots = PathsOf(Kept(roots))
        /\ Kept(roots) \subseteq table[link].roots /\ link \in Files
    BY <2>3, <2>4 DEF Agreed
  <2>6. Registered' = table[link].roots
    BY <2>3, <2>5, RegistrationAssumption DEF Registered
  <2>7. roots \in SUBSET Root
    BY <1>2 DEF TypeOK, InitState
  <2>8. ASSUME NEW p \in init[i].before.config.roots \cup init[i].before.wanted
        PROVE  \E r \in roots, k \in Registered' :
                   r.path = p /\ k.dir = r.dir /\ k.path \in config'.roots
    <3>1. PICK r \in roots : r.path = p
      BY <2>5 DEF PathsOf
    <3>2. PICK k \in Kept(roots) : k.dir = r.dir
      BY <2>7, KeptStandsForAll
    <3> QED
      BY <2>5, <2>6, <3>1, <3>2 DEF PathsOf
  <2>9. ASSUME NEW p \in config'.roots
        PROVE  \E k \in Registered' \cap roots : k.path = p
    BY <2>5, <2>6, KeptIsPart DEF PathsOf
  <2> QED
    BY <2>8, <2>9
<1>3. TypeOK /\ AloneInv /\ SuccessInv /\ [Next]_vars =>
        [\A i \in Inits :
            Registers(i) =>
               /\ \A p \in init[i].before.config.roots \cup init[i].before.wanted :
                      \E r \in init[i].roots, k \in Registered' :
                          r.path = p /\ k.dir = r.dir /\ k.path \in config'.roots
               /\ \A p \in config'.roots :
                      \E k \in Registered' \cap init[i].roots : k.path = p]_vars
  BY <1>2
<1> QED
  BY <1>1, <1>3, AloneStart, AloneInduction, SuccessInduction, TypeCorrect, PTL
     DEF Spec, SuccessIsCoordinated
=============================================================================
