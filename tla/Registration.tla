---------------------------- MODULE Registration ----------------------------
(***************************************************************************)
(* `terminal_janitor init`: the approved roots are written to two places,  *)
(* config.toml and the approved_roots table, and workflows.rs with         *)
(* register_approved_roots_coordinated (state.rs) tries to make that one   *)
(* transaction: the rows are inserted, the configuration file is replaced  *)
(* while the database transaction is open, then the transaction commits;   *)
(* what fails is taken back.  Inits may overlap, fail and be killed at any *)
(* step, and a directory may be replaced between them.                     *)
(*                                                                         *)
(* The state file is kept apart from its name: an init that created the    *)
(* file removes the name when it fails, whoever has the file open.  Paths  *)
(* that differ in case, the thresholds in the configuration, and what the  *)
(* enrolment of pnpm after the registration stores, are left out.          *)
(*                                                                         *)
(* Definitions named X_Bug are mistakes somebody could make in X; no       *)
(* specification uses them, the runs are shown to notice them.             *)
(***************************************************************************)
EXTENDS Naturals, Sequences

CONSTANTS
    Inits,           \* processes that run `init`, one invocation after another
    Order,           \* the paths the owner may approve, in the order of CanonicalPath
    Dirs, NoDir,     \* physical directories; nothing at a path
    VolumeOf,        \* VolumeOf[d]: the volume directory d is on
    Files, NoFile,   \* files (inodes) the state path may name; no file
    NoInit,
    \* bounds of the exploration
    MaxInits,        \* invocations
    MaxMoves         \* rearranged directories

Paths == {Order[n] : n \in DOMAIN Order}

ASSUME RegistrationAssumption ==
    /\ Order \in Seq(Paths)
    /\ \A m, n \in DOMAIN Order : Order[m] = Order[n] => m = n
    /\ NoDir \notin Dirs /\ NoFile \notin Files /\ NoInit \notin Inits
    /\ VolumeOf = [d \in Dirs |-> VolumeOf[d]]
    /\ {MaxInits, MaxMoves} \subseteq Nat

VARIABLES
    dir,      \* dir[p]: the directory now at p, or NoDir
    config,   \* config.toml: whether it exists, and the roots it lists
    link,     \* the file the state path names, or NoFile
    table,    \* table[f]: whether state file f has a schema, and its active roots
    holder,   \* holder[f]: the init whose transaction holds f's write lock
    init,     \* init[i]: what init i holds in memory
    output,   \* what the last step printed, if it ended an init
    started, moves   \* invocations and rearrangements so far

files == <<link, table, holder>>
vars == <<dir, config, files, init, output, started, moves>>

Root == [path: Paths, dir: Dirs]

PathsOf(roots) == {r.path : r \in roots}

\* No file: it loads as the default configuration, which has no roots.
Absent == [exists |-> FALSE, roots |-> {}]
Blank == [schema |-> FALSE, roots |-> {}]

\* The roots a reader of the state path finds.
Registered == IF link = NoFile THEN {} ELSE table[link].roots

Idle == [pc |-> "idle", previous |-> {}, pending |-> {}, roots |-> {},
         existed |-> FALSE, listed |-> FALSE, restored |-> TRUE, file |-> NoFile,
         \* for the properties: no other init was under way since this one
         \* started, and what it found then
         alone |-> FALSE, before |-> [config |-> Absent, known |-> {}, wanted |-> {}]]

Silent == [by |-> NoInit, result |-> "none"]

Active(i) == init[i].pc # "idle"
-----------------------------------------------------------------------------
Init ==
    /\ dir \in [Paths -> Dirs \cup {NoDir}]
    /\ \A p, q \in Paths : dir[p] = dir[q] => p = q \/ dir[p] = NoDir
    /\ config = Absent
    /\ link = NoFile
    /\ table = [f \in Files |-> Blank]
    /\ holder = [f \in Files |-> NoInit]
    /\ init = [i \in Inits |-> Idle]
    /\ output = Silent
    /\ started = 0 /\ moves = 0

\* Init i goes on from step `from`.
At(i, from) ==
    /\ init[i].pc = from
    /\ UNCHANGED <<dir, started, moves>>

Becomes(i, me) == init' = [init EXCEPT ![i] = me] /\ output' = Silent

Goes(i, to) == Becomes(i, [init[i] EXCEPT !.pc = to])

\* Init i returns: its handles are closed.
Returns(i, result) ==
    /\ init' = [init EXCEPT ![i] = Idle]
    /\ output' = [by |-> i, result |-> result]

Free_WrongSentinel(f, i) == [holder EXCEPT ![f] = IF @ = i THEN NoFile ELSE @]
Free(f, i) == [holder EXCEPT ![f] = IF @ = i THEN NoInit ELSE @]
-----------------------------------------------------------------------------
\* The roots to register: those already configured, too.
Supplied_OnlyNew(previous, wanted) == wanted
Supplied(previous, wanted) == previous \cup wanted

\* load_config_at, and the roots the command line adds.
Load(i) ==
    /\ ~Active(i) /\ started < MaxInits
    /\ started' = started + 1
    /\ \E wanted \in SUBSET Paths \ {{}} :
           init' = [j \in Inits |->
                      IF j = i
                      THEN [Idle EXCEPT !.pc = "loaded", !.previous = config.roots,
                                        !.pending = Supplied(config.roots, wanted),
                                        !.alone = \A k \in Inits : ~Active(k),
                                        !.before = [config |-> config, known |-> Registered,
                                                    wanted |-> wanted]]
                      ELSE [init[j] EXCEPT !.alone = FALSE, !.before = Idle.before]]
    /\ output' = Silent
    /\ UNCHANGED <<dir, config, files, moves>>

Before(p, q) == \E m, n \in DOMAIN Order : m < n /\ Order[m] = p /\ Order[n] = q

\* validate_registration_root, for one root after the other.
Validate(i) ==
    /\ At(i, "loaded")
    /\ \E p \in init[i].pending :
           /\ \A q \in init[i].pending : ~Before(q, p)
           /\ IF dir[p] = NoDir
              THEN Returns(i, "failed")
              ELSE Becomes(i, [init[i] EXCEPT
                                 !.pc = IF init[i].pending = {p} THEN "validated" ELSE @,
                                 !.pending = @ \ {p},
                                 !.roots = @ \cup {[path |-> p, dir |-> dir[p]]}])
    /\ UNCHANGED <<config, files>>

\* dedup_by: of neighbours that are one directory (moved while the roots were
\* validated) the first is kept.
Kept(roots) ==
    {r \in roots : ~\E k \in roots :
        /\ Before(k.path, r.path) /\ k.dir = r.dir
        /\ ~\E m \in roots : Before(k.path, m.path) /\ Before(m.path, r.path)}

CheckState(i) ==
    /\ At(i, "validated")
    /\ Becomes(i, [init[i] EXCEPT !.pc = "checked", !.existed = link # NoFile])
    /\ UNCHANGED <<config, files>>

\* A file the file system may hand out: no name and no open handle.
Unused(f) == link # f /\ \A i \in Inits : init[i].file # f

\* open: Connection::open, which creates an empty file when there is none; then
\* ensure_schema looks at the schema.
OpenState(i) ==
    /\ At(i, "checked")
    /\ \E f \in Files :
           /\ IF link = NoFile
              THEN Unused(f) /\ link' = f /\ table' = [table EXCEPT ![f] = Blank]
              ELSE f = link /\ UNCHANGED <<link, table>>
           /\ Becomes(i, [init[i] EXCEPT
                             !.file = f, !.pc = IF table'[f].schema THEN "opened" ELSE "blank"])
    /\ UNCHANGED <<config, holder>>

\* apply_migrations, unless another init got there first: its tables exist
\* then, and the open fails without the file being removed.
Migrate(i) ==
    LET f == init[i].file IN
    /\ At(i, "blank")
    /\ holder[f] = NoInit
    /\ IF ~table[f].schema
       THEN table' = [table EXCEPT ![f].schema = TRUE] /\ Goes(i, "opened")
       ELSE Returns(i, "failed") /\ UNCHANGED table
    /\ UNCHANGED <<config, link, holder>>

\* open fails otherwise; a file it created is left behind.
OpenFails(i) ==
    /\ At(i, "checked") \/ At(i, "blank")
    /\ Returns(i, "failed")
    /\ UNCHANGED <<config, files>>

\* config_path.exists(), for restore_config.
LookAtConfig(i) ==
    /\ At(i, "opened")
    /\ Becomes(i, [init[i] EXCEPT !.pc = "ready", !.listed = config.exists])
    /\ UNCHANGED <<config, files>>

\* add_root_tx: a path that now is another directory of the same volume, or a
\* directory already approved under another path, is refused.
Conflicts_PathOnly(known, r) == \E k \in known : k.path = r.path /\ k.dir # r.dir
Conflicts(known, r) ==
    \E k \in known : /\ VolumeOf[k.dir] = VolumeOf[r.dir]
                     /\ (k.path = r.path) # (k.dir = r.dir)

\* The rows are inserted, one after the other, in a transaction that takes the
\* write lock; or the transaction fails and is rolled back.
AddRoots(i) ==
    LET f == init[i].file  new == Kept(init[i].roots) IN
    /\ At(i, "ready")
    /\ holder[f] = NoInit
    /\ IF \E r \in new : Conflicts(table[f].roots \cup new, r)
       THEN Goes(i, "removing") /\ UNCHANGED holder
       ELSE holder' = [holder EXCEPT ![f] = i] /\ Goes(i, "inserted")
    /\ UNCHANGED <<config, link, table>>

TransactionFails(i) ==
    /\ At(i, "ready")
    /\ Goes(i, "removing")
    /\ UNCHANGED <<config, files>>

\* save_config_at replaces the file in one step ...
WriteConfig(i) ==
    /\ At(i, "inserted")
    /\ config' = [exists |-> TRUE, roots |-> PathsOf(Kept(init[i].roots))]
    /\ Goes(i, "written")
    /\ UNCHANGED files

\* ... or leaves it alone, and the transaction is rolled back.
WriteConfigFails(i) ==
    /\ At(i, "inserted")
    /\ holder' = Free(init[i].file, i)
    /\ Goes(i, "removing")
    /\ UNCHANGED <<config, link, table>>

Commit(i) ==
    LET f == init[i].file IN
    /\ At(i, "written")
    /\ table' = [table EXCEPT ![f].roots = @ \cup Kept(init[i].roots)]
    /\ holder' = Free(f, i)
    /\ Goes(i, "committed")
    /\ UNCHANGED <<config, link>>

\* pnpm is enrolled if there is one; when what was enrolled cannot be stored,
\* the init fails although its roots are registered.
Enrol(i) ==
    /\ At(i, "committed")
    /\ Returns(i, "complete") \/ Returns(i, "failed")
    /\ UNCHANGED <<config, files>>

CommitFails(i) ==
    /\ At(i, "written")
    /\ holder' = Free(init[i].file, i)
    /\ Goes(i, "restoring")
    /\ UNCHANGED <<config, link, table>>

\* restore_config: the configuration as it was when this init loaded it.
Restored(me) ==
    IF me.listed THEN [exists |-> TRUE, roots |-> me.previous] ELSE Absent

RestoreConfig(i) ==
    /\ At(i, "restoring")
    /\ config' = Restored(init[i])
    /\ Goes(i, "removing")
    /\ UNCHANGED files

RestoreConfigFails(i) ==
    /\ At(i, "restoring")
    /\ Becomes(i, [init[i] EXCEPT !.pc = "removing", !.restored = FALSE])
    /\ UNCHANGED <<config, files>>

\* remove_new_state_file
LinkAfter_RemovedAnyway(me) == NoFile
LinkAfter(me) == IF me.existed THEN link ELSE NoFile

RemoveState(i) ==
    /\ At(i, "removing")
    /\ link' = LinkAfter(init[i])
    /\ Returns(i, IF init[i].restored THEN "failed" ELSE "rollback failed")
    /\ UNCHANGED <<config, table, holder>>

\* The process is killed, and reports nothing: SQLite rolls back.
Kill(i) ==
    /\ Active(i)
    /\ holder' = [f \in Files |-> IF holder[f] = i THEN NoInit ELSE holder[f]]
    /\ Returns(i, "none")
    /\ UNCHANGED <<dir, config, link, table, started, moves>>

\* Somebody puts a directory at p, wherever it was, or takes one away.
Rearrange(p) ==
    /\ moves < MaxMoves /\ moves' = moves + 1
    /\ \E d \in (Dirs \cup {NoDir}) \ {dir[p]} :
           dir' = [q \in Paths |-> IF q = p THEN d
                                  ELSE IF dir[q] = d THEN NoDir ELSE dir[q]]
    /\ output' = Silent
    /\ UNCHANGED <<config, files, init, started>>

Step(i) ==
    \/ Load(i) \/ Validate(i) \/ CheckState(i) \/ OpenState(i) \/ Migrate(i)
    \/ OpenFails(i) \/ LookAtConfig(i) \/ AddRoots(i) \/ TransactionFails(i)
    \/ WriteConfig(i) \/ WriteConfigFails(i)
    \/ Commit(i) \/ CommitFails(i) \/ Enrol(i) \/ RestoreConfig(i) \/ RestoreConfigFails(i)
    \/ RemoveState(i) \/ Kill(i)

Next == (\E i \in Inits : Step(i)) \/ (\E p \in Paths : Rearrange(p))

Spec == Init /\ [][Next]_vars
-----------------------------------------------------------------------------
(* Properties.                                                             *)

\* The shape of the state.
ConfigState == [exists: BOOLEAN, roots: SUBSET Paths]

InitState ==
    [pc: {"idle", "loaded", "validated", "checked", "blank", "opened", "ready",
          "inserted", "written", "committed", "restoring", "removing"},
     previous: SUBSET Paths, pending: SUBSET Paths,
     roots: SUBSET Root, existed: BOOLEAN, listed: BOOLEAN, restored: BOOLEAN,
     file: Files \cup {NoFile}, alone: BOOLEAN,
     before: [config: ConfigState, known: SUBSET Root, wanted: SUBSET Paths]]

TypeOK ==
    /\ dir \in [Paths -> Dirs \cup {NoDir}]
    /\ config \in ConfigState
    /\ link \in Files \cup {NoFile}
    /\ table \in [Files -> [schema: BOOLEAN, roots: SUBSET Root]]
    /\ holder \in [Files -> Inits \cup {NoInit}]
    /\ init \in [Inits -> InitState]
    /\ output \in [by: Inits \cup {NoInit},
                   result: {"none", "complete", "failed", "rollback failed"}]
    /\ started \in 0 .. MaxInits /\ moves \in 0 .. MaxMoves

\* However inits overlap, fail and are killed, no ledger approves one directory
\* under two paths, or one path as two directories of one volume (state.rs:1604:
\* "one directory must not hold two authorities").
OneAuthorityPerDirectory ==
    \A f \in Files : \A r, k \in table[f].roots :
        /\ r.dir = k.dir => r = k
        /\ r.path = k.path /\ VolumeOf[r.dir] = VolumeOf[k.dir] => r = k

\* Init i, which ran alone, ends with this result.
Ends(i, result) == Active(i) /\ init[i].alone /\ output' = [by |-> i, result |-> result]

\* An init that ran alone and reports a failure before its roots are committed,
\* wherever it failed, leaves the configuration and the registered roots as it
\* found them - unless it reports, too, that it could not restore the
\* configuration ("rollback failed").
FailureLeavesNoTrace ==
    [][\A i \in Inits :
           Ends(i, "failed") /\ init[i].pc # "committed" =>
               config' = init[i].before.config /\ Registered' = init[i].before.known]_vars

\* Init i, which ran alone, comes to its end with its registration committed:
\* it reports success, or only that the enrolment could not be stored.
Registers(i) ==
    init[i].pc = "committed" /\ (Ends(i, "complete") \/ Ends(i, "failed"))

\* A registration that succeeded is whole, and what fails after it never undoes
\* it (README.md:160-162, workflows.rs:307-309): every directory the init found
\* at the roots it was given and at those configured before is registered and
\* configured, and no root is listed that is not registered - also when an
\* earlier init was killed half way or could not take its configuration back.
SuccessIsCoordinated ==
    [][\A i \in Inits :
           Registers(i) =>
               /\ \A p \in init[i].before.config.roots \cup init[i].before.wanted :
                      \E r \in init[i].roots, k \in Registered' :
                          r.path = p /\ k.dir = r.dir /\ k.path \in config'.roots
               /\ \A p \in config'.roots :
                      \E k \in Registered' \cap init[i].roots : k.path = p]_vars
=============================================================================
