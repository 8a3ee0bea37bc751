----------------------------- MODULE Enrolment -----------------------------
(***************************************************************************)
(* How `init` enrols pnpm (workflows.rs, adapters/pnpm.rs) and how an      *)
(* enrolment is used (pnpm_gate in planner.rs): the executable is resolved *)
(* to the identity of a file, asked for its version, and both are stored;  *)
(* much later the identity is compared with the file then found at the     *)
(* path.  In between and meanwhile pnpm is upgraded, downgraded, removed.  *)
(*                                                                         *)
(* Definitions named X_Bug are mistakes somebody could make in X.          *)
(***************************************************************************)
EXTENDS Naturals

CONSTANTS
    Inits,         \* invocations of init
    Files, NoFile, \* the files that come to be at the path of pnpm
    Kind,          \* Kind[f]: regular, wrapper (.cmd, .js, ...) or directory
    Output,        \* Output[f]: what f --version prints: a major version, or Unreadable
    Unreadable,    \* output with no version in it, or with more than one line
    MinimumMajor   \* MINIMUM_PNPM_MAJOR

\* What is assumed of the constants; Adapters has TLC evaluate it.
EnrolmentAssumption ==
    /\ NoFile \notin Files
    /\ Kind \in [Files -> {"regular", "wrapper", "directory"}]
    /\ Output \in [Files -> Nat \cup {Unreadable}] /\ Unreadable \notin Nat
    /\ MinimumMajor \in Nat

VARIABLES
    link,     \* the file at the path of pnpm, or NoFile
    used,     \* files that have been there: an identity does not come back
    stored,   \* the row of pnpm_enrolment: identity and version, or NotEnrolled
    init,     \* init[i]: pc and what the process has in memory
    passed    \* the file pnpm_gate last let through, or NoFile

evars == <<link, used, stored, init, passed>>

NotEnrolled == [identity |-> NoFile, version |-> Unreadable]

Enrolments == [identity : Files \cup {NoFile}, version : Nat \cup {Unreadable}]

InitStates == {"idle", "resolved", "asking", "answered", "enrolled", "refused", "exited"}

NoInit == [pc |-> "idle", identity |-> NoFile, version |-> Unreadable]

Init ==
    /\ link \in Files \cup {NoFile}
    /\ used = {link} \ {NoFile}
    /\ stored = NotEnrolled
    /\ init = [i \in Inits |-> NoInit]
    /\ passed = NoFile

Goes(i, state) == init' = [init EXCEPT ![i].pc = state]

\* The path the owner gives, or the first regular file of that name on PATH.
Located == link # NoFile

\* metadata.is_file, reject_interpreter_wrapper
Acceptable(f) == Kind[f] = "regular"

\* PnpmVersion::parse accepts one line with three numbers, of which the first matters.
Parsed(version) == version # Unreadable

MeetsMinimum(version) == version >= MinimumMajor

\* enrol: the path is resolved to an identity, and the file must be a regular one
\* that needs no interpreter.
Resolve(i) ==
    /\ init[i].pc = "idle"
    /\ init' = [init EXCEPT ![i] =
                   IF Located /\ Acceptable(link)
                   THEN [@ EXCEPT !.pc = "resolved", !.identity = link]
                   ELSE [@ EXCEPT !.pc = "refused"]]
    /\ UNCHANGED <<link, used, stored, passed>>

\* The command is spawned from the path: whatever file is there now.
Ask(i) ==
    /\ init[i].pc = "resolved"
    /\ init' = [init EXCEPT ![i] =
                   [@ EXCEPT !.pc = "asking",
                             !.version = IF link = NoFile THEN Unreadable ELSE Output[link]]]
    /\ UNCHANGED <<link, used, stored, passed>>

\* What CommandRunner answered: succeeded, whole, one version, recent enough.
Answered(i, a) ==
    /\ init[i].pc = "asking"
    /\ IF /\ a = "ok"
          /\ Parsed(init[i].version)
          /\ MeetsMinimum(init[i].version)
       THEN Goes(i, "answered") ELSE Goes(i, "refused")
    /\ UNCHANGED <<link, used, stored, passed>>

\* The identity is taken when the version is known.
Store_IdentityLast(i) ==
    /\ init[i].pc = "answered"
    /\ link # NoFile
    /\ stored' = [identity |-> link, version |-> init[i].version]
    /\ Goes(i, "enrolled")
    /\ UNCHANGED <<link, used, passed>>

\* set_pnpm_enrolment: one row, which the last init to come here replaces.
Store(i) ==
    /\ init[i].pc = "answered"
    /\ stored' = [identity |-> init[i].identity, version |-> init[i].version]
    /\ Goes(i, "enrolled")
    /\ UNCHANGED <<link, used, passed>>

\* init reports, with a note if there is no enrolment: what an earlier init stored
\* stays.
Report(i) ==
    /\ init[i].pc \in {"enrolled", "refused"}
    /\ init' = [init EXCEPT ![i] = [NoInit EXCEPT !.pc = "exited"]]
    /\ UNCHANGED <<link, used, stored, passed>>

Crash(i) ==
    /\ init[i].pc \notin {"idle", "exited"}
    /\ init' = [init EXCEPT ![i] = [NoInit EXCEPT !.pc = "exited"]]
    /\ UNCHANGED <<link, used, stored, passed>>

\* The version alone is looked at.
PnpmGate_VersionOnly ==
    /\ Parsed(stored.version)
    /\ MeetsMinimum(stored.version)
    /\ link # NoFile

\* pnpm_gate: the stored text, parsed again (from_record), meets the minimum, and the
\* file at the stored path is still the one that was enrolled.
PnpmGate ==
    /\ Parsed(stored.version)
    /\ MeetsMinimum(stored.version)
    /\ link # NoFile
    /\ link = stored.identity

\* The planner or the executor asks before an action is planned or run.
PassGate ==
    /\ PnpmGate
    /\ passed' = link
    /\ UNCHANGED <<link, used, stored, init>>

\* Another pnpm is installed at the path.
Replace ==
    /\ \E f \in Files \ used : link' = f /\ used' = used \cup {f}
    /\ UNCHANGED <<stored, init, passed>>

Remove ==
    /\ link # NoFile
    /\ link' = NoFile
    /\ UNCHANGED <<used, stored, init, passed>>

Step(i) ==
    \/ Resolve(i) \/ Ask(i) \/ Store(i) \/ Report(i) \/ Crash(i)
    \/ \E a \in {"ok", "refused"} : Answered(i, a)

Next == (\E i \in Inits : Step(i)) \/ PassGate \/ Replace \/ Remove

Spec == Init /\ [][Next]_evars

-----------------------------------------------------------------------------
TypeOK ==
    /\ link \in Files \cup {NoFile}
    /\ used \subseteq Files
    /\ stored \in Enrolments
    /\ init \in [Inits -> [pc : InitStates, identity : Files \cup {NoFile},
                           version : Nat \cup {Unreadable}]]
    /\ passed \in Files \cup {NoFile}

\* A file the gate lets through is one that said itself it is recent enough and
\* that runs without an interpreter, although identity and version are read in two
\* steps, and the file may be another in between and at any time later.
OnlyRecentPnpmPasses ==
    passed # NoFile =>
        /\ Kind[passed] = "regular"
        /\ Parsed(Output[passed]) /\ MeetsMinimum(Output[passed])
=============================================================================
