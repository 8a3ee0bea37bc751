----------------------------- MODULE RunJournal -----------------------------
(***************************************************************************)
(* What the journal promises its reader, whatever the executor does and    *)
(* wherever it stops (SAFETY.md section 10, history in cli.rs):            *)
(*                                                                         *)
(*   - an action is written down before it is attempted and goes through   *)
(*     PLANNED, VALIDATING and RUNNING, one at a time;                     *)
(*   - a terminal state never changes, and nothing follows a failure;      *)
(*   - a run gets a result once, when every action it journalled is        *)
(*     settled, and the result is one the journal bears out;               *)
(*   - a run that stops for any other reason stays as it is.               *)
(***************************************************************************)
EXTENDS JournalStates

CONSTANTS
    Runs, Workspaces, NoWorkspace,
    FreeLevels,   \* what a measurement of the volume can say
    Unmeasured    \* a NULL free_after_bytes

VARIABLES
    journal,  \* journal[r]: the run_actions rows of run r, by sequence number
    row       \* row[r]: its row in runs: absent, open (result NULL) or a result

jvars == <<journal, row>>

Entry == [action: Actions, workspace: Workspaces \cup {NoWorkspace},
          state: ActionStates, freeAfter: FreeLevels \cup {Unmeasured}]

JournalTypeOK ==
    /\ journal \in [Runs -> Seq(Entry)]
    /\ row \in [Runs -> {"absent", "open"} \cup RunResults]

StatesOf(r) == {journal[r][i].state : i \in DOMAIN journal[r]}

Settled(r) == StatesOf(r) \subseteq TerminalStates

\* The states an action in state s may go to.
Successors(s) ==
    CASE s = "PLANNED"    -> {"VALIDATING"}
      [] s = "VALIDATING" -> {"RUNNING"} \cup SkipStates
      [] s = "RUNNING"    -> {"SUCCEEDED", "FAILED"}
      [] OTHER            -> {}

\* The results a settled journal bears out.
Warranted(r, result) ==
    /\ result = "FAILED_COMMAND" <=> "FAILED" \in StatesOf(r)
    /\ result = "OK_PARTIAL_SAFE_RECLAIM" => "SUCCEEDED" \in StatesOf(r)
    /\ result = "SKIPPED_PROTECTED" => StatesOf(r) = {"SKIPPED_PROTECTED"}
    /\ result = "SKIPPED_ACTIVITY_UNCERTAIN" =>
          /\ "SUCCEEDED" \notin StatesOf(r)
          /\ StatesOf(r) \cap {"SKIPPED_ACTIVE", "SKIPPED_UNKNOWN"} # {}
    /\ result = "SKIPPED_SNAPSHOT_CAPACITY_UNCERTAIN" => "SKIPPED_UNKNOWN" \in StatesOf(r)

Init ==
    /\ journal = [r \in Runs |-> <<>>]
    /\ row = [r \in Runs |-> "absent"]

OpenRun(r) ==
    /\ row[r] = "absent"
    /\ row' = [row EXCEPT ![r] = "open"]
    /\ UNCHANGED journal

PlanAction(r) ==
    /\ row[r] = "open"
    /\ Settled(r)
    /\ "FAILED" \notin StatesOf(r)
    /\ \E a \in Actions, w \in Workspaces \cup {NoWorkspace} :
          journal' = [journal EXCEPT ![r] = Append(@, PlannedRow(a, w, Unmeasured))]
    /\ UNCHANGED row

Advance(r) ==
    /\ row[r] = "open"
    /\ journal[r] # <<>>
    /\ \E s \in Successors(LastOf(journal[r]).state), m \in FreeLevels \cup {Unmeasured} :
          /\ m # Unmeasured => s \in {"SUCCEEDED", "FAILED"}
          /\ journal' = [journal EXCEPT ![r][Len(journal[r])] =
                            WithState(LastOf(journal[r]), s, m)]
    /\ UNCHANGED row

CloseRun(r) ==
    /\ row[r] = "open"
    /\ Settled(r)
    /\ \E result \in RunResults :
          /\ Warranted(r, result)
          /\ row' = [row EXCEPT ![r] = result]
    /\ UNCHANGED journal

Next == \E r \in Runs : OpenRun(r) \/ PlanAction(r) \/ Advance(r) \/ CloseRun(r)

Spec == Init /\ [][Next]_jvars
=============================================================================
