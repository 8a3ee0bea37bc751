---------------------------- MODULE JournalStates ----------------------------
(***************************************************************************)
(* The vocabulary of the run journal: the compiled actions                 *)
(* (adapters/mod.rs, AllowedAction), the states of a journalled action and *)
(* the results of a run (journal.rs).                                      *)
(***************************************************************************)
EXTENDS Naturals, Sequences

Actions == {"clean_terminal_janitor_state", "pnpm_store_prune", "pnpm_workspace_clean"}

SkipStates ==
    {"SKIPPED_CHANGED", "SKIPPED_ACTIVE", "SKIPPED_PROTECTED", "SKIPPED_UNKNOWN"}

\* ActionState::is_terminal
TerminalStates == SkipStates \cup {"SUCCEEDED", "FAILED"}

\* ActionState::is_unresolved
UnresolvedStates == {"VALIDATING", "RUNNING"}

ActionStates == TerminalStates \cup UnresolvedStates \cup {"PLANNED"}

\* The results classify() chooses from, stored by finish_run.
RunResults ==
    {"FAILED_COMMAND", "OK_TARGET_RESTORED", "SKIPPED_SNAPSHOT_CAPACITY_UNCERTAIN",
     "OK_PARTIAL_SAFE_RECLAIM", "SHORTFALL_SAFE_ACTIONS_EXHAUSTED",
     "SKIPPED_PROTECTED", "SKIPPED_ACTIVITY_UNCERTAIN"}

\* The results execute() returns without a row in the journal.
UnjournalledResults ==
    {"OK_NO_PRESSURE", "ALREADY_RUNNING", "FAILED_STORAGE_MEASUREMENT"}

\* A row of run_actions when it is first written, and with another state.
PlannedRow(action, workspace, unmeasured) ==
    [action |-> action, workspace |-> workspace, state |-> "PLANNED", freeAfter |-> unmeasured]

WithState(e, state, freeAfter) ==
    [action |-> e.action, workspace |-> e.workspace, state |-> state, freeAfter |-> freeAfter]

\* The last element of a non-empty sequence.
LastOf(s) == s[Len(s)]
=============================================================================
