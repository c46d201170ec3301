------------------------------ MODULE TaskStates ------------------------------
(***************************************************************************)
(* The states of one task and of one run, the moves between them that      *)
(* check_task_transition and check_run_transition let through, and the     *)
(* fold of every task state into the state of the run                      *)
(* (src/campanile/model/state.py).                                         *)
(***************************************************************************)

TaskState ==
  {"PENDING", "READY", "RUNNING", "RETRY_WAIT",
   "SUCCEEDED", "FAILED", "SKIPPED", "UPSTREAM_FAILED", "CANCELLED"}

\* TaskState.is_terminal
Terminal == {"SUCCEEDED", "FAILED", "SKIPPED", "UPSTREAM_FAILED", "CANCELLED"}

RunState == {"PENDING", "RUNNING", "SUCCEEDED", "FAILED", "CANCELLED"}

TerminalRun == {"SUCCEEDED", "FAILED", "CANCELLED"}

\* TASK_TRANSITIONS as a set of <<from, to>> pairs
TaskMove ==
  ({"PENDING"} \X {"READY", "SKIPPED", "UPSTREAM_FAILED", "CANCELLED"})
    \cup ({"READY"} \X {"RUNNING", "SKIPPED", "CANCELLED"})
    \cup ({"RUNNING"} \X {"SUCCEEDED", "FAILED", "RETRY_WAIT", "CANCELLED"})
    \cup ({"RETRY_WAIT"} \X {"READY", "CANCELLED"})

\* RUN_TRANSITIONS
RunMove ==
  ({"PENDING"} \X {"RUNNING", "CANCELLED"}) \cup ({"RUNNING"} \X TerminalRun)

\* check_task_transition returns instead of raising
LegalTaskMove(from, to) == from = to \/ <<from, to>> \in TaskMove

\* check_run_transition returns instead of raising
LegalRunMove(from, to) == from = to \/ <<from, to>> \in RunMove

\* derive_run_state of a function from tasks to task states
DeriveRunState(states) ==
  LET reached == {states[t] : t \in DOMAIN states}
  IN  IF ~ (reached \subseteq Terminal) THEN "RUNNING"
      ELSE IF reached \cap {"FAILED", "UPSTREAM_FAILED"} # {} THEN "FAILED"
      ELSE IF "CANCELLED" \in reached THEN "CANCELLED"
      ELSE "SUCCEEDED"
===============================================================================
