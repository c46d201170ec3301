------------------------------ MODULE RunPromise ------------------------------
(***************************************************************************)
(* What a run promises whatever the scheduler does inside: tasks move only *)
(* along TASK_TRANSITIONS, the run only along RUN_TRANSITIONS, so no       *)
(* StateTransitionError is ever raised (src/campanile/model/state.py); and *)
(* the run is concluded once, when no task has anything left to do, with a *)
(* state its tasks account for (FailurePolicy in                           *)
(* src/campanile/model/policy.py).                                         *)
(***************************************************************************)
EXTENDS TaskStates

CONSTANTS Tasks, FailurePolicy

VARIABLES states, runState

promiseVars == <<states, runState>>

Init ==
  /\ states = [t \in Tasks |-> "PENDING"]
  /\ runState = "PENDING"

Begin ==
  /\ runState = "PENDING"
  /\ runState' = "RUNNING"
  /\ UNCHANGED states

\* Any number of tasks move one step along their lifecycle
Advance ==
  /\ runState = "RUNNING"
  /\ states' \in [Tasks -> TaskState]
  /\ \A t \in Tasks : LegalTaskMove(states[t], states'[t])
  /\ UNCHANGED runState

\* FailurePolicy: ISOLATE alone forgives a failure
Outcome ==
  IF DeriveRunState(states) = "FAILED" /\ FailurePolicy = "ISOLATE"
  THEN "SUCCEEDED" ELSE DeriveRunState(states)

Conclude ==
  /\ runState = "RUNNING"
  /\ \A t \in Tasks : states[t] \in Terminal
  /\ runState' = Outcome
  /\ UNCHANGED states

Next == Begin \/ Advance \/ Conclude

Spec == Init /\ [][Next]_promiseVars
===============================================================================
