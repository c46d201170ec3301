--------------------------- MODULE DocumentedClaims ---------------------------
(***************************************************************************)
(* Sentences of the repository's documentation about the scheduler, stated *)
(* as properties of Scheduler.tla.  Each is broken by what the code does;  *)
(* PROJECT.json quotes the sentence, and a run of its own shows the        *)
(* counterexample.                                                         *)
(***************************************************************************)
EXTENDS SchedulerProperties

\* Reading a task that has not run yet is "not a runtime surprise": a condition is
\* evaluated only when every task it reads is finished.
ConditionsReadFinishedTasks ==
  [][\A e \in Conditional :
       conditions[e] = Unknown /\ conditions'[e] # Unknown /\ states[e[1]] = "SUCCEEDED"
         => \A r \in Reads[e] : states[r] \in Terminal]_vars
===============================================================================
