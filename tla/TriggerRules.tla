----------------------------- MODULE TriggerRules -----------------------------
(***************************************************************************)
(* What a task requires of its upstreams before it may start               *)
(* (evaluate_trigger_rule in src/campanile/model/policy.py) and what the   *)
(* scheduler does with the answer (decide_task in                          *)
(* src/campanile/runtime/dispatch.py).                                     *)
(*                                                                         *)
(* The rules only ask whether some, or all, upstreams are in a given kind  *)
(* of state, so they are operators on the SET of effective upstream        *)
(* states.                                                                 *)
(***************************************************************************)
EXTENDS TaskStates

TriggerRule ==
  {"ALL_SUCCESS", "ALL_DONE", "ALL_FAILED", "ANY_SUCCESS", "ANY_FAILED",
   "NONE_FAILED", "ALWAYS"}

\* _blocked: terminal without having run
NeverRan == {"SKIPPED", "UPSTREAM_FAILED", "CANCELLED"}

\* Fault: the rules that wait for all upstreams look at the finished ones only
SatisfiedWithoutWaiting(rule, reached) ==
  CASE rule \in {"ALWAYS", "ALL_DONE"} -> TRUE
    [] rule = "ALL_SUCCESS" -> reached \cap Terminal \subseteq {"SUCCEEDED"}
    [] rule = "NONE_FAILED" -> "FAILED" \notin reached
    [] rule = "ANY_SUCCESS" -> "SUCCEEDED" \in reached
    [] rule = "ANY_FAILED"  -> "FAILED" \in reached
    [] rule = "ALL_FAILED"  -> reached \cap Terminal \subseteq {"FAILED"}

\* The branches of evaluate_trigger_rule that return RUN
Satisfied(rule, reached) ==
  CASE rule = "ALWAYS"      -> TRUE
    [] rule = "ALL_DONE"    -> reached \subseteq Terminal
    [] rule = "ALL_SUCCESS" -> reached \subseteq {"SUCCEEDED"}
    [] rule = "NONE_FAILED" -> reached \subseteq Terminal \ {"FAILED"}
    [] rule = "ANY_SUCCESS" -> "SUCCEEDED" \in reached
    [] rule = "ANY_FAILED"  -> "FAILED" \in reached
    [] rule = "ALL_FAILED"  -> reached \subseteq {"FAILED"}

\* Faults: ANY_SUCCESS gives up before all upstreams are done, or a blocked
\* upstream does not make ALL_SUCCESS hopeless
HopelessTooEarly(rule, reached) ==
  CASE rule = "ALL_SUCCESS" -> reached \cap (NeverRan \cup {"FAILED"}) # {}
    [] rule = "NONE_FAILED" -> "FAILED" \in reached
    [] rule = "ANY_SUCCESS" -> reached \cap (NeverRan \cup {"FAILED"}) # {}
    [] rule = "ANY_FAILED"  -> reached \subseteq Terminal \ {"FAILED"}
    [] rule = "ALL_FAILED"  -> reached \cap (NeverRan \cup {"SUCCEEDED"}) # {}
    [] OTHER -> FALSE

HopelessOnFailureOnly(rule, reached) ==
  IF rule = "ALL_SUCCESS" THEN "FAILED" \in reached
  ELSE HopelessTooEarly(rule, reached)

\* The branches of evaluate_trigger_rule that return SKIP
Hopeless(rule, reached) ==
  CASE rule \in {"ALWAYS", "ALL_DONE"} -> FALSE
    [] rule = "ALL_SUCCESS" -> reached \cap (NeverRan \cup {"FAILED"}) # {}
    [] rule = "NONE_FAILED" -> "FAILED" \in reached
    [] rule = "ANY_SUCCESS" -> reached \subseteq Terminal \ {"SUCCEEDED"}
    [] rule = "ANY_FAILED"  -> reached \subseteq Terminal \ {"FAILED"}
    [] rule = "ALL_FAILED"  -> reached \cap (NeverRan \cup {"SUCCEEDED"}) # {}

\* evaluate_trigger_rule; a task without upstreams always runs
EvaluateTriggerRule(rule, reached) ==
  IF reached = {} \/ Satisfied(rule, reached) THEN "RUN"
  ELSE IF Hopeless(rule, reached) THEN "SKIP"
  ELSE "WAIT"

\* Fault: a skip nobody is to blame for is mistaken for a wait
VerdictOfBlame(rule, reached) ==
  IF EvaluateTriggerRule(rule, reached) # "SKIP"
  THEN EvaluateTriggerRule(rule, reached)
  ELSE IF reached \cap {"FAILED", "UPSTREAM_FAILED"} # {} THEN "UPSTREAM_FAILED"
  ELSE "WAIT"

\* decide_task: a skip with a failure among the effective upstream states is
\* reported as UPSTREAM_FAILED
Verdict(rule, reached) ==
  IF EvaluateTriggerRule(rule, reached) # "SKIP"
  THEN EvaluateTriggerRule(rule, reached)
  ELSE IF reached \cap {"FAILED", "UPSTREAM_FAILED"} # {} THEN "UPSTREAM_FAILED"
  ELSE "SKIP"
===============================================================================
