---------------------------- MODULE ConditionCheck -----------------------------
(***************************************************************************)
(* What _check_conditions (src/campanile/dsl/validate.py) finds wrong with *)
(* the condition of one edge.  `reads` is a record of the variables,       *)
(* functions, results and params the parsed expression names.              *)
(***************************************************************************)

CONSTANT Builtins   \* BUILTINS of functions.py

\* CONDITION_VARIABLES
ConditionVariables == {"params", "results", "run", "task"}

\* visible: the ancestors of the edge's downstream
ConditionIssues(reads, known, visible, declared, allow_extra) ==
  {"unknown_variable" : v \in reads.variables \ ConditionVariables}
  \cup {"unknown_function" : f \in reads.functions \ Builtins}
  \cup {"unknown_task" : t \in reads.results \ known}
  \cup {"forward_reference" : t \in (reads.results \cap known) \ visible}
  \cup {"unknown_param" : p \in IF allow_extra THEN {} ELSE reads.params \ declared}
===============================================================================
