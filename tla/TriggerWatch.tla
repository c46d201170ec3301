------------------------------ MODULE TriggerWatch ----------------------------
(***************************************************************************)
(* evaluate_trigger_rule asked about the upstreams of one task while they  *)
(* are still moving.  The upstreams move as the scheduler moves them; an   *)
(* edge whose upstream succeeded may count as SKIPPED or UPSTREAM_FAILED   *)
(* from then on, which is what its condition can make of it.               *)
(*                                                                         *)
(* The trigger rules answer from the states of the moment.  The properties *)
(* compare the answer with what every possible future would answer.        *)
(***************************************************************************)
EXTENDS TriggerRules

CONSTANT Upstreams   \* the edges into the task

VARIABLES
  rule,        \* the task's trigger rule
  effective    \* the effective state of every edge

watchVars == <<rule, effective>>

Reached == {effective[u] : u \in Upstreams}

Init ==
  /\ rule \in TriggerRule
  /\ effective = [u \in Upstreams |-> "PENDING"]

\* An upstream moves along its lifecycle; when it succeeds the condition of its
\* edge decides what the edge counts as
Advance(u) ==
  \E next \in TaskState :
    /\ \/ LegalTaskMove(effective[u], next)
       \/ effective[u] = "RUNNING" /\ next \in {"SKIPPED", "UPSTREAM_FAILED"}
    /\ effective' = [effective EXCEPT ![u] = next]
    /\ UNCHANGED rule

Next == \E u \in Upstreams : Advance(u)

Spec == Init /\ [][Next]_watchVars

-------------------------------------------------------------------------------
(* What the rules promise.                                                   *)

\* Every way the upstreams may still end
Endings ==
  {final \in [Upstreams -> Terminal] :
     \A u \in Upstreams : effective[u] \in Terminal => final[u] = effective[u]}

Ending(decision) ==
  {final \in Endings :
     EvaluateTriggerRule(rule, {final[u] : u \in Upstreams}) = decision}

\* "SKIP means the rule can no longer be satisfied no matter what happens next",
\* and RUN is never taken back: an early answer is the answer of every ending.
EarlyAnswersAreFinal ==
  LET decision == EvaluateTriggerRule(rule, Reached)
  IN  decision # "WAIT" => Ending(decision) = Endings

\* "WAIT means not yet": a task is kept waiting only while both answers are still
\* possible -- or, under ALL_DONE, until the upstreams are done.
WaitsOnlyWhileOpen ==
  EvaluateTriggerRule(rule, Reached) = "WAIT" =>
    \/ Ending("RUN") # {} /\ Ending("SKIP") # {}
    \/ rule = "ALL_DONE" /\ ~ (Reached \subseteq Terminal)

\* evaluate_trigger_rule answers exactly when the answer is known: as soon as nothing
\* the upstreams do can change it, and no sooner.
AnswersWhenKnown == EarlyAnswersAreFinal /\ WaitsOnlyWhileOpen
===============================================================================
