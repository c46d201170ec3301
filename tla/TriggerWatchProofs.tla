--------------------------- MODULE TriggerWatchProofs -------------------------
(***************************************************************************)
(* Theorems about TriggerWatch.tla, for any set of upstreams.              *)
(***************************************************************************)
EXTENDS TriggerWatch, SharedLemmas

Typed == rule \in TriggerRule /\ effective \in [Upstreams -> TaskState]

LEMMA TypedAlways == Spec => []Typed
<1>1. Init => Typed
  BY DEF Init, Typed, TaskState
<1>2. Typed /\ [Next]_watchVars => Typed'
  <2>1. SUFFICES ASSUME Typed, [Next]_watchVars PROVE Typed'
    OBVIOUS
  <2>2. ASSUME NEW u \in Upstreams, Advance(u) PROVE Typed'
    BY <2>1, <2>2 DEF Advance, Typed
  <2>3. CASE UNCHANGED watchVars
    BY <2>1, <2>3 DEF watchVars, Typed
  <2>4. QED
    BY <2>1, <2>2, <2>3 DEF Next
<1>3. QED
  BY <1>1, <1>2, PTL DEF Spec

-------------------------------------------------------------------------------
(* An answer given early is the answer of every ending: the states it rests  *)
(* on are terminal, and the ending still has them.                           *)

LEMMA EndingKeepsTerminal ==
  ASSUME Typed, NEW final \in Endings
  PROVE  /\ final \in [Upstreams -> Terminal]
         /\ Reached \cap Terminal \subseteq {final[u] : u \in Upstreams}
         /\ Reached \subseteq Terminal => {final[u] : u \in Upstreams} = Reached
         /\ Reached = {} <=> {final[u] : u \in Upstreams} = {}
BY DEF Endings, Reached, Typed

LEMMA FinalWhenTyped == Typed => EarlyAnswersAreFinal
<1>1. SUFFICES ASSUME Typed, EvaluateTriggerRule(rule, Reached) # "WAIT",
                      NEW final \in Endings
               PROVE  EvaluateTriggerRule(rule, {final[u] : u \in Upstreams})
                        = EvaluateTriggerRule(rule, Reached)
  BY DEF EarlyAnswersAreFinal, Ending
<1> DEFINE end == {final[u] : u \in Upstreams}
<1>2. Reached \in SUBSET TaskState /\ rule \in TriggerRule
  BY <1>1 DEF Reached, Typed
<1>3. /\ end \in SUBSET TaskState
      /\ Reached \cap Terminal \subseteq end
      /\ Reached \subseteq Terminal => end = Reached
      /\ Reached = {} <=> end = {}
  BY <1>1, EndingKeepsTerminal DEF Terminal, TaskState
<1>4. QED
  <2> HIDE DEF end
  <2>1. EvaluateTriggerRule(rule, end) = EvaluateTriggerRule(rule, Reached)
    BY <1>1, <1>2, <1>3, AnswersAreMonotone
  <2>2. QED
    BY <2>1 DEF end

\* evaluate_trigger_rule never answers RUN or SKIP early and wrongly: whatever
\* the upstreams that are still moving do, the answer at the end is the same.
THEOREM EarlyAnswersCorrect == Spec => []EarlyAnswersAreFinal
<1>1. QED
  BY TypedAlways, FinalWhenTyped, PTL

-------------------------------------------------------------------------------
(* A task that has to wait: let everything that still moves end well, then   *)
(* badly, and the two endings are answered differently.                      *)

\* Every upstream that is not done ends in state s
Finished(s) ==
  [u \in Upstreams |-> IF effective[u] \in Terminal THEN effective[u] ELSE s]

LEMMA FinishedIsEnding ==
  ASSUME Typed, NEW s \in Terminal, ~ (Reached \subseteq Terminal)
  PROVE  /\ Finished(s) \in Endings
         /\ {Finished(s)[u] : u \in Upstreams} = (Reached \cap Terminal) \cup {s}
<1>1. Finished(s) \in Endings
  BY DEF Finished, Endings, Typed
<1>2. PICK v \in Upstreams : effective[v] \notin Terminal
  BY DEF Reached
<1>3. Finished(s)[v] = s
  BY <1>2 DEF Finished
<1>4. {Finished(s)[u] : u \in Upstreams} \subseteq (Reached \cap Terminal) \cup {s}
  BY DEF Finished, Reached
<1>5. Reached \cap Terminal \subseteq {Finished(s)[u] : u \in Upstreams}
  BY DEF Finished, Reached
<1>6. QED
  BY <1>1, <1>3, <1>4, <1>5

LEMMA OpenWhenTyped == Typed => WaitsOnlyWhileOpen
<1>1. SUFFICES ASSUME Typed, EvaluateTriggerRule(rule, Reached) = "WAIT",
                      ~ (rule = "ALL_DONE" /\ ~ (Reached \subseteq Terminal))
               PROVE  Ending("RUN") # {} /\ Ending("SKIP") # {}
  BY DEF WaitsOnlyWhileOpen
<1>2. Reached \in SUBSET TaskState /\ rule \in TriggerRule
  BY <1>1 DEF Reached, Typed
<1>3. ~ (Reached \subseteq Terminal)
  BY <1>1, <1>2, WaitingIsUndecided
<1>4. PICK good, bad \in Terminal :
        /\ EvaluateTriggerRule(rule, (Reached \cap Terminal) \cup {good}) = "RUN"
        /\ EvaluateTriggerRule(rule, (Reached \cap Terminal) \cup {bad}) = "SKIP"
  BY <1>1, <1>2, <1>3, WaitingIsUndecided
<1>5. Finished(good) \in Ending("RUN")
  BY <1>1, <1>3, <1>4, FinishedIsEnding DEF Ending
<1>6. Finished(bad) \in Ending("SKIP")
  BY <1>1, <1>3, <1>4, FinishedIsEnding DEF Ending
<1>7. QED
  BY <1>5, <1>6

\* evaluate_trigger_rule never keeps a task waiting for nothing: while it answers
\* WAIT, upstreams that are still moving can make it RUN and can make it SKIP --
\* or, under ALL_DONE, some upstream is not done.
THEOREM WaitingCorrect == Spec => []WaitsOnlyWhileOpen
<1>1. QED
  BY TypedAlways, OpenWhenTyped, PTL

\* The two together: for any number of upstreams evaluate_trigger_rule answers as
\* soon as the answer is known, never sooner and never later.
THEOREM AnswersCorrect == Spec => []AnswersWhenKnown
<1>1. Typed => AnswersWhenKnown
  BY FinalWhenTyped, OpenWhenTyped DEF AnswersWhenKnown
<1>2. QED
  BY <1>1, TypedAlways, PTL
===============================================================================
