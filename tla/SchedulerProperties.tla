-------------------------- MODULE SchedulerProperties -------------------------
(***************************************************************************)
(* What is true of every run of Scheduler.tla.                             *)
(***************************************************************************)
EXTENDS Scheduler, FiniteSets

PC == {"created", "loop", "resolve", "select", "admit", "wave", "body",
       "release", "finish", "done", "raised"}

Token == {"active", "failure", "task", "outside"}

\* Every variable has its type.  emitted is written and never read, so it has
\* no part in this.
TypeOK ==
  /\ pc \in PC
  /\ runState \in RunState
  /\ states \in [Tasks -> TaskState]
  /\ attempts \in [Tasks -> Nat]
  /\ retries \in [Tasks -> Nat]
  /\ retryAt \in [Tasks -> Nat]
  /\ errors \subseteq Tasks /\ timedOut \subseteq Tasks
  /\ conditions \in [Edges -> Terminal \cup {Unknown}]
  /\ logged \subseteq Edges
  /\ token \in Token
  /\ clock \in Nat
  /\ iteration \in 0 .. MaxIterations
  /\ pass \in 0 .. Len(Order) + 1
  /\ changed \in BOOLEAN
  /\ cursor \in Nat
  /\ considering \subseteq Tasks
  /\ admitted \in Seq(Tasks) /\ blocked \in Seq(Tasks)
  /\ used \in [Pools -> Int] /\ peak \in [Pools -> Int]
  /\ reservations \in [Tasks -> [Pools -> Nat] \cup {NoReservation}]

-------------------------------------------------------------------------------
(* The outcome of a run.                                                     *)

\* _loop leaves its tasks finished: whichever way it returns -- nothing ready and
\* nothing waiting, or cancelled -- no task is left behind in a state it could
\* still move from.
NothingStranded ==
  pc \in {"finish", "done"} => \A t \in Tasks : states[t] \in Terminal

\* _resolve_pending stops at a fixpoint: when the loop goes on to choose what to
\* run, no pending task has a condition left to evaluate or a trigger rule that
\* already says run or skip.
ResolveSettles ==
  pc = "select" =>
    \A t \in InState("PENDING") :
      /\ FreshEdges(t) = {}
      /\ EvaluateTriggerRule(Rule[t], Reached(t, <<>>)) = "WAIT"

\* Because Order is topological, the second pass of _resolve_pending never finds
\* anything new; its range(len + 1) bound is never what stops it.
TwoPassesSuffice == pass <= 2

\* What is known of an edge without evaluating anything
KnownState(e) == IF conditions[e] # Unknown THEN conditions[e] ELSE states[e[1]]
Known(t) == {KnownState(e) : e \in EdgesOf(t)}

\* A decision of decide_task is taken on the states of one moment and never
\* revisited, while the upstreams it did not wait for go on moving and fill the
\* condition cache: it stays the decision the trigger rule would give.
DecisionsStand ==
  \A t \in Tasks :
    /\ states[t] \in {"READY", "RUNNING", "RETRY_WAIT", "SUCCEEDED", "FAILED"} =>
         EvaluateTriggerRule(Rule[t], Known(t)) = "RUN"
    /\ states[t] \in {"SKIPPED", "UPSTREAM_FAILED"} =>
         EvaluateTriggerRule(Rule[t], Known(t)) = "SKIP"

\* Every move _transition makes is in TASK_TRANSITIONS and the run is concluded
\* as RunPromise says: no StateTransitionError escapes.
Promise == INSTANCE RunPromise
KeepsPromise == Promise!Spec

-------------------------------------------------------------------------------
(* Retries.                                                                  *)

\* _attempts and _retries are counted in different handlers (_execute and _fail)
\* yet agree in every state, and the policy's max_attempts is never exceeded.
AttemptsAccounted ==
  \A t \in Tasks :
    /\ attempts[t] <= MaxAttempts[t]
    /\ retries[t] = IF states[t] \in {"RUNNING", "SUCCEEDED", "FAILED"}
                    THEN attempts[t] - 1 ELSE attempts[t]

\* No attempt starts before the backoff its predecessor was given has elapsed.
BackoffRespected ==
  [][\A t \in Tasks : attempts'[t] > attempts[t] => retryAt[t] <= clock]_vars

\* The loop is entered at most once per attempt, once per wait for a retry and
\* once to leave, far from the MAX_ITERATIONS safety net: an entry that is not the
\* last starts the next attempt of some task or brings it back from a wait.
Entries == UNION {{t} \X (1 .. 2 * MaxAttempts[t] - 1) : t \in Tasks}
IterationBudget == iteration <= Cardinality(Entries) + 1

-------------------------------------------------------------------------------
(* Admission and slots.                                                      *)

\* The slots in use are those of the reservations, and never exceed capacity.
SlotsConserved ==
  \A p \in Pools :
    /\ used[p] = Ledger!Held(p)
    /\ used[p] <= Capacity[p]
    /\ used[p] <= peak[p] /\ peak[p] <= Capacity[p]

\* A running task holds what it asked for until it is done, and nobody holds
\* anything between two waves, nor once the run is over or has raised.
SlotsHeldExactlyInWaves ==
  /\ \A t \in InState("RUNNING") : reservations[t] = Request[t]
  /\ pc \in {"loop", "resolve", "select", "finish", "done", "raised"} =>
       Ledger!HoldersNow = {}

\* When the loop raises over a clock it cannot wait on, it could not have gone on:
\* nothing is ready or running, every waiting task is not due yet, and every
\* pending one waits, directly or not, for a retry.
ClockStrandsOnlyRetries ==
  pc = "raised" /\ iteration < MaxIterations =>
    /\ InState("READY") \cup InState("RUNNING") = {}
    /\ WaitingForRetry # {} /\ DueRetries = {}
    /\ \A t \in InState("PENDING") : Upstreams(t) \cap Live # {}

\* Admission is greedy to the end: when the wave starts, no blocked task could
\* have been added to it.
AdmissionMaximal ==
  pc = "wave" /\ cursor = 1 =>
    \A i \in 1 .. Len(blocked) :
      Len(admitted) = Limit \/ ~ Ledger!Fits(Request[blocked[i]])

-------------------------------------------------------------------------------
(* Cancellation.                                                             *)

\* Under FAIL_FAST nothing starts once some task has failed for good, not even
\* the rest of the wave the failure happened in, and the run is reported FAILED
\* rather than CANCELLED.
FailFastStops ==
  [][FailurePolicy = "FAIL_FAST" /\ InState("FAILED") # {} =>
       /\ attempts' = attempts
       /\ pc' = "done" => runState' = "FAILED"]_vars

-------------------------------------------------------------------------------
(* Liveness, under FairSpec.                                                 *)

\* "The loop ends when no task is ready and none is waiting, which ... always
\* happens."
RunEnds == <>(pc = "done")
===============================================================================
