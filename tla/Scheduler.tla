------------------------------ MODULE Scheduler -------------------------------
(***************************************************************************)
(* One run of one workflow: src/campanile/runtime/scheduler.py with the    *)
(* decisions it delegates to dispatch.py, retry.py, cancel.py and          *)
(* executor.py.                                                            *)
(*                                                                         *)
(* The scheduler is one thread; pc names the place in Scheduler.run it has *)
(* reached.  What it cannot control is nondeterministic: how a task body   *)
(* ends, how long it takes, what an edge condition evaluates to, and when  *)
(* somebody outside cancels the token.  emitted holds the events the last  *)
(* step appended to the run's log, in order; EventReplay.tla and           *)
(* LoggedRun.tla build the log from it.                                    *)
(*                                                                         *)
(* A definition introduced as a fault is used nowhere: put in the place of *)
(* the definition that follows it, it must break a property.               *)
(***************************************************************************)
EXTENDS Integers, Sequences, TriggerRules

CONSTANTS
  \* the workflow
  Tasks,          \* its task names
  Order,          \* Workflow.topological_order()
  EdgesInto,      \* task -> its upstreams, in edge declaration order
  Conditional,    \* the <<upstream, downstream>> edges that carry a condition
  Reads,          \* conditional edge -> the tasks whose results it must find
  Rule,           \* task -> its trigger rule
  Priority,       \* task -> its priority, lower runs first
  DeclaredAt,     \* task -> its position in declaration order
  Request,        \* task -> pool -> amount
  Pools, Capacity,
  FailurePolicy,
  MaxParallelism, \* Workflow.max_parallelism, 0 when it is None
  MaxInFlight,    \* Executor.max_in_flight
  \* the retry policy and the timeout of every task
  MaxAttempts, Timeout,
  RetryOn,        \* task -> the exceptions whose own or base class retry_on names,
                  \* {} when retry_on is empty
  Delay,          \* task -> attempt -> delay_for
  \* what the task bodies may do
  Raises,         \* task -> the exceptions its body may raise
  Elapsed,        \* task -> how long its body may take
  MayCancel,      \* the tasks whose body may call TaskContext.cancel
  \* the surroundings
  ClockCanWait,   \* the clock is a ManualClock or a SystemClock
  OutsideCancel,  \* somebody outside holds the token and may cancel it
  MaxIterations,  \* MAX_ITERATIONS
  NoReservation, NoTask, NoError, NoTimeout, Unknown

Upstreams(t) == {EdgesInto[t][i] : i \in 1 .. Len(EdgesInto[t])}

Edges == {e \in Tasks \X Tasks : e[1] \in Upstreams(e[2])}

\* _parallelism_limit
Limit ==
  LET limit == IF MaxParallelism # 0 /\ MaxParallelism < MaxInFlight
               THEN MaxParallelism ELSE MaxInFlight
  IN  IF limit < 1 THEN 1 ELSE limit

\* TaskSpec.sort_key: priority, then declaration order
DispatchBefore(t, u) ==
  \/ Priority[t] < Priority[u]
  \/ Priority[t] = Priority[u] /\ DeclaredAt[t] < DeclaredAt[u]

\* Order is what topological_sort returns for an acyclic graph: every task
\* once, after all of its upstreams
OrderAssumption ==
  /\ Order \in Seq(Tasks)
  /\ \A t \in Tasks : \E i \in 1 .. Len(Order) : Order[i] = t
  /\ \A i, j \in 1 .. Len(Order) : Order[i] = Order[j] => i = j
  /\ \A i \in 1 .. Len(Order) : \A u \in Upstreams(Order[i]) :
        \E j \in 1 .. (i - 1) : Order[j] = u

\* What Workflow, TaskSpec and RetryPolicy check when they are built
WorkflowAssumption ==
  /\ EdgesInto \in [Tasks -> Seq(Tasks)]
  /\ \A t \in Tasks : \A i, j \in 1 .. Len(EdgesInto[t]) :
        EdgesInto[t][i] = EdgesInto[t][j] => i = j
  /\ Conditional \subseteq Edges
  /\ Reads \in [Conditional -> SUBSET Tasks]
  /\ Rule \in [Tasks -> TriggerRule]
  /\ Priority \in [Tasks -> Int]
  /\ DeclaredAt \in [Tasks -> Nat]
  /\ \A t, u \in Tasks : DeclaredAt[t] = DeclaredAt[u] => t = u
  /\ Request \in [Tasks -> [Pools -> Nat]]
  /\ FailurePolicy \in {"CONTINUE", "FAIL_FAST", "ISOLATE"}
  /\ MaxParallelism \in Nat /\ MaxInFlight \in Int
  /\ MaxAttempts \in [Tasks -> Nat \ {0}]
  /\ \A t \in Tasks : \A n \in 1 .. (MaxAttempts[t] - 1) : Delay[t][n] \in Nat
  /\ Timeout \in [Tasks -> Nat \cup {NoTimeout}]
  /\ Elapsed \in [Tasks -> SUBSET Nat]
  /\ MaxIterations \in Nat
  /\ ClockCanWait \in BOOLEAN /\ OutsideCancel \in BOOLEAN
  /\ NoTask \notin Tasks /\ Unknown \notin TaskState /\ NoTimeout \notin Nat

\* ResourcePool's own check of its capacity, and Workflow.check_references: no
\* request exceeds the capacity of its pool
RequestAssumption ==
  /\ Capacity \in [Pools -> Nat]
  /\ \A t \in Tasks, p \in Pools : Request[t][p] <= Capacity[p]
  /\ NoReservation \notin [Pools -> Nat]

ASSUME SchedulerAssumption ==
  OrderAssumption /\ WorkflowAssumption /\ RequestAssumption

VARIABLES
  pc,             \* where Scheduler.run is
  runState,       \* _run_state
  states,         \* _states
  attempts,       \* _attempts
  retries,        \* _retries
  retryAt,        \* _retry_at, 0 where it has no entry
  errors,         \* the tasks with an entry in _errors
  timedOut,       \* the tasks with an entry in _timed_out
  conditions,     \* _conditions: edge -> its cached effective state, or Unknown
  logged,         \* _logged_conditions
  token,          \* the CancellationToken: "active" or the first cause
  clock,          \* clock.now()
  iteration,      \* how many times the loop body was entered
  pass,           \* which pass of _resolve_pending this is
  changed,        \* the pass moved some task
  cursor,         \* the position the pass, or the wave, has reached
  considering,    \* the ready tasks admit() has not looked at yet
  admitted,       \* Admission.admitted
  blocked,        \* the names in Admission.blocked
  used, peak, reservations,   \* the ledger
  emitted         \* the events the last step appended to the log

taskVars == <<states, attempts, retries, retryAt, errors, timedOut>>
edgeVars == <<conditions, logged>>
sweepVars == <<pass, changed>>
waveVars == <<considering, admitted, blocked>>
ledgerVars == <<used, peak, reservations>>
vars == <<pc, runState, taskVars, edgeVars, token, clock, iteration, sweepVars,
          cursor, waveVars, ledgerVars, emitted>>

Ledger == INSTANCE ResourceLedger WITH Holders <- Tasks

-------------------------------------------------------------------------------
(* Events: _emit(kind, task=..., attempt=..., ...).  detail is the state of  *)
(* a RUN_FINISHED, the upstream of a CONDITION_EVALUATED, else NoTask.       *)

Event(kind, t, attempt, detail) ==
  [kind |-> kind, task |-> t, attempt |-> attempt, detail |-> detail]

RunEvent(kind, detail) == Event(kind, NoTask, 0, detail)
TaskEvent(kind, t) == Event(kind, t, 0, NoTask)
TaskEvents(kind, names) == [i \in 1 .. Len(names) |-> TaskEvent(kind, names[i])]

\* What a comprehension leaves of names: those in chosen, in their order
Those(names, chosen) ==
  LET kept[i \in 0 .. Len(names)] ==
        IF i = 0 THEN <<>>
        ELSE IF names[i] \in chosen THEN Append(kept[i - 1], names[i])
        ELSE kept[i - 1]
  IN  kept[Len(names)]

\* `if spec.resources`: only a task that asks for something is reported
Consumers(names) ==
  Those(names, {t \in Tasks : \E p \in Pools : Request[t][p] > 0})

Emit(events) == emitted' = events

-------------------------------------------------------------------------------
(* What may be read off the current state.                                   *)

InState(s) == {t \in Tasks : states[t] = s}

\* Fault: tasks that failed or were skipped are cancelled too
LiveUnlessSucceeded == {t \in Tasks : states[t] # "SUCCEEDED"}

\* cancellable_tasks
Live == {t \in Tasks : states[t] \notin Terminal}

\* _evaluate_edge evaluates the condition of e now, rather than taking the
\* upstream's state or a cached answer
Evaluates(e) ==
  e \in Conditional /\ conditions[e] = Unknown /\ states[e[1]] = "SUCCEEDED"

\* true leaves the edge SUCCEEDED, false makes it SKIPPED, and raising -- which
\* reading a missing result always does -- makes it UPSTREAM_FAILED
ConditionOutcomes(e) ==
  IF \A r \in Reads[e] : states[r] = "SUCCEEDED"
  THEN {"SUCCEEDED", "SKIPPED", "UPSTREAM_FAILED"}
  ELSE {"UPSTREAM_FAILED"}

EdgesOf(t) == Upstreams(t) \X {t}
FreshEdges(t) == {e \in EdgesOf(t) : Evaluates(e)}

\* EdgeEvaluation.effective_state, given what fresh conditions evaluated to
Effective(e, outcome) ==
  IF conditions[e] # Unknown THEN conditions[e]
  ELSE IF Evaluates(e) THEN outcome[e]
  ELSE states[e[1]]

Reached(t, outcome) == {Effective(e, outcome) : e \in EdgesOf(t)}

WaitingForRetry == InState("RETRY_WAIT")

\* Fault: one attempt too many
RetriesOnceMore(t, attempt, error, asked) ==
  ~ asked /\ attempt <= MaxAttempts[t] /\ (RetryOn[t] = {} \/ error \in RetryOn[t])

\* should_retry and the checks decide_retry makes before it
Retries(t, attempt, error, asked) ==
  /\ ~ asked
  /\ attempt < MaxAttempts[t]
  /\ RetryOn[t] = {} \/ error \in RetryOn[t]

Overran(t, elapsed) == Timeout[t] # NoTimeout /\ elapsed > Timeout[t]

-------------------------------------------------------------------------------
(* run: _reset, then RUN_STARTED.  The ledger, the token and the clock come  *)
(* from outside: a token handed in, or left over from an earlier run of the  *)
(* same Scheduler, may already be cancelled, since _reset leaves it alone.   *)

Init ==
  /\ pc = "created"
  /\ runState = "PENDING"
  /\ states = [t \in Tasks |-> "PENDING"]
  /\ attempts = [t \in Tasks |-> 0]
  /\ retries = [t \in Tasks |-> 0]
  /\ retryAt = [t \in Tasks |-> 0]
  /\ errors = {} /\ timedOut = {}
  /\ conditions = [e \in Edges |-> Unknown]
  /\ logged = {}
  /\ token \in IF OutsideCancel THEN {"active", "outside"} ELSE {"active"}
  /\ clock = 0
  /\ iteration = 0 /\ pass = 0 /\ changed = FALSE /\ cursor = 0
  /\ considering = {} /\ admitted = <<>> /\ blocked = <<>>
  /\ Ledger!Init
  /\ emitted = <<>>

Start ==
  /\ pc = "created"
  /\ runState' = "RUNNING"
  /\ pc' = "loop"
  /\ Emit(<<RunEvent("RUN_STARTED", NoTask)>>)
  /\ UNCHANGED <<taskVars, edgeVars, token, clock, iteration, sweepVars, cursor,
                 waveVars, ledgerVars>>

\* `raise ExecutionError` out of _loop: run's finally clause gives every slot
\* back and nothing else happens
Raise ==
  /\ pc' = "raised"
  /\ Ledger!ReleaseAll
  /\ Emit(<<>>)
  /\ UNCHANGED <<runState, taskVars, edgeVars, token, clock, iteration,
                 sweepVars, cursor, waveVars>>

\* The for loop over range(MAX_ITERATIONS) runs out
ExhaustIterations ==
  /\ pc = "loop"
  /\ iteration = MaxIterations
  /\ Raise

CancelEvents == TaskEvents("TASK_CANCELLED", Those(Order, Live))

\* _cancel_remaining, then leave the loop
CancelRemaining ==
  /\ pc = "loop"
  /\ iteration < MaxIterations
  /\ token # "active"
  /\ states' = [t \in Tasks |-> IF t \in Live THEN "CANCELLED" ELSE states[t]]
  /\ Emit(CancelEvents)
  /\ iteration' = iteration + 1
  /\ pc' = "finish"
  /\ UNCHANGED <<runState, attempts, retries, retryAt, errors, timedOut,
                 edgeVars, token, clock, sweepVars, cursor, waveVars, ledgerVars>>

\* Faults: the backoff is ignored, or a retry is not due at the very moment it is
\* waited for
DueAtOnce == WaitingForRetry
DueAfterwards == {t \in WaitingForRetry : retryAt[t] < clock}

DueRetries == {t \in WaitingForRetry : retryAt[t] <= clock}

DueEvents ==
  TaskEvents("TASK_SCHEDULED", Those(Order, DueRetries))

\* _release_due_retries, then into _resolve_pending
ReleaseDueRetries ==
  /\ pc = "loop"
  /\ iteration < MaxIterations
  /\ token = "active"
  /\ states' = [t \in Tasks |-> IF t \in DueRetries THEN "READY" ELSE states[t]]
  /\ Emit(DueEvents)
  /\ iteration' = iteration + 1
  /\ pc' = "resolve" /\ pass' = 1 /\ changed' = FALSE /\ cursor' = 1
  /\ UNCHANGED <<runState, attempts, retries, retryAt, errors, timedOut,
                 edgeVars, token, clock, waveVars, ledgerVars>>

-------------------------------------------------------------------------------
(* _resolve_pending: passes over Order until one changes nothing.            *)

\* A task the pass has nothing to decide about
PassOver ==
  /\ pc = "resolve"
  /\ cursor <= Len(Order)
  /\ states[Order[cursor]] # "PENDING"
  /\ cursor' = cursor + 1
  /\ Emit(<<>>)
  /\ UNCHANGED <<pc, runState, taskVars, edgeVars, token, clock, iteration,
                 sweepVars, waveVars, ledgerVars>>

\* Fault: the state of an unfinished upstream is cached as well
CacheEverything(t, outcome) ==
  conditions' = [e \in Edges |->
    IF e \in EdgesOf(t) THEN Effective(e, outcome) ELSE conditions[e]]

\* Every edge into t is evaluated, and its answer cached once its upstream is
\* terminal
EvaluateEdges(t, outcome) ==
  conditions' = [e \in Edges |->
    IF e \in EdgesOf(t) /\ states[e[1]] \in Terminal
    THEN Effective(e, outcome) ELSE conditions[e]]

\* EdgeEvaluation.was_evaluated, for the condition behind a cached answer too
WasEvaluated(e) == e \in Conditional /\ states[e[1]] = "SUCCEEDED"

\* Fault: a cached answer is logged again
LoggedAgain(t) ==
  Those(EdgesInto[t], {u \in Upstreams(t) : WasEvaluated(<<u, t>>)})

\* _log_conditions: the upstreams of t behind an evaluated condition that was
\* not logged before
NewlyLogged(t) ==
  Those(EdgesInto[t],
        {u \in Upstreams(t) : WasEvaluated(<<u, t>>) /\ <<u, t>> \notin logged})

ConditionEvents(t) ==
  LET new == NewlyLogged(t)
  IN  [i \in 1 .. Len(new) |-> Event("CONDITION_EVALUATED", t, 0, new[i])]

VerdictState(verdict) ==
  CASE verdict = "RUN" -> "READY"
    [] verdict = "SKIP" -> "SKIPPED"
    [] verdict = "UPSTREAM_FAILED" -> "UPSTREAM_FAILED"

\* Fault: a task blamed on a failure is logged as skipped
SkipEvent(verdict) == IF verdict = "RUN" THEN "TASK_SCHEDULED" ELSE "TASK_SKIPPED"

VerdictEvent(verdict) ==
  CASE verdict = "RUN" -> "TASK_SCHEDULED"
    [] verdict = "SKIP" -> "TASK_SKIPPED"
    [] verdict = "UPSTREAM_FAILED" -> "TASK_UPSTREAM_FAILED"

\* decide_task on a pending task, and what _resolve_pending does with it
Decide(t, outcome) ==
  LET verdict == Verdict(Rule[t], Reached(t, outcome))
  IN  /\ EvaluateEdges(t, outcome)
      /\ logged' = logged \cup {e \in EdgesOf(t) : WasEvaluated(e)}
      /\ IF verdict = "WAIT"
         THEN /\ Emit(ConditionEvents(t))
              /\ UNCHANGED <<states, changed>>
         ELSE /\ states' = [states EXCEPT ![t] = VerdictState(verdict)]
              /\ changed' = TRUE
              /\ Emit(Append(ConditionEvents(t),
                             TaskEvent(VerdictEvent(verdict), t)))
      /\ cursor' = cursor + 1
      /\ UNCHANGED <<pc, runState, attempts, retries, retryAt, errors, timedOut,
                     token, clock, iteration, pass, waveVars, ledgerVars>>

DecidePending ==
  /\ pc = "resolve"
  /\ cursor <= Len(Order)
  /\ states[Order[cursor]] = "PENDING"
  /\ \E outcome \in [FreshEdges(Order[cursor])
                      -> {"SUCCEEDED", "SKIPPED", "UPSTREAM_FAILED"}] :
        /\ \A e \in FreshEdges(Order[cursor]) : outcome[e] \in ConditionOutcomes(e)
        /\ Decide(Order[cursor], outcome)

\* `if not changed: return`, or the last pass allowed is over
Settled == ~ changed \/ pass > Len(Order)

NextPass ==
  /\ pc = "resolve"
  /\ cursor > Len(Order)
  /\ ~ Settled
  /\ pass' = pass + 1 /\ changed' = FALSE /\ cursor' = 1
  /\ Emit(<<>>)
  /\ UNCHANGED <<pc, runState, taskVars, edgeVars, token, clock, iteration,
                 waveVars, ledgerVars>>

EndResolve ==
  /\ pc = "resolve"
  /\ cursor > Len(Order)
  /\ Settled
  /\ pc' = "select"
  /\ pass' = 0 /\ changed' = FALSE /\ cursor' = 0
  /\ Emit(<<>>)
  /\ UNCHANGED <<runState, taskVars, edgeVars, token, clock, iteration, waveVars,
                 ledgerVars>>

-------------------------------------------------------------------------------
(* What the loop does next: a wave of ready tasks, a wait, or nothing more.  *)

EarliestRetry ==
  CHOOSE at \in {retryAt[t] : t \in WaitingForRetry} :
    \A t \in WaitingForRetry : at <= retryAt[t]

BeginAdmission ==
  /\ pc = "select"
  /\ InState("READY") # {}
  /\ considering' = InState("READY") /\ admitted' = <<>> /\ blocked' = <<>>
  /\ pc' = "admit"
  /\ Emit(<<>>)
  /\ UNCHANGED <<runState, taskVars, edgeVars, token, clock, iteration, sweepVars,
                 cursor, ledgerVars>>

\* _wait_until(_earliest_retry()) with a clock that can be waited on
WaitForRetry ==
  /\ pc = "select"
  /\ InState("READY") = {} /\ WaitingForRetry # {}
  /\ ClockCanWait \/ EarliestRetry <= clock
  /\ clock' = IF EarliestRetry <= clock THEN clock ELSE EarliestRetry
  /\ pc' = "loop"
  /\ Emit(<<>>)
  /\ UNCHANGED <<runState, taskVars, edgeVars, token, iteration, sweepVars, cursor,
                 waveVars, ledgerVars>>

\* Fault: the clock is looked at before the ready tasks are
CannotWaitIgnoringReady ==
  /\ pc = "select"
  /\ WaitingForRetry # {}
  /\ ~ ClockCanWait /\ EarliestRetry > clock
  /\ Raise

\* _wait_until raises for any other clock
CannotWait ==
  /\ pc = "select"
  /\ InState("READY") = {} /\ WaitingForRetry # {}
  /\ ~ ClockCanWait /\ EarliestRetry > clock
  /\ Raise

LeaveLoop ==
  /\ pc = "select"
  /\ InState("READY") = {} /\ WaitingForRetry = {}
  /\ pc' = "finish"
  /\ Emit(<<>>)
  /\ UNCHANGED <<runState, taskVars, edgeVars, token, clock, iteration, sweepVars,
                 cursor, waveVars, ledgerVars>>

-------------------------------------------------------------------------------
(* Dispatcher.admit: the ready tasks one at a time, in dispatch order.       *)

NextConsidered(t) ==
  t \in considering /\ \A u \in considering \ {t} : DispatchBefore(t, u)

\* Fault: the first task that does not fit closes the wave
MayJoinUnlessBlocked(t) ==
  blocked = <<>> /\ Len(admitted) < Limit /\ Ledger!Fits(Request[t])

MayJoin(t) == Len(admitted) < Limit /\ Ledger!Fits(Request[t])

AdmitTask(t) ==
  /\ pc = "admit"
  /\ NextConsidered(t)
  /\ MayJoin(t)
  /\ Ledger!Acquire(t, Request[t])
  /\ admitted' = Append(admitted, t)
  /\ considering' = considering \ {t}
  /\ Emit(<<>>)
  /\ UNCHANGED <<pc, runState, taskVars, edgeVars, token, clock, iteration,
                 sweepVars, cursor, blocked>>

BlockTask(t) ==
  /\ pc = "admit"
  /\ NextConsidered(t)
  /\ ~ MayJoin(t)
  /\ blocked' = Append(blocked, t)
  /\ considering' = considering \ {t}
  /\ Emit(<<>>)
  /\ UNCHANGED <<pc, runState, taskVars, edgeVars, token, clock, iteration,
                 sweepVars, cursor, admitted, ledgerVars>>

\* _dispatch between admit and the first _execute; an empty admission raises
Announce ==
  /\ pc = "admit"
  /\ considering = {}
  /\ Emit(TaskEvents("RESOURCE_BLOCKED", blocked)
            \o TaskEvents("RESOURCE_ACQUIRED", Consumers(admitted)))
  /\ IF admitted = <<>> THEN pc' = "raised" /\ Ledger!ReleaseAll
     ELSE pc' = "wave" /\ UNCHANGED ledgerVars
  /\ cursor' = 1
  /\ UNCHANGED <<runState, taskVars, edgeVars, token, clock, iteration, sweepVars,
                 waveVars>>

-------------------------------------------------------------------------------
(* _dispatch: the wave, one _execute after the other.                        *)

\* Fault: a cancellation in the middle of a wave does not stop it
NeverStopsWave == FALSE

\* `if self.token.cancelled: break`
StopsWave == token # "active"

\* _execute up to the call of the executor
StartTask ==
  /\ pc = "wave"
  /\ cursor <= Len(admitted)
  /\ ~ StopsWave
  /\ LET t == admitted[cursor]
     IN  /\ attempts' = [attempts EXCEPT ![t] = @ + 1]
         /\ states' = [states EXCEPT ![t] = "RUNNING"]
         /\ Emit(<<Event("TASK_STARTED", t, attempts'[t], NoTask)>>)
  /\ pc' = "body"
  /\ UNCHANGED <<runState, retries, retryAt, errors, timedOut, edgeVars, token,
                 clock, iteration, sweepVars, cursor, waveVars, ledgerVars>>

\* What InlineExecutor.run and _execute make of one call of the body: c.error is
\* what it raised or NoError, c.asked whether it called TaskContext.cancel
Completions(t) ==
  [elapsed : Elapsed[t], error : Raises[t] \cup {NoError},
   asked : IF t \in MayCancel THEN BOOLEAN ELSE {FALSE}]

Ok(t, c) == c.error = NoError /\ ~ Overran(t, c.elapsed)

\* `completion.error or TaskTimeout(...)`
ErrorOf(c) == IF c.error = NoError THEN "TaskTimeout" ELSE c.error

WillRetry(t, c) == Retries(t, attempts[t], ErrorOf(c), c.asked)

\* CancellationToken.cancel keeps the first cause: a fail-fast failure asks
\* before the body's own request does
Cause(t, c, failed) ==
  IF token # "active" THEN token
  ELSE IF failed /\ FailurePolicy = "FAIL_FAST" THEN "failure"
  ELSE IF c.asked THEN "task"
  ELSE "active"

\* The part of _execute that every completion goes through
EndAttempt(t, c, kind, failed) ==
  /\ pc' = "wave"
  /\ cursor' = cursor + 1
  /\ clock' = clock + c.elapsed
  /\ timedOut' = IF Overran(t, c.elapsed) THEN timedOut \cup {t} ELSE timedOut
  /\ token' = Cause(t, c, failed)
  /\ Emit((IF Overran(t, c.elapsed)
           THEN <<Event("TASK_TIMED_OUT", t, attempts[t], NoTask)>> ELSE <<>>)
          \o <<Event(kind, t, attempts[t], NoTask)>>
          \o (IF token' # token
              THEN <<RunEvent("RUN_CANCELLED", NoTask)>> ELSE <<>>))
  /\ UNCHANGED <<runState, attempts, edgeVars, iteration, sweepVars, waveVars,
                 ledgerVars>>

\* _succeed
SucceedTask(t, c) ==
  /\ Ok(t, c)
  /\ states' = [states EXCEPT ![t] = "SUCCEEDED"]
  /\ errors' = errors \ {t}
  /\ EndAttempt(t, c, "TASK_SUCCEEDED", FALSE)
  /\ UNCHANGED <<retries, retryAt>>

\* _fail, when decide_retry says yes
RetryTask(t, c) ==
  /\ ~ Ok(t, c) /\ WillRetry(t, c)
  /\ states' = [states EXCEPT ![t] = "RETRY_WAIT"]
  /\ retries' = [retries EXCEPT ![t] = @ + 1]
  /\ retryAt' = [retryAt EXCEPT ![t] = clock + c.elapsed + Delay[t][attempts[t]]]
  /\ errors' = errors \cup {t}
  /\ EndAttempt(t, c, "TASK_RETRY_SCHEDULED", FALSE)

\* _fail, when the attempt was the last
FailTask(t, c) ==
  /\ ~ Ok(t, c) /\ ~ WillRetry(t, c)
  /\ states' = [states EXCEPT ![t] = "FAILED"]
  /\ errors' = errors \cup {t}
  /\ EndAttempt(t, c, "TASK_FAILED", TRUE)
  /\ UNCHANGED <<retries, retryAt>>

CompleteTask ==
  /\ pc = "body"
  /\ LET t == admitted[cursor]
     IN  \E c \in Completions(t) :
           SucceedTask(t, c) \/ RetryTask(t, c) \/ FailTask(t, c)

\* The wave is over, or the token was cancelled and the rest stays READY
EndWave ==
  /\ pc = "wave"
  /\ cursor > Len(admitted) \/ StopsWave
  /\ pc' = "release" /\ cursor' = 1
  /\ Emit(<<>>)
  /\ UNCHANGED <<runState, taskVars, edgeVars, token, clock, iteration, sweepVars,
                 waveVars, ledgerVars>>

ReleaseEvents(t) == TaskEvents("RESOURCE_RELEASED", Consumers(<<t>>))

\* The finally clause of _dispatch, for one admitted task
ReleaseTask ==
  /\ pc = "release"
  /\ cursor <= Len(admitted)
  /\ LET t == admitted[cursor]
     IN  IF reservations[t] # NoReservation
         THEN Ledger!Release(t) /\ Emit(ReleaseEvents(t))
         ELSE UNCHANGED ledgerVars /\ Emit(<<>>)
  /\ cursor' = cursor + 1
  /\ UNCHANGED <<pc, runState, taskVars, edgeVars, token, clock, iteration,
                 sweepVars, waveVars>>

EndDispatch ==
  /\ pc = "release"
  /\ cursor > Len(admitted)
  /\ pc' = "loop" /\ cursor' = 0
  /\ considering' = {} /\ admitted' = <<>> /\ blocked' = <<>>
  /\ Emit(<<>>)
  /\ UNCHANGED <<runState, taskVars, edgeVars, token, clock, iteration, sweepVars,
                 ledgerVars>>

-------------------------------------------------------------------------------
\* run's finally clause, then _finish
FinalRunState ==
  LET derived == DeriveRunState(states)
  IN  IF derived = "FAILED" /\ FailurePolicy = "ISOLATE" THEN "SUCCEEDED" ELSE derived

Finish ==
  /\ pc = "finish"
  /\ runState' = FinalRunState
  /\ Ledger!ReleaseAll
  /\ pc' = "done"
  /\ Emit(<<RunEvent("RUN_FINISHED", FinalRunState)>>)
  /\ UNCHANGED <<taskVars, edgeVars, token, clock, iteration, sweepVars, cursor,
                 waveVars>>

Stopped == pc \in {"done", "raised"}

\* token.cancel() by somebody outside, at any moment of the run
CancelFromOutside ==
  /\ OutsideCancel
  /\ ~ Stopped
  /\ token = "active"
  /\ token' = "outside"
  /\ Emit(<<>>)
  /\ UNCHANGED <<pc, runState, taskVars, edgeVars, clock, iteration, sweepVars,
                 cursor, waveVars, ledgerVars>>

\* The scheduler's own steps
Step ==
  \/ Start
  \/ ExhaustIterations \/ CancelRemaining \/ ReleaseDueRetries
  \/ PassOver \/ DecidePending \/ NextPass \/ EndResolve
  \/ BeginAdmission \/ WaitForRetry \/ CannotWait \/ LeaveLoop
  \/ \E t \in Tasks : AdmitTask(t) \/ BlockTask(t)
  \/ Announce
  \/ StartTask \/ CompleteTask \/ EndWave
  \/ ReleaseTask \/ EndDispatch
  \/ Finish

\* A run that has ended stays as it is
Rest == Stopped /\ UNCHANGED vars

Next == Step \/ CancelFromOutside \/ Rest

Spec == Init /\ [][Next]_vars

\* The scheduler's thread keeps running: bodies return, sleeps end, and nobody
\* outside is obliged to cancel
FairSpec == Spec /\ WF_vars(Step)
===============================================================================
