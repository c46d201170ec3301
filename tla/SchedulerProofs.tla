---------------------------- MODULE SchedulerProofs ---------------------------
(***************************************************************************)
(* Theorems about Scheduler.tla, for every workflow and every policy: what *)
(* its counters, its ledger and its control keep, and what it decides --   *)
(* decisions stand, every pass of _resolve_pending is a fixpoint, no task  *)
(* is stranded, the run keeps RunPromise, admission leaves out no task     *)
(* that would fit, and a fail-fast failure is the end of the waves.        *)
(***************************************************************************)
EXTENDS SchedulerProperties, SharedLemmas, TLAPS

-------------------------------------------------------------------------------
(* Facts about the constants.                                                *)

LEMMA OrderFacts ==
  /\ Len(Order) \in Nat
  /\ \A i \in 1 .. Len(Order) : Order[i] \in Tasks
<1>1. Order \in Seq(Tasks)
  BY SchedulerAssumption DEF SchedulerAssumption, OrderAssumption
<1>2. QED
  BY <1>1

LEMMA EdgeFacts ==
  /\ \A t \in Tasks : Upstreams(t) \subseteq Tasks
  /\ \A t \in Tasks : EdgesOf(t) \subseteq Edges
  /\ Edges \subseteq Tasks \X Tasks
<1>1. \A t \in Tasks : EdgesInto[t] \in Seq(Tasks)
  BY SchedulerAssumption DEF SchedulerAssumption, WorkflowAssumption
<1>2. \A t \in Tasks : Upstreams(t) \subseteq Tasks
  BY <1>1 DEF Upstreams
<1>3. QED
  BY <1>2 DEF EdgesOf, Edges

LEMMA ConstantFacts ==
  /\ MaxAttempts \in [Tasks -> Nat \ {0}]
  /\ \A t \in Tasks : \A n \in 1 .. (MaxAttempts[t] - 1) : Delay[t][n] \in Nat
  /\ Elapsed \in [Tasks -> SUBSET Nat]
  /\ Request \in [Tasks -> [Pools -> Nat]]
  /\ MaxIterations \in Nat
  /\ Unknown \notin TaskState
  /\ NoReservation \notin [Pools -> Nat]
BY SchedulerAssumption DEF SchedulerAssumption, WorkflowAssumption, RequestAssumption

\* What the ledger does when nobody holds anything
LEMMA ReleaseOfNothing ==
  ASSUME Ledger!HoldersNow = {}, Ledger!ReleaseAll
  PROVE  UNCHANGED ledgerVars
BY DEF Ledger!ReleaseAll, Ledger!ledgerVars, ledgerVars

-------------------------------------------------------------------------------
(* The inductive invariant: where the scheduler is says which tasks are      *)
(* admitted and running, who holds slots, and how attempts are counted.      *)

Admitted == {admitted[i] : i \in 1 .. Len(admitted)}

\* Still to be started in this wave
Remaining == {admitted[i] : i \in {j \in 1 .. Len(admitted) : j > cursor}}

AdmittedOnce ==
  \A i, j \in 1 .. Len(admitted) : admitted[i] = admitted[j] => i = j

Control ==
  /\ pc \in {"resolve", "wave", "body", "release"} => cursor >= 1
  /\ AdmittedOnce
  /\ pc = "admit" => /\ considering \cup Admitted \subseteq InState("READY")
                     /\ considering \cap Admitted = {}
  /\ pc \in {"wave", "body"} => Remaining \subseteq InState("READY")
  /\ pc = "wave" /\ cursor <= Len(admitted) => states[admitted[cursor]] = "READY"
  /\ pc = "body" => cursor <= Len(admitted) /\ states[admitted[cursor]] = "RUNNING"
  /\ \A t \in InState("RUNNING") : pc = "body" /\ t = admitted[cursor]

Idle == {"created", "loop", "resolve", "select", "finish", "done", "raised"}

Holding ==
  /\ pc \in Idle => Ledger!HoldersNow = {}
  /\ pc \in {"admit", "wave", "body"} =>
       /\ Ledger!HoldersNow = Admitted
       /\ \A t \in Admitted : reservations[t] = Request[t]
  /\ pc = "release" =>
       \A t \in Ledger!HoldersNow :
         \E i \in 1 .. Len(admitted) : i >= cursor /\ admitted[i] = t

AttemptingOf(t) ==
  /\ attempts[t] <= MaxAttempts[t]
  /\ states[t] \in {"PENDING", "READY", "RETRY_WAIT"} => attempts[t] < MaxAttempts[t]
  /\ states[t] \in {"RUNNING", "SUCCEEDED", "FAILED"} =>
       attempts[t] >= 1 /\ retries[t] = attempts[t] - 1
  /\ states[t] \notin {"RUNNING", "SUCCEEDED", "FAILED"} => retries[t] = attempts[t]
  /\ states[t] = "RETRY_WAIT" => attempts[t] >= 1
  /\ states[t] \in {"PENDING", "READY"} => retryAt[t] <= clock

Attempting == \A t \in Tasks : AttemptingOf(t)

IInv == TypeOK /\ Control /\ Holding /\ Attempting

LEMMA TypeInit == Init => TypeOK
<1> SUFFICES ASSUME Init PROVE TypeOK
  OBVIOUS
<1>1. Len(Order) \in Nat /\ MaxIterations \in Nat
  BY OrderFacts, ConstantFacts
<1>2. token \in Token
  BY DEF Init, Token
<1>3. used \in [Pools -> Int] /\ peak \in [Pools -> Int]
      /\ reservations \in [Tasks -> [Pools -> Nat] \cup {NoReservation}]
  BY DEF Init, Ledger!Init
<1>4. admitted \in Seq(Tasks) /\ blocked \in Seq(Tasks)
  BY DEF Init
<1>5. conditions \in [Edges -> Terminal \cup {Unknown}] /\ logged \subseteq Edges
  BY DEF Init
<1>6. states \in [Tasks -> TaskState] /\ attempts \in [Tasks -> Nat]
      /\ retries \in [Tasks -> Nat] /\ retryAt \in [Tasks -> Nat]
  BY DEF Init, TaskState
<1>7. iteration \in 0 .. MaxIterations /\ pass \in 0 .. Len(Order) + 1
  BY <1>1 DEF Init
<1>8. QED
  BY <1>2, <1>3, <1>4, <1>5, <1>6, <1>7 DEF Init, TypeOK, PC, RunState

\* The least moment some task waits for is one of those moments
LEMMA EarliestRetryFacts ==
  ASSUME TypeOK, WaitingForRetry # {}
  PROVE  /\ EarliestRetry \in Nat
         /\ \E t \in WaitingForRetry : retryAt[t] = EarliestRetry
         /\ \A t \in WaitingForRetry : EarliestRetry <= retryAt[t]
<1> DEFINE Moments == {retryAt[t] : t \in WaitingForRetry}
<1>1. Moments \in SUBSET Nat /\ Moments # {}
  <2>1. WaitingForRetry \subseteq Tasks
    BY DEF WaitingForRetry, InState
  <2>2. \A t \in Tasks : retryAt[t] \in Nat
    BY DEF TypeOK
  <2>3. QED
    BY <2>1, <2>2
<1>2. PICK m \in Moments : \A k \in Moments : m <= k
  BY <1>1, LeastElement
<1>3. \A t \in WaitingForRetry : m <= retryAt[t]
  BY <1>2
<1>4. EarliestRetry \in Moments /\ \A t \in WaitingForRetry : EarliestRetry <= retryAt[t]
  BY <1>2, <1>3 DEF EarliestRetry
<1>5. QED
  BY <1>1, <1>4

\* decide_task gives one of four verdicts
LEMMA VerdictFacts ==
  ASSUME NEW t
  PROVE  \A reached : Verdict(Rule[t], reached) \in {"RUN", "WAIT", "SKIP", "UPSTREAM_FAILED"}
BY DEF Verdict, EvaluateTriggerRule

\* What a decision does to the states and to the condition cache
LEMMA DecideTypes ==
  ASSUME TypeOK, NEW t \in Tasks,
         NEW outcome \in [FreshEdges(t) -> {"SUCCEEDED", "SKIPPED", "UPSTREAM_FAILED"}],
         Decide(t, outcome)
  PROVE  /\ states' \in [Tasks -> TaskState]
         /\ conditions' \in [Edges -> Terminal \cup {Unknown}]
         /\ logged' \subseteq Edges
         /\ changed' \in BOOLEAN
<1>1. states' = states \/ \E verdict \in {"RUN", "SKIP", "UPSTREAM_FAILED"} :
                            states' = [states EXCEPT ![t] = VerdictState(verdict)]
  BY VerdictFacts DEF Decide
<1>2. \A verdict \in {"RUN", "SKIP", "UPSTREAM_FAILED"} : VerdictState(verdict) \in TaskState
  BY DEF VerdictState, TaskState
<1>3. states' \in [Tasks -> TaskState]
  BY <1>1, <1>2 DEF TypeOK
<1>4. \A e \in EdgesOf(t) : states[e[1]] \in Terminal => Effective(e, outcome) \in Terminal
  <2> SUFFICES ASSUME NEW e \in EdgesOf(t), states[e[1]] \in Terminal
               PROVE  Effective(e, outcome) \in Terminal
    OBVIOUS
  <2>1. conditions[e] \in Terminal \cup {Unknown}
    BY EdgeFacts DEF TypeOK
  <2>2. Evaluates(e) => outcome[e] \in Terminal
    BY DEF FreshEdges, Terminal
  <2>3. QED
    BY <2>1, <2>2 DEF Effective
<1>5. conditions' \in [Edges -> Terminal \cup {Unknown}]
  BY <1>4 DEF Decide, EvaluateEdges, TypeOK
<1>6. logged' \subseteq Edges
  BY EdgeFacts DEF Decide, TypeOK
<1>7. changed' \in BOOLEAN
  BY DEF Decide, TypeOK
<1>8. QED
  BY <1>3, <1>5, <1>6, <1>7

\* The part of IInv a raised error relies on
LEMMA NothingHeldWhenIdle ==
  ASSUME IInv, pc \in Idle, Ledger!ReleaseAll
  PROVE  UNCHANGED ledgerVars
BY ReleaseOfNothing DEF IInv, Holding

LEMMA RaiseTypes ==
  ASSUME IInv, pc \in {"loop", "select"}, Raise
  PROVE  TypeOK'
<1>1. UNCHANGED ledgerVars
  BY NothingHeldWhenIdle DEF Raise, Idle
<1>2. QED
  BY <1>1 DEF IInv, Raise, TypeOK, PC, taskVars, edgeVars, sweepVars,
     waveVars, ledgerVars

\* Every action keeps the types.
LEMMA TypeNext ==
  ASSUME IInv, [Next]_vars
  PROVE  TypeOK'
<1> USE OrderFacts, ConstantFacts
<1>0. TypeOK
  BY DEF IInv
<1>1. CASE Start
  BY <1>0, <1>1 DEF Start, TypeOK, PC, RunState, taskVars, edgeVars,
     sweepVars, waveVars, ledgerVars
<1>2. CASE ExhaustIterations
  BY <1>2, RaiseTypes DEF ExhaustIterations
<1>3. CASE CancelRemaining
  BY <1>0, <1>3 DEF CancelRemaining, TypeOK, PC, TaskState, Live, taskVars,
     edgeVars, sweepVars, waveVars, ledgerVars
<1>4. CASE ReleaseDueRetries
  <2>1. states' \in [Tasks -> TaskState]
    BY <1>0, <1>4 DEF ReleaseDueRetries, TypeOK, TaskState
  <2>2. pass' \in 0 .. Len(Order) + 1 /\ iteration' \in 0 .. MaxIterations
    BY <1>0, <1>4 DEF ReleaseDueRetries, Settled, TypeOK
  <2>3. QED
    BY <1>0, <1>4, <2>1, <2>2 DEF ReleaseDueRetries, TypeOK, PC, taskVars, edgeVars,
       waveVars, ledgerVars
<1>5. CASE PassOver
  <2>1. cursor' \in Nat
    BY <1>0, <1>5 DEF PassOver, TypeOK
  <2>2. QED
    BY <1>0, <1>5, <2>1 DEF PassOver, TypeOK, taskVars, edgeVars, sweepVars,
       waveVars, ledgerVars
<1>6. CASE DecidePending
  <2>1. Order[cursor] \in Tasks
    BY <1>0, <1>6 DEF DecidePending, IInv, Control, TypeOK
  <2>2. PICK outcome \in [FreshEdges(Order[cursor]) -> {"SUCCEEDED", "SKIPPED", "UPSTREAM_FAILED"}] :
          Decide(Order[cursor], outcome)
    BY <1>6 DEF DecidePending
  <2>3. /\ states' \in [Tasks -> TaskState]
        /\ conditions' \in [Edges -> Terminal \cup {Unknown}]
        /\ logged' \subseteq Edges
        /\ changed' \in BOOLEAN
    BY <1>0, <2>1, <2>2, DecideTypes
  <2>4. cursor' \in Nat
    <3>1. cursor \in Nat /\ cursor' = cursor + 1
      BY <1>0, <2>2 DEF Decide, TypeOK
    <3>2. QED
      BY <3>1
  <2>5. UNCHANGED <<pc, runState, attempts, retries, retryAt, errors, timedOut,
                    token, clock, iteration, pass, waveVars, ledgerVars>>
    BY <2>2 DEF Decide
  <2>6. QED
    BY <1>0, <2>3, <2>4, <2>5 DEF TypeOK, waveVars, ledgerVars
<1>7. CASE NextPass
  <2>1. pass' \in 0 .. Len(Order) + 1 /\ iteration' \in 0 .. MaxIterations
    BY <1>0, <1>7 DEF NextPass, Settled, TypeOK
  <2>2. QED
    BY <1>0, <1>7, <2>1 DEF NextPass, TypeOK, PC, taskVars, edgeVars,
       waveVars, ledgerVars
<1>8. CASE EndResolve
  <2>1. pass' \in 0 .. Len(Order) + 1 /\ iteration' \in 0 .. MaxIterations
    BY <1>0, <1>8 DEF EndResolve, Settled, TypeOK
  <2>2. QED
    BY <1>0, <1>8, <2>1 DEF EndResolve, TypeOK, PC, taskVars, edgeVars,
       waveVars, ledgerVars
<1>9. CASE BeginAdmission
  <2>1. considering' \subseteq Tasks /\ admitted' \in Seq(Tasks) /\ blocked' \in Seq(Tasks)
    BY <1>9 DEF BeginAdmission, InState
  <2>2. QED
    BY <1>0, <1>9, <2>1 DEF BeginAdmission, TypeOK, PC, taskVars, edgeVars, sweepVars,
       ledgerVars
<1>10. CASE WaitForRetry
  BY <1>0, <1>10, EarliestRetryFacts DEF WaitForRetry, TypeOK, PC, taskVars,
     edgeVars, sweepVars, waveVars, ledgerVars
<1>11. CASE CannotWait
  BY <1>11, RaiseTypes DEF CannotWait
<1>12. CASE LeaveLoop
  BY <1>0, <1>12 DEF LeaveLoop, TypeOK, PC, taskVars, edgeVars, sweepVars,
     waveVars, ledgerVars
<1>13. CASE \E t \in Tasks : AdmitTask(t)
  <2> PICK t \in Tasks : AdmitTask(t)
    BY <1>13
  <2>1. Request[t] \in [Pools -> Nat]
    OBVIOUS
  <2>2. /\ used' \in [Pools -> Int] /\ peak' \in [Pools -> Int]
        /\ reservations' \in [Tasks -> [Pools -> Nat] \cup {NoReservation}]
    <3>1. \A p \in Pools : used[p] \in Int /\ used[p] + Request[t][p] \in Int
                             /\ peak[p] \in Int
      BY <1>0, <2>1 DEF TypeOK
    <3>2. Ledger!Acquire(t, Request[t])
      BY DEF AdmitTask
    <3>3. used' = [p \in Pools |-> used[p] + Request[t][p]]
      BY <3>2 DEF Ledger!Acquire
    <3>4. used' \in [Pools -> Int]
      BY <3>1, <3>3
    <3>5. peak' = [p \in Pools |-> IF used'[p] > peak[p] THEN used'[p] ELSE peak[p]]
      BY <3>2 DEF Ledger!Acquire
    <3>6. peak' \in [Pools -> Int]
      BY <3>1, <3>4, <3>5
    <3>7. reservations' = [reservations EXCEPT ![t] = Request[t]]
      BY <3>2 DEF Ledger!Acquire
    <3>8. reservations' \in [Tasks -> [Pools -> Nat] \cup {NoReservation}]
      BY <1>0, <2>1, <3>7 DEF TypeOK
    <3>9. QED
      BY <3>4, <3>6, <3>8
  <2>3. admitted' \in Seq(Tasks) /\ considering' \subseteq Tasks
    BY <1>0 DEF AdmitTask, TypeOK
  <2>4. QED
    BY <1>0, <2>2, <2>3 DEF AdmitTask, TypeOK, taskVars, edgeVars,
       sweepVars, waveVars, ledgerVars
<1>14. CASE \E t \in Tasks : BlockTask(t)
  <2> PICK t \in Tasks : BlockTask(t)
    BY <1>14
  <2>1. blocked' \in Seq(Tasks) /\ considering' \subseteq Tasks
    BY <1>0 DEF BlockTask, TypeOK
  <2>2. QED
    BY <1>0, <2>1 DEF BlockTask, TypeOK, taskVars, edgeVars, sweepVars,
       waveVars, ledgerVars
<1>15. CASE Announce
  <2>1. UNCHANGED ledgerVars
    <3>1. CASE admitted = <<>>
      <4>1. Ledger!HoldersNow = {}
        BY <1>15, <3>1 DEF Announce, IInv, Holding, Admitted
      <4>2. QED
        BY <1>15, <3>1, <4>1, ReleaseOfNothing DEF Announce
    <3>2. CASE admitted # <<>>
      BY <1>15, <3>2 DEF Announce
    <3>3. QED
      BY <3>1, <3>2
  <2>2. pc' \in PC
    BY <1>15 DEF Announce, PC
  <2>3. QED
    BY <1>0, <1>15, <2>1, <2>2 DEF Announce, TypeOK, taskVars, edgeVars,
       sweepVars, waveVars, ledgerVars
<1>16. CASE StartTask
  <2>1. admitted[cursor] \in Tasks
    BY <1>0, <1>16 DEF StartTask, IInv, Control, TypeOK
  <2>2. states' \in [Tasks -> TaskState] /\ attempts' \in [Tasks -> Nat]
    <3>1. states \in [Tasks -> TaskState] /\ attempts \in [Tasks -> Nat]
      BY <1>0 DEF TypeOK
    <3>2. /\ states' = [states EXCEPT ![admitted[cursor]] = "RUNNING"]
          /\ attempts' = [attempts EXCEPT ![admitted[cursor]] = attempts[admitted[cursor]] + 1]
      BY <1>16 DEF StartTask
    <3>3. QED
      BY <2>1, <3>1, <3>2 DEF TaskState
  <2>3. QED
    BY <1>0, <1>16, <2>2 DEF StartTask, TypeOK, PC, TaskState, taskVars,
       edgeVars, sweepVars, waveVars, ledgerVars
<1>17. CASE CompleteTask
  <2> DEFINE t == admitted[cursor]
  <2>1. t \in Tasks /\ states[t] = "RUNNING"
    BY <1>0, <1>17 DEF CompleteTask, IInv, Control, TypeOK
  <2>2. PICK c \in Completions(t) : SucceedTask(t, c) \/ RetryTask(t, c) \/ FailTask(t, c)
    BY <1>17 DEF CompleteTask
  <2>3. c.elapsed \in Nat
    BY <2>1 DEF Completions
  <2>4. token' \in Token
    BY <1>0, <2>2 DEF SucceedTask, RetryTask, FailTask, EndAttempt, Cause,
       TypeOK, Token
  <2>5. /\ pc' \in PC /\ cursor' \in Nat /\ clock' \in Nat /\ timedOut' \subseteq Tasks
        /\ UNCHANGED <<runState, attempts, edgeVars, iteration, sweepVars, waveVars,
                       ledgerVars>>
    <3>1. \E kind, failed : EndAttempt(t, c, kind, failed)
      BY <2>2 DEF SucceedTask, RetryTask, FailTask
    <3>2. timedOut' \subseteq Tasks
      BY <1>0, <2>1, <3>1 DEF EndAttempt, TypeOK
    <3>3. clock' = clock + c.elapsed /\ cursor' = cursor + 1
      BY <3>1 DEF EndAttempt
    <3>4. clock \in Nat /\ cursor \in Nat
      BY <1>0 DEF TypeOK
    <3>5. clock' \in Nat /\ cursor' \in Nat
      BY <2>3, <3>3, <3>4
    <3>6. QED
      BY <3>1, <3>2, <3>5 DEF EndAttempt, PC
  <2>6. states' \in [Tasks -> TaskState] /\ errors' \subseteq Tasks
    BY <1>0, <2>1, <2>2 DEF SucceedTask, RetryTask, FailTask, TypeOK, TaskState
  <2>7. retries' \in [Tasks -> Nat] /\ retryAt' \in [Tasks -> Nat]
    <3>1. CASE RetryTask(t, c)
      <4>1. attempts[t] \in 1 .. (MaxAttempts[t] - 1)
        BY <1>0, <2>1, <3>1 DEF RetryTask, WillRetry, Retries, IInv,
           Attempting, AttemptingOf, TypeOK
      <4>2. Delay[t][attempts[t]] \in Nat
        BY <2>1, <4>1
      <4>3. clock + c.elapsed + Delay[t][attempts[t]] \in Nat
        <5>1. clock \in Nat
          BY <1>0 DEF TypeOK
        <5>2. QED
          BY <5>1, <2>3, <4>2
      <4>4. retryAt' \in [Tasks -> Nat]
        BY <1>0, <3>1, <4>3 DEF RetryTask, TypeOK
      <4>5. retries' \in [Tasks -> Nat]
        <5>1. retries \in [Tasks -> Nat]
          BY <1>0 DEF TypeOK
        <5>2. retries[t] + 1 \in Nat
          BY <5>1, <2>1
        <5>3. retries' = [retries EXCEPT ![t] = retries[t] + 1]
          BY <3>1 DEF RetryTask
        <5>4. QED
          BY <5>1, <5>2, <5>3
      <4>6. QED
        BY <4>4, <4>5
    <3>2. CASE SucceedTask(t, c) \/ FailTask(t, c)
      BY <1>0, <3>2 DEF SucceedTask, FailTask, TypeOK
    <3>3. QED
      BY <2>2, <3>1, <3>2
  <2>8. QED
    BY <1>0, <2>4, <2>5, <2>6, <2>7 DEF TypeOK, edgeVars, sweepVars,
       waveVars, ledgerVars
<1>18. CASE EndWave
  BY <1>0, <1>18 DEF EndWave, TypeOK, PC, taskVars, edgeVars, sweepVars,
     waveVars, ledgerVars
<1>19. CASE ReleaseTask
  <2> DEFINE t == admitted[cursor]
  <2>1. t \in Tasks
    BY <1>0, <1>19 DEF ReleaseTask, IInv, Control, TypeOK
  <2>2. /\ used' \in [Pools -> Int] /\ peak' \in [Pools -> Int]
        /\ reservations' \in [Tasks -> [Pools -> Nat] \cup {NoReservation}]
    <3>1. CASE reservations[t] # NoReservation
      <4>1. reservations[t] \in [Pools -> Nat]
        BY <1>0, <2>1, <3>1 DEF TypeOK
      <4>2. Ledger!Release(t)
        BY <1>19, <3>1 DEF ReleaseTask
      <4>3. \A p \in Pools : used[p] - reservations[t][p] \in Int
        BY <1>0, <4>1 DEF TypeOK
      <4>4. used' \in [Pools -> Int]
        BY <4>2, <4>3 DEF Ledger!Release
      <4>5. QED
        BY <1>0, <4>2, <4>4 DEF Ledger!Release, TypeOK
    <3>2. CASE reservations[t] = NoReservation
      BY <1>0, <1>19, <3>2 DEF ReleaseTask, TypeOK, ledgerVars
    <3>3. QED
      BY <3>1, <3>2
  <2>3. cursor' \in Nat
    BY <1>0, <1>19 DEF ReleaseTask, TypeOK
  <2>4. QED
    BY <1>0, <1>19, <2>2, <2>3 DEF ReleaseTask, TypeOK, taskVars, edgeVars,
       sweepVars, waveVars
<1>20. CASE EndDispatch
  BY <1>0, <1>20 DEF EndDispatch, TypeOK, PC, taskVars, edgeVars, sweepVars,
     waveVars, ledgerVars
<1>21. CASE Finish
  <2>1. UNCHANGED ledgerVars
    BY <1>21, NothingHeldWhenIdle DEF Finish, Idle
  <2>2. runState' \in RunState
    BY <1>21 DEF Finish, FinalRunState, DeriveRunState, RunState
  <2>3. QED
    BY <1>0, <1>21, <2>1, <2>2 DEF Finish, TypeOK, PC, taskVars, edgeVars,
       sweepVars, waveVars, ledgerVars
<1>22. CASE CancelFromOutside
  BY <1>0, <1>22 DEF CancelFromOutside, TypeOK, PC, Token, taskVars, edgeVars,
     sweepVars, waveVars, ledgerVars
<1>23. CASE UNCHANGED vars
  BY <1>0, <1>23 DEF TypeOK, vars, taskVars, edgeVars, sweepVars, waveVars,
     ledgerVars
<1>24. QED
  BY <1>1, <1>2, <1>3, <1>4, <1>5, <1>6, <1>7, <1>8, <1>9, <1>10, <1>11,
     <1>12, <1>13, <1>14, <1>15, <1>16, <1>17, <1>18, <1>19, <1>20, <1>21,
     <1>22, <1>23 DEF Next, Step, Rest

-------------------------------------------------------------------------------
(* Attempts and backoff.                                                     *)

\* Five actions touch the tasks' bookkeeping; the others leave all of it alone.
LEMMA TaskStep ==
  ASSUME [Next]_vars
  PROVE  \/ CancelRemaining \/ ReleaseDueRetries \/ DecidePending
         \/ StartTask \/ CompleteTask
         \/ UNCHANGED taskVars
<1>1. CASE Start \/ ExhaustIterations \/ PassOver \/ NextPass \/ EndResolve
  BY <1>1 DEF Start, ExhaustIterations, Raise, PassOver, NextPass, EndResolve
<1>2. CASE BeginAdmission \/ WaitForRetry \/ CannotWait \/ LeaveLoop
  BY <1>2 DEF BeginAdmission, WaitForRetry, CannotWait, Raise, LeaveLoop
<1>3. CASE \E t \in Tasks : AdmitTask(t) \/ BlockTask(t)
  BY <1>3 DEF AdmitTask, BlockTask
<1>4. CASE Announce \/ EndWave \/ ReleaseTask \/ EndDispatch
  BY <1>4 DEF Announce, EndWave, ReleaseTask, EndDispatch
<1>5. CASE Finish \/ CancelFromOutside \/ UNCHANGED vars
  BY <1>5 DEF Finish, CancelFromOutside, vars
<1>6. QED
  BY <1>1, <1>2, <1>3, <1>4, <1>5 DEF Next, Step, Rest

\* The task the wave has reached is running while its body is
LEMMA BodyFacts ==
  ASSUME IInv, pc = "body"
  PROVE  admitted[cursor] \in Tasks /\ states[admitted[cursor]] = "RUNNING"
BY DEF IInv, Control, TypeOK

\* Time never goes back.
LEMMA ClockGrows ==
  ASSUME IInv, [Next]_vars
  PROVE  clock \in Nat /\ clock' \in Nat /\ clock <= clock'
<1>1. clock \in Nat
  BY DEF IInv, TypeOK
<1>2. clock' \in Nat
  BY TypeNext DEF TypeOK
<1>3. clock <= clock'
  <2>1. CASE CompleteTask
    <3>1. pc = "body"
      BY <2>1 DEF CompleteTask
    <3>2. PICK c \in Completions(admitted[cursor]) : clock' = clock + c.elapsed
      BY <2>1 DEF CompleteTask, SucceedTask, RetryTask, FailTask, EndAttempt
    <3>3. c.elapsed \in Nat
      BY <3>1, BodyFacts, ConstantFacts DEF Completions
    <3>4. QED
      BY <1>1, <3>2, <3>3
  <2>2. CASE WaitForRetry
    <3>1. EarliestRetry \in Nat
      BY <2>2, EarliestRetryFacts DEF WaitForRetry, IInv
    <3>2. clock' = IF EarliestRetry <= clock THEN clock ELSE EarliestRetry
      BY <2>2 DEF WaitForRetry
    <3>3. QED
      BY <1>1, <3>1, <3>2
  <2>3. CASE UNCHANGED clock
    BY <1>1, <2>3
  <2>4. \/ CompleteTask \/ WaitForRetry \/ UNCHANGED clock
    <3>1. CASE Start \/ ExhaustIterations \/ PassOver \/ NextPass \/ EndResolve
      BY <3>1 DEF Start, ExhaustIterations, Raise, PassOver, NextPass, EndResolve
    <3>2. CASE CancelRemaining \/ ReleaseDueRetries \/ DecidePending \/ StartTask
      BY <3>2 DEF CancelRemaining, ReleaseDueRetries, DecidePending, Decide, StartTask
    <3>3. CASE BeginAdmission \/ CannotWait \/ LeaveLoop
      BY <3>3 DEF BeginAdmission, CannotWait, Raise, LeaveLoop
    <3>4. CASE \E t \in Tasks : AdmitTask(t) \/ BlockTask(t)
      BY <3>4 DEF AdmitTask, BlockTask
    <3>5. CASE Announce \/ EndWave \/ ReleaseTask \/ EndDispatch
      BY <3>5 DEF Announce, EndWave, ReleaseTask, EndDispatch
    <3>6. CASE Finish \/ CancelFromOutside \/ UNCHANGED vars
      BY <3>6 DEF Finish, CancelFromOutside, vars
    <3>7. QED
      BY <3>1, <3>2, <3>3, <3>4, <3>5, <3>6 DEF Next, Step, Rest
  <2>5. QED
    BY <2>1, <2>2, <2>3, <2>4
<1>4. QED
  BY <1>1, <1>2, <1>3

\* A task nothing happened to
LEMMA AttemptingFrame ==
  ASSUME IInv, [Next]_vars, NEW t \in Tasks,
         states'[t] = states[t], attempts'[t] = attempts[t],
         retries'[t] = retries[t], retryAt'[t] = retryAt[t]
  PROVE  AttemptingOf(t)'
<1>1. AttemptingOf(t)
  BY DEF IInv, Attempting
<1>2. clock \in Nat /\ clock' \in Nat /\ clock <= clock'
  BY ClockGrows
<1>3. retryAt[t] \in Nat
  BY DEF IInv, TypeOK
<1>4. retryAt[t] <= clock => retryAt[t] <= clock'
  BY <1>2, <1>3
<1>5. QED
  BY <1>1, <1>4 DEF AttemptingOf

LEMMA AttemptingNext ==
  ASSUME IInv, [Next]_vars
  PROVE  Attempting'
<1> SUFFICES ASSUME NEW t \in Tasks
             PROVE  AttemptingOf(t)'
  BY DEF Attempting
<1>0. /\ TypeOK /\ AttemptingOf(t)
      /\ states[t] \in TaskState /\ attempts[t] \in Nat /\ retries[t] \in Nat
      /\ retryAt[t] \in Nat /\ MaxAttempts[t] \in Nat \ {0} /\ clock \in Nat
  BY ConstantFacts DEF IInv, Attempting, TypeOK
<1>1. clock' \in Nat /\ clock <= clock'
  BY ClockGrows
<1>2. CASE UNCHANGED taskVars
  BY <1>2, AttemptingFrame DEF taskVars
<1>3. CASE CancelRemaining
  <2>1. UNCHANGED <<attempts, retries, retryAt>>
    BY <1>3 DEF CancelRemaining
  <2>2. CASE t \in Live
    <3>1. states'[t] = "CANCELLED"
      BY <1>3, <2>2 DEF CancelRemaining
    <3>2. states[t] # "RUNNING"
      BY <1>3 DEF CancelRemaining, IInv, Control, InState
    <3>3. states[t] \in {"PENDING", "READY", "RETRY_WAIT"}
      BY <1>0, <2>2, <3>2 DEF Live, Terminal, TaskState
    <3>4. QED
      BY <1>0, <2>1, <3>1, <3>3 DEF AttemptingOf
  <2>3. CASE t \notin Live
    <3>1. states'[t] = states[t]
      BY <1>3, <2>3 DEF CancelRemaining
    <3>2. QED
      BY <2>1, <3>1, AttemptingFrame
  <2>4. QED
    BY <2>2, <2>3
<1>4. CASE ReleaseDueRetries
  <2>1. UNCHANGED <<attempts, retries, retryAt>>
    BY <1>4 DEF ReleaseDueRetries
  <2>2. CASE t \in DueRetries
    <3>1. states'[t] = "READY"
      BY <1>4, <2>2 DEF ReleaseDueRetries
    <3>2. states[t] = "RETRY_WAIT" /\ retryAt[t] <= clock
      BY <2>2 DEF DueRetries, WaitingForRetry, InState
    <3>3. retryAt[t] <= clock'
      BY <1>0, <1>1, <3>2
    <3>4. QED
      BY <1>0, <2>1, <3>1, <3>2, <3>3 DEF AttemptingOf
  <2>3. CASE t \notin DueRetries
    <3>1. states'[t] = states[t]
      BY <1>4, <2>3 DEF ReleaseDueRetries
    <3>2. QED
      BY <2>1, <3>1, AttemptingFrame
  <2>4. QED
    BY <2>2, <2>3
<1>5. CASE DecidePending
  <2> DEFINE o == Order[cursor]
  <2>1. o \in Tasks /\ states[o] = "PENDING"
    BY <1>0, <1>5, OrderFacts DEF DecidePending, IInv, Control, TypeOK
  <2>2. PICK outcome : Decide(o, outcome)
    BY <1>5 DEF DecidePending
  <2>3. UNCHANGED <<attempts, retries, retryAt, clock>>
    BY <2>2 DEF Decide
  <2>4. states' = states \/ \E verdict \in {"RUN", "SKIP", "UPSTREAM_FAILED"} :
                              states' = [states EXCEPT ![o] = VerdictState(verdict)]
    BY <2>2, VerdictFacts DEF Decide
  <2>5. CASE states'[t] = states[t]
    BY <2>3, <2>5, AttemptingFrame
  <2>6. CASE states'[t] # states[t]
    <3>1. /\ states[t] = "PENDING"
          /\ states'[t] \in {"READY", "SKIPPED", "UPSTREAM_FAILED"}
      BY <1>0, <2>1, <2>4, <2>6 DEF VerdictState, TypeOK
    <3>2. QED
      BY <1>0, <2>3, <3>1 DEF AttemptingOf
  <2>7. QED
    BY <2>5, <2>6
<1>6. CASE StartTask
  <2> DEFINE a == admitted[cursor]
  <2>1. pc = "wave" /\ cursor <= Len(admitted)
    BY <1>6 DEF StartTask
  <2>2. a \in Tasks /\ states[a] = "READY"
    BY <1>0, <2>1 DEF IInv, Control, TypeOK
  <2>3. /\ attempts' = [attempts EXCEPT ![a] = attempts[a] + 1]
        /\ states' = [states EXCEPT ![a] = "RUNNING"]
        /\ UNCHANGED <<retries, retryAt>>
    BY <1>6 DEF StartTask
  <2>4. CASE t = a
    <3>1. attempts'[t] = attempts[t] + 1 /\ states'[t] = "RUNNING"
      BY <1>0, <2>2, <2>3, <2>4 DEF TypeOK
    <3>2. attempts[t] < MaxAttempts[t] /\ retries[t] = attempts[t]
      BY <1>0, <2>2, <2>4 DEF AttemptingOf
    <3>3. attempts[t] + 1 <= MaxAttempts[t] /\ attempts[t] + 1 >= 1
          /\ (attempts[t] + 1) - 1 = attempts[t]
      BY <1>0, <3>2
    <3>4. QED
      BY <2>3, <3>1, <3>2, <3>3 DEF AttemptingOf
  <2>5. CASE t # a
    BY <1>0, <2>3, <2>5, AttemptingFrame DEF TypeOK
  <2>6. QED
    BY <2>4, <2>5
<1>7. CASE CompleteTask
  <2> DEFINE a == admitted[cursor]
  <2>1. a \in Tasks /\ states[a] = "RUNNING"
    BY <1>7, BodyFacts DEF CompleteTask
  <2>2. PICK c \in Completions(a) : SucceedTask(a, c) \/ RetryTask(a, c) \/ FailTask(a, c)
    BY <1>7 DEF CompleteTask
  <2>3. attempts' = attempts
    BY <2>2 DEF SucceedTask, RetryTask, FailTask, EndAttempt
  <2>4. CASE t # a
    BY <1>0, <2>2, <2>3, <2>4, AttemptingFrame DEF SucceedTask, RetryTask, FailTask, TypeOK
  <2>5. CASE t = a /\ RetryTask(a, c)
    <3>1. states'[t] = "RETRY_WAIT" /\ retries'[t] = retries[t] + 1
      BY <1>0, <2>5 DEF RetryTask, TypeOK
    <3>2. attempts[t] < MaxAttempts[t]
      BY <2>5 DEF RetryTask, WillRetry, Retries
    <3>3. attempts[t] >= 1 /\ retries[t] = attempts[t] - 1
      BY <1>0, <2>1, <2>5 DEF AttemptingOf
    <3>4. attempts[t] <= MaxAttempts[t] /\ retries[t] + 1 = attempts[t]
      BY <1>0, <3>2, <3>3
    <3>5. QED
      BY <2>3, <3>1, <3>2, <3>3, <3>4 DEF AttemptingOf
  <2>6. CASE t = a /\ (SucceedTask(a, c) \/ FailTask(a, c))
    <3>1. states'[t] \in {"SUCCEEDED", "FAILED"} /\ retries' = retries
      BY <1>0, <2>6 DEF SucceedTask, FailTask, TypeOK
    <3>2. QED
      BY <1>0, <2>1, <2>3, <2>6, <3>1 DEF AttemptingOf
  <2>7. QED
    BY <2>2, <2>4, <2>5, <2>6
<1>8. QED
  BY <1>2, <1>3, <1>4, <1>5, <1>6, <1>7, TaskStep

-------------------------------------------------------------------------------
(* Where the scheduler is.                                                   *)

\* One more task at the end of the wave
LEMMA AdmittedAppend ==
  ASSUME admitted \in Seq(Tasks), AdmittedOnce,
         NEW t \in Tasks, t \notin Admitted, admitted' = Append(admitted, t)
  PROVE  AdmittedOnce' /\ Admitted' = Admitted \cup {t}
<1> DEFINE n == Len(admitted)
<1>1. n \in Nat /\ Len(admitted') = n + 1
  OBVIOUS
<1>2. admitted'[n + 1] = t /\ \A i \in 1 .. n : admitted'[i] = admitted[i]
  OBVIOUS
<1>3. \A i \in 1 .. n : admitted[i] \in Admitted
  BY DEF Admitted
<1>4. 1 .. (n + 1) = (1 .. n) \cup {n + 1}
  BY <1>1
<1>5. Admitted' = Admitted \cup {t}
  BY <1>1, <1>2, <1>4 DEF Admitted
<1>6. AdmittedOnce'
  <2> SUFFICES ASSUME NEW i \in 1 .. (n + 1), NEW j \in 1 .. (n + 1),
                      admitted'[i] = admitted'[j]
               PROVE  i = j
    BY <1>1 DEF AdmittedOnce
  <2>1. CASE i \in 1 .. n /\ j \in 1 .. n
    BY <1>2, <2>1 DEF AdmittedOnce
  <2>2. CASE i = n + 1 \/ j = n + 1
    BY <1>2, <1>3, <1>4, <2>2
  <2>3. QED
    BY <1>4, <2>1, <2>2
<1>7. QED
  BY <1>5, <1>6

\* Between waves all that matters is that nothing runs
LEMMA ControlOutsideWaves ==
  ASSUME pc' \notin {"admit", "wave", "body"}, AdmittedOnce',
         pc' \in {"resolve", "release"} => cursor' >= 1,
         InState("RUNNING")' = {}
  PROVE  Control'
BY DEF Control

\* Only a body runs
LEMMA NothingRuns ==
  ASSUME IInv, pc # "body"
  PROVE  InState("RUNNING") = {}
BY DEF IInv, Control

LEMMA ControlNext ==
  ASSUME IInv, [Next]_vars
  PROVE  Control'
<1>0. TypeOK /\ Control
  BY DEF IInv
<1>1. CASE UNCHANGED <<pc, states, cursor, considering, admitted>>
  BY <1>0, <1>1 DEF Control, AdmittedOnce, Admitted, Remaining, InState
<1>2. CASE /\ UNCHANGED states
           /\ \/ Start \/ ExhaustIterations \/ PassOver \/ NextPass
              \/ EndResolve \/ WaitForRetry \/ CannotWait \/ LeaveLoop \/ Finish
  <2>1. pc # "body" /\ pc' \notin {"admit", "wave", "body", "release"}
    BY <1>2 DEF Start, ExhaustIterations, Raise, PassOver, NextPass,
       EndResolve, WaitForRetry, CannotWait, LeaveLoop, Finish
  <2>2. InState("RUNNING")' = {}
    BY <1>2, <2>1, NothingRuns DEF InState
  <2>3. admitted' = admitted
    BY <1>2 DEF Start, ExhaustIterations, Raise, PassOver, NextPass,
       EndResolve, WaitForRetry, CannotWait, LeaveLoop, Finish, waveVars
  <2>4. pc' = "resolve" => cursor' >= 1
    <3>1. CASE PassOver
      <4>1. cursor \in Nat /\ cursor >= 1 /\ cursor' = cursor + 1
        BY <1>0, <3>1 DEF PassOver, Control, TypeOK
      <4>2. QED
        BY <4>1
    <3>2. CASE NextPass
      BY <3>2 DEF NextPass
    <3>3. QED
      BY <1>2, <3>1, <3>2 DEF Start, ExhaustIterations, Raise,
         EndResolve, WaitForRetry, CannotWait, LeaveLoop, Finish
  <2>5. QED
    BY <1>0, <2>1, <2>2, <2>3, <2>4, ControlOutsideWaves DEF Control, AdmittedOnce
<1>3. CASE CancelRemaining \/ ReleaseDueRetries
  <2>1. pc = "loop" /\ pc' \in {"finish", "resolve"} /\ admitted' = admitted
    BY <1>3 DEF CancelRemaining, ReleaseDueRetries, waveVars
  <2>2. pc' = "resolve" => cursor' >= 1
    BY <1>3 DEF CancelRemaining, ReleaseDueRetries
  <2>3. \A t \in Tasks : states'[t] = states[t] \/ states'[t] # "RUNNING"
    BY <1>3 DEF CancelRemaining, ReleaseDueRetries
  <2>4. InState("RUNNING")' = {}
    BY <2>1, <2>3, NothingRuns DEF InState
  <2>5. QED
    BY <1>0, <2>1, <2>2, <2>4, ControlOutsideWaves DEF Control, AdmittedOnce
<1>4. CASE DecidePending
  <2>1. Order[cursor] \in Tasks
    BY <1>0, <1>4, OrderFacts DEF DecidePending, Control, TypeOK
  <2>2. PICK outcome : Decide(Order[cursor], outcome)
    BY <1>4 DEF DecidePending
  <2>3. cursor \in Nat /\ cursor' = cursor + 1
    BY <1>0, <2>2 DEF Decide, TypeOK
  <2>4. pc = "resolve" /\ pc' = "resolve" /\ admitted' = admitted
    BY <1>4, <2>2 DEF DecidePending, Decide, waveVars
  <2>5. states' = states \/ \E verdict \in {"RUN", "SKIP", "UPSTREAM_FAILED"} :
                              states' = [states EXCEPT ![Order[cursor]] = VerdictState(verdict)]
    BY <2>2, VerdictFacts DEF Decide
  <2>6. \A t \in Tasks : states'[t] = states[t] \/ states'[t] # "RUNNING"
    BY <1>0, <2>1, <2>5 DEF VerdictState, TypeOK
  <2>7. InState("RUNNING")' = {}
    BY <2>4, <2>6, NothingRuns DEF InState
  <2>8. cursor' >= 1
    BY <2>3
  <2>9. QED
    BY <1>0, <2>4, <2>7, <2>8, ControlOutsideWaves DEF Control, AdmittedOnce
<1>5. CASE BeginAdmission
  <2>1. /\ pc = "select" /\ pc' = "admit" /\ states' = states
        /\ considering' = InState("READY") /\ admitted' = <<>>
    BY <1>5 DEF BeginAdmission, taskVars
  <2>2. Admitted' = {} /\ AdmittedOnce'
    BY <2>1 DEF Admitted, AdmittedOnce
  <2>3. InState("RUNNING") = {}
    BY <2>1, NothingRuns
  <2>4. QED
    BY <2>1, <2>2, <2>3 DEF Control, InState
<1>6. CASE \E t \in Tasks : AdmitTask(t)
  <2>1. PICK t \in Tasks : AdmitTask(t)
    BY <1>6
  <2>2. /\ pc = "admit" /\ pc' = "admit" /\ states' = states /\ t \in considering
        /\ admitted' = Append(admitted, t) /\ considering' = considering \ {t}
    BY <2>1 DEF AdmitTask, NextConsidered, taskVars
  <2>3. t \notin Admitted
    BY <1>0, <2>2 DEF Control
  <2>4. AdmittedOnce' /\ Admitted' = Admitted \cup {t}
    BY <1>0, <2>2, <2>3, AdmittedAppend DEF Control, TypeOK
  <2>5. InState("RUNNING") = {}
    BY <2>2, NothingRuns
  <2>6. QED
    BY <1>0, <2>2, <2>4, <2>5 DEF Control, InState
<1>7. CASE \E t \in Tasks : BlockTask(t)
  <2>1. PICK t \in Tasks : BlockTask(t)
    BY <1>7
  <2>2. /\ pc = "admit" /\ pc' = "admit" /\ states' = states
        /\ admitted' = admitted /\ considering' = considering \ {t}
    BY <2>1 DEF BlockTask, taskVars
  <2>3. InState("RUNNING") = {}
    BY <2>2, NothingRuns
  <2>4. QED
    BY <1>0, <2>2, <2>3 DEF Control, InState, Admitted, AdmittedOnce
<1>8. CASE Announce
  <2>1. /\ pc = "admit" /\ pc' \in {"wave", "raised"} /\ cursor' = 1
        /\ states' = states /\ admitted' = admitted
    BY <1>8 DEF Announce, taskVars, waveVars
  <2>2. InState("RUNNING") = {}
    BY <2>1, NothingRuns
  <2>3. \A i \in 1 .. Len(admitted) : states[admitted[i]] = "READY"
    BY <1>0, <2>1 DEF Control, Admitted, InState
  <2>4. Remaining' \subseteq InState("READY")'
    BY <1>0, <2>1, <2>3 DEF Remaining, InState, TypeOK
  <2>5. 1 <= Len(admitted) => states[admitted[1]] = "READY"
    BY <1>0, <2>3 DEF TypeOK
  <2>6. QED
    BY <1>0, <2>1, <2>2, <2>4, <2>5 DEF Control, AdmittedOnce, InState
<1>9. CASE StartTask
  <2> DEFINE a == admitted[cursor]
  <2>1. /\ pc = "wave" /\ pc' = "body" /\ cursor' = cursor /\ admitted' = admitted
        /\ cursor <= Len(admitted) /\ states' = [states EXCEPT ![a] = "RUNNING"]
    BY <1>9 DEF StartTask, waveVars
  <2>2. cursor \in 1 .. Len(admitted) /\ a \in Tasks
    BY <1>0, <2>1 DEF Control, TypeOK
  <2>3. states'[a] = "RUNNING" /\ \A t \in Tasks \ {a} : states'[t] = states[t]
    BY <1>0, <2>1, <2>2 DEF TypeOK
  <2>4. a \notin Remaining
    <3>1. \A i \in 1 .. Len(admitted) : i > cursor => admitted[i] # a
      BY <1>0, <2>2 DEF Control, AdmittedOnce
    <3>2. QED
      BY <3>1 DEF Remaining
  <2>5. Remaining' = Remaining /\ Remaining \subseteq InState("READY")
    BY <1>0, <2>1 DEF Remaining, Control
  <2>6. Remaining' \subseteq InState("READY")'
    BY <2>3, <2>4, <2>5 DEF InState
  <2>7. InState("RUNNING") = {}
    BY <2>1, NothingRuns
  <2>8. \A t \in InState("RUNNING")' : t = a
    BY <2>3, <2>7 DEF InState
  <2>9. QED
    BY <1>0, <2>1, <2>2, <2>3, <2>6, <2>8 DEF Control, AdmittedOnce
<1>10. CASE CompleteTask
  <2> DEFINE a == admitted[cursor]
  <2>1. pc = "body" /\ a \in Tasks /\ states[a] = "RUNNING"
    BY <1>10, BodyFacts DEF CompleteTask
  <2>2. PICK c \in Completions(a) : SucceedTask(a, c) \/ RetryTask(a, c) \/ FailTask(a, c)
    BY <1>10 DEF CompleteTask
  <2>3. pc' = "wave" /\ cursor' = cursor + 1 /\ admitted' = admitted
    BY <2>2 DEF SucceedTask, RetryTask, FailTask, EndAttempt, waveVars
  <2>4. \E s \in {"SUCCEEDED", "RETRY_WAIT", "FAILED"} : states' = [states EXCEPT ![a] = s]
    BY <2>2 DEF SucceedTask, RetryTask, FailTask
  <2>5. states'[a] # "RUNNING" /\ \A t \in Tasks \ {a} : states'[t] = states[t]
    BY <1>0, <2>1, <2>4 DEF TypeOK
  <2>6. InState("RUNNING")' = {}
    BY <1>0, <2>1, <2>5 DEF Control, InState
  <2>7. cursor \in 1 .. Len(admitted)
    BY <1>0, <2>1 DEF Control, TypeOK
  <2>8. \A i \in 1 .. Len(admitted) : i > cursor => states'[admitted[i]] = "READY"
    <3> SUFFICES ASSUME NEW i \in 1 .. Len(admitted), i > cursor
                 PROVE  states'[admitted[i]] = "READY"
      OBVIOUS
    <3>1. admitted[i] # a
      BY <1>0, <2>7 DEF Control, AdmittedOnce
    <3>2. states[admitted[i]] = "READY" /\ admitted[i] \in Tasks
      BY <1>0, <2>1 DEF Control, Remaining, InState
    <3>3. QED
      BY <2>5, <3>1, <3>2
  <2>9. Remaining' \subseteq InState("READY")'
    <3>1. Remaining' = {admitted[i] : i \in {j \in 1 .. Len(admitted) : j > cursor + 1}}
      BY <2>3 DEF Remaining
    <3>2. \A i \in 1 .. Len(admitted) : i > cursor + 1 => i > cursor
      BY <2>7
    <3>3. \A i \in 1 .. Len(admitted) : admitted[i] \in Tasks
      BY <1>0 DEF TypeOK
    <3>4. QED
      BY <2>8, <3>1, <3>2, <3>3 DEF InState
  <2>10. cursor' <= Len(admitted') => states'[admitted'[cursor']] = "READY"
    <3>1. Len(admitted) \in Nat
      BY <1>0 DEF TypeOK
    <3>2. QED
      BY <2>3, <2>7, <2>8, <3>1
  <2>11. cursor' >= 1
    BY <2>3, <2>7
  <2>12. QED
    BY <1>0, <2>3, <2>6, <2>9, <2>10, <2>11 DEF Control, AdmittedOnce
<1>11. CASE EndWave
  <2>1. pc = "wave" /\ pc' = "release" /\ cursor' = 1 /\ admitted' = admitted /\ states' = states
    BY <1>11 DEF EndWave, taskVars, waveVars
  <2>2. InState("RUNNING")' = {}
    BY <2>1, NothingRuns DEF InState
  <2>3. QED
    BY <1>0, <2>1, <2>2, ControlOutsideWaves DEF Control, AdmittedOnce
<1>12. CASE ReleaseTask
  <2>1. /\ pc = "release" /\ pc' = "release" /\ cursor' = cursor + 1
        /\ admitted' = admitted /\ states' = states
    BY <1>12 DEF ReleaseTask, taskVars, waveVars
  <2>2. InState("RUNNING")' = {}
    BY <2>1, NothingRuns DEF InState
  <2>3. cursor \in Nat /\ cursor >= 1
    BY <1>0, <2>1 DEF Control, TypeOK
  <2>4. cursor' >= 1
    BY <2>1, <2>3
  <2>5. QED
    BY <1>0, <2>1, <2>2, <2>4, ControlOutsideWaves DEF Control, AdmittedOnce
<1>13. CASE EndDispatch
  <2>1. pc = "release" /\ pc' = "loop" /\ admitted' = <<>> /\ states' = states
    BY <1>13 DEF EndDispatch, taskVars
  <2>2. InState("RUNNING")' = {} /\ AdmittedOnce'
    BY <2>1, NothingRuns DEF InState, AdmittedOnce
  <2>3. QED
    BY <2>1, <2>2, ControlOutsideWaves
<1>14. CASE CancelFromOutside \/ UNCHANGED vars
  <2>1. UNCHANGED <<pc, states, cursor, considering, admitted>>
    BY <1>14 DEF CancelFromOutside, vars, taskVars, waveVars
  <2>2. QED
    BY <1>1, <2>1
<1>15. CASE \/ Start \/ ExhaustIterations \/ PassOver \/ NextPass
            \/ EndResolve \/ WaitForRetry \/ CannotWait \/ LeaveLoop \/ Finish
  <2>1. UNCHANGED states
    BY <1>15 DEF Start, ExhaustIterations, Raise, PassOver, NextPass,
       EndResolve, WaitForRetry, CannotWait, LeaveLoop, Finish, taskVars
  <2>2. QED
    BY <1>2, <1>15, <2>1
<1>16. QED
  BY <1>3, <1>4, <1>5, <1>6, <1>7, <1>8, <1>9, <1>10, <1>11, <1>12, <1>13,
     <1>14, <1>15 DEF Next, Step, Rest

-------------------------------------------------------------------------------
(* Who holds slots.                                                          *)

\* Away from the waves the ledger stays empty
LEMMA HoldingOutsideWaves ==
  ASSUME IInv, pc \in Idle, pc' \in Idle, UNCHANGED ledgerVars
  PROVE  Holding'
BY DEF IInv, Holding, Idle, ledgerVars, Ledger!HoldersNow

\* Inside them, what does not touch the ledger or the admission keeps Holding
LEMMA HoldingInWaves ==
  ASSUME IInv, pc \in {"admit", "wave", "body"}, pc' \in {"admit", "wave", "body"},
         UNCHANGED ledgerVars, admitted' = admitted
  PROVE  Holding'
BY DEF IInv, Holding, Idle, Admitted, ledgerVars, Ledger!HoldersNow

LEMMA HoldingNext ==
  ASSUME IInv, [Next]_vars
  PROVE  Holding'
<1>0. TypeOK /\ Control /\ Holding
  BY DEF IInv
<1>1. CASE Start \/ CancelRemaining \/ ReleaseDueRetries
  BY <1>1, HoldingOutsideWaves DEF Start, CancelRemaining, ReleaseDueRetries, Idle
<1>2. CASE PassOver \/ DecidePending \/ NextPass \/ EndResolve
  BY <1>2, HoldingOutsideWaves DEF PassOver, DecidePending, Decide, NextPass,
     EndResolve, Idle
<1>3. CASE WaitForRetry \/ LeaveLoop
  BY <1>3, HoldingOutsideWaves DEF WaitForRetry, LeaveLoop, Idle
<1>4. CASE ExhaustIterations \/ CannotWait \/ Finish
  <2>1. pc \in Idle /\ pc' \in Idle /\ Ledger!ReleaseAll
    BY <1>4 DEF ExhaustIterations, CannotWait, Raise, Finish, Idle
  <2>2. QED
    BY <2>1, NothingHeldWhenIdle, HoldingOutsideWaves
<1>5. CASE BeginAdmission
  <2>1. /\ pc = "select" /\ pc' = "admit" /\ admitted' = <<>>
        /\ reservations' = reservations
    BY <1>5 DEF BeginAdmission, ledgerVars
  <2>2. Ledger!HoldersNow = {} /\ Ledger!HoldersNow' = Ledger!HoldersNow
    BY <1>0, <2>1 DEF Holding, Idle, Ledger!HoldersNow
  <2>3. Admitted' = {}
    BY <2>1 DEF Admitted
  <2>4. QED
    BY <2>1, <2>2, <2>3 DEF Holding, Idle
<1>6. CASE \E t \in Tasks : AdmitTask(t)
  <2>1. PICK t \in Tasks : AdmitTask(t)
    BY <1>6
  <2>2. /\ pc = "admit" /\ pc' = "admit" /\ t \in considering
        /\ admitted' = Append(admitted, t)
        /\ reservations' = [reservations EXCEPT ![t] = Request[t]]
    BY <2>1 DEF AdmitTask, NextConsidered, Ledger!Acquire
  <2>3. t \notin Admitted
    BY <1>0, <2>2 DEF Control
  <2>4. Admitted' = Admitted \cup {t}
    BY <1>0, <2>2, <2>3, AdmittedAppend DEF Control, TypeOK
  <2>5. Request[t] \in [Pools -> Nat] /\ Request[t] # NoReservation
    BY ConstantFacts
  <2>6. /\ reservations'[t] = Request[t]
        /\ \A u \in Tasks \ {t} : reservations'[u] = reservations[u]
    BY <1>0, <2>2 DEF TypeOK
  <2>7. Ledger!HoldersNow' = Ledger!HoldersNow \cup {t}
    BY <2>5, <2>6 DEF Ledger!HoldersNow
  <2>8. Ledger!HoldersNow = Admitted /\ \A u \in Admitted : reservations[u] = Request[u]
    BY <1>0, <2>2 DEF Holding
  <2>9. \A u \in Admitted' : reservations'[u] = Request[u]
    BY <2>3, <2>4, <2>6, <2>8 DEF Ledger!HoldersNow
  <2>10. QED
    BY <2>2, <2>4, <2>7, <2>8, <2>9 DEF Holding, Idle
<1>7. CASE \E t \in Tasks : BlockTask(t)
  BY <1>7, HoldingInWaves DEF BlockTask
<1>8. CASE Announce
  <2>1. pc = "admit" /\ admitted' = admitted
    BY <1>8 DEF Announce, waveVars
  <2>2. CASE admitted = <<>>
    <3>1. Ledger!HoldersNow = {}
      BY <1>0, <2>1, <2>2 DEF Holding, Admitted
    <3>2. pc' = "raised" /\ reservations' = reservations
      BY <1>8, <2>2, <3>1, ReleaseOfNothing DEF Announce, ledgerVars
    <3>3. QED
      BY <3>1, <3>2 DEF Holding, Ledger!HoldersNow
  <2>3. CASE admitted # <<>>
    BY <1>8, <2>1, <2>3, HoldingInWaves DEF Announce
  <2>4. QED
    BY <2>2, <2>3
<1>9. CASE StartTask
  BY <1>9, HoldingInWaves DEF StartTask, waveVars
<1>10. CASE CompleteTask
  <2>1. PICK c : \/ SucceedTask(admitted[cursor], c)
                 \/ RetryTask(admitted[cursor], c)
                 \/ FailTask(admitted[cursor], c)
    BY <1>10 DEF CompleteTask
  <2>2. pc = "body" /\ pc' = "wave" /\ admitted' = admitted /\ UNCHANGED ledgerVars
    BY <1>10, <2>1 DEF CompleteTask, SucceedTask, RetryTask, FailTask,
       EndAttempt, waveVars
  <2>3. QED
    BY <2>2, HoldingInWaves
<1>11. CASE EndWave
  <2>1. /\ pc = "wave" /\ pc' = "release" /\ cursor' = 1 /\ admitted' = admitted
        /\ reservations' = reservations
    BY <1>11 DEF EndWave, waveVars, ledgerVars
  <2>2. Ledger!HoldersNow' = Admitted
    BY <1>0, <2>1 DEF Holding, Ledger!HoldersNow
  <2>3. QED
    BY <2>1, <2>2 DEF Holding, Idle, Admitted
<1>12. CASE ReleaseTask
  <2> DEFINE a == admitted[cursor]
  <2>1. /\ pc = "release" /\ pc' = "release" /\ cursor <= Len(admitted)
        /\ cursor' = cursor + 1 /\ admitted' = admitted
    BY <1>12 DEF ReleaseTask, waveVars
  <2>2. cursor \in Nat /\ cursor >= 1 /\ Len(admitted) \in Nat
    BY <1>0, <2>1 DEF Control, TypeOK
  <2>3. a \in Tasks
    BY <1>0, <2>1, <2>2 DEF TypeOK
  <2>4. reservations'[a] = NoReservation /\ \A t \in Tasks \ {a} : reservations'[t] = reservations[t]
    <3>1. CASE reservations[a] # NoReservation
      <4>1. reservations' = [reservations EXCEPT ![a] = NoReservation]
        BY <1>12, <3>1 DEF ReleaseTask, Ledger!Release
      <4>2. QED
        BY <1>0, <2>3, <4>1 DEF TypeOK
    <3>2. CASE reservations[a] = NoReservation
      BY <1>12, <3>2 DEF ReleaseTask, ledgerVars
    <3>3. QED
      BY <3>1, <3>2
  <2>5. ASSUME NEW t \in Ledger!HoldersNow'
        PROVE  \E i \in 1 .. Len(admitted) : i >= cursor + 1 /\ admitted[i] = t
    <3>1. t \in Ledger!HoldersNow /\ t # a
      BY <2>4 DEF Ledger!HoldersNow
    <3>2. PICK i \in 1 .. Len(admitted) : i >= cursor /\ admitted[i] = t
      BY <1>0, <2>1, <3>1 DEF Holding
    <3>3. i >= cursor + 1
      BY <2>2, <3>1, <3>2
    <3>4. QED
      BY <3>2, <3>3
  <2>6. QED
    BY <2>1, <2>5 DEF Holding, Idle
<1>13. CASE EndDispatch
  <2>1. /\ pc = "release" /\ pc' = "loop" /\ cursor > Len(admitted)
        /\ reservations' = reservations
    BY <1>13 DEF EndDispatch, ledgerVars
  <2>2. cursor \in Nat /\ Len(admitted) \in Nat
    BY <1>0 DEF TypeOK
  <2>3. ~ \E i \in 1 .. Len(admitted) : i >= cursor
    BY <2>1, <2>2
  <2>4. Ledger!HoldersNow = {}
    BY <1>0, <2>1, <2>3 DEF Holding
  <2>5. QED
    BY <2>1, <2>4 DEF Holding, Ledger!HoldersNow
<1>14. CASE CancelFromOutside \/ UNCHANGED vars
  <2>1. pc' = pc /\ cursor' = cursor /\ admitted' = admitted /\ reservations' = reservations
    BY <1>14 DEF CancelFromOutside, vars, waveVars, ledgerVars
  <2>2. QED
    BY <1>0, <2>1 DEF Holding, Admitted, Ledger!HoldersNow
<1>15. QED
  BY <1>1, <1>2, <1>3, <1>4, <1>5, <1>6, <1>7, <1>8, <1>9, <1>10, <1>11,
     <1>12, <1>13, <1>14 DEF Next, Step, Rest

-------------------------------------------------------------------------------
(* The theorems.                                                             *)

LEMMA InvInit == Init => IInv
<1> SUFFICES ASSUME Init PROVE IInv
  OBVIOUS
<1>1. TypeOK
  BY TypeInit
<1>2. Control
  <2>1. pc = "created" /\ admitted = <<>> /\ states = [t \in Tasks |-> "PENDING"]
    BY DEF Init
  <2>2. QED
    BY <2>1 DEF Control, AdmittedOnce, InState
<1>3. Holding
  <2>1. pc = "created" /\ reservations = [t \in Tasks |-> NoReservation]
    BY DEF Init, Ledger!Init
  <2>2. QED
    BY <2>1 DEF Holding, Ledger!HoldersNow
<1>4. Attempting
  <2> SUFFICES ASSUME NEW t \in Tasks PROVE AttemptingOf(t)
    BY DEF Attempting
  <2>1. states[t] = "PENDING" /\ attempts[t] = 0 /\ retries[t] = 0 /\ retryAt[t] = 0 /\ clock = 0
    BY DEF Init
  <2>2. QED
    BY <2>1, ConstantFacts DEF AttemptingOf
<1>5. QED
  BY <1>1, <1>2, <1>3, <1>4 DEF IInv

LEMMA InvNext == IInv /\ [Next]_vars => IInv'
BY TypeNext, ControlNext, HoldingNext, AttemptingNext DEF IInv

\* The inductive invariant holds in every state of every run.
THEOREM Invariant == Spec => []IInv
BY InvInit, InvNext, PTL DEF Spec

\* Every variable keeps its type, whatever the workflow, the policies, the pools
\* and the behaviour of the task bodies.
THEOREM TypeCorrect == Spec => []TypeOK
<1>1. IInv => TypeOK
  BY DEF IInv
<1>2. QED
  BY <1>1, Invariant, PTL

\* No task is ever attempted more often than its retry policy allows, and the
\* counters that _execute and _fail keep apart agree in every state.
THEOREM AttemptsCorrect == Spec => []AttemptsAccounted
<1>1. IInv => AttemptsAccounted
  <2> SUFFICES ASSUME IInv, NEW t \in Tasks
               PROVE  /\ attempts[t] <= MaxAttempts[t]
                      /\ retries[t] = IF states[t] \in {"RUNNING", "SUCCEEDED", "FAILED"}
                                      THEN attempts[t] - 1 ELSE attempts[t]
    BY DEF AttemptsAccounted
  <2>1. QED
    BY DEF IInv, Attempting, AttemptingOf
<1>2. QED
  BY <1>1, Invariant, PTL

\* A running task holds exactly what it asked for, and between waves, at the end
\* of the run and after a raised error nobody holds a slot.
THEOREM SlotsCorrect == Spec => []SlotsHeldExactlyInWaves
<1>1. IInv => SlotsHeldExactlyInWaves
  <2> SUFFICES ASSUME IInv PROVE SlotsHeldExactlyInWaves
    OBVIOUS
  <2>1. ASSUME NEW t \in InState("RUNNING")
        PROVE  reservations[t] = Request[t]
    <3>1. pc = "body" /\ t = admitted[cursor]
      BY <2>1 DEF IInv, Control
    <3>2. cursor \in 1 .. Len(admitted)
      BY <3>1 DEF IInv, Control, TypeOK
    <3>3. t \in Admitted
      BY <3>1, <3>2 DEF Admitted
    <3>4. QED
      BY <3>1, <3>3 DEF IInv, Holding
  <2>2. QED
    BY <2>1 DEF SlotsHeldExactlyInWaves, IInv, Holding, Idle
<1>2. QED
  BY <1>1, Invariant, PTL

-------------------------------------------------------------------------------
(* The accounts of the ledger.                                               *)

LEMMA TasksFinite == IsFiniteSet(Tasks)
<1>1. Order \in Surjection(1 .. Len(Order), Tasks)
  BY OrderFacts, SchedulerAssumption DEF SchedulerAssumption, OrderAssumption, Surjection
<1>2. IsFiniteSet(1 .. Len(Order))
  BY OrderFacts, FS_Interval
<1>3. QED
  BY <1>1, <1>2, FS_Surjection

\* The ledger counts as everybody does
LEMMA SameCount == \A S : Ledger!Cardinality(S) = Cardinality(S)
BY DEF Ledger!Cardinality, Cardinality

\* What is held, as units: f says how much each holder took
LEMMA HeldUnits ==
  ASSUME TypeOK, NEW p \in Pools
  PROVE  /\ IsFiniteSet(Ledger!HoldersNow)
         /\ \A h \in Ledger!HoldersNow : reservations[h][p] \in Nat
         /\ Ledger!HoldersNow = {} => Ledger!Held(p) = 0
         /\ \A f : (\A h \in Ledger!HoldersNow : f[h] = reservations[h][p]) =>
                   Ledger!Held(p) = Cardinality(Units(Ledger!HoldersNow, f))
<1>1. IsFiniteSet(Ledger!HoldersNow)
  <2>1. Ledger!HoldersNow \in SUBSET Tasks
    BY DEF Ledger!HoldersNow
  <2>2. QED
    BY <2>1, TasksFinite, FS_Subset
<1>2. \A h \in Ledger!HoldersNow : reservations[h][p] \in Nat
  BY DEF TypeOK, Ledger!HoldersNow
<1>3. Ledger!HoldersNow = {} => Ledger!Held(p) = 0
  <2>1. SUFFICES ASSUME Ledger!HoldersNow = {} PROVE Ledger!Held(p) = 0
    OBVIOUS
  <2>2. Ledger!SlotsOf(p) = {}
    BY <2>1 DEF Ledger!SlotsOf
  <2>3. Ledger!Held(p) = Cardinality({})
    BY <2>2, SameCount DEF Ledger!Held
  <2>4. QED
    BY <2>3, FS_EmptySet
<1>4. ASSUME NEW f, \A h \in Ledger!HoldersNow : f[h] = reservations[h][p]
      PROVE  Ledger!Held(p) = Cardinality(Units(Ledger!HoldersNow, f))
  <2>1. Ledger!SlotsOf(p) = Units(Ledger!HoldersNow, f)
    BY <1>4 DEF Units, Ledger!SlotsOf
  <2>2. QED
    BY <2>1, SameCount DEF Ledger!Held
<1>5. QED
  BY <1>1, <1>2, <1>3, <1>4

\* Somebody takes a request, or, read backwards, gives it back
LEMMA HeldAdd ==
  ASSUME TypeOK, TypeOK', NEW p \in Pools, NEW h \in Tasks, NEW n \in Nat,
         h \notin Ledger!HoldersNow, Ledger!HoldersNow' = Ledger!HoldersNow \cup {h},
         reservations'[h][p] = n,
         \A k \in Ledger!HoldersNow : reservations'[k] = reservations[k]
  PROVE  /\ Ledger!Held(p)' = Ledger!Held(p) + n
         /\ Ledger!Held(p) \in Nat
<1>1. PICK S : S = Ledger!HoldersNow
  OBVIOUS
<1>2. PICK f : f = [k \in S \cup {h} |-> reservations'[k][p]]
  OBVIOUS
<1>3. IsFiniteSet(S) /\ \A k \in S : f[k] = reservations[k][p] /\ f[k] \in Nat
  BY <1>1, <1>2, HeldUnits
<1>4. f[h] = n
  BY <1>2
<1>5. Ledger!Held(p) = Cardinality(Units(S, f))
  BY <1>1, <1>3, HeldUnits
<1>6. Ledger!Held(p)' = Cardinality(Units(S \cup {h}, f))
  <2>1. Ledger!SlotsOf(p)' = Units(S \cup {h}, f)
    BY <1>1, <1>2 DEF Units, Ledger!SlotsOf
  <2>2. QED
    BY <2>1, SameCount DEF Ledger!Held
<1>7. Cardinality(Units(S \cup {h}, f)) = Cardinality(Units(S, f)) + f[h]
  <2>1. h \notin S /\ \A k \in S \cup {h} : f[k] \in Nat
    BY <1>1, <1>3, <1>4
  <2>2. QED
    BY <1>3, <2>1, UnitsAdd
<1>8. Cardinality(Units(S, f)) \in Nat
  BY <1>3, UnitsFinite
<1>9. QED
  BY <1>4, <1>5, <1>6, <1>7, <1>8

LEMMA HeldRemove ==
  ASSUME TypeOK, TypeOK', NEW p \in Pools, NEW h \in Tasks, NEW n \in Nat,
         h \notin Ledger!HoldersNow', Ledger!HoldersNow = Ledger!HoldersNow' \cup {h},
         reservations[h][p] = n,
         \A k \in Ledger!HoldersNow' : reservations'[k] = reservations[k]
  PROVE  /\ Ledger!Held(p) = Ledger!Held(p)' + n
         /\ Ledger!Held(p)' \in Nat
<1>1. PICK S : S = Ledger!HoldersNow'
  OBVIOUS
<1>2. PICK f : f = [k \in S \cup {h} |-> reservations[k][p]]
  OBVIOUS
<1>3. IsFiniteSet(S) /\ \A k \in S : f[k] = reservations'[k][p] /\ f[k] \in Nat
  <2>1. IsFiniteSet(Ledger!HoldersNow)
    BY HeldUnits
  <2>2. S \in SUBSET Ledger!HoldersNow
    BY <1>1
  <2>3. QED
    BY <1>1, <1>2, <2>1, <2>2, HeldUnits, FS_Subset
<1>4. f[h] = n
  BY <1>2
<1>5. Ledger!Held(p) = Cardinality(Units(S \cup {h}, f))
  BY <1>1, <1>2, HeldUnits
<1>6. Ledger!Held(p)' = Cardinality(Units(S, f))
  <2>1. Ledger!SlotsOf(p)' = Units(S, f)
    BY <1>1, <1>3 DEF Units, Ledger!SlotsOf
  <2>2. QED
    BY <2>1, SameCount DEF Ledger!Held
<1>7. Cardinality(Units(S \cup {h}, f)) = Cardinality(Units(S, f)) + f[h]
  <2>1. h \notin S /\ \A k \in S \cup {h} : f[k] \in Nat
    BY <1>1, <1>3, <1>4
  <2>2. QED
    BY <1>3, <2>1, UnitsAdd
<1>8. Cardinality(Units(S, f)) \in Nat
  BY <1>3, UnitsFinite
<1>9. QED
  BY <1>4, <1>5, <1>6, <1>7, <1>8

\* Only admission and the release of a task that holds something touch the ledger
LEMMA LedgerStep ==
  ASSUME IInv, [Next]_vars
  PROVE  \/ \E t \in Tasks : AdmitTask(t)
         \/ ReleaseTask
         \/ UNCHANGED ledgerVars
<1>1. CASE Start \/ CancelRemaining \/ ReleaseDueRetries \/ PassOver \/ NextPass \/ EndResolve
  BY <1>1 DEF Start, CancelRemaining, ReleaseDueRetries, PassOver, NextPass, EndResolve
<1>2. CASE DecidePending \/ BeginAdmission \/ WaitForRetry \/ LeaveLoop
  BY <1>2 DEF DecidePending, Decide, BeginAdmission, WaitForRetry, LeaveLoop
<1>3. CASE ExhaustIterations \/ CannotWait \/ Finish
  <2>1. pc \in Idle /\ Ledger!ReleaseAll
    BY <1>3 DEF ExhaustIterations, CannotWait, Raise, Finish, Idle
  <2>2. QED
    BY <2>1, NothingHeldWhenIdle
<1>4. CASE Announce
  <2>1. CASE admitted = <<>>
    <3>1. Ledger!HoldersNow = {}
      BY <1>4, <2>1 DEF Announce, IInv, Holding, Admitted
    <3>2. QED
      BY <1>4, <2>1, <3>1, ReleaseOfNothing DEF Announce
  <2>2. CASE admitted # <<>>
    BY <1>4, <2>2 DEF Announce
  <2>3. QED
    BY <2>1, <2>2
<1>5. CASE \E t \in Tasks : BlockTask(t)
  BY <1>5 DEF BlockTask
<1>6. CASE StartTask \/ CompleteTask \/ EndWave \/ EndDispatch
  BY <1>6 DEF StartTask, CompleteTask, SucceedTask, RetryTask, FailTask, EndAttempt, EndWave,
     EndDispatch
<1>7. CASE CancelFromOutside \/ UNCHANGED vars
  BY <1>7 DEF CancelFromOutside, vars
<1>8. QED
  BY <1>1, <1>2, <1>3, <1>4, <1>5, <1>6, <1>7 DEF Next, Step, Rest

LEMMA AccountsAdmit ==
  ASSUME IInv, TypeOK', SlotsConserved, NEW t \in Tasks, AdmitTask(t)
  PROVE  SlotsConserved'
<1>1. /\ reservations[t] = NoReservation /\ Ledger!Fits(Request[t])
      /\ used' = [p \in Pools |-> used[p] + Request[t][p]]
      /\ peak' = [p \in Pools |-> IF used'[p] > peak[p] THEN used'[p] ELSE peak[p]]
      /\ reservations' = [reservations EXCEPT ![t] = Request[t]]
  BY DEF AdmitTask, Ledger!Acquire
<1>2. Request[t] \in [Pools -> Nat] /\ Request[t] # NoReservation
  BY ConstantFacts
<1>3. /\ reservations'[t] = Request[t]
      /\ \A u \in Tasks \ {t} : reservations'[u] = reservations[u]
  BY <1>1 DEF IInv, TypeOK
<1>4. t \notin Ledger!HoldersNow /\ Ledger!HoldersNow' = Ledger!HoldersNow \cup {t}
  BY <1>1, <1>2, <1>3 DEF Ledger!HoldersNow
<1>5. \A u \in Ledger!HoldersNow : reservations'[u] = reservations[u]
  BY <1>3, <1>4 DEF Ledger!HoldersNow
<1>6. TypeOK
  BY DEF IInv
<1>7. ASSUME NEW p \in Pools
      PROVE  /\ used'[p] = Ledger!Held(p)'
             /\ used'[p] <= Capacity[p] /\ used'[p] <= peak'[p] /\ peak'[p] <= Capacity[p]
  <2>1. PICK n \in Nat : n = Request[t][p]
    BY <1>2
  <2>2. Ledger!Held(p)' = Ledger!Held(p) + n
    BY <1>3, <1>4, <1>5, <1>6, <2>1, HeldAdd
  <2>3. /\ used[p] \in Int /\ peak[p] \in Int /\ Capacity[p] \in Int
        /\ used[p] = Ledger!Held(p) /\ peak[p] <= Capacity[p] /\ n <= Capacity[p] - used[p]
    BY <1>1, <1>6, <2>1, SchedulerAssumption
    DEF SlotsConserved, TypeOK, Ledger!Fits, SchedulerAssumption, RequestAssumption
  <2>4. used'[p] = used[p] + n /\ peak'[p] = IF used'[p] > peak[p] THEN used'[p] ELSE peak[p]
    BY <1>1, <2>1
  <2>5. QED
    BY <2>2, <2>3, <2>4
<1>8. QED
  BY <1>7 DEF SlotsConserved

LEMMA AccountsRelease ==
  ASSUME IInv, TypeOK', SlotsConserved, ReleaseTask
  PROVE  SlotsConserved'
<1>1. TypeOK
  BY DEF IInv
<1>2. PICK t \in Tasks : t = admitted[cursor]
  <2>1. cursor \in 1 .. Len(admitted)
    BY DEF ReleaseTask, IInv, Control, TypeOK
  <2>2. admitted \in Seq(Tasks)
    BY DEF IInv, TypeOK
  <2>3. QED
    BY <2>1, <2>2
<1>3. CASE reservations[t] = NoReservation
  <2>1. UNCHANGED ledgerVars
    BY <1>2, <1>3 DEF ReleaseTask
  <2>2. QED
    BY <2>1 DEF SlotsConserved, Ledger!Held, Ledger!SlotsOf, Ledger!HoldersNow, ledgerVars
<1>4. CASE reservations[t] # NoReservation
  <2>1. /\ used' = [p \in Pools |-> used[p] - reservations[t][p]] /\ peak' = peak
        /\ reservations' = [reservations EXCEPT ![t] = NoReservation]
    BY <1>2, <1>4 DEF ReleaseTask, Ledger!Release
  <2>2. /\ reservations'[t] = NoReservation
        /\ \A u \in Tasks \ {t} : reservations'[u] = reservations[u]
    BY <1>1, <2>1 DEF TypeOK
  <2>3. t \notin Ledger!HoldersNow' /\ Ledger!HoldersNow = Ledger!HoldersNow' \cup {t}
    BY <1>4, <2>2 DEF Ledger!HoldersNow
  <2>4. \A u \in Ledger!HoldersNow' : reservations'[u] = reservations[u]
    BY <2>2, <2>3 DEF Ledger!HoldersNow
  <2>5. ASSUME NEW p \in Pools
        PROVE  /\ used'[p] = Ledger!Held(p)'
               /\ used'[p] <= Capacity[p] /\ used'[p] <= peak'[p] /\ peak'[p] <= Capacity[p]
    <3>1. PICK n \in Nat : n = reservations[t][p]
      BY <1>1, <1>4 DEF TypeOK
    <3>2. Ledger!Held(p) = Ledger!Held(p)' + n /\ Ledger!Held(p)' \in Nat
      BY <1>1, <2>3, <2>4, <3>1, HeldRemove
    <3>3. /\ used[p] \in Int /\ peak[p] \in Int /\ Capacity[p] \in Int
          /\ used[p] = Ledger!Held(p) /\ used[p] <= Capacity[p]
          /\ used[p] <= peak[p] /\ peak[p] <= Capacity[p]
      BY <1>1, SchedulerAssumption
      DEF SlotsConserved, TypeOK, SchedulerAssumption, RequestAssumption
    <3>4. used'[p] = used[p] - n /\ peak'[p] = peak[p]
      BY <2>1, <3>1
    <3>5. QED
      BY <3>2, <3>3, <3>4
  <2>6. QED
    BY <2>5 DEF SlotsConserved
<1>5. QED
  BY <1>3, <1>4

\* The counters the ledger keeps per pool are always the sum of what the holders
\* took, never more than the pool has, and never more than the peak it reports.
THEOREM AccountsCorrect == Spec => []SlotsConserved
<1>1. Init => SlotsConserved
  <2>1. SUFFICES ASSUME Init, NEW p \in Pools
                 PROVE  /\ used[p] = Ledger!Held(p)
                        /\ used[p] <= Capacity[p] /\ used[p] <= peak[p] /\ peak[p] <= Capacity[p]
    BY DEF SlotsConserved
  <2>2. used[p] = 0 /\ peak[p] = 0 /\ Ledger!HoldersNow = {}
    BY <2>1 DEF Init, Ledger!Init, Ledger!HoldersNow
  <2>3. Ledger!Held(p) = 0
    BY <2>1, <2>2, TypeInit, HeldUnits
  <2>4. Capacity[p] \in Nat
    BY SchedulerAssumption DEF SchedulerAssumption, RequestAssumption
  <2>5. QED
    BY <2>2, <2>3, <2>4
<1>2. IInv /\ TypeOK' /\ SlotsConserved /\ [Next]_vars => SlotsConserved'
  <2>1. SUFFICES ASSUME IInv, TypeOK', SlotsConserved, [Next]_vars PROVE SlotsConserved'
    OBVIOUS
  <2>2. CASE UNCHANGED ledgerVars
    BY <2>1, <2>2 DEF SlotsConserved, Ledger!Held, Ledger!SlotsOf, Ledger!HoldersNow, ledgerVars
  <2>3. QED
    BY <2>1, <2>2, LedgerStep, AccountsAdmit, AccountsRelease
<1>3. QED
  BY <1>1, <1>2, Invariant, TypeCorrect, PTL DEF Spec

-------------------------------------------------------------------------------
(* How often the loop is entered.                                            *)

\* How far each task has come: two steps for an attempt that was started and a wait
\* that is over, one for an attempt that is not waited for
Steps ==
  [t \in Tasks |-> IF attempts[t] = 0 \/ states[t] = "READY" THEN 2 * attempts[t]
                   ELSE 2 * attempts[t] - 1]
Made == Cardinality(Units(Tasks, Steps))

Unfinished == \E t \in Tasks : states[t] \in {"READY", "RETRY_WAIT"}

\* Every entry but the latest has made a task take a step; an entry that made none
\* is followed by one that will, or by the last
Budget ==
  /\ IterationBudget
  /\ pc \in {"created", "loop", "release"} =>
       \/ iteration <= Made
       \/ /\ iteration <= Made + 1 /\ Unfinished
          /\ token # "active" \/ (pc = "loop" /\ DueRetries # {})
  /\ pc \in {"resolve", "select", "admit", "wave", "body"} => iteration <= Made + 1
  /\ pc = "body" \/ (pc = "wave" /\ cursor # 1) => iteration <= Made
  /\ pc = "wave" => admitted # <<>>

\* Steps are bounded by the entries allowed, and an unfinished task has one to go
StepsBounded ==
  /\ Steps \in [Tasks -> Nat]
  /\ Made \in Nat /\ Cardinality(Entries) \in Nat
  /\ Made <= Cardinality(Entries)
  /\ Unfinished => Made + 1 <= Cardinality(Entries)

LEMMA StepFacts == IInv => StepsBounded
<1>0. SUFFICES ASSUME IInv PROVE StepsBounded
  OBVIOUS
<1>1. PICK all : all = [t \in Tasks |-> 2 * MaxAttempts[t] - 1]
  OBVIOUS
<1>2. Entries = Units(Tasks, all)
  BY <1>1 DEF Entries, Units
<1>3. ASSUME NEW t \in Tasks
      PROVE  /\ Steps[t] \in Nat /\ all[t] \in Nat /\ Steps[t] <= all[t]
             /\ states[t] \in {"READY", "RETRY_WAIT"} => Steps[t] < all[t]
  <2>1. PICK m \in Nat : m = MaxAttempts[t]
    BY ConstantFacts
  <2>2. PICK a \in Nat : a = attempts[t]
    BY <1>0 DEF IInv, TypeOK
  <2>3. /\ m >= 1 /\ a <= m
        /\ states[t] \in {"READY", "RETRY_WAIT"} => a < m
    BY <1>0, <2>1, <2>2, ConstantFacts DEF IInv, Attempting, AttemptingOf
  <2>4. /\ all[t] = 2 * m - 1
        /\ Steps[t] = IF a = 0 \/ states[t] = "READY" THEN 2 * a ELSE 2 * a - 1
    BY <1>1, <2>1, <2>2 DEF Steps
  <2>5. QED
    BY <2>3, <2>4
<1>4. Steps \in [Tasks -> Nat] /\ all \in [Tasks -> Nat]
  BY <1>1, <1>3 DEF Steps
<1>5. QED
  BY <1>2, <1>3, <1>4, TasksFinite, UnitsGrow DEF Made, Unfinished, StepsBounded

LEMMA StepFactsNext == IInv' => StepsBounded'
BY StepFacts, PTL

LEMMA BoundFacts ==
  /\ IterationBudget <=> iteration <= Cardinality(Entries) + 1
  /\ IterationBudget' <=> iteration' <= Cardinality(Entries) + 1
  /\ StepsBounded' => Made' \in Nat /\ Made' <= Cardinality(Entries)
BY DEF IterationBudget, StepsBounded, Entries

LEMMA CountFacts ==
  ASSUME IInv, IInv'
  PROVE  /\ Made \in Nat /\ Made' \in Nat /\ iteration \in Nat
         /\ Cardinality(Entries) \in Nat
         /\ Made <= Cardinality(Entries) /\ Made' <= Cardinality(Entries)
         /\ Unfinished => Made + 1 <= Cardinality(Entries)
<1>1. iteration \in 0 .. MaxIterations /\ MaxIterations \in Nat
  BY ConstantFacts DEF IInv, TypeOK
<1>2. iteration \in Nat
  BY <1>1
<1>3. StepsBounded /\ StepsBounded'
  BY StepFacts, StepFactsNext
<1>4. /\ Made \in Nat /\ Cardinality(Entries) \in Nat /\ Made <= Cardinality(Entries)
      /\ Unfinished => Made + 1 <= Cardinality(Entries)
  BY <1>3 DEF StepsBounded
<1>5. Made' \in Nat /\ Made' <= Cardinality(Entries)
  BY <1>3, BoundFacts
<1>6. QED
  BY <1>2, <1>4, <1>5

\* Tasks go on; one that takes a step pays for an entry
LEMMA StepsGrow ==
  ASSUME IInv, IInv', \A t \in Tasks : Steps[t] <= Steps'[t]
  PROVE  /\ Made <= Made'
         /\ (\E t \in Tasks : Steps[t] < Steps'[t]) => Made + 1 <= Made'
<1>1. PICK f : f = Steps
  OBVIOUS
<1>2. PICK g : g = Steps'
  OBVIOUS
<1>3. f \in [Tasks -> Nat] /\ g \in [Tasks -> Nat]
  BY <1>1, <1>2, StepFacts, StepFactsNext DEF StepsBounded
<1>4. Made = Cardinality(Units(Tasks, f)) /\ Made' = Cardinality(Units(Tasks, g))
  BY <1>1, <1>2 DEF Made, Units
<1>5. QED
  BY <1>1, <1>2, <1>3, <1>4, TasksFinite, UnitsGrow

\* Where nothing happens to the tasks
LEMMA SameSteps ==
  ASSUME UNCHANGED <<states, attempts>>
  PROVE  Made' = Made /\ Unfinished' = Unfinished
BY DEF Made, Units, Steps, Unfinished

LEMMA BudgetInit == Init => Budget
<1>1. SUFFICES ASSUME Init PROVE Budget
  OBVIOUS
<1>2. IInv /\ iteration = 0 /\ pc = "created"
  BY <1>1, InvInit DEF Init
<1>3. Made \in Nat /\ Cardinality(Entries) \in Nat
  BY <1>2, StepFacts DEF StepsBounded
<1>4. QED
  BY <1>2, <1>3, BoundFacts DEF Budget

\* An entry of the loop
LEMMA BudgetEnters ==
  ASSUME IInv, IInv', Budget, CancelRemaining \/ ReleaseDueRetries
  PROVE  Budget'
<1>1. pc = "loop" /\ iteration' = iteration + 1 /\ iteration \in Nat
  BY DEF CancelRemaining, ReleaseDueRetries, IInv, TypeOK
<1>2. PICK m \in Nat, m2 \in Nat, e \in Nat, n \in Nat :
        m = Made /\ m2 = Made' /\ e = Cardinality(Entries) /\ n = iteration
  BY CountFacts
<1>3. m <= e /\ m2 <= e /\ (Unfinished => m + 1 <= e)
  BY <1>2, CountFacts
<1>4. CASE CancelRemaining
  <2>1. pc' = "finish"
    BY <1>4 DEF CancelRemaining
  <2>2. n <= m \/ (n <= m + 1 /\ Unfinished)
    BY <1>1, <1>2 DEF Budget
  <2>3. n + 1 <= e + 1
    BY <1>3, <2>2
  <2>4. iteration' <= Cardinality(Entries) + 1
    BY <1>1, <1>2, <2>3
  <2>5. QED
    BY <2>1, <2>4, BoundFacts DEF Budget
<1>5. CASE ReleaseDueRetries
  <2>1. /\ pc' = "resolve" /\ token = "active" /\ attempts' = attempts
        /\ states' = [t \in Tasks |-> IF t \in DueRetries THEN "READY" ELSE states[t]]
    BY <1>5 DEF ReleaseDueRetries
  <2>2. ASSUME NEW t \in Tasks
        PROVE  Steps[t] <= Steps'[t] /\ (t \in DueRetries => Steps[t] < Steps'[t])
    <3>1. PICK a \in Nat : a = attempts[t]
      BY DEF IInv, TypeOK
    <3>2. CASE t \in DueRetries
      <4>1. states[t] = "RETRY_WAIT"
        BY <3>2 DEF DueRetries, WaitingForRetry, InState
      <4>2. states'[t] = "READY"
        BY <2>1, <3>2
      <4>3. a # 0
        BY <3>1, <4>1 DEF IInv, Attempting, AttemptingOf
      <4>4. Steps[t] = 2 * a - 1 /\ Steps'[t] = 2 * a
        BY <2>1, <3>1, <4>1, <4>2, <4>3 DEF Steps
      <4>5. QED
        BY <4>4
    <3>3. CASE t \notin DueRetries
      <4>1. states'[t] = states[t]
        BY <2>1, <3>3
      <4>2. Steps'[t] = Steps[t]
        BY <2>1, <4>1 DEF Steps
      <4>3. Steps[t] \in Nat
        BY StepFacts DEF StepsBounded
      <4>4. QED
        BY <3>3, <4>2, <4>3
    <3>4. QED
      BY <3>2, <3>3
  <2>3. m <= m2 /\ (DueRetries # {} => m + 1 <= m2)
    <3>1. DueRetries \subseteq Tasks
      BY DEF DueRetries, WaitingForRetry, InState
    <3>2. QED
      BY <1>2, <2>2, <3>1, StepsGrow
  <2>4. n <= m \/ (n <= m + 1 /\ DueRetries # {})
    BY <1>1, <1>2, <2>1 DEF Budget
  <2>5. n + 1 <= m2 + 1 /\ n + 1 <= e + 1
    BY <1>3, <2>3, <2>4
  <2>6. iteration' <= Made' + 1 /\ iteration' <= Cardinality(Entries) + 1
    BY <1>1, <1>2, <2>5
  <2>7. QED
    BY <2>1, <2>6, BoundFacts DEF Budget
<1>6. QED
  BY <1>4, <1>5

\* An attempt is started
LEMMA BudgetStarts ==
  ASSUME IInv, IInv', Budget, StartTask
  PROVE  Budget'
<1>1. PICK t \in Tasks : t = admitted[cursor]
  <2>1. cursor \in 1 .. Len(admitted)
    BY DEF StartTask, IInv, Control, TypeOK
  <2>2. admitted \in Seq(Tasks)
    BY DEF IInv, TypeOK
  <2>3. QED
    BY <2>1, <2>2
<1>2. /\ pc = "wave" /\ pc' = "body" /\ states[t] = "READY"
      /\ attempts' = [attempts EXCEPT ![t] = @ + 1]
      /\ states' = [states EXCEPT ![t] = "RUNNING"]
      /\ UNCHANGED iteration
  BY <1>1 DEF StartTask, IInv, Control
<1>3. ASSUME NEW u \in Tasks
      PROVE  Steps[u] <= Steps'[u] /\ (u = t => Steps[u] < Steps'[u])
  <2>1. PICK a \in Nat : a = attempts[u]
    BY DEF IInv, TypeOK
  <2>2. CASE u = t
    <3>1. attempts'[u] = a + 1 /\ states'[u] = "RUNNING"
      BY <1>2, <2>1, <2>2 DEF IInv, TypeOK
    <3>2. Steps[u] = 2 * a /\ Steps'[u] = 2 * (a + 1) - 1
      BY <1>2, <2>1, <2>2, <3>1 DEF Steps
    <3>3. QED
      BY <3>2
  <2>3. CASE u # t
    <3>1. Steps'[u] = Steps[u] /\ Steps[u] \in Nat
      BY <1>2, <2>3, StepFacts DEF StepsBounded, Steps, IInv, TypeOK
    <3>2. QED
      BY <2>3, <3>1
  <2>4. QED
    BY <2>2, <2>3
<1>4. Made + 1 <= Made'
  BY <1>3, StepsGrow
<1>5. iteration <= Made + 1
  BY <1>2 DEF Budget
<1>6. iteration' <= Made' /\ iteration' <= Made' + 1 /\ iteration' <= Cardinality(Entries) + 1
  BY <1>2, <1>4, <1>5, CountFacts
<1>7. QED
  BY <1>2, <1>6, BoundFacts DEF Budget

\* An attempt ends
LEMMA BudgetCompletes ==
  ASSUME IInv, IInv', Budget, CompleteTask
  PROVE  Budget'
<1>1. PICK t \in Tasks : t = admitted[cursor] /\ states[t] = "RUNNING"
  BY BodyFacts DEF CompleteTask
<1>2. PICK c : SucceedTask(t, c) \/ RetryTask(t, c) \/ FailTask(t, c)
  BY <1>1 DEF CompleteTask
<1>3. PICK s \in {"SUCCEEDED", "RETRY_WAIT", "FAILED"} : states' = [states EXCEPT ![t] = s]
  BY <1>2 DEF SucceedTask, RetryTask, FailTask
<1>4. pc = "body" /\ pc' = "wave" /\ UNCHANGED <<attempts, iteration, admitted>>
  BY <1>2 DEF CompleteTask, SucceedTask, RetryTask, FailTask, EndAttempt, waveVars
<1>5. ASSUME NEW u \in Tasks PROVE Steps[u] <= Steps'[u]
  <2>1. states'[u] = IF u = t THEN s ELSE states[u]
    BY <1>3 DEF IInv, TypeOK
  <2>2. Steps'[u] = Steps[u]
    BY <1>1, <1>3, <1>4, <2>1 DEF Steps
  <2>3. Steps[u] \in Nat
    BY StepFacts DEF StepsBounded
  <2>4. QED
    BY <2>2, <2>3
<1>6. Made <= Made'
  BY <1>5, StepsGrow
<1>7. iteration <= Made
  BY <1>4 DEF Budget
<1>8. iteration' <= Made' /\ iteration' <= Made' + 1 /\ iteration' <= Cardinality(Entries) + 1
  BY <1>4, <1>6, <1>7, CountFacts
<1>9. admitted' # <<>>
  BY <1>1, <1>4 DEF CompleteTask, IInv, Control, TypeOK
<1>10. QED
  BY <1>4, <1>8, <1>9, BoundFacts DEF Budget

\* A decision: what becomes READY has taken a step more, or none
LEMMA BudgetDecides ==
  ASSUME IInv, IInv', Budget, DecidePending
  PROVE  Budget'
<1>1. PICK t \in Tasks : t = Order[cursor] /\ states[t] = "PENDING"
  BY OrderFacts DEF DecidePending, IInv, Control, TypeOK
<1>2. PICK outcome : Decide(t, outcome)
  BY <1>1 DEF DecidePending
<1>3. pc = "resolve" /\ UNCHANGED <<pc, attempts, iteration>>
  BY <1>2 DEF DecidePending, Decide
<1>4. UNCHANGED states \/ \E s : states' = [states EXCEPT ![t] = s]
  BY <1>2 DEF Decide
<1>5. ASSUME NEW u \in Tasks PROVE Steps[u] <= Steps'[u]
  <2>1. u # t => states'[u] = states[u]
    BY <1>4 DEF IInv, TypeOK
  <2>2. PICK a \in Nat : a = attempts[u]
    BY DEF IInv, TypeOK
  <2>3. /\ Steps[u] = IF a = 0 \/ states[u] = "READY" THEN 2 * a ELSE 2 * a - 1
        /\ Steps'[u] = IF a = 0 \/ states'[u] = "READY" THEN 2 * a ELSE 2 * a - 1
    BY <1>3, <2>2 DEF Steps
  <2>4. QED
    BY <1>1, <2>1, <2>3
<1>6. Made <= Made'
  BY <1>5, StepsGrow
<1>7. iteration <= Made + 1
  BY <1>3 DEF Budget
<1>8. iteration' <= Made' + 1 /\ iteration' <= Cardinality(Entries) + 1
  BY <1>3, <1>6, <1>7, CountFacts
<1>9. QED
  BY <1>3, <1>8, BoundFacts DEF Budget

LEMMA BudgetNext ==
  ASSUME IInv, IInv', Budget, [Next]_vars
  PROVE  Budget'
<1>1. /\ Made \in Nat /\ iteration \in Nat /\ Cardinality(Entries) \in Nat
      /\ Made <= Cardinality(Entries)
  BY CountFacts
<1> DEFINE Same == UNCHANGED <<states, attempts, iteration>>
<1>2. ASSUME Same PROVE /\ Made' = Made /\ Unfinished' = Unfinished
                        /\ iteration' = iteration /\ IterationBudget'
  BY <1>2, SameSteps, BoundFacts DEF Budget
<1>3. CASE Start
  <2>1. Same /\ pc = "created" /\ pc' = "loop" /\ UNCHANGED token
    BY <1>3 DEF Start, taskVars
  <2>2. QED
    BY <1>2, <2>1 DEF Budget
<1>4. CASE ExhaustIterations \/ CannotWait
  <2>1. Same /\ pc' = "raised"
    BY <1>4 DEF ExhaustIterations, CannotWait, Raise, taskVars
  <2>2. QED
    BY <1>2, <2>1 DEF Budget
<1>5. CASE PassOver \/ NextPass \/ EndResolve
  <2>1. Same /\ pc = "resolve" /\ pc' \in {"resolve", "select"}
    BY <1>5 DEF PassOver, NextPass, EndResolve, taskVars
  <2>2. QED
    BY <1>2, <2>1 DEF Budget
<1>6. CASE BeginAdmission \/ LeaveLoop
  <2>1. Same /\ pc = "select" /\ pc' \in {"admit", "finish"}
    BY <1>6 DEF BeginAdmission, LeaveLoop, taskVars
  <2>2. QED
    BY <1>2, <2>1 DEF Budget
<1>7. CASE WaitForRetry
  <2>1. /\ Same /\ pc = "select" /\ pc' = "loop" /\ WaitingForRetry # {}
        /\ UNCHANGED retryAt /\ clock' = IF EarliestRetry <= clock THEN clock ELSE EarliestRetry
    BY <1>7 DEF WaitForRetry, taskVars
  <2>2. PICK t \in WaitingForRetry : retryAt[t] = EarliestRetry
    BY <2>1, EarliestRetryFacts DEF IInv
  <2>3. EarliestRetry \in Nat /\ clock \in Nat
    BY <2>1, EarliestRetryFacts DEF IInv, TypeOK
  <2>4. t \in DueRetries'
    BY <2>1, <2>2, <2>3 DEF DueRetries, WaitingForRetry, InState
  <2>5. Unfinished
    BY <2>2 DEF Unfinished, WaitingForRetry, InState
  <2>6. QED
    BY <1>2, <2>1, <2>4, <2>5 DEF Budget
<1>8. CASE \E t \in Tasks : AdmitTask(t) \/ BlockTask(t)
  <2>1. Same /\ pc = "admit" /\ pc' = "admit"
    BY <1>8 DEF AdmitTask, BlockTask, taskVars
  <2>2. QED
    BY <1>2, <2>1 DEF Budget
<1>9. CASE Announce
  <2>1. /\ Same /\ pc = "admit" /\ cursor' = 1 /\ UNCHANGED admitted
        /\ pc' = "raised" \/ (pc' = "wave" /\ admitted # <<>>)
    BY <1>9 DEF Announce, taskVars, waveVars
  <2>2. QED
    BY <1>2, <2>1 DEF Budget
<1>10. CASE EndWave
  <2>1. /\ Same /\ pc = "wave" /\ pc' = "release" /\ UNCHANGED token
        /\ cursor > Len(admitted) \/ token # "active"
    BY <1>10 DEF EndWave, StopsWave, taskVars
  <2>2. Len(admitted) >= 1
    BY <2>1 DEF Budget, IInv, TypeOK
  <2>3. CASE cursor # 1
    BY <1>2, <2>1, <2>3 DEF Budget
  <2>4. CASE cursor = 1
    <3>1. token # "active"
      BY <2>1, <2>2, <2>4
    <3>2. Unfinished
      <4>1. states[admitted[1]] = "READY" /\ admitted[1] \in Tasks
        BY <2>1, <2>2, <2>4 DEF IInv, Control, TypeOK
      <4>2. QED
        BY <4>1 DEF Unfinished
    <3>3. QED
      BY <1>2, <2>1, <3>1, <3>2 DEF Budget
  <2>5. QED
    BY <2>3, <2>4
<1>11. CASE ReleaseTask \/ EndDispatch
  <2>1. Same /\ pc = "release" /\ pc' \in {"release", "loop"} /\ UNCHANGED token
    BY <1>11 DEF ReleaseTask, EndDispatch, taskVars
  <2>2. QED
    BY <1>2, <2>1 DEF Budget
<1>12. CASE Finish
  <2>1. Same /\ pc' = "done"
    BY <1>12 DEF Finish, taskVars
  <2>2. QED
    BY <1>2, <2>1 DEF Budget
<1>13. CASE CancelFromOutside \/ UNCHANGED vars
  <2>1. /\ Same /\ UNCHANGED <<pc, cursor, admitted, retryAt, clock>>
        /\ token # "active" => token' # "active"
    BY <1>13 DEF CancelFromOutside, vars, taskVars, waveVars
  <2>2. DueRetries' = DueRetries
    BY <2>1 DEF DueRetries, WaitingForRetry, InState
  <2>3. QED
    BY <1>2, <2>1, <2>2 DEF Budget
<1>14. QED
  BY <1>3, <1>4, <1>5, <1>6, <1>7, <1>8, <1>9, <1>10, <1>11, <1>12, <1>13, BudgetEnters,
     BudgetStarts, BudgetCompletes, BudgetDecides DEF Next, Step, Rest

\* The loop is never entered more often than the retry policies allow for attempts
\* and waits, and once to leave; a workflow whose policies allow fewer never meets
\* MAX_ITERATIONS.
THEOREM BudgetCorrect == Spec => []IterationBudget
<1>1. Spec => []Budget
  BY BudgetInit, BudgetNext, Invariant, PTL DEF Spec
<1>2. Budget => IterationBudget
  BY DEF Budget
<1>3. QED
  BY <1>1, <1>2, PTL

\* No attempt ever starts before the backoff that decide_retry computed for it
\* has elapsed.
THEOREM BackoffCorrect == Spec => BackoffRespected
<1>1. IInv /\ [Next]_vars =>
        [\A t \in Tasks : attempts'[t] > attempts[t] => retryAt[t] <= clock]_vars
  <2> SUFFICES ASSUME IInv, [Next]_vars, NEW t \in Tasks, attempts'[t] > attempts[t]
               PROVE  retryAt[t] <= clock
    OBVIOUS
  <2>1. attempts[t] \in Nat /\ attempts \in [Tasks -> Nat]
    BY DEF IInv, TypeOK
  <2>2. attempts' # attempts
    BY <2>1
  <2>3. StartTask
    <3>1. ~ (CancelRemaining \/ ReleaseDueRetries \/ DecidePending \/ UNCHANGED taskVars)
      BY <2>2 DEF CancelRemaining, ReleaseDueRetries, DecidePending, Decide, taskVars
    <3>2. ~ CompleteTask
      BY <2>2 DEF CompleteTask, SucceedTask, RetryTask, FailTask, EndAttempt
    <3>3. QED
      BY <3>1, <3>2, TaskStep
  <2>4. t = admitted[cursor]
    <3>1. attempts' = [attempts EXCEPT ![admitted[cursor]] = attempts[admitted[cursor]] + 1]
      BY <2>3 DEF StartTask
    <3>2. QED
      BY <2>1, <3>1
  <2>5. states[t] = "READY"
    BY <2>3, <2>4 DEF StartTask, IInv, Control
  <2>6. QED
    BY <2>5 DEF IInv, Attempting, AttemptingOf
<1>2. QED
  BY <1>1, Invariant, PTL DEF Spec, BackoffRespected

-------------------------------------------------------------------------------
(* How tasks move.                                                           *)

\* The states of a task that was told to run, but for CANCELLED
Started == {"READY", "RUNNING", "RETRY_WAIT", "SUCCEEDED", "FAILED"}

\* What a task can do in one step of the scheduler
LEMMA MovesAreLegal ==
  ASSUME IInv, [Next]_vars, NEW t \in Tasks
  PROVE  /\ LegalTaskMove(states[t], states'[t])
         /\ states'[t] # states[t] =>
              \/ states'[t] = "CANCELLED"
              \/ DecidePending /\ t = Order[cursor] /\ states[t] = "PENDING"
              \/ states[t] \in Started /\ states'[t] \in Started
<1>0. /\ TypeOK /\ states[t] \in TaskState
      /\ InState("RUNNING") # {} => pc = "body"
  BY DEF IInv, TypeOK, Control
<1>1. CASE UNCHANGED taskVars
  BY <1>1 DEF taskVars, LegalTaskMove
<1>2. CASE CancelRemaining
  <2>1. states[t] # "RUNNING"
    BY <1>0, <1>2 DEF CancelRemaining, InState
  <2>2. states'[t] = states[t] \/ (states'[t] = "CANCELLED" /\ states[t] \notin Terminal)
    <3>1. states'[t] = IF t \in Live THEN "CANCELLED" ELSE states[t]
      BY <1>2 DEF CancelRemaining
    <3>2. QED
      BY <3>1 DEF Live
  <2>3. QED
    BY <1>0, <2>1, <2>2 DEF TaskState, Terminal, LegalTaskMove, TaskMove, Started
<1>3. CASE ReleaseDueRetries
  <2>1. states'[t] = states[t] \/ (states'[t] = "READY" /\ states[t] = "RETRY_WAIT")
    <3>1. states'[t] = IF t \in DueRetries THEN "READY" ELSE states[t]
      BY <1>3 DEF ReleaseDueRetries
    <3>2. QED
      BY <3>1 DEF DueRetries, WaitingForRetry, InState
  <2>2. QED
    BY <2>1 DEF LegalTaskMove, TaskMove, Started
<1>4. CASE DecidePending
  <2> DEFINE o == Order[cursor]
  <2>1. o \in Tasks /\ states[o] = "PENDING"
    BY <1>0, <1>4, OrderFacts DEF DecidePending, IInv, Control, TypeOK
  <2>2. PICK outcome : Decide(o, outcome)
    BY <1>4 DEF DecidePending
  <2>3. states' = states \/ \E verdict \in {"RUN", "SKIP", "UPSTREAM_FAILED"} :
                              states' = [states EXCEPT ![o] = VerdictState(verdict)]
    BY <2>2, VerdictFacts DEF Decide
  <2>4. \/ states'[t] = states[t]
        \/ t = o /\ states'[t] \in {"READY", "SKIPPED", "UPSTREAM_FAILED"}
    BY <1>0, <2>1, <2>3 DEF VerdictState, TypeOK
  <2>5. QED
    BY <1>4, <2>1, <2>4 DEF LegalTaskMove, TaskMove, Started
<1>5. CASE StartTask
  <2>1. pc = "wave" /\ cursor <= Len(admitted)
    BY <1>5 DEF StartTask
  <2>2. admitted[cursor] \in Tasks /\ states[admitted[cursor]] = "READY"
    BY <1>0, <2>1 DEF IInv, Control, TypeOK
  <2>3. states' = [states EXCEPT ![admitted[cursor]] = "RUNNING"]
    BY <1>5 DEF StartTask
  <2>4. QED
    BY <1>0, <2>2, <2>3 DEF TypeOK, LegalTaskMove, TaskMove, Started
<1>6. CASE CompleteTask
  <2> DEFINE a == admitted[cursor]
  <2>1. a \in Tasks /\ states[a] = "RUNNING"
    BY <1>6, BodyFacts DEF CompleteTask
  <2>2. \E s \in {"SUCCEEDED", "FAILED", "RETRY_WAIT"} : states' = [states EXCEPT ![a] = s]
    BY <1>6 DEF CompleteTask, SucceedTask, FailTask, RetryTask
  <2>3. QED
    BY <1>0, <2>1, <2>2 DEF TypeOK, LegalTaskMove, TaskMove, Started
<1>7. QED
  BY <1>1, <1>2, <1>3, <1>4, <1>5, <1>6, TaskStep

\* A finished task stays as it is, and nothing goes back to PENDING.
LEMMA TerminalIsFinal ==
  ASSUME IInv, [Next]_vars, NEW t \in Tasks
  PROVE  /\ states[t] \in Terminal => states'[t] = states[t]
         /\ states'[t] = "PENDING" => states[t] = "PENDING"
BY MovesAreLegal DEF LegalTaskMove, TaskMove, Terminal

-------------------------------------------------------------------------------
(* What a decision reads.                                                    *)

\* Order puts every upstream before the tasks that depend on it.
LEMMA UpstreamsComeFirst ==
  /\ \A t \in Tasks : t \notin Upstreams(t)
  /\ \A i \in 1 .. Len(Order) : \A u \in Upstreams(Order[i]) :
       \E j \in 1 .. Len(Order) : j < i /\ Order[j] = u
  /\ \A i, j \in 1 .. Len(Order) : Order[i] = Order[j] => i = j
  /\ \A t \in Tasks : \E i \in 1 .. Len(Order) : Order[i] = t
<1>1. /\ \A i, j \in 1 .. Len(Order) : Order[i] = Order[j] => i = j
      /\ \A t \in Tasks : \E i \in 1 .. Len(Order) : Order[i] = t
      /\ \A i \in 1 .. Len(Order) : \A u \in Upstreams(Order[i]) :
           \E j \in 1 .. (i - 1) : Order[j] = u
  BY SchedulerAssumption DEF SchedulerAssumption, OrderAssumption
<1>2. \A i \in 1 .. Len(Order) : \A u \in Upstreams(Order[i]) :
        \E j \in 1 .. Len(Order) : j < i /\ Order[j] = u
  <2> SUFFICES ASSUME NEW i \in 1 .. Len(Order), NEW u \in Upstreams(Order[i])
               PROVE  \E j \in 1 .. Len(Order) : j < i /\ Order[j] = u
    OBVIOUS
  <2>1. PICK j \in 1 .. (i - 1) : Order[j] = u
    BY <1>1
  <2>2. j \in 1 .. Len(Order) /\ j < i
    BY OrderFacts
  <2>3. QED
    BY <2>1, <2>2
<1>3. \A t \in Tasks : t \notin Upstreams(t)
  <2> SUFFICES ASSUME NEW t \in Tasks, t \in Upstreams(t)
               PROVE  FALSE
    OBVIOUS
  <2>1. PICK i \in 1 .. Len(Order) : Order[i] = t
    BY <1>1
  <2>2. PICK j \in 1 .. Len(Order) : j < i /\ Order[j] = t
    BY <1>2, <2>1
  <2>3. QED
    BY <1>1, <2>1, <2>2
<1>4. QED
  BY <1>1, <1>2, <1>3

LEMMA KnownFacts ==
  ASSUME TypeOK, NEW t \in Tasks
  PROVE  /\ Known(t) \subseteq TaskState
         /\ FreshEdges(t) = {} => \A outcome : Reached(t, outcome) = Known(t)
         /\ Rule[t] \in TriggerRule
<1>1. \A e \in EdgesOf(t) : e[1] \in Tasks /\ e \in Edges
  BY EdgeFacts DEF EdgesOf
<1>2. \A e \in EdgesOf(t) : KnownState(e) \in TaskState
  BY <1>1 DEF KnownState, TypeOK, Terminal, TaskState
<1>3. ASSUME FreshEdges(t) = {}, NEW outcome
      PROVE  Reached(t, outcome) = Known(t)
  <2>1. \A e \in EdgesOf(t) : Effective(e, outcome) = KnownState(e)
    BY <1>3 DEF FreshEdges, Effective, KnownState
  <2>2. QED
    BY <2>1 DEF Reached, Known
<1>4. Rule[t] \in TriggerRule
  BY SchedulerAssumption DEF SchedulerAssumption, WorkflowAssumption
<1>5. QED
  BY <1>2, <1>3, <1>4 DEF Known

\* Nothing is left to decide about a task
Quiet(t) ==
  /\ FreshEdges(t) = {}
  /\ EvaluateTriggerRule(Rule[t], Known(t)) = "WAIT"

\* What a decision reads is unchanged while the upstreams and their conditions are
LEMMA KnownFrame ==
  ASSUME NEW t \in Tasks,
         \A e \in EdgesOf(t) : states'[e[1]] = states[e[1]]
                               /\ conditions'[e] = conditions[e]
  PROVE  /\ Known(t)' = Known(t)
         /\ FreshEdges(t)' = FreshEdges(t)
         /\ Quiet(t) => Quiet(t)'
<1>1. EdgesOf(t)' = EdgesOf(t)
  BY DEF EdgesOf, Upstreams
<1>2. \A e \in EdgesOf(t) : KnownState(e)' = KnownState(e) /\ Evaluates(e)' = Evaluates(e)
  BY DEF KnownState, Evaluates
<1>3. Known(t)' = Known(t)
  BY <1>1, <1>2 DEF Known
<1>4. FreshEdges(t)' = FreshEdges(t)
  BY <1>1, <1>2 DEF FreshEdges
<1>5. QED
  BY <1>3, <1>4 DEF Quiet

-------------------------------------------------------------------------------
(* What a decision leaves behind.                                            *)

\* Afterwards the condition cache says of the edges into t exactly what the
\* decision was taken on, and of every other edge what it said before.
LEMMA DecideEffect ==
  ASSUME TypeOK, NEW t \in Tasks, states[t] = "PENDING",
         NEW outcome \in [FreshEdges(t) -> {"SUCCEEDED", "SKIPPED", "UPSTREAM_FAILED"}],
         Decide(t, outcome)
  PROVE  /\ Known(t)' = Reached(t, outcome)
         /\ FreshEdges(t)' = {}
         /\ \A u \in Tasks \ {t} : states'[u] = states[u]
         /\ \A u \in Tasks \ {t} : \A e \in EdgesOf(u) : conditions'[e] = conditions[e]
         /\ \/ /\ EvaluateTriggerRule(Rule[t], Reached(t, outcome)) = "WAIT"
               /\ states' = states /\ changed' = changed
            \/ /\ EvaluateTriggerRule(Rule[t], Reached(t, outcome)) = "RUN"
               /\ states'[t] = "READY" /\ changed' = TRUE
            \/ /\ EvaluateTriggerRule(Rule[t], Reached(t, outcome)) = "SKIP"
               /\ states'[t] \in {"SKIPPED", "UPSTREAM_FAILED"} /\ changed' = TRUE
<1> DEFINE verdict == Verdict(Rule[t], Reached(t, outcome))
<1>1. \A e \in EdgesOf(t) : /\ e \in Edges /\ e[1] \in Tasks /\ e[1] # t
                            /\ conditions[e] \in Terminal \cup {Unknown}
  BY EdgeFacts, UpstreamsComeFirst DEF EdgesOf, TypeOK
<1>2. \/ verdict = "WAIT" /\ states' = states /\ changed' = changed
      \/ /\ verdict \in {"RUN", "SKIP", "UPSTREAM_FAILED"}
         /\ states' = [states EXCEPT ![t] = VerdictState(verdict)] /\ changed' = TRUE
  BY VerdictFacts DEF Decide
<1>3. \A u \in Tasks \ {t} : states'[u] = states[u]
  BY <1>2 DEF TypeOK
<1>4. \A e \in Edges : conditions'[e] =
        IF e \in EdgesOf(t) /\ states[e[1]] \in Terminal
        THEN Effective(e, outcome) ELSE conditions[e]
  BY DEF Decide, EvaluateEdges
<1>5. ASSUME NEW e \in EdgesOf(t)
      PROVE  KnownState(e)' = Effective(e, outcome) /\ ~ Evaluates(e)'
  <2>1. states'[e[1]] = states[e[1]]
    BY <1>1, <1>3
  <2>2. CASE states[e[1]] \in Terminal
    <3>1. conditions'[e] = Effective(e, outcome)
      BY <1>1, <1>4, <2>2
    <3>2. Effective(e, outcome) \in Terminal
      <4>1. Evaluates(e) => outcome[e] \in Terminal
        BY DEF FreshEdges, Terminal
      <4>2. QED
        BY <1>1, <2>2, <4>1 DEF Effective
    <3>3. Effective(e, outcome) # Unknown
      BY <3>2, ConstantFacts DEF Terminal, TaskState
    <3>4. QED
      BY <3>1, <3>3 DEF KnownState, Evaluates
  <2>3. CASE states[e[1]] \notin Terminal
    <3>1. conditions'[e] = conditions[e]
      BY <1>1, <1>4, <2>3
    <3>2. ~ Evaluates(e) /\ ~ Evaluates(e)'
      BY <2>1, <2>3 DEF Evaluates, Terminal
    <3>3. QED
      BY <2>1, <3>1, <3>2 DEF KnownState, Effective
  <2>4. QED
    BY <2>2, <2>3
<1>6. EdgesOf(t)' = EdgesOf(t)
  BY DEF EdgesOf, Upstreams
<1>7. Known(t)' = Reached(t, outcome) /\ FreshEdges(t)' = {}
  BY <1>5, <1>6 DEF Known, Reached, FreshEdges
<1>8. \A u \in Tasks \ {t} : \A e \in EdgesOf(u) : conditions'[e] = conditions[e]
  <2> SUFFICES ASSUME NEW u \in Tasks \ {t}, NEW e \in EdgesOf(u)
               PROVE  conditions'[e] = conditions[e]
    OBVIOUS
  <2>1. e \in Edges /\ e \notin EdgesOf(t)
    BY EdgeFacts DEF EdgesOf
  <2>2. QED
    BY <1>4, <2>1
<1>9. states[t] \in TaskState /\ states \in [Tasks -> TaskState]
  BY DEF TypeOK
<1>10. \/ /\ EvaluateTriggerRule(Rule[t], Reached(t, outcome)) = "WAIT"
          /\ states' = states /\ changed' = changed
       \/ /\ EvaluateTriggerRule(Rule[t], Reached(t, outcome)) = "RUN"
          /\ states'[t] = "READY" /\ changed' = TRUE
       \/ /\ EvaluateTriggerRule(Rule[t], Reached(t, outcome)) = "SKIP"
          /\ states'[t] \in {"SKIPPED", "UPSTREAM_FAILED"} /\ changed' = TRUE
  <2>1. CASE verdict = "WAIT" /\ states' = states /\ changed' = changed
    BY <2>1 DEF Verdict
  <2>2. CASE /\ verdict \in {"RUN", "SKIP", "UPSTREAM_FAILED"}
             /\ states' = [states EXCEPT ![t] = VerdictState(verdict)] /\ changed' = TRUE
    <3>1. states'[t] = VerdictState(verdict)
      BY <1>9, <2>2
    <3>2. QED
      BY <2>2, <3>1 DEF Verdict, VerdictState, EvaluateTriggerRule
  <2>3. QED
    BY <1>2, <2>1, <2>2
<1>11. QED
  BY <1>3, <1>7, <1>8, <1>10

LEMMA DecidePendingEffect ==
  ASSUME IInv, DecidePending, NEW o, o = Order[cursor]
  PROVE  /\ cursor \in 1 .. Len(Order) /\ cursor' = cursor + 1
         /\ o \in Tasks /\ states[o] = "PENDING"
         /\ FreshEdges(o)' = {}
         /\ FreshEdges(o) = {} => Known(o)' = Known(o)
         /\ \A u \in Tasks \ {o} : states'[u] = states[u]
         /\ \A u \in Tasks \ {o} : \A e \in EdgesOf(u) : conditions'[e] = conditions[e]
         /\ \/ /\ EvaluateTriggerRule(Rule[o], Known(o)') = "WAIT"
               /\ states' = states /\ changed' = changed
            \/ /\ EvaluateTriggerRule(Rule[o], Known(o)') = "RUN"
               /\ states'[o] = "READY" /\ changed' = TRUE
            \/ /\ EvaluateTriggerRule(Rule[o], Known(o)') = "SKIP"
               /\ states'[o] \in {"SKIPPED", "UPSTREAM_FAILED"} /\ changed' = TRUE
<1>0. TypeOK
  BY DEF IInv
<1>1. cursor \in 1 .. Len(Order) /\ o \in Tasks /\ states[o] = "PENDING"
  BY <1>0, OrderFacts DEF DecidePending, IInv, Control, TypeOK
<1>2. PICK outcome \in [FreshEdges(o) -> {"SUCCEEDED", "SKIPPED", "UPSTREAM_FAILED"}] :
        Decide(o, outcome)
  BY DEF DecidePending
<1>3. cursor' = cursor + 1
  BY <1>2 DEF Decide
<1>4. FreshEdges(o) = {} => Reached(o, outcome) = Known(o)
  BY <1>0, <1>1, KnownFacts
<1>5. QED
  BY <1>0, <1>1, <1>2, <1>3, <1>4, DecideEffect

\* Only a decision touches the condition cache
LEMMA ConditionStep ==
  ASSUME [Next]_vars
  PROVE  DecidePending \/ UNCHANGED conditions
<1>1. CASE Start \/ ExhaustIterations \/ PassOver \/ NextPass \/ EndResolve
  BY <1>1 DEF Start, ExhaustIterations, Raise, PassOver, NextPass, EndResolve, edgeVars
<1>2. CASE BeginAdmission \/ WaitForRetry \/ CannotWait \/ LeaveLoop
  BY <1>2 DEF BeginAdmission, WaitForRetry, CannotWait, Raise, LeaveLoop, edgeVars
<1>3. CASE \E t \in Tasks : AdmitTask(t) \/ BlockTask(t)
  BY <1>3 DEF AdmitTask, BlockTask, edgeVars
<1>4. CASE Announce \/ EndWave \/ ReleaseTask \/ EndDispatch
  BY <1>4 DEF Announce, EndWave, ReleaseTask, EndDispatch, edgeVars
<1>5. CASE Finish \/ CancelFromOutside \/ UNCHANGED vars
  BY <1>5 DEF Finish, CancelFromOutside, vars, edgeVars
<1>6. CASE CancelRemaining \/ ReleaseDueRetries \/ StartTask
  BY <1>6 DEF CancelRemaining, ReleaseDueRetries, StartTask, edgeVars
<1>7. CASE CompleteTask
  BY <1>7 DEF CompleteTask, SucceedTask, RetryTask, FailTask, EndAttempt, edgeVars
<1>8. QED
  BY <1>1, <1>2, <1>3, <1>4, <1>5, <1>6, <1>7 DEF Next, Step, Rest

\* No step but the decision about t itself touches the cache of its edges, and
\* what is known of an edge is final once it is terminal.
LEMMA KnownGrows ==
  ASSUME IInv, [Next]_vars, NEW t \in Tasks,
         ~ (DecidePending /\ t = Order[cursor])
  PROVE  /\ \A e \in EdgesOf(t) : conditions'[e] = conditions[e]
         /\ EvaluateTriggerRule(Rule[t], Known(t)) # "WAIT" =>
              EvaluateTriggerRule(Rule[t], Known(t)') =
                EvaluateTriggerRule(Rule[t], Known(t))
<1>1. \A e \in EdgesOf(t) : e[1] \in Tasks /\ e \in Edges
  BY EdgeFacts DEF EdgesOf
<1>2. \A e \in EdgesOf(t) : conditions'[e] = conditions[e]
  BY <1>1, ConditionStep, DecidePendingEffect
<1>3. \A e \in EdgesOf(t) : KnownState(e) \in Terminal => KnownState(e)' = KnownState(e)
  BY <1>1, <1>2, TerminalIsFinal DEF KnownState
<1>4. EdgesOf(t)' = EdgesOf(t)
  BY DEF EdgesOf, Upstreams
<1>5. /\ Known(t) \cap Terminal \subseteq Known(t)'
      /\ Known(t) \subseteq Terminal => Known(t)' = Known(t)
      /\ Known(t) = {} <=> Known(t)' = {}
  BY <1>3, <1>4 DEF Known
<1>6. Known(t) \in SUBSET TaskState /\ Known(t)' \in SUBSET TaskState
  <2>1. TypeOK /\ TypeOK'
    BY TypeNext DEF IInv
  <2>2. Known(t)' \subseteq TaskState
    <3>1. \A e \in EdgesOf(t) : KnownState(e)' \in TaskState
      BY <1>1, <2>1 DEF KnownState, TypeOK, Terminal, TaskState
    <3>2. QED
      BY <1>4, <3>1 DEF Known
  <2>3. QED
    BY <2>1, <2>2, KnownFacts
<1>7. Rule[t] \in TriggerRule
  BY SchedulerAssumption DEF SchedulerAssumption, WorkflowAssumption
<1> DEFINE now == Known(t)
           end == Known(t)'
<1>8. EvaluateTriggerRule(Rule[t], now) # "WAIT" =>
        EvaluateTriggerRule(Rule[t], end) = EvaluateTriggerRule(Rule[t], now)
  <2> HIDE DEF now, end
  <2>1. /\ now \in SUBSET TaskState /\ end \in SUBSET TaskState
        /\ now \cap Terminal \subseteq end
        /\ now \subseteq Terminal => end = now
        /\ now = {} => end = {}
        /\ end = {} => now = {}
    BY <1>5, <1>6 DEF now, end
  <2>2. QED
    BY <1>7, <2>1, AnswersAreMonotone
<1>9. QED
  BY <1>2, <1>8

-------------------------------------------------------------------------------
(* Decisions stand.                                                          *)

LEMMA DecisionsNext ==
  ASSUME IInv, DecisionsStand, [Next]_vars
  PROVE  DecisionsStand'
<1> SUFFICES ASSUME NEW t \in Tasks
             PROVE  /\ states'[t] \in Started =>
                         EvaluateTriggerRule(Rule[t], Known(t)') = "RUN"
                    /\ states'[t] \in {"SKIPPED", "UPSTREAM_FAILED"} =>
                         EvaluateTriggerRule(Rule[t], Known(t)') = "SKIP"
  BY DEF DecisionsStand, Started
<1>1. CASE DecidePending /\ t = Order[cursor]
  <2>1. states[t] = "PENDING"
    BY <1>1, DecidePendingEffect
  <2>2. QED
    BY <1>1, <2>1, DecidePendingEffect DEF Started
<1>2. CASE ~ (DecidePending /\ t = Order[cursor])
  <2>1. CASE states'[t] \in Started
    <3>1. states[t] \in Started
      BY <1>2, <2>1, MovesAreLegal DEF Started
    <3>2. EvaluateTriggerRule(Rule[t], Known(t)) = "RUN"
      BY <3>1 DEF DecisionsStand, Started
    <3>3. QED
      BY <1>2, <2>1, <3>2, KnownGrows DEF Started
  <2>2. CASE states'[t] \in {"SKIPPED", "UPSTREAM_FAILED"}
    <3>1. states[t] = states'[t]
      BY <1>2, <2>2, MovesAreLegal DEF Started
    <3>2. EvaluateTriggerRule(Rule[t], Known(t)) = "SKIP"
      BY <2>2, <3>1 DEF DecisionsStand
    <3>3. QED
      BY <1>2, <2>2, <3>2, KnownGrows DEF Started
  <2>3. QED
    BY <2>1, <2>2
<1>3. QED
  BY <1>1, <1>2

\* A decision decide_task has taken on the states of one moment is the decision it
\* would take at every later moment of the run, whatever the upstreams it did not
\* wait for have done since and whatever their conditions have evaluated to.
THEOREM DecisionsCorrect == Spec => []DecisionsStand
<1>1. Init => DecisionsStand
  BY DEF Init, DecisionsStand
<1>2. IInv /\ DecisionsStand /\ [Next]_vars => DecisionsStand'
  BY DecisionsNext
<1>3. QED
  BY <1>1, <1>2, Invariant, PTL DEF Spec

-------------------------------------------------------------------------------
(* _resolve_pending reaches a fixpoint, and nobody is left behind.           *)

AllQuiet == \A t \in InState("PENDING") : Quiet(t)

\* One pass in topological order is enough: what it has gone past stays quiet
Settling ==
  /\ pc = "resolve" =>
       /\ \A i \in 1 .. Len(Order) :
            i < cursor /\ states[Order[i]] = "PENDING" => Quiet(Order[i])
       /\ pass \in {1, 2}
       /\ pass = 2 => ~ changed /\ AllQuiet
  /\ pc # "resolve" => pass = 0
  /\ pc = "select" => AllQuiet
  /\ pc \in {"finish", "done"} => \A t \in Tasks : states[t] \in Terminal
  /\ pc = "created" => runState = "PENDING"
  /\ pc \notin {"created", "done"} => runState = "RUNNING"

\* When nothing is ready, running or waiting for a retry and every pending task is
\* quiet, there is no pending task: the first in Order would have all its upstreams
\* done, and no rule waits for that.
LEMMA NobodyWaitsForNothing ==
  ASSUME IInv, pc = "select", AllQuiet, InState("READY") = {}, WaitingForRetry = {}
  PROVE  \A t \in Tasks : states[t] \in Terminal
<1>0. TypeOK
  BY DEF IInv
<1>1. \A t \in Tasks : states[t] # "PENDING" => states[t] \in Terminal
  <2>1. InState("RUNNING") = {}
    BY NothingRuns DEF IInv, Control
  <2>2. QED
    BY <1>0, <2>1 DEF InState, WaitingForRetry, TypeOK, TaskState, Terminal
<1>2. InState("PENDING") = {}
  <2> SUFFICES ASSUME InState("PENDING") # {} PROVE FALSE
    OBVIOUS
  <2> DEFINE Places == {i \in 1 .. Len(Order) : states[Order[i]] = "PENDING"}
  <2>1. Places \in SUBSET Nat /\ Places # {}
    BY UpstreamsComeFirst, OrderFacts DEF InState
  <2>2. PICK first \in Places : \A i \in Places : first <= i
    BY <2>1, LeastElement
  <2> DEFINE t == Order[first]
  <2>3. first \in 1 .. Len(Order) /\ t \in Tasks /\ t \in InState("PENDING")
    BY <2>2, OrderFacts DEF InState
  <2>4. ASSUME NEW u \in Upstreams(t) PROVE states[u] \in Terminal
    <3>1. PICK j \in 1 .. Len(Order) : j < first /\ Order[j] = u
      BY <2>3, <2>4, UpstreamsComeFirst
    <3>2. j \notin Places
      BY <2>2, <2>3, <3>1
    <3>3. u \in Tasks /\ states[u] # "PENDING"
      BY <3>1, <3>2, OrderFacts
    <3>4. QED
      BY <1>1, <3>3
  <2>5. \A e \in EdgesOf(t) : conditions[e] \in Terminal \cup {Unknown}
    BY <1>0, <2>3, EdgeFacts DEF TypeOK
  <2>6. Known(t) \subseteq Terminal
    BY <2>4, <2>5 DEF Known, KnownState, EdgesOf
  <2>7. EvaluateTriggerRule(Rule[t], Known(t)) = "WAIT"
    BY <2>3 DEF AllQuiet, Quiet
  <2>8. Known(t) \in SUBSET TaskState /\ Rule[t] \in TriggerRule
    BY <1>0, <2>3, KnownFacts
  <2> HIDE DEF t
  <2>9. QED
    BY <2>6, <2>7, <2>8, WaitingIsUndecided
<1>3. QED
  BY <1>1, <1>2 DEF InState

\* A step that leaves states and conditions alone leaves quiet tasks quiet
LEMMA QuietWhenUnchanged ==
  ASSUME UNCHANGED <<states, conditions>>, NEW t \in Tasks, Quiet(t)
  PROVE  Quiet(t)'
BY KnownFrame

\* A pass that has come to its end has left every pending task quiet
LEMMA PassIsEnough ==
  ASSUME IInv, Settling, pc = "resolve", cursor > Len(Order)
  PROVE  AllQuiet
<1> SUFFICES ASSUME NEW t \in InState("PENDING") PROVE Quiet(t)
  BY DEF AllQuiet
<1>1. t \in Tasks /\ states[t] = "PENDING"
  BY DEF InState
<1>2. PICK i \in 1 .. Len(Order) : Order[i] = t
  BY <1>1, UpstreamsComeFirst
<1>3. i < cursor
  BY OrderFacts DEF IInv, TypeOK
<1>4. QED
  BY <1>1, <1>2, <1>3 DEF Settling

\* A decision leaves quiet every task at or before its place in Order
LEMMA DecisionKeepsQuiet ==
  ASSUME IInv, Settling, DecidePending
  PROVE  /\ \A i \in 1 .. Len(Order) :
              i <= cursor /\ states'[Order[i]] = "PENDING" => Quiet(Order[i])'
         /\ pass = 2 => UNCHANGED <<states, changed>> /\ AllQuiet'
<1>0. PICK o : o = Order[cursor]
  OBVIOUS
<1>1. /\ cursor \in 1 .. Len(Order) /\ o \in Tasks /\ states[o] = "PENDING"
      /\ FreshEdges(o)' = {}
      /\ FreshEdges(o) = {} => Known(o)' = Known(o)
      /\ \A u \in Tasks \ {o} : states'[u] = states[u]
      /\ \A u \in Tasks \ {o} : \A e \in EdgesOf(u) : conditions'[e] = conditions[e]
      /\ \/ /\ EvaluateTriggerRule(Rule[o], Known(o)') = "WAIT"
            /\ states' = states /\ changed' = changed
         \/ /\ EvaluateTriggerRule(Rule[o], Known(o)') = "RUN"
            /\ states'[o] = "READY" /\ changed' = TRUE
         \/ /\ EvaluateTriggerRule(Rule[o], Known(o)') = "SKIP"
            /\ states'[o] \in {"SKIPPED", "UPSTREAM_FAILED"} /\ changed' = TRUE
  BY <1>0, DecidePendingEffect
<1>2. pc = "resolve"
  BY DEF DecidePending
<1>3. states'[o] = "PENDING" => Quiet(o)' /\ states' = states /\ changed' = changed
  BY <1>1 DEF Quiet
<1>4. ASSUME NEW i \in 1 .. Len(Order), i <= cursor, states'[Order[i]] = "PENDING"
      PROVE  Quiet(Order[i])'
  <2>1. CASE i = cursor
    BY <1>0, <1>3, <1>4, <2>1
  <2>2. CASE i # cursor
    <3> DEFINE t == Order[i]
    <3>1. i < cursor /\ t \in Tasks /\ t # o
      BY <1>0, <1>1, <1>4, <2>2, OrderFacts, UpstreamsComeFirst DEF IInv, TypeOK
    <3>2. states[t] = "PENDING"
      BY <1>1, <1>4, <3>1
    <3>3. Quiet(t)
      BY <1>2, <3>1, <3>2 DEF Settling
    <3>4. \A u \in Upstreams(t) : u \in Tasks /\ u # o
      <4> SUFFICES ASSUME NEW u \in Upstreams(t) PROVE u \in Tasks /\ u # o
        OBVIOUS
      <4>1. PICK j \in 1 .. Len(Order) : j < i /\ Order[j] = u
        BY UpstreamsComeFirst
      <4>2. j # cursor
        BY <3>1, <4>1, <1>1
      <4>3. QED
        BY <1>0, <1>1, <4>1, <4>2, OrderFacts, UpstreamsComeFirst
    <3>5. \A e \in EdgesOf(t) : states'[e[1]] = states[e[1]]
                                /\ conditions'[e] = conditions[e]
      BY <1>1, <3>1, <3>4 DEF EdgesOf
    <3>6. QED
      BY <3>1, <3>3, <3>5, KnownFrame
  <2>3. QED
    BY <2>1, <2>2
<1>5. ASSUME pass = 2 PROVE UNCHANGED <<states, changed>> /\ AllQuiet'
  <2>1. AllQuiet
    BY <1>2, <1>5 DEF Settling
  <2>2. Quiet(o)
    BY <1>1, <2>1 DEF AllQuiet, InState
  <2>3. EvaluateTriggerRule(Rule[o], Known(o)') = "WAIT"
    BY <1>1, <2>2 DEF Quiet
  <2>4. UNCHANGED <<states, changed>> /\ Quiet(o)'
    BY <1>1, <2>3 DEF Quiet
  <2>5. ASSUME NEW t \in Tasks, states'[t] = "PENDING" PROVE Quiet(t)'
    <3>1. CASE t = o
      BY <2>4, <3>1
    <3>2. CASE t # o
      <4>1. Quiet(t)
        BY <2>1, <2>4, <2>5 DEF AllQuiet, InState
      <4>2. \A e \in EdgesOf(t) : states'[e[1]] = states[e[1]]
                                  /\ conditions'[e] = conditions[e]
        BY <1>1, <2>4, <3>2
      <4>3. QED
        BY <4>1, <4>2, KnownFrame
    <3>3. QED
      BY <3>1, <3>2
  <2>6. QED
    BY <2>4, <2>5 DEF AllQuiet, InState
<1>6. QED
  BY <1>4, <1>5

LEMMA AllQuietWhenUnchanged ==
  ASSUME UNCHANGED <<states, conditions>>, AllQuiet
  PROVE  AllQuiet'
<1> SUFFICES ASSUME NEW t \in Tasks, states'[t] = "PENDING" PROVE Quiet(t)'
  BY DEF AllQuiet, InState
<1>1. Quiet(t)
  BY DEF AllQuiet, InState
<1>2. QED
  BY <1>1, QuietWhenUnchanged

\* Steps after which Settling asks for nothing but the state of the run
LEMMA SettlingElsewhere ==
  ASSUME Settling,
         pc' \notin {"created", "resolve", "select", "finish", "done"},
         pc # "resolve", pc # "done", UNCHANGED pass,
         runState' = IF pc = "created" THEN "RUNNING" ELSE runState
  PROVE  Settling'
BY DEF Settling

LEMMA SettlingNext ==
  ASSUME IInv, Settling, [Next]_vars
  PROVE  Settling'
<1>0. TypeOK /\ cursor \in Nat /\ Len(Order) \in Nat
  BY OrderFacts DEF IInv, TypeOK
<1>1. CASE UNCHANGED <<pc, states, conditions, cursor, pass, changed, runState>>
  <2>1. \A t \in Tasks : Quiet(t) => Quiet(t)'
    BY <1>1, QuietWhenUnchanged
  <2>2. \A i \in 1 .. Len(Order) : Order[i] \in Tasks
    BY OrderFacts
  <2>3. AllQuiet => AllQuiet'
    BY <1>1, AllQuietWhenUnchanged
  <2>4. QED
    BY <1>1, <2>1, <2>2, <2>3 DEF Settling
<1>2. CASE Start \/ ExhaustIterations \/ WaitForRetry \/ CannotWait \/ BeginAdmission
  <2>1. /\ pc' \in {"loop", "raised", "admit"} /\ pc \in {"created", "loop", "select"}
        /\ UNCHANGED pass
        /\ runState' = IF pc = "created" THEN "RUNNING" ELSE runState
    BY <1>2 DEF Start, ExhaustIterations, Raise, WaitForRetry, CannotWait,
       BeginAdmission, sweepVars
  <2>2. QED
    BY <2>1, SettlingElsewhere
<1>3. CASE Announce \/ StartTask \/ CompleteTask \/ EndWave \/ EndDispatch
  <2>1. /\ pc' \in {"loop", "raised", "wave", "body", "release"}
        /\ pc \in {"admit", "wave", "body", "release"}
        /\ UNCHANGED <<pass, runState>>
    BY <1>3 DEF Announce, StartTask, CompleteTask, SucceedTask, RetryTask, FailTask,
       EndAttempt, EndWave, EndDispatch, sweepVars
  <2>2. QED
    BY <2>1, SettlingElsewhere
<1>4. CASE ReleaseTask \/ \E t \in Tasks : AdmitTask(t) \/ BlockTask(t)
  <2>1. pc' \in {"admit", "release"} /\ pc' = pc /\ UNCHANGED <<pass, runState>>
    BY <1>4 DEF ReleaseTask, AdmitTask, BlockTask, sweepVars
  <2>2. QED
    BY <2>1, SettlingElsewhere
<1>5. CASE CancelRemaining
  <2>1. /\ pc = "loop" /\ pc' = "finish" /\ UNCHANGED <<pass, runState>>
        /\ \A t \in Tasks : states'[t] = IF t \in Live THEN "CANCELLED" ELSE states[t]
    BY <1>5 DEF CancelRemaining, sweepVars
  <2>2. \A t \in Tasks : states'[t] \in Terminal
    BY <2>1 DEF Live, Terminal
  <2>3. QED
    BY <2>1, <2>2 DEF Settling
<1>6. CASE ReleaseDueRetries
  <2>1. pc = "loop" /\ pc' = "resolve" /\ cursor' = 1 /\ pass' = 1 /\ UNCHANGED runState
    BY <1>6 DEF ReleaseDueRetries
  <2>2. QED
    BY <2>1 DEF Settling
<1>7. CASE PassOver
  <2>1. /\ pc = "resolve" /\ pc' = "resolve" /\ cursor' = cursor + 1
        /\ states[Order[cursor]] # "PENDING"
        /\ UNCHANGED <<states, conditions, pass, changed, runState>>
    BY <1>7 DEF PassOver, taskVars, edgeVars, sweepVars
  <2>2. ASSUME NEW i \in 1 .. Len(Order), i < cursor', states'[Order[i]] = "PENDING"
        PROVE  Quiet(Order[i])'
    <3>1. i < cursor
      BY <1>0, <2>1, <2>2
    <3>2. Order[i] \in Tasks /\ Quiet(Order[i])
      BY <2>1, <2>2, <3>1, OrderFacts DEF Settling
    <3>3. QED
      BY <2>1, <3>2, QuietWhenUnchanged
  <2>3. AllQuiet => AllQuiet'
    BY <2>1, AllQuietWhenUnchanged
  <2>4. QED
    BY <2>1, <2>2, <2>3 DEF Settling
<1>8. CASE DecidePending
  <2>1. /\ pc = "resolve" /\ pc' = "resolve" /\ cursor' = cursor + 1
        /\ UNCHANGED <<pass, runState>>
    BY <1>8 DEF DecidePending, Decide
  <2>2. ASSUME NEW i \in 1 .. Len(Order), i < cursor', states'[Order[i]] = "PENDING"
        PROVE  Quiet(Order[i])'
    <3>1. i <= cursor
      BY <1>0, <2>1, <2>2
    <3>2. QED
      BY <1>8, <2>2, <3>1, DecisionKeepsQuiet
  <2>3. pass = 2 => ~ changed' /\ AllQuiet'
    BY <1>8, <2>1, DecisionKeepsQuiet DEF Settling
  <2>4. QED
    BY <2>1, <2>2, <2>3 DEF Settling
<1>9. CASE NextPass
  <2>1. /\ pc = "resolve" /\ pc' = "resolve" /\ cursor' = 1 /\ pass' = pass + 1
        /\ changed /\ ~ changed' /\ cursor > Len(Order)
        /\ UNCHANGED <<states, conditions, runState>>
    BY <1>9 DEF NextPass, Settled, taskVars, edgeVars
  <2>2. pass = 1
    BY <2>1 DEF Settling
  <2>3. AllQuiet'
    BY <2>1, PassIsEnough, AllQuietWhenUnchanged
  <2>4. QED
    BY <2>1, <2>2, <2>3 DEF Settling
<1>10. CASE EndResolve
  <2>1. /\ pc = "resolve" /\ pc' = "select" /\ pass' = 0 /\ cursor > Len(Order)
        /\ UNCHANGED <<states, conditions, runState>>
    BY <1>10 DEF EndResolve, taskVars, edgeVars
  <2>2. AllQuiet'
    BY <2>1, PassIsEnough, AllQuietWhenUnchanged
  <2>3. QED
    BY <2>1, <2>2 DEF Settling
<1>11. CASE LeaveLoop
  <2>1. /\ pc = "select" /\ pc' = "finish"
        /\ InState("READY") = {} /\ WaitingForRetry = {}
        /\ UNCHANGED <<states, pass, runState>>
    BY <1>11 DEF LeaveLoop, taskVars, sweepVars
  <2>2. \A t \in Tasks : states'[t] \in Terminal
    BY <2>1, NobodyWaitsForNothing DEF Settling
  <2>3. QED
    BY <2>1, <2>2 DEF Settling
<1>12. CASE Finish
  <2>1. pc = "finish" /\ pc' = "done" /\ UNCHANGED <<states, pass>>
    BY <1>12 DEF Finish, taskVars, sweepVars
  <2>2. QED
    BY <2>1 DEF Settling
<1>13. CASE CancelFromOutside \/ UNCHANGED vars
  BY <1>1, <1>13 DEF CancelFromOutside, vars, taskVars, edgeVars, sweepVars
<1>14. QED
  BY <1>2, <1>3, <1>4, <1>5, <1>6, <1>7, <1>8, <1>9, <1>10, <1>11, <1>12, <1>13
     DEF Next, Step, Rest

\* The invariant behind the next four theorems: in every reachable state the
\* part of Order a pass of _resolve_pending has already walked is quiet.
THEOREM SettlingInvariant == Spec => []Settling
<1>1. Init => Settling
  BY DEF Init, Settling
<1>2. IInv /\ Settling /\ [Next]_vars => Settling'
  BY SettlingNext
<1>3. QED
  BY <1>1, <1>2, Invariant, PTL DEF Spec

\* However the loop is left, every task is finished: none is left pending, ready or
\* waiting for a retry with nobody to wake it.
THEOREM NothingStrandedEver == Spec => []NothingStranded
<1>1. Settling => NothingStranded
  BY DEF Settling, NothingStranded
<1>2. QED
  BY <1>1, SettlingInvariant, PTL

\* When _resolve_pending returns there is nothing it could still decide, for every
\* workflow and whatever its range(len + 1) bound is.
THEOREM ResolveCorrect == Spec => []ResolveSettles
<1>1. IInv /\ Settling => ResolveSettles
  <2> SUFFICES ASSUME IInv, Settling, pc = "select", NEW t \in InState("PENDING")
               PROVE  /\ FreshEdges(t) = {}
                      /\ EvaluateTriggerRule(Rule[t], Reached(t, <<>>)) = "WAIT"
    BY DEF ResolveSettles
  <2>1. Quiet(t) /\ t \in Tasks
    BY DEF Settling, AllQuiet, InState
  <2>2. Reached(t, <<>>) = Known(t)
    BY <2>1, KnownFacts DEF Quiet, IInv
  <2>3. QED
    BY <2>1, <2>2 DEF Quiet
<1>2. QED
  BY <1>1, Invariant, SettlingInvariant, PTL

\* The second pass over a topological order never changes anything, so there is
\* never a third.
THEOREM TwoPassesCorrect == Spec => []TwoPassesSuffice
<1>1. Settling => TwoPassesSuffice
  BY DEF Settling, TwoPassesSuffice
<1>2. QED
  BY <1>1, SettlingInvariant, PTL

-------------------------------------------------------------------------------
(* The refinement.                                                           *)

\* Scheduler implements RunPromise: no task and no run ever makes a move that its
\* transition table forbids, so no StateTransitionError is ever raised, and the run
\* is concluded once, over finished tasks, with the state they account for.
THEOREM PromiseKept == Spec => KeepsPromise
<1>1. Init => Promise!Init
  BY DEF Init, Promise!Init
<1>2. IInv /\ IInv' /\ Settling /\ [Next]_vars => [Promise!Next]_Promise!promiseVars
  <2> SUFFICES ASSUME IInv, IInv', Settling, [Next]_vars
               PROVE  [Promise!Next]_Promise!promiseVars
    OBVIOUS
  <2>1. CASE Start
    <3>1. runState = "PENDING" /\ runState' = "RUNNING" /\ states' = states
      BY <2>1 DEF Start, Settling, taskVars
    <3>2. QED
      BY <3>1 DEF Promise!Next, Promise!Begin
  <2>2. CASE Finish
    <3>1. /\ runState = "RUNNING" /\ runState' = FinalRunState /\ states' = states
          /\ \A t \in Tasks : states[t] \in Terminal
      BY <2>2 DEF Finish, Settling, taskVars
    <3>2. FinalRunState = Promise!Outcome
      BY DEF FinalRunState, Promise!Outcome, DeriveRunState, Promise!DeriveRunState,
         Terminal, Promise!Terminal
    <3>3. QED
      BY <3>1, <3>2 DEF Promise!Next, Promise!Conclude, Terminal, Promise!Terminal
  <2>3. CASE UNCHANGED <<states, runState>>
    BY <2>3 DEF Promise!promiseVars
  <2>4. CASE ~ UNCHANGED states /\ ~ Start /\ ~ Finish
    <3>1. CancelRemaining \/ ReleaseDueRetries \/ DecidePending \/ StartTask \/ CompleteTask
      BY <2>4, TaskStep DEF taskVars
    <3>2. runState = "RUNNING" /\ runState' = runState
      BY <3>1 DEF CancelRemaining, ReleaseDueRetries, DecidePending, Decide, StartTask,
         CompleteTask, SucceedTask, RetryTask, FailTask, EndAttempt, Settling
    <3>3. states' \in [Tasks -> TaskState]
      BY DEF IInv, TypeOK
    <3>4. \A t \in Tasks : LegalTaskMove(states[t], states'[t])
      BY MovesAreLegal
    <3>5. QED
      BY <3>2, <3>3, <3>4 DEF Promise!Next, Promise!Advance, LegalTaskMove, TaskMove,
         Promise!LegalTaskMove, Promise!TaskMove, TaskState, Promise!TaskState
  <2>5. UNCHANGED states /\ ~ Start /\ ~ Finish => UNCHANGED runState
    BY DEF Next, Step, Rest, vars, ExhaustIterations, Raise, CancelRemaining,
       ReleaseDueRetries, PassOver, DecidePending, Decide, NextPass, EndResolve,
       BeginAdmission, WaitForRetry, CannotWait, LeaveLoop, AdmitTask, BlockTask,
       Announce, StartTask, CompleteTask, SucceedTask, RetryTask, FailTask,
       EndAttempt, EndWave, ReleaseTask, EndDispatch, CancelFromOutside
  <2>6. QED
    BY <2>1, <2>2, <2>3, <2>4, <2>5
<1>3. QED
  BY <1>1, <1>2, Invariant, SettlingInvariant, PTL DEF Spec, KeepsPromise, Promise!Spec

-------------------------------------------------------------------------------
(* Admission.                                                                *)

\* From the first task admit() looks at to the first one that is started
Choosing == pc = "admit" \/ (pc = "wave" /\ cursor = 1)

StillBlocked(t) == Len(admitted) = Limit \/ ~ Ledger!Fits(Request[t])

Greedy ==
  Choosing =>
    /\ Len(admitted) <= Limit
    /\ \A i \in 1 .. Len(blocked) : StillBlocked(blocked[i])

LEMMA LimitFacts == Limit \in Nat \ {0}
<1>1. MaxParallelism \in Nat /\ MaxInFlight \in Int
  BY SchedulerAssumption DEF SchedulerAssumption, WorkflowAssumption
<1>2. QED
  BY <1>1 DEF Limit

\* Who does not fit does not fit beside one more either
LEMMA AcquireFillsPools ==
  ASSUME TypeOK, NEW t \in Tasks, Ledger!Acquire(t, Request[t]),
         NEW u \in Tasks, ~ Ledger!Fits(Request[u])
  PROVE  ~ Ledger!Fits(Request[u])'
<1>1. PICK p \in Pools : ~ (Request[u][p] <= Capacity[p] - used[p])
  BY DEF Ledger!Fits
<1>2. /\ Request[t][p] \in Nat /\ Request[u][p] \in Nat
      /\ Capacity[p] \in Nat /\ used[p] \in Int
  BY ConstantFacts, SchedulerAssumption DEF SchedulerAssumption, RequestAssumption, TypeOK
<1>3. used'[p] = used[p] + Request[t][p]
  BY DEF Ledger!Acquire
<1>4. ~ (Request[u][p] <= Capacity[p] - used'[p])
  BY <1>1, <1>2, <1>3
<1>5. QED
  BY <1>4 DEF Ledger!Fits

\* Away from admission there is nothing to show
LEMMA GreedyElsewhere ==
  ASSUME pc' \notin {"admit", "wave"}
  PROVE  Greedy'
BY DEF Greedy, Choosing

\* What touches neither the wave nor the ledger keeps Greedy
LEMMA GreedyFrame ==
  ASSUME Greedy, Choosing, UNCHANGED <<waveVars, ledgerVars>>
  PROVE  Greedy'
BY DEF Greedy, StillBlocked, waveVars, ledgerVars, Ledger!Fits

LEMMA GreedyNext ==
  ASSUME IInv, Greedy, [Next]_vars
  PROVE  Greedy'
<1>0. TypeOK
  BY DEF IInv
<1>1. CASE Start \/ ExhaustIterations \/ CancelRemaining \/ ReleaseDueRetries
  BY <1>1, GreedyElsewhere DEF Start, ExhaustIterations, Raise, CancelRemaining,
     ReleaseDueRetries
<1>2. CASE PassOver \/ DecidePending \/ NextPass \/ EndResolve
  BY <1>2, GreedyElsewhere DEF PassOver, DecidePending, Decide, NextPass, EndResolve
<1>3. CASE WaitForRetry \/ CannotWait \/ LeaveLoop \/ Finish
  BY <1>3, GreedyElsewhere DEF WaitForRetry, CannotWait, Raise, LeaveLoop, Finish
<1>4. CASE BeginAdmission
  <2>1. admitted' = <<>> /\ blocked' = <<>>
    BY <1>4 DEF BeginAdmission
  <2>2. Len(admitted') = 0 /\ Len(blocked') = 0
    BY <2>1
  <2>3. QED
    BY <2>2, LimitFacts DEF Greedy
<1>5. CASE \E t \in Tasks : AdmitTask(t)
  <2>1. PICK t \in Tasks : AdmitTask(t)
    BY <1>5
  <2>2. /\ pc = "admit" /\ MayJoin(t) /\ Ledger!Acquire(t, Request[t])
        /\ admitted' = Append(admitted, t) /\ blocked' = blocked
    BY <2>1 DEF AdmitTask
  <2>3. Len(admitted) \in Nat /\ Len(admitted') = Len(admitted) + 1
    BY <1>0, <2>2 DEF TypeOK
  <2>4. Len(admitted) < Limit
    BY <2>2 DEF MayJoin
  <2>5. Len(admitted') <= Limit
    BY <2>3, <2>4, LimitFacts
  <2>6. ASSUME NEW i \in 1 .. Len(blocked)
        PROVE  ~ Ledger!Fits(Request[blocked[i]])'
    <3>1. blocked[i] \in Tasks
      BY <1>0 DEF TypeOK
    <3>2. StillBlocked(blocked[i])
      BY <2>2 DEF Greedy, Choosing
    <3>3. ~ Ledger!Fits(Request[blocked[i]])
      BY <2>3, <2>4, <3>2, LimitFacts DEF StillBlocked
    <3>4. ~ Ledger!Fits(Request[blocked[i]])' <=> ~ \A p \in Pools :
             Request[blocked[i]][p] <= Capacity[p] - used'[p]
      BY <2>2 DEF Ledger!Fits
    <3>5. \A u \in Tasks : ~ Ledger!Fits(Request[u]) =>
            ~ \A p \in Pools : Request[u][p] <= Capacity[p] - used'[p]
      BY <1>0, <2>2, AcquireFillsPools DEF Ledger!Fits
    <3>6. QED
      BY <3>1, <3>3, <3>4, <3>5
  <2>7. QED
    BY <2>2, <2>5, <2>6 DEF Greedy, StillBlocked
<1>6. CASE \E t \in Tasks : BlockTask(t)
  <2>1. PICK t \in Tasks : BlockTask(t)
    BY <1>6
  <2>2. /\ pc = "admit" /\ ~ MayJoin(t) /\ blocked' = Append(blocked, t)
        /\ admitted' = admitted /\ used' = used
    BY <2>1 DEF BlockTask, ledgerVars
  <2>3. Len(admitted) \in Nat /\ Len(admitted) <= Limit
    BY <1>0, <2>2 DEF TypeOK, Greedy, Choosing
  <2>4. StillBlocked(t)
    BY <2>2, <2>3, LimitFacts DEF MayJoin, StillBlocked
  <2>5. Len(blocked) \in Nat /\ Len(blocked') = Len(blocked) + 1
    BY <1>0, <2>2 DEF TypeOK
  <2>6. \A i \in 1 .. Len(blocked') :
          blocked'[i] = t \/ (i \in 1 .. Len(blocked) /\ blocked'[i] = blocked[i])
    <3>1. blocked \in Seq(Tasks)
      BY <1>0 DEF TypeOK
    <3>2. blocked' = Append(blocked, t)
      BY <2>2
    <3>3. QED
      BY <3>1, <3>2, <2>5
  <2>7. \A i \in 1 .. Len(blocked) : StillBlocked(blocked[i])
    BY <2>2 DEF Greedy, Choosing
  <2>8. \A i \in 1 .. Len(blocked') : StillBlocked(blocked'[i])
    BY <2>4, <2>6, <2>7
  <2>9. \A u : Len(admitted') = Limit \/ ~ (\A p \in Pools : Request[u][p] <= Capacity[p] - used'[p])
                 <=> StillBlocked(u)
    BY <2>2 DEF StillBlocked, Ledger!Fits
  <2>10. QED
    BY <2>2, <2>3, <2>8 DEF Greedy, StillBlocked, Ledger!Fits
<1>7. CASE Announce
  <2>1. pc = "admit" /\ UNCHANGED waveVars
    BY <1>7 DEF Announce
  <2>2. CASE admitted = <<>>
    BY <1>7, <2>2, GreedyElsewhere DEF Announce
  <2>3. CASE admitted # <<>>
    BY <1>7, <2>1, <2>3, GreedyFrame DEF Announce, Choosing
  <2>4. QED
    BY <2>2, <2>3
<1>8. CASE StartTask
  BY <1>8, GreedyElsewhere DEF StartTask
<1>9. CASE CompleteTask
  <2>1. pc = "body" /\ pc' = "wave" /\ cursor' = cursor + 1
    BY <1>9 DEF CompleteTask, SucceedTask, RetryTask, FailTask, EndAttempt
  <2>2. cursor \in Nat /\ cursor >= 1
    BY <1>0, <2>1 DEF IInv, Control, TypeOK
  <2>3. ~ Choosing'
    BY <2>1, <2>2 DEF Choosing
  <2>4. QED
    BY <2>3 DEF Greedy
<1>10. CASE EndWave \/ ReleaseTask \/ EndDispatch
  BY <1>10, GreedyElsewhere DEF EndWave, ReleaseTask, EndDispatch
<1>11. CASE CancelFromOutside \/ UNCHANGED vars
  <2>1. UNCHANGED <<pc, cursor, waveVars, ledgerVars>>
    BY <1>11 DEF CancelFromOutside, vars
  <2>2. CASE Choosing
    BY <2>1, <2>2, GreedyFrame
  <2>3. CASE ~ Choosing
    BY <2>1, <2>3 DEF Choosing, Greedy
  <2>4. QED
    BY <2>2, <2>3
<1>12. QED
  BY <1>1, <1>2, <1>3, <1>4, <1>5, <1>6, <1>7, <1>8, <1>9, <1>10, <1>11
     DEF Next, Step, Rest

\* When a wave starts, every task admit() left out would have gone over the limit
\* or over the capacity of some pool, beside all those it let in before or after.
THEOREM AdmissionCorrect == Spec => []AdmissionMaximal
<1>1. Init => Greedy
  BY DEF Init, Greedy, Choosing
<1>2. IInv /\ Greedy /\ [Next]_vars => Greedy'
  BY GreedyNext
<1>3. Greedy => AdmissionMaximal
  BY DEF Greedy, Choosing, StillBlocked, AdmissionMaximal
<1>4. QED
  BY <1>1, <1>2, <1>3, Invariant, PTL DEF Spec

-------------------------------------------------------------------------------
(* Where the loop raises.                                                    *)

\* Whoever is asked first joins the wave: with no slot taken every request fits, so
\* admit() never leaves everybody out
NeverEmptyHanded == pc = "admit" => considering # {} \/ admitted # <<>>

LEMMA FirstFits ==
  ASSUME IInv, SlotsConserved, pc = "admit", admitted = <<>>, NEW t \in Tasks
  PROVE  MayJoin(t)
<1>1. TypeOK /\ Ledger!HoldersNow = Admitted
  BY DEF IInv, Holding
<1>2. Admitted = {}
  BY DEF Admitted
<1>3. ASSUME NEW p \in Pools PROVE Request[t][p] <= Capacity[p] - used[p]
  <2>1. Ledger!Held(p) = 0
    BY <1>1, <1>2, HeldUnits
  <2>2. used[p] = 0
    BY <2>1 DEF SlotsConserved
  <2>3. Request[t][p] \in Nat /\ Capacity[p] \in Nat /\ Request[t][p] <= Capacity[p]
    BY ConstantFacts, SchedulerAssumption DEF SchedulerAssumption, RequestAssumption
  <2>4. QED
    BY <2>2, <2>3
<1>4. Len(admitted) < Limit
  BY LimitFacts
<1>5. QED
  BY <1>3, <1>4 DEF MayJoin, Ledger!Fits

\* Every step but those of admit() leaves admission alone
LEMMA NeverEmptyHandedNext ==
  ASSUME IInv, SlotsConserved, NeverEmptyHanded, [Next]_vars
  PROVE  NeverEmptyHanded'
<1>1. CASE Start \/ ExhaustIterations \/ CancelRemaining \/ ReleaseDueRetries
  BY <1>1 DEF Start, ExhaustIterations, Raise, CancelRemaining, ReleaseDueRetries,
     NeverEmptyHanded
<1>2. CASE PassOver \/ DecidePending \/ NextPass \/ EndResolve
  BY <1>2 DEF PassOver, DecidePending, Decide, NextPass, EndResolve, NeverEmptyHanded
<1>3. CASE WaitForRetry \/ CannotWait \/ LeaveLoop \/ Finish
  BY <1>3 DEF WaitForRetry, CannotWait, Raise, LeaveLoop, Finish, NeverEmptyHanded
<1>4. CASE BeginAdmission
  BY <1>4 DEF BeginAdmission, NeverEmptyHanded
<1>5. ASSUME NEW t \in Tasks, AdmitTask(t) PROVE NeverEmptyHanded'
  <2>1. admitted' = Append(admitted, t) /\ admitted \in Seq(Tasks)
    BY <1>5 DEF AdmitTask, IInv, TypeOK
  <2>2. Len(admitted') = Len(admitted) + 1 /\ Len(admitted) \in Nat
    BY <2>1
  <2>3. Len(admitted') # 0
    BY <2>2
  <2>4. admitted' # <<>>
    BY <2>3
  <2>5. QED
    BY <2>4 DEF NeverEmptyHanded
<1>6. ASSUME NEW t \in Tasks, BlockTask(t) PROVE NeverEmptyHanded'
  <2>1. pc = "admit" /\ ~ MayJoin(t) /\ admitted' = admitted
    BY <1>6 DEF BlockTask
  <2>2. admitted # <<>>
    BY <2>1, FirstFits
  <2>3. QED
    BY <2>1, <2>2 DEF NeverEmptyHanded
<1>7. CASE Announce \/ StartTask \/ CompleteTask \/ EndWave \/ ReleaseTask \/ EndDispatch
  BY <1>7 DEF Announce, StartTask, CompleteTask, SucceedTask, RetryTask, FailTask,
     EndAttempt, EndWave, ReleaseTask, EndDispatch, NeverEmptyHanded
<1>8. CASE CancelFromOutside \/ UNCHANGED vars
  BY <1>8 DEF CancelFromOutside, vars, waveVars, NeverEmptyHanded
<1>9. QED
  BY <1>1, <1>2, <1>3, <1>4, <1>5, <1>6, <1>7, <1>8 DEF Next, Step, Rest

\* A quiet task waits for somebody who is not done
LEMMA QuietWaitsForLive ==
  ASSUME TypeOK, NEW t \in Tasks, Quiet(t)
  PROVE  Upstreams(t) \cap Live # {}
<1>1. SUFFICES ASSUME Upstreams(t) \cap Live = {} PROVE FALSE
  OBVIOUS
<1>2. \A e \in EdgesOf(t) : /\ conditions[e] \in Terminal \cup {Unknown}
                            /\ e[1] \in Tasks /\ e[1] \in Upstreams(t)
  BY EdgeFacts DEF TypeOK, EdgesOf
<1>3. \A e \in EdgesOf(t) : states[e[1]] \in Terminal
  BY <1>1, <1>2 DEF Live
<1>4. Known(t) \subseteq Terminal
  BY <1>2, <1>3 DEF Known, KnownState
<1>5. Known(t) \in SUBSET TaskState /\ Rule[t] \in TriggerRule
  BY KnownFacts
<1>6. EvaluateTriggerRule(Rule[t], Known(t)) = "WAIT"
  BY DEF Quiet
<1>7. QED
  BY <1>4, <1>5, <1>6, WaitingIsUndecided

\* _loop raises over the clock only when there is nothing it could do but wait: no
\* task is ready or runs, no retry is due, and a pending task waits for one that is
\* itself not done.  In particular a wave is never announced with nobody in it, the
\* other place _dispatch raises at.
THEOREM ClockCorrect == Spec => []ClockStrandsOnlyRetries
<1>1. Spec => []NeverEmptyHanded
  <2>1. Init => NeverEmptyHanded
    BY DEF Init, NeverEmptyHanded
  <2>2. QED
    BY <2>1, NeverEmptyHandedNext, Invariant, AccountsCorrect, PTL DEF Spec
<1>2. ASSUME CannotWait, IInv, Settling PROVE ClockStrandsOnlyRetries'
  <2>1. /\ pc = "select" /\ InState("READY") = {} /\ WaitingForRetry # {}
        /\ EarliestRetry > clock /\ UNCHANGED <<states, retryAt, clock>>
    BY <1>2 DEF CannotWait, Raise, taskVars
  <2>2. InState("RUNNING") = {}
    BY <1>2, <2>1, NothingRuns
  <2>3. DueRetries = {}
    <3>1. SUFFICES ASSUME NEW t \in WaitingForRetry, retryAt[t] <= clock PROVE FALSE
      BY DEF DueRetries
    <3>2. /\ EarliestRetry \in Nat /\ clock \in Nat /\ retryAt[t] \in Nat
          /\ EarliestRetry <= retryAt[t]
      BY <1>2, <3>1, EarliestRetryFacts DEF IInv, TypeOK, WaitingForRetry, InState
    <3>3. QED
      BY <2>1, <3>1, <3>2
  <2>4. \A t \in InState("PENDING") : Upstreams(t) \cap Live # {}
    <3>1. \A t \in InState("PENDING") : t \in Tasks /\ Quiet(t)
      BY <1>2, <2>1 DEF Settling, AllQuiet, InState
    <3>2. QED
      BY <1>2, <3>1, QuietWaitsForLive DEF IInv
  <2>5. /\ InState("READY")' = InState("READY") /\ InState("RUNNING")' = InState("RUNNING")
        /\ InState("PENDING")' = InState("PENDING") /\ Live' = Live
        /\ WaitingForRetry' = WaitingForRetry /\ DueRetries' = DueRetries
    BY <2>1 DEF InState, Live, WaitingForRetry, DueRetries
  <2>6. QED
    BY <2>1, <2>2, <2>3, <2>4, <2>5 DEF ClockStrandsOnlyRetries
<1>3. ASSUME pc' = "raised", iteration' < MaxIterations, IInv, NeverEmptyHanded, [Next]_vars
      PROVE  CannotWait \/ UNCHANGED vars
  <2>1. ~ (Start \/ CancelRemaining \/ ReleaseDueRetries \/ PassOver \/ DecidePending)
    BY <1>3 DEF Start, CancelRemaining, ReleaseDueRetries, PassOver, DecidePending, Decide
  <2>2. ~ (NextPass \/ EndResolve \/ BeginAdmission \/ WaitForRetry \/ LeaveLoop)
    BY <1>3 DEF NextPass, EndResolve, BeginAdmission, WaitForRetry, LeaveLoop
  <2>3. ~ \E t \in Tasks : AdmitTask(t) \/ BlockTask(t)
    BY <1>3 DEF AdmitTask, BlockTask
  <2>4. ~ (StartTask \/ CompleteTask \/ EndWave \/ ReleaseTask \/ EndDispatch \/ Finish)
    BY <1>3 DEF StartTask, CompleteTask, SucceedTask, RetryTask, FailTask, EndAttempt,
       EndWave, ReleaseTask, EndDispatch, Finish
  <2>5. ~ CancelFromOutside
    BY <1>3 DEF CancelFromOutside, Stopped
  <2>6. ~ ExhaustIterations
    <3>1. SUFFICES ASSUME ExhaustIterations PROVE FALSE
      OBVIOUS
    <3>2. iteration' = MaxIterations
      BY <3>1 DEF ExhaustIterations, Raise
    <3>3. MaxIterations \in Nat
      BY SchedulerAssumption DEF SchedulerAssumption, WorkflowAssumption
    <3>4. QED
      BY <1>3, <3>2, <3>3
  <2>7. ~ Announce
    BY <1>3 DEF Announce, NeverEmptyHanded
  <2>8. QED
    BY <1>3, <2>1, <2>2, <2>3, <2>4, <2>5, <2>6, <2>7 DEF Next, Step, Rest
<1>4. IInv /\ Settling /\ NeverEmptyHanded /\ ClockStrandsOnlyRetries /\ [Next]_vars
        => ClockStrandsOnlyRetries'
  <2>1. SUFFICES ASSUME IInv, Settling, NeverEmptyHanded, ClockStrandsOnlyRetries, [Next]_vars
                 PROVE  ClockStrandsOnlyRetries'
    OBVIOUS
  <2>2. CASE UNCHANGED vars
    BY <2>1, <2>2 DEF ClockStrandsOnlyRetries, InState, WaitingForRetry, DueRetries, Live,
       vars, taskVars
  <2>3. CASE ~ (pc' = "raised" /\ iteration' < MaxIterations)
    BY <2>3 DEF ClockStrandsOnlyRetries
  <2>4. QED
    BY <2>1, <2>2, <2>3, <1>2, <1>3
<1>5. Init => ClockStrandsOnlyRetries
  BY DEF Init, ClockStrandsOnlyRetries
<1>6. QED
  BY <1>1, <1>4, <1>5, Invariant, SettlingInvariant, PTL DEF Spec

-------------------------------------------------------------------------------
(* A failure under FAIL_FAST.                                                *)

\* Whoever failed has cancelled the token, and nothing ever clears it
Stopping ==
  FailurePolicy = "FAIL_FAST" /\ InState("FAILED") # {} => token # "active"

\* The token keeps its first cause
LEMMA TokenStays ==
  ASSUME [Next]_vars, token # "active"
  PROVE  token' # "active"
<1>1. CASE CompleteTask
  BY <1>1 DEF CompleteTask, SucceedTask, RetryTask, FailTask, EndAttempt, Cause
<1>2. CASE Start \/ ExhaustIterations \/ CancelRemaining \/ ReleaseDueRetries
  BY <1>2 DEF Start, ExhaustIterations, Raise, CancelRemaining, ReleaseDueRetries
<1>3. CASE PassOver \/ DecidePending \/ NextPass \/ EndResolve
  BY <1>3 DEF PassOver, DecidePending, Decide, NextPass, EndResolve
<1>4. CASE BeginAdmission \/ WaitForRetry \/ CannotWait \/ LeaveLoop \/ Finish
  BY <1>4 DEF BeginAdmission, WaitForRetry, CannotWait, Raise, LeaveLoop, Finish
<1>5. CASE (\E t \in Tasks : AdmitTask(t) \/ BlockTask(t)) \/ Announce \/ StartTask
  BY <1>5 DEF AdmitTask, BlockTask, Announce, StartTask
<1>6. CASE EndWave \/ ReleaseTask \/ EndDispatch
  BY <1>6 DEF EndWave, ReleaseTask, EndDispatch
<1>7. CASE CancelFromOutside \/ UNCHANGED vars
  BY <1>7 DEF CancelFromOutside, vars
<1>8. QED
  BY <1>1, <1>2, <1>3, <1>4, <1>5, <1>6, <1>7 DEF Next, Step, Rest

\* A task comes to FAILED only in a step that cancels the token
LEMMA FailureCancels ==
  ASSUME IInv, [Next]_vars, FailurePolicy = "FAIL_FAST",
         InState("FAILED") = {}, InState("FAILED")' # {}
  PROVE  token' # "active"
<1>0. TypeOK
  BY DEF IInv
<1>1. PICK t \in Tasks : states[t] # "FAILED" /\ states'[t] = "FAILED"
  BY DEF InState
<1>2. ~ UNCHANGED taskVars
  BY <1>1 DEF taskVars
<1>3. ~ (CancelRemaining \/ ReleaseDueRetries)
  BY <1>1 DEF CancelRemaining, ReleaseDueRetries
<1>4. ~ DecidePending
  <2>1. ASSUME NEW u, NEW outcome, Decide(u, outcome)
        PROVE  \/ states' = states
               \/ \E verdict \in {"RUN", "SKIP", "UPSTREAM_FAILED"} :
                    states' = [states EXCEPT ![u] = VerdictState(verdict)]
    BY <2>1, VerdictFacts DEF Decide
  <2>2. \A verdict \in {"RUN", "SKIP", "UPSTREAM_FAILED"} : VerdictState(verdict) # "FAILED"
    BY DEF VerdictState
  <2>3. SUFFICES ASSUME DecidePending PROVE FALSE
    OBVIOUS
  <2>4. Order[cursor] \in Tasks
    BY <1>0, <2>3, OrderFacts DEF DecidePending, IInv, Control, TypeOK
  <2>5. PICK outcome : Decide(Order[cursor], outcome)
    BY <2>3 DEF DecidePending
  <2>6. \/ states' = states
        \/ \E verdict \in {"RUN", "SKIP", "UPSTREAM_FAILED"} :
             states' = [states EXCEPT ![Order[cursor]] = VerdictState(verdict)]
    BY <2>1, <2>5
  <2>7. QED
    BY <1>0, <1>1, <2>2, <2>6 DEF TypeOK
<1>5. ~ StartTask
  BY <1>0, <1>1 DEF StartTask, TypeOK
<1>6. CompleteTask
  BY <1>2, <1>3, <1>4, <1>5, TaskStep
<1>7. PICK c \in Completions(admitted[cursor]) : \/ SucceedTask(admitted[cursor], c)
                                                 \/ RetryTask(admitted[cursor], c)
                                                 \/ FailTask(admitted[cursor], c)
  BY <1>6 DEF CompleteTask
<1>8. FailTask(admitted[cursor], c)
  BY <1>0, <1>1, <1>7 DEF SucceedTask, RetryTask, TypeOK
<1>9. QED
  BY <1>8 DEF FailTask, EndAttempt, Cause

LEMMA StoppingNext ==
  ASSUME IInv, Stopping, [Next]_vars
  PROVE  Stopping'
<1> SUFFICES ASSUME FailurePolicy = "FAIL_FAST", InState("FAILED")' # {}
             PROVE  token' # "active"
  BY DEF Stopping
<1>1. CASE InState("FAILED") = {}
  BY <1>1, FailureCancels
<1>2. CASE InState("FAILED") # {}
  BY <1>2, TokenStays DEF Stopping
<1>3. QED
  BY <1>1, <1>2

\* Only StartTask counts an attempt
LEMMA AttemptsStep ==
  ASSUME [Next]_vars, ~ StartTask
  PROVE  attempts' = attempts
<1>1. ~ UNCHANGED taskVars => \/ CancelRemaining \/ ReleaseDueRetries
                              \/ DecidePending \/ CompleteTask
  BY TaskStep
<1>2. CASE CancelRemaining \/ ReleaseDueRetries \/ DecidePending
  BY <1>2 DEF CancelRemaining, ReleaseDueRetries, DecidePending, Decide
<1>3. CASE CompleteTask
  BY <1>3 DEF CompleteTask, SucceedTask, RetryTask, FailTask, EndAttempt
<1>4. QED
  BY <1>1, <1>2, <1>3 DEF taskVars

\* Only Finish ends a run
LEMMA OnlyFinishEnds ==
  ASSUME [Next]_vars, pc' = "done", pc # "done"
  PROVE  Finish
<1>1. ~ (Start \/ ExhaustIterations \/ CancelRemaining \/ ReleaseDueRetries)
  BY DEF Start, ExhaustIterations, Raise, CancelRemaining, ReleaseDueRetries
<1>2. ~ (PassOver \/ DecidePending \/ NextPass \/ EndResolve)
  BY DEF PassOver, DecidePending, Decide, NextPass, EndResolve
<1>3. ~ (BeginAdmission \/ WaitForRetry \/ CannotWait \/ LeaveLoop)
  BY DEF BeginAdmission, WaitForRetry, CannotWait, Raise, LeaveLoop
<1>4. ~ ((\E t \in Tasks : AdmitTask(t) \/ BlockTask(t)) \/ Announce \/ StartTask)
  BY DEF AdmitTask, BlockTask, Announce, StartTask
<1>5. ~ (CompleteTask \/ EndWave \/ ReleaseTask \/ EndDispatch)
  BY DEF CompleteTask, SucceedTask, RetryTask, FailTask, EndAttempt, EndWave,
     ReleaseTask, EndDispatch
<1>6. ~ (CancelFromOutside \/ UNCHANGED vars)
  BY DEF CancelFromOutside, vars
<1>7. QED
  BY <1>1, <1>2, <1>3, <1>4, <1>5, <1>6 DEF Next, Step, Rest

\* A run that is done takes no further step
LEMMA DoneIsFinal ==
  ASSUME [Next]_vars, pc = "done"
  PROVE  UNCHANGED vars
<1>1. ~ (Start \/ ExhaustIterations \/ CancelRemaining \/ ReleaseDueRetries)
  BY DEF Start, ExhaustIterations, CancelRemaining, ReleaseDueRetries
<1>2. ~ (PassOver \/ DecidePending \/ NextPass \/ EndResolve)
  BY DEF PassOver, DecidePending, NextPass, EndResolve
<1>3. ~ (BeginAdmission \/ WaitForRetry \/ CannotWait \/ LeaveLoop)
  BY DEF BeginAdmission, WaitForRetry, CannotWait, LeaveLoop
<1>4. ~ ((\E t \in Tasks : AdmitTask(t) \/ BlockTask(t)) \/ Announce \/ StartTask)
  BY DEF AdmitTask, BlockTask, Announce, StartTask
<1>5. ~ (CompleteTask \/ EndWave \/ ReleaseTask \/ EndDispatch \/ Finish)
  BY DEF CompleteTask, EndWave, ReleaseTask, EndDispatch, Finish
<1>6. ~ CancelFromOutside
  BY DEF CancelFromOutside, Stopped
<1>7. QED
  BY <1>1, <1>2, <1>3, <1>4, <1>5, <1>6 DEF Next, Step, Rest

\* A finished run with a failed task derives FAILED
LEMMA FailedRun ==
  ASSUME IInv, NothingStranded, Finish, FailurePolicy = "FAIL_FAST",
         InState("FAILED") # {}
  PROVE  runState' = "FAILED"
<1> DEFINE reached == {states[t] : t \in Tasks}
<1>1. DOMAIN states = Tasks
  BY DEF IInv, TypeOK
<1>2. reached \subseteq Terminal
  BY DEF NothingStranded, Finish
<1>3. "FAILED" \in reached
  BY DEF InState
<1>4. reached \cap {"FAILED", "UPSTREAM_FAILED"} # {}
  BY <1>3
<1>5. DeriveRunState(states) = "FAILED"
  BY <1>1, <1>2, <1>4 DEF DeriveRunState
<1>6. QED
  BY <1>5 DEF Finish, FinalRunState

\* Once a task has failed for good under FAIL_FAST, no attempt starts any more,
\* and the run ends as FAILED, for every workflow and whoever else cancels.
THEOREM FailFastCorrect == Spec => FailFastStops
<1>1. Init => Stopping
  BY DEF Init, Stopping, InState
<1>2. IInv /\ Stopping /\ [Next]_vars => Stopping'
  BY StoppingNext
<1>3. IInv /\ Stopping /\ NothingStranded /\ [Next]_vars =>
        [FailurePolicy = "FAIL_FAST" /\ InState("FAILED") # {} =>
           /\ attempts' = attempts
           /\ pc' = "done" => runState' = "FAILED"]_vars
  <2> SUFFICES ASSUME IInv, Stopping, NothingStranded, [Next]_vars, ~ UNCHANGED vars,
                      FailurePolicy = "FAIL_FAST", InState("FAILED") # {}
               PROVE  /\ attempts' = attempts
                      /\ pc' = "done" => runState' = "FAILED"
    OBVIOUS
  <2>1. token # "active"
    BY DEF Stopping
  <2>2. ~ StartTask
    BY <2>1 DEF StartTask, StopsWave
  <2>3. attempts' = attempts
    BY <2>2, AttemptsStep
  <2>4. ASSUME pc' = "done" PROVE runState' = "FAILED"
    <3>1. pc # "done"
      BY DoneIsFinal
    <3>2. Finish
      BY <2>4, <3>1, OnlyFinishEnds
    <3>3. QED
      BY <3>2, FailedRun
  <2>5. QED
    BY <2>3, <2>4
<1>4. QED
  BY <1>1, <1>2, <1>3, Invariant, NothingStrandedEver, PTL DEF Spec, FailFastStops
===============================================================================
