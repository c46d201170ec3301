------------------------------- MODULE LoggedRun ------------------------------
(***************************************************************************)
(* A scheduler and the in-memory log it writes: Scheduler.tla composed     *)
(* with EventLog (src/campanile/store/log.py), and what EventReplay.tla    *)
(* makes of that log at every moment of the run.                           *)
(***************************************************************************)
EXTENDS SchedulerProperties

VARIABLES
  log,        \* EventLog._events
  snapshot,   \* the events of log folded, as replay's loop leaves them
  startedAt,  \* _started_at: task -> its first start, or R!Never
  finishedAt  \* _finished_at: task -> its end, or R!Never

R == INSTANCE EventReplay

\* EventLog.append stamps the position as the sequence number; _emit passes the time
Stamped(events) ==
  [i \in 1 .. Len(events) |->
     [seq |-> Len(log) + i - 1, at |-> clock', kind |-> events[i].kind,
      task |-> events[i].task, attempt |-> events[i].attempt,
      detail |-> events[i].detail]]

LoggedInit ==
  /\ Init
  /\ log = <<>> /\ snapshot = R!BlankRun
  /\ startedAt = [t \in Tasks |-> R!Never]
  /\ finishedAt = [t \in Tasks |-> R!Never]

\* The events of a step are appended, and a reader folds them in
Record ==
  /\ log' = log \o Stamped(emitted')
  /\ snapshot' = R!Fold(snapshot, Stamped(emitted'))

\* The scheduler's own books: _execute notes the first start of a task, _succeed,
\* _fail and _terminate its end
Began(t) == attempts'[t] > attempts[t] /\ startedAt[t] = R!Never
Ended(t) == states'[t] \in Terminal /\ states[t] \notin Terminal

Note ==
  /\ startedAt' = [t \in Tasks |-> IF Began(t) THEN clock' ELSE startedAt[t]]
  /\ finishedAt' = [t \in Tasks |-> IF Ended(t) THEN clock' ELSE finishedAt[t]]

LoggedStep == Step /\ Record /\ Note

LoggedNext ==
  \/ LoggedStep
  \/ CancelFromOutside /\ Record /\ UNCHANGED <<startedAt, finishedAt>>
  \/ Rest /\ UNCHANGED <<log, snapshot, startedAt, finishedAt>>

loggedVars == <<vars, log, snapshot, startedAt, finishedAt>>
LoggedSpec == LoggedInit /\ [][LoggedNext]_loggedVars

\* The scheduler's thread keeps running
LoggedFairSpec == LoggedSpec /\ WF_loggedVars(LoggedStep)

-------------------------------------------------------------------------------
Written == log # <<>>

\* replay(log): what a reader of the log sees
Replayed == R!Conclude(snapshot)

Positions(Test(_)) == {i \in 1 .. Len(log) : Test(log[i])}

\* _succeed forgets the error of an earlier attempt; replay keeps it
ErrorKept(t) == states[t] = "SUCCEEDED" /\ retries[t] > 0

\* _task_result: what a RunResult says of a task
TaskResult(t) ==
  [state |-> states[t], attempts |-> attempts[t], retries |-> retries[t],
   timedOut |-> t \in timedOut, error |-> t \in errors,
   started |-> startedAt[t], finished |-> finishedAt[t]]

\* EventLog.span, from which _run_span takes when the run began and ended
Span == <<log[1].at, log[Len(log)].at>>

\* A snapshot says of every task what the scheduler's result says of it
Agrees(snap) ==
  \A t \in Tasks :
    LET task == snap.tasks[t]
        result == TaskResult(t)
    IN  /\ \A field \in DOMAIN result \ {"error"} : task[field] = result[field]
        /\ task.error <=> result.error \/ ErrorKept(t)

\* The scheduler's in-memory state is a cache of what the log already says: after
\* every step, wherever the process stopped writing, replay accepts the log although
\* it is strict, and gives the states, attempts, retries, timeouts, times and errors the
\* scheduler holds -- but for the error of a task that succeeded on a later attempt --
\* and at the end the state and the span of the run that its RunResult has.
ReplayAgrees ==
  Written =>
    /\ ~ Replayed.corrupt
    /\ Agrees(Replayed)
    /\ pc = "done" => /\ Replayed.run = runState
                      /\ <<Replayed.started, Replayed.finished>> = Span

\* Of the events of one thing there is only one
Once(Test(_)) == \A i, j \in Positions(Test) : i = j

\* A log says nothing twice, however often tasks and edges are looked at and whoever
\* cancels: at any time a task has at most one terminal event, and nothing after it
\* but the release of its slots; the condition of an edge is recorded at most once,
\* and the run as cancelled at most once.  A finished run's log holds exactly one
\* terminal event per task, and RUN_FINISHED last.
Ends(t) == Positions(LAMBDA x : x.task = t /\ x.kind \in R!TerminalKind)

OneEndPerTask ==
  /\ \A t \in Tasks : \A i \in Ends(t) : \A j \in i + 1 .. Len(log) :
       log[j].task = t => log[j].kind = "RESOURCE_RELEASED"
  /\ \A e \in Conditional :
       Once(LAMBDA x : x.kind = "CONDITION_EVALUATED" /\ <<x.detail, x.task>> = e)
  /\ Once(LAMBDA x : x.kind = "RUN_CANCELLED")
  /\ pc = "done" =>
       /\ \A t \in Tasks : Ends(t) # {}
       /\ log[Len(log)].kind = "RUN_FINISHED"
===============================================================================
