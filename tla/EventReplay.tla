------------------------------ MODULE EventReplay -----------------------------
(***************************************************************************)
(* The fold of src/campanile/store/replay.py: what a stream of events says *)
(* about a run and its tasks.  Raising EventLogCorrupt is the field        *)
(* corrupt, which no later event clears.  All the events are of one run.   *)
(*                                                                         *)
(* An event is a record with the fields seq, at, kind, task, attempt and   *)
(* detail, as Scheduler.tla emits them and EventLog.append stamps them.    *)
(***************************************************************************)
EXTENDS TaskStates, Integers, Sequences

CONSTANTS Tasks, NoTask

RunKind == {"RUN_STARTED", "RUN_FINISHED", "RUN_CANCELLED"}

\* TERMINAL_TASK_EVENTS
TerminalKind ==
  {"TASK_SUCCEEDED", "TASK_FAILED", "TASK_SKIPPED", "TASK_UPSTREAM_FAILED",
   "TASK_CANCELLED"}

Never == -1   \* a started_at or finished_at of None

BlankTask ==
  [state |-> "PENDING", attempts |-> 0, retries |-> 0, waits |-> 0,
   error |-> FALSE, timedOut |-> FALSE, started |-> Never, finished |-> Never]

\* RunSnapshot and replay's expected_seq, here next; known is the key set of tasks
BlankRun ==
  [run |-> "PENDING", known |-> {}, tasks |-> [t \in Tasks |-> BlankTask],
   conditions |-> <<>>, started |-> Never, finished |-> Never, next |-> 0,
   corrupt |-> FALSE]

\* The state an event puts its task in, for those that put it in one
StateAfter(task, kind) ==
  CASE kind = "TASK_SCHEDULED" -> "READY"
    [] kind = "TASK_STARTED" -> "RUNNING"
    [] kind = "TASK_SUCCEEDED" -> "SUCCEEDED"
    [] kind = "TASK_FAILED" -> "FAILED"
    [] kind = "TASK_RETRY_SCHEDULED" -> "RETRY_WAIT"
    [] kind = "TASK_SKIPPED" -> "SKIPPED"
    [] kind = "TASK_UPSTREAM_FAILED" -> "UPSTREAM_FAILED"
    [] kind = "TASK_CANCELLED" -> "CANCELLED"
    [] OTHER -> task.state

\* _require_running, and the attempt number a TASK_STARTED carries, if it does
Rejects(task, e) ==
  \/ /\ e.kind \in {"TASK_SUCCEEDED", "TASK_FAILED", "TASK_RETRY_SCHEDULED"}
     /\ task.state # "RUNNING"
  \/ e.kind = "TASK_STARTED" /\ e.attempt \notin {0, task.attempts + 1}

Plus(n, condition) == IF condition THEN n + 1 ELSE n

ApplyToTask(task, e) ==
  [state |-> StateAfter(task, e.kind),
   attempts |-> Plus(task.attempts, e.kind = "TASK_STARTED"),
   retries |-> Plus(task.retries, e.kind = "TASK_RETRY_SCHEDULED"),
   waits |-> Plus(task.waits, e.kind = "RESOURCE_BLOCKED"),
   error |-> task.error \/ e.kind \in {"TASK_FAILED", "TASK_RETRY_SCHEDULED"},
   timedOut |-> task.timedOut \/ e.kind = "TASK_TIMED_OUT",
   started |-> IF e.kind = "TASK_STARTED" /\ task.started = Never
               THEN e.at ELSE task.started,
   finished |-> IF e.kind \in TerminalKind THEN e.at ELSE task.finished]

ApplyToRun(snap, e) ==
  CASE e.kind = "RUN_STARTED" -> 
         [snap EXCEPT !.run = "RUNNING", !.known = Tasks, !.started = e.at]
    [] e.kind = "RUN_FINISHED" ->
         [snap EXCEPT !.run = e.detail, !.finished = e.at]
    [] e.kind = "RUN_CANCELLED" ->
         [snap EXCEPT !.run = "CANCELLED", !.finished = e.at]

\* _apply
ApplyKind(snap, e) ==
  IF e.kind \in RunKind THEN ApplyToRun(snap, e)
  ELSE IF e.task = NoTask \/ Rejects(snap.tasks[e.task], e)
       THEN [snap EXCEPT !.corrupt = TRUE]
  ELSE [snap EXCEPT !.known = @ \cup {e.task},
                    !.tasks[e.task] = ApplyToTask(@, e),
                    !.conditions = IF e.kind = "CONDITION_EVALUATED"
                                   THEN Append(@, <<e.detail, e.task>>) ELSE @]

\* One turn of replay's loop: the sequence numbers must be 0, 1, 2, ...
Apply(snap, e) ==
  IF snap.corrupt THEN snap
  ELSE IF e.seq # snap.next THEN [snap EXCEPT !.corrupt = TRUE]
  ELSE ApplyKind([snap EXCEPT !.next = @ + 1], e)

\* What replay does after its loop: a run whose log has no end is given one if its
\* tasks have nothing left to do
Conclude(snap) ==
  LET derived == DeriveRunState([t \in snap.known |-> snap.tasks[t].state])
  IN  IF snap.run \notin TerminalRun /\ snap.known # {} /\ derived \in TerminalRun
      THEN [snap EXCEPT !.run = derived] ELSE snap

\* replay of a log that continues a log already folded into snap; an empty log is
\* corrupt
Fold(snap, events) ==
  LET after[i \in 0 .. Len(events)] ==
        IF i = 0 THEN snap ELSE Apply(after[i - 1], events[i])
  IN  after[Len(events)]

Replay(events) ==
  IF events = <<>> THEN [BlankRun EXCEPT !.corrupt = TRUE]
  ELSE Conclude(Fold(BlankRun, events))
===============================================================================
