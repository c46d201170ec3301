-------------------------------- MODULE LogProofs ------------------------------
(***************************************************************************)
(* Theorems about LoggedRun.tla and RunReports.tla: what the log of a run  *)
(* holds, what replaying it gives, and what a report makes of its times.   *)
(***************************************************************************)
EXTENDS SchedulerProofs, RunReports

-------------------------------------------------------------------------------
(* What a comprehension leaves.                                              *)

\* The function behind Those(names, chosen), as far as the position m
KeptTo(names, chosen, m, g) ==
  g = [i \in 0 .. m |->
         IF i = 0 THEN <<>>
         ELSE IF names[i] \in chosen THEN Append(g[i - 1], names[i])
         ELSE g[i - 1]]

LEMMA KeptExists ==
  ASSUME NEW names, NEW chosen
  PROVE  \A m \in Nat : \E g : KeptTo(names, chosen, m, g)
<1> DEFINE S == {m \in Nat : \E g : KeptTo(names, chosen, m, g)}
<1>1. 0 \in S
  <2>1. KeptTo(names, chosen, 0, [i \in 0 .. 0 |-> <<>>])
    BY DEF KeptTo
  <2>2. QED
    BY <2>1
<1>2. ASSUME NEW n \in Nat, n \in S PROVE n + 1 \in S
  <2>1. PICK g : KeptTo(names, chosen, n, g)
    BY <1>2
  <2> DEFINE next == IF names[n + 1] \in chosen THEN Append(g[n], names[n + 1]) ELSE g[n]
             h == [i \in 0 .. (n + 1) |-> IF i = n + 1 THEN next ELSE g[i]]
  <2>2. ASSUME NEW i \in 0 .. (n + 1)
        PROVE  h[i] = IF i = 0 THEN <<>>
                      ELSE IF names[i] \in chosen THEN Append(h[i - 1], names[i])
                      ELSE h[i - 1]
    <3>1. CASE i = n + 1
      <4>1. h[i] = next /\ i - 1 = n /\ h[n] = g[n] /\ i # 0
        BY <3>1
      <4>2. QED
        BY <3>1, <4>1
    <3>2. CASE i # n + 1
      <4>1. i \in 0 .. n /\ h[i] = g[i] /\ (i # 0 => i - 1 \in 0 .. n /\ h[i - 1] = g[i - 1])
        BY <3>2
      <4>2. g[i] = IF i = 0 THEN <<>>
                   ELSE IF names[i] \in chosen THEN Append(g[i - 1], names[i])
                   ELSE g[i - 1]
        BY <2>1, <4>1 DEF KeptTo
      <4>3. QED
        BY <4>1, <4>2
    <3>3. QED
      BY <3>1, <3>2
  <2> HIDE DEF next
  <2>3. KeptTo(names, chosen, n + 1, h)
    BY <2>2 DEF KeptTo
  <2>4. QED
    BY <2>3
<1>3. Nat \subseteq S
  <2> HIDE DEF S
  <2> QED BY <1>1, <1>2, CountingUp
<1>4. QED
  BY <1>3

\* It leaves elements of the sequence that are chosen, all of those, and none twice
\* where the sequence has none twice.
Leaves(A, names, chosen, k) ==
  /\ k \in Seq(A)
  /\ \A i \in 1 .. Len(k) : k[i] \in chosen /\ \E j \in 1 .. Len(names) : k[i] = names[j]
  /\ \A j \in 1 .. Len(names) : names[j] \in chosen => \E i \in 1 .. Len(k) : k[i] = names[j]
  /\ (\A i, j \in 1 .. Len(names) : names[i] = names[j] => i = j) =>
       \A i, j \in 1 .. Len(k) : k[i] = k[j] => i = j

LEMMA ThoseFacts ==
  ASSUME NEW A, NEW names \in Seq(A), NEW chosen
  PROVE  Leaves(A, names, chosen, Those(names, chosen))
<1> DEFINE n == Len(names)
           K == CHOOSE g : KeptTo(names, chosen, n, g)
<1>1. n \in Nat
  OBVIOUS
<1>2. KeptTo(names, chosen, n, K)
  BY <1>1, KeptExists
<1>3. Those(names, chosen) = K[n]
  BY DEF Those, KeptTo
<1> HIDE DEF K
<1> DEFINE Good(k, m) ==
             /\ k \in Seq(A)
             /\ \A i \in 1 .. Len(k) : k[i] \in chosen /\ \E j \in 1 .. m : k[i] = names[j]
             /\ \A j \in 1 .. m : names[j] \in chosen => \E i \in 1 .. Len(k) : k[i] = names[j]
             /\ (\A i, j \in 1 .. n : names[i] = names[j] => i = j) =>
                  \A i, j \in 1 .. Len(k) : k[i] = k[j] => i = j
           S == {m \in Nat : m <= n => Good(K[m], m)}
<1>4. 0 \in S
  <2>1. K[0] = <<>>
    BY <1>1, <1>2 DEF KeptTo
  <2>2. Good(K[0], 0)
    BY <2>1
  <2>3. QED
    BY <2>2
<1>5. ASSUME NEW m \in Nat, m \in S PROVE m + 1 \in S
  <2>1. SUFFICES ASSUME m + 1 <= n PROVE Good(K[m + 1], m + 1)
    OBVIOUS
  <2>2. PICK k : k = K[m]
    OBVIOUS
  <2>3. Good(k, m)
    BY <1>1, <1>5, <2>1, <2>2
  <2>4. PICK x : x = names[m + 1]
    OBVIOUS
  <2>5. m + 1 \in 1 .. n /\ x \in A
    BY <1>1, <2>1, <2>4
  <2>6. K[m + 1] = IF x \in chosen THEN Append(k, x) ELSE k
    <3>1. m + 1 \in 0 .. n /\ m + 1 # 0 /\ (m + 1) - 1 = m
      BY <1>1, <2>1
    <3>2. K[m + 1] = IF names[m + 1] \in chosen THEN Append(K[(m + 1) - 1], names[m + 1])
                     ELSE K[(m + 1) - 1]
      BY <1>2, <3>1 DEF KeptTo
    <3>3. QED
      BY <2>2, <2>4, <3>1, <3>2
  <2>7. CASE x \notin chosen
    <3>1. K[m + 1] = k
      BY <2>6, <2>7
    <3>2. \A i \in 1 .. Len(k) : k[i] \in chosen /\ \E j \in 1 .. (m + 1) : k[i] = names[j]
      BY <2>3
    <3>3. \A j \in 1 .. (m + 1) : names[j] \in chosen => \E i \in 1 .. Len(k) : k[i] = names[j]
      BY <2>3, <2>4, <2>7
    <3>4. Good(k, m + 1)
      BY <2>3, <3>2, <3>3
    <3>5. QED
      BY <3>1, <3>4
  <2>8. CASE x \in chosen
    <3>1. PICK l : l = Append(k, x)
      OBVIOUS
    <3>2. /\ l \in Seq(A) /\ Len(k) \in Nat /\ Len(l) = Len(k) + 1 /\ l[Len(k) + 1] = x
          /\ \A i \in 1 .. Len(k) : l[i] = k[i]
      BY <2>3, <2>5, <3>1
    <3>3. \A i \in 1 .. Len(l) : i \in 1 .. Len(k) \/ i = Len(k) + 1
      BY <3>2
    <3>4. \A i \in 1 .. Len(l) : l[i] \in chosen /\ \E j \in 1 .. (m + 1) : l[i] = names[j]
      <4>1. SUFFICES ASSUME NEW i \in 1 .. Len(l)
                     PROVE  l[i] \in chosen /\ \E j \in 1 .. (m + 1) : l[i] = names[j]
        OBVIOUS
      <4>2. CASE i = Len(k) + 1
        BY <2>4, <2>8, <3>2, <4>2
      <4>3. CASE i \in 1 .. Len(k)
        <5>1. l[i] \in chosen /\ \E j \in 1 .. m : l[i] = names[j]
          BY <2>3, <3>2, <4>3
        <5>2. QED
          BY <5>1
      <4>4. QED
        BY <3>3, <4>2, <4>3
    <3>5. ASSUME NEW j \in 1 .. (m + 1), names[j] \in chosen
          PROVE  \E i \in 1 .. Len(l) : l[i] = names[j]
      <4>1. CASE j = m + 1
        <5>1. Len(k) + 1 \in 1 .. Len(l)
          BY <3>2
        <5>2. QED
          BY <2>4, <3>2, <4>1, <5>1
      <4>2. CASE j # m + 1
        <5>1. PICK i \in 1 .. Len(k) : k[i] = names[j]
          BY <2>3, <3>5, <4>2
        <5>2. i \in 1 .. Len(l) /\ l[i] = names[j]
          BY <3>2, <5>1
        <5>3. QED
          BY <5>2
      <4>3. QED
        BY <4>1, <4>2
    <3>6. ASSUME \A i, j \in 1 .. n : names[i] = names[j] => i = j,
                 NEW i \in 1 .. Len(l), NEW j \in 1 .. Len(l), l[i] = l[j]
          PROVE  i = j
      <4>1. \A o \in 1 .. Len(k) : k[o] # x
        <5>1. SUFFICES ASSUME NEW o \in 1 .. Len(k), k[o] = x PROVE FALSE
          OBVIOUS
        <5>2. PICK p \in 1 .. m : k[o] = names[p]
          BY <2>3
        <5>3. p \in 1 .. n /\ m + 1 \in 1 .. n /\ names[p] = names[m + 1] /\ p # m + 1
          BY <1>1, <2>1, <2>4, <5>1, <5>2
        <5>4. QED
          BY <3>6, <5>3
      <4>2. \A o, p \in 1 .. Len(k) : k[o] = k[p] => o = p
        BY <2>3, <3>6
      <4>3. QED
        BY <3>2, <3>3, <3>6, <4>1, <4>2
    <3>7. Good(l, m + 1)
      BY <3>2, <3>4, <3>5, <3>6
    <3>8. QED
      BY <2>6, <2>8, <3>1, <3>7
  <2>9. QED
    BY <2>7, <2>8
<1>6. Nat \subseteq S
  <2> HIDE DEF S
  <2> QED BY <1>4, <1>5, CountingUp
<1>7. Good(K[n], n)
  <2>1. n \in S
    <3> HIDE DEF S
    <3> QED BY <1>1, <1>6
  <2>2. n <= n
    BY <1>1
  <2> HIDE DEF Good
  <2>3. QED
    BY <2>1, <2>2
<1>8. QED
  BY <1>3, <1>7 DEF Leaves

-------------------------------------------------------------------------------
(* What a step emits.                                                        *)

\* The kinds of events the scheduler appends
EventKind ==
  {"RUN_STARTED", "RUN_FINISHED", "RUN_CANCELLED", "TASK_SCHEDULED", "TASK_STARTED",
   "TASK_RETRY_SCHEDULED", "TASK_TIMED_OUT", "CONDITION_EVALUATED", "RESOURCE_BLOCKED",
   "RESOURCE_ACQUIRED", "RESOURCE_RELEASED"} \cup R!TerminalKind

EventRecord ==
  [kind : EventKind, task : Tasks \cup {NoTask}, attempt : Nat,
   detail : Tasks \cup {NoTask} \cup RunState]

\* An event is told of a finished task only when its slots are released; a terminal
\* event is told of a task that finishes in this step, and is the last about it
Truthful(es) ==
  \A k \in 1 .. Len(es) :
    /\ es[k].task \in Tasks /\ states[es[k].task] \in Terminal =>
         es[k].kind = "RESOURCE_RELEASED"
    /\ es[k].kind \in R!TerminalKind =>
         /\ es[k].task \in Tasks
         /\ states[es[k].task] \notin Terminal /\ states'[es[k].task] \in Terminal
         /\ \A l \in 1 .. Len(es) : l > k => es[l].task # es[k].task

\* Whoever finishes in this step is told of
Complete(es) ==
  \A t \in Tasks :
    states[t] \notin Terminal /\ states'[t] \in Terminal =>
      \E k \in 1 .. Len(es) : es[k].task = t /\ es[k].kind \in R!TerminalKind

\* A condition is told of when it was not before, and once
TellsConditionsOnce(es) ==
  \A k \in 1 .. Len(es) :
    es[k].kind = "CONDITION_EVALUATED" =>
      /\ <<es[k].detail, es[k].task>> \in logged' \ logged
      /\ \A l \in 1 .. Len(es) :
           es[l].kind = "CONDITION_EVALUATED" /\ es[l].detail = es[k].detail => l = k

\* So is the cancellation of the run
TellsCancelOnce(es) ==
  \A k \in 1 .. Len(es) :
    es[k].kind = "RUN_CANCELLED" =>
      /\ token = "active" /\ token' # "active"
      /\ \A l \in 1 .. Len(es) : es[l].kind = "RUN_CANCELLED" => l = k

\* Among the first m events there is one of t, of one of these kinds
Tells(es, m, t, kinds) == \E k \in 1 .. m : es[k].task = t /\ es[k].kind \in kinds

\* The kinds that put a task in another state, and those that replay lets pass
MovingKind ==
  R!TerminalKind \cup {"TASK_SCHEDULED", "TASK_STARTED", "TASK_RETRY_SCHEDULED"}

NeutralKind ==
  {"CONDITION_EVALUATED", "RESOURCE_BLOCKED", "RESOURCE_ACQUIRED", "RESOURCE_RELEASED"}

StateOf(kind) == R!StateAfter(R!BlankTask, kind)

\* The tasks that move are those told to, each once, to where it is told
TellsMoves(es) ==
  /\ \A k, l \in 1 .. Len(es) :
       es[k].kind \in MovingKind /\ es[l].kind \in MovingKind /\ es[k].task = es[l].task
         => k = l
  /\ \A k \in 1 .. Len(es) :
       es[k].kind \in MovingKind => states'[es[k].task] = StateOf(es[k].kind)
  /\ \A t \in Tasks : ~ Tells(es, Len(es), t, MovingKind) => states'[t] = states[t]

\* The attempts, retries and timeouts that are counted are those told
TellsCounts(es) ==
  \A t \in Tasks :
    /\ attempts'[t] = IF Tells(es, Len(es), t, {"TASK_STARTED"})
                      THEN attempts[t] + 1 ELSE attempts[t]
    /\ retries'[t] = IF Tells(es, Len(es), t, {"TASK_RETRY_SCHEDULED"})
                     THEN retries[t] + 1 ELSE retries[t]
    /\ t \in timedOut' <=> t \in timedOut \/ Tells(es, Len(es), t, {"TASK_TIMED_OUT"})

\* Nothing is told that replay rejects
Acceptable(es) ==
  \A k \in 1 .. Len(es) :
    /\ es[k].kind \in R!RunKind \/ es[k].task \in Tasks
    /\ es[k].kind \in {"TASK_SUCCEEDED", "TASK_FAILED", "TASK_RETRY_SCHEDULED"} =>
         states[es[k].task] = "RUNNING"
    /\ es[k].kind = "TASK_STARTED" => es[k].attempt = attempts[es[k].task] + 1

\* The run begins with RUN_STARTED, is concluded with RUN_FINISHED, and is cancelled when
\* a body has ended
TellsOfRun(es) ==
  /\ pc' = "created" => pc = "created" /\ Len(es) = 0
  /\ pc = "created" /\ pc' # "created" => Len(es) = 1 /\ es[1].kind = "RUN_STARTED"
  /\ pc # "created" => \A k \in 1 .. Len(es) : es[k].kind # "RUN_STARTED"
  /\ \A k \in 1 .. Len(es) : /\ es[k].kind = "RUN_FINISHED" => pc' = "done"
                             /\ es[k].kind = "RUN_CANCELLED" => pc' = "wave"
  /\ pc' = "done" => es[Len(es)].detail = runState'

Retold(es) == TellsMoves(es) /\ TellsCounts(es) /\ Acceptable(es) /\ TellsOfRun(es)

Batch(es) ==
  /\ es \in Seq(EventRecord) /\ Retold(es)
  /\ Truthful(es) /\ Complete(es) /\ TellsConditionsOnce(es) /\ TellsCancelOnce(es)
  /\ logged \subseteq logged'
  /\ pc' = "done" => Len(es) > 0 /\ es[Len(es)].kind = "RUN_FINISHED"

\* What admit() left out is ready
LeftOutIsReady ==
  pc = "admit" => \A i \in 1 .. Len(blocked) : states[blocked[i]] = "READY"

\* es tells one thing of each name of a row
Row(kind, names, es) ==
  /\ es \in Seq(EventRecord) /\ Len(es) = Len(names) /\ Len(names) \in Nat
  /\ \A i \in 1 .. Len(names) :
       es[i].kind = kind /\ es[i].task = names[i] /\ es[i].detail = NoTask

LEMMA TaskEventsFacts ==
  ASSUME NEW kind \in EventKind, NEW names \in Seq(Tasks)
  PROVE  Row(kind, names, TaskEvents(kind, names))
<1>1. Len(names) \in Nat /\ \A i \in 1 .. Len(names) : names[i] \in Tasks
  OBVIOUS
<1>2. TaskEvents(kind, names) = [i \in 1 .. Len(names) |->
        [kind |-> kind, task |-> names[i], attempt |-> 0, detail |-> NoTask]]
  BY DEF TaskEvents, TaskEvent, Event
<1>3. \A i \in 1 .. Len(names) :
        [kind |-> kind, task |-> names[i], attempt |-> 0, detail |-> NoTask] \in EventRecord
  BY <1>1 DEF EventRecord
<1>4. QED
  BY <1>1, <1>2, <1>3 DEF Row

\* Events that replay lets pass, or none, tell of a step that moves nobody
LEMMA NeutralRetold ==
  ASSUME NEW es \in Seq(EventRecord),
         \A k \in 1 .. Len(es) : es[k].kind \in NeutralKind /\ es[k].task \in Tasks,
         states' = states, attempts' = attempts, retries' = retries, timedOut' = timedOut,
         pc' # "done", pc' = "created" <=> pc = "created", pc = "created" => Len(es) = 0
  PROVE  Retold(es)
<1>1. \A k \in 1 .. Len(es) :
        es[k].kind \notin MovingKind \cup R!RunKind \cup {"TASK_TIMED_OUT"}
  BY DEF MovingKind, NeutralKind, R!TerminalKind, R!RunKind
<1>2. \A t : /\ ~ Tells(es, Len(es), t, {"TASK_STARTED"})
             /\ ~ Tells(es, Len(es), t, {"TASK_RETRY_SCHEDULED"})
             /\ ~ Tells(es, Len(es), t, {"TASK_TIMED_OUT"})
  BY <1>1 DEF Tells, MovingKind
<1>3. TellsMoves(es)
  BY <1>1 DEF TellsMoves
<1>4. TellsCounts(es)
  BY <1>2 DEF TellsCounts
<1>5. Acceptable(es)
  BY <1>1 DEF Acceptable, MovingKind, R!TerminalKind
<1>6. TellsOfRun(es)
  BY <1>1 DEF TellsOfRun, R!RunKind
<1>7. QED
  BY <1>3, <1>4, <1>5, <1>6 DEF Retold

\* A row of events that put tasks in one and the same state
LEMMA RowRetold ==
  ASSUME NEW kind \in {"TASK_SCHEDULED", "TASK_CANCELLED"}, NEW names \in Seq(Tasks),
         NEW es, Row(kind, names, es),
         \A i, j \in 1 .. Len(names) : names[i] = names[j] => i = j,
         \A t \in Tasks : states'[t] = IF \E i \in 1 .. Len(names) : names[i] = t
                                       THEN StateOf(kind) ELSE states[t],
         attempts' = attempts, retries' = retries, timedOut' = timedOut,
         pc \notin {"created", "done"}, pc' \notin {"created", "done"}
  PROVE  Retold(es)
<1>1. /\ Len(es) = Len(names) /\ \A i \in 1 .. Len(names) : names[i] \in Tasks
      /\ \A k \in 1 .. Len(es) : es[k].kind = kind /\ es[k].task = names[k]
  BY DEF Row
<1>2. /\ kind \in MovingKind
      /\ kind \notin R!RunKind \cup {"TASK_TIMED_OUT", "TASK_STARTED", "TASK_SUCCEEDED",
                                   "TASK_FAILED", "TASK_RETRY_SCHEDULED"}
  BY DEF MovingKind, R!TerminalKind, R!RunKind
<1>3. \A t : /\ ~ Tells(es, Len(es), t, {"TASK_STARTED"})
             /\ ~ Tells(es, Len(es), t, {"TASK_RETRY_SCHEDULED"})
             /\ ~ Tells(es, Len(es), t, {"TASK_TIMED_OUT"})
  BY <1>1, <1>2 DEF Tells
<1>4. TellsMoves(es)
  <2>1. ASSUME NEW t \in Tasks, ~ Tells(es, Len(es), t, MovingKind)
        PROVE  states'[t] = states[t]
    BY <1>1, <1>2, <2>1 DEF Tells
  <2>2. \A k \in 1 .. Len(es) : states'[es[k].task] = StateOf(es[k].kind)
    BY <1>1
  <2>3. \A k, l \in 1 .. Len(es) : es[k].task = es[l].task => k = l
    BY <1>1
  <2>4. QED
    BY <2>1, <2>2, <2>3 DEF TellsMoves
<1>5. TellsCounts(es)
  BY <1>3 DEF TellsCounts
<1>6. Acceptable(es)
  BY <1>1, <1>2 DEF Acceptable
<1>7. TellsOfRun(es)
  BY <1>1, <1>2 DEF TellsOfRun, R!RunKind
<1>8. QED
  BY <1>4, <1>5, <1>6, <1>7 DEF Retold

\* Where nothing is told, nobody moves
LEMMA TellsNothing ==
  ASSUME emitted' = <<>>, pc' # "done", logged' = logged,
         states' = states, attempts' = attempts, retries' = retries, timedOut' = timedOut,
         pc' = "created" <=> pc = "created"
  PROVE  Batch(emitted')
<1>1. Retold(<<>>)
  <2>1. <<>> \in Seq(EventRecord) /\ Len(<<>>) = 0
    OBVIOUS
  <2>2. \A k \in 1 .. Len(<<>>) : FALSE
    BY <2>1
  <2>3. PICK es : es = <<>>
    OBVIOUS
  <2>4. Retold(es)
    BY <2>1, <2>2, <2>3, NeutralRetold
  <2>5. QED
    BY <2>3, <2>4
<1>2. QED
  BY <1>1 DEF Batch, Truthful, Complete, TellsConditionsOnce, TellsCancelOnce

\* A row of events of one kind, of tasks that do not finish
LEMMA TellsOfTasks ==
  ASSUME NEW kind \in EventKind, NEW names \in Seq(Tasks),
         emitted' = TaskEvents(kind, names),
         kind \notin R!TerminalKind \cup {"CONDITION_EVALUATED", "RUN_CANCELLED"},
         kind = "RESOURCE_RELEASED" \/ \A i \in 1 .. Len(names) : states[names[i]] \notin Terminal,
         Retold(emitted'), pc' # "done", logged' = logged,
         \A t \in Tasks : states[t] \notin Terminal => states'[t] \notin Terminal
  PROVE  Batch(emitted')
<1>1. PICK es : es = emitted'
  OBVIOUS
<1>2. es \in Seq(EventRecord) /\ Len(es) = Len(names)
      /\ \A i \in 1 .. Len(names) : es[i].kind = kind /\ es[i].task = names[i]
  <2>1. Row(kind, names, TaskEvents(kind, names))
    BY TaskEventsFacts
  <2>2. QED
    BY <1>1, <2>1 DEF Row
<1>3. Truthful(es) /\ TellsConditionsOnce(es) /\ TellsCancelOnce(es)
  BY <1>2 DEF Truthful, TellsConditionsOnce, TellsCancelOnce
<1>4. Complete(es)
  BY DEF Complete
<1>5. Batch(es)
  BY <1>1, <1>2, <1>3, <1>4 DEF Batch
<1>6. QED
  BY <1>1, <1>5

\* One event
LEMMA TellsOne ==
  ASSUME NEW e \in EventRecord, emitted' = <<e>>,
         e.task \in Tasks => states[e.task] \notin Terminal,
         e.kind \in R!TerminalKind => e.task \in Tasks /\ states'[e.task] \in Terminal,
         e.kind \notin {"CONDITION_EVALUATED", "RUN_CANCELLED"},
         pc' = "done" => e.kind = "RUN_FINISHED",
         logged' = logged, Retold(emitted'),
         \A t \in Tasks : states[t] \notin Terminal /\ states'[t] \in Terminal =>
           e.task = t /\ e.kind \in R!TerminalKind
  PROVE  Batch(emitted')
<1>1. PICK es : es = emitted'
  OBVIOUS
<1>2. es \in Seq(EventRecord) /\ Len(es) = 1 /\ es[1] = e /\ \A k \in 1 .. Len(es) : k = 1
  BY <1>1
<1>3. Truthful(es) /\ TellsConditionsOnce(es) /\ TellsCancelOnce(es) /\ Complete(es)
  BY <1>2 DEF Truthful, TellsConditionsOnce, TellsCancelOnce, Complete
<1>4. Batch(es)
  BY <1>1, <1>2, <1>3 DEF Batch
<1>5. QED
  BY <1>1, <1>4

LEMMA BatchOfCancelRemaining ==
  ASSUME IInv, CancelRemaining
  PROVE  Batch(emitted')
<1>1. PICK names : names = Those(Order, Live)
  OBVIOUS
<1>2. /\ emitted' = TaskEvents("TASK_CANCELLED", names) /\ pc' = "finish" /\ logged' = logged
      /\ \A t \in Tasks : states'[t] = IF t \in Live THEN "CANCELLED" ELSE states[t]
  BY <1>1 DEF CancelRemaining, CancelEvents, Emit, edgeVars
<1>3. /\ Order \in Seq(Tasks)
      /\ \A i, j \in 1 .. Len(Order) : Order[i] = Order[j] => i = j
      /\ \A t \in Tasks : \E i \in 1 .. Len(Order) : Order[i] = t
  BY SchedulerAssumption DEF SchedulerAssumption, OrderAssumption
<1>4. /\ names \in Seq(Tasks)
      /\ \A i \in 1 .. Len(names) : names[i] \in Live
      /\ \A i, j \in 1 .. Len(names) : names[i] = names[j] => i = j
      /\ \A t \in Live : \E i \in 1 .. Len(names) : names[i] = t
  <2>1. PICK live : live = Live
    OBVIOUS
  <2>2. names = Those(Order, live)
    BY <1>1, <2>1
  <2>3. Leaves(Tasks, Order, live, names)
    BY <1>3, <2>2, ThoseFacts
  <2>4. /\ names \in Seq(Tasks)
        /\ \A i \in 1 .. Len(names) : names[i] \in live
        /\ \A i, j \in 1 .. Len(names) : names[i] = names[j] => i = j
    BY <1>3, <2>3 DEF Leaves
  <2>5. \A j \in 1 .. Len(Order) : Order[j] \in live =>
          \E i \in 1 .. Len(names) : names[i] = Order[j]
    BY <2>3 DEF Leaves
  <2>6. ASSUME NEW t \in Live PROVE \E i \in 1 .. Len(names) : names[i] = t
    <3>1. t \in Tasks /\ t \in live
      BY <2>1 DEF Live
    <3>2. PICK j \in 1 .. Len(Order) : Order[j] = t
      BY <1>3, <3>1
    <3>3. QED
      BY <2>5, <3>1, <3>2
  <2>7. QED
    BY <2>1, <2>4, <2>6
<1>5. PICK es : es = emitted'
  OBVIOUS
<1>6. /\ es \in Seq(EventRecord) /\ Len(es) = Len(names) /\ Len(names) \in Nat
      /\ \A i \in 1 .. Len(names) : es[i].kind = "TASK_CANCELLED" /\ es[i].task = names[i]
  <2>1. es = TaskEvents("TASK_CANCELLED", names) /\ names \in Seq(Tasks)
    BY <1>2, <1>4, <1>5
  <2>2. "TASK_CANCELLED" \in EventKind
    BY DEF EventKind, R!TerminalKind
  <2>3. Row("TASK_CANCELLED", names, TaskEvents("TASK_CANCELLED", names))
    BY <2>1, <2>2, TaskEventsFacts
  <2>4. QED
    BY <2>1, <2>3 DEF Row
<1>7. ASSUME NEW k \in 1 .. Len(es)
      PROVE  /\ es[k].task \in Tasks /\ states[es[k].task] \notin Terminal
             /\ states'[es[k].task] \in Terminal
             /\ \A l \in 1 .. Len(es) : l > k => es[l].task # es[k].task
  <2>1. names[k] \in Tasks /\ names[k] \in Live /\ es[k].task = names[k]
    BY <1>4, <1>6
  <2>2. states[names[k]] \notin Terminal /\ states'[names[k]] \in Terminal
    BY <1>2, <2>1 DEF Live, Terminal
  <2>3. \A l \in 1 .. Len(es) : l > k => es[l].task # es[k].task
    BY <1>4, <1>6
  <2>4. QED
    BY <2>1, <2>2, <2>3
<1>8. Truthful(es)
  BY <1>7 DEF Truthful
<1>9. Complete(es)
  <2>1. SUFFICES ASSUME NEW t \in Tasks, states[t] \notin Terminal
                 PROVE  \E k \in 1 .. Len(es) : es[k].task = t /\ es[k].kind \in R!TerminalKind
    BY DEF Complete
  <2>2. PICK k \in 1 .. Len(names) : names[k] = t
    BY <1>4, <2>1 DEF Live
  <2>3. QED
    BY <1>6, <2>2 DEF R!TerminalKind
<1>10. TellsConditionsOnce(es) /\ TellsCancelOnce(es)
  BY <1>6 DEF TellsConditionsOnce, TellsCancelOnce
<1>11. Retold(es)
  <2>1. Row("TASK_CANCELLED", names, es)
    BY <1>2, <1>4, <1>5, TaskEventsFacts DEF EventKind, R!TerminalKind
  <2>2. /\ pc = "loop" /\ attempts' = attempts /\ retries' = retries /\ timedOut' = timedOut
    BY DEF CancelRemaining
  <2>3. StateOf("TASK_CANCELLED") = "CANCELLED"
    BY DEF StateOf, R!StateAfter
  <2>4. \A t \in Tasks : t \in Live <=> \E i \in 1 .. Len(names) : names[i] = t
    BY <1>4
  <2>5. \A t \in Tasks : states'[t] = IF \E i \in 1 .. Len(names) : names[i] = t
                                    THEN StateOf("TASK_CANCELLED") ELSE states[t]
    BY <1>2, <2>3, <2>4
  <2>6. QED
    BY <1>2, <1>4, <2>1, <2>2, <2>5, RowRetold
<1>12. Batch(es)
  BY <1>2, <1>6, <1>8, <1>9, <1>10, <1>11 DEF Batch
<1>13. QED
  BY <1>5, <1>12

LEMMA BatchOfDue ==
  ASSUME IInv, ReleaseDueRetries
  PROVE  Batch(emitted')
<1>1. PICK due : due = DueRetries
  OBVIOUS
<1>2. PICK names : names = Those(Order, due)
  OBVIOUS
<1>3. /\ emitted' = TaskEvents("TASK_SCHEDULED", names) /\ pc' = "resolve" /\ logged' = logged
      /\ \A t \in Tasks : states'[t] = IF t \in due THEN "READY" ELSE states[t]
  BY <1>1, <1>2 DEF ReleaseDueRetries, DueEvents, Emit, edgeVars
<1>4. /\ Order \in Seq(Tasks)
      /\ \A i, j \in 1 .. Len(Order) : Order[i] = Order[j] => i = j
      /\ \A t \in Tasks : \E i \in 1 .. Len(Order) : Order[i] = t
  BY SchedulerAssumption DEF SchedulerAssumption, OrderAssumption
<1>5. /\ names \in Seq(Tasks) /\ \A i \in 1 .. Len(names) : names[i] \in due
      /\ \A i, j \in 1 .. Len(names) : names[i] = names[j] => i = j
      /\ \A t \in due : \E i \in 1 .. Len(names) : names[i] = t
  <2>1. Leaves(Tasks, Order, due, names)
    BY <1>2, <1>4, ThoseFacts
  <2>2. /\ names \in Seq(Tasks) /\ \A i \in 1 .. Len(names) : names[i] \in due
        /\ \A i, j \in 1 .. Len(names) : names[i] = names[j] => i = j
    BY <1>4, <2>1 DEF Leaves
  <2>3. \A j \in 1 .. Len(Order) : Order[j] \in due =>
          \E i \in 1 .. Len(names) : names[i] = Order[j]
    BY <2>1 DEF Leaves
  <2>4. ASSUME NEW t \in due PROVE \E i \in 1 .. Len(names) : names[i] = t
    <3>1. t \in Tasks
      BY <1>1 DEF DueRetries, WaitingForRetry, InState
    <3>2. PICK j \in 1 .. Len(Order) : Order[j] = t
      BY <1>4, <3>1
    <3>3. QED
      BY <2>3, <3>2
  <2>5. QED
    BY <2>2, <2>4
<1>6. \A i \in 1 .. Len(names) : states[names[i]] \notin Terminal
  BY <1>1, <1>5 DEF DueRetries, WaitingForRetry, InState, Terminal
<1>7. \A t \in Tasks : states[t] \notin Terminal => states'[t] \notin Terminal
  BY <1>3 DEF Terminal
<1>8. /\ "TASK_SCHEDULED" \in EventKind
      /\ "TASK_SCHEDULED" \notin R!TerminalKind \cup {"CONDITION_EVALUATED", "RUN_CANCELLED"}
  BY DEF EventKind, R!TerminalKind
<1>9. Retold(emitted')
  <2>1. PICK es : es = emitted'
    OBVIOUS
  <2>2. Row("TASK_SCHEDULED", names, es)
    BY <1>3, <1>5, <1>8, <2>1, TaskEventsFacts
  <2>3. pc = "loop" /\ attempts' = attempts /\ retries' = retries /\ timedOut' = timedOut
    BY DEF ReleaseDueRetries
  <2>4. StateOf("TASK_SCHEDULED") = "READY"
    BY DEF StateOf, R!StateAfter
  <2>5. \A t \in Tasks : t \in due <=> \E i \in 1 .. Len(names) : names[i] = t
    BY <1>5
  <2>6. \A t \in Tasks : states'[t] = IF \E i \in 1 .. Len(names) : names[i] = t
                                    THEN StateOf("TASK_SCHEDULED") ELSE states[t]
    BY <1>3, <2>4, <2>5
  <2>7. Retold(es)
    BY <1>3, <1>5, <2>2, <2>3, <2>6, RowRetold
  <2>8. QED
    BY <2>1, <2>7
<1>10. QED
  BY <1>3, <1>5, <1>6, <1>7, <1>8, <1>9, TellsOfTasks

LEMMA BatchOfDecision ==
  ASSUME IInv, DecidePending
  PROVE  Batch(emitted')
<1>1. PICK t \in Tasks : t = Order[cursor] /\ states[t] = "PENDING"
  BY OrderFacts DEF DecidePending, IInv, Control, TypeOK
<1>2. PICK outcome : Decide(t, outcome)
  BY <1>1 DEF DecidePending
<1>3. PICK verdict : verdict = Verdict(Rule[t], Reached(t, outcome))
  OBVIOUS
<1>4. verdict \in {"RUN", "SKIP", "UPSTREAM_FAILED", "WAIT"}
  BY <1>3, VerdictFacts
<1>5. PICK new : new = NewlyLogged(t)
  OBVIOUS
<1>6. PICK cs : cs = ConditionEvents(t)
  OBVIOUS
<1>7. pc' = "resolve" /\ UNCHANGED token /\ states \in [Tasks -> TaskState]
  BY <1>1, <1>2 DEF Decide, DecidePending, IInv, TypeOK
<1>8. logged' = logged \cup {e \in EdgesOf(t) : WasEvaluated(e)}
  BY <1>2 DEF Decide
<1>9. /\ new \in Seq(Tasks)
      /\ \A i \in 1 .. Len(new) : <<new[i], t>> \in logged' \ logged
      /\ \A i, j \in 1 .. Len(new) : new[i] = new[j] => i = j
  <2>1. PICK fresh : fresh = {u \in Upstreams(t) : WasEvaluated(<<u, t>>) /\ <<u, t>> \notin logged}
    OBVIOUS
  <2>2. new = Those(EdgesInto[t], fresh)
    BY <1>5, <2>1 DEF NewlyLogged
  <2>3. PICK edges : edges = EdgesInto[t]
    OBVIOUS
  <2>4. edges \in Seq(Tasks) /\ \A i, j \in 1 .. Len(edges) : edges[i] = edges[j] => i = j
    BY <2>3, SchedulerAssumption DEF SchedulerAssumption, WorkflowAssumption
  <2>5. Leaves(Tasks, edges, fresh, new)
    BY <2>2, <2>3, <2>4, ThoseFacts
  <2>6. /\ new \in Seq(Tasks) /\ \A i \in 1 .. Len(new) : new[i] \in fresh
        /\ \A i, j \in 1 .. Len(new) : new[i] = new[j] => i = j
    BY <2>4, <2>5 DEF Leaves
  <2>7. ASSUME NEW u \in fresh PROVE <<u, t>> \in logged' \ logged
    <3>1. u \in Upstreams(t) /\ WasEvaluated(<<u, t>>) /\ <<u, t>> \notin logged
      BY <2>1, <2>7
    <3>2. <<u, t>> \in EdgesOf(t)
      BY <3>1 DEF EdgesOf
    <3>3. QED
      BY <1>8, <3>1, <3>2
  <2>8. QED
    BY <2>6, <2>7
<1>10. /\ cs \in Seq(EventRecord) /\ Len(cs) = Len(new) /\ Len(new) \in Nat
       /\ \A i \in 1 .. Len(new) :
            cs[i].kind = "CONDITION_EVALUATED" /\ cs[i].task = t /\ cs[i].detail = new[i]
  <2>1. cs = [i \in 1 .. Len(new) |-> [kind |-> "CONDITION_EVALUATED", task |-> t,
                                      attempt |-> 0, detail |-> new[i]]]
    BY <1>5, <1>6 DEF ConditionEvents, Event
  <2>2. \A i \in 1 .. Len(new) : [kind |-> "CONDITION_EVALUATED", task |-> t,
                                  attempt |-> 0, detail |-> new[i]] \in EventRecord
    BY <1>9 DEF EventRecord, EventKind
  <2>3. Len(new) \in Nat
    BY <1>9
  <2>4. QED
    BY <2>1, <2>2, <2>3
<1>11. PICK es : es = emitted'
  OBVIOUS
<1>12. t \in Tasks /\ states[t] \notin Terminal
  BY <1>1 DEF Terminal
<1>13. pc = "resolve" /\ attempts' = attempts /\ retries' = retries /\ timedOut' = timedOut
  BY <1>2 DEF DecidePending, Decide
<1>14. CASE verdict = "WAIT"
  <2>1. es = cs /\ states' = states
    BY <1>2, <1>3, <1>6, <1>11, <1>14 DEF Decide, Emit
  <2>2. Truthful(es)
    BY <1>10, <1>12, <2>1 DEF Truthful, R!TerminalKind
  <2>3. Complete(es) /\ TellsCancelOnce(es)
    BY <1>10, <2>1 DEF Complete, TellsCancelOnce
  <2>4. TellsConditionsOnce(es)
    BY <1>9, <1>10, <2>1 DEF TellsConditionsOnce
  <2>5. Retold(es)
    <3>1. \A k \in 1 .. Len(es) : es[k].kind \in NeutralKind /\ es[k].task \in Tasks
      BY <1>10, <1>12, <2>1 DEF NeutralKind
    <3>2. QED
      BY <1>7, <1>10, <1>13, <2>1, <3>1, NeutralRetold
  <2>6. Batch(es)
    BY <1>7, <1>8, <1>10, <2>1, <2>2, <2>3, <2>4, <2>5 DEF Batch
  <2>7. QED
    BY <1>11, <2>6
<1>15. CASE verdict # "WAIT"
  <2>1. PICK e : e = TaskEvent(VerdictEvent(verdict), t)
    OBVIOUS
  <2>2. es = Append(cs, e) /\ states' = [states EXCEPT ![t] = VerdictState(verdict)]
    BY <1>2, <1>3, <1>6, <1>11, <1>15, <2>1 DEF Decide, Emit
  <2>3. PICK kind : kind = VerdictEvent(verdict)
    OBVIOUS
  <2>4. /\ kind \in {"TASK_SCHEDULED", "TASK_SKIPPED", "TASK_UPSTREAM_FAILED"}
        /\ kind \in R!TerminalKind <=> VerdictState(verdict) \in Terminal
    BY <1>4, <1>15, <2>3 DEF VerdictEvent, VerdictState, R!TerminalKind, Terminal
  <2>5. e \in EventRecord /\ e.kind = kind /\ e.task = t
    BY <2>1, <2>3, <2>4 DEF TaskEvent, Event, EventRecord, EventKind, R!TerminalKind
  <2>6. PICK n \in Nat : n = Len(cs)
    BY <1>10
  <2>7. /\ es \in Seq(EventRecord) /\ Len(es) = n + 1 /\ es[n + 1] = e
        /\ \A i \in 1 .. n : /\ es[i].kind = "CONDITION_EVALUATED" /\ es[i].task = t
                             /\ es[i].detail = new[i]
    BY <1>10, <2>2, <2>5, <2>6
  <2>8. \A k \in 1 .. Len(es) : k \in 1 .. n \/ k = n + 1
    BY <2>7
  <2>9. \A u \in Tasks : states'[u] = IF u = t THEN VerdictState(verdict) ELSE states[u]
    BY <1>7, <2>2
  <2>10. Truthful(es)
    <3>1. SUFFICES ASSUME NEW k \in 1 .. Len(es)
                   PROVE  /\ es[k].task = t
                          /\ es[k].kind \in R!TerminalKind =>
                               states'[t] \in Terminal /\ \A l \in 1 .. Len(es) : ~ (l > k)
      BY <1>12 DEF Truthful
    <3>2. CASE k \in 1 .. n
      BY <2>7, <3>2 DEF R!TerminalKind
    <3>3. CASE k = n + 1
      BY <1>12, <2>4, <2>5, <2>7, <2>9, <3>3
    <3>4. QED
      BY <2>8, <3>2, <3>3
  <2>11. Complete(es)
    <3>1. SUFFICES ASSUME NEW u \in Tasks, states[u] \notin Terminal, states'[u] \in Terminal
                   PROVE  \E k \in 1 .. Len(es) : es[k].task = u /\ es[k].kind \in R!TerminalKind
      BY DEF Complete
    <3>2. u = t /\ VerdictState(verdict) \in Terminal
      BY <2>9, <3>1
    <3>3. n + 1 \in 1 .. Len(es)
      BY <2>7
    <3>4. QED
      BY <2>4, <2>5, <2>7, <3>2, <3>3
  <2>12. TellsConditionsOnce(es)
    <3>1. ASSUME NEW k \in 1 .. Len(es), es[k].kind = "CONDITION_EVALUATED"
          PROVE  k \in 1 .. n
      BY <2>4, <2>5, <2>7, <2>8, <3>1
    <3>2. n = Len(new)
      BY <1>10, <2>6
    <3>3. QED
      BY <1>9, <2>7, <3>1, <3>2 DEF TellsConditionsOnce
  <2>13. TellsCancelOnce(es)
    BY <2>4, <2>5, <2>7, <2>8 DEF TellsCancelOnce
  <2>14. Retold(es)
    <3>1. kind \in MovingKind /\ StateOf(kind) = VerdictState(verdict)
      BY <1>4, <1>15, <2>3 DEF MovingKind, R!TerminalKind, StateOf, R!StateAfter, VerdictEvent,
         VerdictState
    <3>2. /\ "CONDITION_EVALUATED" \notin MovingKind \cup R!RunKind
          /\ kind \notin R!RunKind \cup {"TASK_TIMED_OUT", "TASK_STARTED", "TASK_SUCCEEDED",
                                       "TASK_FAILED", "TASK_RETRY_SCHEDULED"}
      BY <2>4 DEF MovingKind, R!TerminalKind, R!RunKind
    <3>3. \A k \in 1 .. Len(es) :
            /\ es[k].task = t
            /\ \/ es[k].kind = "CONDITION_EVALUATED" /\ k # n + 1
               \/ es[k].kind = kind /\ k = n + 1
      BY <2>5, <2>7, <2>8
    <3>4. n + 1 \in 1 .. Len(es)
      BY <2>7
    <3>5. \A u : /\ ~ Tells(es, Len(es), u, {"TASK_STARTED"})
                 /\ ~ Tells(es, Len(es), u, {"TASK_RETRY_SCHEDULED"})
                 /\ ~ Tells(es, Len(es), u, {"TASK_TIMED_OUT"})
      BY <3>2, <3>3 DEF Tells
    <3>6. Tells(es, Len(es), t, MovingKind)
      BY <3>1, <3>3, <3>4 DEF Tells
    <3>7. TellsMoves(es)
      <4>1. \A k \in 1 .. Len(es) :
              es[k].kind \in MovingKind => k = n + 1 /\ states'[es[k].task] = StateOf(es[k].kind)
        BY <1>12, <2>9, <3>1, <3>2, <3>3
      <4>2. \A u \in Tasks : ~ Tells(es, Len(es), u, MovingKind) => states'[u] = states[u]
        BY <2>9, <3>6
      <4>3. QED
        BY <4>1, <4>2 DEF TellsMoves
    <3>8. TellsCounts(es)
      BY <1>13, <3>5 DEF TellsCounts
    <3>9. Acceptable(es)
      BY <1>12, <3>2, <3>3 DEF Acceptable
    <3>10. TellsOfRun(es)
      BY <1>7, <1>13, <3>2, <3>3 DEF TellsOfRun, R!RunKind
    <3>11. QED
      BY <3>7, <3>8, <3>9, <3>10 DEF Retold
  <2>15. Batch(es)
    BY <1>7, <1>8, <2>7, <2>10, <2>11, <2>12, <2>13, <2>14 DEF Batch
  <2>16. QED
    BY <1>11, <2>15
<1>16. QED
  BY <1>14, <1>15

LEMMA BatchOfAnnouncement ==
  ASSUME IInv, LeftOutIsReady, Announce
  PROVE  Batch(emitted')
<1>1. PICK consuming : consuming = {t \in Tasks : \E p \in Pools : Request[t][p] > 0}
  OBVIOUS
<1>2. PICK out, in : out = blocked /\ in = Those(admitted, consuming)
  OBVIOUS
<1>3. PICK a, b : a = TaskEvents("RESOURCE_BLOCKED", out) /\ b = TaskEvents("RESOURCE_ACQUIRED", in)
  OBVIOUS
<1>4. PICK es : es = emitted'
  OBVIOUS
<1>5. pc = "admit" /\ pc' # "done" /\ logged' = logged /\ states' = states /\ es = a \o b
  BY <1>1, <1>2, <1>3, <1>4 DEF Announce, Emit, Consumers, edgeVars, taskVars
<1>6. PICK all : all = admitted
  OBVIOUS
<1>7. all \in Seq(Tasks) /\ out \in Seq(Tasks)
  BY <1>2, <1>6 DEF IInv, TypeOK
<1>8. /\ \A i \in 1 .. Len(out) : states[out[i]] = "READY"
      /\ \A i \in 1 .. Len(all) : states[all[i]] = "READY"
  BY <1>2, <1>5, <1>6, <1>7 DEF LeftOutIsReady, IInv, Control, Admitted, InState
<1>9. Leaves(Tasks, all, consuming, in)
  BY <1>2, <1>6, <1>7, ThoseFacts
<1>10. in \in Seq(Tasks) /\ \A i \in 1 .. Len(in) : states[in[i]] = "READY"
  BY <1>8, <1>9 DEF Leaves
<1>11. Row("RESOURCE_BLOCKED", out, a) /\ Row("RESOURCE_ACQUIRED", in, b)
  <2>1. "RESOURCE_BLOCKED" \in EventKind /\ "RESOURCE_ACQUIRED" \in EventKind
    BY DEF EventKind
  <2>2. QED
    BY <1>3, <1>7, <1>10, <2>1, TaskEventsFacts
<1>12. a \in Seq(EventRecord) /\ b \in Seq(EventRecord)
  BY <1>11 DEF Row
<1>13. ASSUME NEW k \in 1 .. Len(es)
       PROVE  /\ es[k].kind \in {"RESOURCE_BLOCKED", "RESOURCE_ACQUIRED"}
              /\ states[es[k].task] = "READY"
  <2>1. CASE k <= Len(a)
    <3>1. k \in 1 .. Len(a) /\ es[k] = a[k]
      BY <1>5, <1>12, <2>1
    <3>2. QED
      BY <1>8, <1>11, <3>1 DEF Row
  <2>2. CASE ~ (k <= Len(a))
    <3>1. k - Len(a) \in 1 .. Len(b) /\ es[k] = b[k - Len(a)]
      BY <1>5, <1>12, <2>2
    <3>2. QED
      BY <1>10, <1>11, <3>1 DEF Row
  <2>3. QED
    BY <2>1, <2>2
<1>14. es \in Seq(EventRecord)
  BY <1>5, <1>12
<1>15. Truthful(es) /\ TellsConditionsOnce(es) /\ TellsCancelOnce(es) /\ Complete(es)
  BY <1>5, <1>13 DEF Truthful, TellsConditionsOnce, TellsCancelOnce, Complete, Terminal,
     R!TerminalKind
<1>16. Retold(es)
  <2>1. attempts' = attempts /\ retries' = retries /\ timedOut' = timedOut /\ pc' # "created"
    BY DEF Announce, taskVars
  <2>2. ASSUME NEW k \in 1 .. Len(es) PROVE es[k].kind \in NeutralKind /\ es[k].task \in Tasks
    <3>1. CASE k <= Len(a)
      <4>1. k \in 1 .. Len(a) /\ es[k] = a[k]
        BY <1>5, <1>12, <3>1
      <4>2. QED
        BY <1>7, <1>11, <4>1 DEF Row, NeutralKind
    <3>2. CASE ~ (k <= Len(a))
      <4>1. k - Len(a) \in 1 .. Len(b) /\ es[k] = b[k - Len(a)]
        BY <1>5, <1>12, <3>2
      <4>2. QED
        BY <1>10, <1>11, <4>1 DEF Row, NeutralKind
    <3>3. QED
      BY <3>1, <3>2
  <2>3. QED
    BY <1>5, <1>14, <2>1, <2>2, NeutralRetold
<1>17. Batch(es)
  BY <1>5, <1>14, <1>15, <1>16 DEF Batch
<1>18. QED
  BY <1>4, <1>17

LEMMA BatchOfStart ==
  ASSUME IInv, StartTask
  PROVE  Batch(emitted')
<1>1. PICK t \in Tasks : t = admitted[cursor]
  <2>1. cursor \in 1 .. Len(admitted)
    BY DEF StartTask, IInv, Control, TypeOK
  <2>2. QED
    BY <2>1 DEF IInv, TypeOK
<1>2. /\ pc = "wave" /\ pc' = "body" /\ states[t] = "READY" /\ logged' = logged
      /\ attempts' = [attempts EXCEPT ![t] = @ + 1]
      /\ states' = [states EXCEPT ![t] = "RUNNING"]
      /\ emitted' = <<Event("TASK_STARTED", t, attempts'[t], NoTask)>>
  BY <1>1 DEF StartTask, IInv, Control, Emit, edgeVars
<1>3. PICK a \in Nat : a = attempts'[t]
  BY <1>2 DEF IInv, TypeOK
<1>4. PICK e : e = Event("TASK_STARTED", t, a, NoTask)
  OBVIOUS
<1>5. e \in EventRecord /\ e.kind = "TASK_STARTED" /\ e.task = t
  BY <1>4 DEF Event, EventRecord, EventKind
<1>6. emitted' = <<e>>
  BY <1>2, <1>3, <1>4
<1>7. \A u \in Tasks : states[u] \notin Terminal => states'[u] \notin Terminal
  BY <1>2 DEF IInv, TypeOK, Terminal
<1>8. states[e.task] \notin Terminal
  BY <1>2, <1>5 DEF Terminal
<1>9. e.kind \notin R!TerminalKind
  BY <1>5 DEF R!TerminalKind
<1>10. Retold(emitted')
  <2>1. PICK es : es = emitted'
    OBVIOUS
  <2>2. Len(es) = 1 /\ es[1] = e /\ \A k \in 1 .. Len(es) : k = 1
    BY <1>6, <2>1
  <2>3. /\ e.kind \in MovingKind /\ e.kind \notin R!RunKind /\ StateOf(e.kind) = "RUNNING"
        /\ e.attempt = a
    BY <1>4, <1>5 DEF MovingKind, R!RunKind, StateOf, R!StateAfter, Event
  <2>4. \A u : /\ Tells(es, Len(es), u, {"TASK_STARTED"}) <=> u = t
               /\ Tells(es, Len(es), u, MovingKind) <=> u = t
               /\ ~ Tells(es, Len(es), u, {"TASK_RETRY_SCHEDULED"})
               /\ ~ Tells(es, Len(es), u, {"TASK_TIMED_OUT"})
    BY <1>5, <2>2, <2>3 DEF Tells
  <2>5. /\ \A u \in Tasks : states'[u] = IF u = t THEN "RUNNING" ELSE states[u]
        /\ \A u \in Tasks : attempts'[u] = IF u = t THEN attempts[u] + 1 ELSE attempts[u]
    BY <1>2 DEF IInv, TypeOK
  <2>6. retries' = retries /\ timedOut' = timedOut
    BY DEF StartTask
  <2>7. TellsMoves(es)
    BY <1>5, <2>2, <2>3, <2>4, <2>5 DEF TellsMoves
  <2>8. TellsCounts(es)
    BY <2>4, <2>5, <2>6 DEF TellsCounts
  <2>9. Acceptable(es)
    BY <1>3, <1>5, <2>2, <2>3, <2>5 DEF Acceptable
  <2>10. TellsOfRun(es)
    BY <1>2, <1>5, <2>2 DEF TellsOfRun
  <2>11. QED
    BY <2>1, <2>7, <2>8, <2>9, <2>10 DEF Retold
<1>11. QED
  BY <1>2, <1>5, <1>6, <1>7, <1>8, <1>9, <1>10, TellsOne

\* What a completion appends: perhaps that the attempt overran, what became of it, and
\* perhaps that the run is cancelled
LEMMA BatchOfCompletion ==
  ASSUME IInv, CompleteTask
  PROVE  Batch(emitted')
<1>1. PICK t \in Tasks : t = admitted[cursor] /\ states[t] = "RUNNING"
  BY BodyFacts DEF CompleteTask
<1>2. PICK c : SucceedTask(t, c) \/ RetryTask(t, c) \/ FailTask(t, c)
  BY <1>1 DEF CompleteTask
<1> DEFINE Told(kind) ==
      /\ pc' = "wave" /\ logged' = logged /\ attempts' = attempts
      /\ timedOut' = IF Overran(t, c.elapsed) THEN timedOut \cup {t} ELSE timedOut
      /\ token' # token => token = "active" /\ token' # "active"
      /\ emitted' = ((IF Overran(t, c.elapsed)
                      THEN <<Event("TASK_TIMED_OUT", t, attempts[t], NoTask)>> ELSE <<>>)
                     \o <<Event(kind, t, attempts[t], NoTask)>>)
                     \o (IF token' # token
                         THEN <<RunEvent("RUN_CANCELLED", NoTask)>> ELSE <<>>)
<1>3. PICK kind, s :
        /\ \/ kind = "TASK_SUCCEEDED" /\ s = "SUCCEEDED"
           \/ kind = "TASK_FAILED" /\ s = "FAILED"
           \/ kind = "TASK_RETRY_SCHEDULED" /\ s = "RETRY_WAIT"
        /\ states' = [states EXCEPT ![t] = s]
        /\ retries' = IF kind = "TASK_RETRY_SCHEDULED" THEN [retries EXCEPT ![t] = @ + 1]
                      ELSE retries
        /\ Told(kind)
  <2>1. CASE SucceedTask(t, c)
    <3>1. states' = [states EXCEPT ![t] = "SUCCEEDED"] /\ retries' = retries
      BY <2>1 DEF SucceedTask
    <3>2. Told("TASK_SUCCEEDED")
      BY <2>1 DEF SucceedTask, EndAttempt, Emit, Cause, edgeVars
    <3> HIDE DEF Told
    <3>3. QED
      BY <3>1, <3>2
  <2>2. CASE RetryTask(t, c)
    <3>1. states' = [states EXCEPT ![t] = "RETRY_WAIT"] /\ retries' = [retries EXCEPT ![t] = @ + 1]
      BY <2>2 DEF RetryTask
    <3>2. Told("TASK_RETRY_SCHEDULED")
      BY <2>2 DEF RetryTask, EndAttempt, Emit, Cause, edgeVars
    <3> HIDE DEF Told
    <3>3. QED
      BY <3>1, <3>2
  <2>3. CASE FailTask(t, c)
    <3>1. states' = [states EXCEPT ![t] = "FAILED"] /\ retries' = retries
      BY <2>3 DEF FailTask
    <3>2. Told("TASK_FAILED")
      BY <2>3 DEF FailTask, EndAttempt, Emit, Cause, edgeVars
    <3> HIDE DEF Told
    <3>3. QED
      BY <3>1, <3>2
  <2>4. QED
    BY <1>2, <2>1, <2>2, <2>3
<1>4. /\ kind \in {"TASK_SUCCEEDED", "TASK_FAILED", "TASK_RETRY_SCHEDULED"}
      /\ kind \in R!TerminalKind <=> s \in Terminal
  BY <1>3 DEF R!TerminalKind, Terminal
<1>5. PICK a \in Nat : a = attempts[t]
  BY DEF IInv, TypeOK
<1>6. PICK over, told, cancel : /\ over = Event("TASK_TIMED_OUT", t, a, NoTask)
                                /\ told = Event(kind, t, a, NoTask)
                                /\ cancel = RunEvent("RUN_CANCELLED", NoTask)
  OBVIOUS
<1>7. /\ over \in EventRecord /\ over.kind = "TASK_TIMED_OUT" /\ over.task = t
      /\ told \in EventRecord /\ told.kind = kind /\ told.task = t
      /\ cancel \in EventRecord /\ cancel.kind = "RUN_CANCELLED" /\ cancel.task = NoTask
  BY <1>4, <1>6 DEF Event, RunEvent, EventRecord, EventKind, R!TerminalKind
<1>8. PICK es : es = emitted'
  OBVIOUS
<1>9. /\ es = ((IF Overran(t, c.elapsed) THEN <<over>> ELSE <<>>) \o <<told>>)
                 \o (IF token' # token THEN <<cancel>> ELSE <<>>)
      /\ pc' = "wave" /\ logged' = logged /\ attempts' = attempts
      /\ timedOut' = IF Overran(t, c.elapsed) THEN timedOut \cup {t} ELSE timedOut
  BY <1>3, <1>5, <1>6, <1>8
<1>10. token' # token => token = "active" /\ token' # "active"
  BY <1>3
<1> HIDE DEF Told
<1>11. PICK x, y : /\ es = (x \o <<told>>) \o y
                   /\ \/ x = <<>> /\ timedOut' = timedOut
                      \/ x = <<over>> /\ timedOut' = timedOut \cup {t}
                   /\ y = <<>> \/ (y = <<cancel>> /\ token = "active" /\ token' # "active")
  BY <1>9, <1>10
<1>12. PICK n \in Nat : n = Len(x)
  BY <1>11
<1>13. /\ es \in Seq(EventRecord) /\ Len(es) = n + 1 + Len(y) /\ es[n + 1] = told
       /\ \A k \in 1 .. Len(es) :
            \/ k < n + 1 /\ es[k] = over
            \/ k = n + 1
            \/ k = n + 2 /\ es[k] = cancel /\ Len(y) = 1 /\ token = "active" /\ token' # "active"
  <2>1. x \in Seq(EventRecord) /\ y \in Seq(EventRecord) /\ <<told>> \in Seq(EventRecord)
    <3>1. \A r \in EventRecord : <<r>> \in Seq(EventRecord)
      OBVIOUS
    <3>2. <<>> \in Seq(EventRecord)
      OBVIOUS
    <3>3. <<over>> \in Seq(EventRecord) /\ <<told>> \in Seq(EventRecord)
          /\ <<cancel>> \in Seq(EventRecord)
      BY <1>7, <3>1
    <3>4. QED
      BY <1>11, <3>2, <3>3
  <2>2. /\ x \o <<told>> \in Seq(EventRecord) /\ Len(x \o <<told>>) = n + 1
        /\ (x \o <<told>>)[n + 1] = told
        /\ \A k \in 1 .. n : (x \o <<told>>)[k] = x[k]
    BY <1>12, <2>1
  <2>3. PICK z : z = x \o <<told>>
    OBVIOUS
  <2>4. /\ es \in Seq(EventRecord) /\ Len(es) = n + 1 + Len(y)
        /\ \A k \in 1 .. n + 1 : es[k] = z[k]
        /\ \A k \in 1 .. Len(y) : es[n + 1 + k] = y[k]
    <3>1. z \in Seq(EventRecord) /\ y \in Seq(EventRecord) /\ es = z \o y /\ Len(z) = n + 1
      BY <1>11, <2>1, <2>2, <2>3
    <3>2. Len(y) \in Nat
      BY <2>1
    <3>3. Len(es) = Len(z) + Len(y) /\ es \in Seq(EventRecord)
      <4>1. \A v, w \in Seq(EventRecord) :
              v \o w \in Seq(EventRecord) /\ Len(v \o w) = Len(v) + Len(w)
        OBVIOUS
      <4>2. QED
        BY <3>1, <4>1
    <3>4. \A k \in 1 .. Len(z) : es[k] = z[k]
      BY <3>1
    <3>5. \A k \in 1 .. Len(y) : es[Len(z) + k] = y[k]
      BY <3>1
    <3>6. QED
      BY <3>1, <3>3, <3>4, <3>5
  <2>5. \A k \in 1 .. n : x[k] = over
    BY <1>11, <1>12
  <2>6. \A k \in 1 .. Len(y) : /\ k = 1 /\ y[k] = cancel /\ Len(y) = 1
                               /\ token = "active" /\ token' # "active"
    BY <1>11
  <2>7. ASSUME NEW k \in 1 .. Len(es)
        PROVE  \/ k < n + 1 /\ es[k] = over
               \/ k = n + 1
               \/ /\ k = n + 2 /\ es[k] = cancel /\ Len(y) = 1
                  /\ token = "active" /\ token' # "active"
    <3>1. CASE k < n + 1
      BY <2>2, <2>3, <2>4, <2>5, <3>1
    <3>2. CASE k > n + 1
      <4>1. k - (n + 1) \in 1 .. Len(y) /\ (n + 1) + (k - (n + 1)) = k
        BY <2>1, <2>4, <3>2
      <4>2. QED
        BY <2>4, <2>6, <4>1
    <3>3. QED
      BY <3>1, <3>2
  <2>8. es[n + 1] = told
    BY <2>2, <2>3, <2>4
  <2>9. QED
    BY <2>4, <2>7, <2>8
<1>14. n + 1 \in 1 .. Len(es) /\ Len(y) \in Nat
  BY <1>11, <1>13
<1>15. \A u \in Tasks : states'[u] = IF u = t THEN s ELSE states[u]
  BY <1>3 DEF IInv, TypeOK
<1>16. NoTask \notin Tasks /\ states[t] \notin Terminal
  BY <1>1, SchedulerAssumption DEF SchedulerAssumption, WorkflowAssumption, Terminal
<1>17. Truthful(es)
  <2>1. SUFFICES ASSUME NEW k \in 1 .. Len(es)
                 PROVE  /\ es[k].task \in {t, NoTask}
                        /\ es[k].kind \in R!TerminalKind =>
                             /\ es[k].task = t /\ s \in Terminal
                             /\ \A l \in 1 .. Len(es) : l > k => es[l].task # t
    BY <1>15, <1>16 DEF Truthful
  <2>2. CASE k = n + 1
    <3>1. \A l \in 1 .. Len(es) : l > k => es[l].task = NoTask
      BY <1>7, <1>13, <2>2
    <3>2. QED
      BY <1>4, <1>7, <1>13, <1>16, <2>2, <3>1
  <2>3. CASE k # n + 1
    BY <1>7, <1>13, <2>3 DEF R!TerminalKind
  <2>4. QED
    BY <2>2, <2>3
<1>18. Complete(es)
  <2>1. SUFFICES ASSUME NEW u \in Tasks, states[u] \notin Terminal, states'[u] \in Terminal
                 PROVE  \E k \in 1 .. Len(es) : es[k].task = u /\ es[k].kind \in R!TerminalKind
    BY DEF Complete
  <2>2. u = t /\ s \in Terminal
    BY <1>15, <2>1
  <2>3. QED
    BY <1>4, <1>7, <1>13, <1>14, <2>2
<1>19. TellsConditionsOnce(es)
  <2>1. \A k \in 1 .. Len(es) : es[k].kind # "CONDITION_EVALUATED"
    BY <1>4, <1>7, <1>13
  <2>2. QED
    BY <2>1 DEF TellsConditionsOnce
<1>20. TellsCancelOnce(es)
  <2>1. \A k \in 1 .. Len(es) : es[k].kind = "RUN_CANCELLED" =>
          k = n + 2 /\ token = "active" /\ token' # "active"
    BY <1>4, <1>7, <1>13
  <2>2. QED
    BY <2>1 DEF TellsCancelOnce
<1>21. Retold(es)
  <2>1. /\ kind \in MovingKind /\ StateOf(kind) = s
        /\ {"TASK_TIMED_OUT", "RUN_CANCELLED"} \cap MovingKind = {}
    BY <1>3 DEF MovingKind, R!TerminalKind, StateOf, R!StateAfter
  <2>2. /\ "TASK_TIMED_OUT" \notin R!RunKind /\ kind \notin R!RunKind
        /\ "RUN_CANCELLED" \in R!RunKind
    BY <1>4 DEF R!RunKind
  <2>3. \A k \in 1 .. Len(es) :
          \/ k < n + 1 /\ es[k].kind = "TASK_TIMED_OUT" /\ es[k].task = t
          \/ k = n + 1 /\ es[k].kind = kind /\ es[k].task = t
          \/ k = n + 2 /\ es[k].kind = "RUN_CANCELLED" /\ es[k].task = NoTask
    BY <1>7, <1>13
  <2>4. /\ timedOut' = timedOut \cup (IF n = 0 THEN {} ELSE {t})
        /\ n # 0 => 1 \in 1 .. Len(es) /\ 1 < n + 1
    BY <1>11, <1>12, <1>13
  <2>5. ASSUME NEW u \in Tasks
        PROVE  /\ ~ Tells(es, Len(es), u, {"TASK_STARTED"})
               /\ Tells(es, Len(es), u, {"TASK_RETRY_SCHEDULED"}) <=>
                    u = t /\ kind = "TASK_RETRY_SCHEDULED"
               /\ Tells(es, Len(es), u, {"TASK_TIMED_OUT"}) <=> u = t /\ n # 0
               /\ Tells(es, Len(es), u, MovingKind) <=> u = t
    <3>1. ~ Tells(es, Len(es), u, {"TASK_STARTED"})
      BY <1>4, <2>3 DEF Tells
    <3>2. Tells(es, Len(es), u, {"TASK_RETRY_SCHEDULED"}) <=>
            u = t /\ kind = "TASK_RETRY_SCHEDULED"
      BY <1>14, <1>16, <2>3 DEF Tells
    <3>3. Tells(es, Len(es), u, {"TASK_TIMED_OUT"}) <=> u = t /\ n # 0
      BY <1>4, <2>3, <2>4 DEF Tells
    <3>4. Tells(es, Len(es), u, MovingKind) <=> u = t
      BY <1>14, <1>16, <2>1, <2>3 DEF Tells
    <3>5. QED
      BY <3>1, <3>2, <3>3, <3>4
  <2>6. TellsMoves(es)
    <3>1. \A k \in 1 .. Len(es) : es[k].kind \in MovingKind =>
            k = n + 1 /\ states'[es[k].task] = StateOf(es[k].kind)
      BY <1>15, <2>1, <2>3
    <3>2. \A u \in Tasks : ~ Tells(es, Len(es), u, MovingKind) => states'[u] = states[u]
      BY <1>15, <2>5
    <3>3. QED
      BY <3>1, <3>2 DEF TellsMoves
  <2>7. TellsCounts(es)
    <3>1. retries \in [Tasks -> Nat]
      BY DEF IInv, TypeOK
    <3>2. \A u \in Tasks : retries'[u] = IF u = t /\ kind = "TASK_RETRY_SCHEDULED"
                                       THEN retries[u] + 1 ELSE retries[u]
      BY <1>3, <3>1
    <3>3. QED
      BY <1>9, <2>4, <2>5, <3>2 DEF TellsCounts
  <2>8. Acceptable(es)
    BY <1>1, <1>4, <2>2, <2>3 DEF Acceptable
  <2>9. TellsOfRun(es)
    <3>1. pc = "body"
      BY DEF CompleteTask
    <3>2. \A k \in 1 .. Len(es) : es[k].kind \notin {"RUN_STARTED", "RUN_FINISHED"}
      BY <1>4, <2>3
    <3>3. QED
      BY <1>9, <3>1, <3>2 DEF TellsOfRun
  <2>10. QED
    BY <2>6, <2>7, <2>8, <2>9 DEF Retold
<1>22. Batch(es)
  BY <1>9, <1>13, <1>17, <1>18, <1>19, <1>20, <1>21 DEF Batch
<1>23. QED
  BY <1>8, <1>22

LEMMA BatchOfRelease ==
  ASSUME IInv, ReleaseTask
  PROVE  Batch(emitted')
<1>1. PICK t \in Tasks : t = admitted[cursor]
  <2>1. cursor \in 1 .. Len(admitted)
    BY DEF ReleaseTask, IInv, Control, TypeOK
  <2>2. QED
    BY <2>1 DEF IInv, TypeOK
<1>2. PICK consuming : consuming = {u \in Tasks : \E p \in Pools : Request[u][p] > 0}
  OBVIOUS
<1>3. PICK names : names = Those(<<t>>, consuming)
  OBVIOUS
<1>4. /\ pc = "release" /\ pc' = "release" /\ logged' = logged
      /\ states' = states /\ attempts' = attempts /\ retries' = retries /\ timedOut' = timedOut
      /\ emitted' = TaskEvents("RESOURCE_RELEASED", names) \/ emitted' = <<>>
  BY <1>1, <1>2, <1>3 DEF ReleaseTask, ReleaseEvents, Consumers, Emit, edgeVars, taskVars
<1>5. names \in Seq(Tasks)
  <2>1. <<t>> \in Seq(Tasks)
    OBVIOUS
  <2>2. Leaves(Tasks, <<t>>, consuming, names)
    BY <1>3, <2>1, ThoseFacts
  <2>3. QED
    BY <2>2 DEF Leaves
<1>6. CASE emitted' = <<>>
  BY <1>4, <1>6, TellsNothing
<1>7. CASE emitted' = TaskEvents("RESOURCE_RELEASED", names)
  <2>1. /\ "RESOURCE_RELEASED" \in EventKind
        /\ "RESOURCE_RELEASED" \notin R!TerminalKind \cup {"CONDITION_EVALUATED", "RUN_CANCELLED"}
    BY DEF EventKind, R!TerminalKind
  <2>2. Retold(emitted')
    <3>1. PICK es : es = emitted'
      OBVIOUS
    <3>2. Row("RESOURCE_RELEASED", names, es)
      BY <1>5, <1>7, <2>1, <3>1, TaskEventsFacts
    <3>3. /\ es \in Seq(EventRecord)
          /\ \A k \in 1 .. Len(es) : es[k].kind \in NeutralKind /\ es[k].task \in Tasks
      BY <1>5, <3>2 DEF Row, NeutralKind
    <3>4. Retold(es)
      BY <1>4, <3>3, NeutralRetold
    <3>5. QED
      BY <3>1, <3>4
  <2>3. QED
    BY <1>4, <1>5, <1>7, <2>1, <2>2, TellsOfTasks
<1>8. QED
  BY <1>4, <1>6, <1>7

\* One event about the run as a whole
LEMMA RunEventRetold ==
  ASSUME NEW e, emitted' = <<e>>,
         \/ e.kind = "RUN_STARTED" /\ pc = "created" /\ pc' = "loop"
         \/ /\ e.kind = "RUN_FINISHED" /\ pc = "finish" /\ pc' = "done"
            /\ e.detail = runState',
         states' = states, attempts' = attempts, retries' = retries, timedOut' = timedOut
  PROVE  Retold(emitted')
<1>1. PICK es : es = emitted'
  OBVIOUS
<1>2. Len(es) = 1 /\ es[1] = e /\ \A k \in 1 .. Len(es) : k = 1
  BY <1>1
<1>3. /\ e.kind \in R!RunKind /\ e.kind \notin MovingKind \cup {"TASK_TIMED_OUT"}
  BY DEF MovingKind, R!TerminalKind, R!RunKind
<1>4. \A t : /\ ~ Tells(es, Len(es), t, {"TASK_STARTED"})
             /\ ~ Tells(es, Len(es), t, {"TASK_RETRY_SCHEDULED"})
             /\ ~ Tells(es, Len(es), t, {"TASK_TIMED_OUT"})
  BY <1>2, <1>3 DEF Tells, MovingKind
<1>5. TellsMoves(es)
  BY <1>2, <1>3 DEF TellsMoves
<1>6. TellsCounts(es)
  BY <1>4 DEF TellsCounts
<1>7. Acceptable(es)
  BY <1>2, <1>3 DEF Acceptable, MovingKind, R!TerminalKind
<1>8. TellsOfRun(es)
  BY <1>2 DEF TellsOfRun
<1>9. QED
  BY <1>1, <1>5, <1>6, <1>7, <1>8 DEF Retold

\* What begins a run, and what ends it
LEMMA BatchOfRun ==
  ASSUME IInv, Start \/ Finish
  PROVE  Batch(emitted')
<1>1. NoTask \notin Tasks
  BY SchedulerAssumption DEF SchedulerAssumption, WorkflowAssumption
<1>2. CASE Start
  <2>1. PICK e : e = RunEvent("RUN_STARTED", NoTask)
    OBVIOUS
  <2>2. e \in EventRecord /\ e.kind = "RUN_STARTED" /\ e.task \notin Tasks
        /\ e.kind \notin R!TerminalKind
    BY <1>1, <2>1 DEF RunEvent, Event, EventRecord, EventKind, R!TerminalKind
  <2>3. /\ emitted' = <<e>> /\ logged' = logged /\ pc = "created" /\ pc' = "loop"
        /\ states' = states /\ attempts' = attempts /\ retries' = retries /\ timedOut' = timedOut
    BY <1>2, <2>1 DEF Start, Emit, edgeVars, taskVars
  <2>4. Retold(emitted')
    BY <2>2, <2>3, RunEventRetold
  <2>5. QED
    BY <2>2, <2>3, <2>4, TellsOne
<1>3. CASE Finish
  <2>1. PICK s : s = FinalRunState
    OBVIOUS
  <2>2. s \in RunState
    <3>1. IInv'
      BY <1>3, InvNext DEF Next, Step
    <3>2. runState' \in RunState
      BY <3>1 DEF IInv, TypeOK
    <3>3. QED
      BY <1>3, <2>1, <3>2 DEF Finish
  <2>3. PICK e : e = RunEvent("RUN_FINISHED", s)
    OBVIOUS
  <2>4. e \in EventRecord /\ e.kind = "RUN_FINISHED" /\ e.task \notin Tasks
        /\ e.kind \notin R!TerminalKind
    BY <1>1, <2>2, <2>3 DEF RunEvent, Event, EventRecord, EventKind, R!TerminalKind
  <2>5. /\ emitted' = <<e>> /\ logged' = logged /\ pc = "finish" /\ pc' = "done"
        /\ states' = states /\ attempts' = attempts /\ retries' = retries /\ timedOut' = timedOut
        /\ e.detail = runState'
    BY <1>3, <2>1, <2>3 DEF Finish, Emit, edgeVars, taskVars, RunEvent, Event
  <2>6. Retold(emitted')
    BY <2>4, <2>5, RunEventRetold
  <2>7. QED
    BY <2>4, <2>5, <2>6, TellsOne
<1>4. QED
  BY <1>2, <1>3

\* What any step appends is such a batch
LEMMA BatchNext ==
  ASSUME IInv, LeftOutIsReady, Step \/ CancelFromOutside
  PROVE  Batch(emitted')
<1>1. CASE \/ ExhaustIterations \/ PassOver \/ NextPass \/ EndResolve \/ BeginAdmission
           \/ WaitForRetry \/ CannotWait \/ LeaveLoop \/ EndWave \/ EndDispatch
           \/ \E t \in Tasks : AdmitTask(t) \/ BlockTask(t)
  <2>1. /\ emitted' = <<>> /\ logged' = logged /\ pc' # "done" /\ pc # "created"
        /\ states' = states /\ attempts' = attempts /\ retries' = retries /\ timedOut' = timedOut
        /\ pc' # "created"
    <3>1. CASE ExhaustIterations \/ PassOver \/ NextPass \/ EndResolve
      BY <3>1 DEF ExhaustIterations, Raise, PassOver, NextPass, EndResolve, Emit, edgeVars,
         taskVars
    <3>2. CASE BeginAdmission \/ WaitForRetry \/ CannotWait \/ LeaveLoop
      BY <3>2 DEF BeginAdmission, WaitForRetry, CannotWait, LeaveLoop, Raise, Emit,
         edgeVars, taskVars
    <3>3. CASE EndWave \/ EndDispatch
      BY <3>3 DEF EndWave, EndDispatch, Emit, edgeVars, taskVars
    <3>4. CASE \E t \in Tasks : AdmitTask(t) \/ BlockTask(t)
      BY <3>4 DEF AdmitTask, BlockTask, Emit, edgeVars, taskVars
    <3>5. QED
      BY <1>1, <3>1, <3>2, <3>3, <3>4
  <2>2. QED
    BY <2>1, TellsNothing
<1>2. CASE CancelFromOutside
  <2>1. /\ emitted' = <<>> /\ pc' # "done" /\ logged' = logged /\ pc' = pc
        /\ states' = states /\ attempts' = attempts /\ retries' = retries /\ timedOut' = timedOut
    BY <1>2 DEF CancelFromOutside, Stopped, Emit, edgeVars, taskVars
  <2>2. QED
    BY <2>1, TellsNothing
<1>3. CASE \/ Start \/ Finish \/ CancelRemaining \/ ReleaseDueRetries \/ DecidePending
           \/ Announce \/ StartTask \/ CompleteTask \/ ReleaseTask
  BY <1>3, BatchOfRun, BatchOfCancelRemaining, BatchOfDue, BatchOfDecision,
     BatchOfAnnouncement, BatchOfStart, BatchOfCompletion, BatchOfRelease
<1>4. QED
  BY <1>1, <1>2, <1>3 DEF Step

LEMMA LeftOutNext == IInv /\ LeftOutIsReady /\ [Next]_vars => LeftOutIsReady'
<1> SUFFICES ASSUME IInv, LeftOutIsReady, [Next]_vars, pc' = "admit"
             PROVE  \A i \in 1 .. Len(blocked') : states'[blocked'[i]] = "READY"
  BY DEF LeftOutIsReady
<1>1. CASE UNCHANGED vars \/ CancelFromOutside \/ Rest \/ \E t \in Tasks : AdmitTask(t)
  BY <1>1 DEF vars, CancelFromOutside, Rest, AdmitTask, taskVars, waveVars, LeftOutIsReady
<1>2. CASE BeginAdmission
  BY <1>2 DEF BeginAdmission
<1>3. ASSUME NEW t \in Tasks, BlockTask(t)
      PROVE  \A i \in 1 .. Len(blocked') : states'[blocked'[i]] = "READY"
  <2>1. /\ blocked \in Seq(Tasks) /\ blocked' = Append(blocked, t) /\ states' = states
        /\ pc = "admit" /\ states[t] = "READY"
    BY <1>3 DEF BlockTask, NextConsidered, taskVars, IInv, TypeOK, Control, InState
  <2>2. PICK old, new : old = blocked /\ new = blocked'
    OBVIOUS
  <2>3. /\ Len(old) \in Nat /\ Len(new) = Len(old) + 1 /\ new[Len(old) + 1] = t
        /\ \A i \in 1 .. Len(old) : new[i] = old[i]
    BY <2>1, <2>2
  <2>4. \A i \in 1 .. Len(new) : i \in 1 .. Len(old) \/ i = Len(old) + 1
    BY <2>3
  <2>5. QED
    BY <2>1, <2>2, <2>3, <2>4 DEF LeftOutIsReady
<1>4. CASE \/ Start \/ ExhaustIterations \/ CancelRemaining \/ ReleaseDueRetries \/ PassOver
           \/ DecidePending \/ NextPass \/ EndResolve
  BY <1>4 DEF Start, ExhaustIterations, Raise, CancelRemaining, ReleaseDueRetries, PassOver,
     DecidePending, Decide, NextPass, EndResolve
<1>5. CASE \/ WaitForRetry \/ CannotWait \/ LeaveLoop \/ Announce \/ StartTask
           \/ EndWave \/ ReleaseTask \/ EndDispatch \/ Finish
  BY <1>5 DEF WaitForRetry, CannotWait, Raise, LeaveLoop, Announce, StartTask,
     EndWave, ReleaseTask, EndDispatch, Finish
<1>6. CASE CompleteTask
  BY <1>6 DEF CompleteTask, SucceedTask, RetryTask, FailTask, EndAttempt
<1>7. QED
  BY <1>1, <1>2, <1>3, <1>4, <1>5, <1>6 DEF Next, Step

-------------------------------------------------------------------------------
(* What the whole log says.                                                  *)

LogEntry ==
  [seq : Nat, at : Nat, kind : EventKind, task : Tasks \cup {NoTask}, attempt : Nat,
   detail : Tasks \cup {NoTask} \cup RunState]

\* After the end of a task there is only the release of its slots
EndsStand ==
  \A i \in 1 .. Len(log) :
    log[i].kind \in R!TerminalKind =>
      /\ log[i].task \in Tasks /\ states[log[i].task] \in Terminal
      /\ \A j \in 1 .. Len(log) :
           j > i /\ log[j].task = log[i].task => log[j].kind = "RESOURCE_RELEASED"

EndsTold ==
  \A t \in Tasks : states[t] \in Terminal =>
    \E i \in 1 .. Len(log) : log[i].task = t /\ log[i].kind \in R!TerminalKind

ConditionsTold ==
  \A i \in 1 .. Len(log) :
    log[i].kind = "CONDITION_EVALUATED" =>
      /\ <<log[i].detail, log[i].task>> \in logged
      /\ \A j \in 1 .. Len(log) :
           log[j].kind = "CONDITION_EVALUATED" /\ log[j].detail = log[i].detail
             /\ log[j].task = log[i].task => j = i

CancelTold ==
  \A i \in 1 .. Len(log) :
    log[i].kind = "RUN_CANCELLED" =>
      /\ token # "active"
      /\ \A j \in 1 .. Len(log) : log[j].kind = "RUN_CANCELLED" => j = i

\* OneEndPerTask, with what the scheduler holds that keeps it true: a task is finished
\* exactly when the log says so, the recorded conditions are those it noted, and a
\* cancelled run has a cancelled token
Telling ==
  /\ log \in Seq(LogEntry)
  /\ EndsStand /\ EndsTold /\ ConditionsTold /\ CancelTold
  /\ pc = "done" => Len(log) > 0 /\ log[Len(log)].kind = "RUN_FINISHED"

\* new is es with a position and a time
Stamps(new, es) ==
  /\ new \in Seq(LogEntry) /\ Len(new) = Len(es) /\ Len(es) \in Nat
  /\ \A k \in 1 .. Len(es) : /\ new[k].kind = es[k].kind /\ new[k].task = es[k].task
                             /\ new[k].attempt = es[k].attempt
                             /\ new[k].detail = es[k].detail
                             /\ new[k].at = clock' /\ new[k].seq = Len(log) + k - 1

LEMMA StampedFacts ==
  ASSUME emitted' \in Seq(EventRecord), log \in Seq(LogEntry), clock' \in Nat
  PROVE  Stamps(Stamped(emitted'), emitted')
<1>1. PICK es, new, now, n : es = emitted' /\ new = Stamped(emitted') /\ now = clock' /\ n = Len(log)
  OBVIOUS
<1>2. new = [k \in 1 .. Len(es) |->
               [seq |-> n + k - 1, at |-> now, kind |-> es[k].kind, task |-> es[k].task,
                attempt |-> es[k].attempt, detail |-> es[k].detail]]
  BY <1>1 DEF Stamped
<1>3. n \in Nat /\ now \in Nat /\ Len(es) \in Nat /\ es \in Seq(EventRecord)
  BY <1>1
<1>4. \A k \in 1 .. Len(es) :
        [seq |-> n + k - 1, at |-> now, kind |-> es[k].kind, task |-> es[k].task,
         attempt |-> es[k].attempt, detail |-> es[k].detail] \in LogEntry
  <2>1. SUFFICES ASSUME NEW k \in 1 .. Len(es)
                 PROVE  [seq |-> n + k - 1, at |-> now, kind |-> es[k].kind,
                         task |-> es[k].task, attempt |-> es[k].attempt,
                         detail |-> es[k].detail] \in LogEntry
    OBVIOUS
  <2>2. PICK e : e = es[k]
    OBVIOUS
  <2>3. e \in EventRecord
    BY <1>3, <2>1, <2>2
  <2>4. /\ e.kind \in EventKind /\ e.task \in Tasks \cup {NoTask} /\ e.attempt \in Nat
        /\ e.detail \in Tasks \cup {NoTask} \cup RunState
    BY <2>3 DEF EventRecord
  <2>5. n + k - 1 \in Nat
    BY <1>3, <2>1
  <2>6. QED
    BY <1>3, <2>2, <2>4, <2>5 DEF LogEntry
<1>5. new \in Seq(LogEntry) /\ Len(new) = Len(es)
  BY <1>2, <1>3, <1>4
<1>6. \A k \in 1 .. Len(es) : /\ new[k].kind = es[k].kind /\ new[k].task = es[k].task
                              /\ new[k].attempt = es[k].attempt /\ new[k].detail = es[k].detail
                              /\ new[k].at = now /\ new[k].seq = n + k - 1
  BY <1>2
<1>7. QED
  BY <1>1, <1>3, <1>5, <1>6 DEF Stamps

\* A batch leaves such a log
LEMMA TellingGrows ==
  ASSUME Telling, NEW es, Batch(es), NEW new, Stamps(new, es), log' = log \o new,
         \A t \in Tasks : states[t] \in Terminal => states'[t] = states[t],
         token # "active" => token' # "active"
  PROVE  Telling'
<1>1. PICK old, all, n, m : old = log /\ all = log' /\ n = Len(log) /\ m = Len(es)
  OBVIOUS
<1>2. /\ n \in Nat /\ m \in Nat /\ all \in Seq(LogEntry) /\ Len(all) = n + m
      /\ \A i \in 1 .. n : all[i] = old[i]
      /\ \A k \in 1 .. m : all[n + k] = new[k]
  <2>1. old \in Seq(LogEntry) /\ new \in Seq(LogEntry) /\ all = old \o new
        /\ Len(old) = n /\ Len(new) = m
    BY <1>1 DEF Telling, Stamps
  <2>2. \A v, w \in Seq(LogEntry) :
          v \o w \in Seq(LogEntry) /\ Len(v \o w) = Len(v) + Len(w)
    OBVIOUS
  <2>3. n \in Nat /\ m \in Nat
    BY <2>1
  <2>4. \A i \in 1 .. Len(old) : all[i] = old[i]
    BY <2>1
  <2>5. \A k \in 1 .. Len(new) : all[Len(old) + k] = new[k]
    BY <2>1
  <2>6. QED
    BY <2>1, <2>2, <2>3, <2>4, <2>5
<1>3. \A k \in 1 .. m : /\ n + k \in 1 .. n + m
                        /\ all[n + k].kind = es[k].kind /\ all[n + k].task = es[k].task
                        /\ all[n + k].detail = es[k].detail
  BY <1>1, <1>2 DEF Stamps
<1>4. ASSUME NEW i \in 1 .. n + m, i \notin 1 .. n
      PROVE  i - n \in 1 .. m /\ n + (i - n) = i
  BY <1>2, <1>4
<1>5. ASSUME NEW i \in 1 .. n + m, all[i].kind \in R!TerminalKind
      PROVE  /\ all[i].task \in Tasks /\ states'[all[i].task] \in Terminal
             /\ \A j \in 1 .. n + m :
                  j > i /\ all[j].task = all[i].task => all[j].kind = "RESOURCE_RELEASED"
  <2>1. CASE i \in 1 .. n
    <3>1. /\ all[i].task \in Tasks /\ states[all[i].task] \in Terminal
          /\ \A j \in 1 .. n :
               j > i /\ all[j].task = all[i].task => all[j].kind = "RESOURCE_RELEASED"
      BY <1>1, <1>2, <1>5, <2>1 DEF Telling, EndsStand
    <3>2. ASSUME NEW j \in 1 .. n + m, j \notin 1 .. n, all[j].task = all[i].task
          PROVE  all[j].kind = "RESOURCE_RELEASED"
      <4>1. PICK k \in 1 .. m : j = n + k
        BY <1>4, <3>2
      <4>2. es[k].task = all[i].task /\ all[j].kind = es[k].kind
        BY <1>3, <3>2, <4>1
      <4>3. QED
        BY <1>1, <3>1, <4>2 DEF Batch, Truthful
    <3>3. states'[all[i].task] \in Terminal
      BY <3>1
    <3>4. QED
      BY <3>1, <3>2, <3>3
  <2>2. CASE i \notin 1 .. n
    <3>1. PICK k \in 1 .. m : i = n + k
      BY <1>4, <2>2
    <3>2. es[k].kind \in R!TerminalKind /\ es[k].task = all[i].task
      BY <1>3, <1>5, <3>1
    <3>3. /\ es[k].task \in Tasks /\ states'[es[k].task] \in Terminal
          /\ \A l \in 1 .. m : l > k => es[l].task # es[k].task
      BY <1>1, <3>2 DEF Batch, Truthful
    <3>4. ASSUME NEW j \in 1 .. n + m, j > i
          PROVE  all[j].task # all[i].task
      <4>1. j \notin 1 .. n
        BY <1>2, <2>2, <3>4
      <4>2. PICK l \in 1 .. m : j = n + l
        BY <1>4, <4>1
      <4>3. l > k /\ all[j].task = es[l].task
        BY <1>2, <1>3, <3>1, <3>4, <4>2
      <4>4. QED
        BY <3>2, <3>3, <4>3
    <3>5. QED
      BY <3>2, <3>3, <3>4
  <2>3. QED
    BY <2>1, <2>2
<1>6. ASSUME NEW t \in Tasks, states'[t] \in Terminal
      PROVE  \E i \in 1 .. n + m : all[i].task = t /\ all[i].kind \in R!TerminalKind
  <2>1. CASE states[t] \in Terminal
    <3>1. PICK i \in 1 .. n : all[i].task = t /\ all[i].kind \in R!TerminalKind
      BY <1>1, <1>2, <2>1 DEF Telling, EndsTold
    <3>2. i \in 1 .. n + m
      BY <1>2
    <3>3. QED
      BY <3>1, <3>2
  <2>2. CASE states[t] \notin Terminal
    <3>1. PICK k \in 1 .. m : es[k].task = t /\ es[k].kind \in R!TerminalKind
      BY <1>1, <1>6, <2>2 DEF Batch, Complete
    <3>2. QED
      BY <1>3, <3>1
  <2>3. QED
    BY <2>1, <2>2
<1>7. ASSUME NEW i \in 1 .. n + m, all[i].kind = "CONDITION_EVALUATED"
      PROVE  /\ <<all[i].detail, all[i].task>> \in logged'
             /\ \A j \in 1 .. n + m :
                  all[j].kind = "CONDITION_EVALUATED" /\ all[j].detail = all[i].detail
                    /\ all[j].task = all[i].task => j = i
  <2> DEFINE OldOne(j) == /\ <<all[j].detail, all[j].task>> \in logged
                          /\ <<all[j].detail, all[j].task>> \in logged'
             NewOne(j) == /\ <<all[j].detail, all[j].task>> \notin logged
                          /\ <<all[j].detail, all[j].task>> \in logged'
  <2>1. ASSUME NEW j \in 1 .. n, all[j].kind = "CONDITION_EVALUATED"
        PROVE  OldOne(j)
    BY <1>1, <1>2, <2>1 DEF Telling, ConditionsTold, Batch
  <2>2. ASSUME NEW k \in 1 .. m, all[n + k].kind = "CONDITION_EVALUATED"
        PROVE  NewOne(n + k)
    BY <1>1, <1>3, <2>2 DEF Batch, TellsConditionsOnce
  <2>3. ASSUME NEW j \in 1 .. n, NEW k \in 1 .. n,
               all[j].kind = "CONDITION_EVALUATED", all[k].kind = "CONDITION_EVALUATED",
               all[j].detail = all[k].detail, all[j].task = all[k].task
        PROVE  j = k
    <3>1. \A o, p \in 1 .. n :
            old[o].kind = "CONDITION_EVALUATED" /\ old[p].kind = "CONDITION_EVALUATED"
              /\ old[p].detail = old[o].detail /\ old[p].task = old[o].task => p = o
      BY <1>1 DEF Telling, ConditionsTold
    <3>2. all[j] = old[j] /\ all[k] = old[k]
      BY <1>2
    <3>3. QED
      BY <2>3, <3>1, <3>2
  <2>4. ASSUME NEW j \in 1 .. m, NEW k \in 1 .. m,
               all[n + j].kind = "CONDITION_EVALUATED", all[n + k].kind = "CONDITION_EVALUATED",
               all[n + j].detail = all[n + k].detail
        PROVE  j = k
    <3>1. \A o, p \in 1 .. m :
            es[o].kind = "CONDITION_EVALUATED" /\ es[p].kind = "CONDITION_EVALUATED"
              /\ es[p].detail = es[o].detail => p = o
      BY <1>1 DEF Batch, TellsConditionsOnce
    <3>2. /\ es[j].kind = all[n + j].kind /\ es[j].detail = all[n + j].detail
          /\ es[k].kind = all[n + k].kind /\ es[k].detail = all[n + k].detail
      BY <1>3
    <3>3. QED
      BY <2>4, <3>1, <3>2
  <2>5. ASSUME NEW j \in 1 .. n + m, all[j].kind = "CONDITION_EVALUATED",
               all[j].detail = all[i].detail, all[j].task = all[i].task
        PROVE  j = i
    <3>1. CASE i \in 1 .. n /\ j \in 1 .. n
      BY <1>7, <2>3, <2>5, <3>1
    <3>2. CASE i \in 1 .. n /\ j \notin 1 .. n
      <4>1. PICK k \in 1 .. m : j = n + k
        BY <1>4, <3>2
      <4>2. OldOne(i) /\ NewOne(j)
        BY <1>7, <2>1, <2>2, <2>5, <3>2, <4>1
      <4>3. QED
        BY <2>5, <4>2
    <3>3. CASE i \notin 1 .. n /\ j \in 1 .. n
      <4>1. PICK k \in 1 .. m : i = n + k
        BY <1>4, <3>3
      <4>2. OldOne(j) /\ NewOne(i)
        BY <1>7, <2>1, <2>2, <2>5, <3>3, <4>1
      <4>3. QED
        BY <2>5, <4>2
    <3>4. CASE i \notin 1 .. n /\ j \notin 1 .. n
      <4>1. PICK k \in 1 .. m, l \in 1 .. m : i = n + k /\ j = n + l
        BY <1>4, <3>4
      <4>2. QED
        BY <1>7, <2>4, <2>5, <4>1
    <3>5. QED
      BY <3>1, <3>2, <3>3, <3>4
  <2>6. <<all[i].detail, all[i].task>> \in logged'
    <3>1. CASE i \in 1 .. n
      BY <1>7, <2>1, <3>1
    <3>2. CASE i \notin 1 .. n
      BY <1>4, <1>7, <2>2, <3>2
    <3>3. QED
      BY <3>1, <3>2
  <2>7. \A j \in 1 .. n + m :
          all[j].kind = "CONDITION_EVALUATED" /\ all[j].detail = all[i].detail
            /\ all[j].task = all[i].task => j = i
    BY <2>5
  <2>8. QED
    BY <2>6, <2>7
<1>8. ASSUME NEW i \in 1 .. n + m, all[i].kind = "RUN_CANCELLED"
      PROVE  /\ token' # "active"
             /\ \A j \in 1 .. n + m : all[j].kind = "RUN_CANCELLED" => j = i
  <2>1. \A j \in 1 .. n : all[j].kind = "RUN_CANCELLED" =>
          /\ token # "active"
          /\ \A k \in 1 .. n : all[k].kind = "RUN_CANCELLED" => k = j
    BY <1>1, <1>2 DEF Telling, CancelTold
  <2>2. \A j \in 1 .. m : all[n + j].kind = "RUN_CANCELLED" =>
          /\ token = "active" /\ token' # "active"
          /\ \A k \in 1 .. m : all[n + k].kind = "RUN_CANCELLED" => k = j
    <3>1. \A j \in 1 .. m : es[j].kind = "RUN_CANCELLED" =>
            /\ token = "active" /\ token' # "active"
            /\ \A k \in 1 .. m : es[k].kind = "RUN_CANCELLED" => k = j
      BY <1>1 DEF Batch, TellsCancelOnce
    <3>2. \A j \in 1 .. m : all[n + j].kind = es[j].kind
      BY <1>3
    <3>3. QED
      BY <3>1, <3>2
  <2>3. CASE i \in 1 .. n
    <3>1. token # "active" /\ token' # "active"
      BY <1>8, <2>1, <2>3
    <3>2. ASSUME NEW j \in 1 .. n + m, all[j].kind = "RUN_CANCELLED"
          PROVE  j = i
      <4>1. j \in 1 .. n
        BY <1>4, <2>2, <3>1, <3>2
      <4>2. QED
        BY <1>8, <2>1, <2>3, <3>2, <4>1
    <3>3. QED
      BY <3>1, <3>2
  <2>4. CASE i \notin 1 .. n
    <3>1. PICK k \in 1 .. m : i = n + k
      BY <1>4, <2>4
    <3>2. token = "active" /\ token' # "active"
      BY <1>8, <2>2, <3>1
    <3>3. ASSUME NEW j \in 1 .. n + m, all[j].kind = "RUN_CANCELLED"
          PROVE  j = i
      <4>1. j \notin 1 .. n
        BY <2>1, <3>2, <3>3
      <4>2. PICK l \in 1 .. m : j = n + l
        BY <1>4, <4>1
      <4>3. l = k
        BY <1>8, <2>2, <3>1, <3>3, <4>2
      <4>4. QED
        BY <3>1, <4>2, <4>3
    <3>4. QED
      BY <3>2, <3>3
  <2>5. QED
    BY <2>3, <2>4
<1>9. pc' = "done" => n + m > 0 /\ all[n + m].kind = "RUN_FINISHED"
  <2>1. SUFFICES ASSUME pc' = "done" PROVE n + m > 0 /\ all[n + m].kind = "RUN_FINISHED"
    OBVIOUS
  <2>2. m > 0 /\ es[m].kind = "RUN_FINISHED"
    BY <1>1, <2>1 DEF Batch
  <2>3. m \in 1 .. m
    BY <1>2, <2>2
  <2>4. QED
    BY <1>2, <1>3, <2>2, <2>3
<1>10. Len(log') = n + m /\ log' = all
  BY <1>1, <1>2
<1>11. EndsStand'
  BY <1>5, <1>10 DEF EndsStand
<1>12. EndsTold'
  BY <1>6, <1>10 DEF EndsTold
<1>13. ConditionsTold'
  BY <1>7, <1>10 DEF ConditionsTold
<1>14. CancelTold'
  BY <1>8, <1>10 DEF CancelTold
<1>15. QED
  BY <1>2, <1>9, <1>10, <1>11, <1>12, <1>13, <1>14 DEF Telling

LEMMA TellingNext ==
  ASSUME IInv, IInv', LeftOutIsReady, Telling, LoggedNext
  PROVE  Telling'
<1>1. CASE LoggedStep \/ (CancelFromOutside /\ Record)
  <2>1. PICK es, new : es = emitted' /\ new = Stamped(emitted')
    OBVIOUS
  <2>2. Batch(es)
    BY <1>1, <2>1, BatchNext DEF LoggedStep
  <2>3. log' = log \o new
    BY <1>1, <2>1 DEF LoggedStep, Record
  <2>4. Stamps(new, es)
    <3>1. emitted' \in Seq(EventRecord)
      BY <2>1, <2>2 DEF Batch
    <3>2. log \in Seq(LogEntry) /\ clock' \in Nat
      BY DEF Telling, IInv, TypeOK
    <3>3. QED
      BY <2>1, <3>1, <3>2, StampedFacts
  <2>5. [Next]_vars
    BY <1>1 DEF LoggedStep, Next
  <2>6. /\ \A t \in Tasks : states[t] \in Terminal => states'[t] = states[t]
        /\ token # "active" => token' # "active"
    BY <2>5, TerminalIsFinal, TokenStays
  <2>7. QED
    BY <2>2, <2>3, <2>4, <2>6, TellingGrows
<1>2. CASE Rest /\ UNCHANGED <<log, snapshot, startedAt, finishedAt>>
  BY <1>2 DEF Rest, vars, taskVars, edgeVars, Telling, EndsStand, EndsTold, ConditionsTold,
     CancelTold
<1>3. QED
  BY <1>1, <1>2 DEF LoggedNext

\* The scheduler that writes a log behaves as the scheduler does
LEMMA LoggedIsScheduled == LoggedSpec => Spec
<1>1. LoggedInit => Init
  BY DEF LoggedInit
<1>2. [LoggedNext]_loggedVars => [Next]_vars
  BY DEF LoggedNext, LoggedStep, Next, loggedVars
<1>3. QED
  BY <1>1, <1>2, PTL DEF LoggedSpec, Spec

\* What the scheduler holds and what the log says go together at every moment of the
\* run: this is the invariant from which OneEndPerTask follows
THEOREM TellingInvariant == LoggedSpec => []Telling
<1>1. LoggedInit => LeftOutIsReady /\ Telling
  <2>1. SUFFICES ASSUME LoggedInit PROVE LeftOutIsReady /\ Telling
    OBVIOUS
  <2>2. log = <<>> /\ pc = "created" /\ \A t \in Tasks : states[t] = "PENDING"
    BY <2>1 DEF LoggedInit, Init
  <2>3. QED
    BY <2>2 DEF LeftOutIsReady, Telling, EndsStand, EndsTold, ConditionsTold, CancelTold,
       Terminal
<1>2. [LoggedNext]_loggedVars => [Next]_vars
  BY DEF LoggedNext, LoggedStep, Next, loggedVars
<1>3. IInv /\ IInv' /\ LeftOutIsReady /\ Telling /\ [LoggedNext]_loggedVars => Telling'
  <2>1. SUFFICES ASSUME IInv, IInv', LeftOutIsReady, Telling, UNCHANGED loggedVars
                 PROVE  Telling'
    BY TellingNext
  <2>2. QED
    BY <2>1 DEF loggedVars, vars, taskVars, edgeVars, Telling, EndsStand, EndsTold,
       ConditionsTold, CancelTold
<1>4. QED
  BY <1>1, <1>2, <1>3, LeftOutNext, Invariant, LoggedIsScheduled, PTL DEF LoggedSpec

\* A log says nothing twice and leaves no finished task out, whatever the workflow, the
\* order in which the passes look at its tasks and edges, the retries, and whoever
\* cancels the run and when.
THEOREM LogSaysOnce == LoggedSpec => []OneEndPerTask
<1>1. Telling /\ IInv /\ NothingStranded => OneEndPerTask
  <2>1. SUFFICES ASSUME Telling, IInv, NothingStranded PROVE OneEndPerTask
    OBVIOUS
  <2>2. Len(log) \in Nat
    BY <2>1 DEF Telling
  <2>3. ASSUME NEW t \in Tasks, NEW i \in Ends(t), NEW j \in i + 1 .. Len(log),
               log[j].task = t
        PROVE  log[j].kind = "RESOURCE_RELEASED"
    <3>1. i \in 1 .. Len(log) /\ log[i].task = t /\ log[i].kind \in R!TerminalKind
      BY <2>3 DEF Ends, Positions
    <3>2. j \in 1 .. Len(log) /\ j > i
      BY <2>2, <2>3, <3>1
    <3>3. QED
      BY <2>1, <2>3, <3>1, <3>2 DEF Telling, EndsStand
  <2>4. ASSUME NEW e \in Conditional
        PROVE  Once(LAMBDA x : x.kind = "CONDITION_EVALUATED" /\ <<x.detail, x.task>> = e)
    <3>1. SUFFICES ASSUME NEW i \in 1 .. Len(log), NEW j \in 1 .. Len(log),
                          log[i].kind = "CONDITION_EVALUATED",
                          <<log[i].detail, log[i].task>> = e,
                          log[j].kind = "CONDITION_EVALUATED",
                          <<log[j].detail, log[j].task>> = e
                   PROVE  i = j
      BY DEF Once, Positions
    <3>2. log[j].detail = log[i].detail /\ log[j].task = log[i].task
      BY <3>1
    <3>3. QED
      BY <2>1, <3>1, <3>2 DEF Telling, ConditionsTold
  <2>5. Once(LAMBDA x : x.kind = "RUN_CANCELLED")
    BY <2>1 DEF Once, Positions, Telling, CancelTold
  <2>6. ASSUME pc = "done"
        PROVE  /\ \A t \in Tasks : Ends(t) # {}
               /\ log[Len(log)].kind = "RUN_FINISHED"
    <3>1. ASSUME NEW t \in Tasks PROVE Ends(t) # {}
      <4>1. states[t] \in Terminal
        BY <2>1, <2>6 DEF NothingStranded
      <4>2. PICK i \in 1 .. Len(log) : log[i].task = t /\ log[i].kind \in R!TerminalKind
        BY <2>1, <4>1 DEF Telling, EndsTold
      <4>3. i \in Ends(t)
        BY <4>2 DEF Ends, Positions
      <4>4. QED
        BY <4>3
    <3>2. QED
      BY <2>1, <2>6, <3>1 DEF Telling
  <2>7. QED
    BY <2>3, <2>4, <2>5, <2>6 DEF OneEndPerTask
<1>2. QED
  BY <1>1, TellingInvariant, Invariant, NothingStrandedEver, LoggedIsScheduled, PTL

-------------------------------------------------------------------------------
(* What replaying the log gives.                                             *)

\* The function behind R!Fold(snap, es), as far as the position m
FoldedTo(snap, es, m, g) ==
  g = [i \in 0 .. m |-> IF i = 0 THEN snap ELSE R!Apply(g[i - 1], es[i])]

LEMMA FoldExists ==
  ASSUME NEW snap, NEW es
  PROVE  \A m \in Nat : \E g : FoldedTo(snap, es, m, g)
<1> DEFINE S == {m \in Nat : \E g : FoldedTo(snap, es, m, g)}
<1>1. 0 \in S
  <2>1. FoldedTo(snap, es, 0, [i \in 0 .. 0 |-> snap])
    BY DEF FoldedTo
  <2>2. QED
    BY <2>1
<1>2. ASSUME NEW n \in Nat, n \in S PROVE n + 1 \in S
  <2>1. PICK g : FoldedTo(snap, es, n, g)
    BY <1>2
  <2> DEFINE next == R!Apply(g[n], es[n + 1])
             h == [i \in 0 .. (n + 1) |-> IF i = n + 1 THEN next ELSE g[i]]
  <2>2. ASSUME NEW i \in 0 .. (n + 1)
        PROVE  h[i] = IF i = 0 THEN snap ELSE R!Apply(h[i - 1], es[i])
    <3>1. CASE i = n + 1
      <4>1. h[i] = next /\ i - 1 = n /\ h[n] = g[n] /\ i # 0
        BY <3>1
      <4>2. QED
        BY <3>1, <4>1
    <3>2. CASE i # n + 1
      <4>1. i \in 0 .. n /\ h[i] = g[i] /\ (i # 0 => i - 1 \in 0 .. n /\ h[i - 1] = g[i - 1])
        BY <3>2
      <4>2. g[i] = IF i = 0 THEN snap ELSE R!Apply(g[i - 1], es[i])
        BY <2>1, <4>1 DEF FoldedTo
      <4>3. QED
        BY <4>1, <4>2
    <3>3. QED
      BY <3>1, <3>2
  <2> HIDE DEF next
  <2>3. FoldedTo(snap, es, n + 1, h)
    BY <2>2 DEF FoldedTo
  <2>4. QED
    BY <2>3
<1>3. Nat \subseteq S
  <2> HIDE DEF S
  <2> QED BY <1>1, <1>2, CountingUp
<1>4. QED
  BY <1>3

\* g is what the loop of replay goes through, event by event
FoldsBy(snap, es, g) ==
  /\ g[0] = snap
  /\ \A i \in 1 .. Len(es) : g[i] = R!Apply(g[i - 1], es[i])
  /\ R!Fold(snap, es) = g[Len(es)]

LEMMA FoldFacts ==
  ASSUME NEW snap, NEW es, Len(es) \in Nat
  PROVE  \E g : FoldsBy(snap, es, g)
<1> DEFINE n == Len(es)
           G == CHOOSE g : FoldedTo(snap, es, n, g)
<1>1. FoldedTo(snap, es, n, G)
  BY FoldExists
<1>2. R!Fold(snap, es) = G[n]
  BY DEF R!Fold, FoldedTo
<1> HIDE DEF G
<1>3. G[0] = snap /\ \A i \in 1 .. n : G[i] = R!Apply(G[i - 1], es[i])
  BY <1>1 DEF FoldedTo
<1>4. QED
  BY <1>2, <1>3 DEF FoldsBy

\* What replay keeps of a task, and of the run
TaskRecord ==
  [state : TaskState, attempts : Nat, retries : Nat, waits : Nat, error : BOOLEAN,
   timedOut : BOOLEAN, started : Int, finished : Int]

RunRecord ==
  [run : Tasks \cup {NoTask} \cup RunState, known : SUBSET Tasks,
   tasks : [Tasks -> TaskRecord],
   conditions : Seq((Tasks \cup {NoTask} \cup RunState) \X (Tasks \cup {NoTask})),
   started : Int, finished : Int, next : Nat, corrupt : BOOLEAN]

LEMMA ApplyToTaskTypes ==
  ASSUME NEW x \in TaskRecord, NEW e \in LogEntry
  PROVE  R!ApplyToTask(x, e) \in TaskRecord
<1>1. /\ x.state \in TaskState /\ x.attempts \in Nat /\ x.retries \in Nat /\ x.waits \in Nat
      /\ x.started \in Int /\ x.finished \in Int /\ e.at \in Int
  BY DEF TaskRecord, LogEntry
<1>2. R!StateAfter(x, e.kind) \in TaskState
  BY <1>1 DEF R!StateAfter, TaskState
<1>3. /\ R!Plus(x.attempts, e.kind = "TASK_STARTED") \in Nat
      /\ R!Plus(x.retries, e.kind = "TASK_RETRY_SCHEDULED") \in Nat
      /\ R!Plus(x.waits, e.kind = "RESOURCE_BLOCKED") \in Nat
  BY <1>1 DEF R!Plus
<1>4. /\ (x.error \/ e.kind \in {"TASK_FAILED", "TASK_RETRY_SCHEDULED"}) \in BOOLEAN
      /\ (x.timedOut \/ e.kind = "TASK_TIMED_OUT") \in BOOLEAN
  OBVIOUS
<1>5. /\ (IF e.kind = "TASK_STARTED" /\ x.started = R!Never THEN e.at ELSE x.started) \in Int
      /\ (IF e.kind \in R!TerminalKind THEN e.at ELSE x.finished) \in Int
  BY <1>1
<1>6. QED
  BY <1>2, <1>3, <1>4, <1>5 DEF TaskRecord, R!ApplyToTask

\* What one event that replay lets pass makes of a
Applied(a, e, b) ==
  /\ b \in RunRecord /\ b.corrupt = FALSE /\ b.next = a.next + 1
  /\ \A t \in Tasks : b.tasks[t] = IF t = e.task /\ e.kind \notin R!RunKind
                                   THEN R!ApplyToTask(a.tasks[t], e) ELSE a.tasks[t]
  /\ b.started = IF e.kind = "RUN_STARTED" THEN e.at ELSE a.started
  /\ b.finished = IF e.kind \in {"RUN_FINISHED", "RUN_CANCELLED"} THEN e.at ELSE a.finished
  /\ e.kind = "RUN_FINISHED" => b.run = e.detail

LEMMA ApplyFacts ==
  ASSUME NEW a \in RunRecord, a.corrupt = FALSE, NEW e \in LogEntry, e.seq = a.next,
         e.kind \in R!RunKind \/ (e.task \in Tasks /\ ~ R!Rejects(a.tasks[e.task], e)),
         NEW b, b = R!Apply(a, e)
  PROVE  Applied(a, e, b)
<1>1. PICK c : c = [a EXCEPT !.next = @ + 1]
  OBVIOUS
<1>2. /\ c \in RunRecord /\ c.next = a.next + 1 /\ c.tasks = a.tasks /\ c.corrupt = FALSE
      /\ c.started = a.started /\ c.finished = a.finished
  BY <1>1 DEF RunRecord
<1>3. b = R!ApplyKind(c, e)
  BY <1>1 DEF R!Apply
<1>4. /\ e.at \in Int /\ e.detail \in Tasks \cup {NoTask} \cup RunState
      /\ e.task \in Tasks \cup {NoTask}
  BY DEF LogEntry
<1>5. NoTask \notin Tasks
  BY SchedulerAssumption DEF SchedulerAssumption, WorkflowAssumption
<1>6. CASE e.kind \in R!RunKind
  <2>1. b = R!ApplyToRun(c, e)
    BY <1>3, <1>6 DEF R!ApplyKind
  <2>2. "RUNNING" \in RunState /\ "CANCELLED" \in RunState
    BY DEF RunState
  <2>3. CASE e.kind = "RUN_STARTED"
    <3>1. b = [c EXCEPT !.run = "RUNNING", !.known = Tasks, !.started = e.at]
      BY <2>1, <2>3 DEF R!ApplyToRun
    <3>2. QED
      BY <1>2, <1>4, <1>6, <2>2, <2>3, <3>1 DEF RunRecord, Applied
  <2>4. CASE e.kind = "RUN_FINISHED"
    <3>1. b = [c EXCEPT !.run = e.detail, !.finished = e.at]
      BY <2>1, <2>4 DEF R!ApplyToRun
    <3>2. QED
      BY <1>2, <1>4, <1>6, <2>4, <3>1 DEF RunRecord, Applied
  <2>5. CASE e.kind = "RUN_CANCELLED"
    <3>1. b = [c EXCEPT !.run = "CANCELLED", !.finished = e.at]
      BY <2>1, <2>5 DEF R!ApplyToRun
    <3>2. QED
      BY <1>2, <1>4, <1>6, <2>2, <2>5, <3>1 DEF RunRecord, Applied
  <2>6. QED
    BY <1>6, <2>3, <2>4, <2>5 DEF R!RunKind
<1>7. CASE e.kind \notin R!RunKind
  <2>1. e.task \in Tasks /\ e.task # NoTask /\ ~ R!Rejects(c.tasks[e.task], e)
    BY <1>2, <1>5, <1>7
  <2>2. PICK list : list = IF e.kind = "CONDITION_EVALUATED"
                           THEN Append(c.conditions, <<e.detail, e.task>>) ELSE c.conditions
    OBVIOUS
  <2>3. PICK x : x = R!ApplyToTask(c.tasks[e.task], e)
    OBVIOUS
  <2>4. b = [c EXCEPT !.known = @ \cup {e.task}, !.tasks = [@ EXCEPT ![e.task] = x],
                      !.conditions = list]
    BY <1>3, <1>7, <2>1, <2>2, <2>3 DEF R!ApplyKind, RunRecord
  <2>5. list \in Seq((Tasks \cup {NoTask} \cup RunState) \X (Tasks \cup {NoTask}))
    <3>1. c.conditions \in Seq((Tasks \cup {NoTask} \cup RunState) \X (Tasks \cup {NoTask}))
      BY <1>2 DEF RunRecord
    <3>2. <<e.detail, e.task>> \in (Tasks \cup {NoTask} \cup RunState) \X (Tasks \cup {NoTask})
      BY <1>4
    <3>3. QED
      BY <2>2, <3>1, <3>2
  <2>6. x \in TaskRecord /\ c.tasks \in [Tasks -> TaskRecord]
    BY <1>2, <2>1, <2>3, ApplyToTaskTypes DEF RunRecord
  <2>7. PICK y : y = [c.tasks EXCEPT ![e.task] = x]
    OBVIOUS
  <2>8. /\ y \in [Tasks -> TaskRecord]
        /\ \A t \in Tasks : y[t] = IF t = e.task THEN x ELSE a.tasks[t]
    BY <1>2, <2>1, <2>6, <2>7
  <2>9. b = [c EXCEPT !.known = @ \cup {e.task}, !.tasks = y, !.conditions = list]
    BY <2>4, <2>7
  <2>10. /\ b.corrupt = FALSE /\ b.next = a.next + 1 /\ b.tasks = y
         /\ b.started = a.started /\ b.finished = a.finished
    BY <1>2, <2>9 DEF RunRecord
  <2>11. b \in RunRecord
    <3>1. PICK known : known = c.known \cup {e.task}
      OBVIOUS
    <3>2. known \in SUBSET Tasks
      BY <1>2, <2>1, <3>1 DEF RunRecord
    <3>3. b = [c EXCEPT !.known = known, !.tasks = y, !.conditions = list]
      BY <2>9, <3>1
    <3>4. QED
      BY <1>2, <2>5, <2>8, <3>2, <3>3 DEF RunRecord
  <2>12. QED
    BY <1>2, <1>7, <2>3, <2>8, <2>10, <2>11 DEF R!RunKind, Applied
<1>8. QED
  BY <1>6, <1>7

\* What replay makes of a task x when the first m events of es are told, in a step at
\* the time now that leaves the task in the state to
TaskAfter(x, y, es, m, t, to, now) ==
  /\ y.state = IF Tells(es, m, t, MovingKind) THEN to ELSE x.state
  /\ y.attempts = IF Tells(es, m, t, {"TASK_STARTED"}) THEN x.attempts + 1 ELSE x.attempts
  /\ y.retries = IF Tells(es, m, t, {"TASK_RETRY_SCHEDULED"})
                 THEN x.retries + 1 ELSE x.retries
  /\ y.error <=> (x.error \/ Tells(es, m, t, {"TASK_FAILED", "TASK_RETRY_SCHEDULED"}))
  /\ y.timedOut <=> (x.timedOut \/ Tells(es, m, t, {"TASK_TIMED_OUT"}))
  /\ y.started = IF x.started = R!Never /\ Tells(es, m, t, {"TASK_STARTED"})
                 THEN now ELSE x.started
  /\ y.finished = IF Tells(es, m, t, R!TerminalKind) THEN now ELSE x.finished

LEMMA TellsStep ==
  ASSUME NEW es, NEW m \in Nat, NEW t, NEW kinds
  PROVE  Tells(es, m + 1, t, kinds) <=>
           Tells(es, m, t, kinds) \/ (es[m + 1].task = t /\ es[m + 1].kind \in kinds)
<1>1. m + 1 \in 1 .. m + 1 /\ \A k \in 1 .. m + 1 : k \in 1 .. m \/ k = m + 1
  OBVIOUS
<1>2. \A k \in 1 .. m : k \in 1 .. m + 1
  OBVIOUS
<1>3. QED
  BY <1>1, <1>2 DEF Tells

LEMMA TaskAfterStep ==
  ASSUME NEW es, NEW m \in Nat, NEW t, NEW to, NEW now, NEW x, NEW y \in TaskRecord,
         TaskAfter(x, y, es, m, t, to, now),
         NEW e, e.kind = es[m + 1].kind, e.task = es[m + 1].task, e.at = now,
         e.kind \in MovingKind /\ e.task = t =>
           to = StateOf(e.kind) /\ ~ Tells(es, m, t, MovingKind),
         NEW z, z = IF t = e.task /\ e.kind \notin R!RunKind
                    THEN R!ApplyToTask(y, e) ELSE y
  PROVE  TaskAfter(x, z, es, m + 1, t, to, now)
<1>1. \A kinds : Tells(es, m + 1, t, kinds) <=>
                   Tells(es, m, t, kinds) \/ (e.task = t /\ e.kind \in kinds)
  BY TellsStep
<1>2. /\ R!RunKind \cap MovingKind = {} /\ R!RunKind \cap R!TerminalKind = {}
      /\ R!RunKind \cap {"TASK_STARTED"} = {} /\ R!RunKind \cap {"TASK_TIMED_OUT"} = {}
      /\ R!RunKind \cap {"TASK_RETRY_SCHEDULED"} = {}
      /\ R!RunKind \cap {"TASK_FAILED", "TASK_RETRY_SCHEDULED"} = {}
  BY DEF R!RunKind, MovingKind, R!TerminalKind
<1>3. CASE ~ (t = e.task /\ e.kind \notin R!RunKind)
  <2>1. z = y
    BY <1>3
  <2>2. /\ Tells(es, m + 1, t, MovingKind) <=> Tells(es, m, t, MovingKind)
        /\ Tells(es, m + 1, t, {"TASK_STARTED"}) <=> Tells(es, m, t, {"TASK_STARTED"})
        /\ Tells(es, m + 1, t, {"TASK_RETRY_SCHEDULED"}) <=>
             Tells(es, m, t, {"TASK_RETRY_SCHEDULED"})
        /\ Tells(es, m + 1, t, {"TASK_FAILED", "TASK_RETRY_SCHEDULED"}) <=>
             Tells(es, m, t, {"TASK_FAILED", "TASK_RETRY_SCHEDULED"})
        /\ Tells(es, m + 1, t, {"TASK_TIMED_OUT"}) <=> Tells(es, m, t, {"TASK_TIMED_OUT"})
        /\ Tells(es, m + 1, t, R!TerminalKind) <=> Tells(es, m, t, R!TerminalKind)
    BY <1>1, <1>2, <1>3
  <2>3. QED
    BY <2>1, <2>2 DEF TaskAfter
<1>4. CASE t = e.task /\ e.kind \notin R!RunKind
  <2>1. z = R!ApplyToTask(y, e)
    BY <1>4
  <2>2. /\ z.state = R!StateAfter(y, e.kind)
        /\ z.attempts = R!Plus(y.attempts, e.kind = "TASK_STARTED")
        /\ z.retries = R!Plus(y.retries, e.kind = "TASK_RETRY_SCHEDULED")
        /\ z.started = IF e.kind = "TASK_STARTED" /\ y.started = R!Never
                       THEN e.at ELSE y.started
        /\ z.finished = IF e.kind \in R!TerminalKind THEN e.at ELSE y.finished
    BY <2>1 DEF R!ApplyToTask
  <2>3. /\ z.error <=> (y.error \/ e.kind \in {"TASK_FAILED", "TASK_RETRY_SCHEDULED"})
        /\ z.timedOut <=> (y.timedOut \/ e.kind = "TASK_TIMED_OUT")
    <3>1. /\ z.error = (y.error \/ e.kind \in {"TASK_FAILED", "TASK_RETRY_SCHEDULED"})
          /\ z.timedOut = (y.timedOut \/ e.kind = "TASK_TIMED_OUT")
      BY <2>1 DEF R!ApplyToTask
    <3>2. QED
      BY <3>1
  <2>4. z.state = IF Tells(es, m + 1, t, MovingKind) THEN to ELSE x.state
    <3>1. CASE e.kind \in MovingKind
      <4>1. R!StateAfter(y, e.kind) = StateOf(e.kind)
        BY <3>1 DEF MovingKind, R!TerminalKind, StateOf, R!StateAfter
      <4>2. QED
        BY <1>1, <1>4, <2>2, <3>1, <4>1
    <3>2. CASE e.kind \notin MovingKind
      <4>1. R!StateAfter(y, e.kind) = y.state
        BY <3>2 DEF MovingKind, R!TerminalKind, R!StateAfter
      <4>2. QED
        BY <1>1, <2>2, <3>2, <4>1 DEF TaskAfter
    <3>3. QED
      BY <3>1, <3>2
  <2>5. e.kind \in {"TASK_STARTED", "TASK_RETRY_SCHEDULED"} =>
          /\ ~ Tells(es, m, t, {"TASK_STARTED"})
          /\ ~ Tells(es, m, t, {"TASK_RETRY_SCHEDULED"})
    <3>1. e.kind \in {"TASK_STARTED", "TASK_RETRY_SCHEDULED"} =>
            ~ Tells(es, m, t, MovingKind)
      BY <1>4 DEF MovingKind
    <3>2. /\ Tells(es, m, t, {"TASK_STARTED"}) => Tells(es, m, t, MovingKind)
          /\ Tells(es, m, t, {"TASK_RETRY_SCHEDULED"}) => Tells(es, m, t, MovingKind)
      BY DEF Tells, MovingKind
    <3>3. QED
      BY <3>1, <3>2
  <2>6. z.attempts = IF Tells(es, m + 1, t, {"TASK_STARTED"})
                     THEN x.attempts + 1 ELSE x.attempts
    BY <1>1, <1>4, <2>2, <2>5 DEF TaskAfter, R!Plus
  <2>7. z.retries = IF Tells(es, m + 1, t, {"TASK_RETRY_SCHEDULED"})
                    THEN x.retries + 1 ELSE x.retries
    BY <1>1, <1>4, <2>2, <2>5 DEF TaskAfter, R!Plus
  <2>8. z.error <=> (x.error \/ Tells(es, m + 1, t, {"TASK_FAILED", "TASK_RETRY_SCHEDULED"}))
    BY <1>1, <1>4, <2>3 DEF TaskAfter
  <2>9. z.timedOut <=> (x.timedOut \/ Tells(es, m + 1, t, {"TASK_TIMED_OUT"}))
    BY <1>1, <1>4, <2>3 DEF TaskAfter
  <2>10. z.started = IF x.started = R!Never /\ Tells(es, m + 1, t, {"TASK_STARTED"})
                     THEN now ELSE x.started
    BY <1>1, <1>4, <2>2, <2>5 DEF TaskAfter
  <2>11. z.finished = IF Tells(es, m + 1, t, R!TerminalKind) THEN now ELSE x.finished
    BY <1>1, <1>4, <2>2 DEF TaskAfter
  <2>12. QED
    BY <2>4, <2>6, <2>7, <2>8, <2>9, <2>10, <2>11 DEF TaskAfter
<1>5. QED
  BY <1>3, <1>4

\* An earlier attempt failed, or the last one did
Stumbled(t) == retries[t] > 0 \/ states[t] = "FAILED"

\* A snapshot says of t what the scheduler holds of it
SameTask(snap, t) ==
  /\ snap.tasks[t].state = states[t]
  /\ snap.tasks[t].attempts = attempts[t]
  /\ snap.tasks[t].retries = retries[t]
  /\ snap.tasks[t].timedOut <=> t \in timedOut
  /\ snap.tasks[t].error <=> Stumbled(t)
  /\ snap.tasks[t].started = startedAt[t]
  /\ snap.tasks[t].finished = finishedAt[t]

\* ReplayAgrees, with what keeps it true: the sequence numbers go on where the log
\* ends, and the log begins with the start of the run
Mirrored ==
  /\ snapshot \in RunRecord /\ snapshot.corrupt = FALSE /\ snapshot.next = Len(log)
  /\ \A t \in Tasks : SameTask(snapshot, t)
  /\ Len(log) = 0 <=> pc = "created"
  /\ Len(log) > 0 => snapshot.started = log[1].at
  /\ pc = "done" => snapshot.run = runState /\ snapshot.finished = log[Len(log)].at

\* What one event of a batch is applied to lets it pass
LEMMA NotRejected ==
  ASSUME NEW es, Retold(es), NEW m \in Nat, m + 1 \in 1 .. Len(es), es[m + 1].task \in Tasks,
         NEW x, x.state = states[es[m + 1].task], x.attempts = attempts[es[m + 1].task],
         NEW y, NEW to, NEW now, TaskAfter(x, y, es, m, es[m + 1].task, to, now),
         NEW e, e.kind = es[m + 1].kind, e.attempt = es[m + 1].attempt
  PROVE  ~ R!Rejects(y, e)
<1>1. PICK t \in Tasks : t = es[m + 1].task
  OBVIOUS
<1>2. e.kind \in MovingKind => ~ Tells(es, m, t, MovingKind)
  <2>1. SUFFICES ASSUME e.kind \in MovingKind,
                        NEW k \in 1 .. m, es[k].task = t, es[k].kind \in MovingKind
                 PROVE  FALSE
    BY DEF Tells
  <2>2. k \in 1 .. Len(es) /\ k # m + 1
    OBVIOUS
  <2>3. QED
    BY <1>1, <2>1, <2>2 DEF Retold, TellsMoves
<1>3. CASE e.kind \in {"TASK_SUCCEEDED", "TASK_FAILED", "TASK_RETRY_SCHEDULED"}
  <2>1. e.kind \in MovingKind /\ e.kind # "TASK_STARTED"
    BY <1>3 DEF MovingKind, R!TerminalKind
  <2>2. y.state = states[t]
    BY <1>1, <1>2, <2>1 DEF TaskAfter
  <2>3. states[t] = "RUNNING"
    BY <1>1, <1>3 DEF Retold, Acceptable
  <2>4. QED
    BY <2>1, <2>2, <2>3 DEF R!Rejects
<1>4. CASE e.kind = "TASK_STARTED"
  <2>1. e.kind \in MovingKind /\ "TASK_STARTED" \in MovingKind
    BY <1>4 DEF MovingKind
  <2>2. ~ Tells(es, m, t, {"TASK_STARTED"})
    BY <1>2, <2>1 DEF Tells
  <2>3. y.attempts = attempts[t]
    BY <1>1, <2>2 DEF TaskAfter
  <2>4. e.attempt = attempts[t] + 1
    BY <1>1, <1>4 DEF Retold, Acceptable
  <2>5. QED
    BY <1>4, <2>3, <2>4 DEF R!Rejects
<1>5. QED
  BY <1>3, <1>4 DEF R!Rejects

\* What folding the batch es leaves, b, in a step at the time now into the states to
FoldedBatch(es, b, to, now) ==
  /\ b \in RunRecord /\ b.corrupt = FALSE /\ b.next = Len(log) + Len(es)
  /\ b.started = IF pc = "created" /\ Len(es) > 0 THEN now ELSE snapshot.started
  /\ \A t \in Tasks :
       TaskAfter(snapshot.tasks[t], b.tasks[t], es, Len(es), t, to[t], now)
  /\ b.finished \in {now, snapshot.finished}
  /\ b.finished # snapshot.finished =>
       \E k \in 1 .. Len(es) : es[k].kind \in {"RUN_FINISHED", "RUN_CANCELLED"}
  /\ Len(es) > 0 /\ es[Len(es)].kind = "RUN_FINISHED" =>
       b.run = es[Len(es)].detail /\ b.finished = now

\* Folding a batch into the snapshot: nothing is rejected, and every task is as told
LEMMA FoldOfBatch ==
  ASSUME IInv, Mirrored, log \in Seq(LogEntry), NEW es, Batch(es), NEW new, Stamps(new, es),
         NEW to, to = states', NEW now, now = clock',
         NEW b, b = R!Fold(snapshot, new)
  PROVE  FoldedBatch(es, b, to, now)
<1>1. PICK a, n, m : a = snapshot /\ n = Len(log) /\ m = Len(es)
  OBVIOUS
<1>2. /\ n \in Nat /\ m \in Nat /\ Len(new) = m /\ new \in Seq(LogEntry)
      /\ \A k \in 1 .. m : /\ new[k] \in LogEntry
                           /\ new[k].kind = es[k].kind /\ new[k].task = es[k].task
                           /\ new[k].attempt = es[k].attempt /\ new[k].detail = es[k].detail
                           /\ new[k].at = now /\ new[k].seq = n + k - 1
  BY <1>1 DEF Stamps
<1>3. PICK g : FoldsBy(a, new, g)
  BY <1>2, FoldFacts
<1>4. /\ g[0] = a /\ b = g[m]
      /\ \A i \in 1 .. m : g[i] = R!Apply(g[i - 1], new[i])
  BY <1>1, <1>2, <1>3 DEF FoldsBy
<1>5. /\ a \in RunRecord /\ a.corrupt = FALSE /\ a.next = n
      /\ \A t \in Tasks : a.tasks[t].state = states[t] /\ a.tasks[t].attempts = attempts[t]
  BY <1>1 DEF Mirrored, SameTask
<1> DEFINE Seen(i) ==
      /\ g[i] \in RunRecord /\ g[i].corrupt = FALSE /\ g[i].next = n + i
      /\ g[i].started = IF pc = "created" /\ i > 0 THEN now ELSE a.started
      /\ \A t \in Tasks : TaskAfter(a.tasks[t], g[i].tasks[t], es, i, t, to[t], now)
      /\ g[i].finished \in {now, a.finished}
      /\ g[i].finished # a.finished =>
           \E k \in 1 .. m : es[k].kind \in {"RUN_FINISHED", "RUN_CANCELLED"}
<1>6. ASSUME NEW i \in Nat, i + 1 <= m, Seen(i)
      PROVE  /\ Seen(i + 1)
             /\ new[i + 1].kind = "RUN_FINISHED" =>
                  g[i + 1].run = new[i + 1].detail /\ g[i + 1].finished = new[i + 1].at
  <2>1. PICK c, d, e, k : c = g[i] /\ d = g[i + 1] /\ e = new[i + 1] /\ k = i + 1
    OBVIOUS
  <2>2. k \in 1 .. m /\ k - 1 = i /\ d = R!Apply(c, e)
    <3>1. i + 1 <= m
      BY <1>6
    <3>2. k \in 1 .. m /\ k - 1 = i
      BY <1>2, <2>1, <3>1
    <3>3. QED
      BY <1>4, <2>1, <3>2
  <2>3. /\ e \in LogEntry /\ e.kind = es[k].kind /\ e.task = es[k].task
        /\ e.attempt = es[k].attempt /\ e.at = now /\ e.seq = n + i
    BY <1>2, <2>1, <2>2
  <2>4. /\ c \in RunRecord /\ c.corrupt = FALSE /\ c.next = n + i
        /\ \A t \in Tasks : TaskAfter(a.tasks[t], c.tasks[t], es, i, t, to[t], now)
    BY <1>6, <2>1
  <2>5. Retold(es)
    BY DEF Batch
  <2>6. e.kind \in R!RunKind \/ (e.task \in Tasks /\ ~ R!Rejects(c.tasks[e.task], e))
    <3>1. SUFFICES ASSUME e.kind \notin R!RunKind
                   PROVE  e.task \in Tasks /\ ~ R!Rejects(c.tasks[e.task], e)
      OBVIOUS
    <3>2. e.task \in Tasks
      BY <1>1, <2>2, <2>3, <2>5, <3>1 DEF Retold, Acceptable
    <3>3. PICK x, y, next : x = a.tasks[e.task] /\ y = c.tasks[e.task] /\ next = to[e.task]
      OBVIOUS
    <3>4. /\ x.state = states[e.task] /\ x.attempts = attempts[e.task]
          /\ TaskAfter(x, y, es, i, e.task, next, now)
      BY <1>5, <2>4, <3>2, <3>3
    <3>5. i + 1 \in 1 .. Len(es)
      BY <1>1, <2>1, <2>2
    <3>6. ~ R!Rejects(y, e)
      BY <2>1, <2>3, <2>5, <3>2, <3>4, <3>5, NotRejected
    <3>7. QED
      BY <3>2, <3>3, <3>6
  <2>7. /\ d \in RunRecord /\ d.corrupt = FALSE /\ d.next = (n + i) + 1
        /\ \A t \in Tasks : d.tasks[t] = IF t = e.task /\ e.kind \notin R!RunKind
                                         THEN R!ApplyToTask(c.tasks[t], e) ELSE c.tasks[t]
        /\ d.started = IF e.kind = "RUN_STARTED" THEN e.at ELSE c.started
        /\ d.finished = IF e.kind \in {"RUN_FINISHED", "RUN_CANCELLED"}
                        THEN e.at ELSE c.finished
        /\ e.kind = "RUN_FINISHED" => d.run = e.detail
    <3>1. e.seq = c.next
      BY <2>3, <2>4
    <3>2. Applied(c, e, d)
      BY <2>2, <2>3, <2>4, <2>6, <3>1, ApplyFacts
    <3>3. QED
      BY <2>4, <3>2 DEF Applied
  <2>8. ASSUME NEW t \in Tasks
        PROVE  TaskAfter(a.tasks[t], d.tasks[t], es, i + 1, t, to[t], now)
    <3>1. PICK x, y, z, next : /\ x = a.tasks[t] /\ y = c.tasks[t] /\ z = d.tasks[t]
                               /\ next = to[t]
      OBVIOUS
    <3>2. y \in TaskRecord /\ TaskAfter(x, y, es, i, t, next, now)
      BY <2>4, <3>1 DEF RunRecord
    <3>3. z = IF t = e.task /\ e.kind \notin R!RunKind THEN R!ApplyToTask(y, e) ELSE y
      BY <2>7, <3>1
    <3>4. e.kind \in MovingKind /\ e.task = t =>
            next = StateOf(e.kind) /\ ~ Tells(es, i, t, MovingKind)
      <4>1. SUFFICES ASSUME e.kind \in MovingKind, e.task = t
                     PROVE  next = StateOf(e.kind) /\ ~ Tells(es, i, t, MovingKind)
        OBVIOUS
      <4>2. next = StateOf(e.kind)
        BY <1>1, <2>2, <2>3, <2>5, <3>1, <4>1 DEF Retold, TellsMoves
      <4>3. ASSUME NEW j \in 1 .. i, es[j].task = t, es[j].kind \in MovingKind
            PROVE  FALSE
        <5>1. j \in 1 .. Len(es) /\ k \in 1 .. Len(es) /\ j # k
          BY <1>1, <2>1, <2>2, <4>3
        <5>2. QED
          BY <2>3, <2>5, <4>1, <4>3, <5>1 DEF Retold, TellsMoves
      <4>4. QED
        BY <4>2, <4>3 DEF Tells
    <3>5. e.kind = es[i + 1].kind /\ e.task = es[i + 1].task
      BY <2>1, <2>3
    <3>6. TaskAfter(x, z, es, i + 1, t, next, now)
      BY <2>3, <3>2, <3>3, <3>4, <3>5, TaskAfterStep
    <3>7. QED
      BY <3>1, <3>6
  <2>9. d.started = IF pc = "created" /\ i + 1 > 0 THEN now ELSE a.started
    <3>1. CASE pc = "created"
      <4>1. i = 0 /\ e.kind = "RUN_STARTED"
        BY <1>1, <1>2, <2>1, <2>2, <2>3, <2>5, <3>1 DEF Retold, TellsOfRun
      <4>2. QED
        BY <2>3, <2>7, <3>1, <4>1
    <3>2. CASE pc # "created"
      <4>1. e.kind # "RUN_STARTED"
        BY <1>1, <2>2, <2>3, <2>5, <3>2 DEF Retold, TellsOfRun
      <4>2. c.started = a.started
        BY <1>6, <2>1, <3>2
      <4>3. QED
        BY <2>7, <3>2, <4>1, <4>2
    <3>3. QED
      BY <3>1, <3>2
  <2>10. (n + i) + 1 = n + (i + 1)
    BY <1>2
  <2>11. /\ d.finished \in {now, a.finished}
         /\ d.finished # a.finished =>
              \E j \in 1 .. m : es[j].kind \in {"RUN_FINISHED", "RUN_CANCELLED"}
    <3>1. /\ c.finished \in {now, a.finished}
          /\ c.finished # a.finished =>
               \E j \in 1 .. m : es[j].kind \in {"RUN_FINISHED", "RUN_CANCELLED"}
      BY <1>6, <2>1
    <3>2. QED
      BY <2>2, <2>3, <2>7, <3>1
  <2>12. e.kind = "RUN_FINISHED" => d.run = e.detail /\ d.finished = e.at
    BY <2>7
  <2>13. QED
    BY <2>1, <2>7, <2>8, <2>9, <2>10, <2>11, <2>12
<1> DEFINE S == {i \in Nat : i <= m => Seen(i)}
<1>7. 0 \in S
  <2>1. ASSUME NEW t \in Tasks PROVE TaskAfter(a.tasks[t], a.tasks[t], es, 0, t, to[t], now)
    <3>1. \A kinds : ~ Tells(es, 0, t, kinds)
      BY DEF Tells
    <3>2. QED
      BY <3>1 DEF TaskAfter
  <2>2. Seen(0)
    BY <1>2, <1>4, <1>5, <2>1
  <2>3. QED
    BY <2>2
<1>8. ASSUME NEW i \in Nat, i \in S PROVE i + 1 \in S
  <2> HIDE DEF Seen
  <2>1. i + 1 <= m => Seen(i)
    BY <1>2, <1>8
  <2>2. QED
    BY <1>6, <2>1
<1>9. ASSUME NEW i \in Nat, i <= m PROVE Seen(i)
  <2>1. Nat \subseteq S
    <3> HIDE DEF S
    <3> QED BY <1>7, <1>8, CountingUp
  <2> HIDE DEF Seen
  <2>2. QED
    BY <1>9, <2>1
<1>10. Seen(m)
  <2>1. m <= m
    BY <1>2
  <2> HIDE DEF Seen
  <2>2. QED
    BY <1>2, <1>9, <2>1
<1>11. ASSUME m > 0, es[m].kind = "RUN_FINISHED"
       PROVE  b.run = es[m].detail /\ b.finished = now
  <2>1. m - 1 \in Nat /\ (m - 1) + 1 = m /\ m - 1 <= m /\ m \in 1 .. m
    BY <1>2, <1>11
  <2>2. Seen(m - 1)
    BY <1>9, <2>1
  <2> HIDE DEF Seen
  <2>3. PICK i \in Nat : i = m - 1
    BY <2>1
  <2>4. i + 1 <= m /\ i + 1 = m /\ Seen(i)
    BY <1>2, <2>1, <2>2, <2>3
  <2>5. new[i + 1].kind = "RUN_FINISHED" =>
          g[i + 1].run = new[i + 1].detail /\ g[i + 1].finished = new[i + 1].at
    BY <1>6, <2>4
  <2>6. QED
    BY <1>2, <1>4, <1>11, <2>1, <2>4, <2>5
<1>12. b.started = IF pc = "created" /\ m > 0 THEN now ELSE a.started
  BY <1>4, <1>10
<1>13. \A t \in Tasks : TaskAfter(a.tasks[t], b.tasks[t], es, m, t, to[t], now)
  BY <1>4, <1>10
<1>14. b \in RunRecord /\ b.corrupt = FALSE /\ b.next = n + m
  BY <1>4, <1>10
<1> HIDE DEF Seen
<1>15. \A t \in Tasks :
         TaskAfter(snapshot.tasks[t], b.tasks[t], es, Len(es), t, to[t], now)
  BY <1>1, <1>13
<1>16. Len(es) > 0 /\ es[Len(es)].kind = "RUN_FINISHED" =>
         b.run = es[Len(es)].detail /\ b.finished = now
  BY <1>1, <1>11
<1>17. b.started = IF pc = "created" /\ Len(es) > 0 THEN now ELSE snapshot.started
  BY <1>1, <1>12
<1>18. /\ b.finished \in {now, a.finished}
       /\ b.finished # a.finished =>
            \E k \in 1 .. m : es[k].kind \in {"RUN_FINISHED", "RUN_CANCELLED"}
  BY <1>4, <1>10 DEF Seen
<1>19. QED
  BY <1>1, <1>14, <1>15, <1>16, <1>17, <1>18 DEF FoldedBatch

\* The errors a scheduler holds are those of the tasks that failed and did not succeed
\* on a later attempt
ErrorsHeld ==
  \A t \in Tasks : t \in errors <=> states[t] # "SUCCEEDED" /\ Stumbled(t)

LEMMA ErrorsNext == IInv /\ ErrorsHeld /\ [Next]_vars => ErrorsHeld'
<1> SUFFICES ASSUME IInv, ErrorsHeld, [Next]_vars PROVE ErrorsHeld'
  OBVIOUS
<1>1. states \in [Tasks -> TaskState] /\ retries \in [Tasks -> Nat]
  BY DEF IInv, TypeOK
<1>2. SUFFICES ASSUME NEW t \in Tasks
               PROVE  t \in errors' <=>
                        states'[t] # "SUCCEEDED" /\ (retries'[t] > 0 \/ states'[t] = "FAILED")
  BY DEF ErrorsHeld, Stumbled
<1>3. t \in errors <=> states[t] # "SUCCEEDED" /\ (retries[t] > 0 \/ states[t] = "FAILED")
  BY DEF ErrorsHeld, Stumbled
<1>4. CASE UNCHANGED taskVars
  BY <1>3, <1>4 DEF taskVars
<1>5. CASE CancelRemaining
  <2>1. retries' = retries /\ errors' = errors
        /\ states'[t] = IF t \in Live THEN "CANCELLED" ELSE states[t]
    BY <1>5 DEF CancelRemaining
  <2>2. t \in Live => states[t] \notin {"SUCCEEDED", "FAILED"}
    BY DEF Live, Terminal
  <2>3. QED
    BY <1>3, <2>1, <2>2
<1>6. CASE ReleaseDueRetries
  <2>1. retries' = retries /\ errors' = errors
        /\ states'[t] = IF t \in DueRetries THEN "READY" ELSE states[t]
    BY <1>6 DEF ReleaseDueRetries
  <2>2. t \in DueRetries => states[t] = "RETRY_WAIT"
    BY DEF DueRetries, WaitingForRetry, InState
  <2>3. QED
    BY <1>3, <2>1, <2>2
<1>7. CASE DecidePending
  <2>1. PICK u : u = Order[cursor] /\ states[u] = "PENDING"
    BY <1>7 DEF DecidePending
  <2>2. PICK outcome : Decide(u, outcome)
    BY <1>7, <2>1 DEF DecidePending
  <2>3. PICK verdict : verdict = Verdict(Rule[u], Reached(u, outcome))
    OBVIOUS
  <2>4. u \in Tasks
    BY <1>7, <2>1, OrderFacts DEF DecidePending, IInv, Control, TypeOK
  <2>5. verdict \in {"RUN", "SKIP", "UPSTREAM_FAILED", "WAIT"}
    BY <2>3, <2>4, VerdictFacts
  <2>6. /\ retries' = retries /\ errors' = errors
        /\ \/ states' = states
           \/ /\ verdict # "WAIT"
              /\ states' = [states EXCEPT ![u] = VerdictState(verdict)]
    BY <2>2, <2>3 DEF Decide
  <2>7. verdict # "WAIT" => VerdictState(verdict) \in {"READY", "SKIPPED", "UPSTREAM_FAILED"}
    BY <2>5 DEF VerdictState
  <2>8. t # u => states'[t] = states[t]
    BY <1>1, <2>6
  <2>9. t = u => states'[t] \notin {"SUCCEEDED", "FAILED"} /\ states[t] = "PENDING"
    <3>1. CASE states' = states
      BY <2>1, <3>1
    <3>2. CASE verdict # "WAIT" /\ states' = [states EXCEPT ![u] = VerdictState(verdict)]
      <4>1. states'[u] = VerdictState(verdict)
        BY <1>1, <2>4, <3>2
      <4>2. QED
        BY <2>1, <2>7, <3>2, <4>1
    <3>3. QED
      BY <2>6, <3>1, <3>2
  <2>10. QED
    BY <1>3, <2>6, <2>8, <2>9
<1>8. CASE StartTask
  <2>1. PICK u : u = admitted[cursor] /\ states[u] = "READY"
    BY <1>8 DEF StartTask, IInv, Control
  <2>2. retries' = retries /\ errors' = errors /\ states' = [states EXCEPT ![u] = "RUNNING"]
    BY <1>8, <2>1 DEF StartTask
  <2>3. QED
    BY <1>1, <1>3, <2>1, <2>2
<1>9. CASE CompleteTask
  <2>1. PICK u \in Tasks : u = admitted[cursor] /\ states[u] = "RUNNING"
    BY <1>9, BodyFacts DEF CompleteTask
  <2>2. PICK c : SucceedTask(u, c) \/ RetryTask(u, c) \/ FailTask(u, c)
    BY <1>9, <2>1 DEF CompleteTask
  <2>3. CASE SucceedTask(u, c)
    <3>1. /\ retries' = retries /\ errors' = errors \ {u}
          /\ states' = [states EXCEPT ![u] = "SUCCEEDED"]
      BY <2>3 DEF SucceedTask
    <3>2. QED
      BY <1>1, <1>3, <2>1, <3>1
  <2>4. CASE RetryTask(u, c)
    <3>1. /\ retries' = [retries EXCEPT ![u] = @ + 1] /\ errors' = errors \cup {u}
          /\ states' = [states EXCEPT ![u] = "RETRY_WAIT"]
      BY <2>4 DEF RetryTask
    <3>2. QED
      BY <1>1, <1>3, <2>1, <3>1
  <2>5. CASE FailTask(u, c)
    <3>1. /\ retries' = retries /\ errors' = errors \cup {u}
          /\ states' = [states EXCEPT ![u] = "FAILED"]
      BY <2>5 DEF FailTask
    <3>2. QED
      BY <1>1, <1>3, <2>1, <3>1
  <2>6. QED
    BY <2>2, <2>3, <2>4, <2>5
<1>10. QED
  BY <1>4, <1>5, <1>6, <1>7, <1>8, <1>9, TaskStep

\* A batch that is recorded and noted keeps the books and the log in step
LEMMA MirrorGrows ==
  ASSUME IInv, IInv', Mirrored, log \in Seq(LogEntry), NEW es, Batch(es), NEW new,
         Stamps(new, es), log' = log \o new, snapshot' = R!Fold(snapshot, new),
         \A t \in Tasks :
           /\ startedAt'[t] = IF attempts'[t] > attempts[t] /\ startedAt[t] = R!Never
                              THEN clock' ELSE startedAt[t]
           /\ finishedAt'[t] = IF states'[t] \in Terminal /\ states[t] \notin Terminal
                               THEN clock' ELSE finishedAt[t],
         \A t \in Tasks : states[t] \in Terminal => states'[t] = states[t]
  PROVE  Mirrored'
<1>1. PICK a, b, to, now : /\ a = snapshot /\ b = snapshot' /\ to = states' /\ now = clock'
  OBVIOUS
<1>2. PICK n, m : n = Len(log) /\ m = Len(es)
  OBVIOUS
<1>3. FoldedBatch(es, b, to, now)
  BY <1>1, FoldOfBatch
<1> USE <1>3 DEF FoldedBatch
<1>4. /\ n \in Nat /\ m \in Nat /\ Len(log') = n + m
      /\ \A i \in 1 .. n : log'[i] = log[i]
      /\ \A k \in 1 .. m : log'[n + k] = new[k]
  <2>1. PICK old, all : old = log /\ all = log'
    OBVIOUS
  <2>2. old \in Seq(LogEntry) /\ new \in Seq(LogEntry) /\ all = old \o new
        /\ Len(old) = n /\ Len(new) = m
    BY <1>2, <2>1 DEF Stamps
  <2>3. \A v, w \in Seq(LogEntry) :
          Len(v) \in Nat /\ Len(w) \in Nat /\ Len(v \o w) = Len(v) + Len(w)
    OBVIOUS
  <2>4. n \in Nat /\ m \in Nat /\ Len(all) = n + m
    <3>1. Len(old) \in Nat /\ Len(new) \in Nat /\ Len(old \o new) = Len(old) + Len(new)
      BY <2>2, <2>3
    <3>2. QED
      BY <2>2, <3>1
  <2>5. \A i \in 1 .. Len(old) : all[i] = old[i]
    BY <2>2
  <2>6. \A k \in 1 .. Len(new) : all[Len(old) + k] = new[k]
    BY <2>2
  <2>7. QED
    BY <2>1, <2>2, <2>4, <2>5, <2>6
<1>5. \A k \in 1 .. m : log'[n + k].at = now
  BY <1>1, <1>2, <1>4 DEF Stamps
<1>6. Retold(es) /\ Truthful(es) /\ Complete(es)
  BY DEF Batch
<1>7. ASSUME NEW t \in Tasks PROVE SameTask(snapshot, t)'
  <2>1. PICK x, y : x = a.tasks[t] /\ y = b.tasks[t]
    OBVIOUS
  <2>2. /\ x.state = states[t] /\ x.attempts = attempts[t] /\ x.retries = retries[t]
        /\ (x.timedOut <=> t \in timedOut) /\ (x.error <=> Stumbled(t))
        /\ x.started = startedAt[t] /\ x.finished = finishedAt[t]
    BY <1>1, <2>1 DEF Mirrored, SameTask
  <2>3. TaskAfter(x, y, es, Len(es), t, to[t], now)
    BY <1>1, <1>3, <2>1
  <2>4. /\ states[t] \in TaskState /\ attempts[t] \in Nat /\ retries[t] \in Nat
    BY DEF IInv, TypeOK
  <2>5. y.state = states'[t]
    BY <1>1, <1>6, <2>2, <2>3 DEF TaskAfter, Retold, TellsMoves
  <2>6. y.attempts = attempts'[t] /\ y.retries = retries'[t] /\ (y.timedOut <=> t \in timedOut')
    BY <1>6, <2>2, <2>3 DEF TaskAfter, Retold, TellsCounts
  <2>7. y.started = startedAt'[t]
    <3>1. Tells(es, Len(es), t, {"TASK_STARTED"}) <=> attempts'[t] > attempts[t]
      BY <1>6, <2>4 DEF Retold, TellsCounts
    <3>2. QED
      BY <1>1, <2>2, <2>3, <3>1 DEF TaskAfter
  <2>8. y.finished = finishedAt'[t]
    <3>1. Tells(es, Len(es), t, R!TerminalKind) <=>
            states'[t] \in Terminal /\ states[t] \notin Terminal
      BY <1>6 DEF Truthful, Complete, Tells
    <3>2. QED
      BY <1>1, <2>2, <2>3, <3>1 DEF TaskAfter
  <2>9. y.error <=> (retries'[t] > 0 \/ states'[t] = "FAILED")
    <3>1. Tells(es, Len(es), t, {"TASK_FAILED", "TASK_RETRY_SCHEDULED"}) <=>
            Tells(es, Len(es), t, {"TASK_FAILED"}) \/ Tells(es, Len(es), t, {"TASK_RETRY_SCHEDULED"})
      BY DEF Tells
    <3>2. Tells(es, Len(es), t, {"TASK_FAILED"}) => states'[t] = "FAILED"
      BY <1>6 DEF Tells, Retold, TellsMoves, MovingKind, R!TerminalKind, StateOf, R!StateAfter
    <3>3. states'[t] = "FAILED" => states[t] = "FAILED" \/ Tells(es, Len(es), t, {"TASK_FAILED"})
      <4>1. SUFFICES ASSUME states'[t] = "FAILED", states[t] # "FAILED"
                     PROVE  Tells(es, Len(es), t, {"TASK_FAILED"})
        OBVIOUS
      <4>2. Tells(es, Len(es), t, MovingKind)
        BY <1>6, <4>1 DEF Retold, TellsMoves
      <4>3. PICK k \in 1 .. Len(es) : es[k].task = t /\ es[k].kind \in MovingKind
        BY <4>2 DEF Tells
      <4>4. StateOf(es[k].kind) = "FAILED"
        BY <1>6, <4>1, <4>3 DEF Retold, TellsMoves
      <4>5. es[k].kind = "TASK_FAILED"
        BY <4>3, <4>4 DEF MovingKind, R!TerminalKind, StateOf, R!StateAfter
      <4>6. QED
        BY <4>3, <4>5 DEF Tells
    <3>4. states[t] = "FAILED" => states'[t] = "FAILED"
      BY DEF Terminal
    <3>5. retries'[t] > 0 <=> retries[t] > 0 \/ Tells(es, Len(es), t, {"TASK_RETRY_SCHEDULED"})
      BY <1>6, <2>4 DEF Retold, TellsCounts
    <3>6. y.error <=> x.error \/ Tells(es, Len(es), t, {"TASK_FAILED", "TASK_RETRY_SCHEDULED"})
      BY <2>3 DEF TaskAfter
    <3>7. x.error <=> retries[t] > 0 \/ states[t] = "FAILED"
      BY <2>2 DEF Stumbled
    <3>8. QED
      BY <3>1, <3>2, <3>3, <3>4, <3>5, <3>6, <3>7
  <2>10. QED
    BY <1>1, <2>1, <2>5, <2>6, <2>7, <2>8, <2>9 DEF SameTask, Stumbled
<1>8. Len(log') = 0 <=> pc' = "created"
  BY <1>2, <1>4, <1>6 DEF Mirrored, Retold, TellsOfRun
<1>9. Len(log') > 0 => snapshot'.started = log'[1].at
  <2>1. SUFFICES ASSUME n + m > 0 PROVE b.started = log'[1].at
    BY <1>1, <1>4
  <2>2. CASE n = 0
    <3>1. pc = "created" /\ m > 0 /\ 1 \in 1 .. m /\ n + 1 = 1
      BY <1>2, <1>4, <2>1, <2>2 DEF Mirrored
    <3>2. QED
      BY <1>2, <1>3, <1>5, <3>1
  <2>3. CASE n # 0
    <3>1. pc # "created" /\ n > 0 /\ 1 \in 1 .. n
      BY <1>2, <1>4, <2>3 DEF Mirrored
    <3>2. snapshot.started = log[1].at
      BY <1>2, <3>1 DEF Mirrored
    <3>3. QED
      BY <1>3, <1>4, <3>1, <3>2
  <2>4. QED
    BY <2>2, <2>3
<1>10. pc' = "done" => snapshot'.run = runState' /\ snapshot'.finished = log'[Len(log')].at
  <2>1. SUFFICES ASSUME pc' = "done"
                 PROVE  b.run = runState' /\ b.finished = log'[n + m].at
    BY <1>1, <1>4
  <2>2. m > 0 /\ es[m].kind = "RUN_FINISHED" /\ es[m].detail = runState'
    BY <1>2, <1>6, <2>1 DEF Batch, Retold, TellsOfRun
  <2>3. m \in 1 .. m
    BY <1>4, <2>2
  <2>4. QED
    BY <1>2, <1>3, <1>5, <2>2, <2>3
<1>11. snapshot' \in RunRecord /\ snapshot'.corrupt = FALSE /\ snapshot'.next = Len(log')
  BY <1>1, <1>2, <1>3, <1>4
<1>12. QED
  BY <1>7, <1>8, <1>9, <1>10, <1>11 DEF Mirrored

\* The books and the log stay in step at every step of the run
LEMMA MirrorNext ==
  ASSUME IInv, IInv', LeftOutIsReady, Telling, Mirrored, LoggedNext
  PROVE  Mirrored'
<1>1. CASE LoggedStep \/ (CancelFromOutside /\ Record /\ UNCHANGED <<startedAt, finishedAt>>)
  <2>1. PICK es, new : es = emitted' /\ new = Stamped(emitted')
    OBVIOUS
  <2>2. Batch(es)
    BY <1>1, <2>1, BatchNext DEF LoggedStep
  <2>3. log' = log \o new /\ snapshot' = R!Fold(snapshot, new)
    BY <1>1, <2>1 DEF LoggedStep, Record
  <2>4. log \in Seq(LogEntry)
    BY DEF Telling
  <2>5. Stamps(new, es)
    <3>1. emitted' \in Seq(EventRecord)
      BY <2>1, <2>2 DEF Batch
    <3>2. clock' \in Nat
      BY DEF IInv, TypeOK
    <3>3. QED
      BY <2>1, <2>4, <3>1, <3>2, StampedFacts
  <2>6. [Next]_vars
    BY <1>1 DEF LoggedStep, Next
  <2>7. \A t \in Tasks : states[t] \in Terminal => states'[t] = states[t]
    BY <2>6, TerminalIsFinal
  <2>8. ASSUME NEW t \in Tasks
        PROVE  /\ startedAt'[t] = IF attempts'[t] > attempts[t] /\ startedAt[t] = R!Never
                                  THEN clock' ELSE startedAt[t]
               /\ finishedAt'[t] = IF states'[t] \in Terminal /\ states[t] \notin Terminal
                                   THEN clock' ELSE finishedAt[t]
    <3>1. CASE LoggedStep
      BY <3>1 DEF LoggedStep, Note, Began, Ended
    <3>2. CASE CancelFromOutside /\ UNCHANGED <<startedAt, finishedAt>>
      <4>1. attempts' = attempts /\ states' = states
        BY <3>2 DEF CancelFromOutside, taskVars
      <4>2. ~ (attempts[t] > attempts[t])
        BY DEF IInv, TypeOK
      <4>3. QED
        BY <3>2, <4>1, <4>2
    <3>3. QED
      BY <1>1, <3>1, <3>2
  <2>9. QED
    BY <2>2, <2>3, <2>4, <2>5, <2>7, <2>8, MirrorGrows
<1>2. CASE Rest /\ UNCHANGED <<log, snapshot, startedAt, finishedAt>>
  BY <1>2 DEF Rest, vars, taskVars, Mirrored, SameTask, Stumbled
<1>3. QED
  BY <1>1, <1>2 DEF LoggedNext

LEMMA MirrorBegins == LoggedInit => Mirrored /\ ErrorsHeld
<1> SUFFICES ASSUME LoggedInit PROVE Mirrored /\ ErrorsHeld
  OBVIOUS
<1>1. /\ log = <<>> /\ snapshot = R!BlankRun /\ pc = "created" /\ runState = "PENDING"
      /\ startedAt = [t \in Tasks |-> R!Never] /\ finishedAt = [t \in Tasks |-> R!Never]
      /\ states = [t \in Tasks |-> "PENDING"] /\ attempts = [t \in Tasks |-> 0]
      /\ retries = [t \in Tasks |-> 0] /\ errors = {} /\ timedOut = {}
  BY DEF LoggedInit, Init
<1>2. R!BlankTask \in TaskRecord
  BY DEF R!BlankTask, TaskRecord, TaskState, R!Never
<1>3. R!BlankRun \in RunRecord
  <2>1. <<>> \in Seq((Tasks \cup {NoTask} \cup RunState) \X (Tasks \cup {NoTask}))
    OBVIOUS
  <2>2. [t \in Tasks |-> R!BlankTask] \in [Tasks -> TaskRecord]
    BY <1>2
  <2>3. "PENDING" \in RunState /\ R!Never \in Int
    BY DEF RunState, R!Never
  <2>4. QED
    BY <2>1, <2>2, <2>3 DEF R!BlankRun, RunRecord
<1>4. /\ R!BlankRun.corrupt = FALSE /\ R!BlankRun.next = 0
      /\ \A t \in Tasks : R!BlankRun.tasks[t] = R!BlankTask
  BY DEF R!BlankRun
<1>5. ASSUME NEW t \in Tasks PROVE SameTask(snapshot, t)
  BY <1>1, <1>4 DEF SameTask, Stumbled, R!BlankTask
<1>6. Len(log) = 0
  BY <1>1
<1>7. ErrorsHeld
  BY <1>1 DEF ErrorsHeld, Stumbled
<1>8. QED
  BY <1>1, <1>3, <1>4, <1>5, <1>6, <1>7 DEF Mirrored

\* A run that is over has ended in a state of a run that is over
Concluded == pc = "done" => runState \in TerminalRun

LEMMA ConcludedNext == IInv /\ NothingStranded /\ Concluded /\ [Next]_vars => Concluded'
<1> SUFFICES ASSUME IInv, NothingStranded, Concluded, [Next]_vars, pc' = "done"
             PROVE  runState' \in TerminalRun
  BY DEF Concluded
<1>1. CASE Finish
  <2>1. runState' = FinalRunState /\ \A t \in Tasks : states[t] \in Terminal
    BY <1>1 DEF Finish, NothingStranded
  <2>2. DeriveRunState(states) \in TerminalRun \cup {"RUNNING"}
    BY DEF DeriveRunState, TerminalRun
  <2>3. DeriveRunState(states) # "RUNNING"
    <3>1. {states[t] : t \in DOMAIN states} \subseteq Terminal
      BY <2>1 DEF IInv, TypeOK
    <3>2. QED
      BY <3>1 DEF DeriveRunState
  <2>4. QED
    BY <2>1, <2>2, <2>3 DEF FinalRunState, TerminalRun
<1>2. CASE UNCHANGED vars \/ Rest
  BY <1>2 DEF Rest, vars, Concluded
<1>3. CASE CancelFromOutside
  BY <1>3 DEF CancelFromOutside, Stopped
<1>4. CASE \/ Start \/ ExhaustIterations \/ CancelRemaining \/ ReleaseDueRetries \/ PassOver
           \/ DecidePending \/ NextPass \/ EndResolve
  BY <1>4 DEF Start, ExhaustIterations, Raise, CancelRemaining, ReleaseDueRetries, PassOver,
     DecidePending, Decide, NextPass, EndResolve
<1>5. CASE BeginAdmission \/ WaitForRetry \/ CannotWait \/ LeaveLoop \/ Announce
  BY <1>5 DEF BeginAdmission, WaitForRetry, CannotWait, LeaveLoop, Announce, Raise
<1>6. CASE \E t \in Tasks : AdmitTask(t) \/ BlockTask(t)
  BY <1>6 DEF AdmitTask, BlockTask
<1>7. CASE StartTask \/ EndWave \/ ReleaseTask \/ EndDispatch
  BY <1>7 DEF StartTask, EndWave, ReleaseTask, EndDispatch
<1>8. CASE CompleteTask
  <2>1. pc' = "wave"
    BY <1>8 DEF CompleteTask, SucceedTask, RetryTask, FailTask, EndAttempt
  <2>2. QED
    BY <2>1
<1>9. QED
  BY <1>1, <1>2, <1>3, <1>4, <1>5, <1>6, <1>7, <1>8 DEF Next, Step

\* Replay's last look at the tasks changes nothing but the state of the run, and leaves
\* that alone when the log already gives the run an end
LEMMA ConcludeFacts ==
  ASSUME NEW a \in RunRecord, NEW b, b = R!Conclude(a)
  PROVE  /\ b.corrupt = a.corrupt /\ b.tasks = a.tasks /\ b.known = a.known
         /\ b.started = a.started /\ b.finished = a.finished
         /\ a.run \in TerminalRun => b.run = a.run
<1>1. TerminalRun = R!TerminalRun
  BY DEF TerminalRun, R!TerminalRun
<1>2. b = a \/ \E run : b = [a EXCEPT !.run = run]
  BY DEF R!Conclude
<1>3. a.run \in TerminalRun => b = a
  BY <1>1 DEF R!Conclude
<1>4. QED
  BY <1>2, <1>3 DEF RunRecord

\* What the scheduler holds and what replay makes of its log go together at every
\* moment of the run: this is the invariant from which ReplayAgrees follows
THEOREM MirrorInvariant == LoggedSpec => [](Mirrored /\ ErrorsHeld)
<1>1. [LoggedNext]_loggedVars => [Next]_vars
  BY DEF LoggedNext, LoggedStep, Next, loggedVars
<1>2. IInv /\ IInv' /\ LeftOutIsReady /\ Telling /\ Mirrored /\ [LoggedNext]_loggedVars
        => Mirrored'
  <2>1. SUFFICES ASSUME Mirrored, UNCHANGED loggedVars PROVE Mirrored'
    BY MirrorNext
  <2>2. QED
    BY <2>1 DEF loggedVars, vars, taskVars, Mirrored, SameTask, Stumbled
<1>3. LoggedInit => LeftOutIsReady
  BY DEF LoggedInit, Init, LeftOutIsReady
<1>4. LoggedInit /\ [][LoggedNext]_loggedVars => []LeftOutIsReady
  BY <1>1, <1>3, LeftOutNext, Invariant, LoggedIsScheduled, PTL DEF LoggedSpec
<1>5. QED
  BY <1>1, <1>2, <1>4, MirrorBegins, ErrorsNext, TellingInvariant, Invariant,
     LoggedIsScheduled, PTL DEF LoggedSpec

\* Replay, strict as it is, accepts the log wherever the process stops writing, and
\* gives the states, attempts, retries, timeouts, times and errors the scheduler holds,
\* and at the end the state and the span of the run -- whatever the workflow, the order
\* of its tasks, the retries, the timeouts and the cancellations.
THEOREM ReplayCorrect == LoggedSpec => []ReplayAgrees
<1>1. Telling /\ Mirrored /\ ErrorsHeld /\ Concluded /\ IInv => ReplayAgrees
  <2>1. SUFFICES ASSUME Telling, Mirrored, ErrorsHeld, Concluded, IInv, Written
                 PROVE  /\ ~ Replayed.corrupt
                        /\ Agrees(Replayed)
                        /\ pc = "done" =>
                             /\ Replayed.run = runState
                             /\ <<Replayed.started, Replayed.finished>> = Span
    BY DEF ReplayAgrees
  <2>2. PICK a, b : a = snapshot /\ b = Replayed
    OBVIOUS
  <2>3. a \in RunRecord /\ a.corrupt = FALSE /\ b = R!Conclude(a)
    BY <2>1, <2>2 DEF Mirrored, Replayed
  <2>4. /\ b.corrupt = FALSE /\ b.tasks = a.tasks
        /\ b.started = a.started /\ b.finished = a.finished
        /\ a.run \in TerminalRun => b.run = a.run
    BY <2>3, ConcludeFacts
  <2>5. ASSUME NEW t \in Tasks
        PROVE  /\ \A field \in DOMAIN TaskResult(t) \ {"error"} :
                    b.tasks[t][field] = TaskResult(t)[field]
               /\ b.tasks[t].error <=> TaskResult(t).error \/ ErrorKept(t)
    <3>1. PICK x, result : x = a.tasks[t] /\ result = TaskResult(t)
      OBVIOUS
    <3>2. /\ x.state = states[t] /\ x.attempts = attempts[t] /\ x.retries = retries[t]
          /\ (x.timedOut <=> t \in timedOut) /\ (x.error <=> Stumbled(t))
          /\ x.started = startedAt[t] /\ x.finished = finishedAt[t]
      BY <2>1, <2>2, <3>1 DEF Mirrored, SameTask
    <3>3. x \in TaskRecord
      BY <2>3, <3>1 DEF RunRecord
    <3>4. x.timedOut \in BOOLEAN /\ x.error \in BOOLEAN
      BY <3>3 DEF TaskRecord
    <3>5. /\ DOMAIN result = {"state", "attempts", "retries", "timedOut", "error",
                              "started", "finished"}
          /\ result.state = states[t] /\ result.attempts = attempts[t]
          /\ result.retries = retries[t]
          /\ result.timedOut = (t \in timedOut) /\ result.error = (t \in errors)
          /\ result.started = startedAt[t] /\ result.finished = finishedAt[t]
      BY <3>1 DEF TaskResult
    <3>6. x.timedOut = result.timedOut
      BY <3>2, <3>4, <3>5
    <3>7. \A field \in DOMAIN result \ {"error"} : x[field] = result[field]
      BY <3>2, <3>5, <3>6
    <3>8. t \in errors <=> states[t] # "SUCCEEDED" /\ Stumbled(t)
      BY <2>1 DEF ErrorsHeld
    <3>9. x.error <=> t \in errors \/ ErrorKept(t)
      <4>1. retries[t] \in Nat
        BY <2>1 DEF IInv, TypeOK
      <4>2. QED
        BY <3>2, <3>8, <4>1 DEF Stumbled, ErrorKept
    <3>10. x.error <=> result.error \/ ErrorKept(t)
      BY <3>5, <3>9
    <3>11. b.tasks[t] = x
      BY <2>4, <3>1
    <3>12. QED
      BY <3>1, <3>7, <3>10, <3>11
  <2>6. Agrees(Replayed)
    BY <2>2, <2>5 DEF Agrees
  <2>7. Len(log) > 0
    <3>1. log \in Seq(LogEntry) /\ log # <<>>
      BY <2>1 DEF Written, Telling
    <3>2. QED
      BY <3>1
  <2>8. ASSUME pc = "done"
        PROVE  b.run = runState /\ <<b.started, b.finished>> = Span
    <3>1. a.run = runState /\ runState \in TerminalRun /\ a.finished = log[Len(log)].at
          /\ a.started = log[1].at
      BY <2>1, <2>2, <2>7, <2>8 DEF Mirrored, Concluded
    <3>2. QED
      BY <2>4, <3>1 DEF Span
  <2>9. QED
    BY <2>2, <2>4, <2>6, <2>8
<1>2. LoggedInit => Concluded
  BY DEF LoggedInit, Init, Concluded
<1>3. [LoggedNext]_loggedVars => [Next]_vars
  BY DEF LoggedNext, LoggedStep, Next, loggedVars
<1>4. LoggedSpec => []Concluded
  BY <1>2, <1>3, ConcludedNext, Invariant, NothingStrandedEver, LoggedIsScheduled, PTL
     DEF LoggedSpec
<1>5. QED
  BY <1>1, <1>4, MirrorInvariant, TellingInvariant, Invariant, LoggedIsScheduled, PTL

-------------------------------------------------------------------------------
(* The times of the tasks.                                                   *)

\* Whoever took the wait for an upstream as over was right: a cached answer is about an
\* upstream that has ended
CacheStands ==
  \A e \in Edges : conditions[e] # Unknown => states[e[1]] \in Terminal

\* A start is noted with the first attempt, an end with the end
TimesNoted ==
  \A t \in Tasks :
    /\ startedAt[t] \in Nat \cup {R!Never} /\ finishedAt[t] \in Nat \cup {R!Never}
    /\ startedAt[t] # R!Never <=> attempts[t] > 0
    /\ finishedAt[t] # R!Never <=> states[t] \in Terminal

\* Nothing lies in the future, no task ends before it starts, and a body that runs for
\* the first time started at this moment
TimesPast ==
  \A t \in Tasks :
    /\ startedAt[t] <= clock /\ finishedAt[t] <= clock
    /\ finishedAt[t] # R!Never => startedAt[t] <= finishedAt[t]
    /\ states[t] = "RUNNING" /\ retries[t] = 0 => startedAt[t] = clock

\* The tasks that ran once and are over
RanOnce ==
  {t \in Tasks : startedAt[t] # R!Never /\ finishedAt[t] # R!Never /\ retries[t] = 0}

OneAtATime ==
  \A t, u \in RanOnce :
    t # u => finishedAt[t] <= startedAt[u] \/ finishedAt[u] <= startedAt[t]

EndedBy(u, time) == finishedAt[u] # R!Never /\ finishedAt[u] <= time

UpstreamsFirst ==
  \A t \in Tasks :
    startedAt[t] # R!Never /\ EdgesInto[t] # <<>> =>
      /\ Rule[t] \in WaitsForAll => \A u \in Upstreams(t) : EndedBy(u, startedAt[t])
      /\ Rule[t] = "ANY_SUCCESS" => \E u \in Upstreams(t) : EndedBy(u, startedAt[t])

\* No task starts or ends before the run starts, and once the log gives the run an end no time
\* passes any more
SpanStands ==
  /\ pc = "created" => \A t \in Tasks : startedAt[t] = R!Never /\ finishedAt[t] = R!Never
  /\ pc # "created" => \A t \in Tasks :
       /\ startedAt[t] # R!Never => snapshot.started <= startedAt[t]
       /\ finishedAt[t] # R!Never => snapshot.started <= finishedAt[t]
  /\ pc # "created" => snapshot.started \in Nat /\ snapshot.started <= clock
  /\ snapshot.finished # R!Never =>
       /\ snapshot.finished = clock
       /\ \/ pc = "done"
          \/ token # "active" /\ pc \in {"wave", "release", "loop", "finish", "raised"}

Timely ==
  TimesNoted /\ TimesPast /\ OneAtATime /\ UpstreamsFirst /\ SpanStands

-------------------------------------------------------------------------------
(* What a step does to the times.                                            *)

\* Which steps take time
LEMMA ClockStep ==
  ASSUME [Next]_vars
  PROVE  CompleteTask \/ WaitForRetry \/ UNCHANGED clock
<1>1. CASE Start \/ ExhaustIterations \/ PassOver \/ NextPass \/ EndResolve
  BY <1>1 DEF Start, ExhaustIterations, Raise, PassOver, NextPass, EndResolve
<1>2. CASE CancelRemaining \/ ReleaseDueRetries \/ DecidePending \/ StartTask
  BY <1>2 DEF CancelRemaining, ReleaseDueRetries, DecidePending, Decide, StartTask
<1>3. CASE BeginAdmission \/ CannotWait \/ LeaveLoop
  BY <1>3 DEF BeginAdmission, CannotWait, Raise, LeaveLoop
<1>4. CASE \E t \in Tasks : AdmitTask(t) \/ BlockTask(t)
  BY <1>4 DEF AdmitTask, BlockTask
<1>5. CASE Announce \/ EndWave \/ ReleaseTask \/ EndDispatch
  BY <1>5 DEF Announce, EndWave, ReleaseTask, EndDispatch
<1>6. CASE Finish \/ CancelFromOutside \/ UNCHANGED vars
  BY <1>6 DEF Finish, CancelFromOutside, vars
<1>7. QED
  BY <1>1, <1>2, <1>3, <1>4, <1>5, <1>6 DEF Next, Step, Rest

\* t begins an attempt, or ends one, or the step is one between bodies
Begins(t) ==
  /\ states[t] = "READY" /\ pc = "wave" /\ clock' = clock /\ retries' = retries
  /\ \A u \in Tasks : /\ states'[u] = IF u = t THEN "RUNNING" ELSE states[u]
                      /\ attempts'[u] = IF u = t THEN attempts[u] + 1 ELSE attempts[u]

Returns(t) ==
  /\ states[t] = "RUNNING" /\ states'[t] \in {"SUCCEEDED", "FAILED", "RETRY_WAIT"}
  /\ attempts' = attempts
  /\ retries'[t] = IF states'[t] = "RETRY_WAIT" THEN retries[t] + 1 ELSE retries[t]
  /\ \A u \in Tasks \ {t} : states'[u] = states[u] /\ retries'[u] = retries[u]

Between ==
  /\ attempts' = attempts /\ retries' = retries
  /\ \A t \in Tasks :
       /\ states'[t] = "RUNNING" <=> states[t] = "RUNNING"
       /\ states[t] = "RUNNING" => clock' = clock

LEMMA TimesStep ==
  ASSUME IInv, [Next]_vars
  PROVE  (\E t \in Tasks : Begins(t)) \/ (\E t \in Tasks : Returns(t)) \/ Between
<1>1. /\ states \in [Tasks -> TaskState] /\ attempts \in [Tasks -> Nat]
      /\ retries \in [Tasks -> Nat] /\ clock \in Nat
  BY DEF IInv, TypeOK
<1>2. CASE StartTask
  <2>1. PICK t : t = admitted[cursor]
    OBVIOUS
  <2>2. t \in Tasks /\ states[t] = "READY"
    BY <1>2, <2>1 DEF StartTask, IInv, Control, TypeOK
  <2>3. /\ pc = "wave" /\ clock' = clock /\ retries' = retries
        /\ states' = [states EXCEPT ![t] = "RUNNING"]
        /\ attempts' = [attempts EXCEPT ![t] = @ + 1]
    BY <1>2, <2>1 DEF StartTask
  <2>4. Begins(t)
    BY <1>1, <2>2, <2>3 DEF Begins
  <2>5. QED
    BY <2>2, <2>4
<1>3. CASE CompleteTask
  <2>1. PICK t : t = admitted[cursor]
    OBVIOUS
  <2>2. t \in Tasks /\ states[t] = "RUNNING"
    BY <1>3, <2>1, BodyFacts DEF CompleteTask
  <2>3. PICK c : SucceedTask(t, c) \/ RetryTask(t, c) \/ FailTask(t, c)
    BY <1>3, <2>1 DEF CompleteTask
  <2>4. /\ attempts' = attempts
        /\ \/ /\ states' = [states EXCEPT ![t] = "SUCCEEDED"] /\ retries' = retries
           \/ /\ states' = [states EXCEPT ![t] = "FAILED"] /\ retries' = retries
           \/ /\ states' = [states EXCEPT ![t] = "RETRY_WAIT"]
              /\ retries' = [retries EXCEPT ![t] = @ + 1]
    BY <2>3 DEF SucceedTask, RetryTask, FailTask, EndAttempt
  <2>5. Returns(t)
    BY <1>1, <2>2, <2>4 DEF Returns
  <2>6. QED
    BY <2>2, <2>5
<1>4. CASE ~ StartTask /\ ~ CompleteTask
  <2>1. attempts' = attempts
    BY <1>4, AttemptsStep
  <2>2. ASSUME NEW t \in Tasks, states[t] = "RUNNING" PROVE clock' = clock
    <3>1. pc = "body"
      BY <2>2 DEF IInv, Control, InState
    <3>2. QED
      BY <1>4, <3>1, ClockStep DEF WaitForRetry
  <2>3. CASE UNCHANGED taskVars
    BY <2>1, <2>2, <2>3 DEF Between, taskVars
  <2>4. CASE CancelRemaining \/ ReleaseDueRetries
    <3>1. pc = "loop" /\ retries' = retries
          /\ \A t \in Tasks : states'[t] \in {states[t], "CANCELLED", "READY"}
      BY <2>4 DEF CancelRemaining, ReleaseDueRetries
    <3>2. \A t \in Tasks : states[t] # "RUNNING"
      BY <3>1 DEF IInv, Control, InState
    <3>3. QED
      BY <2>1, <3>1, <3>2 DEF Between
  <2>5. CASE DecidePending
    <3>1. pc = "resolve" /\ retries' = retries
      BY <2>5 DEF DecidePending, Decide
    <3>2. \A t \in Tasks : states[t] # "RUNNING"
      BY <3>1 DEF IInv, Control, InState
    <3>3. PICK u : u = Order[cursor] /\ u \in Tasks
      BY <2>5, OrderFacts DEF DecidePending, IInv, Control, TypeOK
    <3>4. PICK outcome : Decide(u, outcome)
      BY <2>5, <3>3 DEF DecidePending
    <3>5. PICK verdict : verdict = Verdict(Rule[u], Reached(u, outcome))
      OBVIOUS
    <3>6. verdict \in {"RUN", "SKIP", "UPSTREAM_FAILED", "WAIT"}
      BY <3>3, <3>5, VerdictFacts
    <3>7. \/ states' = states
          \/ /\ verdict # "WAIT"
             /\ states' = [states EXCEPT ![u] = VerdictState(verdict)]
      BY <3>4, <3>5 DEF Decide
    <3>8. verdict # "WAIT" => VerdictState(verdict) # "RUNNING"
      BY <3>6 DEF VerdictState
    <3>9. \A t \in Tasks : states'[t] # "RUNNING"
      BY <1>1, <3>2, <3>7, <3>8
    <3>10. QED
      BY <2>1, <3>1, <3>2, <3>9 DEF Between
  <2>6. QED
    BY <1>4, <2>3, <2>4, <2>5, TaskStep
<1>5. QED
  BY <1>2, <1>3, <1>4

\* The scheduler notes when a task first starts, and when it ends
Noted ==
  \A t \in Tasks :
    /\ startedAt'[t] = IF attempts'[t] > attempts[t] /\ startedAt[t] = R!Never
                       THEN clock' ELSE startedAt[t]
    /\ finishedAt'[t] = IF states'[t] \in Terminal /\ states[t] \notin Terminal
                        THEN clock' ELSE finishedAt[t]

LEMMA NotedAlways ==
  ASSUME IInv, [LoggedNext]_loggedVars
  PROVE  Noted
<1>1. CASE LoggedStep
  BY <1>1 DEF LoggedStep, Note, Began, Ended, Noted
<1>2. CASE ~ LoggedStep
  <2>1. UNCHANGED <<startedAt, finishedAt>> /\ attempts' = attempts /\ states' = states
    BY <1>2 DEF LoggedNext, loggedVars, CancelFromOutside, Rest, vars, taskVars
  <2>2. \A t \in Tasks : ~ (attempts[t] > attempts[t])
    BY DEF IInv, TypeOK
  <2>3. QED
    BY <2>1, <2>2 DEF Noted
<1>3. QED
  BY <1>1, <1>2

LEMMA TimesNotedNext ==
  ASSUME IInv, IInv', TimesNoted, Noted, [Next]_vars
  PROVE  TimesNoted'
<1>1. clock' \in Nat /\ attempts \in [Tasks -> Nat] /\ attempts' \in [Tasks -> Nat]
  BY DEF IInv, TypeOK
<1>2. SUFFICES ASSUME NEW t \in Tasks
               PROVE  /\ startedAt'[t] \in Nat \cup {R!Never}
                      /\ finishedAt'[t] \in Nat \cup {R!Never}
                      /\ startedAt'[t] # R!Never <=> attempts'[t] > 0
                      /\ finishedAt'[t] # R!Never <=> states'[t] \in Terminal
  BY DEF TimesNoted
<1>3. /\ startedAt[t] \in Nat \cup {R!Never} /\ finishedAt[t] \in Nat \cup {R!Never}
      /\ startedAt[t] # R!Never <=> attempts[t] > 0
      /\ finishedAt[t] # R!Never <=> states[t] \in Terminal
  BY DEF TimesNoted
<1>4. /\ startedAt'[t] = IF attempts'[t] > attempts[t] /\ startedAt[t] = R!Never
                         THEN clock' ELSE startedAt[t]
      /\ finishedAt'[t] = IF states'[t] \in Terminal /\ states[t] \notin Terminal
                          THEN clock' ELSE finishedAt[t]
  BY DEF Noted
<1>5. attempts'[t] = attempts[t] \/ attempts'[t] = attempts[t] + 1
  BY TimesStep DEF Begins, Returns, Between
<1>6. states[t] \in Terminal => states'[t] = states[t]
  BY TerminalIsFinal
<1>7. /\ startedAt'[t] \in Nat \cup {R!Never}
      /\ startedAt'[t] # R!Never <=> attempts'[t] > 0
  BY <1>1, <1>3, <1>4, <1>5 DEF R!Never
<1>8. /\ finishedAt'[t] \in Nat \cup {R!Never}
      /\ finishedAt'[t] # R!Never <=> states'[t] \in Terminal
  BY <1>1, <1>3, <1>4, <1>6 DEF R!Never
<1>9. QED
  BY <1>7, <1>8

\* Nobody runs beside anybody
LEMMA OneBody ==
  ASSUME IInv, NEW t \in Tasks, NEW u \in Tasks, states[t] = "RUNNING", states[u] = "RUNNING"
  PROVE  t = u
BY DEF IInv, Control, InState

\* A task that is not running and has no retry behind it has not started
LEMMA FreshTask ==
  ASSUME IInv, TimesNoted, NEW t \in Tasks, retries[t] = 0,
         states[t] \notin {"RUNNING", "SUCCEEDED", "FAILED"}
  PROVE  startedAt[t] = R!Never
<1>1. attempts[t] = 0
  BY DEF IInv, Attempting, AttemptingOf
<1>2. QED
  BY <1>1 DEF TimesNoted

LEMMA TimesPastNext ==
  ASSUME IInv, IInv', TimesNoted, TimesPast, Noted, [Next]_vars
  PROVE  TimesPast'
<1>1. clock \in Nat /\ clock' \in Nat /\ clock <= clock'
  BY ClockGrows
<1>2. SUFFICES ASSUME NEW t \in Tasks
               PROVE  /\ startedAt'[t] <= clock' /\ finishedAt'[t] <= clock'
                      /\ finishedAt'[t] # R!Never => startedAt'[t] <= finishedAt'[t]
                      /\ states'[t] = "RUNNING" /\ retries'[t] = 0 => startedAt'[t] = clock'
  BY DEF TimesPast
<1>3. /\ startedAt[t] \in Int /\ finishedAt[t] \in Int
      /\ finishedAt[t] # R!Never <=> states[t] \in Terminal
  BY DEF TimesNoted, R!Never
<1>4. /\ startedAt[t] <= clock /\ finishedAt[t] <= clock
      /\ finishedAt[t] # R!Never => startedAt[t] <= finishedAt[t]
      /\ states[t] = "RUNNING" /\ retries[t] = 0 => startedAt[t] = clock
  BY DEF TimesPast
<1>5. /\ startedAt'[t] = IF attempts'[t] > attempts[t] /\ startedAt[t] = R!Never
                         THEN clock' ELSE startedAt[t]
      /\ finishedAt'[t] = IF states'[t] \in Terminal /\ states[t] \notin Terminal
                          THEN clock' ELSE finishedAt[t]
  BY DEF Noted
<1>6. startedAt'[t] <= clock' /\ finishedAt'[t] <= clock'
  BY <1>1, <1>3, <1>4, <1>5
<1>7. attempts[t] \in Nat /\ retries[t] \in Nat
  BY DEF IInv, TypeOK
<1>8. ASSUME finishedAt'[t] # R!Never PROVE startedAt'[t] <= finishedAt'[t]
  <2>1. CASE states'[t] \in Terminal /\ states[t] \notin Terminal
    BY <1>5, <1>6, <2>1
  <2>2. CASE ~ (states'[t] \in Terminal /\ states[t] \notin Terminal)
    <3>1. states[t] \in Terminal
      BY <1>3, <1>5, <1>8, <2>2
    <3>2. attempts'[t] = attempts[t]
      BY <3>1, TimesStep DEF Begins, Returns, Between, Terminal
    <3>3. ~ (attempts'[t] > attempts[t])
      BY <1>7, <3>2
    <3>4. QED
      BY <1>4, <1>5, <1>8, <2>2, <3>3
  <2>3. QED
    BY <2>1, <2>2
<1>9. ASSUME states'[t] = "RUNNING", retries'[t] = 0 PROVE startedAt'[t] = clock'
  <2>1. CASE Begins(t)
    <3>1. retries[t] = 0 /\ states[t] = "READY" /\ attempts'[t] = attempts[t] + 1
      BY <1>9, <2>1 DEF Begins
    <3>2. startedAt[t] = R!Never
      BY <3>1, FreshTask
    <3>3. attempts'[t] > attempts[t]
      BY <1>7, <3>1
    <3>4. QED
      BY <1>5, <3>2, <3>3
  <2>2. CASE (\E u \in Tasks \ {t} : Begins(u)) \/ Between
    <3>1. /\ retries[t] = 0 /\ states[t] = "RUNNING" /\ attempts'[t] = attempts[t]
          /\ clock' = clock
      BY <1>9, <2>2 DEF Begins, Between
    <3>2. ~ (attempts'[t] > attempts[t])
      BY <1>7, <3>1
    <3>3. QED
      BY <1>4, <1>5, <3>1, <3>2
  <2>3. CASE \E u \in Tasks : Returns(u)
    <3>1. PICK u \in Tasks : Returns(u)
      BY <2>3
    <3>2. t # u
      BY <1>9, <3>1 DEF Returns
    <3>3. states[t] = "RUNNING" /\ states[u] = "RUNNING"
      BY <1>9, <3>1, <3>2 DEF Returns
    <3>4. QED
      BY <3>2, <3>3, OneBody
  <2>4. QED
    BY <2>1, <2>2, <2>3, TimesStep
<1>10. QED
  BY <1>6, <1>8, <1>9

\* Whose only attempt is over either was there before or has just returned
LEMMA RanOnceStep ==
  ASSUME IInv, IInv', TimesNoted, TimesNoted', TimesPast, Noted, [Next]_vars,
         NEW t \in RanOnce'
  PROVE  \/ /\ t \in RanOnce
            /\ startedAt'[t] = startedAt[t] /\ finishedAt'[t] = finishedAt[t]
         \/ states[t] = "RUNNING" /\ startedAt'[t] = clock
<1>1. /\ t \in Tasks /\ startedAt'[t] # R!Never /\ finishedAt'[t] # R!Never
      /\ retries'[t] = 0
  BY DEF RanOnce
<1>2. /\ startedAt'[t] = IF attempts'[t] > attempts[t] /\ startedAt[t] = R!Never
                         THEN clock' ELSE startedAt[t]
      /\ finishedAt'[t] = IF states'[t] \in Terminal /\ states[t] \notin Terminal
                          THEN clock' ELSE finishedAt[t]
  BY <1>1 DEF Noted
<1>3. states'[t] \in Terminal
  BY <1>1 DEF TimesNoted
<1>4. attempts[t] \in Nat /\ retries[t] \in Nat
  BY <1>1 DEF IInv, TypeOK
<1>5. attempts'[t] = attempts[t]
  BY <1>1, <1>3, TimesStep DEF Begins, Returns, Between, Terminal
<1>6. startedAt'[t] = startedAt[t]
  <2>1. ~ (attempts'[t] > attempts[t])
    BY <1>4, <1>5
  <2>2. QED
    BY <1>2, <2>1
<1>7. CASE states[t] \in Terminal
  <2>1. finishedAt'[t] = finishedAt[t]
    BY <1>2, <1>7
  <2>2. retries'[t] = retries[t]
    BY <1>1, <1>7, TimesStep DEF Begins, Returns, Between, Terminal
  <2>3. QED
    BY <1>1, <1>6, <2>1, <2>2 DEF RanOnce
<1>8. CASE states[t] \notin Terminal
  <2>1. retries[t] = 0
    BY <1>1, <1>3, <1>4, TimesStep DEF Begins, Returns, Between, Terminal
  <2>2. CASE states[t] = "RUNNING"
    BY <1>1, <1>6, <2>1, <2>2 DEF TimesPast
  <2>3. CASE states[t] # "RUNNING"
    <3>1. states[t] \notin {"RUNNING", "SUCCEEDED", "FAILED"}
      BY <1>8, <2>3 DEF Terminal
    <3>2. startedAt[t] = R!Never
      BY <1>1, <2>1, <3>1, FreshTask
    <3>3. QED
      BY <1>1, <1>6, <3>2
  <2>4. QED
    BY <2>2, <2>3
<1>9. QED
  BY <1>7, <1>8

LEMMA OneAtATimeNext ==
  ASSUME IInv, IInv', TimesNoted, TimesNoted', TimesPast, OneAtATime, Noted, [Next]_vars
  PROVE  OneAtATime'
<1>1. SUFFICES ASSUME NEW t \in RanOnce', NEW u \in RanOnce', t # u
               PROVE  finishedAt'[t] <= startedAt'[u] \/ finishedAt'[u] <= startedAt'[t]
  BY DEF OneAtATime
<1>2. t \in Tasks /\ u \in Tasks
  BY DEF RanOnce
<1>3. CASE states[t] = "RUNNING" /\ startedAt'[t] = clock
  <2>1. states[u] # "RUNNING"
    BY <1>1, <1>2, <1>3, OneBody
  <2>2. finishedAt'[u] = finishedAt[u]
    BY <2>1, RanOnceStep
  <2>3. finishedAt[u] <= clock
    BY <1>2 DEF TimesPast
  <2>4. QED
    BY <1>3, <2>2, <2>3
<1>4. CASE states[u] = "RUNNING" /\ startedAt'[u] = clock
  <2>1. states[t] # "RUNNING"
    BY <1>1, <1>2, <1>4, OneBody
  <2>2. finishedAt'[t] = finishedAt[t]
    BY <2>1, RanOnceStep
  <2>3. finishedAt[t] <= clock
    BY <1>2 DEF TimesPast
  <2>4. QED
    BY <1>4, <2>2, <2>3
<1>5. CASE /\ t \in RanOnce /\ u \in RanOnce
           /\ startedAt'[t] = startedAt[t] /\ finishedAt'[t] = finishedAt[t]
           /\ startedAt'[u] = startedAt[u] /\ finishedAt'[u] = finishedAt[u]
  BY <1>1, <1>5 DEF OneAtATime
<1>6. QED
  BY <1>3, <1>4, <1>5, RanOnceStep

LEMMA CacheStandsNext == IInv /\ CacheStands /\ [Next]_vars => CacheStands'
<1> SUFFICES ASSUME IInv, CacheStands, [Next]_vars, NEW e \in Edges, conditions'[e] # Unknown
             PROVE  states'[e[1]] \in Terminal
  BY DEF CacheStands, Edges, Upstreams
<1>1. e[1] \in Tasks
  BY EdgeFacts
<1>2. states[e[1]] \in Terminal => states'[e[1]] \in Terminal
  BY <1>1, TerminalIsFinal
<1>3. conditions'[e] = conditions[e] \/ states[e[1]] \in Terminal
  BY ConditionStep DEF DecidePending, Decide, EvaluateEdges
<1>4. QED
  BY <1>2, <1>3 DEF CacheStands

\* A rule that says run, and what that says of the upstreams
LEMMA RunsAfter ==
  ASSUME IInv, CacheStands, DecisionsStand, NEW t \in Tasks, states[t] = "READY",
         EdgesInto[t] # <<>>
  PROVE  /\ Rule[t] \in WaitsForAll => \A u \in Upstreams(t) : states[u] \in Terminal
         /\ Rule[t] = "ANY_SUCCESS" => \E u \in Upstreams(t) : states[u] \in Terminal
<1>1. EvaluateTriggerRule(Rule[t], Known(t)) = "RUN"
  BY DEF DecisionsStand
<1>2. \A u \in Upstreams(t) : <<u, t>> \in EdgesOf(t)
  BY DEF EdgesOf
<1>3. EdgesOf(t) = {<<u, t>> : u \in Upstreams(t)} /\ EdgesOf(t) \subseteq Edges
  BY EdgeFacts DEF EdgesOf
<1>4. Known(t) # {}
  <2>1. EdgesInto[t] \in Seq(Tasks)
    BY SchedulerAssumption DEF SchedulerAssumption, WorkflowAssumption
  <2>2. 1 \in 1 .. Len(EdgesInto[t])
    BY <2>1
  <2>3. QED
    BY <1>3, <2>2 DEF Known, Upstreams
<1>5. Satisfied(Rule[t], Known(t))
  BY <1>1, <1>4 DEF EvaluateTriggerRule
<1>6. ASSUME NEW u \in Upstreams(t), KnownState(<<u, t>>) \in Terminal
      PROVE  states[u] \in Terminal
  <2>1. <<u, t>> \in Edges
    BY <1>2, <1>3
  <2>2. QED
    BY <1>6, <2>1 DEF CacheStands, KnownState
<1>7. ASSUME Rule[t] \in WaitsForAll PROVE \A u \in Upstreams(t) : states[u] \in Terminal
  <2>1. Known(t) \subseteq Terminal
    BY <1>5, <1>7 DEF Satisfied, WaitsForAll, Terminal
  <2>2. QED
    BY <1>2, <1>6, <2>1 DEF Known
<1>8. ASSUME Rule[t] = "ANY_SUCCESS" PROVE \E u \in Upstreams(t) : states[u] \in Terminal
  <2>1. "SUCCEEDED" \in Known(t)
    BY <1>5, <1>8 DEF Satisfied
  <2>2. PICK u \in Upstreams(t) : KnownState(<<u, t>>) = "SUCCEEDED"
    BY <1>3, <2>1 DEF Known
  <2>3. QED
    BY <1>6, <2>2 DEF Terminal
<1>9. QED
  BY <1>7, <1>8

LEMMA UpstreamsFirstNext ==
  ASSUME IInv, IInv', CacheStands, DecisionsStand, TimesNoted, TimesNoted', TimesPast,
         UpstreamsFirst, Noted, [Next]_vars
  PROVE  UpstreamsFirst'
<1>1. SUFFICES ASSUME NEW t \in Tasks, startedAt'[t] # R!Never, EdgesInto[t] # <<>>
               PROVE  /\ Rule[t] \in WaitsForAll =>
                           \A u \in Upstreams(t) :
                             finishedAt'[u] # R!Never /\ finishedAt'[u] <= startedAt'[t]
                      /\ Rule[t] = "ANY_SUCCESS" =>
                           \E u \in Upstreams(t) :
                             finishedAt'[u] # R!Never /\ finishedAt'[u] <= startedAt'[t]
  BY DEF UpstreamsFirst, EndedBy, Upstreams
<1>2. Upstreams(t) \subseteq Tasks
  BY EdgeFacts
<1>3. ASSUME NEW u \in Upstreams(t), finishedAt[u] # R!Never
      PROVE  finishedAt'[u] = finishedAt[u]
  BY <1>2, <1>3 DEF Noted, TimesNoted
<1>4. startedAt'[t] = IF attempts'[t] > attempts[t] /\ startedAt[t] = R!Never
                      THEN clock' ELSE startedAt[t]
  BY DEF Noted
<1>5. CASE startedAt[t] # R!Never
  <2>1. startedAt'[t] = startedAt[t]
    BY <1>4, <1>5
  <2>2. /\ Rule[t] \in WaitsForAll => \A u \in Upstreams(t) : EndedBy(u, startedAt[t])
        /\ Rule[t] = "ANY_SUCCESS" => \E u \in Upstreams(t) : EndedBy(u, startedAt[t])
    BY <1>1, <1>5 DEF UpstreamsFirst
  <2>3. QED
    BY <1>3, <2>1, <2>2 DEF EndedBy
<1>6. CASE startedAt[t] = R!Never
  <2>1. attempts'[t] > attempts[t]
    BY <1>1, <1>4, <1>6
  <2>2. attempts[t] \in Nat
    BY DEF IInv, TypeOK
  <2>3. Begins(t)
    BY <2>1, <2>2, TimesStep DEF Begins, Returns, Between
  <2>4. startedAt'[t] = clock /\ states[t] = "READY"
    BY <1>4, <1>6, <2>1, <2>3 DEF Begins
  <2>5. ASSUME NEW u \in Upstreams(t), states[u] \in Terminal
        PROVE  finishedAt'[u] # R!Never /\ finishedAt'[u] <= startedAt'[t]
    <3>1. finishedAt[u] # R!Never /\ finishedAt[u] <= clock
      BY <1>2, <2>5 DEF TimesNoted, TimesPast
    <3>2. QED
      BY <1>3, <2>4, <3>1
  <2>6. QED
    BY <1>1, <2>4, <2>5, RunsAfter
<1>7. QED
  BY <1>5, <1>6

\* What the log says of the run, and when it says so: its start with its first step, its
\* end with the last one or with a cancellation
SnapshotMoves ==
  /\ snapshot'.started = IF pc = "created" /\ pc' # "created"
                         THEN clock' ELSE snapshot.started
  /\ snapshot'.finished # snapshot.finished =>
       /\ snapshot'.finished = clock'
       /\ pc' = "done" \/ (pc' = "wave" /\ token' # "active")

LEMMA SnapshotStep ==
  ASSUME IInv, IInv', LeftOutIsReady, Telling, Mirrored, [LoggedNext]_loggedVars
  PROVE  SnapshotMoves
<1>1. CASE LoggedStep \/ (CancelFromOutside /\ Record)
  <2>1. PICK es, new, b, to, now : /\ es = emitted' /\ new = Stamped(emitted')
                                   /\ b = snapshot' /\ to = states' /\ now = clock'
    OBVIOUS
  <2>2. Batch(es)
    BY <1>1, <2>1, BatchNext DEF LoggedStep
  <2>3. b = R!Fold(snapshot, new)
    BY <1>1, <2>1 DEF LoggedStep, Record
  <2>4. log \in Seq(LogEntry) /\ now \in Nat
    BY <2>1 DEF Telling, IInv, TypeOK
  <2>5. Stamps(new, es)
    <3>1. emitted' \in Seq(EventRecord)
      BY <2>1, <2>2 DEF Batch
    <3>2. QED
      BY <2>1, <2>4, <3>1, StampedFacts
  <2>6. FoldedBatch(es, b, to, now)
    BY <2>1, <2>2, <2>3, <2>4, <2>5, FoldOfBatch
  <2>7. TellsOfRun(es) /\ TellsCancelOnce(es)
    BY <2>2 DEF Batch, Retold
  <2>8. b.started = IF pc = "created" /\ pc' # "created" THEN now ELSE snapshot.started
    <3>1. pc = "created" => (Len(es) > 0 <=> pc' # "created")
      BY <2>7 DEF TellsOfRun
    <3>2. b.started = IF pc = "created" /\ Len(es) > 0 THEN now ELSE snapshot.started
      BY <2>6 DEF FoldedBatch
    <3>3. QED
      BY <3>1, <3>2
  <2>9. ASSUME b.finished # snapshot.finished
        PROVE  b.finished = now /\ (pc' = "done" \/ (pc' = "wave" /\ token' # "active"))
    <3>1. b.finished = now
      BY <2>6, <2>9 DEF FoldedBatch
    <3>2. PICK k \in 1 .. Len(es) : es[k].kind \in {"RUN_FINISHED", "RUN_CANCELLED"}
      BY <2>6, <2>9 DEF FoldedBatch
    <3>3. \A j \in 1 .. Len(es) : /\ es[j].kind = "RUN_FINISHED" => pc' = "done"
                                  /\ es[j].kind = "RUN_CANCELLED" => pc' = "wave"
      BY <2>7 DEF TellsOfRun
    <3>4. es[k].kind = "RUN_CANCELLED" => token' # "active"
      BY <2>7 DEF TellsCancelOnce
    <3>5. QED
      BY <3>1, <3>2, <3>3, <3>4
  <2>10. QED
    BY <2>1, <2>8, <2>9 DEF SnapshotMoves
<1>2. CASE UNCHANGED <<pc, snapshot>>
  BY <1>2 DEF SnapshotMoves
<1>3. QED
  BY <1>1, <1>2 DEF LoggedNext, loggedVars, vars, Rest

\* Once the log gives the run an end the scheduler only leaves its wave and its loop
Ending ==
  \/ pc = "done"
  \/ token # "active" /\ pc \in {"wave", "release", "loop", "finish", "raised"}

LEMMA EndingStays ==
  ASSUME [Next]_vars, Ending
  PROVE  Ending' /\ clock' = clock
<1>1. CASE UNCHANGED vars \/ Rest \/ CancelFromOutside
  BY <1>1 DEF vars, Rest, CancelFromOutside, Stopped, Ending
<1>2. CASE Start \/ ReleaseDueRetries \/ PassOver \/ DecidePending \/ NextPass \/ EndResolve
  BY <1>2 DEF Start, ReleaseDueRetries, PassOver, DecidePending, NextPass, EndResolve, Ending
<1>3. CASE BeginAdmission \/ WaitForRetry \/ CannotWait \/ LeaveLoop \/ Announce
  BY <1>3 DEF BeginAdmission, WaitForRetry, CannotWait, LeaveLoop, Announce, Ending
<1>4. CASE (\E t \in Tasks : AdmitTask(t) \/ BlockTask(t)) \/ StartTask \/ CompleteTask
  BY <1>4 DEF AdmitTask, BlockTask, StartTask, CompleteTask, StopsWave, Ending
<1>5. CASE ExhaustIterations \/ CancelRemaining
  BY <1>5 DEF ExhaustIterations, CancelRemaining, Raise, Ending
<1>6. CASE EndWave \/ ReleaseTask \/ EndDispatch \/ Finish
  BY <1>6 DEF EndWave, ReleaseTask, EndDispatch, Finish, Ending
<1>7. QED
  BY <1>1, <1>2, <1>3, <1>4, <1>5, <1>6 DEF Next, Step

\* A run is created once
LEMMA CreatedOnce ==
  ASSUME [Next]_vars, pc' = "created"
  PROVE  pc = "created" /\ clock' = clock /\ states' = states
<1>1. CASE UNCHANGED vars \/ Rest \/ CancelFromOutside
  BY <1>1 DEF vars, Rest, CancelFromOutside, taskVars
<1>2. CASE Start \/ ReleaseDueRetries \/ PassOver \/ DecidePending \/ NextPass \/ EndResolve
  BY <1>2 DEF Start, ReleaseDueRetries, PassOver, DecidePending, Decide, NextPass, EndResolve
<1>3. CASE BeginAdmission \/ WaitForRetry \/ CannotWait \/ LeaveLoop \/ Announce
  BY <1>3 DEF BeginAdmission, WaitForRetry, CannotWait, Raise, LeaveLoop, Announce
<1>4. CASE (\E t \in Tasks : AdmitTask(t) \/ BlockTask(t)) \/ StartTask
  BY <1>4 DEF AdmitTask, BlockTask, StartTask
<1>5. CASE CompleteTask
  BY <1>5 DEF CompleteTask, SucceedTask, RetryTask, FailTask, EndAttempt
<1>6. CASE ExhaustIterations \/ CancelRemaining
  BY <1>6 DEF ExhaustIterations, CancelRemaining, Raise
<1>7. CASE EndWave \/ ReleaseTask \/ EndDispatch \/ Finish
  BY <1>7 DEF EndWave, ReleaseTask, EndDispatch, Finish
<1>8. QED
  BY <1>1, <1>2, <1>3, <1>4, <1>5, <1>6, <1>7 DEF Next, Step

LEMMA SpanStandsNext ==
  ASSUME IInv, IInv', TimesNoted, SpanStands, Noted, SnapshotMoves, [Next]_vars
  PROVE  SpanStands'
<1>1. clock \in Nat /\ clock' \in Nat /\ clock <= clock'
  BY ClockGrows
<1>2. ASSUME NEW t \in Tasks
      PROVE  \/ startedAt'[t] = startedAt[t]
             \/ pc = "wave" /\ startedAt[t] = R!Never /\ startedAt'[t] = clock
  <2>1. startedAt'[t] = IF attempts'[t] > attempts[t] /\ startedAt[t] = R!Never
                        THEN clock' ELSE startedAt[t]
    BY DEF Noted
  <2>2. attempts[t] \in Nat
    BY DEF IInv, TypeOK
  <2>3. attempts'[t] > attempts[t] => pc = "wave" /\ clock' = clock
    BY <2>2, TimesStep DEF Begins, Returns, Between
  <2>4. QED
    BY <2>1, <2>3
<1>3. ASSUME NEW t \in Tasks
      PROVE  finishedAt'[t] = clock' \/ finishedAt'[t] = finishedAt[t]
  BY DEF Noted
<1>4. pc' = "created" => \A t \in Tasks : startedAt'[t] = R!Never /\ finishedAt'[t] = R!Never
  <2>1. SUFFICES ASSUME pc' = "created", NEW t \in Tasks
                 PROVE  startedAt'[t] = R!Never /\ finishedAt'[t] = R!Never
    OBVIOUS
  <2>2. pc = "created" /\ states' = states
    BY <2>1, CreatedOnce
  <2>3. startedAt[t] = R!Never /\ finishedAt[t] = R!Never
    BY <2>2 DEF SpanStands
  <2>4. finishedAt'[t] = finishedAt[t]
    BY <2>2 DEF Noted
  <2>5. QED
    BY <1>2, <2>2, <2>3, <2>4
<1>5. ASSUME pc' # "created"
      PROVE  /\ snapshot'.started \in Nat /\ snapshot'.started <= clock'
             /\ \A t \in Tasks :
                  /\ startedAt'[t] # R!Never => snapshot'.started <= startedAt'[t]
                  /\ finishedAt'[t] # R!Never => snapshot'.started <= finishedAt'[t]
  <2>1. CASE pc = "created"
    <3>1. snapshot'.started = clock'
      BY <1>5, <2>1 DEF SnapshotMoves
    <3>2. \A t \in Tasks : startedAt'[t] = R!Never
      BY <1>2, <2>1 DEF SpanStands
    <3>3. \A t \in Tasks : finishedAt'[t] \in {R!Never, clock'}
      BY <1>3, <2>1 DEF SpanStands
    <3>4. QED
      BY <1>1, <3>1, <3>2, <3>3
  <2>2. CASE pc # "created"
    <3>1. snapshot'.started = snapshot.started
      BY <2>2 DEF SnapshotMoves
    <3>2. /\ snapshot.started \in Nat /\ snapshot.started <= clock
          /\ \A t \in Tasks :
               /\ startedAt[t] # R!Never => snapshot.started <= startedAt[t]
               /\ finishedAt[t] # R!Never => snapshot.started <= finishedAt[t]
      BY <2>2 DEF SpanStands
    <3>3. snapshot.started <= clock'
      BY <1>1, <3>2
    <3>4. QED
      BY <1>1, <1>2, <1>3, <3>1, <3>2, <3>3
  <2>3. QED
    BY <2>1, <2>2
<1>6. ASSUME snapshot'.finished # R!Never
      PROVE  snapshot'.finished = clock' /\ Ending'
  <2>1. CASE snapshot'.finished # snapshot.finished
    BY <2>1 DEF SnapshotMoves, Ending
  <2>2. CASE snapshot'.finished = snapshot.finished
    <3>1. snapshot.finished = clock /\ Ending
      BY <1>6, <2>2 DEF SpanStands, Ending
    <3>2. QED
      BY <2>2, <3>1, EndingStays
  <2>3. QED
    BY <2>1, <2>2
<1>7. QED
  BY <1>4, <1>5, <1>6 DEF SpanStands, Ending

LEMMA TimelyNext ==
  ASSUME IInv, IInv', LeftOutIsReady, Telling, Mirrored, DecisionsStand, CacheStands, Timely,
         [LoggedNext]_loggedVars
  PROVE  (CacheStands /\ Timely)'
<1>0. [LoggedNext]_loggedVars => [Next]_vars
  BY DEF LoggedNext, LoggedStep, Next, loggedVars
<1>1. [Next]_vars /\ Noted /\ SnapshotMoves
  BY <1>0, NotedAlways, SnapshotStep
<1>2. TimesNoted /\ TimesPast /\ OneAtATime /\ UpstreamsFirst /\ SpanStands
  BY DEF Timely
<1>3. CacheStands' /\ TimesNoted' /\ TimesPast'
  BY <1>1, <1>2, CacheStandsNext, TimesNotedNext, TimesPastNext
<1>4. OneAtATime' /\ UpstreamsFirst'
  BY <1>1, <1>2, <1>3, OneAtATimeNext, UpstreamsFirstNext
<1>5. SpanStands'
  BY <1>1, <1>2, SpanStandsNext
<1>6. QED
  BY <1>3, <1>4, <1>5 DEF Timely

\* The times the scheduler notes are in order in every state of the run: this is the
\* invariant from which TimelineIsCausal follows
THEOREM TimelyInvariant == LoggedSpec => [](CacheStands /\ Timely)
<1>1. [LoggedNext]_loggedVars => [Next]_vars
  BY DEF LoggedNext, LoggedStep, Next, loggedVars
<1>2. LoggedInit => LeftOutIsReady
  BY DEF LoggedInit, Init, LeftOutIsReady
<1>3. LoggedInit /\ [][LoggedNext]_loggedVars => []LeftOutIsReady
  BY <1>1, <1>2, LeftOutNext, Invariant, LoggedIsScheduled, PTL DEF LoggedSpec
<1>4. LoggedInit => CacheStands /\ Timely
  <2>1. SUFFICES ASSUME LoggedInit PROVE CacheStands /\ Timely
    OBVIOUS
  <2>2. /\ pc = "created" /\ clock = 0 /\ snapshot.finished = R!Never
        /\ \A t \in Tasks : /\ startedAt[t] = R!Never /\ finishedAt[t] = R!Never
                            /\ states[t] = "PENDING" /\ attempts[t] = 0
        /\ \A e \in Edges : conditions[e] = Unknown
    BY <2>1 DEF LoggedInit, Init, R!BlankRun
  <2>3. R!Never = -1
    BY DEF R!Never
  <2>4. CacheStands /\ TimesNoted /\ TimesPast
    BY <2>2, <2>3 DEF CacheStands, TimesNoted, TimesPast, Terminal
  <2>5. OneAtATime /\ UpstreamsFirst /\ SpanStands
    BY <2>2 DEF OneAtATime, RanOnce, UpstreamsFirst, SpanStands
  <2>6. QED
    BY <2>4, <2>5 DEF Timely
<1>5. IInv /\ IInv' /\ LeftOutIsReady /\ Telling /\ Mirrored /\ DecisionsStand /\ CacheStands
        /\ Timely /\ [LoggedNext]_loggedVars => (CacheStands /\ Timely)'
  BY TimelyNext
<1>6. QED
  BY <1>3, <1>4, <1>5, MirrorInvariant, TellingInvariant, DecisionsCorrect, Invariant,
     LoggedIsScheduled, PTL DEF LoggedSpec

-------------------------------------------------------------------------------
(* What a report draws of the times.                                         *)

\* Replay gives the times the scheduler holds
LEMMA ReplayedTimes ==
  ASSUME Mirrored
  PROVE  /\ Replayed.known \subseteq Tasks
         /\ Replayed.started = snapshot.started /\ Replayed.finished = snapshot.finished
         /\ \A t \in Tasks : /\ StartOf(t) = startedAt[t] /\ EndOf(t) = finishedAt[t]
                             /\ Replayed.tasks[t].retries = retries[t]
<1>1. PICK a, b : a = snapshot /\ b = Replayed
  OBVIOUS
<1>2. a \in RunRecord /\ b = R!Conclude(a)
  BY <1>1 DEF Mirrored, Replayed
<1>3. /\ b.known = a.known /\ b.tasks = a.tasks
      /\ b.started = a.started /\ b.finished = a.finished
  BY <1>2, ConcludeFacts
<1>4. a.known \subseteq Tasks
  BY <1>2 DEF RunRecord
<1>5. \A t \in Tasks : /\ a.tasks[t].started = startedAt[t]
                       /\ a.tasks[t].finished = finishedAt[t]
                       /\ a.tasks[t].retries = retries[t]
  BY <1>1 DEF Mirrored, SameTask
<1>6. QED
  BY <1>1, <1>3, <1>4, <1>5 DEF StartOf, EndOf

\* The bars that are drawn
Bars == Mirrored /\ IInv /\ Timely /\ pc # "created"

\* A bar lies between the start of the run and now, and begins before it ends
LEMMA PlacedFacts ==
  ASSUME Bars
  PROVE  /\ Placed \subseteq Tasks
         /\ \A t \in Placed :
              /\ StartOf(t) = startedAt[t] /\ EndOf(t) = finishedAt[t]
              /\ StartOf(t) \in Nat /\ EndOf(t) \in Nat
              /\ snapshot.started <= StartOf(t) /\ StartOf(t) <= EndOf(t) /\ EndOf(t) <= clock
<1>1. Placed \subseteq Tasks
  BY ReplayedTimes DEF Placed, Bars
<1>2. ASSUME NEW t \in Placed
      PROVE  /\ StartOf(t) = startedAt[t] /\ EndOf(t) = finishedAt[t]
             /\ startedAt[t] # R!Never /\ finishedAt[t] # R!Never
  <2>1. t \in Tasks
    BY <1>1
  <2>2. StartOf(t) = startedAt[t] /\ EndOf(t) = finishedAt[t]
    BY <2>1, ReplayedTimes DEF Bars
  <2>3. StartOf(t) # R!Never /\ EndOf(t) # R!Never
    BY DEF Placed, StartOf, EndOf
  <2>4. QED
    BY <2>2, <2>3
<1>3. ASSUME NEW t \in Placed
      PROVE  /\ startedAt[t] \in Nat /\ finishedAt[t] \in Nat
             /\ snapshot.started <= startedAt[t]
             /\ startedAt[t] <= finishedAt[t] /\ finishedAt[t] <= clock
  <2>1. t \in Tasks /\ startedAt[t] # R!Never /\ finishedAt[t] # R!Never
    BY <1>1, <1>2
  <2>2. startedAt[t] \in Nat /\ finishedAt[t] \in Nat
    BY <2>1 DEF Bars, Timely, TimesNoted
  <2>3. startedAt[t] <= finishedAt[t] /\ finishedAt[t] <= clock
    BY <2>1 DEF Bars, Timely, TimesPast
  <2>4. snapshot.started <= startedAt[t]
    BY <2>1 DEF Bars, Timely, SpanStands
  <2>5. QED
    BY <2>2, <2>3, <2>4
<1>4. QED
  BY <1>1, <1>2, <1>3

\* The drawing begins where the run does and does not end before any task has
LEMMA DrawnSpan ==
  ASSUME Bars
  PROVE  /\ Origin = snapshot.started /\ Origin \in Nat /\ Close \in Nat /\ Origin <= Close
         /\ \A t \in Placed : EndOf(t) <= Close
<1>1. /\ snapshot.started \in Nat /\ snapshot.started <= clock
      /\ snapshot.finished # R!Never => snapshot.finished = clock
      /\ \A t \in Tasks : finishedAt[t] # R!Never => snapshot.started <= finishedAt[t]
  BY DEF Bars, Timely, SpanStands
<1>2. Replayed.started = snapshot.started /\ Replayed.finished = snapshot.finished
      /\ Replayed.known \subseteq Tasks
      /\ \A t \in Tasks : EndOf(t) = finishedAt[t]
  BY ReplayedTimes DEF Bars
<1>3. Origin = snapshot.started
  <2>1. snapshot.started # R!Never
    BY <1>1 DEF R!Never
  <2>2. QED
    BY <1>2, <2>1 DEF Origin
<1>4. clock \in Nat /\ \A t \in Placed : EndOf(t) <= clock /\ EndOf(t) \in Nat
  BY PlacedFacts DEF Bars, IInv, TypeOK
<1>5. CASE snapshot.finished # R!Never
  <2>1. Close = clock
    BY <1>1, <1>2, <1>5 DEF Close
  <2>2. QED
    BY <1>1, <1>3, <1>4, <2>1
<1>6. CASE snapshot.finished = R!Never
  <2>1. PICK S : S = {EndOf(t) : t \in Replayed.known} \ {R!Never}
    OBVIOUS
  <2>2. Close = IF S = {} THEN Origin ELSE Max(S)
    BY <1>2, <1>6, <2>1 DEF Close, LastOf, TimesOf
  <2>3. \A x \in S : x \in Nat /\ x <= clock /\ Origin <= x
    <3>1. SUFFICES ASSUME NEW t \in Replayed.known, EndOf(t) # R!Never
                   PROVE  EndOf(t) \in Nat /\ EndOf(t) <= clock /\ Origin <= EndOf(t)
      BY <2>1
    <3>2. t \in Tasks /\ EndOf(t) = finishedAt[t]
      BY <1>2
    <3>3. finishedAt[t] \in Nat /\ finishedAt[t] <= clock
      BY <3>1, <3>2 DEF Bars, Timely, TimesNoted, TimesPast
    <3>4. QED
      BY <1>1, <1>3, <3>1, <3>2, <3>3
  <2>4. CASE S = {}
    <3>1. Placed = {}
      BY <2>1, <2>4 DEF Placed, EndOf
    <3>2. QED
      BY <1>1, <1>3, <2>2, <2>4, <3>1
  <2>5. CASE S # {}
    <3>1. \E m \in S : \A k \in S : k <= m
      <4>1. S \in SUBSET Int /\ clock \in Int /\ \A x \in S : x <= clock
        BY <1>4, <2>3
      <4>2. QED
        BY <2>5, <4>1, GreatestElement
    <3>2. \E m \in S : \A k \in S : m >= k
      BY <2>3, <3>1
    <3>3. Max(S) \in S /\ \A k \in S : Max(S) >= k
      BY <3>2 DEF Max
    <3>4. Placed \subseteq Replayed.known /\ \A t \in Placed : EndOf(t) # R!Never
      BY DEF Placed, EndOf
    <3>5. \A t \in Placed : EndOf(t) \in S
      BY <2>1, <3>4
    <3>6. Close = Max(S)
      BY <2>2, <2>5
    <3>7. QED
      BY <1>1, <1>3, <2>3, <3>3, <3>5, <3>6
  <2>6. QED
    BY <2>4, <2>5
<1>7. QED
  BY <1>5, <1>6

\* Of the tasks that are drawn one ends last
LEMMA EndsLastFacts ==
  ASSUME Bars, NEW names \in SUBSET Placed, names # {}
  PROVE  EndsLast(names) \in names
<1>1. /\ Placed \subseteq Tasks /\ \A t \in names : EndOf(t) \in Nat /\ EndOf(t) <= clock
      /\ clock \in Nat
  BY PlacedFacts DEF Bars, IInv, TypeOK
<1>2. PICK last \in {EndOf(t) : t \in names} : \A k \in {EndOf(t) : t \in names} : k <= last
  <2>1. PICK S : S = {EndOf(t) : t \in names}
    OBVIOUS
  <2>2. S \in SUBSET Int /\ S # {} /\ clock \in Int /\ \A x \in S : x <= clock
    BY <1>1, <2>1
  <2>3. \E m \in S : \A k \in S : k <= m
    BY <2>2, GreatestElement
  <2>4. QED
    BY <2>1, <2>3
<1>3. \A t \in names : EndOf(t) <= last
  BY <1>2
<1>4. PICK P : P = {i \in 1 .. Len(Order) : Order[i] \in names /\ EndOf(Order[i]) = last}
  OBVIOUS
<1>5. P # {}
  <2>1. PICK t \in names : EndOf(t) = last
    BY <1>2
  <2>2. PICK i \in 1 .. Len(Order) : Order[i] = t
    BY <1>1, <2>1, SchedulerAssumption DEF SchedulerAssumption, OrderAssumption
  <2>3. QED
    BY <1>4, <2>1, <2>2
<1>6. PICK i \in P : \A j \in P : j <= i
  <2>1. P \in SUBSET Int /\ Len(Order) \in Int /\ \A x \in P : x <= Len(Order)
    BY <1>4, OrderFacts
  <2>2. QED
    BY <1>5, <2>1, GreatestElement
<1>7. PICK t \in names : t = Order[i] /\ EndOf(t) = last /\ i \in 1 .. Len(Order)
  BY <1>4, <1>6
<1>8. ASSUME NEW u \in names \ {t}
      PROVE  \/ EndOf(u) < EndOf(t)
             \/ EndOf(u) = EndOf(t) /\ \E k, j \in 1 .. Len(Order) :
                                         k < j /\ Order[k] = u /\ Order[j] = t
  <2>1. EndOf(u) <= last /\ EndOf(u) \in Nat /\ EndOf(t) = last /\ EndOf(t) \in Nat
    BY <1>1, <1>3, <1>7
  <2>2. CASE EndOf(u) = last
    <3>1. PICK k \in 1 .. Len(Order) : Order[k] = u
      BY <1>1, SchedulerAssumption DEF SchedulerAssumption, OrderAssumption
    <3>2. k \in P
      BY <1>4, <2>2, <3>1
    <3>3. k <= i /\ k # i
      BY <1>6, <1>7, <1>8, <3>1, <3>2
    <3>4. k < i
      BY <1>7, <3>3
    <3>5. QED
      BY <1>7, <2>1, <2>2, <3>1, <3>4
  <2>3. CASE EndOf(u) # last
    BY <2>1, <2>3
  <2>4. QED
    BY <2>2, <2>3
<1>9. QED
  BY <1>7, <1>8 DEF EndsLast

\* The walk of critical_path, one step back
Linked(chain, t) ==
  IF Upstreams(t) \cap Placed = {} THEN <<t>>
  ELSE Append(chain[EndsLast(Upstreams(t) \cap Placed)], t)

\* The walk from the first n tasks in the order is known
WalksTo(chain, n) ==
  /\ chain = [t \in Tasks |-> chain[t]]
  /\ \A i \in 1 .. Len(Order) : i <= n => chain[Order[i]] = Linked(chain, Order[i])

\* Where the walk goes from a task is before the task
LEMMA LinkBefore ==
  ASSUME Bars, NEW i \in 1 .. Len(Order), Upstreams(Order[i]) \cap Placed # {}
  PROVE  \E j \in 1 .. Len(Order) :
           j < i /\ Order[j] = EndsLast(Upstreams(Order[i]) \cap Placed)
<1>1. PICK u : u = EndsLast(Upstreams(Order[i]) \cap Placed)
  OBVIOUS
<1>2. u \in Upstreams(Order[i])
  <2>1. PICK names : names = Upstreams(Order[i]) \cap Placed
    OBVIOUS
  <2>2. EndsLast(names) \in names
    BY <2>1, EndsLastFacts
  <2>3. QED
    BY <1>1, <2>1, <2>2
<1>3. PICK j \in 1 .. (i - 1) : Order[j] = u
  BY <1>2, SchedulerAssumption DEF SchedulerAssumption, OrderAssumption
<1>4. j \in 1 .. Len(Order) /\ j < i
  BY OrderFacts
<1>5. QED
  BY <1>1, <1>3, <1>4

LEMMA WalkExists ==
  ASSUME Bars
  PROVE  \E chain : chain = [t \in Tasks |-> Linked(chain, t)]
<1> DEFINE S == {n \in Nat : \E f : WalksTo(f, n)}
<1>1. 0 \in S
  <2>1. WalksTo([t \in Tasks |-> t], 0)
    BY DEF WalksTo
  <2>2. QED
    BY <2>1
<1>2. ASSUME NEW n \in Nat, n \in S PROVE n + 1 \in S
  <2>1. PICK f : WalksTo(f, n)
    BY <1>2
  <2>2. PICK known : known = {t \in Tasks : \E i \in 1 .. Len(Order) : i <= n /\ Order[i] = t}
    OBVIOUS
  <2>3. PICK h : h = [t \in Tasks |-> IF t \in known THEN f[t] ELSE Linked(f, t)]
    OBVIOUS
  <2>4. h = [t \in Tasks |-> h[t]]
    BY <2>3
  <2>5. ASSUME NEW i \in 1 .. Len(Order), i <= n + 1
        PROVE  h[Order[i]] = Linked(h, Order[i])
    <3>1. PICK t \in Tasks : t = Order[i]
      BY OrderFacts
    <3>2. h[t] = Linked(f, t)
      <4>1. t \in known => f[t] = Linked(f, t)
        BY <2>1, <2>2 DEF WalksTo
      <4>2. QED
        BY <2>3, <4>1
    <3>3. Linked(f, t) = Linked(h, t)
      <4>1. SUFFICES ASSUME Upstreams(t) \cap Placed # {}
                     PROVE  f[EndsLast(Upstreams(t) \cap Placed)]
                              = h[EndsLast(Upstreams(t) \cap Placed)]
        BY DEF Linked
      <4>2. PICK u : u = EndsLast(Upstreams(t) \cap Placed)
        OBVIOUS
      <4>3. PICK j \in 1 .. Len(Order) : j < i /\ Order[j] = u
        BY <3>1, <4>1, <4>2, LinkBefore
      <4>4. u \in Tasks /\ j <= n
        BY <2>5, <4>3, OrderFacts
      <4>5. u \in known
        BY <2>2, <4>3, <4>4
      <4>6. QED
        BY <2>3, <4>2, <4>4, <4>5
    <3>4. QED
      BY <3>1, <3>2, <3>3
  <2>6. WalksTo(h, n + 1)
    BY <2>4, <2>5 DEF WalksTo
  <2>7. QED
    BY <2>6
<1>3. Len(Order) \in S
  <2>1. Nat \subseteq S
    <3> HIDE DEF S
    <3> QED BY <1>1, <1>2, CountingUp
  <2>2. QED
    BY <2>1, OrderFacts
<1>4. PICK f : WalksTo(f, Len(Order))
  BY <1>3
<1>5. \A t \in Tasks : f[t] = Linked(f, t)
  <2>1. SUFFICES ASSUME NEW t \in Tasks PROVE f[t] = Linked(f, t)
    OBVIOUS
  <2>2. PICK i \in 1 .. Len(Order) : Order[i] = t
    BY SchedulerAssumption DEF SchedulerAssumption, OrderAssumption
  <2>3. i <= Len(Order)
    BY OrderFacts
  <2>4. QED
    BY <1>4, <2>2, <2>3 DEF WalksTo
<1>6. f = [t \in Tasks |-> Linked(f, t)]
  <2>1. f = [t \in Tasks |-> f[t]]
    BY <1>4 DEF WalksTo
  <2>2. QED
    BY <1>5, <2>1
<1>7. QED
  BY <1>6

\* The walk up to t ends in t and goes from each task to one of its downstreams
LeadsTo(c, t) ==
  /\ c \in Seq(Placed) /\ Len(c) >= 1 /\ c[Len(c)] = t
  /\ \A i \in 1 .. Len(c) - 1 : c[i] \in Upstreams(c[i + 1])

LEMMA LeadsOn ==
  ASSUME NEW c, NEW u, LeadsTo(c, u), NEW t \in Placed, u \in Upstreams(t)
  PROVE  LeadsTo(Append(c, t), t)
<1>1. c \in Seq(Placed) /\ Len(c) \in Nat /\ Len(c) >= 1
  BY DEF LeadsTo
<1>2. PICK d, n : d = Append(c, t) /\ n = Len(c)
  OBVIOUS
<1>3. d \in Seq(Placed) /\ Len(d) = n + 1 /\ d[n + 1] = t /\ \A i \in 1 .. n : d[i] = c[i]
  BY <1>1, <1>2
<1>4. ASSUME NEW i \in 1 .. Len(d) - 1 PROVE d[i] \in Upstreams(d[i + 1])
  <2>1. i \in 1 .. n /\ n \in Nat
    BY <1>1, <1>2, <1>3
  <2>2. CASE i = n
    BY <1>2, <1>3, <2>1, <2>2 DEF LeadsTo
  <2>3. CASE i # n
    <3>1. i \in 1 .. n - 1 /\ i + 1 \in 1 .. n
      BY <2>1, <2>3
    <3>2. d[i] = c[i] /\ d[i + 1] = c[i + 1]
      BY <1>3, <2>1, <3>1
    <3>3. QED
      BY <1>2, <3>1, <3>2 DEF LeadsTo
  <2>4. QED
    BY <2>2, <2>3
<1>5. QED
  BY <1>1, <1>2, <1>3, <1>4 DEF LeadsTo

LEMMA WalkFacts ==
  ASSUME Bars
  PROVE  \A t \in Placed : LeadsTo(ChainTo[t], t)
<1>1. \A t \in Tasks : ChainTo[t] = Linked(ChainTo, t)
  <2>1. ChainTo = CHOOSE chain : chain = [t \in Tasks |-> Linked(chain, t)]
    BY DEF ChainTo, Linked
  <2>2. ChainTo = [t \in Tasks |-> Linked(ChainTo, t)]
    BY <2>1, WalkExists
  <2>3. QED
    BY <2>2
<1> DEFINE S == {n \in Nat : \A i \in 1 .. Len(Order) :
                   i <= n /\ Order[i] \in Placed => LeadsTo(ChainTo[Order[i]], Order[i])}
<1>2. 0 \in S
  OBVIOUS
<1>3. ASSUME NEW n \in Nat, n \in S PROVE n + 1 \in S
  <2>1. SUFFICES ASSUME NEW i \in 1 .. Len(Order), i <= n + 1, Order[i] \in Placed
                 PROVE  LeadsTo(ChainTo[Order[i]], Order[i])
    OBVIOUS
  <2>2. PICK t \in Placed : t = Order[i]
    BY <2>1
  <2>3. ChainTo[t] = Linked(ChainTo, t)
    BY <1>1, <2>2, PlacedFacts
  <2>4. CASE Upstreams(t) \cap Placed = {}
    <3>1. ChainTo[t] = <<t>>
      BY <2>3, <2>4 DEF Linked
    <3>2. <<t>> \in Seq(Placed) /\ Len(<<t>>) = 1
      OBVIOUS
    <3>3. QED
      BY <2>2, <3>1, <3>2 DEF LeadsTo
  <2>5. CASE Upstreams(t) \cap Placed # {}
    <3>1. PICK names, u : names = Upstreams(t) \cap Placed /\ u = EndsLast(names)
      OBVIOUS
    <3>2. u \in Upstreams(t) /\ u \in Placed
      BY <2>5, <3>1, EndsLastFacts
    <3>3. ChainTo[t] = Append(ChainTo[u], t)
      BY <2>3, <2>5, <3>1 DEF Linked
    <3>4. PICK j \in 1 .. Len(Order) : j < i /\ Order[j] = u
      BY <2>2, <2>5, <3>1, LinkBefore
    <3>5. j <= n
      BY <2>1, <3>4, OrderFacts
    <3>6. LeadsTo(ChainTo[u], u)
      BY <1>3, <3>2, <3>4, <3>5
    <3>7. QED
      BY <2>2, <3>2, <3>3, <3>6, LeadsOn
  <2>6. QED
    BY <2>4, <2>5
<1>4. Len(Order) \in S
  <2>1. Nat \subseteq S
    <3> HIDE DEF S
    <3> QED BY <1>2, <1>3, CountingUp
  <2>2. QED
    BY <2>1, OrderFacts
<1>5. SUFFICES ASSUME NEW t \in Placed PROVE LeadsTo(ChainTo[t], t)
  OBVIOUS
<1>6. PICK i \in 1 .. Len(Order) : Order[i] = t
  BY PlacedFacts, SchedulerAssumption DEF SchedulerAssumption, OrderAssumption
<1>7. i <= Len(Order)
  BY OrderFacts
<1>8. QED
  BY <1>4, <1>5, <1>6, <1>7

\* The critical path is such a walk
LEMMA PathFacts ==
  ASSUME Bars
  PROVE  /\ \A i \in 1 .. Len(CriticalPath) - 1 :
              /\ CriticalPath[i] \in Placed /\ CriticalPath[i + 1] \in Placed
              /\ CriticalPath[i] \in Upstreams(CriticalPath[i + 1])
<1>1. CASE Placed = {}
  BY <1>1 DEF CriticalPath
<1>2. CASE Placed # {}
  <2>1. PICK t : t = EndsLast(Placed)
    OBVIOUS
  <2>2. t \in Placed
    BY <1>2, <2>1, EndsLastFacts
  <2>3. PICK c : c = CriticalPath
    OBVIOUS
  <2>4. LeadsTo(c, t)
    BY <1>2, <2>1, <2>2, <2>3, WalkFacts DEF CriticalPath
  <2>5. c \in Seq(Placed) /\ \A i \in 1 .. Len(c) - 1 : c[i] \in Upstreams(c[i + 1])
    BY <2>4 DEF LeadsTo
  <2>6. \A i \in 1 .. Len(c) - 1 : c[i] \in Placed /\ c[i + 1] \in Placed
    <3>1. \A i \in 1 .. Len(c) : c[i] \in Placed
      BY <2>5
    <3>2. Len(c) \in Nat
      BY <2>5
    <3>3. \A i \in 1 .. Len(c) - 1 : i \in 1 .. Len(c) /\ i + 1 \in 1 .. Len(c)
      BY <3>2
    <3>4. QED
      BY <3>1, <3>3
  <2>7. QED
    BY <2>3, <2>5, <2>6
<1>3. QED
  BY <1>1, <1>2

\* The seconds of the drawing that the bars of some tasks cover
Covered(s) ==
  {x \in Origin + 1 .. Close : \E t \in s : StartOf(t) < x /\ x <= EndOf(t)}

\* No two bars overlap
Apart == \A t, u \in Placed : t # u => ~ Overlap(t, u)

LEMMA CoveredFacts ==
  ASSUME Bars, Apart, NEW s \in SUBSET Placed, NEW t \in s
  PROVE  /\ IsFiniteSet(Covered(s)) /\ Cardinality(Covered(s)) \in Nat
         /\ Cardinality(Covered(s \ {t})) \in Nat
         /\ Cardinality(Covered(s)) = Duration(t) + Cardinality(Covered(s \ {t}))
         /\ Cardinality(Covered(s)) <= Close - Origin
<1>1. PICK all, one, rest, span : /\ all = Covered(s) /\ one = StartOf(t) + 1 .. EndOf(t)
                                  /\ rest = Covered(s \ {t}) /\ span = Origin + 1 .. Close
  OBVIOUS
<1>2. Origin \in Nat /\ Close \in Nat /\ Origin <= Close
  BY DrawnSpan
<1>3. \A u \in s : /\ u \in Placed /\ StartOf(u) \in Nat /\ EndOf(u) \in Nat
                   /\ Origin <= StartOf(u) /\ StartOf(u) <= EndOf(u) /\ EndOf(u) <= Close
  BY PlacedFacts, DrawnSpan
<1>4. IsFiniteSet(span) /\ Cardinality(span) = Close - Origin
  <2>1. Origin + 1 \in Int /\ Close \in Int
    BY <1>2
  <2>2. /\ IsFiniteSet(span)
        /\ Cardinality(span) = IF Origin + 1 > Close THEN 0 ELSE Close - (Origin + 1) + 1
    BY <1>1, <2>1, FS_Interval
  <2>3. QED
    BY <1>2, <2>2
<1>5. IsFiniteSet(one) /\ Cardinality(one) = Duration(t)
  <2>1. StartOf(t) + 1 \in Int /\ EndOf(t) \in Int
    BY <1>3
  <2>2. /\ IsFiniteSet(one)
        /\ Cardinality(one) = IF StartOf(t) + 1 > EndOf(t) THEN 0 ELSE EndOf(t) - (StartOf(t) + 1) + 1
    BY <1>1, <2>1, FS_Interval
  <2>3. StartOf(t) \in Nat /\ EndOf(t) \in Nat /\ StartOf(t) <= EndOf(t)
    BY <1>3
  <2>4. QED
    BY <2>2, <2>3 DEF Duration
<1>6. all \in SUBSET span /\ rest \in SUBSET span
  BY <1>1 DEF Covered
<1>7. IsFiniteSet(all) /\ IsFiniteSet(rest) /\ Cardinality(all) <= Close - Origin
  BY <1>4, <1>6, FS_Subset
<1>8. all = one \cup rest
  <2>1. ASSUME NEW x \in all PROVE x \in one \cup rest
    <3>1. PICK u \in s : x \in span /\ StartOf(u) < x /\ x <= EndOf(u)
      BY <1>1, <2>1 DEF Covered
    <3>2. CASE u = t
      BY <1>1, <1>2, <1>3, <3>1, <3>2
    <3>3. CASE u # t
      BY <1>1, <3>1, <3>3 DEF Covered
    <3>4. QED
      BY <3>2, <3>3
  <2>2. ASSUME NEW x \in one PROVE x \in all
    <3>1. /\ Origin <= StartOf(t) /\ EndOf(t) <= Close
          /\ StartOf(t) \in Nat /\ EndOf(t) \in Nat
      BY <1>3
    <3>2. x \in Int /\ StartOf(t) + 1 <= x /\ x <= EndOf(t)
      BY <1>1, <2>2
    <3>3. x \in Origin + 1 .. Close /\ StartOf(t) < x
      BY <1>2, <3>1, <3>2
    <3>4. QED
      BY <1>1, <3>2, <3>3 DEF Covered
  <2>3. rest \subseteq all
    BY <1>1 DEF Covered
  <2>4. QED
    BY <2>1, <2>2, <2>3
<1>9. one \cap rest = {}
  <2>1. SUFFICES ASSUME NEW x \in one, x \in rest PROVE FALSE
    OBVIOUS
  <2>2. PICK u \in s \ {t} : StartOf(u) < x /\ x <= EndOf(u)
    BY <1>1, <2>1 DEF Covered
  <2>3. x \in Int /\ StartOf(t) + 1 <= x /\ x <= EndOf(t)
    BY <1>1, <2>1
  <2>4. /\ StartOf(t) \in Nat /\ EndOf(t) \in Nat /\ StartOf(u) \in Nat /\ EndOf(u) \in Nat
    BY <1>3
  <2>5. StartOf(t) < EndOf(u) /\ StartOf(u) < EndOf(t)
    BY <2>2, <2>3, <2>4
  <2>6. QED
    BY <1>3, <2>2, <2>5 DEF Apart, Overlap
<1>10. Cardinality(all) = Cardinality(one) + Cardinality(rest)
  <2>1. Cardinality(one \cup rest) = Cardinality(one) + Cardinality(rest) - Cardinality(one \cap rest)
    BY <1>5, <1>7, FS_Union
  <2>2. Cardinality(one \cap rest) = 0
    BY <1>9, FS_EmptySet
  <2>3. Cardinality(one) \in Nat /\ Cardinality(rest) \in Nat
    BY <1>5, <1>7, FS_CardinalityType
  <2>4. QED
    BY <1>8, <2>1, <2>2, <2>3
<1>11. Cardinality(all) \in Nat /\ Cardinality(rest) \in Nat
  BY <1>7, FS_CardinalityType
<1>12. QED
  BY <1>1, <1>5, <1>7, <1>10, <1>11

\* The sum of the durations, one task after the other
Picked(s) == CHOOSE x \in s : TRUE
Added(f, s) == IF s = {} THEN 0 ELSE Duration(Picked(s)) + f[s \ {Picked(s)}]

\* The sums over sets of up to n tasks are known
SumsTo(f, n) ==
  /\ f = [s \in SUBSET Placed |-> f[s]]
  /\ \A s \in SUBSET Placed : Cardinality(s) <= n => f[s] = Added(f, s)

LEMMA PlacedIsFinite ==
  ASSUME Bars
  PROVE  IsFiniteSet(Placed) /\ Cardinality(Placed) \in Nat
<1>1. IsFiniteSet(1 .. Len(Order))
  BY OrderFacts, FS_Interval
<1>2. PICK f : f = [i \in 1 .. Len(Order) |-> Order[i]]
  OBVIOUS
<1>3. f \in Surjection(1 .. Len(Order), Tasks)
  <2>1. f \in [1 .. Len(Order) -> Tasks]
    BY <1>2, OrderFacts
  <2>2. \A t \in Tasks : \E i \in 1 .. Len(Order) : f[i] = t
    BY <1>2, SchedulerAssumption DEF SchedulerAssumption, OrderAssumption
  <2>3. QED
    BY <2>1, <2>2 DEF Surjection
<1>4. IsFiniteSet(Tasks)
  BY <1>1, <1>3, FS_Surjection
<1>5. IsFiniteSet(Placed)
  BY <1>4, PlacedFacts, FS_Subset
<1>6. QED
  BY <1>5, FS_CardinalityType

LEMMA PickedFacts ==
  ASSUME Bars, NEW s \in SUBSET Placed
  PROVE  /\ IsFiniteSet(s) /\ Cardinality(s) \in Nat
         /\ s # {} => /\ Picked(s) \in s /\ s \ {Picked(s)} \in SUBSET Placed
                      /\ Cardinality(s \ {Picked(s)}) = Cardinality(s) - 1
<1>1. IsFiniteSet(s) /\ Cardinality(s) \in Nat
  BY PlacedIsFinite, FS_Subset, FS_CardinalityType
<1>2. s # {} => Picked(s) \in s
  BY DEF Picked
<1>3. ASSUME NEW x \in s PROVE Cardinality(s \ {x}) = Cardinality(s) - 1
  BY <1>1, FS_RemoveElement
<1>4. QED
  BY <1>1, <1>2, <1>3

LEMMA SumExists ==
  ASSUME Bars
  PROVE  \E f : f = [s \in SUBSET Placed |-> Added(f, s)]
<1> DEFINE S == {n \in Nat : \E f : SumsTo(f, n)}
<1>1. 0 \in S
  <2>1. PICK f : f = [s \in SUBSET Placed |-> 0]
    OBVIOUS
  <2>2. ASSUME NEW s \in SUBSET Placed, Cardinality(s) <= 0 PROVE f[s] = Added(f, s)
    <3>1. s = {}
      <4>1. IsFiniteSet(s) /\ Cardinality(s) \in Nat
        BY PickedFacts
      <4>2. Cardinality(s) = 0
        BY <2>2, <4>1
      <4>3. QED
        BY <4>1, <4>2, FS_EmptySet
    <3>2. QED
      BY <2>1, <3>1 DEF Added
  <2>3. f = [s \in SUBSET Placed |-> f[s]]
    BY <2>1
  <2>4. QED
    BY <2>2, <2>3 DEF SumsTo
<1>2. ASSUME NEW n \in Nat, n \in S PROVE n + 1 \in S
  <2>1. PICK f : SumsTo(f, n)
    BY <1>2
  <2>2. PICK h : h = [s \in SUBSET Placed |->
                        IF Cardinality(s) <= n THEN f[s] ELSE Added(f, s)]
    OBVIOUS
  <2>3. h = [s \in SUBSET Placed |-> h[s]]
    BY <2>2
  <2>4. ASSUME NEW s \in SUBSET Placed, Cardinality(s) <= n + 1
        PROVE  h[s] = Added(h, s)
    <3>1. h[s] = Added(f, s)
      BY <2>1, <2>2 DEF SumsTo
    <3>2. Added(f, s) = Added(h, s)
      <4>1. SUFFICES ASSUME s # {} PROVE f[s \ {Picked(s)}] = h[s \ {Picked(s)}]
        BY DEF Added
      <4>2. PICK r : r = s \ {Picked(s)}
        OBVIOUS
      <4>3. r \in SUBSET Placed /\ Cardinality(r) = Cardinality(s) - 1 /\ Cardinality(s) \in Nat
        BY <4>1, <4>2, PickedFacts
      <4>4. Cardinality(r) <= n
        BY <2>4, <4>3
      <4>5. QED
        BY <2>2, <4>2, <4>3, <4>4
    <3>3. QED
      BY <3>1, <3>2
  <2>5. SumsTo(h, n + 1)
    BY <2>3, <2>4 DEF SumsTo
  <2>6. QED
    BY <2>5
<1>3. Nat \subseteq S
  <2> HIDE DEF S
  <2> QED BY <1>1, <1>2, CountingUp
<1>4. PICK f : SumsTo(f, Cardinality(Placed))
  BY <1>3, PlacedIsFinite
<1>5. \A s \in SUBSET Placed : Cardinality(s) <= Cardinality(Placed)
  BY PlacedIsFinite, FS_Subset
<1>6. \A s \in SUBSET Placed : f[s] = Added(f, s)
  BY <1>4, <1>5 DEF SumsTo
<1>7. f = [s \in SUBSET Placed |-> Added(f, s)]
  <2>1. f = [s \in SUBSET Placed |-> f[s]]
    BY <1>4 DEF SumsTo
  <2>2. QED
    BY <1>6, <2>1
<1>8. QED
  BY <1>7

\* The bars of tasks that ran once fit into the drawing one after the other
LEMMA DurationsFit ==
  ASSUME Bars, Apart
  PROVE  TotalDuration <= Close - Origin
<1>1. PICK F : F = CHOOSE f : f = [s \in SUBSET Placed |-> Added(f, s)]
  OBVIOUS
<1>2. TotalDuration = F[Placed]
  BY <1>1 DEF TotalDuration, MapThenSumSet, MapThenFoldSet, Added, Picked
<1>3. F = [s \in SUBSET Placed |-> Added(F, s)]
  BY <1>1, SumExists
<1> DEFINE S == {n \in Nat : \A s \in SUBSET Placed :
                   Cardinality(s) = n => F[s] = Cardinality(Covered(s))}
<1>4. 0 \in S
  <2>1. SUFFICES ASSUME NEW s \in SUBSET Placed, Cardinality(s) = 0
                 PROVE  F[s] = Cardinality(Covered(s))
    OBVIOUS
  <2>2. s = {}
    BY <2>1, PickedFacts, FS_EmptySet
  <2>3. F[s] = 0
    BY <1>3, <2>2 DEF Added
  <2>4. Covered(s) = {}
    BY <2>2 DEF Covered
  <2>5. QED
    BY <2>3, <2>4, FS_EmptySet
<1>5. ASSUME NEW n \in Nat, n \in S PROVE n + 1 \in S
  <2>1. SUFFICES ASSUME NEW s \in SUBSET Placed, Cardinality(s) = n + 1
                 PROVE  F[s] = Cardinality(Covered(s))
    OBVIOUS
  <2>2. s # {}
    <3>1. Cardinality({}) # n + 1
      BY FS_EmptySet
    <3>2. QED
      BY <2>1, <3>1
  <2>3. PICK t, r : t = Picked(s) /\ r = s \ {t}
    OBVIOUS
  <2>4. t \in s /\ r \in SUBSET Placed /\ Cardinality(r) = n
    BY <2>1, <2>2, <2>3, PickedFacts
  <2>5. F[s] = Duration(t) + F[r]
    BY <1>3, <2>2, <2>3 DEF Added
  <2>6. F[r] = Cardinality(Covered(r))
    BY <1>5, <2>4
  <2>7. Cardinality(Covered(s)) = Duration(t) + Cardinality(Covered(r))
    BY <2>3, <2>4, CoveredFacts
  <2>8. QED
    BY <2>5, <2>6, <2>7
<1>6. Cardinality(Placed) \in S
  <2>1. Nat \subseteq S
    <3> HIDE DEF S
    <3> QED BY <1>4, <1>5, CountingUp
  <2>2. QED
    BY <2>1, PlacedIsFinite
<1>7. F[Placed] = Cardinality(Covered(Placed))
  BY <1>6
<1>8. Cardinality(Covered(Placed)) <= Close - Origin
  <2>1. CASE Placed = {}
    <3>1. Covered(Placed) = {}
      BY <2>1 DEF Covered
    <3>2. Origin \in Nat /\ Close \in Nat /\ Origin <= Close
      BY DrawnSpan
    <3>3. QED
      BY <3>1, <3>2, FS_EmptySet
  <2>2. CASE Placed # {}
    <3>1. PICK t \in Placed : TRUE
      BY <2>2
    <3>2. QED
      BY <3>1, CoveredFacts
  <2>3. QED
    BY <2>1, <2>2
<1>9. QED
  BY <1>2, <1>7, <1>8

\* The timeline, the critical path and the metrics of a run tell a story that can have
\* happened, at every moment of the run -- whatever the workflow, the retries, the
\* timeouts and the cancellations: no bar lies outside the span it is drawn against, a
\* task begins after the upstreams its rule waited for, bars overlap only when a task
\* was retried, and the durations add up to no more than the run took.
THEOREM TimelineCorrect == LoggedSpec => []TimelineIsCausal
<1>1. IInv /\ Telling /\ Mirrored /\ CacheStands /\ Timely => TimelineIsCausal
  <2>1. SUFFICES ASSUME IInv, Telling, Mirrored, Timely, Written PROVE TimelineIsCausal
    BY DEF TimelineIsCausal
  <2>2. Bars
    <3>1. log \in Seq(LogEntry) /\ log # <<>>
      BY <2>1 DEF Telling, Written
    <3>2. Len(log) # 0
      BY <3>1
    <3>3. QED
      BY <2>1, <3>2 DEF Bars, Mirrored
  <2>3. \A t \in Placed : Origin <= StartOf(t) /\ StartOf(t) <= EndOf(t) /\ EndOf(t) <= Close
    BY <2>2, PlacedFacts, DrawnSpan
  <2>4. ASSUME NEW t \in Replayed.known, StartOf(t) # R!Never, EdgesInto[t] # <<>>
        PROVE  /\ Rule[t] \in WaitsForAll => \A u \in Upstreams(t) : Follows(u, t)
               /\ Rule[t] = "ANY_SUCCESS" => \E u \in Upstreams(t) : Follows(u, t)
    <3>1. t \in Tasks /\ StartOf(t) = startedAt[t]
      BY <2>1, ReplayedTimes
    <3>2. /\ Rule[t] \in WaitsForAll => \A u \in Upstreams(t) : EndedBy(u, startedAt[t])
          /\ Rule[t] = "ANY_SUCCESS" => \E u \in Upstreams(t) : EndedBy(u, startedAt[t])
      BY <2>1, <2>4, <3>1 DEF Timely, UpstreamsFirst
    <3>3. ASSUME NEW u \in Upstreams(t), EndedBy(u, startedAt[t]) PROVE Follows(u, t)
      <4>1. u \in Tasks
        BY <3>1, EdgeFacts
      <4>2. EndOf(u) = finishedAt[u]
        BY <2>1, <4>1, ReplayedTimes
      <4>3. QED
        BY <3>1, <3>3, <4>2 DEF EndedBy, Follows
    <3>4. QED
      BY <3>2, <3>3
  <2>5. ASSUME NEW i \in 1 .. Len(CriticalPath) - 1,
               Rule[CriticalPath[i + 1]] \in WaitsForAll
        PROVE  ~ Overlap(CriticalPath[i], CriticalPath[i + 1])
    <3>1. PICK u, t : u = CriticalPath[i] /\ t = CriticalPath[i + 1]
      OBVIOUS
    <3>2. u \in Placed /\ t \in Placed /\ u \in Upstreams(t)
      BY <2>2, <2>5, <3>1, PathFacts
    <3>3. t \in Replayed.known /\ StartOf(t) # R!Never
      BY <3>2 DEF Placed, StartOf
    <3>4. EdgesInto[t] # <<>>
      BY <3>2 DEF Upstreams
    <3>5. Follows(u, t)
      BY <2>4, <2>5, <3>1, <3>2, <3>3, <3>4
    <3>6. EndOf(u) \in Nat /\ StartOf(t) \in Nat
      BY <2>2, <3>2, PlacedFacts
    <3>7. QED
      BY <3>1, <3>5, <3>6 DEF Follows, Overlap
  <2>6. ASSUME NEW t \in Placed, NEW u \in Placed, t # u, Overlap(t, u)
        PROVE  Replayed.tasks[t].retries + Replayed.tasks[u].retries > 0
    <3>1. t \in Tasks /\ u \in Tasks
      BY <2>2, PlacedFacts
    <3>2. Replayed.tasks[t].retries = retries[t] /\ Replayed.tasks[u].retries = retries[u]
      BY <2>1, <3>1, ReplayedTimes
    <3>3. retries[t] \in Nat /\ retries[u] \in Nat
      BY <2>1, <3>1 DEF IInv, TypeOK
    <3>4. ~ (retries[t] = 0 /\ retries[u] = 0)
      <4>1. SUFFICES ASSUME retries[t] = 0, retries[u] = 0 PROVE FALSE
        OBVIOUS
      <4>2. /\ StartOf(t) = startedAt[t] /\ EndOf(t) = finishedAt[t]
            /\ StartOf(u) = startedAt[u] /\ EndOf(u) = finishedAt[u]
            /\ StartOf(t) \in Nat /\ EndOf(t) \in Nat
            /\ StartOf(u) \in Nat /\ EndOf(u) \in Nat
        BY <2>2, PlacedFacts
      <4>3. R!Never \notin Nat
        BY DEF R!Never
      <4>4. t \in RanOnce /\ u \in RanOnce
        BY <3>1, <4>1, <4>2, <4>3 DEF RanOnce
      <4>5. finishedAt[t] <= startedAt[u] \/ finishedAt[u] <= startedAt[t]
        BY <2>1, <2>6, <4>4 DEF Timely, OneAtATime
      <4>6. QED
        BY <2>6, <4>2, <4>5 DEF Overlap
    <3>5. QED
      BY <3>2, <3>3, <3>4
  <2>7. ASSUME \A t \in Placed : Replayed.tasks[t].retries = 0
        PROVE  TotalDuration <= Close - Origin
    <3>1. Apart
      BY <2>6, <2>7 DEF Apart
    <3>2. QED
      BY <2>2, <3>1, DurationsFit
  <2>8. QED
    BY <2>3, <2>4, <2>5, <2>6, <2>7 DEF TimelineIsCausal
<1>2. QED
  BY <1>1, TimelyInvariant, MirrorInvariant, TellingInvariant, Invariant,
     LoggedIsScheduled, PTL
===============================================================================
