# A TLA+ model of campanile

`campanile` runs workflows: directed acyclic graphs of tasks with trigger rules,
edge conditions, retries, timeouts, resource pools and failure policies. One
thread runs a workflow; every state change becomes an event in an append-only
log, and everything else (reports, `campanile show`) is a fold over that log.

The modules in this directory follow a workflow from the calls that build it,
through the checks that let it run and the conditions on its edges, to the run, its
log, the files it is kept in and the reports made of it. TLC checks them on small
instances, and TLAPS proves what matters most for all workflows. `PROJECT.json` maps
every definition to the lines it models and lists the runs, mutants, hazards, findings
and theorems.

## The system

| component | source | state | operations | interacts with |
| --- | --- | --- | --- | --- |
| Scheduler loop | `runtime/scheduler.py` | states, attempts, retries, retry times, errors, condition cache, token, clock | `run`, `_loop`, `_resolve_pending`, `_dispatch`, `_execute`, `_succeed`, `_fail`, `_cancel_remaining`, `_finish` | calls everything below; writes the log |
| Dispatch decisions | `runtime/dispatch.py` | none (the cache is the scheduler's) | `decide_task`, `_evaluate_edge`, `Dispatcher.admit` | reads states, fills the cache, acquires slots |
| States and policies | `model/state.py`, `model/policy.py` | none | transition tables, `derive_run_state`, `evaluate_trigger_rule`, `should_retry`, delays | pure functions |
| Resource ledger | `runtime/resources.py` | slots in use, peaks, reservations | `acquire`, `release`, `release_all`, `reset` | the scheduler's, for one run |
| Retry, cancellation | `runtime/retry.py`, `runtime/cancel.py` | the token | `decide_retry`, `cancel`, `cancellable_tasks` | the token is set by a failure, a task body, or somebody outside |
| Executor, context | `runtime/executor.py`, `runtime/context.py` | one attempt | `run`, `check`, `cancel` | runs arbitrary code |
| Event log, replay | `store/log.py`, `store/events.py`, `store/replay.py` | the events | `append`, `extend_one`, `span`, `replay` | the only record of a run |
| Stores | `store/memory.py`, `store/filestore.py` | logs, cache, flush positions, files | `create`, `log`, `flush`, `delete`, `write` | processes sharing a directory |
| Reports, queries | `report/*`, `store/query.py` | none | timeline, critical path, metrics | read a replayed log, finished or not |
| Workflow graph | `model/workflow.py`, `util/topology.py` | tasks, edges, pools, parameters | `add_task`, `connect`, `check_references`, `subgraph`, `merge`, the cycle search and the sort | input of the scheduler |
| Tasks, parameters, pools, names | `model/task.py`, `model/params.py`, `model/resource.py`, `model/identifiers.py` | immutable | checks, coercion, binding | input of the graph and of a run |
| DSL, validation | `dsl/*.py` | a workflow under construction; a registry of declarations | builder calls, `build`, `validate` | produce and check the graph |
| Expressions | `expr/*.py` | none | lexing, parsing, rendering, evaluation, builtins | answer edge conditions |
| Engine | `runtime/engine.py`, `runtime/result.py` | workflows by name | `run`, `run_many`, `plan` | checks, binds, starts the scheduler |
| Command line | `cli/*` | none | `run --only`, `_free_run_id`, listings | engine, stores, reports |
| Schedules | `schedule/*.py` | timetable entries | next fire, alignment, merging, cron | pure |
| Utilities | `util/*` | a clock | time, ids, text, JSON | used by all |

What makes it hard to get right:

* **Early decisions.** A trigger rule answers from the upstream states of one
  moment. Under most rules it may answer before all upstreams are finished, and
  the condition cache then changes underneath the decision.
* **Two loops and a bound.** `_resolve_pending` iterates to a fixpoint inside the
  main loop, which must neither stop with a task left behind nor spin.
* **Waves.** A wave is admitted as a whole and executed one task after the other;
  a failure, a body or somebody outside may cancel it half way, and every slot
  must come back.
* **Attempts** are counted in one handler and retries in another, over success,
  failure, timeout and cancellation.
* **The log is what remains.** At every moment what has been written must be
  readable and must say what the scheduler knows, times included, and a report may be
  made of it while the run goes on.
* **Files outlive processes.** Several processes write, read, evict and delete in one
  directory, and any of them may die between two system calls.
* **Two pieces of code for one rule.** The structural check and the validator, the
  validator and the evaluator, the parser and the renderer, `x[k]` and `get(x, k)` each
  decide the same question on their own.
* **Calls that fail half way.** A builder call is a row of smaller ones, and what the
  first of them did stays when a later one raises; `merge`, `subgraph` and `--only`
  make new workflows out of checked ones, which nobody checks in between.

What makes each component correct:

| component | is correct when |
| --- | --- |
| Scheduler loop | it ends and strands nothing; no task moves illegally; attempts and backoffs are kept; a cancellation takes effect at once |
| Dispatch decisions | a decision taken early is the one any later moment would give; admission leaves out no task that fits |
| States and policies | a run's state is the fold of its tasks' states |
| Ledger | slots in use are those of the holders, within capacity, and all come back |
| Log and replay | what was written replays to the scheduler's own books |
| Stores | a file holds a beginning of one run's log, each line once, and all of it after a flush |
| Reports | what they say can have happened |
| Graph | a cycle reported is one, a sort lists every task after its upstreams, first declared first |
| Definition, checks, engine | whatever is let through, the scheduler can run, and its parameters fit their declaration |
| Expressions | a text has the tree of the grammar, a rendering that means the same, and only the failures the scheduler handles |
| Schedules | a search gives what looking at every moment gives |

## Modules

| module | models | role |
| --- | --- | --- |
| `TaskStates` | `model/state.py` | states, transition tables, `derive_run_state` |
| `TriggerRules` | `evaluate_trigger_rule`, the verdict of `decide_task` | operators on the set of effective upstream states |
| `RetryDelays` | `RetryPolicy.delay_for` | the delays the instances of `Scheduler` use |
| `ResourceLedger` | `runtime/resources.py` | the ledger's variables and operations, instantiated by `Scheduler` |
| `Scheduler` | `runtime/scheduler.py` and what it calls | the core state machine |
| `RunPromise` | what a run promises | abstract specification, implemented by `Scheduler` |
| `SchedulerProperties` | - | type invariant, safety, action and liveness properties |
| `DocumentedClaims` | - | a sentence of the documentation the code contradicts |
| `EventReplay` | `store/replay.py` | the fold over events, with its times |
| `LoggedRun` | `store/log.py`, `_task_result`, `_run_span` | `Scheduler` composed with its log, its own books and the fold |
| `RunReports` | `report/timeline.py`, `report/metrics.py` | what reports make of the log of `LoggedRun` at every moment |
| `FileStore` | `store/filestore.py`, `_free_run_id` | a directory shared by processes, with crashes |
| `RunDirectory` | what a directory of logs promises | abstract specification, implemented by `FileStore` |
| `TaskOrder` | `util/topology.py`, `Workflow.topological_order` | the cycle search, the sort, and what is computed along the order |
| `TriggerWatch` | `evaluate_trigger_rule` over time | the rules against every possible future |
| `Parameters` | `model/params.py` | declaring, coercing and binding a parameter |
| `ConditionCheck` | `_check_conditions` | what is wrong with what a condition reads |
| `WorkflowChecks` | `check_references`, `dsl/validate.py`, `_expand_only`, `subgraph` | operators on a workflow |
| `Definition` | `dsl/builder.py`, `dsl/decorators.py`, `merge`, `Engine.run` | workflows built, merged, cut and let through to a run; composes the three above |
| `ExprLexer` | `_scan_string`, `Literal.render` | values, the tokens they are read from and written as |
| `ExprTree` | `expr/ast.py` | the nodes of an expression, what it reads, how it is rendered |
| `ExprParser` | `expr/parser.py` | from tokens to a tree or a syntax error |
| `ExprEval` | `expr/eval.py`, `expr/functions.py` | from a tree and an environment to a value or an error |
| `Conditions` | `condition_environment`, the grammar | the four above and `ConditionCheck` on every short text |
| `Calendar` | `schedule/calendar.py` | windows, alignment, merging, as operators on moments |
| `Cron` | `schedule/cron.py` | the fields, matching and the two searches |
| `Timetable` | `schedule/timetable.py`, `schedule/interval.py` | entries that change, and the queries |
| `TimetableProperties` | - | what the queries promise, said without searching |
| `SharedLemmas` | - | lemmas several of the next modules cite: numbers, slots counted as pairs, trigger rules |
| `SchedulerProofs` | - | theorems about attempts, slots, time and the number of iterations, then about decisions, the fixpoint, admission, `FAIL_FAST`, the end of the loop, and the refinement of `RunPromise` |
| `LogProofs` | - | theorems about the log, about what replay makes of it, and about the times a report shows |
| `TriggerWatchProofs` | - | theorems about the trigger rules over time |
| `TaskOrderProofs` | - | theorems about the search, the sort, the levels and the reduction |
| `DefinitionProofs` | - | theorems about building, merging, checking and cutting workflows, and about bound parameters |
| `FileStoreProofs` | - | theorems about the files, and the refinement of `RunDirectory` |
| `TimetableProofs` | - | theorems about merged calendars, the searches of a cron expression and the answers of a timetable |
| `MC*` | - | small instances for TLC |

### How `Scheduler` corresponds to the code

`pc` says where `Scheduler.run` is. The actions are the stretches of code between
two points where something from outside can intervene or where the code loops:

* `Start` - `_reset`, `RUN_STARTED`.
* `ReleaseDueRetries`, `CancelRemaining`, `ExhaustIterations` - the top of
  `_loop`.
* `PassOver`, `DecidePending`, `NextPass`, `EndResolve` - one task, one pass and
  the end of `_resolve_pending`. `DecidePending` contains the evaluation of all
  incoming edges, the cache, the logging of conditions and the transition.
* `BeginAdmission`, `AdmitTask`, `BlockTask`, `Announce` - `Dispatcher.admit`
  task by task and the events `_dispatch` writes.
* `StartTask`, `CompleteTask` - `_execute` before and after the body.
  `CompleteTask` is `SucceedTask`, `RetryTask` or `FailTask` depending on what the
  executor makes of the body.
* `EndWave`, `ReleaseTask`, `EndDispatch` - the `finally` clause.
* `WaitForRetry`, `CannotWait`, `LeaveLoop` - the rest of `_loop`.
* `Finish` - the `finally` clause of `run`, then `_finish`.
* `CancelFromOutside` - `token.cancel()` by another thread, between any two of
  these.

Nondeterministic: how a body ends (success, any of the exceptions in `Raises`, a
call of `TaskContext.cancel`), how long it takes (`Elapsed`), and what a condition
evaluates to. A condition that reads a result which is not there always raises,
as the evaluator does (what a condition evaluates to is `Conditions`' subject).
`emitted` holds the events a step writes, in order, so
`LoggedRun` can append them to the log; it is the only variable without a
counterpart in the code besides `pc`, and nothing reads it back.

Abstractions: names, payloads and reasons are dropped; `RetryOn[t]` is the set of
exceptions that match `retry_on`, by their own class or a base class; the delay
after each attempt is a constant here, computed by `RetryDelays` in the instances;
time passes only while a body runs or while the scheduler waits, as it does with a
`ManualClock`, and never goes back, as `SystemClock`'s wall time may. Entries of
`_retry_at` that no longer apply stay in the dictionary, as in the code. A listener
subscribed to the log is not modelled: one that raises aborts the run.

### How `FileStore` corresponds to the code

`disk`, `temporary`, `cache[p]` and `flushed[p]` are the directory and the two
dictionaries of each process's store, as functions whose domain is the set of keys.
A call that touches a file more than once is several actions, with `call[p]`
saying where it is:

* `TryId`, `Create`, `Truncate` - `_free_run_id` and the two halves of `create`.
* `Record`, `Finish`, `Abandon` - the run: events appended to the log, `_finish`
  with its call of `flush`, or an exception that leaves `run` before it.
* `StartFlush`, `FlushLine`, `EndFlush`, `FlushRaises` - `flush`, called by
  `_finish`, `flush_all` or `evict`; `Evict` is the end of `evict`.
* `Load`, `Delete` - `log` for a run that is not cached, `delete`.
* `StartWrite`, `FillTemporary`, `ReplaceFile` - `write`.
* `Crash` - a process is gone, and with it its store; a line it was writing may be
  left torn.

A line is the run that recorded it and its sequence number; `runs` keeps, beside
the code's state, what each run recorded and how it ended. Buffering only means that
lines reach the file later than `FlushLine` says, and a reader that meets half a
line raises and changes nothing, so neither is modelled. An event that cannot be
encoded may be any (`FlushRaises`).

Every process may run workflows, as `docs/cli.md` and `_free_run_id` expect of command
lines that share a directory. Since `create` takes no lock, two that look for a free id
at the same moment may both take it, and the model then does what the code does: one
truncates what the other has written, both append, and the file holds lines of both
runs. The history variable `clashes` collects the ids this has happened to: two processes
were at the same time in a call on the id or had lines of it in memory to write. The
properties speak of all other ids, so they also say that the damage stays under the id
two processes share. Assumed of the callers: nobody deletes a run another call is working
on; a log is rewritten only by a process that has all of it, when it has a file and
nobody else is in a call on it; and an error in `flush` ends the process. No code in
the repository does otherwise: nothing in it calls `delete` or `write`.

### How `TaskOrder` corresponds to the code

A node is its position in the declaration order, `upstreams` the map `_normalise`
builds. `phase` follows `Workflow.topological_order`: first `find_cycle`, then
`topological_sort`, then whoever walks along the result.

* `OpenNext` - the outer loop of `find_cycle` calls `visit`; `Descend`,
  `PassDone`, `FindCycle` - the three things `visit` may do with the next upstream;
  `Close` - its end. `stack` is the code's `stack`, which is also the recursion.
* `BeginSort`, `Place`, `EndSort` - before, in and after the loop of
  `topological_sort`. `ready` is kept sorted in the code, so a set and the least of
  its elements say the same.
* `Walk`, `EndWalk` - `depth_levels` and `transitive_reduction`, two loops over the
  same order that do not look at each other, taken one node at a time together.

The upstreams of a node are looked at in the order they were declared, which has
nothing to do with the order of the nodes: the model lets the search take them in
any order, and everything is checked for all of them.

### How the schedules correspond to the code

A moment is a number of whole minutes since the midnight before a Monday; the length
of hours and days is a constant, and so are those of the months: `MonthLengths` lists the
months of one whole cycle of years, leap years included, with `MonthsPerYear` to a year. `CronAfter`,
`CronBefore`, `Align` and `NextStart` have the loops of the code as recursive
functions, with its bounds (`SearchLimitDays`, `SearchDays`, `SkipLimit`); `NoMoment`
is `None` and `Broken` the `ScheduleError`. The text of a cron field is the row of its
pieces, each a star, a value or a range with a step; `ParseCron` makes of it what
`_parse_field` does, 7 for Sunday, a value with a step and the test for a restricted
day field included (a field is unrestricted if its text is one star, so `*,*` is
restricted), and `CronAccepted` says when it raises.

* `AddEntry`, `Remove`, `Enable` - the changes to a `Timetable`.
* `Ask`, `TakeFire`, `Answer`, `Return` - one call of `upcoming` or `between`, which
  are the same loop with another bound: the moments pending at first, one round of the
  loop each, the end. `pending` is by position instead of by name, which is the same
  during one call.
* `NextFire` - `next_fire`, a function of the entries.

Seconds are left out: cron and `align` cut them off, and an interval of less than
a minute would only meet more moments. Times before the first moment do not exist, so
`CronBefore` also ends there. A window of `24:00-00:00` is among the `Windows` the code
accepts, but in no calendar of the runs, and `AnswersAreComplete` says nothing of a timetable
with one (see *Findings*).

### How `Definition` corresponds to the code

A workflow is a record of tasks, edges, pools, parameters and the limit; only the
fields a rule reads are kept of a task. Every call a program can make is a row `todo`
of primitive calls on one workflow, `target`, in the order the code makes them, each with
`Problem`, the exception it raises, and `Result`, what it leaves:

* `CallBuilder` - `task`, `connect_many` (behind every `>>`), `chain`, `pool`, `param`,
  `parallelism`; `BuildWith` - `build_with`, the calls of `define` and the check.
* `Import` - the declarations of a registry when a module is loaded;
  `BuildRegistry` - `TaskRegistry.build`.
* `Merge` - `merge`, source by source: tasks, edges, pools.
* `Run` - `Engine.run` and `run_many`: the validator or the structural check, then the
  binding of parameters. `RunOnly` - `campanile run --only`.
* `Perform`, `PerformRaises` - the next primitive call. One that raises ends the call;
  what the earlier ones did to the caller's workflow stays. A call that makes a new
  workflow works on one of the `Drafts`, which nobody sees if it raises: `merge` on
  `MergeDraft`, the registry, `--only` and imports on `Draft`.

Edges are a set, since only messages depend on their order. The cycle search is not
repeated here: `Cyclic` says that some tasks each have an upstream among them, which is
what `TaskOrder` shows `find_cycle` to find (`CycleCorrect`, `SortSucceeds`). What a
condition reads is a constant, `Facts`; the instance computes it with `ExprParser` from
the text. A float is counted in halves.

### How the expressions correspond to the code

A text is a sequence of tokens. `ExprLexer` says how a string is read, character by
character with its escapes (`ScanString`), when the lexer refuses it (`Unreadable`), and
how `Literal.render` writes a value back (`Written`): it escapes backslashes and quotes
only, a number is written as its `repr`, and the `repr` of an infinite float is the
name `inf`. `ParseText` has one function
per level of the parser, with its loops, its look-ahead for `not in` and its depth;
where it fails it says what it saw and at which token. Trees are records named by the
classes of `ast.py`. `Eval` gives a value - a record whose only field names its type -
or `Raise` with the class of the exception: `ExpressionEvaluationError` and its
subclasses, or Python's own `TypeError` where a dictionary is asked for a key that cannot be
hashed. `TypeToken` adds one token to the text as long as what is typed has not failed;
`Environment` is what `condition_environment` makes of a run. Left out: where a text is cut
into tokens, the escape `\0`, computing with floats (so division and `float`; a float is
read and rendered, but the properties about values leave a condition with one out, as
`Evaluable` says), and the functions that rewrite strings.

### How `LoggedRun` and `RunReports` correspond to the code

`LoggedStep` is a step of the scheduler with its events appended to `log` (`seq`
as `EventLog.append` numbers them, the time as `_emit` passes it), folded into
`snapshot`, and with `_started_at` and `_finished_at` kept as `_execute`, `_succeed`,
`_fail` and `_terminate` do. `Replayed` is what `replay` returns for the log as it is;
`TaskResult` and `Span` are what `_task_result` and `_run_span` put into the
`RunResult`. `RunReports` computes the timeline's rows and span, the critical path and
the summed durations from `Replayed` alone.

A definition introduced by a comment beginning with *Fault* is used nowhere. It is
a plausible mistake in the definition that follows it, and the mutants of
`PROJECT.json` show that putting it there breaks a property.

## Runs

| run | question | instance |
| --- | --- | --- |
| `MCDiamond` | Does every run that ends leave all tasks finished, along legal moves, within its attempts, backoffs and iterations, and keep `RunPromise`? | a -> {b, c} -> d, two conditional edges, a pool of two slots that b alone fills, two attempts each, a linear backoff, outside cancellation, `ISOLATE`; 3951 states |
| `MCPools` | Are slots conserved and given out greedily, does `FAIL_FAST` stop at the first failure, and what do a clock that cannot wait and the iteration limit do? | three competing tasks and one that follows, asking for 1 or 2 of 2 slots, two places in a wave, bodies that fail, overrun, retry (timeouts only) and cancel, limit 6; 2184 states |
| `MCLoggedRun` | Does the log say at every moment what the scheduler knows, can what a report makes of it have happened, do early decisions stand, does every run end? | the diamond with `ALWAYS`, `ALL_DONE` and `ANY_SUCCESS`, three attempts for a under a growing backoff cut at 4, timeouts, c may cancel, fairness; 12947 states |
| `MCTriggerWatch` | Is an answer of a trigger rule the answer of every continuation? | all seven rules, three upstreams in any states; 1155 states up to symmetry |
| `MCFileStore` | Does the directory keep what was flushed, and only that, whatever process does what and dies when? | two processes that both run workflows, two ids, two runs of two events, any of which may not be encodable, one crash; 726405 states up to symmetry |
| `MCTaskOrder` | Does every graph get a cycle or an order, and are levels and reduction right? | every graph of four nodes, every order of looking at upstreams, fairness; 62214 states |
| `MCDefinition` | Is every workflow the engine lets through one the scheduler can run, however it was put together? | two workflows, one registry, sixteen builder calls that succeed and fail, merges with and without prefixes, every choice of `--only`, four requests, at most 4 calls; about 94000 states |
| `MCConditions` | Does every text get the tree of the grammar, do the rendering, the validator and the evaluator agree about it? | every text of up to 4 tokens out of 32, thirteen beginnings with 2 tokens more, nesting up to 2; about 186000 states |
| `MCTimetable` | Is every answer of a timetable what looking at every moment gives, and does a cron text fire where it says? | two entries, six triggers, six calendars, both policies, two queries; days of four minutes, a year of eight days and one of nine in turn, 100 moments, at most 6 skips and 3 days of looking for an open one; about 144000 states up to symmetry |

Three more runs each check one sentence of the documentation and find it broken
(see *Findings*): `MCEarlyRead`, `MCLostDeferral`, `MCUnhashableKey`.

Why these bounds are enough to meet the interesting cases: the diamond is the
smallest graph in which a task has two upstreams that finish at different times
after a common cause, so early decisions, stale cache entries, blame from one
side and a skip from the other all occur. Two attempts distinguish a first, a
last and a retried attempt; three let a retry be waited for twice, and a delay of 2, then
4 instead of 6, shows both the growth and the cap. The pool is
smaller than the sum of requests, so waves are cut by slots as well as by places.
Two events distinguish an empty, a partial and a complete file; two ids and two
runs, with one crash and one deletion, let an id be used twice and a reader keep a
copy of the first run while the second has its name, and two processes record at once
under two ids or, by the race of `create`, under one. Four nodes are the fewest
with two cycles that share none, a diamond, and an edge that a path of three others
implies. Four calls are enough to build both workflows, merge them and run or cut the
merge; two workflows make names and pools collide, and the calls that raise do so at
their first, a middle and their last primitive call. Four tokens are enough for every
infix operator with every operand, `not in`, a call and an index; the beginnings reach
what is longer: a path into a result, a second operand after a prefix, a list, a boolean
and a negative number as an index. The literals are strings with a newline, a quote and
a backslash, and `1e400`, which overflows to infinity.
Days of two hours of two minutes have a first and a last minute of each hour and
of each day and windows that wrap, touch midnight or leave gaps; weeks of seven days
and years of eight or nine run against each other, and 100 moments are three of each, so
a leap over a month, a day or an hour starts and lands everywhere it can. The bounds of
the searches, 6 wanted moments and 3 days, are large enough for most closed stretches and
too small for some, so answers are complete, stop short or are an error.
`MaxIterations` is 40 where it must not be reached (the largest iteration count
is below 20) and 6 in `MCPools`, where some runs reach it and some do not. `MaxCalls`,
`MaxTokens`, `MoreTokens` and `MaxDepth` are the only other bounds that are not the
code's own; the code's `MAX_DEPTH` is larger, and is met here at 2.

Fairness: `FairSpec` assumes weak fairness of `Step`, the disjunction of the
scheduler's own actions, and `LoggedFairSpec` the same of `LoggedStep`. The scheduler is
one thread that is never blocked by another; a body that never returns is excluded,
since nothing in the code could interrupt it. `CancelFromOutside` has no fairness.
`TaskOrder` assumes the same of its one thread. Deadlock is checked in every run but
`MCConditions` and its finding's run `MCUnhashableKey`, where a text may be complete or
wrong beyond repair, and `MCDefinition`, where a program may make no further call; a run
that has ended rests by `Rest`, a stuttering step, and an idle process may always call `evict`.

## Properties

* `NothingStranded`, `ResolveSettles`, `RunEnds`: the loop ends, and only when every
  task is finished, from a fixpoint in which nothing was left undecided.
* `DecisionsStand`, `AnswersWhenKnown`: decisions taken on the states of one moment are
  the ones that would be taken at any later one; the first of the scheduler with its
  cache, the second of the rules against every future.
* `KeepsPromise`: refinement of `RunPromise` - no illegal transition, one
  conclusion, accounted for by the tasks.
* `AttemptsAccounted`, `BackoffRespected`, `IterationBudget`: retries.
* `SlotsConserved`, `SlotsHeldExactlyInWaves`, `AdmissionMaximal`: slots.
* `FailFastStops`, `ClockStrandsOnlyRetries`: cancellation and the ways out by
  exception.
* `ReplayAgrees`, `OneEndPerTask`, `TimelineIsCausal`: the log and the reports.
* `FilesArePrefixes`, `KeptRunsAreComplete`, `CopiesAreHonest`, `KeepsDirectory`
  (refinement of `RunDirectory`): files.
* `CycleIsReal`, `SortNeverRaises`, `OrderIsTopological`, `LevelsAreLongest`,
  `ReductionIsMinimal`, `Returns`: the order of the tasks.
* `EdgesAreUnique`, `StartedIsSchedulable`, `OnlyKeepsValidity`, `MergesPass`,
  `BoundFitsSchema`: definitions, from the first call to the start of a run.
* `ParsesAsGrammar`, `RenderReparses`, `CheckedNamesResolve`, `ReadsAgree`: conditions.
  The grammar is stated apart from the parser, as the trees a text has a derivation for.
* `AnswersAreComplete`, `CronSearchesFind`, `MergeOpensWhereAllDo`: schedules. An answer
  may leave out only what is `OutOfReach`, which is said without the searches: between the
  last start and the one that is missing lie as many closed days, as many wanted moments at which the
  calendar is closed, or as long a silence of the cron text as the code gives up at.

## Proofs

Eight modules hold the theorems; each EXTENDS the modules it is about. A theorem holds
for every value of the constants that the named assumptions allow, and those say what the
constructors and the structural check validate (`SchedulerAssumption`), what the callers
pass (`CallsAssumption`, `MergesAssumption`, `RequestsAssumption`), what a parser or a
constructor accepts (`CronAssumption`, `TriggerAssumption`, `CalendarAssumption`,
`QueryAssumption`) or what makes two things different (`DraftAssumption`,
`AnswerAssumption`). Two deserve a word. That `Order` is topological is
assumed of the scheduler and proved of `topological_sort` (`OrderCorrect`). That the
edges into a task come from different upstreams is what `connect` refuses or
deduplicates (`workflow.py:181-203`) and what `EdgesStayUnique` proves of every workflow
a program can put together.

### The scheduler: `SchedulerProofs`

* `TypeCorrect`: `Spec => []TypeOK`
* `AttemptsCorrect`: `Spec => []AttemptsAccounted`
* `BackoffCorrect`: `Spec => BackoffRespected`
* `SlotsCorrect`: `Spec => []SlotsHeldExactlyInWaves`

All four follow from one inductive invariant, `IInv`, the conjunction of

* `TypeOK`;
* `Control` - what `pc` says about the wave: the tasks being considered and
  admitted are distinct and `READY`, those after the cursor still are, the one at
  the cursor is the only `RUNNING` task and only while its body runs. Without it
  `StartTask` could start a task that is not ready, and nothing could be said of
  its attempts;
* `Holding` - who has reservations at each `pc`: nobody between waves, exactly
  the admitted tasks with exactly their requests during one, and while the
  `finally` clause runs only tasks it has not come to yet;
* `Attempting` - per task: fewer than `max_attempts` attempts while another may
  still start, the two counters apart by one exactly while an attempt is running
  or was the last, and a `PENDING` or `READY` task is past its retry time.

`TypeNext`, `ControlNext`, `HoldingNext` and `AttemptingNext` show that every
action preserves each part given all of them; `Invariant` combines them. Time
needs a small detour: that the earliest retry time exists is `LeastElement`,
proved from the well-foundedness of finite sets under inclusion.

* `AccountsCorrect`: `Spec => []SlotsConserved`. The slots held in a pool are counted as
  the pairs of a holder and a number up to its request (`Units`), so that acquiring and
  releasing add and remove a finite set and no sum has to be taken apart.
* `BudgetCorrect`: `Spec => []IterationBudget`. Every entry of the loop but the last
  makes some task go a step further: an attempt is over, or a wait for the next is. `Budget` says
  at each `pc` how far `iteration` may be ahead of `Made`, the number of steps gone;
  `StepsBounded` says that an unfinished task still has a step to go.

`SharedLemmas` states what is needed of the seven trigger rules: an answer other than
*wait* is kept by every set of upstream states the present one can turn into
(`AnswersAreMonotone`), and *wait* implies that an upstream is unfinished
(`WaitingIsUndecided`). `TriggerWatchProofs` lifts them to behaviours, for any number of
upstreams: `AnswersCorrect`, which is `Spec => []AnswersWhenKnown`. The second
part of `SchedulerProofs` applies them to the scheduler:

* `DecisionsCorrect`: `Spec => []DecisionsStand`. What is known about a task's
  edges only grows (`Known` moves along legal transitions, and a cached condition
  is never replaced), so an answer given once is the answer from then on.
* `SettlingInvariant`: `Spec => []Settling`. During a pass every pending task
  before the cursor is quiet: its edges are evaluated and its rule waits. A
  decision at the cursor changes only that task, whose downstreams come later in
  `Order`, so one pass is enough and a second one changes nothing
  (`TwoPassesCorrect`), and what `_resolve_pending` leaves is settled
  (`ResolveCorrect`).
* `NothingStrandedEver`: `Spec => []NothingStranded`. When nothing is ready,
  running or waiting, take the pending task with the least position in `Order`:
  all its upstreams are finished, and no rule waits for that.
* `PromiseKept`: `Spec => KeepsPromise`, the refinement of `RunPromise`: the
  initial state maps to its initial state and every action to one of its steps
  or to a stutter.
* `AdmissionCorrect`: `Spec => []AdmissionMaximal`. The invariant `Greedy` says of
  everything blocked so far that the limit is reached or a pool is too full; taking
  one more only fills the pools further (`AcquireFillsPools`), and being one below the
  limit rules the first case out.
* `ClockCorrect`: `Spec => []ClockStrandsOnlyRetries`. A wave is never empty
  (`NeverEmptyHanded`): with no slot taken whoever is asked first fits (`FirstFits`, from
  `SlotsConserved`), so the loop cannot raise for lack of progress, and a clock that
  cannot wait is asked to only when all that is unfinished waits for a retry.
* `FailFastCorrect`: `Spec => FailFastStops`. A task comes to `FAILED` only in a step
  that cancels the token (`FailureCancels`), the token is never cleared (`TokenStays`), and
  the wave does not start a task with a cancelled token. That the run is then reported
  `FAILED` needs `NothingStrandedEver`: with a task unfinished it would be derived as
  `RUNNING`.

### The log: `LogProofs`

* `LogSaysOnce`: `LoggedSpec => []OneEndPerTask`
* `ReplayCorrect`: `LoggedSpec => []ReplayAgrees`
* `TimelineCorrect`: `LoggedSpec => []TimelineIsCausal`

What a step appends is a `Batch`: true of the step (`Truthful`), telling every change
of state (`Complete`), every condition and a cancellation at most once
(`TellsConditionsOnce`, `TellsCancelOnce`), and such that the task it is about moves the
way replay moves it (`Retold`). Every action of the scheduler writes a batch; what follows
is shown of batches and never of actions. `Telling` is the invariant of the log: a
finished task has been told of, once, and nothing is said of it after that but the
release of its slots. `Mirrored` is the invariant of the fold: it never meets an event it
rejects, and for each task the record it keeps is the scheduler's - state, attempts,
retries, timeouts, times - and the error is one the log tells of (`ErrorsHeld`). `TaskAfter` says
what the first events of a batch do to one record, and is shown by induction on them. `Concluded` adds that a
run that is done has a terminal state, which its last event reports.

The times need an invariant of their own, `Timely` (`TimelyInvariant`), stated of what the
scheduler notes and not of the log: nothing is later than the clock, a task that was never
retried has run once and for the time noted, two such tasks never ran at once
(`OneAtATime`), and a task began after its upstreams ended, all of them or one of them as its
rule waits (`UpstreamsFirst`). That part needs `CacheStands`: why a task was let through
stays true only because a cached condition is never replaced. `SpanStands` says what the first
and the last event tell of the run. `Mirrored` carries all of it over to the replayed
record (`ReplayedTimes`). What the reports compute recursively is treated on its own: a walk
back along the critical path exists, ends, and each of its links is an upstream that ended
last (`WalkFacts`); and durations of tasks that do not overlap add up to no more than the
time they cover, since each covers moments of its own (`CoveredFacts`, `DurationsFit`).

### The files: `FileStoreProofs`

* `FilesCorrect`: `Spec => []FilesArePrefixes`
* `KeptRunsCorrect`: `Spec => []KeptRunsAreComplete`
* `CopiesCorrect`: `Spec => []CopiesAreHonest`
* `StoreKeepsDirectory`: `Spec => KeepsDirectory`, the refinement of `RunDirectory`, crashes
  included.

They hold for any number of processes, all of which may record at once, and speak of the
ids no two of them have used at the same time (`clashes`). The inductive invariant, `IInv`,
has two halves. `Base` is about all ids, clashed or not: the types, and what a call that is
under way goes by. The rest is about the ids outside `clashes`. `IdFits` says per id
what its file is (`FileFits`: a beginning of the latest run under that id, perhaps with a
torn line), what the copies are (`CopiesFit`: beginnings of one run under that id, not
always the latest), who may be ahead of the file (`PendingFits`: only the process that
recorded the run, or one that is flushing it), that a kept run is there in full
(`KeptFits`), and that a copy of the latest run is never ahead of its file but in the hands
of who recorded it (`Covered`). The last part is what the properties do not say and what
makes them inductive: a reader that rewrites or flushes an old copy would otherwise shorten
the file. `CallFits` says what a process half way through a call relies on. Every step is
shown to keep the invariant of the id it is about, and that of all others by
`UntouchedIdFits` and `UntouchedCallFits`, so what two processes do to an id they share
cannot reach another.

For the refinement one more thing is needed: an id that clashes disappears from the abstract
directory, which only forgets files by deleting them. Two processes can come to share an
id only by looking for a free one (`SameClashes`), and then it has no file
(`ClashesUnseen`).

### The order of the tasks: `TaskOrderProofs`

For graphs of any size:

* `OrderCorrect`: `Spec => []OrderIsTopological`
* `SortSucceeds`: `Spec => []SortNeverRaises`
* `CycleCorrect`: `Spec => []CycleIsReal`
* `LevelsCorrect`: `Spec => []LevelsAreLongest`
* `ReductionCorrect`: `Spec => []ReductionIsMinimal`

The inductive invariant has a part for each phase. `Searching`: the open nodes are
those on the stack, each once, the stack is a path along upstreams, and what an open
node has looked at is done or lies next on the stack. `Ranked`: some ranking of the
nodes puts each that is done above all it depends on - the one that counts closings
does, so `Close` extends it (`CloseRanks`). `Sorted`: `remaining` counts the upstreams
that are not in the order, and `ready` holds exactly the nodes that miss none
(`PlaceCounts`). Were the sort to stop early, the missing node of least rank would be
ready (`AllPlaced`, again by `LeastElement`); the order then lists every node once,
so its length is `N`. The cycle is the part of the stack from the open node found
again to the top (`CycleFound`). `Walking` is the part for what is computed along the
order: each node walked is one level below its deepest upstream (`Leveled`), its closure
is its upstreams and theirs, and it keeps the upstreams no other one depends on
(`Closed`). That a chain of the length of the level exists and none is longer is shown by
going up the levels (`ChainOf`); that a reduction reaches what the graph reaches, by going up the
order (`Holds`, `Rising`), and an edge kept is one nothing else replaces.

### Definitions: `DefinitionProofs`

For any calls of builder, registry, merge, engine and command line, with any names,
conditions, values and pools:

* `EdgesStayUnique`: `Spec => []EdgesAreUnique`, from `WorkflowsAreSound`, which adds that
  the drafts and every name stand for a workflow; whatever raises leaves what was sound.
* `ChecksAgree`: the structural check raises exactly when the validator reports a
  structural error.
* `StartedRunsAreSchedulable`: `Spec => []StartedIsSchedulable`. Both checks rule out
  dangling edges, cycles and requests no pool serves (`ChecksSuffice`), and a condition
  without an issue reads only what is there (`AcceptedConditionReads`).
* `OnlyAlwaysKeepsValidity`: `Spec => []OnlyKeepsValidity`. What `--only` keeps is
  closed under upstreams (`ExpandedIsClosed`), a closed part has the upstreams, the
  ancestors and no cycle but those of the whole (`PartKeepsGraph`), so it has no issue
  the whole lacks (`PartIsValid`).
* `BoundAlwaysFits`: `Spec => []BoundFitsSchema`. A declaration that was accepted has a
  default that is coerced and among its choices (`SoundParam`), and what was coerced once is
  left alone the second time (`CoercedIsCoerced`).
* `MergesAlwaysPass`: `Spec => []MergesPass`. The row of calls a merge makes lists, in some
  order, the tasks, edges and pools of all its sources (`MergeLists`), which are finite
  (`FiniteStep`). `Merging` says that a merge is somewhere in that row, and that its draft is `Built` of
  what the calls behind it say: no two tasks have fallen together, every edge is one of a
  source under the new names, every pool has the capacity its sources agree on. At the
  end of the row a cycle of the merged workflow would be one of the source that any of
  its tasks comes from, since names tell the sources apart (`MergedPasses`).

### The schedules: `TimetableProofs`

For days and hours of any length, any cycle of years with months of any length, any calendars
and every cron text the parser accepts:

* `MergeCorrect`: `Spec => []MergeOpensWhereAllDo`. The windows made of a set of minutes
  are open in just these (`WindowsCover`): the run of minutes around one of them has a
  first and a last.
* `CronCorrect`: `Spec => []CronSearchesFind`. Months begin later and later
  (`MonthsRise`), so every moment lies in exactly one (`MonthFacts`); whether a moment matches
  can therefore not change within the month, the day or the hour a search leaps over
  (`LeapsMissNothing`), and a search that misses nothing ends at the first match, or at its
  horizon (`AfterFinds`, `BeforeFinds`). That an expression matches what its text names is
  shown piece by piece (`FieldsSay`) and, for the two spellings of Sunday, `WeekdaysSay`.

Both need of the timetable only that its entries keep their shape
(`EntriesTypedInvariant`).

* `AnswersCorrect`: `Spec => []AnswersAreComplete`, for any number of entries changed in any
  order, any triggers, queries and bounds of the searches, and any calendars without the window
  `24:00-00:00`, which is a hypothesis of the property. The argument has two halves.

  What one search finds (`NextStartFacts`): from a moment t, `ScheduleEntry.next_after`
  gives the least start of the entry after t, or nothing or an error, and then every start
  after t is `Unreached`. A trigger gives the next wanted moment (`TriggerAfterFacts`, with
  `CronCorrect`'s lemmas for cron). `align` gives the first open moment, or an error after
  as many closed days as it looks at (`AlignFacts`). The skipping search stops at the first
  wanted moment that is open, or after `SkipLimit` of them (`SearchFacts`). Both count down, so
  their tables exist by `TableExists`. `UnreachedIsOutOfReach` brings the last moment they
  looked at into the form the property has.

  How the answers are merged: a list of fires that is in order does not by itself imply
  that nothing was left out on the way, so the invariant, `MergeInvariant`, says more. What is collected of
  an entry is every start of it up to its last and nothing else (`Collected`); what is
  pending is the next start of each entry after that one, and comes after all that is
  collected (`PendingLater`); a query raises only if some entry's search from its last
  start does (`MergeStops`). That a start wanted before the last one cannot come after it, which
  makes searching from the last start the same as searching from the query's, is `StartsLater`.
  `TakeFacts` is the step that takes the earliest pending start.

### What the proofs rest on, and what stays with TLC

Recursive definitions are written as recursive functions (`Those`, `Fold`, `within`, and
`FlattenSeq` of the community modules). For each a lemma shows first that the function exists,
with `CountingUp`, induction on numbers in the form of a set that holds 0 and is closed
under successors, and then what it computes in the same way.

Only model-checked: the liveness properties `RunEnds` and `Returns`, since fairness is outside what
the provers handle; and the four properties of the conditions, whose parser and evaluator are
RECURSIVE operators.


## Findings

* A condition may read any ancestor of its downstream, and the documentation says
  such a read is never "a runtime surprise". It is evaluated when its own upstream
  is done; another ancestor may still be running, the read raises, and the edge is
  broken for the rest of the run (`MCEarlyRead`).
* A run that its calendar defers is found only by a call that starts before it was
  wanted: asked between the wanted and the deferred moment, `next_fire` answers with the
  one after, and `between` misses it (`MCLostDeferral`).
* The evaluator "never lets a `TypeError` or `KeyError` escape into the scheduler", but
  `[params] in results`, `results[params]`, `get(results, params)` and
  `has(results, params)` hash a list or an object: the `TypeError` leaves
  `Scheduler.run` instead of failing the edge (`MCUnhashableKey`).

Smaller divergences met on the way, without a run of their own.

The scheduler and its policies:

* `ISOLATE` reports success "if every other branch succeeded" (`policy.py`), but also when
  the other branches were cancelled.
* A wait for a retry takes an iteration of its own, so "at most one iteration per task
  per attempt" (`scheduler.py`) is `IterationBudget`'s bound instead.
* "written to the event log before it is believed" (`scheduler.py:18`): `_transition`
  precedes `_emit`.
* `Dispatcher.admit` does let a low-priority task that fits pass a blocked one.
* A body that raises because `TaskContext.check` told it so is matched against `retry_on`
  by what it raised, not as a `TaskTimeout` (`retry.py`).
* `multiplier ** (attempt - 1)` overflows before `max_delay` is applied
  (`policy.py:180`).
* `TaskState.ran` is false for a task that waits for its retry. A task already `SKIPPED`
  is not marked `UPSTREAM_FAILED` by a later failure above it.
* A condition that raises "blocks the downstream" (`docs/architecture.md`), but under
  `NONE_FAILED`, `ALL_DONE`, `ALWAYS` and `ANY_SUCCESS` the downstream may run.
* `find_cycle` and the parser of anything but parentheses and lists call themselves once
  per node: a chain of about a thousand tasks, or of prefixes, ends in a
  `RecursionError`.

The log, the reports and the files:

* Replay keeps the error of a retried attempt after the task succeeded (`ReplayAgrees`
  makes exactly this exception), and its `running_seconds` omits retried attempts.
* "a second terminal event for the same task, means the log is corrupt and says so"
  (`replay.py`), but one that is not the outcome of an attempt (skipped, cancelled,
  blamed) is accepted and the last one wins.
* The log is said to stamp the time of an event (`log.py:7-9`); the caller passes it.
* Under `ANY_SUCCESS`, `ANY_FAILED` and `ALWAYS` the critical path may go through an
  upstream that ended after the downstream had started (`timeline.py:178`);
  `TimelineIsCausal` is stated for the other rules.
* "The ``count`` tasks that spent the most time running" (`metrics.py:199`) includes
  waits between attempts, and a task in backoff counts as running in the busiest moment.
* A log may be "tailed while a run is in flight" (`filestore.py:5-6`), but its file is
  empty until the flush at the end.
* `flush` "appends everything written since the last flush", but after one that
  raised half way (a task returned NaN) the lines before are written again.
* Dense sequence numbers "let a reader detect a truncated file" (`log.py`) only if the
  truncation does not fall between two lines, as it may after a crash.
* Two command lines started together under a virtual clock try the same ids, both find
  one free (`commands.py:363`), and `create` truncates the file the other has made
  (`filestore.py:60`): the file holds events of both, and a run that was kept may be
  lost. The properties of the files leave these ids out, and no other; runs that are
  recorded at the same time under different ids do not disturb each other.

Definitions and the engine:

* A builder call that raises leaves what it had done: `task(..., after=[...])` adds the
  task before a bad edge raises; `parallelism(0)` assigns the limit before it is refused.
* `merge` drops the parameters, the policy and the limit of its sources, and renames tasks
  but not the names inside conditions: a merge with prefixes of valid workflows may not
  validate.
* `Engine.plan` does not check: on a cyclic workflow it raises the `ValueError` of the
  sort.
* `run_many` ends at the first set of values that does not bind.
* An explicit null for an optional typed parameter raises, while a required parameter of
  type "any" may be null.
* `--strict --only` may fail on warnings the whole workflow does not have.
* A name may end with a newline, since the pattern ends in `$` (`identifiers.py`).

Conditions:

* `[true] == [1]` and `contains([1], true)` are true, although booleans are said not to be
  numbers.
* `int(1e400)` raises Python's `OverflowError`.
* `??` does not catch a missing key, although `docs/expressions.md:59` and `eval.py:15-16`
  offer it as a defensive read.
* Some conditions are rendered to a text that means something else or nothing, although
  `ast.py:3` says that `render` puts a tree "back into source form": a prefix operator
  before a dot or an index, as in `(-a).b`; `not` as an operand of `-`, `??` or a binary
  operator, as in `(not a) == b`; a whole number before a dot, as in `(1).b`; a string with a
  newline, which is written as it is (`ast.py:61`) and which the lexer then refuses; and
  `1e400`, written as the name `inf`. `RenderReparses` says that these are the only ones
  (`LostInRendering`): a text is rendered faithfully if and only if it has none of them,
  unless the added parentheses exceed `MAX_DEPTH`.

Schedules:

* Calendars whose windows share no minute merge into one that is always open, not "open
  only where every input is open".
* The window `24:00-00:00` is accepted, contains no minute, and `align` answers with a
  midnight that `is_open` denies.
* Of two entries due at once, a caller that asks `next_fire` for what comes after
  the last answer hears of one.
* "four years covers every leap year pattern" (`cron.py`), but not around 2100, where
  `0 0 29 2 *` answers `None` although it fires again.
* `*/1` in a day field counts as restricted, and `5/1` is just 5 while `5/2` runs to the end
  of the field.

## Not modelled

* Characters: where the lexer cuts a text into tokens, the spelling of names, durations,
  dates and cron macros, string functions, JSON text, and every rendering but that of a
  condition. They are conversions with their own tests, and no rule here depends on more
  than their result.
* Computing with floats, and the jitter of a delay, which is a hash.
* `InMemoryStore`, the query and export modules and the counts of the summary: they
  read what `LoggedRun` has and keep nothing.
* A ledger shared by several runs at once: nothing in the repository runs two workflows
  in one process at the same time.
* `downstream_of_failure` and the token's subscriptions, which nothing in `runtime`
  calls.
* Waves, paths, roots and leaves of a graph, and `Engine`'s dictionary of workflows.
* Argument parsing and the loading of modules: loading is what `Import` says of its
  effects.

What could be taken further: the log of a run composed with the file it is flushed to,
so that what `replay` makes of a file after a crash is checked on the file itself
rather than, as now, on every prefix of the log.
