------------------------------- MODULE Definition ------------------------------
(***************************************************************************)
(* How a workflow comes about and is let through to a run: the builder     *)
(* (src/campanile/dsl/builder.py), the registry behind the decorators      *)
(* (src/campanile/dsl/decorators.py), merging and cutting out              *)
(* (src/campanile/model/workflow.py, src/campanile/cli/commands.py), and   *)
(* what the engine checks first (src/campanile/runtime/engine.py).         *)
(*                                                                         *)
(* A call of these is the row `todo` of the primitive calls it makes on    *)
(* one workflow, the target.  The first that raises ends the call; what    *)
(* those before it did to the caller's workflow stays.  A call that makes  *)
(* a new workflow works on a draft, which the caller sees once the call    *)
(* returns.                                                                *)
(***************************************************************************)
EXTENDS Parameters, WorkflowChecks, Sequences, SequencesExt

CONSTANTS
  Flows,         \* the workflows the program has, by name
  Nameable,      \* the strings a task or a parameter may be called
  Qualified,     \* <<workflow, task>> -> the task's name after a merge
  BuilderCalls,  \* calls of the builder the program may make,
  Declarations,  \* rows of declarations a registry may be given,
  Merges,        \* merges,
  Requests,      \* runs the engine may be asked for,
  MaxCalls       \* and how many calls there are in all

\* The workflows that calls make and nobody sees before they return
Draft == "a new workflow"
MergeDraft == "a merged workflow"
Drafts == {Draft, MergeDraft}
ASSUME DraftAssumption == Drafts \cap Flows = {}
ASSUME CallsAssumption == MaxCalls \in Nat /\ \A c \in BuilderCalls : c.on \in Flows
ASSUME MergesAssumption == \A m \in Merges : m.as \in Flows /\ m.sources \in Seq(Flows)
ASSUME RequestsAssumption == \A r \in Requests : r.on \in Flows

\* RESERVED_NAMES
Reserved == {"params", "results", "run", "task", "now", "self"}

\* A blank condition, a workflow without a limit, and no run yet
Blank == "blank condition"
NoLimit == -1
NoRun == [on |-> "no run"]

VARIABLES
  flows,     \* the workflows
  registry,  \* the registry's declarations, pools and parameters
  target,    \* the workflow the current call works on, or the last one did
  todo,      \* the primitive calls left of the current call
  outcome,   \* how the last call ended: "returned" or what it raised
  lastRun,   \* what the engine let through last
  calls      \* how many calls were made

vars == <<flows, registry, target, todo, outcome, lastRun, calls>>

Nothing == [x \in {} |-> x]
With(f, key, value) == [k \in DOMAIN f \cup {key} |-> IF k = key THEN value ELSE f[k]]

NewWorkflow ==
  [tasks |-> Nothing, edges |-> {}, pools |-> Nothing, params |-> Nothing, limit |-> NoLimit]
NewRegistry == [declarations |-> <<>>, pools |-> <<>>, params |-> <<>>]
-------------------------------------------------------------------------------
\* Primitive calls.  Problem is what one raises, Result the workflow it leaves.

BadName(name) == name \notin Nameable \ Reserved

\* Fault: an edge declared again with another condition is appended
ConnectsAnyway(f, e) ==
  IF BadName(e.up) \/ BadName(e.down) \/ e.up = e.down \/ e.condition = Blank
  THEN "WorkflowDefinitionError" ELSE "none"

\* Edge.__post_init__ and connect
ConnectProblem(f, e) ==
  IF \/ BadName(e.up) \/ BadName(e.down) \/ e.up = e.down \/ e.condition = Blank
     \/ \E x \in f.edges : x.up = e.up /\ x.down = e.down /\ x.condition # e.condition
  THEN "WorkflowDefinitionError" ELSE "none"

\* TaskSpec.__post_init__ and add_task
AddProblem(f, name, spec) ==
  IF BadName(name) THEN "WorkflowDefinitionError"
  ELSE IF \E p \in DOMAIN spec.resources : spec.resources[p] < 1 THEN "ConfigurationError"
  ELSE IF name \in DOMAIN f.tasks THEN "DuplicateTaskError"
  ELSE "none"

PoolProblem(f, name, capacity) ==
  IF name \in DOMAIN f.pools THEN "WorkflowDefinitionError"
  ELSE IF capacity < 1 THEN "ConfigurationError"
  ELSE "none"

\* Fault: the capacity of the later workflow wins
AdoptsLast(f, name, capacity) == "none"

\* merge on one pool of a source
AdoptProblem(f, name, capacity) ==
  IF name \in DOMAIN f.pools /\ f.pools[name] # capacity THEN "WorkflowDefinitionError"
  ELSE "none"

ParamProblem(f, name, spec) ==
  IF BadName(name) THEN "WorkflowDefinitionError"
  ELSE IF SpecIsWrong(spec) \/ name \in DOMAIN f.params THEN "ConfigurationError"
  ELSE "none"

\* Engine.run: assert_valid or check_references; then Scheduler.run binds
RunProblem(f, op) ==
  IF op.validated /\ (Errors(f) # {} \/ (op.strict /\ Warnings(f) # {})) THEN "ValidationError"
  ELSE IF ~ op.validated /\ StructureProblem(f) # "none" THEN StructureProblem(f)
  ELSE IF BindRaises(f.params, op.values) THEN "ParameterError"
  ELSE "none"

\* The registry refuses the name of a task it has
DeclarationProblem(d) ==
  IF d.call = "task" /\ \E x \in ToSet(registry.declarations) : x.name = d.name
  THEN "WorkflowDefinitionError" ELSE "none"

RegistryWith(d) ==
  CASE d.call = "task" -> [registry EXCEPT !.declarations = Append(@, d)]
    [] d.call = "pool" -> [registry EXCEPT !.pools = Append(@, d.op)]
    [] d.call = "param" -> [registry EXCEPT !.params = Append(@, d.op)]

Problem(f, op) ==
  CASE op.do = "connect" -> ConnectProblem(f, op)
    [] op.do = "add" -> AddProblem(f, op.name, op.spec)
    [] op.do = "pool" -> PoolProblem(f, op.name, op.capacity)
    [] op.do = "adopt" -> AdoptProblem(f, op.name, op.capacity)
    [] op.do = "param" -> ParamProblem(f, op.name, op.spec)
    [] op.do = "limit" -> IF op.limit = 0 THEN "WorkflowDefinitionError" ELSE "none"
    [] op.do = "check" -> StructureProblem(f)
    [] op.do = "cut" -> IF op.names \subseteq DOMAIN f.tasks THEN "none" ELSE "UnknownTaskError"
    [] op.do = "run" -> RunProblem(f, op)
    [] op.do = "declare" -> DeclarationProblem(op.declaration)
    [] op.do = "name nothing" -> "WorkflowDefinitionError"
    [] OTHER -> "none"

\* If nothing is raised
Result(f, op) ==
  CASE op.do = "connect" -> [f EXCEPT !.edges = @ \cup {Edge(op.up, op.down, op.condition)}]
    [] op.do = "add" -> [f EXCEPT !.tasks = With(@, op.name, op.spec)]
    [] op.do \in {"pool", "adopt"} -> [f EXCEPT !.pools = With(@, op.name, op.capacity)]
    [] op.do = "param" -> [f EXCEPT !.params = With(@, op.name, Declared(op.spec))]
    [] op.do = "limit" -> [f EXCEPT !.limit = op.limit]
    [] op.do = "new" -> NewWorkflow
    [] op.do = "cut" -> Subgraph(f, ExpandOnly(f, op.names))
    [] OTHER -> f

\* parallelism assigns the limit, and only then checks it
RaisingResult(f, op) == IF op.do = "limit" THEN [f EXCEPT !.limit = op.limit] ELSE f
-------------------------------------------------------------------------------
\* Calls, as the rows of primitive calls they make

Connect(up, down, condition) ==
  [do |-> "connect", up |-> up, down |-> down, condition |-> condition]
Row(names, Op(_)) == [i \in DOMAIN names |-> Op(names[i])]

\* Workflow.add: the task first, then its edges
AddOps(c) ==
  <<[do |-> "add", name |-> c.name, spec |-> c.spec]>>
  \o Row(c.after, LAMBDA u : Connect(u, c.name, c.condition))
  \o Row(c.before, LAMBDA d : Connect(c.name, d, NoCondition))

\* connect_many, behind every >>: each task on the left to each on the right
ConnectManyOps(c) ==
  IF c.sources = <<>> \/ c.targets = <<>> THEN <<[do |-> "name nothing"]>>
  ELSE FlattenSeq(Row(c.sources, LAMBDA s : Row(c.targets, LAMBDA t : Connect(s, t, c.condition))))

\* chain
ChainOps(c) ==
  [i \in 1 .. Len(c.names) - 1 |-> Connect(c.names[i], c.names[i + 1], NoCondition)]

OpsOf(c) ==
  CASE c.call = "task" -> AddOps(c)
    [] c.call = "connect_many" -> ConnectManyOps(c)
    [] c.call = "chain" -> ChainOps(c)
    [] c.call = "primitive" -> <<c.op>>

\* build_with: what `define` calls, and build
DefineOps(c) == FlattenSeq(Row(c.calls, OpsOf)) \o <<[do |-> "check"]>>

\* TaskRegistry.build
RegistryOps ==
  <<[do |-> "new"]>> \o registry.pools \o registry.params
  \o FlattenSeq(Row(registry.declarations, AddOps)) \o <<[do |-> "check"]>>

\* merge: the tasks, edges and pools of one source, its tasks renamed
NameIn(m, s, t) == IF m.prefix THEN Qualified[<<s, t>>] ELSE t

SourceOps(m, s) ==
  Row(SetToSeq(DOMAIN flows[s].tasks),
      LAMBDA t : [do |-> "add", name |-> NameIn(m, s, t), spec |-> flows[s].tasks[t]])
  \o Row(SetToSeq(flows[s].edges),
         LAMBDA e : Connect(NameIn(m, s, e.up), NameIn(m, s, e.down), e.condition))
  \o Row(SetToSeq(DOMAIN flows[s].pools),
         LAMBDA p : [do |-> "adopt", name |-> p, capacity |-> flows[s].pools[p]])

MergeOps(m) ==
  <<[do |-> "new"]>> \o FlattenSeq(Row(m.sources, LAMBDA s : SourceOps(m, s)))

RunOp(r, values) ==
  [do |-> "run", validated |-> r.validated, strict |-> r.strict, values |-> values]
-------------------------------------------------------------------------------
Init ==
  /\ flows = [n \in Flows \cup Drafts |-> NewWorkflow]
  /\ registry = NewRegistry
  /\ target = Draft
  /\ todo = <<>>
  /\ outcome = "none"
  /\ lastRun = NoRun
  /\ calls = 0

\* A call begins: its primitive calls on the workflow n
Begin(n, ops) ==
  /\ todo = <<>> /\ calls < MaxCalls
  /\ calls' = calls + 1
  /\ target' = n /\ todo' = ops
  /\ outcome' = IF ops = <<>> THEN "returned" ELSE "running"
  /\ UNCHANGED <<registry, lastRun>>

\* The draft becomes the workflow n; a merge also says of which workflows
Return(n, sources) == [do |-> "return", as |-> n, of |-> sources]

CallBuilder(c) ==
  c.call # "build_with" /\ Begin(c.on, OpsOf(c)) /\ UNCHANGED flows
BuildWith(c) ==
  c.call = "build_with" /\ Begin(c.on, DefineOps(c)) /\ UNCHANGED flows
BuildRegistry(n) ==
  Begin(Draft, Append(RegistryOps, Return(n, <<>>))) /\ UNCHANGED flows
Merge(m) ==
  Begin(MergeDraft, Append(MergeOps(m), Return(m.as, m.sources))) /\ UNCHANGED flows

\* Engine.run, or run_many with several sets of values
Run(r) == Begin(r.on, Row(r.sets, LAMBDA values : RunOp(r, values))) /\ UNCHANGED flows

\* cmd_run with --only, on a copy
RunOnly(r, names) ==
  /\ Begin(Draft, <<[do |-> "cut", names |-> names], RunOp(r, r.sets[1]), [do |-> "new"]>>)
  /\ flows' = [flows EXCEPT ![Draft] = flows[r.on]]

\* Calls of a registry, as importing a module makes them
Import(declarations) ==
  /\ Begin(Draft, Row(declarations, LAMBDA d : [do |-> "declare", declaration |-> d]))
  /\ UNCHANGED flows

\* The next primitive call of the current call
Perform ==
  /\ todo # <<>>
  /\ LET op == Head(todo)
     IN  /\ Problem(flows[target], op) = "none"
         /\ flows' = IF op.do = "return" THEN [flows EXCEPT ![op.as] = flows[target], ![target] = NewWorkflow]
                     ELSE [flows EXCEPT ![target] = Result(flows[target], op)]
         /\ registry' = IF op.do = "declare" THEN RegistryWith(op.declaration) ELSE registry
         /\ lastRun' = IF op.do # "run" THEN lastRun
                       ELSE [on |-> target, flow |-> flows[target], validated |-> op.validated,
                             params |-> Bind(flows[target].params, op.values)]
  /\ todo' = Tail(todo)
  /\ outcome' = IF Tail(todo) = <<>> THEN "returned" ELSE "running"
  /\ UNCHANGED <<target, calls>>

\* It raises, and the call with it
PerformRaises ==
  /\ todo # <<>>
  /\ LET op == Head(todo)
     IN  /\ Problem(flows[target], op) # "none"
         /\ flows' = [flows EXCEPT ![target] = IF target \in Drafts THEN NewWorkflow
                                               ELSE RaisingResult(flows[target], op)]
         /\ outcome' = Problem(flows[target], op)
  /\ todo' = <<>>
  /\ UNCHANGED <<registry, target, lastRun, calls>>

Next ==
  \/ \E c \in BuilderCalls : CallBuilder(c)
  \/ \E c \in BuilderCalls : BuildWith(c)
  \/ \E d \in Declarations : Import(d)
  \/ \E n \in Flows : BuildRegistry(n)
  \/ \E m \in Merges : Merge(m)
  \/ \E r \in Requests : Run(r)
  \/ \E r \in Requests : \E names \in SUBSET DOMAIN flows[r.on].tasks : RunOnly(r, names)
  \/ Perform
  \/ PerformRaises

Spec == Init /\ [][Next]_vars
-------------------------------------------------------------------------------
\* The workflow a run was started on
Started == lastRun # NoRun

\* Whatever calls came before, and however they ended, no two edges of a workflow join
\* the same pair of tasks, none joins a task with itself, and none has a blank
\* condition: dispatch caches outcomes by the pair (dispatch.py, condition cache), so
\* a second condition on a pair would never be evaluated.
EdgesAreUnique ==
  \A n \in DOMAIN flows : \A d \in flows[n].edges :
    /\ d.up # d.down /\ d.condition # Blank
    /\ \A e \in flows[n].edges : d.up = e.up /\ d.down = e.down => d = e

\* What the scheduler takes for granted when it starts: its edges join tasks, there is
\* an order of the tasks, every request fits its pool (a task that asks for more would
\* wait for ever), and, if the engine validates, conditions compile and read no result
\* that is not there yet.  This however the workflow was put together or cut, and
\* whichever of the two checks the engine made (Engine.run).
StartedIsSchedulable ==
  Started =>
    LET f == lastRun.flow
    IN  /\ \A e \in f.edges : Joined(f, e)
        /\ ~ Cyclic(f)
        /\ \A t \in DOMAIN f.tasks : \A p \in DOMAIN f.tasks[t].resources :
             p \in DOMAIN f.pools /\ f.tasks[t].resources[p] <= f.pools[p]
        /\ lastRun.validated =>
             \A e \in f.edges :
               e.condition # NoCondition =>
                 /\ Facts[e.condition].parses
                 /\ Facts[e.condition].reads.params \subseteq DOMAIN f.params
                 /\ Facts[e.condition].reads.results \subseteq AncestorsOf(f, e.down)

\* Running only some tasks of a valid workflow, and what they need, is running a valid
\* workflow, in which those tasks have the upstreams they had (_expand_only and
\* subgraph): no condition that was let through loses what it reads.
OnlyKeepsValidity ==
  \A n \in DOMAIN flows :
    Errors(flows[n]) = {} =>
      \A names \in (SUBSET DOMAIN flows[n].tasks) \ {{}} :
        LET part == Subgraph(flows[n], ExpandOnly(flows[n], names))
        IN  /\ Errors(part) = {}
            /\ \A t \in DOMAIN part.tasks : UpstreamsOf(part, t) = UpstreamsOf(flows[n], t)

\* A merge of workflows that pass the structural check passes it (merge adopts the
\* pools of the first workflow that has them): on the point of returning, the draft
\* serves every request its parts brought along.
MergesPass ==
  (target = MergeDraft /\ todo # <<>> /\ Head(todo).do = "return") =>
    ((\A s \in ToSet(Head(todo).of) : StructureProblem(flows[s]) = "none")
       => StructureProblem(flows[MergeDraft]) = "none")

\* What a run was given fits its declaration: every parameter that is not null is of
\* its type, among its choices, and would be accepted as it is, whether the caller
\* supplied it or it is the default (ParamSpec.__post_init__, ParamSchema.bind).
BoundFitsSchema ==
  Started =>
    \A name \in DOMAIN lastRun.flow.params :
      LET spec == lastRun.flow.params[name]
          value == lastRun.params[name]
      IN  IF value = None THEN ~ spec.required \/ spec.type = "any"
          ELSE Accepts(spec, value) /\ Coerce(spec.type, value) = value
===============================================================================
