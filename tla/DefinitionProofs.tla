--------------------------- MODULE DefinitionProofs ---------------------------
(***************************************************************************)
(* What holds of every workflow a program can put together with the        *)
(* builder, the registry, merge and --only, and of every run the engine    *)
(* lets through, whatever the calls, names, conditions and requests are.   *)
(***************************************************************************)
EXTENDS Definition, SharedLemmas, SequenceTheorems

\* A record with the fields of a workflow
IsWorkflow(f) ==
  f = [tasks |-> f.tasks, edges |-> f.edges, pools |-> f.pools, params |-> f.params,
       limit |-> f.limit]

HasUniqueEdges(f) ==
  \A d \in f.edges :
    /\ d = Edge(d.up, d.down, d.condition) /\ d.up # d.down /\ d.condition # Blank
    /\ \A e \in f.edges : d.up = e.up /\ d.down = e.down => d = e

\* The inductive invariant: the names keep standing for workflows, the drafts included
WorkflowsAreSound ==
  /\ target \in Flows \cup Drafts
  /\ flows = [n \in Flows \cup Drafts |-> flows[n]]
  /\ \A n \in Flows \cup Drafts : IsWorkflow(flows[n]) /\ HasUniqueEdges(flows[n])

\* A new workflow has no edges.
LEMMA NewIsSound == IsWorkflow(NewWorkflow) /\ HasUniqueEdges(NewWorkflow)
  BY DEF NewWorkflow, IsWorkflow, HasUniqueEdges

\* A limit changes nothing about edges, and neither does one that is refused.
LEMMA LimitIsSound ==
  ASSUME NEW f, NEW limit, IsWorkflow(f), HasUniqueEdges(f)
  PROVE  IsWorkflow([f EXCEPT !.limit = limit]) /\ HasUniqueEdges([f EXCEPT !.limit = limit])
  BY DEF IsWorkflow, HasUniqueEdges

\* A primitive call that raises nothing leaves a sound workflow sound (connect, add_task,
\* pool, param, subgraph and merge's own assignments of workflow.py).
LEMMA ResultIsSound ==
  ASSUME NEW f, NEW op, IsWorkflow(f), HasUniqueEdges(f), Problem(f, op) = "none"
  PROVE  IsWorkflow(Result(f, op)) /\ HasUniqueEdges(Result(f, op))
<1>1. CASE op.do = "connect"
  <2>. DEFINE new == Edge(op.up, op.down, op.condition)
  <2>1. Result(f, op) = [f EXCEPT !.edges = f.edges \cup {new}]
    BY <1>1 DEF Result
  <2>2. IsWorkflow(Result(f, op)) /\ Result(f, op).edges = f.edges \cup {new}
    BY <2>1 DEF IsWorkflow
  <2>3. ConnectProblem(f, op) = "none"
    BY <1>1 DEF Problem
  <2>4. /\ op.up # op.down /\ op.condition # Blank
        /\ \A x \in f.edges : x.up = op.up /\ x.down = op.down => x.condition = op.condition
    BY <2>3 DEF ConnectProblem
  <2>5. new = Edge(new.up, new.down, new.condition) /\ new.up # new.down /\ new.condition # Blank
    BY <2>4 DEF Edge
  <2>6. \A x \in f.edges : x.up = new.up /\ x.down = new.down => x = new
    BY <2>4 DEF Edge, HasUniqueEdges
  <2>. HIDE DEF new
  <2>. QED
    BY <2>2, <2>5, <2>6 DEF HasUniqueEdges
<1>2. CASE op.do = "add"
  BY <1>2 DEF Result, IsWorkflow, HasUniqueEdges
<1>3. CASE op.do \in {"pool", "adopt"}
  BY <1>3 DEF Result, IsWorkflow, HasUniqueEdges
<1>4. CASE op.do = "param"
  BY <1>4 DEF Result, IsWorkflow, HasUniqueEdges
<1>5. CASE op.do = "limit"
  BY <1>5, LimitIsSound DEF Result
<1>6. CASE op.do = "new"
  BY <1>6, NewIsSound DEF Result
<1>7. CASE op.do = "cut"
  BY <1>7 DEF Result, Subgraph, IsWorkflow, HasUniqueEdges
<1>8. CASE op.do \notin {"connect", "add", "pool", "adopt", "param", "limit", "new", "cut"}
  BY <1>8 DEF Result
<1>. QED
  BY <1>1, <1>2, <1>3, <1>4, <1>5, <1>6, <1>7, <1>8
-------------------------------------------------------------------------------
\* A call works on a workflow there is.
LEMMA TargetStep ==
  ASSUME target \in Flows \cup Drafts, [Next]_vars
  PROVE  target' \in Flows \cup Drafts
  BY CallsAssumption, RequestsAssumption
     DEF Next, vars, CallBuilder, BuildWith, Import, BuildRegistry, Merge, Run, RunOnly, Begin,
         Perform, PerformRaises, Drafts

\* Every step keeps the workflows sound: those of a call that raises, too.
LEMMA SoundStep == WorkflowsAreSound /\ [Next]_vars => WorkflowsAreSound'
<1>. SUFFICES ASSUME WorkflowsAreSound, [Next]_vars PROVE WorkflowsAreSound'
  OBVIOUS
<1>. USE DEF WorkflowsAreSound
<1>0. target' \in Flows \cup Drafts
  BY TargetStep
<1>1. CASE UNCHANGED flows
  BY <1>0, <1>1
<1>2. ASSUME NEW r \in Requests, NEW names, RunOnly(r, names) PROVE WorkflowsAreSound'
  BY <1>0, <1>2, RequestsAssumption DEF RunOnly
<1>3. CASE Perform
  <2>. DEFINE n == target
              op == Head(todo)
  <2>1. Problem(flows[n], op) = "none"
    BY <1>3 DEF Perform
  <2>2. CASE op.do = "return"
    <3>1. flows' = [flows EXCEPT ![op.as] = flows[target], ![target] = NewWorkflow]
      BY <1>3, <2>2 DEF Perform
    <3>. QED
      BY <1>0, <3>1, NewIsSound
  <2>3. CASE op.do # "return"
    <3>1. flows' = [flows EXCEPT ![n] = Result(flows[n], op)]
      BY <1>3, <2>3 DEF Perform
    <3>2. n \in Flows \cup Drafts =>
            IsWorkflow(Result(flows[n], op)) /\ HasUniqueEdges(Result(flows[n], op))
      BY <2>1, ResultIsSound
    <3>. QED
      BY <1>0, <3>1, <3>2
  <2>. QED
    BY <2>2, <2>3
<1>4. CASE PerformRaises
  <2>. DEFINE n == target
              op == Head(todo)
              left == IF n \in Drafts THEN NewWorkflow ELSE RaisingResult(flows[n], op)
  <2>1. flows' = [flows EXCEPT ![n] = left]
    BY <1>4 DEF PerformRaises
  <2>2. n \in Flows \cup Drafts => IsWorkflow(left) /\ HasUniqueEdges(left)
    <3>1. CASE n \in Drafts
      BY <3>1, NewIsSound
    <3>2. CASE n \notin Drafts /\ op.do = "limit"
      <4>1. left = [flows[n] EXCEPT !.limit = op.limit]
        BY <3>2 DEF RaisingResult
      <4>2. n \in Flows \cup Drafts =>
              /\ IsWorkflow([flows[n] EXCEPT !.limit = op.limit])
              /\ HasUniqueEdges([flows[n] EXCEPT !.limit = op.limit])
        BY LimitIsSound
      <4>. QED
        BY <4>1, <4>2
    <3>3. CASE n \notin Drafts /\ op.do # "limit"
      BY <3>3 DEF RaisingResult
    <3>. QED
      BY <3>1, <3>2, <3>3
  <2>. HIDE DEF left
  <2>. QED
    BY <1>0, <2>1, <2>2
<1>. QED
  BY <1>1, <1>2, <1>3, <1>4
     DEF Next, vars, CallBuilder, BuildWith, Import, BuildRegistry, Merge, Run

\* However a workflow was put together, no two edges join the same pair of tasks, and
\* none joins a task with itself (Workflow.connect, subgraph, merge).
THEOREM EdgesStayUnique == Spec => []EdgesAreUnique
<1>1. Init => WorkflowsAreSound
  BY NewIsSound DEF Init, WorkflowsAreSound, Drafts
<1>2. WorkflowsAreSound => EdgesAreUnique
  BY DEF WorkflowsAreSound, EdgesAreUnique, HasUniqueEdges
<1>. QED
  BY <1>1, <1>2, SoundStep, PTL DEF Spec

\* What the engine lets through, the scheduler can run: the structural check and the
\* validator each rule out dangling edges, cycles and requests no pool can serve, and
\* the validator rules out conditions that do not compile or read what is not there yet
\* (Engine.run, check_references, assert_valid).
LEMMA ChecksSuffice ==
  ASSUME NEW f, StructureErrors(f) = {}
  PROVE  /\ \A e \in f.edges : Joined(f, e)
         /\ ~ Cyclic(f)
         /\ Unserved(f) = {}
<1>1. \A e \in f.edges : e.up \in DOMAIN f.tasks /\ e.down \in DOMAIN f.tasks
  BY DEF StructureErrors
<1>2. ~ Cyclic(f)
  BY DEF StructureErrors
<1>3. Unserved(f) = {}
  BY DEF StructureErrors
<1>. QED
  BY <1>1, <1>2, <1>3 DEF Joined

\* No request is left out of the pairs _check_resources goes through.
LEMMA ServedRequestsFit ==
  ASSUME NEW f, Unserved(f) = {}
  PROVE  \A t \in DOMAIN f.tasks : \A p \in DOMAIN f.tasks[t].resources :
           p \in DOMAIN f.pools /\ f.tasks[t].resources[p] <= f.pools[p]
<1>. SUFFICES ASSUME NEW t \in DOMAIN f.tasks, NEW p \in DOMAIN f.tasks[t].resources
              PROVE  CanServe(f, p, f.tasks[t].resources[p])
  BY DEF CanServe
<1>1. <<t, p>> \in UNION {{s} \X DOMAIN f.tasks[s].resources : s \in DOMAIN f.tasks}
  OBVIOUS
<1>. QED
  BY <1>1 DEF Unserved

\* The structural check and the validator, two pieces of code, agree on the structure
\* of every workflow there is (check_references; _check_edges, _check_resources and
\* _check_cycles): build() and an engine that does not validate reject what
\* validate() reports, and nothing else.
THEOREM ChecksAgree ==
  ASSUME NEW f
  PROVE  StructureProblem(f) = "none" <=> StructureErrors(f) = {}
<1>1. StructureErrors(f) = {} => StructureProblem(f) = "none"
  BY ChecksSuffice DEF StructureProblem
<1>2. ASSUME StructureProblem(f) = "none" PROVE StructureErrors(f) = {}
  <2>1. /\ \A e \in f.edges : e.up \in DOMAIN f.tasks /\ e.down \in DOMAIN f.tasks
        /\ Unserved(f) = {} /\ ~ Cyclic(f)
    BY <1>2 DEF StructureProblem, Joined
  <2>. QED
    BY <2>1 DEF StructureErrors
<1>. QED
  BY <1>1, <1>2

\* A condition the validator accepts compiles, and reads what is declared and what the
\* ancestors of its edge's downstream return.
LEMMA AcceptedConditionReads ==
  ASSUME NEW f, NEW e \in f.edges, Errors(f) = {}, Joined(f, e), e.condition # NoCondition
  PROVE  /\ Facts[e.condition].parses
         /\ Facts[e.condition].reads.variables \subseteq ConditionVariables
         /\ Facts[e.condition].reads.functions \subseteq Builtins
         /\ Facts[e.condition].reads.params \subseteq DOMAIN f.params
         /\ Facts[e.condition].reads.results \subseteq AncestorsOf(f, e.down)
<1>. DEFINE reads == Facts[e.condition].reads
<1>1. ErrorsOfEdge(f, e) = {}
  BY DEF Errors
<1>2. Facts[e.condition].parses
  BY <1>1 DEF ErrorsOfEdge
<1>3. ConditionIssues(reads, DOMAIN f.tasks, AncestorsOf(f, e.down), DOMAIN f.params, FALSE) = {}
  BY <1>1, <1>2 DEF ErrorsOfEdge, Joined
<1>. QED
  BY <1>2, <1>3 DEF ConditionIssues

\* Every run the engine starts, validated or only checked, is on a workflow the scheduler
\* can run, however that workflow was put together (Engine.run).
THEOREM StartedRunsAreSchedulable == Spec => []StartedIsSchedulable
<1>1. Init => StartedIsSchedulable
  BY DEF Init, StartedIsSchedulable, Started
<1>2. StartedIsSchedulable /\ [Next]_vars => StartedIsSchedulable'
  <2>. SUFFICES ASSUME StartedIsSchedulable, [Next]_vars PROVE StartedIsSchedulable'
    OBVIOUS
  <2>1. CASE UNCHANGED lastRun
    BY <2>1 DEF StartedIsSchedulable, Started
  <2>2. CASE Perform /\ Head(todo).do = "run"
    <3>. DEFINE f == flows[target]
                op == Head(todo)
    <3>1. /\ lastRun'.flow = f /\ lastRun'.validated = op.validated
          /\ RunProblem(f, op) = "none"
      BY <2>2 DEF Perform, Problem
    <3>2. op.validated => Errors(f) = {}
      BY <3>1 DEF RunProblem
    <3>3. StructureErrors(f) = {}
      BY <3>1, <3>2, ChecksAgree DEF RunProblem, Errors
    <3>4. \A e \in f.edges : Joined(f, e)
      BY <3>3, ChecksSuffice
    <3>5. op.validated =>
            \A e \in f.edges :
              e.condition # NoCondition =>
                /\ Facts[e.condition].parses
                /\ Facts[e.condition].reads.params \subseteq DOMAIN f.params
                /\ Facts[e.condition].reads.results \subseteq AncestorsOf(f, e.down)
      BY <3>2, <3>4, AcceptedConditionReads
    <3>6. ~ Cyclic(f) /\ Unserved(f) = {}
      BY <3>3, ChecksSuffice
    <3>7. \A t \in DOMAIN f.tasks : \A p \in DOMAIN f.tasks[t].resources :
            p \in DOMAIN f.pools /\ f.tasks[t].resources[p] <= f.pools[p]
      BY <3>6, ServedRequestsFit
    <3>. HIDE DEF f, op
    <3>. QED
      BY <3>1, <3>4, <3>5, <3>6, <3>7 DEF StartedIsSchedulable
  <2>3. CASE Perform /\ Head(todo).do # "run"
    BY <2>1, <2>3 DEF Perform
  <2>. QED
    BY <2>1, <2>2, <2>3 DEF Next, vars, CallBuilder, BuildWith, Import, BuildRegistry, Merge,
                            Run, RunOnly, Begin, PerformRaises
<1>. QED
  BY <1>1, <1>2, PTL DEF Spec
-------------------------------------------------------------------------------
\* What a task needs contains its upstreams and what they need (ancestors).
LEMMA AncestorsAreClosed ==
  ASSUME NEW f, NEW t
  PROVE  /\ AncestorsOf(f, t) \subseteq DOMAIN f.tasks
         /\ UpstreamsOf(f, t) \subseteq AncestorsOf(f, t)
         /\ Closed(f, AncestorsOf(f, t))
<1>1. AncestorsOf(f, t) \subseteq DOMAIN f.tasks
  BY DEF AncestorsOf
<1>2. UpstreamsOf(f, t) \subseteq AncestorsOf(f, t)
  BY DEF AncestorsOf, UpstreamsOf
<1>3. ASSUME NEW a \in AncestorsOf(f, t), NEW u \in UpstreamsOf(f, a)
      PROVE  u \in AncestorsOf(f, t)
  <2>1. u \in DOMAIN f.tasks
    BY DEF UpstreamsOf
  <2>2. ASSUME NEW S \in SUBSET DOMAIN f.tasks, UpstreamsOf(f, t) \subseteq S, Closed(f, S)
        PROVE  u \in S
    <3>1. a \in S
      BY <2>2 DEF AncestorsOf
    <3>. QED
      BY <3>1, <2>2 DEF Closed
  <2>. QED
    BY <2>1, <2>2 DEF AncestorsOf
<1>. QED
  BY <1>1, <1>2, <1>3 DEF Closed

\* What --only keeps is closed (_expand_only).
LEMMA ExpandedIsClosed ==
  ASSUME NEW f, NEW names \in SUBSET DOMAIN f.tasks
  PROVE  /\ ExpandOnly(f, names) \subseteq DOMAIN f.tasks
         /\ Closed(f, ExpandOnly(f, names))
<1>1. ExpandOnly(f, names) \subseteq DOMAIN f.tasks
  BY AncestorsAreClosed DEF ExpandOnly
<1>2. ASSUME NEW s \in ExpandOnly(f, names), NEW u \in UpstreamsOf(f, s)
      PROVE  u \in ExpandOnly(f, names)
  <2>1. CASE s \in names
    BY <2>1, AncestorsAreClosed DEF ExpandOnly
  <2>2. CASE s \notin names
    <3>1. PICK t \in names : s \in AncestorsOf(f, t)
      BY <2>2 DEF ExpandOnly
    <3>2. u \in AncestorsOf(f, t)
      BY <3>1, AncestorsAreClosed DEF Closed
    <3>. QED
      BY <3>2 DEF ExpandOnly
  <2>. QED
    BY <2>1, <2>2
<1>. QED
  BY <1>1, <1>2 DEF Closed

\* A closed part of a workflow: its fields, its graph, and what its tasks need.
LEMMA PartKeepsGraph ==
  ASSUME NEW f, IsWorkflow(f), NEW keep \in SUBSET DOMAIN f.tasks, Closed(f, keep)
  PROVE  LET part == Subgraph(f, keep)
         IN  /\ DOMAIN part.tasks = keep
             /\ \A t \in keep : part.tasks[t] = f.tasks[t]
             /\ part.edges = {e \in f.edges : e.up \in keep /\ e.down \in keep}
             /\ part.pools = f.pools /\ part.params = f.params
             /\ \A t \in keep : UpstreamsOf(part, t) = UpstreamsOf(f, t)
             /\ \A t \in keep : AncestorsOf(f, t) \subseteq AncestorsOf(part, t)
<1>. DEFINE part == Subgraph(f, keep)
<1>1. /\ DOMAIN part.tasks = keep /\ \A t \in keep : part.tasks[t] = f.tasks[t]
      /\ part.edges = {e \in f.edges : e.up \in keep /\ e.down \in keep}
      /\ part.pools = f.pools /\ part.params = f.params
  BY DEF Subgraph, IsWorkflow
<1>. HIDE DEF part
<1>2. ASSUME NEW t \in keep PROVE UpstreamsOf(part, t) = UpstreamsOf(f, t)
  BY <1>1 DEF UpstreamsOf, Closed
<1>3. ASSUME NEW t \in keep, NEW a \in AncestorsOf(f, t) PROVE a \in AncestorsOf(part, t)
  <2>1. a \in keep
    BY <1>3 DEF AncestorsOf, Closed
  <2>2. ASSUME NEW S \in SUBSET keep, UpstreamsOf(part, t) \subseteq S, Closed(part, S)
        PROVE  a \in S
    <3>1. S \in SUBSET DOMAIN f.tasks /\ UpstreamsOf(f, t) \subseteq S
      BY <1>2, <2>2
    <3>2. Closed(f, S)
      BY <1>2, <2>2 DEF Closed
    <3>. QED
      BY <1>3, <3>1, <3>2 DEF AncestorsOf
  <2>. QED
    BY <1>1, <2>1, <2>2 DEF AncestorsOf
<1>. QED
  BY <1>1, <1>2, <1>3 DEF part

\* A closed part of a valid workflow that is not empty is valid.
LEMMA PartIsValid ==
  ASSUME NEW f, IsWorkflow(f), Errors(f) = {},
         NEW keep \in SUBSET DOMAIN f.tasks, keep # {}, Closed(f, keep)
  PROVE  Errors(Subgraph(f, keep)) = {}
<1>. DEFINE part == Subgraph(f, keep)
<1>1. /\ DOMAIN part.tasks = keep /\ \A t \in keep : part.tasks[t] = f.tasks[t]
      /\ part.edges = {e \in f.edges : e.up \in keep /\ e.down \in keep}
      /\ part.pools = f.pools /\ part.params = f.params
      /\ \A t \in keep : UpstreamsOf(part, t) = UpstreamsOf(f, t)
      /\ \A t \in keep : AncestorsOf(f, t) \subseteq AncestorsOf(part, t)
  BY PartKeepsGraph
<1>. HIDE DEF part
<1>2. /\ ~ Cyclic(f) /\ Unserved(f) = {}
      /\ \A e \in f.edges : Joined(f, e)
  BY ChecksSuffice DEF Errors
<1>3. ~ Cyclic(part)
  <2>. SUFFICES ASSUME NEW S \in SUBSET keep, S # {},
                       \A t \in S : UpstreamsOf(part, t) \cap S # {}
                PROVE  FALSE
    BY <1>1 DEF Cyclic
  <2>1. S \in SUBSET DOMAIN f.tasks /\ \A t \in S : UpstreamsOf(f, t) \cap S # {}
    BY <1>1
  <2>. QED
    BY <1>2, <2>1 DEF Cyclic
<1>4. Unserved(part) = {}
  <2>. SUFFICES ASSUME NEW t \in keep, NEW p \in DOMAIN f.tasks[t].resources
                PROVE  CanServe(part, p, f.tasks[t].resources[p])
    BY <1>1 DEF Unserved
  <2>1. p \in DOMAIN f.pools /\ f.tasks[t].resources[p] <= f.pools[p]
    BY <1>2, ServedRequestsFit
  <2>. QED
    BY <1>1, <2>1 DEF CanServe
<1>5. \A e \in part.edges : Joined(part, e)
  BY <1>1 DEF Joined
<1>6. StructureProblem(part) = "none"
  BY <1>3, <1>4, <1>5 DEF StructureProblem
<1>7. StructureErrors(part) = {}
  BY <1>6, ChecksAgree
<1>8. ASSUME NEW e \in part.edges PROVE ErrorsOfEdge(part, e) = {}
  <2>1. CASE e.condition = NoCondition
    BY <2>1 DEF ErrorsOfEdge
  <2>2. CASE e.condition # NoCondition
    <3>. DEFINE reads == Facts[e.condition].reads
    <3>1. e \in f.edges /\ e.down \in keep /\ Joined(f, e)
      BY <1>1, <1>2
    <3>2. /\ Facts[e.condition].parses
          /\ reads.variables \subseteq ConditionVariables
          /\ reads.functions \subseteq Builtins
          /\ reads.params \subseteq DOMAIN part.params
          /\ reads.results \subseteq AncestorsOf(part, e.down)
      BY <1>1, <2>2, <3>1, AcceptedConditionReads
    <3>3. reads.results \subseteq DOMAIN part.tasks
      BY <3>2, AncestorsAreClosed
    <3>4. ConditionIssues(reads, DOMAIN part.tasks, AncestorsOf(part, e.down),
                          DOMAIN part.params, FALSE) = {}
      BY <3>2, <3>3 DEF ConditionIssues
    <3>. QED
      BY <1>1, <2>2, <3>1, <3>2, <3>4 DEF ErrorsOfEdge
  <2>. QED
    BY <2>1, <2>2
<1>. QED
  BY <1>1, <1>7, <1>8 DEF Errors, part

\* --only makes of a valid workflow a valid one in which every task keeps its upstreams.
THEOREM OnlyAlwaysKeepsValidity == Spec => []OnlyKeepsValidity
<1>1. WorkflowsAreSound => OnlyKeepsValidity
  <2>. SUFFICES ASSUME WorkflowsAreSound, NEW n \in DOMAIN flows, Errors(flows[n]) = {},
                       NEW names \in SUBSET DOMAIN flows[n].tasks, names # {}
                PROVE  LET part == Subgraph(flows[n], ExpandOnly(flows[n], names))
                       IN  /\ Errors(part) = {}
                           /\ \A t \in DOMAIN part.tasks :
                                UpstreamsOf(part, t) = UpstreamsOf(flows[n], t)
    BY DEF OnlyKeepsValidity
  <2>. DEFINE f == flows[n]
              keep == ExpandOnly(f, names)
  <2>1. IsWorkflow(f)
    BY DEF WorkflowsAreSound
  <2>2. keep \in SUBSET DOMAIN f.tasks /\ Closed(f, keep) /\ keep # {}
    <3>1. keep \subseteq DOMAIN f.tasks /\ Closed(f, keep)
      BY ExpandedIsClosed
    <3>2. names \subseteq keep
      BY DEF ExpandOnly
    <3>. QED
      BY <3>1, <3>2
  <2>. HIDE DEF f, keep
  <2>3. Errors(f) = {}
    BY DEF f
  <2>4. Errors(Subgraph(f, keep)) = {}
    BY <2>1, <2>2, <2>3, PartIsValid
  <2>5. \A t \in DOMAIN Subgraph(f, keep).tasks :
          UpstreamsOf(Subgraph(f, keep), t) = UpstreamsOf(f, t)
    BY <2>1, <2>2, PartKeepsGraph
  <2>. QED
    BY <2>4, <2>5 DEF f, keep
<1>2. Init => WorkflowsAreSound
  BY NewIsSound DEF Init, WorkflowsAreSound, Drafts
<1>. QED
  BY <1>1, <1>2, SoundStep, PTL DEF Spec

-------------------------------------------------------------------------------
\* What a value is coerced to is of the type, and coercing it again changes nothing
\* (ParamSpec.coerce).
LEMMA CoercedIsCoerced ==
  ASSUME NEW type, NEW v, Coercible(type, v)
  PROVE  /\ Coercible(type, Coerce(type, v))
         /\ Coerce(type, Coerce(type, v)) = Coerce(type, v)
<1>1. CASE type = "boolean" /\ Is("text", v)
  <2>1. Coerce(type, v) = [boolean |-> v.text \in TrueWords]
    BY <1>1 DEF Coerce
  <2>2. Is("boolean", Coerce(type, v)) /\ ~ Is("text", Coerce(type, v))
    BY <2>1 DEF Is
  <2>. QED
    BY <1>1, <2>2 DEF Coerce, Coercible
<1>2. CASE type = "integer" /\ ~ Is("integer", v)
  <2>1. Coerce(type, v) = [integer |-> Halves(v) \div 2]
    BY <1>2 DEF Coerce
  <2>2. Is("integer", Coerce(type, v))
    BY <2>1 DEF Is
  <2>. QED
    BY <1>2, <2>2 DEF Coerce, Coercible
<1>3. CASE type = "number" /\ ~ Is("float", v)
  <2>1. Coerce(type, v) = [float |-> Halves(v)]
    BY <1>3 DEF Coerce
  <2>2. Is("float", Coerce(type, v))
    BY <2>1 DEF Is
  <2>. QED
    BY <1>3, <2>2 DEF Coerce, Coercible, IsNumeric
<1>4. CASE /\ ~ (type = "boolean" /\ Is("text", v)) /\ ~ (type = "integer" /\ ~ Is("integer", v))
           /\ ~ (type = "number" /\ ~ Is("float", v))
  <2>1. Coerce(type, v) = v
    BY <1>4 DEF Coerce
  <2>. QED
    BY <2>1
<1>. QED
  BY <1>1, <1>2, <1>3, <1>4

\* Of all types, only "any" takes None, and none makes it of something else
LEMMA NoneIsAny ==
  ASSUME NEW type, NEW v, Coercible(type, v), Coerce(type, v) = None
  PROVE  type = "any"
<1>1. DOMAIN Coerce(type, v) = {"none"}
  BY DEF None
<1>2. /\ ~ Is("text", Coerce(type, v)) /\ ~ Is("boolean", Coerce(type, v))
      /\ ~ Is("integer", Coerce(type, v)) /\ ~ Is("float", Coerce(type, v))
  BY <1>1 DEF Is
<1>3. Coercible(type, Coerce(type, v))
  BY CoercedIsCoerced
<1>. QED
  BY <1>2, <1>3 DEF Coercible, IsNumeric, None, Is

\* A default is not required, and is what bind would accept and leave as it is
SoundParam(spec) ==
  spec.default # None =>
    ~ spec.required /\ Accepts(spec, spec.default) /\ Coerce(spec.type, spec.default) = spec.default

\* What __post_init__ lets through is sound once it has coerced default and choices.
LEMMA DeclaredIsSound ==
  ASSUME NEW spec, ~ SpecIsWrong(spec)
  PROVE  SoundParam(Declared(spec))
<1>. DEFINE d == Declared(spec)
            choices == {Coerce(spec.type, c) : c \in spec.choices}
<1>1. /\ d.type = spec.type /\ d.required = spec.required /\ d.choices = choices
      /\ d.default = IF spec.default = None THEN None ELSE Coerce(spec.type, spec.default)
  BY DEF Declared
<1>2. CASE spec.default = None
  BY <1>1, <1>2 DEF SoundParam
<1>3. CASE spec.default # None
  <2>1. /\ ~ spec.required /\ Coercible(spec.type, spec.default)
        /\ spec.choices # {} => Among(Coerce(spec.type, spec.default), choices)
    BY <1>3 DEF SpecIsWrong
  <2>2. /\ Coercible(spec.type, d.default) /\ Coerce(spec.type, d.default) = d.default
        /\ d.default = Coerce(spec.type, spec.default)
    BY <1>1, <1>3, <2>1, CoercedIsCoerced
  <2>3. d.choices # {} => spec.choices # {}
    BY <1>1
  <2>4. Accepts(d, d.default)
    BY <1>1, <2>1, <2>2, <2>3 DEF Accepts
  <2>. HIDE DEF d
  <2>. QED
    BY <1>1, <2>1, <2>2, <2>4 DEF SoundParam, d
<1>. QED
  BY <1>2, <1>3

\* What bind hands over fits: the caller's values because bind validates and coerces
\* them, the defaults because they were when they were declared.
LEMMA BoundFits ==
  ASSUME NEW schema, NEW values, ~ BindRaises(schema, values), NEW name \in DOMAIN schema,
         SoundParam(schema[name])
  PROVE  LET spec == schema[name]
             value == Bind(schema, values)[name]
         IN  IF value = None THEN ~ spec.required \/ spec.type = "any"
             ELSE Accepts(spec, value) /\ Coerce(spec.type, value) = value
<1>. DEFINE spec == schema[name]
            value == Bind(schema, values)[name]
<1>1. CASE name \in DOMAIN values
  <2>1. value = Coerce(spec.type, values[name]) /\ Accepts(spec, values[name])
    BY <1>1 DEF Bind, BindRaises
  <2>2. Coercible(spec.type, values[name])
    BY <2>1 DEF Accepts
  <2>3. Coercible(spec.type, value) /\ Coerce(spec.type, value) = value
    BY <2>1, <2>2, CoercedIsCoerced
  <2>4. Accepts(spec, value)
    BY <2>1, <2>3 DEF Accepts
  <2>5. value = None => spec.type = "any"
    BY <2>1, <2>2, NoneIsAny
  <2>. QED
    BY <2>3, <2>4, <2>5
<1>2. CASE name \notin DOMAIN values
  <2>1. value = spec.default /\ ~ spec.required
    BY <1>2 DEF Bind, BindRaises
  <2>. QED
    BY <2>1 DEF SoundParam
<1>. QED
  BY <1>1, <1>2

\* Every parameter of every workflow is sound
ParamsAreSound ==
  \A n \in Flows \cup Drafts : \A name \in DOMAIN flows[n].params :
    SoundParam(flows[n].params[name])

\* No primitive call that raises nothing leaves another parameter (param, subgraph).
LEMMA ResultKeepsParams ==
  ASSUME NEW f, NEW op, IsWorkflow(f), Problem(f, op) = "none",
         \A name \in DOMAIN f.params : SoundParam(f.params[name])
  PROVE  \A name \in DOMAIN Result(f, op).params : SoundParam(Result(f, op).params[name])
<1>1. CASE op.do = "param"
  <2>1. ~ SpecIsWrong(op.spec)
    BY <1>1 DEF Problem, ParamProblem
  <2>2. Result(f, op).params = With(f.params, op.name, Declared(op.spec))
    BY <1>1 DEF Result, IsWorkflow
  <2>3. SoundParam(Declared(op.spec))
    BY <2>1, DeclaredIsSound
  <2>. QED
    BY <2>2, <2>3 DEF With
<1>2. CASE op.do = "new"
  BY <1>2 DEF Result, NewWorkflow, Nothing
<1>3. CASE op.do \notin {"param", "new"}
  <2>1. Result(f, op).params = f.params
    BY <1>3 DEF Result, Subgraph, IsWorkflow
  <2>. QED
    BY <2>1
<1>. QED
  BY <1>1, <1>2, <1>3

\* Every step keeps the parameters sound: those of a call that raises, too.
LEMMA ParamsStep == WorkflowsAreSound /\ ParamsAreSound /\ [Next]_vars => ParamsAreSound'
<1>. SUFFICES ASSUME WorkflowsAreSound, ParamsAreSound, [Next]_vars PROVE ParamsAreSound'
  OBVIOUS
<1>1. /\ flows = [n \in Flows \cup Drafts |-> flows[n]]
      /\ \A n \in Flows \cup Drafts : IsWorkflow(flows[n])
      /\ target \in Flows \cup Drafts
      /\ \A n \in Flows \cup Drafts : \A name \in DOMAIN flows[n].params :
           SoundParam(flows[n].params[name])
  BY DEF WorkflowsAreSound, ParamsAreSound
<1>2. CASE UNCHANGED flows
  BY <1>1, <1>2 DEF ParamsAreSound
<1>3. ASSUME NEW r \in Requests, NEW names, RunOnly(r, names)
      PROVE  ParamsAreSound'
  BY <1>1, <1>3, RequestsAssumption DEF RunOnly, Begin, ParamsAreSound
<1>4. \A name \in DOMAIN NewWorkflow.params : SoundParam(NewWorkflow.params[name])
  BY DEF NewWorkflow, Nothing
<1>5. CASE Perform
  <2>. DEFINE op == Head(todo)
  <2>1. Problem(flows[target], op) = "none" /\ target' = target
    BY <1>5 DEF Perform
  <2>2. CASE op.do = "return"
    <3>1. flows' = [flows EXCEPT ![op.as] = flows[target], ![target] = NewWorkflow]
      BY <1>5, <2>2 DEF Perform
    <3>2. \A n \in Flows \cup Drafts : flows'[n] \in {flows[n], flows[target], NewWorkflow}
      BY <1>1, <3>1
    <3>. QED
      BY <1>1, <1>4, <2>1, <3>2 DEF ParamsAreSound
  <2>3. CASE op.do # "return"
    <3>1. flows' = [flows EXCEPT ![target] = Result(flows[target], op)]
      BY <1>5, <2>3 DEF Perform
    <3>2. \A name \in DOMAIN Result(flows[target], op).params :
            SoundParam(Result(flows[target], op).params[name])
      BY <1>1, <2>1, ResultKeepsParams
    <3>3. \A n \in Flows \cup Drafts :
            flows'[n] = IF n = target THEN Result(flows[target], op) ELSE flows[n]
      BY <1>1, <3>1
    <3>. QED
      BY <1>1, <2>1, <3>2, <3>3 DEF ParamsAreSound
  <2>. QED
    BY <2>2, <2>3
<1>6. CASE PerformRaises
  <2>. DEFINE left == IF target \in Drafts THEN NewWorkflow ELSE RaisingResult(flows[target], Head(todo))
  <2>1. flows' = [flows EXCEPT ![target] = left] /\ target' = target
    BY <1>6 DEF PerformRaises
  <2>2. left.params \in {NewWorkflow.params, flows[target].params}
    BY <1>1 DEF RaisingResult, IsWorkflow
  <2>. HIDE DEF left
  <2>3. \A n \in Flows \cup Drafts : flows'[n] = IF n = target THEN left ELSE flows[n]
    BY <1>1, <2>1
  <2>. QED
    BY <1>1, <1>4, <2>1, <2>2, <2>3 DEF ParamsAreSound
<1>. QED
  BY <1>2, <1>3, <1>5, <1>6
     DEF Next, vars, CallBuilder, BuildWith, Import, BuildRegistry, Merge, Run

\* Whatever a run was given fits the declarations of its workflow, supplied or default,
\* however the workflow was put together (ParamSchema.bind, ParamSpec.__post_init__).
THEOREM BoundAlwaysFits == Spec => []BoundFitsSchema
<1>1. Init => WorkflowsAreSound /\ ParamsAreSound /\ BoundFitsSchema
  <2>. SUFFICES ASSUME Init PROVE WorkflowsAreSound /\ ParamsAreSound /\ BoundFitsSchema
    OBVIOUS
  <2>1. WorkflowsAreSound
    BY NewIsSound DEF Init, WorkflowsAreSound, Drafts
  <2>2. ParamsAreSound
    BY DEF Init, ParamsAreSound, NewWorkflow, Nothing
  <2>3. BoundFitsSchema
    BY DEF Init, BoundFitsSchema, Started
  <2>. QED
    BY <2>1, <2>2, <2>3
<1>2. WorkflowsAreSound /\ ParamsAreSound /\ BoundFitsSchema /\ [Next]_vars => BoundFitsSchema'
  <2>. SUFFICES ASSUME WorkflowsAreSound, ParamsAreSound, BoundFitsSchema, [Next]_vars
                PROVE  BoundFitsSchema'
    OBVIOUS
  <2>1. CASE UNCHANGED lastRun
    BY <2>1 DEF BoundFitsSchema, Started
  <2>2. CASE Perform /\ Head(todo).do = "run"
    <3>. DEFINE f == flows[target]
                op == Head(todo)
    <3>1. /\ lastRun'.flow = f /\ lastRun'.params = Bind(f.params, op.values)
          /\ RunProblem(f, op) = "none"
      BY <2>2 DEF Perform, Problem
    <3>2. ~ BindRaises(f.params, op.values)
      BY <3>1 DEF RunProblem
    <3>3. \A name \in DOMAIN f.params : SoundParam(f.params[name])
      BY DEF WorkflowsAreSound, ParamsAreSound
    <3>. HIDE DEF f, op
    <3>. SUFFICES ASSUME NEW name \in DOMAIN f.params
                  PROVE  LET spec == f.params[name]
                             value == Bind(f.params, op.values)[name]
                         IN  IF value = None THEN ~ spec.required \/ spec.type = "any"
                             ELSE Accepts(spec, value) /\ Coerce(spec.type, value) = value
      BY <3>1 DEF BoundFitsSchema
    <3>. QED
      BY <3>2, <3>3, BoundFits
  <2>3. CASE Perform /\ Head(todo).do # "run"
    BY <2>1, <2>3 DEF Perform
  <2>. QED
    BY <2>1, <2>2, <2>3 DEF Next, vars, CallBuilder, BuildWith, Import, BuildRegistry, Merge,
                            Run, RunOnly, Begin, PerformRaises
<1>. QED
  BY <1>1, <1>2, SoundStep, ParamsStep, PTL DEF Spec

-------------------------------------------------------------------------------
(* Rows of primitive calls: where the elements of a flattened row come from  *)

FlattenedTo(ss, l, g) ==
  g = [i \in 1 .. l |-> IF i = 1 THEN ss[i] ELSE g[i - 1] \o ss[i]]

LEMMA FlattenExists ==
  ASSUME NEW ss
  PROVE  \A l \in Nat : \E g : FlattenedTo(ss, l, g)
<1> DEFINE S == {l \in Nat : \E g : FlattenedTo(ss, l, g)}
<1>1. 0 \in S
  <2>1. FlattenedTo(ss, 0, [i \in 1 .. 0 |-> <<>>])
    BY DEF FlattenedTo
  <2>2. QED
    BY <2>1
<1>2. ASSUME NEW l \in Nat, l \in S PROVE l + 1 \in S
  <2>1. PICK g : FlattenedTo(ss, l, g)
    BY <1>2
  <2> DEFINE next == IF l = 0 THEN ss[1] ELSE g[l] \o ss[l + 1]
             h == [i \in 1 .. (l + 1) |-> IF i = l + 1 THEN next ELSE g[i]]
  <2>2. ASSUME NEW i \in 1 .. (l + 1)
        PROVE  h[i] = IF i = 1 THEN ss[i] ELSE h[i - 1] \o ss[i]
    <3>1. CASE i = l + 1 /\ l = 0
      BY <3>1
    <3>2. CASE i = l + 1 /\ l # 0
      <4>1. next = g[l] \o ss[i] /\ i # 1
        <5>1. next = g[l] \o ss[l + 1]
          BY <3>2, Zenon
        <5>2. ss[i] = ss[l + 1] /\ i # 1
          BY <3>2
        <5>3. QED
          BY <5>1, <5>2, Zenon
      <4>2. h[i] = next
        BY <3>2
      <4>3. h[i - 1] = g[l]
        <5>1. i - 1 = l /\ l \in 1 .. (l + 1) /\ l # l + 1
          BY <3>2
        <5>2. QED
          BY <5>1
      <4> HIDE DEF h
      <4>4. QED
        BY <4>1, <4>2, <4>3
    <3>3. CASE i # l + 1
      <4>1. i \in 1 .. l /\ h[i] = g[i] /\ (i # 1 => i - 1 \in 1 .. l /\ h[i - 1] = g[i - 1])
        BY <3>3
      <4>2. g[i] = IF i = 1 THEN ss[i] ELSE g[i - 1] \o ss[i]
        BY <2>1, <4>1 DEF FlattenedTo
      <4>3. QED
        BY <4>1, <4>2
    <3>4. QED
      BY <3>1, <3>2, <3>3
  <2> HIDE DEF next
  <2>3. FlattenedTo(ss, l + 1, h)
    BY <2>2 DEF FlattenedTo
  <2>4. QED
    BY <2>3
<1>3. Nat \subseteq S
  <2> HIDE DEF S
  <2> QED BY <1>1, <1>2, CountingUp
<1>4. QED
  BY <1>3

\* from says of each element of w at which place of which row of ss it stands, and
\* every place of the first l rows is one it names
Stems(ss, l, w, from) ==
  /\ DOMAIN from = 1 .. Len(w)
  /\ \A k \in 1 .. Len(w) :
       \E i \in 1 .. l : \E j \in 1 .. Len(ss[i]) : from[k] = <<i, j>> /\ w[k] = ss[i][j]
  /\ \A i \in 1 .. l : \A j \in 1 .. Len(ss[i]) : \E k \in 1 .. Len(w) : from[k] = <<i, j>>

LEMMA FlattenStems ==
  ASSUME NEW Elt, NEW ss \in Seq(Seq(Elt))
  PROVE  /\ FlattenSeq(ss) \in Seq(Elt)
         /\ \E from : Stems(ss, Len(ss), FlattenSeq(ss), from)
<1>0. /\ Len(ss) \in Nat
      /\ \A i \in 1 .. Len(ss) : ss[i] \in Seq(Elt) /\ Len(ss[i]) \in Nat
  OBVIOUS
<1>1. CASE Len(ss) = 0
  <2>1. ss = <<>>
    BY <1>1, EmptySeq
  <2>2. FlattenSeq(ss) = <<>>
    BY <2>1 DEF FlattenSeq
  <2>3. Stems(ss, 0, <<>>, <<>>)
    BY DEF Stems
  <2>4. <<>> \in Seq(Elt)
    OBVIOUS
  <2>5. QED
    BY <1>1, <2>2, <2>3, <2>4
<1>2. CASE Len(ss) # 0
  <2> DEFINE n == Len(ss)
             G == CHOOSE g : FlattenedTo(ss, n, g)
  <2>1. FlattenedTo(ss, n, G)
    BY <1>0, FlattenExists
  <2>2. FlattenSeq(ss) = G[n]
    BY <1>2 DEF FlattenSeq, FlattenedTo
  <2> HIDE DEF G
  <2> DEFINE S == {l \in Nat : l + 1 <= n =>
                     G[l + 1] \in Seq(Elt) /\ \E from : Stems(ss, l + 1, G[l + 1], from)}
  <2>3. 1 \in 1 .. n
    BY <1>0, <1>2
  <2>4. 0 \in S
    <3>1. G[1] = ss[1]
      BY <2>1, <2>3 DEF FlattenedTo
    <3>2. PICK from : from = [k \in 1 .. Len(ss[1]) |-> <<1, k>>]
      OBVIOUS
    <3>3. Stems(ss, 1, ss[1], from)
      <4>1. DOMAIN from = 1 .. Len(ss[1]) /\ \A k \in 1 .. Len(ss[1]) : from[k] = <<1, k>>
        BY <3>2
      <4>2. 1 .. 1 = {1}
        OBVIOUS
      <4>3. QED
        BY <4>1, <4>2 DEF Stems
    <3>4. ss[1] \in Seq(Elt)
      BY <1>0, <2>3
    <3>5. QED
      BY <3>1, <3>3, <3>4
  <2>5. ASSUME NEW l \in Nat, l \in S PROVE l + 1 \in S
    <3>1. SUFFICES ASSUME l + 2 <= n
                   PROVE  G[l + 2] \in Seq(Elt) /\ \E from : Stems(ss, l + 2, G[l + 2], from)
      OBVIOUS
    <3>2. l + 2 \in 1 .. n /\ l + 1 \in 1 .. n /\ l + 2 # 1 /\ (l + 2) - 1 = l + 1
      BY <1>0, <3>1
    <3>3. G[l + 2] = G[l + 1] \o ss[l + 2]
      BY <2>1, <3>2 DEF FlattenedTo
    <3>4. G[l + 1] \in Seq(Elt)
      BY <2>5, <3>2
    <3>5. PICK old : Stems(ss, l + 1, G[l + 1], old)
      BY <2>5, <3>2
    <3>6. PICK v, w : v = G[l + 1] /\ w = ss[l + 2]
      OBVIOUS
    <3>7. /\ v \in Seq(Elt) /\ w \in Seq(Elt) /\ Len(v) \in Nat /\ Len(w) \in Nat
          /\ Len(v \o w) = Len(v) + Len(w) /\ v \o w \in Seq(Elt)
          /\ \A k \in 1 .. Len(v) : (v \o w)[k] = v[k]
          /\ \A k \in 1 .. Len(w) : (v \o w)[Len(v) + k] = w[k]
      <4>1. \A a, b \in Seq(Elt) :
              /\ Len(a) \in Nat /\ Len(b) \in Nat
              /\ Len(a \o b) = Len(a) + Len(b) /\ a \o b \in Seq(Elt)
              /\ \A k \in 1 .. Len(a) : (a \o b)[k] = a[k]
              /\ \A k \in 1 .. Len(b) : (a \o b)[Len(a) + k] = b[k]
        OBVIOUS
      <4>2. v \in Seq(Elt) /\ w \in Seq(Elt)
        BY <1>0, <3>2, <3>4, <3>6
      <4>3. QED
        BY <4>1, <4>2
    <3>8. PICK from : from = [k \in 1 .. Len(v) + Len(w) |->
                                IF k <= Len(v) THEN old[k] ELSE <<l + 2, k - Len(v)>>]
      OBVIOUS
    <3>9. ASSUME NEW k \in 1 .. Len(v) + Len(w)
          PROVE  \E i \in 1 .. l + 2 : \E j \in 1 .. Len(ss[i]) :
                   from[k] = <<i, j>> /\ (v \o w)[k] = ss[i][j]
      <4>1. CASE k <= Len(v)
        <5>1. k \in 1 .. Len(v) /\ from[k] = old[k] /\ (v \o w)[k] = v[k]
          BY <3>7, <3>8, <4>1
        <5>2. PICK i \in 1 .. l + 1 : \E j \in 1 .. Len(ss[i]) : old[k] = <<i, j>> /\ v[k] = ss[i][j]
          BY <3>5, <3>6, <5>1 DEF Stems
        <5>3. i \in 1 .. l + 2
          OBVIOUS
        <5>4. QED
          BY <5>1, <5>2, <5>3
      <4>2. CASE ~ (k <= Len(v))
        <5>1. PICK j : j = k - Len(v)
          OBVIOUS
        <5>2. j \in 1 .. Len(w) /\ k = Len(v) + j /\ l + 2 \in 1 .. l + 2
          BY <3>7, <4>2, <5>1
        <5>3. from[k] = <<l + 2, j>> /\ (v \o w)[k] = w[j]
          BY <3>7, <3>8, <4>2, <5>1, <5>2
        <5>4. QED
          BY <3>6, <5>2, <5>3
      <4>3. QED
        BY <4>1, <4>2
    <3>10. ASSUME NEW i \in 1 .. l + 2, NEW j \in 1 .. Len(ss[i])
           PROVE  \E k \in 1 .. Len(v) + Len(w) : from[k] = <<i, j>>
      <4>1. CASE i = l + 2
        <5>1. j \in 1 .. Len(w)
          BY <3>6, <4>1
        <5>2. Len(v) + j \in 1 .. Len(v) + Len(w) /\ ~ (Len(v) + j <= Len(v)) /\ (Len(v) + j) - Len(v) = j
          BY <3>7, <5>1
        <5>3. from[Len(v) + j] = <<l + 2, j>>
          BY <3>8, <5>2
        <5>4. QED
          BY <4>1, <5>2, <5>3
      <4>2. CASE i # l + 2
        <5>1. i \in 1 .. l + 1
          BY <4>2
        <5>2. PICK k \in 1 .. Len(v) : old[k] = <<i, j>>
          BY <3>5, <3>6, <5>1 DEF Stems
        <5>3. k \in 1 .. Len(v) + Len(w) /\ k <= Len(v)
          BY <3>7
        <5>4. from[k] = <<i, j>>
          BY <3>8, <5>2, <5>3
        <5>5. QED
          BY <5>3, <5>4
      <4>3. QED
        BY <4>1, <4>2
    <3>11. Stems(ss, l + 2, v \o w, from)
      BY <3>7, <3>8, <3>9, <3>10 DEF Stems
    <3>12. QED
      BY <3>3, <3>6, <3>7, <3>11
  <2>6. n - 1 \in S
    <3>1. Nat \subseteq S
      <4> HIDE DEF S
      <4> QED BY <2>4, <2>5, CountingUp
    <3>2. n - 1 \in Nat
      BY <1>0, <1>2
    <3>3. QED
      BY <3>1, <3>2
  <2>7. (n - 1) + 1 = n /\ n <= n
    BY <1>0
  <2>8. G[n] \in Seq(Elt) /\ \E from : Stems(ss, n, G[n], from)
    BY <2>6, <2>7
  <2>9. QED
    BY <2>2, <2>8
<1>3. QED
  BY <1>1, <1>2

\* SetToSeq lists every element of a finite set
LEMMA SetToSeqFacts ==
  ASSUME NEW S, IsFiniteSet(S)
  PROVE  /\ SetToSeq(S) \in Seq(S)
         /\ \A x \in S : \E j \in 1 .. Len(SetToSeq(S)) : SetToSeq(S)[j] = x
<1> DEFINE n == Cardinality(S)
           Fits(f) == f \in [1 .. n -> S] /\ IsInjective(f)
<1>1. n \in Nat /\ ExistsBijection(1 .. n, S)
  BY FS_CardinalityType
<1>2. PICK b : b \in Bijection(1 .. n, S)
  BY <1>1 DEF ExistsBijection
<1>3. Fits(b)
  BY <1>2 DEF Bijection, Injection, IsInjective
<1>4. PICK q : q = SetToSeq(S)
  OBVIOUS
<1>5. Fits(q)
  <2>1. q = CHOOSE f : Fits(f)
    BY <1>4 DEF SetToSeq
  <2> HIDE DEF Fits
  <2>2. QED
    BY <1>3, <2>1
<1>6. q \in Injection(1 .. n, S)
  BY <1>5 DEF Injection, IsInjective
<1>7. IsFiniteSet(1 .. n) /\ Cardinality(1 .. n) = n
  BY <1>1, FS_Interval
<1>8. q \in Surjection(1 .. n, S)
  BY <1>6, <1>7, FS_Injection
<1>9. q \in Seq(S) /\ Len(q) = n
  BY <1>1, <1>5, SeqDef
<1>10. QED
  BY <1>4, <1>8, <1>9 DEF Surjection

\* from lists the elements of S, in the order in which w calls op for them
Lists(w, from, S, op) ==
  /\ DOMAIN from = 1 .. Len(w)
  /\ \A k \in 1 .. Len(w) : from[k] \in S /\ w[k] = op[from[k]]
  /\ \A e \in S : \E k \in 1 .. Len(w) : from[k] = e

Listed(w, Elt, S, op) == w \in Seq(Elt) /\ \E from : Lists(w, from, S, op)

LEMMA ListsJoin ==
  ASSUME NEW Elt, NEW a \in Seq(Elt), NEW b \in Seq(Elt), NEW S, NEW T, NEW op,
         NEW fa, NEW fb, Lists(a, fa, S, op), Lists(b, fb, T, op)
  PROVE  a \o b \in Seq(Elt) /\ \E from : Lists(a \o b, from, S \cup T, op)
<1>1. /\ Len(a) \in Nat /\ Len(b) \in Nat
      /\ Len(a \o b) = Len(a) + Len(b) /\ a \o b \in Seq(Elt)
      /\ \A k \in 1 .. Len(a) : (a \o b)[k] = a[k]
      /\ \A k \in 1 .. Len(b) : (a \o b)[Len(a) + k] = b[k]
  <2>1. Len(a) \in Nat /\ Len(b) \in Nat /\ Len(a \o b) = Len(a) + Len(b) /\ a \o b \in Seq(Elt)
    OBVIOUS
  <2>2. \A k \in 1 .. Len(a) : (a \o b)[k] = a[k]
    OBVIOUS
  <2>3. \A k \in 1 .. Len(b) : (a \o b)[Len(a) + k] = b[k]
    <3>1. \A x, y \in Seq(Elt) : \A i \in Len(x) + 1 .. Len(x) + Len(y) : (x \o y)[i] = y[i - Len(x)]
      OBVIOUS
    <3>2. SUFFICES ASSUME NEW k \in 1 .. Len(b) PROVE (a \o b)[Len(a) + k] = b[k]
      OBVIOUS
    <3>3. PICK i : i = Len(a) + k
      OBVIOUS
    <3>4. i \in Len(a) + 1 .. Len(a) + Len(b) /\ i - Len(a) = k
      BY <2>1, <3>3
    <3>5. (a \o b)[i] = b[i - Len(a)]
      BY <3>1, <3>4
    <3>6. QED
      BY <3>3, <3>4, <3>5
  <2>4. QED
    BY <2>1, <2>2, <2>3
<1>2. PICK from : from = [k \in 1 .. Len(a) + Len(b) |->
                            IF k <= Len(a) THEN fa[k] ELSE fb[k - Len(a)]]
  OBVIOUS
<1>3. \A k \in 1 .. Len(a) : k \in 1 .. Len(a) + Len(b) /\ from[k] = fa[k]
  BY <1>1, <1>2
<1>4. \A k \in 1 .. Len(b) : Len(a) + k \in 1 .. Len(a) + Len(b) /\ from[Len(a) + k] = fb[k]
  <2>1. SUFFICES ASSUME NEW k \in 1 .. Len(b)
                 PROVE  Len(a) + k \in 1 .. Len(a) + Len(b) /\ from[Len(a) + k] = fb[k]
    OBVIOUS
  <2>2. Len(a) + k \in 1 .. Len(a) + Len(b) /\ ~ (Len(a) + k <= Len(a)) /\ (Len(a) + k) - Len(a) = k
    BY <1>1
  <2>3. QED
    BY <1>2, <2>2
<1>5. ASSUME NEW k \in 1 .. Len(a) + Len(b)
      PROVE  from[k] \in S \cup T /\ (a \o b)[k] = op[from[k]]
  <2>1. CASE k <= Len(a)
    <3>1. k \in 1 .. Len(a)
      BY <1>1, <2>1
    <3>2. QED
      BY <1>1, <1>3, <3>1 DEF Lists
  <2>2. CASE ~ (k <= Len(a))
    <3>1. PICK j : j = k - Len(a)
      OBVIOUS
    <3>2. j \in 1 .. Len(b) /\ k = Len(a) + j
      BY <1>1, <2>2, <3>1
    <3>3. from[k] = fb[j] /\ (a \o b)[k] = b[j]
      BY <1>1, <1>4, <3>2
    <3>4. QED
      BY <3>2, <3>3 DEF Lists
  <2>3. QED
    BY <2>1, <2>2
<1>6. ASSUME NEW e \in S \cup T
      PROVE  \E k \in 1 .. Len(a) + Len(b) : from[k] = e
  <2>1. CASE e \in S
    BY <1>3, <2>1 DEF Lists
  <2>2. CASE e \in T
    BY <1>4, <2>2 DEF Lists
  <2>3. QED
    BY <2>1, <2>2
<1>7. Lists(a \o b, from, S \cup T, op)
  BY <1>1, <1>2, <1>5, <1>6 DEF Lists
<1>8. QED
  BY <1>1, <1>7

\* A row of rows is listed by what lists its rows
LEMMA ListsFlatten ==
  ASSUME NEW Elt, NEW ss \in Seq(Seq(Elt)), NEW op, NEW sets,
         \A i \in 1 .. Len(ss) : \E from : Lists(ss[i], from, sets[i], op)
  PROVE  /\ FlattenSeq(ss) \in Seq(Elt)
         /\ \E from : Lists(FlattenSeq(ss), from, UNION {sets[i] : i \in 1 .. Len(ss)}, op)
<1>1. PICK w : w = FlattenSeq(ss)
  OBVIOUS
<1>2. w \in Seq(Elt) /\ \E from : Stems(ss, Len(ss), w, from)
  BY <1>1, FlattenStems
<1>3. PICK stem : Stems(ss, Len(ss), w, stem)
  BY <1>2
<1>4. PICK inner : inner = [i \in 1 .. Len(ss) |-> CHOOSE from : Lists(ss[i], from, sets[i], op)]
  OBVIOUS
<1>5. \A i \in 1 .. Len(ss) : Lists(ss[i], inner[i], sets[i], op)
  BY <1>4
<1>6. PICK from : from = [k \in 1 .. Len(w) |-> inner[stem[k][1]][stem[k][2]]]
  OBVIOUS
<1>7. ASSUME NEW k \in 1 .. Len(w)
      PROVE  /\ from[k] \in UNION {sets[i] : i \in 1 .. Len(ss)}
             /\ w[k] = op[from[k]]
  <2>1. PICK i \in 1 .. Len(ss) : \E j \in 1 .. Len(ss[i]) : stem[k] = <<i, j>> /\ w[k] = ss[i][j]
    BY <1>3 DEF Stems
  <2>2. PICK j \in 1 .. Len(ss[i]) : stem[k] = <<i, j>> /\ w[k] = ss[i][j]
    BY <2>1
  <2>3. from[k] = inner[i][j]
    BY <1>6, <2>2
  <2>4. inner[i][j] \in sets[i] /\ ss[i][j] = op[inner[i][j]]
    BY <1>5 DEF Lists
  <2>5. QED
    BY <2>2, <2>3, <2>4
<1>8. ASSUME NEW i \in 1 .. Len(ss), NEW e \in sets[i]
      PROVE  \E k \in 1 .. Len(w) : from[k] = e
  <2>1. PICK j \in 1 .. Len(ss[i]) : inner[i][j] = e
    BY <1>5 DEF Lists
  <2>2. PICK k \in 1 .. Len(w) : stem[k] = <<i, j>>
    BY <1>3 DEF Stems
  <2>3. from[k] = e
    BY <1>6, <2>1, <2>2
  <2>4. QED
    BY <2>3
<1>9. Lists(w, from, UNION {sets[i] : i \in 1 .. Len(ss)}, op)
  <2>1. DOMAIN from = 1 .. Len(w)
    BY <1>6
  <2>2. PICK U : U = UNION {sets[i] : i \in 1 .. Len(ss)}
    OBVIOUS
  <2>3. \A e \in U : \E k \in 1 .. Len(w) : from[k] = e
    BY <1>8, <2>2
  <2>4. \A k \in 1 .. Len(w) : from[k] \in U /\ w[k] = op[from[k]]
    BY <1>7, <2>2
  <2>5. QED
    BY <2>1, <2>2, <2>3, <2>4 DEF Lists
<1>10. QED
  BY <1>1, <1>2, <1>9
-------------------------------------------------------------------------------
(* A merge.  Its entries are what the workflows it is made of consist of     *)

Entry(i, kind, what) == [of |-> i, kind |-> kind, what |-> what]

EntriesLike(i, kind, D) == {Entry(i, kind, x) : x \in D}

EntriesOf(parts, i) ==
  EntriesLike(i, "task", DOMAIN parts[i].tasks)
  \cup EntriesLike(i, "edge", parts[i].edges)
  \cup EntriesLike(i, "pool", DOMAIN parts[i].pools)

Entries(parts) == UNION {EntriesOf(parts, i) : i \in DOMAIN parts}

\* The workflows m is made of, and the primitive call merge makes for an entry
PartsOf(m) == [i \in DOMAIN m.sources |-> flows[m.sources[i]]]

NameFor(m, i, t) == NameIn(m, m.sources[i], t)

OpFor(m, parts, d) ==
  CASE d.kind = "task" ->
         [do |-> "add", name |-> NameFor(m, d.of, d.what), spec |-> parts[d.of].tasks[d.what]]
    [] d.kind = "edge" ->
         Connect(NameFor(m, d.of, d.what.up), NameFor(m, d.of, d.what.down), d.what.condition)
    [] d.kind = "pool" ->
         [do |-> "adopt", name |-> d.what, capacity |-> parts[d.of].pools[d.what]]

OpsFor(m, parts) == [d \in Entries(parts) |-> OpFor(m, parts, d)]

\* All that a workflow is made of is finite
IsFiniteFlow(f) ==
  IsFiniteSet(DOMAIN f.tasks) /\ IsFiniteSet(f.edges) /\ IsFiniteSet(DOMAIN f.pools)

\* A function on 1 .. n is a sequence of length n
LEMMA RowIsSeq ==
  ASSUME NEW S, NEW n \in Nat, NEW f \in [1 .. n -> S]
  PROVE  f \in Seq(S) /\ Len(f) = n
<1>1. f \in Seq(S)
  BY SeqDef
<1>2. DOMAIN f = 1 .. Len(f) /\ Len(f) \in Nat /\ DOMAIN f = 1 .. n
  BY <1>1
<1>3. QED
  BY <1>1, <1>2

\* The calls for the elements of D, in the order of a row of them, list their entries
LEMMA KindLists ==
  ASSUME NEW Elt, NEW i, NEW kind, NEW D, IsFiniteSet(D), NEW op,
         \A x \in D : op[Entry(i, kind, x)] \in Elt,
         NEW q, q = SetToSeq(D), NEW w, w = [j \in DOMAIN q |-> op[Entry(i, kind, q[j])]]
  PROVE  Listed(w, Elt, EntriesLike(i, kind, D), op)
<1>2. q \in Seq(D) /\ \A x \in D : \E j \in 1 .. Len(q) : q[j] = x
  BY SetToSeqFacts
<1>3. Len(q) \in Nat /\ DOMAIN q = 1 .. Len(q) /\ \A j \in 1 .. Len(q) : q[j] \in D
  BY <1>2
<1>4. w = [j \in 1 .. Len(q) |-> op[Entry(i, kind, q[j])]]
  BY <1>3
<1>5. w \in [1 .. Len(q) -> Elt]
  BY <1>3, <1>4
<1>6. w \in Seq(Elt) /\ Len(w) = Len(q)
  BY <1>3, <1>5, RowIsSeq
<1>7. PICK from : from = [j \in 1 .. Len(q) |-> Entry(i, kind, q[j])]
  OBVIOUS
<1>8. PICK T : T = EntriesLike(i, kind, D)
  OBVIOUS
<1>9. Lists(w, from, T, op)
  <2>1. DOMAIN from = 1 .. Len(w)
    BY <1>6, <1>7
  <2>2. \A k \in 1 .. Len(w) : from[k] \in T /\ w[k] = op[from[k]]
    BY <1>3, <1>4, <1>6, <1>7, <1>8 DEF EntriesLike
  <2>3. \A e \in T : \E k \in 1 .. Len(w) : from[k] = e
    BY <1>2, <1>6, <1>7, <1>8 DEF EntriesLike
  <2>4. QED
    BY <2>1, <2>2, <2>3 DEF Lists
<1>10. QED
  BY <1>6, <1>8, <1>9 DEF Listed

\* What merge does for an entry
EntriesMade(m, parts, i) ==
  /\ \A t \in DOMAIN parts[i].tasks :
       /\ Entry(i, "task", t) \in EntriesOf(parts, i)
       /\ OpFor(m, parts, Entry(i, "task", t))
            = [do |-> "add", name |-> NameFor(m, i, t), spec |-> parts[i].tasks[t]]
  /\ \A e \in parts[i].edges :
       /\ Entry(i, "edge", e) \in EntriesOf(parts, i)
       /\ OpFor(m, parts, Entry(i, "edge", e))
            = Connect(NameFor(m, i, e.up), NameFor(m, i, e.down), e.condition)
  /\ \A p \in DOMAIN parts[i].pools :
       /\ Entry(i, "pool", p) \in EntriesOf(parts, i)
       /\ OpFor(m, parts, Entry(i, "pool", p))
            = [do |-> "adopt", name |-> p, capacity |-> parts[i].pools[p]]

LEMMA EntryFacts ==
  ASSUME NEW m, NEW parts, NEW i \in DOMAIN parts
  PROVE  EntriesMade(m, parts, i)
<1>1. ASSUME NEW t \in DOMAIN parts[i].tasks
      PROVE  /\ Entry(i, "task", t) \in EntriesOf(parts, i)
             /\ OpFor(m, parts, Entry(i, "task", t))
                  = [do |-> "add", name |-> NameFor(m, i, t), spec |-> parts[i].tasks[t]]
  <2>1. Entry(i, "task", t) \in EntriesOf(parts, i)
    BY DEF EntriesOf, EntriesLike
  <2>2. QED
    BY <2>1 DEF OpFor, Entry
<1>2. ASSUME NEW e \in parts[i].edges
      PROVE  /\ Entry(i, "edge", e) \in EntriesOf(parts, i)
             /\ OpFor(m, parts, Entry(i, "edge", e))
                  = Connect(NameFor(m, i, e.up), NameFor(m, i, e.down), e.condition)
  <2>1. Entry(i, "edge", e) \in EntriesOf(parts, i)
    BY DEF EntriesOf, EntriesLike
  <2>2. QED
    BY <2>1 DEF OpFor, Entry
<1>3. ASSUME NEW p \in DOMAIN parts[i].pools
      PROVE  /\ Entry(i, "pool", p) \in EntriesOf(parts, i)
             /\ OpFor(m, parts, Entry(i, "pool", p))
                  = [do |-> "adopt", name |-> p, capacity |-> parts[i].pools[p]]
  <2>1. Entry(i, "pool", p) \in EntriesOf(parts, i)
    BY DEF EntriesOf, EntriesLike
  <2>2. QED
    BY <2>1 DEF OpFor, Entry
<1>4. QED
  BY <1>1, <1>2, <1>3 DEF EntriesMade

LEMMA SourceLists ==
  ASSUME NEW m, NEW parts, parts = PartsOf(m), NEW i \in DOMAIN parts, IsFiniteFlow(parts[i]),
         NEW Elt, \A d \in Entries(parts) : OpFor(m, parts, d) \in Elt
  PROVE  /\ SourceOps(m, m.sources[i]) \in Seq(Elt)
         /\ \E from : Lists(SourceOps(m, m.sources[i]), from, EntriesOf(parts, i), OpsFor(m, parts))
<1>1. PICK s, op : s = m.sources[i] /\ op = OpsFor(m, parts)
  OBVIOUS
<1>2. flows[s] = parts[i] /\ \A t : NameFor(m, i, t) = NameIn(m, s, t)
  BY <1>1 DEF PartsOf, NameFor
<1> DEFINE a == Row(SetToSeq(DOMAIN flows[s].tasks),
                    LAMBDA t : [do |-> "add", name |-> NameIn(m, s, t), spec |-> flows[s].tasks[t]])
           b == Row(SetToSeq(flows[s].edges),
                    LAMBDA e : Connect(NameIn(m, s, e.up), NameIn(m, s, e.down), e.condition))
           c == Row(SetToSeq(DOMAIN flows[s].pools),
                    LAMBDA p : [do |-> "adopt", name |-> p, capacity |-> flows[s].pools[p]])
           A == EntriesLike(i, "task", DOMAIN parts[i].tasks)
           B == EntriesLike(i, "edge", parts[i].edges)
           C == EntriesLike(i, "pool", DOMAIN parts[i].pools)
<1>3. SourceOps(m, s) = (a \o b) \o c
  BY DEF SourceOps
<1>4. EntriesOf(parts, i) = (A \cup B) \cup C
  BY DEF EntriesOf
<1> HIDE DEF A, B, C
<1>5. \A d \in EntriesOf(parts, i) : op[d] = OpFor(m, parts, d) /\ op[d] \in Elt
  BY <1>1 DEF Entries, OpsFor
<1>55. EntriesMade(m, parts, i)
  BY EntryFacts
<1> USE DEF A, B, C
<1>6. Listed(a, Elt, A, op)
  <2>1. \A x \in DOMAIN parts[i].tasks : op[Entry(i, "task", x)] = [do |-> "add", name |-> NameFor(m, i, x), spec |-> parts[i].tasks[x]]
    BY <1>5, <1>55 DEF EntriesMade
  <2>2. \A x \in DOMAIN parts[i].tasks : op[Entry(i, "task", x)] \in Elt
    BY <1>5, <1>55 DEF EntriesMade
  <2>3. IsFiniteSet(DOMAIN parts[i].tasks)
    BY DEF IsFiniteFlow
  <2>4. PICK q : q = SetToSeq(DOMAIN parts[i].tasks)
    OBVIOUS
  <2>5. \A j \in DOMAIN q : q[j] \in DOMAIN parts[i].tasks
    BY <2>3, <2>4, SetToSeqFacts
  <2>6. PICK w : w = a
    OBVIOUS
  <2>7. w = [j \in DOMAIN q |-> [do |-> "add", name |-> NameFor(m, i, q[j]), spec |-> parts[i].tasks[q[j]]]]
    BY <1>1, <1>2, <2>4, <2>6 DEF Row
  <2>8. w = [j \in DOMAIN q |-> op[Entry(i, "task", q[j])]]
    BY <2>1, <2>5, <2>7
  <2>9. Listed(w, Elt, A, op)
    BY <2>2, <2>3, <2>4, <2>8, KindLists
  <2> HIDE DEF a
  <2>10. QED
    BY <2>6, <2>9
<1>7. Listed(b, Elt, B, op)
  <2>1. \A x \in parts[i].edges : op[Entry(i, "edge", x)] = Connect(NameFor(m, i, x.up), NameFor(m, i, x.down), x.condition)
    BY <1>5, <1>55 DEF EntriesMade
  <2>2. \A x \in parts[i].edges : op[Entry(i, "edge", x)] \in Elt
    BY <1>5, <1>55 DEF EntriesMade
  <2>3. IsFiniteSet(parts[i].edges)
    BY DEF IsFiniteFlow
  <2>4. PICK q : q = SetToSeq(parts[i].edges)
    OBVIOUS
  <2>5. \A j \in DOMAIN q : q[j] \in parts[i].edges
    BY <2>3, <2>4, SetToSeqFacts
  <2>6. PICK w : w = b
    OBVIOUS
  <2>7. w = [j \in DOMAIN q |-> Connect(NameFor(m, i, q[j].up), NameFor(m, i, q[j].down), q[j].condition)]
    BY <1>1, <1>2, <2>4, <2>6 DEF Row
  <2>8. w = [j \in DOMAIN q |-> op[Entry(i, "edge", q[j])]]
    BY <2>1, <2>5, <2>7
  <2>9. Listed(w, Elt, B, op)
    BY <2>2, <2>3, <2>4, <2>8, KindLists
  <2> HIDE DEF b
  <2>10. QED
    BY <2>6, <2>9
<1>8. Listed(c, Elt, C, op)
  <2>1. \A x \in DOMAIN parts[i].pools : op[Entry(i, "pool", x)] = [do |-> "adopt", name |-> x, capacity |-> parts[i].pools[x]]
    BY <1>5, <1>55 DEF EntriesMade
  <2>2. \A x \in DOMAIN parts[i].pools : op[Entry(i, "pool", x)] \in Elt
    BY <1>5, <1>55 DEF EntriesMade
  <2>3. IsFiniteSet(DOMAIN parts[i].pools)
    BY DEF IsFiniteFlow
  <2>4. PICK q : q = SetToSeq(DOMAIN parts[i].pools)
    OBVIOUS
  <2>5. \A j \in DOMAIN q : q[j] \in DOMAIN parts[i].pools
    BY <2>3, <2>4, SetToSeqFacts
  <2>6. PICK w : w = c
    OBVIOUS
  <2>7. w = [j \in DOMAIN q |-> [do |-> "adopt", name |-> q[j], capacity |-> parts[i].pools[q[j]]]]
    BY <1>1, <1>2, <2>4, <2>6 DEF Row
  <2>8. w = [j \in DOMAIN q |-> op[Entry(i, "pool", q[j])]]
    BY <2>1, <2>5, <2>7
  <2>9. Listed(w, Elt, C, op)
    BY <2>2, <2>3, <2>4, <2>8, KindLists
  <2> HIDE DEF c
  <2>10. QED
    BY <2>6, <2>9
<1> HIDE DEF a, b, c, A, B, C
<1>9. a \o b \in Seq(Elt) /\ \E from : Lists(a \o b, from, A \cup B, op)
  BY <1>6, <1>7, ListsJoin DEF Listed
<1>10. (a \o b) \o c \in Seq(Elt) /\ \E from : Lists((a \o b) \o c, from, (A \cup B) \cup C, op)
  BY <1>8, <1>9, ListsJoin DEF Listed
<1>11. QED
  BY <1>1, <1>3, <1>4, <1>10

\* What merge does between making the new workflow and returning it lists the entries
LEMMA MergeLists ==
  ASSUME NEW m, m.sources \in Seq(Flows), NEW parts, parts = PartsOf(m),
         \A i \in DOMAIN parts : IsFiniteFlow(parts[i]),
         NEW Elt, \A d \in Entries(parts) : OpFor(m, parts, d) \in Elt
  PROVE  \E w \in Seq(Elt) :
           /\ MergeOps(m) = <<[do |-> "new"]>> \o w
           /\ \E from : Lists(w, from, Entries(parts), OpsFor(m, parts))
<1> DEFINE ss == Row(m.sources, LAMBDA s : SourceOps(m, s))
<1>1. MergeOps(m) = <<[do |-> "new"]>> \o FlattenSeq(ss)
  BY DEF MergeOps
<1>2. DOMAIN parts = DOMAIN m.sources /\ DOMAIN m.sources = 1 .. Len(m.sources) /\ Len(m.sources) \in Nat
  BY DEF PartsOf
<1>3. \A i \in DOMAIN parts :
        /\ ss[i] = SourceOps(m, m.sources[i]) /\ ss[i] \in Seq(Elt)
        /\ \E from : Lists(ss[i], from, EntriesOf(parts, i), OpsFor(m, parts))
  BY <1>2, SourceLists DEF Row
<1>4. ss \in [1 .. Len(m.sources) -> Seq(Elt)]
  BY <1>2, <1>3 DEF Row
<1>5. PICK tt : tt = ss
  OBVIOUS
<1>6. tt \in Seq(Seq(Elt)) /\ Len(tt) = Len(m.sources)
  <2>1. tt \in [1 .. Len(m.sources) -> Seq(Elt)]
    BY <1>4, <1>5
  <2> HIDE DEF ss
  <2>2. QED
    BY <1>2, <2>1, RowIsSeq
<1>7. PICK sets : sets = [i \in DOMAIN parts |-> EntriesOf(parts, i)]
  OBVIOUS
<1> HIDE DEF ss
<1>8. \A i \in 1 .. Len(tt) : \E from : Lists(tt[i], from, sets[i], OpsFor(m, parts))
  BY <1>2, <1>3, <1>5, <1>6, <1>7
<1>9. /\ FlattenSeq(tt) \in Seq(Elt)
      /\ \E from : Lists(FlattenSeq(tt), from, UNION {sets[i] : i \in 1 .. Len(tt)}, OpsFor(m, parts))
  BY <1>6, <1>8, ListsFlatten
<1>10. UNION {sets[i] : i \in 1 .. Len(tt)} = Entries(parts)
  BY <1>2, <1>6, <1>7 DEF Entries
<1>11. QED
  BY <1>1, <1>5, <1>9, <1>10

-------------------------------------------------------------------------------
\* All that a program puts together is finite: a primitive call adds one thing, or keeps
\* some of what there is.
LEMMA ResultIsFinite ==
  ASSUME NEW f, NEW op, IsWorkflow(f), IsFiniteFlow(f), Problem(f, op) = "none"
  PROVE  IsFiniteFlow(Result(f, op))
<1>1. CASE op.do = "connect"
  <2>1. PICK new : new = Edge(op.up, op.down, op.condition)
    OBVIOUS
  <2>2. Result(f, op) = [f EXCEPT !.edges = f.edges \cup {new}]
    BY <1>1, <2>1 DEF Result
  <2>3. /\ Result(f, op).edges = f.edges \cup {new}
        /\ Result(f, op).tasks = f.tasks /\ Result(f, op).pools = f.pools
    BY <2>2 DEF IsWorkflow
  <2>4. IsFiniteSet(f.edges \cup {new})
    BY FS_AddElement DEF IsFiniteFlow
  <2>5. QED
    BY <2>3, <2>4 DEF IsFiniteFlow
<1>2. CASE op.do = "add"
  <2>1. Result(f, op) = [f EXCEPT !.tasks = With(f.tasks, op.name, op.spec)]
    BY <1>2 DEF Result
  <2>2. /\ DOMAIN Result(f, op).tasks = DOMAIN f.tasks \cup {op.name}
        /\ Result(f, op).edges = f.edges /\ Result(f, op).pools = f.pools
    BY <2>1 DEF IsWorkflow, With
  <2>3. IsFiniteSet(DOMAIN f.tasks \cup {op.name})
    BY FS_AddElement DEF IsFiniteFlow
  <2>4. QED
    BY <2>2, <2>3 DEF IsFiniteFlow
<1>3. CASE op.do \in {"pool", "adopt"}
  <2>1. Result(f, op) = [f EXCEPT !.pools = With(f.pools, op.name, op.capacity)]
    BY <1>3 DEF Result
  <2>2. /\ DOMAIN Result(f, op).pools = DOMAIN f.pools \cup {op.name}
        /\ Result(f, op).edges = f.edges /\ Result(f, op).tasks = f.tasks
    BY <2>1 DEF IsWorkflow, With
  <2>3. IsFiniteSet(DOMAIN f.pools \cup {op.name})
    BY FS_AddElement DEF IsFiniteFlow
  <2>4. QED
    BY <2>2, <2>3 DEF IsFiniteFlow
<1>4. CASE op.do \in {"param", "limit"}
  <2>1. /\ Result(f, op).tasks = f.tasks /\ Result(f, op).edges = f.edges
        /\ Result(f, op).pools = f.pools
    BY <1>4 DEF Result, IsWorkflow
  <2>2. QED
    BY <2>1 DEF IsFiniteFlow
<1>5. CASE op.do = "new"
  <2>1. Result(f, op) = NewWorkflow
    BY <1>5 DEF Result
  <2>2. DOMAIN NewWorkflow.tasks = {} /\ NewWorkflow.edges = {} /\ DOMAIN NewWorkflow.pools = {}
    BY DEF NewWorkflow, Nothing
  <2>3. QED
    BY <2>1, <2>2, FS_EmptySet DEF IsFiniteFlow
<1>6. CASE op.do = "cut"
  <2>1. PICK keep : keep = ExpandOnly(f, op.names)
    OBVIOUS
  <2>2. Result(f, op) = Subgraph(f, keep)
    BY <1>6, <2>1 DEF Result
  <2>3. op.names \subseteq DOMAIN f.tasks
    BY <1>6 DEF Problem
  <2>4. keep \subseteq DOMAIN f.tasks
    BY <2>1, <2>3, ExpandedIsClosed
  <2>5. /\ DOMAIN Result(f, op).tasks = keep /\ Result(f, op).edges \subseteq f.edges
        /\ Result(f, op).pools = f.pools
    BY <2>2 DEF Subgraph, IsWorkflow
  <2>6. QED
    BY <2>4, <2>5, FS_Subset DEF IsFiniteFlow
<1>7. CASE op.do \notin {"connect", "add", "pool", "adopt", "param", "limit", "new", "cut"}
  BY <1>7 DEF Result
<1>8. QED
  BY <1>1, <1>2, <1>3, <1>4, <1>5, <1>6, <1>7

FlowsAreFinite == \A n \in Flows \cup Drafts : IsFiniteFlow(flows[n])

LEMMA NewIsFinite == IsFiniteFlow(NewWorkflow)
<1>1. DOMAIN NewWorkflow.tasks = {} /\ NewWorkflow.edges = {} /\ DOMAIN NewWorkflow.pools = {}
  BY DEF NewWorkflow, Nothing
<1>2. QED
  BY <1>1, FS_EmptySet DEF IsFiniteFlow

LEMMA FiniteStep == WorkflowsAreSound /\ FlowsAreFinite /\ [Next]_vars => FlowsAreFinite'
<1>. SUFFICES ASSUME WorkflowsAreSound, FlowsAreFinite, [Next]_vars PROVE FlowsAreFinite'
  OBVIOUS
<1>. USE DEF WorkflowsAreSound, FlowsAreFinite
<1>1. CASE UNCHANGED flows
  BY <1>1
<1>2. ASSUME NEW r \in Requests, NEW names, RunOnly(r, names) PROVE FlowsAreFinite'
  BY <1>2, RequestsAssumption DEF RunOnly
<1>3. CASE Perform
  <2>. DEFINE n == target
              op == Head(todo)
  <2>1. Problem(flows[n], op) = "none"
    BY <1>3 DEF Perform
  <2>2. CASE op.do = "return"
    <3>1. flows' = [flows EXCEPT ![op.as] = flows[target], ![target] = NewWorkflow]
      BY <1>3, <2>2 DEF Perform
    <3>. QED
      BY <3>1, NewIsFinite
  <2>3. CASE op.do # "return"
    <3>1. flows' = [flows EXCEPT ![n] = Result(flows[n], op)]
      BY <1>3, <2>3 DEF Perform
    <3>2. n \in Flows \cup Drafts => IsFiniteFlow(Result(flows[n], op))
      BY <2>1, ResultIsFinite
    <3>. QED
      BY <3>1, <3>2
  <2>. QED
    BY <2>2, <2>3
<1>4. CASE PerformRaises
  <2>. DEFINE n == target
              op == Head(todo)
              left == IF n \in Drafts THEN NewWorkflow ELSE RaisingResult(flows[n], op)
  <2>1. flows' = [flows EXCEPT ![n] = left]
    BY <1>4 DEF PerformRaises
  <2>2. n \in Flows \cup Drafts => IsFiniteFlow(left)
    <3>1. CASE n \in Drafts
      BY <3>1, NewIsFinite
    <3>2. CASE n \notin Drafts /\ op.do = "limit"
      <4>1. left = [flows[n] EXCEPT !.limit = op.limit]
        BY <3>2 DEF RaisingResult
      <4>2. n \in Flows \cup Drafts =>
              left.tasks = flows[n].tasks /\ left.edges = flows[n].edges /\ left.pools = flows[n].pools
        BY <4>1 DEF IsWorkflow
      <4>. HIDE DEF left
      <4>. QED
        BY <4>2 DEF IsFiniteFlow
    <3>3. CASE n \notin Drafts /\ op.do # "limit"
      BY <3>3 DEF RaisingResult
    <3>. QED
      BY <3>1, <3>2, <3>3
  <2>. HIDE DEF left
  <2>. QED
    BY <2>1, <2>2
<1>. QED
  BY <1>1, <1>2, <1>3, <1>4
     DEF Next, vars, CallBuilder, BuildWith, Import, BuildRegistry, Merge, Run

-------------------------------------------------------------------------------
\* The draft f of a merge consists of what the entries in D say, under the names of the
\* merge: no two tasks have fallen together, and every pool has the capacity it had.
IsTask(m, d, t) == d.kind = "task" /\ NameFor(m, d.of, d.what) = t
IsEdge(m, d, x) ==
  /\ d.kind = "edge"
  /\ NameFor(m, d.of, d.what.up) = x.up /\ NameFor(m, d.of, d.what.down) = x.down

TasksBuilt(f, m, parts, D) ==
  /\ \A t \in DOMAIN f.tasks :
       \E d \in D : IsTask(m, d, t) /\ f.tasks[t] = parts[d.of].tasks[d.what]
  /\ \A d \in D : d.kind = "task" => NameFor(m, d.of, d.what) \in DOMAIN f.tasks
  /\ \A d, e \in D :
       (d.kind = "task" /\ e.kind = "task" /\ NameFor(m, d.of, d.what) = NameFor(m, e.of, e.what))
         => d = e
EdgesBuilt(f, m, D) == \A x \in f.edges : \E d \in D : IsEdge(m, d, x)
PoolsBuilt(f, parts, D) ==
  \A d \in D : d.kind = "pool" =>
    d.what \in DOMAIN f.pools /\ f.pools[d.what] = parts[d.of].pools[d.what]
Built(f, m, parts, D) ==
  IsWorkflow(f) /\ TasksBuilt(f, m, parts, D) /\ EdgesBuilt(f, m, D) /\ PoolsBuilt(f, parts, D)

\* A new workflow is made of nothing.
LEMMA NewIsBuilt ==
  ASSUME NEW m, NEW parts
  PROVE  Built(NewWorkflow, m, parts, {})
<1>1. DOMAIN NewWorkflow.tasks = {} /\ NewWorkflow.edges = {}
  BY DEF NewWorkflow, Nothing
<1>2. QED
  BY <1>1, NewIsSound DEF Built, TasksBuilt, EdgesBuilt, PoolsBuilt

\* The next call of a merge adds what its entry says, or raises (merge of workflow.py).
LEMMA BuiltStep ==
  ASSUME NEW f, NEW m, NEW parts, NEW D, Built(f, m, parts, D), NEW d,
         d.kind \in {"task", "edge", "pool"}, NEW op, op = OpFor(m, parts, d),
         Problem(f, op) = "none"
  PROVE  Built(Result(f, op), m, parts, D \cup {d})
<1>0. IsWorkflow(f) /\ TasksBuilt(f, m, parts, D) /\ EdgesBuilt(f, m, D) /\ PoolsBuilt(f, parts, D)
  BY DEF Built
<1> DEFINE g == Result(f, op)
<1>1. CASE d.kind = "task"
  <2>1. PICK t, spec : t = NameFor(m, d.of, d.what) /\ spec = parts[d.of].tasks[d.what]
    OBVIOUS
  <2>2. op = [do |-> "add", name |-> t, spec |-> spec]
    BY <1>1, <2>1 DEF OpFor
  <2>3. g = [f EXCEPT !.tasks = With(f.tasks, t, spec)]
    BY <2>2 DEF Result
  <2>4. IsWorkflow(g) /\ g.tasks = With(f.tasks, t, spec) /\ g.edges = f.edges /\ g.pools = f.pools
    BY <1>0, <2>3 DEF IsWorkflow
  <2>5. t \notin DOMAIN f.tasks
    <3>1. AddProblem(f, t, spec) = "none"
      BY <2>2 DEF Problem
    <3>2. QED
      BY <3>1 DEF AddProblem
  <2> HIDE DEF g
  <2>6. /\ DOMAIN g.tasks = DOMAIN f.tasks \cup {t} /\ g.tasks[t] = spec
        /\ \A x \in DOMAIN f.tasks : g.tasks[x] = f.tasks[x]
    BY <2>4, <2>5 DEF With
  <2>7. TasksBuilt(g, m, parts, D \cup {d})
    <3>1. ASSUME NEW x \in DOMAIN g.tasks
          PROVE  \E e \in D \cup {d} : IsTask(m, e, x) /\ g.tasks[x] = parts[e.of].tasks[e.what]
      <4>1. CASE x = t
        BY <1>1, <2>1, <2>6, <4>1 DEF IsTask
      <4>2. CASE x # t
        BY <1>0, <2>6, <4>2 DEF TasksBuilt
      <4>3. QED
        BY <4>1, <4>2
    <3>2. \A e \in D \cup {d} : e.kind = "task" => NameFor(m, e.of, e.what) \in DOMAIN g.tasks
      BY <1>0, <2>1, <2>6 DEF TasksBuilt
    <3>3. \A e \in D : e.kind = "task" => NameFor(m, e.of, e.what) # t
      BY <1>0, <2>5 DEF TasksBuilt
    <3>4. \A a, b \in D \cup {d} :
            (a.kind = "task" /\ b.kind = "task" /\ NameFor(m, a.of, a.what) = NameFor(m, b.of, b.what))
              => a = b
      BY <1>0, <2>1, <3>3 DEF TasksBuilt
    <3>5. QED
      BY <3>1, <3>2, <3>4 DEF TasksBuilt
  <2>8. EdgesBuilt(g, m, D \cup {d})
    BY <1>0, <2>4 DEF EdgesBuilt
  <2>9. PoolsBuilt(g, parts, D \cup {d})
    BY <1>0, <1>1, <2>4 DEF PoolsBuilt
  <2>10. QED
    BY <2>4, <2>7, <2>8, <2>9 DEF Built, g
<1>2. CASE d.kind = "edge"
  <2>1. PICK up, down, c : /\ up = NameFor(m, d.of, d.what.up) /\ down = NameFor(m, d.of, d.what.down)
                           /\ c = d.what.condition
    OBVIOUS
  <2>2. op = Connect(up, down, c)
    BY <1>2, <2>1 DEF OpFor
  <2>3. g = [f EXCEPT !.edges = f.edges \cup {Edge(up, down, c)}]
    BY <2>2 DEF Result, Connect
  <2>4. /\ IsWorkflow(g) /\ g.tasks = f.tasks /\ g.pools = f.pools
        /\ g.edges = f.edges \cup {Edge(up, down, c)}
    BY <1>0, <2>3 DEF IsWorkflow
  <2> HIDE DEF g
  <2>5. IsEdge(m, d, Edge(up, down, c))
    BY <1>2, <2>1 DEF IsEdge, Edge
  <2>6. EdgesBuilt(g, m, D \cup {d})
    BY <1>0, <2>4, <2>5 DEF EdgesBuilt
  <2>7. TasksBuilt(g, m, parts, D \cup {d})
    BY <1>0, <1>2, <2>4 DEF TasksBuilt
  <2>8. PoolsBuilt(g, parts, D \cup {d})
    BY <1>0, <1>2, <2>4 DEF PoolsBuilt
  <2>9. QED
    BY <2>4, <2>6, <2>7, <2>8 DEF Built, g
<1>3. CASE d.kind = "pool"
  <2>1. PICK p, n : p = d.what /\ n = parts[d.of].pools[d.what]
    OBVIOUS
  <2>2. op = [do |-> "adopt", name |-> p, capacity |-> n]
    BY <1>3, <2>1 DEF OpFor
  <2>3. g = [f EXCEPT !.pools = With(f.pools, p, n)]
    BY <2>2 DEF Result
  <2>4. IsWorkflow(g) /\ g.tasks = f.tasks /\ g.edges = f.edges /\ g.pools = With(f.pools, p, n)
    BY <1>0, <2>3 DEF IsWorkflow
  <2>5. p \in DOMAIN f.pools => f.pools[p] = n
    <3>1. AdoptProblem(f, p, n) = "none"
      BY <2>2 DEF Problem
    <3>2. QED
      BY <3>1 DEF AdoptProblem
  <2> HIDE DEF g
  <2>6. /\ DOMAIN g.pools = DOMAIN f.pools \cup {p} /\ g.pools[p] = n
        /\ \A x \in DOMAIN f.pools : g.pools[x] = f.pools[x]
    BY <2>4, <2>5 DEF With
  <2>7. PoolsBuilt(g, parts, D \cup {d})
    <3>1. \A e \in D : e.kind = "pool" =>
            e.what \in DOMAIN g.pools /\ g.pools[e.what] = parts[e.of].pools[e.what]
      BY <1>0, <2>6 DEF PoolsBuilt
    <3>2. d.what \in DOMAIN g.pools /\ g.pools[d.what] = parts[d.of].pools[d.what]
      BY <2>1, <2>6
    <3>3. QED
      BY <3>1, <3>2 DEF PoolsBuilt
  <2>8. TasksBuilt(g, m, parts, D \cup {d})
    BY <1>0, <1>3, <2>4 DEF TasksBuilt
  <2>9. EdgesBuilt(g, m, D \cup {d})
    BY <1>0, <2>4 DEF EdgesBuilt
  <2>10. QED
    BY <2>4, <2>7, <2>8, <2>9 DEF Built, g
<1>4. QED
  BY <1>1, <1>2, <1>3

\* What an entry is.
LEMMA EntryIs ==
  ASSUME NEW parts, NEW d \in Entries(parts)
  PROVE  /\ d.of \in DOMAIN parts /\ d.kind \in {"task", "edge", "pool"}
         /\ d.kind = "task" => d.what \in DOMAIN parts[d.of].tasks
         /\ d.kind = "edge" => d.what \in parts[d.of].edges
         /\ d.kind = "pool" => d.what \in DOMAIN parts[d.of].pools
<1>1. PICK i \in DOMAIN parts : d \in EntriesOf(parts, i)
  BY DEF Entries
<1>2. CASE d \in EntriesLike(i, "task", DOMAIN parts[i].tasks)
  BY <1>2 DEF EntriesLike, Entry
<1>3. CASE d \in EntriesLike(i, "edge", parts[i].edges)
  BY <1>3 DEF EntriesLike, Entry
<1>4. CASE d \in EntriesLike(i, "pool", DOMAIN parts[i].pools)
  BY <1>4 DEF EntriesLike, Entry
<1>5. QED
  BY <1>1, <1>2, <1>3, <1>4 DEF EntriesOf

\* The entries for the tasks and the pools of the workflow i.
LEMMA EntriesThere ==
  ASSUME NEW parts, NEW i \in DOMAIN parts
  PROVE  /\ \A t \in DOMAIN parts[i].tasks :
              Entry(i, "task", t) \in Entries(parts)
         /\ \A p \in DOMAIN parts[i].pools :
              Entry(i, "pool", p) \in Entries(parts)
<1>1. \A t \in DOMAIN parts[i].tasks : Entry(i, "task", t) \in EntriesOf(parts, i)
  BY DEF EntriesOf, EntriesLike
<1>2. \A p \in DOMAIN parts[i].pools : Entry(i, "pool", p) \in EntriesOf(parts, i)
  BY DEF EntriesOf, EntriesLike
<1>3. QED
  BY <1>1, <1>2 DEF Entries

\* A merged workflow passes the structural check if all it is made of do: its edges join
\* tasks, its requests are served by the pools they came with, and a cycle in it would
\* be one in the workflow that any of its tasks comes from.
LEMMA MergedPasses ==
  ASSUME NEW f, NEW m, NEW parts, Built(f, m, parts, Entries(parts)),
         \A i \in DOMAIN parts : StructureProblem(parts[i]) = "none"
  PROVE  StructureProblem(f) = "none"
<1> DEFINE all == Entries(parts)
<1>0. TasksBuilt(f, m, parts, all) /\ EdgesBuilt(f, m, all) /\ PoolsBuilt(f, parts, all)
  BY DEF Built
<1>1. \A i \in DOMAIN parts :
        /\ \A e \in parts[i].edges : Joined(parts[i], e)
        /\ ~ Cyclic(parts[i]) /\ Unserved(parts[i]) = {}
  BY ChecksAgree, ChecksSuffice
<1>2. ASSUME NEW i \in DOMAIN parts, NEW t \in DOMAIN parts[i].tasks
      PROVE  NameFor(m, i, t) \in DOMAIN f.tasks
  <2>1. PICK d \in all : d = Entry(i, "task", t)
    BY EntriesThere
  <2>2. d.kind = "task" /\ d.of = i /\ d.what = t
    BY <2>1 DEF Entry
  <2>3. QED
    BY <1>0, <2>2 DEF TasksBuilt
<1>3. \A i, j \in DOMAIN parts : \A s \in DOMAIN parts[i].tasks, t \in DOMAIN parts[j].tasks :
        NameFor(m, i, s) = NameFor(m, j, t) => i = j /\ s = t
  <2>1. SUFFICES ASSUME NEW i \in DOMAIN parts, NEW j \in DOMAIN parts,
                        NEW s \in DOMAIN parts[i].tasks, NEW t \in DOMAIN parts[j].tasks,
                        NameFor(m, i, s) = NameFor(m, j, t)
                 PROVE  i = j /\ s = t
    OBVIOUS
  <2>2. PICK a, b \in all : a = Entry(i, "task", s) /\ b = Entry(j, "task", t)
    BY EntriesThere
  <2>3. /\ a.kind = "task" /\ a.of = i /\ a.what = s
        /\ b.kind = "task" /\ b.of = j /\ b.what = t
    BY <2>2 DEF Entry
  <2>4. a = b
    BY <1>0, <2>1, <2>3 DEF TasksBuilt
  <2>5. QED
    BY <2>3, <2>4
<1>4. ASSUME NEW x \in f.edges
      PROVE  \E i \in DOMAIN parts : \E e \in parts[i].edges :
               NameFor(m, i, e.up) = x.up /\ NameFor(m, i, e.down) = x.down
  <2>1. PICK d \in all : IsEdge(m, d, x)
    BY <1>0 DEF EdgesBuilt
  <2>2. QED
    BY <2>1, EntryIs DEF IsEdge
<1>5. ASSUME NEW t \in DOMAIN f.tasks
      PROVE  \E i \in DOMAIN parts : \E s \in DOMAIN parts[i].tasks :
               NameFor(m, i, s) = t /\ f.tasks[t] = parts[i].tasks[s]
  <2>1. PICK d \in all : IsTask(m, d, t) /\ f.tasks[t] = parts[d.of].tasks[d.what]
    BY <1>0 DEF TasksBuilt
  <2>2. QED
    BY <2>1, EntryIs DEF IsTask
<1>6. \A x \in f.edges : Joined(f, x)
  BY <1>1, <1>2, <1>4 DEF Joined
<1>7. Unserved(f) = {}
  <2>1. SUFFICES ASSUME NEW t \in DOMAIN f.tasks, NEW p \in DOMAIN f.tasks[t].resources
                 PROVE  CanServe(f, p, f.tasks[t].resources[p])
    <3>1. \A r \in UNION {{t} \X DOMAIN f.tasks[t].resources : t \in DOMAIN f.tasks} :
            r[1] \in DOMAIN f.tasks /\ r[2] \in DOMAIN f.tasks[r[1]].resources
      OBVIOUS
    <3>2. QED
      BY <2>1, <3>1 DEF Unserved
  <2>2. PICK i \in DOMAIN parts : \E s \in DOMAIN parts[i].tasks : f.tasks[t] = parts[i].tasks[s]
    BY <1>5
  <2>3. PICK s \in DOMAIN parts[i].tasks : f.tasks[t] = parts[i].tasks[s]
    BY <2>2
  <2>4. p \in DOMAIN parts[i].pools /\ parts[i].tasks[s].resources[p] <= parts[i].pools[p]
    BY <1>1, <2>3, ServedRequestsFit
  <2>5. p \in DOMAIN f.pools /\ f.pools[p] = parts[i].pools[p]
    <3>1. PICK d \in all : d = Entry(i, "pool", p)
      BY <2>4, EntriesThere
    <3>2. d.kind = "pool" /\ d.of = i /\ d.what = p
      BY <3>1 DEF Entry
    <3>3. QED
      BY <1>0, <3>2 DEF PoolsBuilt
  <2>6. QED
    BY <2>3, <2>4, <2>5 DEF CanServe
<1>8. ~ Cyclic(f)
  <2>1. SUFFICES ASSUME NEW S \in SUBSET DOMAIN f.tasks, S # {},
                        \A t \in S : UpstreamsOf(f, t) \cap S # {}
                 PROVE  FALSE
    BY DEF Cyclic
  <2>2. PICK t0 \in S : TRUE
    BY <2>1
  <2>3. PICK i \in DOMAIN parts : \E s \in DOMAIN parts[i].tasks : NameFor(m, i, s) = t0
    BY <1>5, <2>2
  <2> DEFINE Own == {s \in DOMAIN parts[i].tasks : NameFor(m, i, s) \in S}
  <2>4. Own \in SUBSET DOMAIN parts[i].tasks /\ Own # {}
    BY <2>2, <2>3
  <2>5. ASSUME NEW s \in Own PROVE UpstreamsOf(parts[i], s) \cap Own # {}
    <3>1. PICK u \in S : u \in UpstreamsOf(f, NameFor(m, i, s))
      BY <2>1
    <3>2. PICK x \in f.edges : x.up = u /\ x.down = NameFor(m, i, s)
      BY <3>1 DEF UpstreamsOf
    <3>3. PICK j \in DOMAIN parts : \E e \in parts[j].edges :
            NameFor(m, j, e.up) = x.up /\ NameFor(m, j, e.down) = x.down
      BY <1>4
    <3>4. PICK e \in parts[j].edges : NameFor(m, j, e.up) = x.up /\ NameFor(m, j, e.down) = x.down
      BY <3>3
    <3>5. e.up \in DOMAIN parts[j].tasks /\ e.down \in DOMAIN parts[j].tasks
      BY <1>1 DEF Joined
    <3>6. j = i /\ e.down = s
      BY <1>3, <3>2, <3>4, <3>5
    <3>7. e.up \in Own
      BY <3>2, <3>4, <3>5, <3>6
    <3>8. e.up \in UpstreamsOf(parts[i], s)
      BY <3>5, <3>6 DEF UpstreamsOf
    <3>9. QED
      BY <3>7, <3>8
  <2>6. Cyclic(parts[i])
    BY <2>4, <2>5 DEF Cyclic
  <2>7. QED
    BY <1>1, <2>6
<1>9. QED
  BY <1>6, <1>7, <1>8 DEF StructureProblem

-------------------------------------------------------------------------------
\* The call number i of the merge m whose entries from lists, of which there are n
MergeCall(m, parts, from, n, i) ==
  IF i = 1 THEN [do |-> "new"]
  ELSE IF i = n + 2 THEN Return(m.as, m.sources)
  ELSE OpFor(m, parts, from[i - 1])

\* rest is what is left after k of its calls, and f what they have built
Halfway(m, parts, from, n, k, rest, f) ==
  /\ n \in Nat /\ k \in 0 .. n + 1
  /\ \A i \in 1 .. n : from[i] \in Entries(parts)
  /\ \A d \in Entries(parts) : \E i \in 1 .. n : from[i] = d
  /\ \E S : rest \in Seq(S)
  /\ Len(rest) = n + 2 - k
  /\ \A i \in 1 .. n + 2 - k : rest[i] = MergeCall(m, parts, from, n, k + i)
  /\ k > 0 => Built(f, m, parts, {from[i] : i \in 1 .. k - 1})

\* The inductive invariant of a merge: it is somewhere in the row of its calls
Merging ==
  (target = MergeDraft /\ todo # <<>>) =>
    \E m \in Merges : \E from, n, k :
      Halfway(m, PartsOf(m), from, n, k, todo, flows[MergeDraft])

\* A merge begins with nothing done.
LEMMA MergeBegins ==
  ASSUME NEW m \in Merges, FlowsAreFinite, NEW f
  PROVE  \E from, n :
           Halfway(m, PartsOf(m), from, n, 0, Append(MergeOps(m), Return(m.as, m.sources)), f)
<1>1. PICK parts : parts = PartsOf(m)
  OBVIOUS
<1>2. m.sources \in Seq(Flows)
  BY MergesAssumption
<1>3. \A i \in DOMAIN parts : IsFiniteFlow(parts[i])
  BY <1>1, <1>2 DEF PartsOf, FlowsAreFinite
<1>4. PICK Elt : Elt = {OpFor(m, parts, d) : d \in Entries(parts)}
  OBVIOUS
<1>5. \A d \in Entries(parts) : OpFor(m, parts, d) \in Elt
  BY <1>4
<1>6. PICK w \in Seq(Elt) : /\ MergeOps(m) = <<[do |-> "new"]>> \o w
                            /\ \E from : Lists(w, from, Entries(parts), OpsFor(m, parts))
  BY <1>1, <1>2, <1>3, <1>5, MergeLists
<1>7. PICK from : Lists(w, from, Entries(parts), OpsFor(m, parts))
  BY <1>6
<1>8. PICK new, last, S : /\ new = [do |-> "new"] /\ last = Return(m.as, m.sources)
                          /\ S = Elt \cup {new, last}
  OBVIOUS
<1>9. PICK n : n = Len(w)
  OBVIOUS
<1>10. PICK row : row = Append(MergeOps(m), Return(m.as, m.sources))
  OBVIOUS
<1>11. row = Append(<<new>> \o w, last)
  BY <1>6, <1>8, <1>10
<1>12. new \in S /\ last \in S /\ w \in Seq(S) /\ n \in Nat
  BY <1>8, <1>9
<1>13. /\ row \in Seq(S) /\ Len(row) = n + 2 /\ row[1] = new /\ row[n + 2] = last
       /\ \A i \in 1 .. n : row[i + 1] = w[i]
  BY <1>9, <1>11, <1>12
<1>14. \A i \in 1 .. n : from[i] \in Entries(parts) /\ w[i] = OpFor(m, parts, from[i])
  BY <1>7, <1>9 DEF Lists, OpsFor
<1>15. ASSUME NEW i \in 1 .. n + 2 PROVE row[i] = MergeCall(m, parts, from, n, i)
  <2>1. CASE i = 1
    BY <1>8, <1>13, <2>1 DEF MergeCall
  <2>2. CASE i = n + 2
    BY <1>8, <1>12, <1>13, <2>2 DEF MergeCall
  <2>3. CASE i # 1 /\ i # n + 2
    <3>1. PICK j : j = i - 1
      OBVIOUS
    <3>2. j \in 1 .. n /\ i = j + 1
      BY <1>12, <2>3, <3>1
    <3>3. row[i] = OpFor(m, parts, from[j])
      BY <1>13, <1>14, <3>2
    <3>4. QED
      BY <2>3, <3>1, <3>3 DEF MergeCall
  <2>4. QED
    BY <2>1, <2>2, <2>3
<1>16. \A d \in Entries(parts) : \E i \in 1 .. n : from[i] = d
  BY <1>7, <1>9 DEF Lists
<1>17. Halfway(m, parts, from, n, 0, row, f)
  <2>1. \A i \in 1 .. n + 2 - 0 : row[i] = MergeCall(m, parts, from, n, 0 + i)
    BY <1>12, <1>15
  <2>2. n \in Nat /\ 0 \in 0 .. n + 1 /\ Len(row) = n + 2 - 0 /\ ~ (0 > 0)
    BY <1>12, <1>13
  <2>3. \E T : row \in Seq(T)
    BY <1>13
  <2>4. QED
    BY <1>14, <1>16, <2>1, <2>2, <2>3 DEF Halfway
<1>18. QED
  BY <1>1, <1>10, <1>17

\* The next call of a merge that raises nothing and is not its last.
LEMMA MergeContinues ==
  ASSUME NEW m, NEW parts, NEW from, NEW n, NEW k, NEW rest, NEW f,
         Halfway(m, parts, from, n, k, rest, f),
         Problem(f, Head(rest)) = "none", Tail(rest) # <<>>
  PROVE  /\ Head(rest).do # "return"
         /\ Halfway(m, parts, from, n, k + 1, Tail(rest), Result(f, Head(rest)))
<1>1. /\ n \in Nat /\ k \in 0 .. n + 1 /\ Len(rest) = n + 2 - k
      /\ \A i \in 1 .. n : from[i] \in Entries(parts)
      /\ \A d \in Entries(parts) : \E i \in 1 .. n : from[i] = d
      /\ \A i \in 1 .. n + 2 - k : rest[i] = MergeCall(m, parts, from, n, k + i)
      /\ k > 0 => Built(f, m, parts, {from[i] : i \in 1 .. k - 1})
  BY DEF Halfway
<1>2. PICK S : rest \in Seq(S)
  BY DEF Halfway
<1>3. rest # <<>>
  BY <1>1, <1>2
<1>4. /\ Head(rest) = rest[1] /\ Tail(rest) \in Seq(S) /\ Len(Tail(rest)) = Len(rest) - 1
      /\ \A i \in 1 .. Len(rest) - 1 : Tail(rest)[i] = rest[i + 1]
  BY <1>2, <1>3
<1>5. k \in 0 .. n
  <2>1. Len(Tail(rest)) # 0
    BY <1>4
  <2>2. QED
    BY <1>1, <1>4, <2>1
<1>6. Head(rest) = MergeCall(m, parts, from, n, k + 1)
  BY <1>1, <1>4, <1>5
<1>7. \A i \in 1 .. n + 2 - (k + 1) : Tail(rest)[i] = MergeCall(m, parts, from, n, (k + 1) + i)
  <2>1. SUFFICES ASSUME NEW i \in 1 .. n + 2 - (k + 1)
                 PROVE  Tail(rest)[i] = MergeCall(m, parts, from, n, (k + 1) + i)
    OBVIOUS
  <2>2. i \in 1 .. Len(rest) - 1 /\ i + 1 \in 1 .. n + 2 - k /\ k + (i + 1) = (k + 1) + i
    BY <1>1, <1>5
  <2>3. QED
    BY <1>1, <1>4, <2>2
<1>8. k + 1 > 0 /\ (k + 1) - 1 = k /\ k + 1 \in 0 .. n + 1 /\ Len(Tail(rest)) = n + 2 - (k + 1)
  BY <1>1, <1>4, <1>5
<1>9. CASE k = 0
  <2>1. Head(rest) = [do |-> "new"]
    BY <1>6, <1>9 DEF MergeCall
  <2>2. Result(f, Head(rest)) = NewWorkflow
    BY <2>1 DEF Result
  <2>3. {from[i] : i \in 1 .. k} = {}
    BY <1>9
  <2>4. Built(Result(f, Head(rest)), m, parts, {from[i] : i \in 1 .. (k + 1) - 1})
    BY <1>8, <2>2, <2>3, NewIsBuilt
  <2>5. QED
    BY <1>1, <1>4, <1>7, <1>8, <2>1, <2>4 DEF Halfway
<1>10. CASE k # 0
  <2>1. k \in 1 .. n /\ k + 1 # 1 /\ k + 1 # n + 2 /\ k > 0
    BY <1>1, <1>5, <1>10
  <2>2. PICK d \in Entries(parts) : d = from[k]
    BY <1>1, <2>1
  <2>3. Head(rest) = OpFor(m, parts, d)
    BY <1>6, <1>8, <2>1, <2>2 DEF MergeCall
  <2>4. d.kind \in {"task", "edge", "pool"}
    BY EntryIs
  <2>5. PICK D : D = {from[i] : i \in 1 .. k - 1}
    OBVIOUS
  <2>6. {from[i] : i \in 1 .. k} = D \cup {d}
    <3>1. \A i \in 1 .. k : i \in 1 .. k - 1 \/ i = k
      BY <2>1
    <3>2. k \in 1 .. k /\ \A i \in 1 .. k - 1 : i \in 1 .. k
      BY <2>1
    <3>3. QED
      BY <2>2, <2>5, <3>1, <3>2
  <2>7. Built(f, m, parts, D)
    BY <1>1, <2>1, <2>5
  <2>8. Built(Result(f, Head(rest)), m, parts, D \cup {d})
    BY <2>3, <2>4, <2>7, BuiltStep
  <2>9. Head(rest).do # "return"
    BY <2>3, <2>4 DEF OpFor, Connect
  <2>10. Built(Result(f, Head(rest)), m, parts, {from[i] : i \in 1 .. (k + 1) - 1})
    BY <1>8, <2>6, <2>8
  <2>11. QED
    BY <1>1, <1>4, <1>7, <1>8, <2>9, <2>10 DEF Halfway
<1>11. QED
  BY <1>9, <1>10

\* Only a merge works on its draft, and it leaves what it is made of alone.
LEMMA MergingStep ==
  WorkflowsAreSound /\ FlowsAreFinite /\ Merging /\ [Next]_vars => Merging'
<1> SUFFICES ASSUME WorkflowsAreSound, FlowsAreFinite, Merging, [Next]_vars
             PROVE  Merging'
  OBVIOUS
<1>1. MergeDraft \notin Flows /\ MergeDraft # Draft
  BY DraftAssumption DEF Drafts, Draft, MergeDraft
<1>2. CASE UNCHANGED vars
  BY <1>2 DEF Merging, PartsOf, vars
<1>3. CASE target' # MergeDraft \/ todo' = <<>>
  BY <1>3 DEF Merging
<1>4. ASSUME NEW m \in Merges, Merge(m) PROVE Merging'
  <2>1. flows' = flows /\ todo' = Append(MergeOps(m), Return(m.as, m.sources))
    BY <1>4 DEF Merge, Begin
  <2>2. PICK from, n :
          Halfway(m, PartsOf(m), from, n, 0, Append(MergeOps(m), Return(m.as, m.sources)),
                  flows[MergeDraft])
    BY MergeBegins
  <2>3. PartsOf(m)' = PartsOf(m)
    BY <2>1 DEF PartsOf
  <2>4. Halfway(m, PartsOf(m), from, n, 0, todo, flows[MergeDraft])'
    BY <2>1, <2>2, <2>3
  <2>5. QED
    BY <2>4 DEF Merging
<1>5. CASE Perform /\ target' = MergeDraft /\ todo' # <<>>
  <2>1. target = MergeDraft /\ todo # <<>> /\ todo' = Tail(todo) /\ Tail(todo) # <<>>
    BY <1>5 DEF Perform
  <2>2. PICK m \in Merges : \E from, n, k :
          Halfway(m, PartsOf(m), from, n, k, todo, flows[MergeDraft])
    BY <2>1 DEF Merging
  <2>3. PICK from, n, k : Halfway(m, PartsOf(m), from, n, k, todo, flows[MergeDraft])
    BY <2>2
  <2>4. PICK op, f : op = Head(todo) /\ f = flows[MergeDraft]
    OBVIOUS
  <2>5. Problem(f, op) = "none"
    BY <1>5, <2>1, <2>4 DEF Perform
  <2>6. /\ op.do # "return"
        /\ Halfway(m, PartsOf(m), from, n, k + 1, Tail(todo), Result(f, op))
    BY <2>1, <2>3, <2>4, <2>5, MergeContinues
  <2>7. flows' = [flows EXCEPT ![MergeDraft] = Result(f, op)]
    BY <1>5, <2>1, <2>4, <2>6 DEF Perform
  <2>8. flows'[MergeDraft] = Result(f, op) /\ \A x \in Flows : flows'[x] = flows[x]
    BY <1>1, <2>7 DEF WorkflowsAreSound, Drafts
  <2>9. PartsOf(m)' = PartsOf(m)
    <3>1. \A i \in DOMAIN m.sources : m.sources[i] \in Flows
      BY MergesAssumption
    <3>2. QED
      BY <2>8, <3>1 DEF PartsOf
  <2>10. Halfway(m, PartsOf(m), from, n, k + 1, todo, flows[MergeDraft])'
    BY <2>1, <2>6, <2>8, <2>9
  <2>11. QED
    BY <2>10 DEF Merging
<1>6. CASE PerformRaises
  BY <1>3, <1>6 DEF PerformRaises
<1>7. ASSUME NEW c \in BuilderCalls, CallBuilder(c) \/ BuildWith(c) PROVE target' # MergeDraft
  BY <1>1, <1>7, CallsAssumption DEF CallBuilder, BuildWith, Begin
<1>8. ASSUME NEW d \in Declarations, Import(d) PROVE target' # MergeDraft
  BY <1>1, <1>8 DEF Import, Begin
<1>9. ASSUME NEW n \in Flows, BuildRegistry(n) PROVE target' # MergeDraft
  BY <1>1, <1>9 DEF BuildRegistry, Begin
<1>10. ASSUME NEW r \in Requests, Run(r) PROVE target' # MergeDraft
  BY <1>1, <1>10, RequestsAssumption DEF Run, Begin
<1>11. ASSUME NEW r \in Requests, NEW names, RunOnly(r, names) PROVE target' # MergeDraft
  BY <1>1, <1>11 DEF RunOnly, Begin
<1>12. QED
  BY <1>2, <1>3, <1>4, <1>5, <1>6, <1>7, <1>8, <1>9, <1>10, <1>11 DEF Next

\* What a merge returns passes the structural check if all it is made of do (merge of
\* workflow.py): it keeps the tasks apart, joins every edge to the tasks it joined, and
\* has every pool in the one capacity its sources agree on.
THEOREM MergesAlwaysPass == Spec => []MergesPass
<1>1. Init => WorkflowsAreSound
  BY NewIsSound DEF Init, WorkflowsAreSound, Drafts
<1>2. Init => FlowsAreFinite
  BY NewIsFinite DEF Init, FlowsAreFinite
<1>3. Init => Merging
  BY DEF Init, Merging
<1>4. Merging => MergesPass
  <2>1. SUFFICES ASSUME Merging, target = MergeDraft, todo # <<>>, Head(todo).do = "return",
                        \A s \in ToSet(Head(todo).of) : StructureProblem(flows[s]) = "none"
                 PROVE  StructureProblem(flows[MergeDraft]) = "none"
    BY DEF MergesPass
  <2>2. PICK m \in Merges : \E from, n, k :
          Halfway(m, PartsOf(m), from, n, k, todo, flows[MergeDraft])
    BY <2>1 DEF Merging
  <2>3. PICK from, n, k : Halfway(m, PartsOf(m), from, n, k, todo, flows[MergeDraft])
    BY <2>2
  <2>4. PICK parts, f : parts = PartsOf(m) /\ f = flows[MergeDraft]
    OBVIOUS
  <2>5. /\ n \in Nat /\ k \in 0 .. n + 1
        /\ \A i \in 1 .. n : from[i] \in Entries(parts)
        /\ \A d \in Entries(parts) : \E i \in 1 .. n : from[i] = d
        /\ \A i \in 1 .. n + 2 - k : todo[i] = MergeCall(m, parts, from, n, k + i)
        /\ k > 0 => Built(f, m, parts, {from[i] : i \in 1 .. k - 1})
    BY <2>3, <2>4 DEF Halfway
  <2>6. Head(todo) = MergeCall(m, parts, from, n, k + 1)
    <3>1. PICK S : todo \in Seq(S)
      BY <2>3 DEF Halfway
    <3>2. Head(todo) = todo[1]
      BY <2>1, <3>1
    <3>3. QED
      BY <2>5, <3>2
  <2>7. k = n + 1
    <3>1. CASE k = 0
      BY <2>1, <2>6, <3>1 DEF MergeCall
    <3>2. CASE k # 0 /\ k # n + 1
      <4>1. k \in 1 .. n /\ k + 1 # 1 /\ k + 1 # n + 2 /\ (k + 1) - 1 = k
        BY <2>5, <3>2
      <4>2. PICK d \in Entries(parts) : d = from[k]
        BY <2>5, <4>1
      <4>3. Head(todo) = OpFor(m, parts, d)
        BY <2>6, <4>1, <4>2 DEF MergeCall
      <4>4. d.kind \in {"task", "edge", "pool"}
        BY EntryIs
      <4>5. Head(todo).do # "return"
        BY <4>3, <4>4 DEF OpFor, Connect
      <4>6. QED
        BY <2>1, <4>5
    <3>3. QED
      BY <3>1, <3>2
  <2>8. Head(todo).of = m.sources
    <3>1. k + 1 # 1 /\ k + 1 = n + 2
      BY <2>5, <2>7
    <3>2. QED
      BY <2>6, <3>1 DEF MergeCall, Return
  <2>9. {from[i] : i \in 1 .. k - 1} = Entries(parts)
    <3>1. k - 1 = n
      BY <2>5, <2>7
    <3>2. QED
      BY <2>5, <3>1
  <2>10. Built(f, m, parts, Entries(parts))
    BY <2>5, <2>7, <2>9
  <2>11. \A i \in DOMAIN parts : StructureProblem(parts[i]) = "none"
    <3>1. m.sources \in Seq(Flows)
      BY MergesAssumption
    <3>2. \A i \in DOMAIN m.sources : m.sources[i] \in ToSet(m.sources)
      BY <3>1 DEF ToSet
    <3>3. QED
      BY <2>1, <2>4, <2>8, <3>2 DEF PartsOf
  <2>12. QED
    BY <2>4, <2>10, <2>11, MergedPasses
<1>5. QED
  BY <1>1, <1>2, <1>3, <1>4, SoundStep, FiniteStep, MergingStep, PTL DEF Spec
===============================================================================
