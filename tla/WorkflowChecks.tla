---------------------------- MODULE WorkflowChecks ----------------------------
(***************************************************************************)
(* What is asked of a workflow before it runs: its graph                   *)
(* (src/campanile/model/workflow.py), the structural check every builder   *)
(* ends with, the validator (src/campanile/dsl/validate.py), and the part  *)
(* `run --only` cuts out (src/campanile/cli/commands.py).  A workflow is a *)
(* record; its edges are a set, for only their order in messages depends   *)
(* on the order of their declaration.                                      *)
(***************************************************************************)
EXTENDS ConditionCheck, Integers, FiniteSets

CONSTANTS Facts   \* of each condition: whether it parses, and what it reads

NoCondition == "no condition"

\* Edge, and the workflow's edges into and out of a task
Edge(up, down, condition) == [up |-> up, down |-> down, condition |-> condition]

\* upstream_map, downstream_map: edges to or from nowhere do not count
UpstreamsOf(f, t) ==
  {u \in DOMAIN f.tasks : \E e \in f.edges : e.up = u /\ e.down = t}
DownstreamsOf(f, t) == {d \in DOMAIN f.tasks : t \in UpstreamsOf(f, d)}

\* A set with all upstreams of its members
Closed(f, S) == \A s \in S : UpstreamsOf(f, s) \subseteq S

\* ancestors: what every closed set with the upstreams of t contains
AncestorsOf(f, t) ==
  {a \in DOMAIN f.tasks :
     \A S \in SUBSET DOMAIN f.tasks :
       UpstreamsOf(f, t) \subseteq S /\ Closed(f, S) => a \in S}

\* find_cycle finds one: tasks of which each has an upstream among them
Cyclic(f) ==
  \E S \in SUBSET DOMAIN f.tasks :
    S # {} /\ \A t \in S : UpstreamsOf(f, t) \cap S # {}

Joined(f, e) == e.up \in DOMAIN f.tasks /\ e.down \in DOMAIN f.tasks

\* Fault: a request is compared with the capacity as if one slot were spare
FitsWithSpare(f, p, amount) == p \in DOMAIN f.pools /\ amount <= f.pools[p] + 1

\* The pool is declared and large enough
CanServe(f, p, amount) == p \in DOMAIN f.pools /\ amount <= f.pools[p]

\* The requests no pool can serve, as pairs of a task and a pool
Unserved(f) ==
  {r \in UNION {{t} \X DOMAIN f.tasks[t].resources : t \in DOMAIN f.tasks} :
     ~ CanServe(f, r[2], f.tasks[r[1]].resources[r[2]])}

\* check_references: the first of its checks that raises
StructureProblem(f) ==
  IF \E e \in f.edges : ~ Joined(f, e) THEN "UnknownTaskError"
  ELSE IF Unserved(f) # {} THEN "ResourceError"
  ELSE IF Cyclic(f) THEN "CycleError"
  ELSE "none"
-------------------------------------------------------------------------------
\* The validator's issues, by their codes

\* _check_edges, _check_cycles, _check_resources
StructureErrors(f) ==
  {"unknown_upstream" : e \in {x \in f.edges : x.up \notin DOMAIN f.tasks}}
  \cup {"unknown_downstream" : e \in {x \in f.edges : x.down \notin DOMAIN f.tasks}}
  \cup (IF Cyclic(f) THEN {"dependency_cycle"} ELSE {})
  \cup {IF r[2] \in DOMAIN f.pools THEN "resource_capacity" ELSE "unknown_pool" : r \in Unserved(f)}

\* _check_conditions on one edge
ErrorsOfEdge(f, e) ==
  IF e.condition = NoCondition THEN {}
  ELSE IF ~ Facts[e.condition].parses THEN {"condition_syntax"}
  ELSE LET reads == Facts[e.condition].reads
       IN  ConditionIssues(IF e.down \in DOMAIN f.tasks THEN reads
                           ELSE [reads EXCEPT !.results = {}],
                           DOMAIN f.tasks, AncestorsOf(f, e.down), DOMAIN f.params, FALSE)

\* The errors of validate
Errors(f) ==
  (IF DOMAIN f.tasks = {} THEN {"empty_workflow"} ELSE {})
  \cup StructureErrors(f) \cup UNION {ErrorsOfEdge(f, e) : e \in f.edges}

\* The warnings of _check_shape, _check_trigger_rules, _check_reachability and
\* _check_resources
Warnings(f) ==
  {"noop_leaf" : t \in {s \in DOMAIN f.tasks : f.tasks[s].noop /\ DownstreamsOf(f, s) = {}}}
  \cup {"trigger_rule_without_upstreams" :
          t \in {s \in DOMAIN f.tasks : ~ f.tasks[s].allSuccess /\ UpstreamsOf(f, s) = {}}}
  \cup {"isolated_task" :
          t \in {s \in DOMAIN f.tasks : /\ Cardinality(DOMAIN f.tasks) > 1 /\ f.edges # {}
                                        /\ UpstreamsOf(f, s) \cup DownstreamsOf(f, s) = {}}}
  \cup {"unused_pool" :
          p \in {q \in DOMAIN f.pools :
                   \A t \in DOMAIN f.tasks : q \notin DOMAIN f.tasks[t].resources}}
-------------------------------------------------------------------------------
\* Fault: of what the named tasks need, only what they need directly
ExpandOnlyDirect(f, names) == names \cup UNION {UpstreamsOf(f, t) : t \in names}

\* _expand_only: the named tasks and everything they need
ExpandOnly(f, names) == names \cup UNION {AncestorsOf(f, t) : t \in names}

\* Workflow.subgraph, which copies first
Subgraph(f, keep) ==
  [f EXCEPT !.tasks = [t \in keep |-> f.tasks[t]],
            !.edges = {e \in f.edges : e.up \in keep /\ e.down \in keep}]
===============================================================================
