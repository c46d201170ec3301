------------------------------ MODULE TaskOrder ------------------------------
(***************************************************************************)
(* Workflow.topological_order and what is computed from the order          *)
(* (util/topology.py): the depth-first search for a cycle, the sort, and   *)
(* the walks of depth_levels and transitive_reduction along the result.    *)
(*                                                                         *)
(* A node is its position in the declaration order.  The upstreams of a    *)
(* node are declared in some order too, but only the search looks at it:   *)
(* there every order is possible.                                          *)
(***************************************************************************)
EXTENDS Integers, Sequences, FiniteSets

CONSTANT N     \* how many nodes there are

ASSUME NodesAssumption == N \in Nat

Nodes == 1 .. N

VARIABLES
  upstreams,   \* the graph: dense, as _normalise makes it
  phase,       \* where topological_order and its caller are
  mark,        \* find_cycle: 0 unseen, 1 open, 2 done
  stack,       \* find_cycle: the nodes being visited
  left,        \* find_cycle: the upstreams each open node still has to look at
  cycle,       \* what find_cycle returns
  remaining,   \* topological_sort: how many upstreams are not in the order yet
  ready,       \* topological_sort: kept sorted, so the set says it all
  order,       \* topological_sort: the result so far
  walked,      \* how much of the order the walks have gone along
  levels,      \* depth_levels
  closure,     \* transitive_reduction: what each node depends on
  reduced      \* transitive_reduction: the upstreams it keeps

searchVars == <<mark, stack, left, cycle>>
sortVars == <<remaining, ready, order>>
walkVars == <<walked, levels, closure, reduced>>
vars == <<upstreams, phase, searchVars, sortVars, walkVars>>

InitWith(graph) ==
  /\ upstreams = graph
  /\ phase = "search"
  /\ mark = [n \in Nodes |-> 0] /\ stack = <<>>
  /\ left = [n \in Nodes |-> {}] /\ cycle = <<>>
  /\ remaining = [n \in Nodes |-> 0] /\ ready = {} /\ order = <<>>
  /\ walked = 0 /\ levels = [n \in Nodes |-> 0]
  /\ closure = [n \in Nodes |-> {}] /\ reduced = [n \in Nodes |-> {}]

\* An edge from a task to itself is refused when it is made
Init == \E graph \in [Nodes -> SUBSET Nodes] :
          (\A n \in Nodes : n \notin graph[n]) /\ InitWith(graph)

Top == stack[Len(stack)]
Pop == SubSeq(stack, 1, Len(stack) - 1)

-------------------------------------------------------------------------------
(* find_cycle                                                                *)

\* The outer loop takes the nodes in declaration order
StartsFirst(n) == \A m \in Nodes : mark[m] = 0 => n <= m

\* visit called for a node not seen yet, by the outer loop or for an upstream
Visit(n) ==
  /\ mark' = [mark EXCEPT ![n] = 1]
  /\ stack' = Append(stack, n)

OpenNext ==
  /\ phase = "search" /\ stack = <<>>
  /\ \E n \in Nodes :
       /\ mark[n] = 0 /\ StartsFirst(n)
       /\ Visit(n)
       /\ left' = [left EXCEPT ![n] = upstreams[n]]
  /\ UNCHANGED <<upstreams, phase, cycle, sortVars, walkVars>>

\* Fault: it is looked at again and again
LooksAgain(m) == left

LookedAt(m) == [left EXCEPT ![Top] = @ \ {m}]

\* An unseen upstream is visited before the next one is looked at
Descend ==
  /\ phase = "search" /\ stack # <<>>
  /\ \E m \in left[Top] :
       /\ mark[m] = 0
       /\ Visit(m)
       /\ left' = [LookedAt(m) EXCEPT ![m] = upstreams[m]]
  /\ UNCHANGED <<upstreams, phase, cycle, sortVars, walkVars>>

\* Fault: every node seen before is passed over
SeenBefore(m) == mark[m] # 0

\* A node that is done needs no second visit
Passes(m) == mark[m] = 2

PassDone ==
  /\ phase = "search" /\ stack # <<>>
  /\ \E m \in left[Top] : Passes(m) /\ left' = LookedAt(m)
  /\ UNCHANGED <<upstreams, phase, mark, stack, cycle, sortVars, walkVars>>

\* Fault: the whole stack is taken for the cycle
WholeStack(m) == Append(stack, m)

\* stack[start:] + [parent]
CycleThrough(m) ==
  LET start == CHOOSE k \in 1 .. Len(stack) : stack[k] = m
  IN  Append(SubSeq(stack, start, Len(stack)), m)

\* An upstream that is still open is on the stack, and closes a cycle
FindCycle ==
  /\ phase = "search" /\ stack # <<>>
  /\ \E m \in left[Top] : mark[m] = 1 /\ cycle' = CycleThrough(m)
  /\ phase' = "cyclic"
  /\ UNCHANGED <<upstreams, mark, stack, left, sortVars, walkVars>>

\* The node on top is done
MarksDone == mark' = [mark EXCEPT ![Top] = 2]

Close ==
  /\ phase = "search" /\ stack # <<>>
  /\ left[Top] = {}
  /\ MarksDone
  /\ stack' = Pop
  /\ UNCHANGED <<upstreams, phase, left, cycle, sortVars, walkVars>>

-------------------------------------------------------------------------------
(* topological_sort                                                          *)

Children(n) == {c \in Nodes : n \in upstreams[c]}

\* No cycle: topological_order goes on to sort
BeginSort ==
  /\ phase = "search" /\ stack = <<>>
  /\ \A n \in Nodes : mark[n] # 0
  /\ phase' = "sort"
  /\ remaining' = [n \in Nodes |-> Cardinality(upstreams[n])]
  /\ ready' = {n \in Nodes : upstreams[n] = {}}
  /\ UNCHANGED <<upstreams, searchVars, order, walkVars>>

\* Fault: the last upstream but one is enough
NewlyReadyEarly(n) == {c \in Children(n) : remaining[c] - 1 <= 1}

\* The children whose last missing upstream is n
NewlyReady(n) == {c \in Children(n) : remaining[c] = 1}

\* ready.pop(0)
TakesFirst(n) == \A m \in ready : n <= m

Place ==
  /\ phase = "sort"
  /\ \E n \in ready :
       /\ TakesFirst(n)
       /\ order' = Append(order, n)
       /\ ready' = (ready \ {n}) \cup NewlyReady(n)
       /\ remaining' = [c \in Nodes |-> IF c \in Children(n) THEN remaining[c] - 1 ELSE remaining[c]]
  /\ UNCHANGED <<upstreams, phase, searchVars, walkVars>>

\* The ValueError of a graph with a cycle, or the result
EndSort ==
  /\ phase = "sort" /\ ready = {}
  /\ phase' = IF Len(order) # N THEN "raised" ELSE "walk"
  /\ UNCHANGED <<upstreams, searchVars, sortVars, walkVars>>

-------------------------------------------------------------------------------
(* depth_levels and transitive_reduction, which walk the same order          *)

\* Fault: the shallowest upstream counts
ShallowestAbove(n) == CHOOSE l \in {levels[m] : m \in upstreams[n]} : \A m \in upstreams[n] : l <= levels[m]

DeepestAbove(n) == CHOOSE l \in {levels[m] : m \in upstreams[n]} : \A m \in upstreams[n] : l >= levels[m]

\* Fault: what the upstreams depend on does not count
Forgotten(n) == {}

Implied(n) == UNION {closure[m] : m \in upstreams[n]}

Walk ==
  /\ phase = "walk" /\ walked < Len(order)
  /\ walked' = walked + 1
  /\ LET n == order[walked + 1]
     IN  /\ levels' = [levels EXCEPT ![n] = IF upstreams[n] = {} THEN 0 ELSE 1 + DeepestAbove(n)]
         /\ reduced' = [reduced EXCEPT ![n] = upstreams[n] \ Implied(n)]
         /\ closure' = [closure EXCEPT ![n] = Implied(n) \cup upstreams[n]]
  /\ UNCHANGED <<upstreams, phase, searchVars, sortVars>>

EndWalk ==
  /\ phase = "walk" /\ walked = Len(order)
  /\ phase' = "done"
  /\ UNCHANGED <<upstreams, searchVars, sortVars, walkVars>>

Rest == phase \in {"cyclic", "raised", "done"} /\ UNCHANGED vars

Step ==
  \/ OpenNext \/ Descend \/ PassDone \/ FindCycle \/ Close
  \/ BeginSort \/ Place \/ EndSort
  \/ Walk \/ EndWalk

Next == Step \/ Rest

Spec == Init /\ [][Next]_vars

\* One thread runs to the end
FairSpec == Spec /\ WF_vars(Step)

-------------------------------------------------------------------------------
(* What must hold                                                            *)

\* Open nodes are those on the stack, each once, and only they have upstreams left
\* to look at; nothing is ready that is in the order already.
TypeOK ==
  /\ upstreams \in [Nodes -> SUBSET Nodes]
  /\ phase \in {"search", "cyclic", "sort", "raised", "walk", "done"}
  /\ mark \in [Nodes -> 0 .. 2]
  /\ stack \in Seq(Nodes)
  /\ \A n \in Nodes : mark[n] = 1 <=> \E k \in DOMAIN stack : stack[k] = n
  /\ \A j, k \in DOMAIN stack : j < k => stack[j] # stack[k]
  /\ left \in [Nodes -> SUBSET Nodes] /\ \A n \in Nodes : left[n] # {} => mark[n] = 1
  /\ cycle \in Seq(Nodes)
  /\ remaining \in [Nodes -> 0 .. N] /\ ready \subseteq Nodes
  /\ order \in Seq(Nodes) /\ \A k \in DOMAIN order : order[k] \notin ready
  /\ walked \in 0 .. Len(order)
  /\ levels \in [Nodes -> Nat]
  /\ closure \in [Nodes -> SUBSET Nodes] /\ reduced \in [Nodes -> SUBSET Nodes]

\* What find_cycle reports is a cycle of the graph, read along "depends on", that
\* goes through no node twice.
CycleIsReal ==
  phase = "cyclic" =>
    /\ Len(cycle) > 1 /\ cycle[1] = cycle[Len(cycle)]
    /\ \A k \in 1 .. Len(cycle) - 1 : cycle[k + 1] \in upstreams[cycle[k]]
    /\ \A j, k \in 1 .. Len(cycle) - 1 : j < k => cycle[j] # cycle[k]

\* What has not been missed by the search cannot surprise the sort: after find_cycle
\* returned None, topological_sort never raises.
SortNeverRaises == phase # "raised"

Placed(k) == {order[j] : j \in 1 .. k}

\* Every node follows its upstreams, and no node that could have come earlier was
\* declared before the one that did: the scheduler walks tasks in this order.
OrderIsTopological ==
  \A k \in DOMAIN order :
    /\ order[k] \notin Placed(k - 1)
    /\ upstreams[order[k]] \subseteq Placed(k - 1)
    /\ \A m \in Nodes \ Placed(k - 1) : upstreams[m] \subseteq Placed(k - 1) => order[k] <= m

\* The nodes each node can reach in a graph, in one step or more
Reach(graph) ==
  LET within[k \in 0 .. N] ==
        IF k = 0 THEN graph
        ELSE [n \in Nodes |-> within[k - 1][n] \cup UNION {graph[m] : m \in within[k - 1][n]}]
  IN  within[N]

Chains == {c \in UNION {[1 .. l -> Nodes] : l \in 1 .. N} :
             \A k \in 1 .. Len(c) - 1 : c[k] \in upstreams[c[k + 1]]}

\* A level is the length of the longest chain of upstreams that ends at the node.
LevelsAreLongest ==
  phase = "done" =>
    \A n \in Nodes :
      /\ \E c \in Chains : c[Len(c)] = n /\ Len(c) = levels[n] + 1
      /\ \A c \in Chains : c[Len(c)] = n => Len(c) <= levels[n] + 1

\* transitive_reduction drops what a longer path implies and nothing else: the same
\* nodes are reachable, and no longer so when one more edge is dropped.
ReductionIsMinimal ==
  phase = "done" =>
    /\ Reach(reduced) = Reach(upstreams)
    /\ \A n \in Nodes : \A m \in reduced[n] :
         m \notin Reach([reduced EXCEPT ![n] = @ \ {m}])[n]

\* Every call returns: the search, the sort and the walks all come to an end.
Returns == <>(phase \in {"cyclic", "done"})
===============================================================================
