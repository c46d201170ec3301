--------------------------- MODULE TaskOrderProofs ---------------------------
(***************************************************************************)
(* For graphs of any size: what find_cycle reports is a cycle, when it     *)
(* reports none topological_sort cannot raise, the order it returns is a   *)
(* topological one with ties broken by declaration, and along it           *)
(* depth_levels measures the longest chains and transitive_reduction drops *)
(* what is implied and nothing else.                                       *)
(***************************************************************************)
EXTENDS TaskOrder, SharedLemmas, SequenceTheorems

Sorting == {"sort", "walk", "raised", "done"}

Types ==
  /\ upstreams \in [Nodes -> SUBSET Nodes]
  /\ phase \in {"search", "cyclic"} \cup Sorting
  /\ mark \in [Nodes -> 0 .. 2]
  /\ stack \in Seq(Nodes)
  /\ left \in [Nodes -> SUBSET Nodes]
  /\ remaining \in [Nodes -> Nat]
  /\ ready \in SUBSET Nodes
  /\ order \in Seq(Nodes)

\* The open nodes are those on the stack, which is a path, and all that an open node
\* has looked at is done or next on the stack
Searching ==
  /\ \A n \in Nodes : mark[n] = 1 <=> \E k \in 1 .. Len(stack) : stack[k] = n
  /\ \A j, k \in 1 .. Len(stack) : j < k => stack[j] # stack[k]
  /\ \A k \in 1 .. Len(stack) - 1 : stack[k + 1] \in upstreams[stack[k]]
  /\ \A k \in 1 .. Len(stack) : \A m \in upstreams[stack[k]] \ left[stack[k]] :
       mark[m] = 2 \/ (k < Len(stack) /\ m = stack[k + 1])
  /\ \A k \in 1 .. Len(stack) : left[stack[k]] \subseteq upstreams[stack[k]]
  /\ phase \in Sorting => \A n \in Nodes : mark[n] = 2

\* r ranks the nodes that are done above all they depend on, and top bounds it
Ranks(r, top) ==
  \A n \in Nodes : mark[n] = 2 =>
    /\ r[n] <= top
    /\ \A m \in upstreams[n] : mark[m] = 2 /\ r[m] < r[n]

Ranked == \E r \in [Nodes -> Nat], top \in Nat : Ranks(r, top)

InOrder == Placed(Len(order))

Sorted ==
  /\ phase \notin Sorting => order = <<>>
  /\ OrderIsTopological
  /\ phase \in Sorting =>
       /\ \A n \in Nodes : remaining[n] = Cardinality(upstreams[n] \ InOrder)
       /\ ready = {n \in Nodes \ InOrder : upstreams[n] \subseteq InOrder}

Inv == Types /\ Searching /\ Ranked /\ Sorted /\ SortNeverRaises

------------------------------------------------------------------------------
(* The search                                                                *)

LEMMA StackFacts ==
  ASSUME Types, stack # <<>>
  PROVE  /\ Len(stack) \in Nat \ {0} /\ Top \in Nodes /\ Top = stack[Len(stack)]
         /\ Pop \in Seq(Nodes) /\ Len(Pop) = Len(stack) - 1
         /\ \A k \in 1 .. Len(Pop) : Pop[k] = stack[k]
<1>1. Len(stack) \in Nat \ {0} /\ stack \in Seq(Nodes)
  BY DEF Types
<1>2. Top \in Nodes /\ Top = stack[Len(stack)]
  BY <1>1 DEF Top
<1>3. Pop = SubSeq(stack, 1, Len(stack) - 1)
  BY DEF Pop
<1>4. \A k \in 1 .. Len(stack) - 1 : stack[k] \in Nodes
  BY <1>1
<1>5. Pop \in Seq(Nodes) /\ Len(Pop) = Len(stack) - 1
  <2>1. CASE Len(stack) = 1
    BY <2>1, <1>1, <1>3
  <2>2. CASE Len(stack) > 1
    BY <2>2, <1>1, <1>3
  <2>3. Len(stack) = 1 \/ Len(stack) > 1
    <3>1. \A l \in Nat \ {0} : l = 1 \/ l > 1
      OBVIOUS
    <3>2. QED
      BY <1>1, <3>1, Zenon
  <2>4. QED
    BY <2>1, <2>2, <2>3, Zenon
<1>6. \A k \in 1 .. Len(stack) - 1 : Pop[k] = stack[k]
  BY <1>1, <1>3
<1>7. QED
  BY <1>1, <1>2, <1>5, <1>6

LEMMA PushFacts ==
  ASSUME Types, NEW n \in Nodes
  PROVE  /\ Append(stack, n) \in Seq(Nodes)
         /\ Len(Append(stack, n)) = Len(stack) + 1
         /\ Append(stack, n)[Len(stack) + 1] = n
         /\ \A k \in 1 .. Len(stack) : Append(stack, n)[k] = stack[k]
  BY DEF Types

\* Ranks says nothing of the nodes that are not done
LEMMA RanksKept ==
  ASSUME Types, Ranked, upstreams' = upstreams,
         \A n \in Nodes : (mark'[n] = 2) <=> (mark[n] = 2)
  PROVE  Ranked'
<1>1. PICK r \in [Nodes -> Nat], top \in Nat : Ranks(r, top)
  BY DEF Ranked
<1>2. Ranks(r, top)'
  BY <1>1 DEF Ranks, Types
<1>3. QED
  BY <1>2 DEF Ranked

LEMMA OpenNextInv ==
  ASSUME Types, Searching, OpenNext
  PROVE  Types' /\ Searching'
<1>1. PICK n \in Nodes :
        /\ mark[n] = 0 /\ mark' = [mark EXCEPT ![n] = 1]
        /\ stack' = Append(stack, n) /\ left' = [left EXCEPT ![n] = upstreams[n]]
  BY DEF OpenNext, Visit
<1>2. Types'
  BY <1>1, PushFacts DEF OpenNext, Types, sortVars, Sorting
<1>3. Len(stack) = 0 /\ Len(stack') = 1 /\ stack'[1] = n
  BY <1>1, PushFacts DEF OpenNext, Types
<1>4. Searching'
  BY <1>1, <1>2, <1>3 DEF OpenNext, Searching, Types, Sorting
<1>5. QED
  BY <1>2, <1>4

LEMMA DescendInv ==
  ASSUME Types, Searching, Descend
  PROVE  Types' /\ Searching'
<1>0. PICK top \in Nodes : top = Top /\ top = stack[Len(stack)]
  BY StackFacts DEF Descend
<1>1. PICK n \in Nodes :
        /\ n \in left[top]
        /\ mark[n] = 0 /\ mark' = [mark EXCEPT ![n] = 1]
        /\ stack' = Append(stack, n)
        /\ left' = [[left EXCEPT ![top] = @ \ {n}] EXCEPT ![n] = upstreams[n]]
  BY <1>0 DEF Descend, Visit, LookedAt, Types
<1>a. \A x \in Nodes :
        left'[x] = IF x = n THEN upstreams[n] ELSE IF x = top THEN left[top] \ {n} ELSE left[x]
  BY <1>0, <1>1 DEF Types
<1>b. left' \in [Nodes -> SUBSET Nodes]
  BY <1>0, <1>1 DEF Types
<1>2. Types'
  BY <1>0, <1>1, <1>b, PushFacts DEF Descend, Types, sortVars, Sorting
<1>3. /\ Len(stack) \in Nat \ {0} /\ Len(stack') = Len(stack) + 1
      /\ stack'[Len(stack) + 1] = n
      /\ \A k \in 1 .. Len(stack) : stack'[k] = stack[k] /\ stack[k] \in Nodes
  BY <1>1, PushFacts, StackFacts DEF Descend, Types
<1>4. \A k \in 1 .. Len(stack) : stack[k] # n /\ mark[stack[k]] = 1
  BY <1>1, <1>3 DEF Searching
<1>5. \A m \in Nodes : mark'[m] = 1 <=> \E k \in 1 .. Len(stack') : stack'[k] = m
  <2>1. ASSUME NEW m \in Nodes, mark'[m] = 1
        PROVE  \E k \in 1 .. Len(stack') : stack'[k] = m
    <3>1. CASE m = n
      BY <3>1, <1>3
    <3>2. CASE m # n
      <4>1. PICK k \in 1 .. Len(stack) : stack[k] = m
        BY <2>1, <3>2, <1>1 DEF Types, Searching
      <4>2. QED
        BY <4>1, <1>3
    <3>3. QED
      BY <3>1, <3>2
  <2>2. ASSUME NEW m \in Nodes, NEW k \in 1 .. Len(stack'), stack'[k] = m
        PROVE  mark'[m] = 1
    BY <2>2, <1>1, <1>3, <1>4 DEF Types
  <2>3. QED
    BY <2>1, <2>2
<1>6. \A j, k \in 1 .. Len(stack') : j < k => stack'[j] # stack'[k]
  BY <1>3, <1>4 DEF Searching
<1>7. \A k \in 1 .. Len(stack') - 1 : stack'[k + 1] \in upstreams[stack'[k]]
  <2>1. n \in upstreams[top]
    <3>1. left[stack[Len(stack)]] \subseteq upstreams[stack[Len(stack)]]
      <4>1. Len(stack) \in 1 .. Len(stack)
        BY <1>3
      <4>2. QED
        BY <4>1 DEF Searching
    <3>2. QED
      BY <3>1, <1>0, <1>1
  <2>2. QED
    BY <2>1, <1>0, <1>3 DEF Searching
<1>8. \A k \in 1 .. Len(stack) :
        left'[stack[k]] = IF k = Len(stack) THEN left[stack[k]] \ {n} ELSE left[stack[k]]
  <2>1. ASSUME NEW k \in 1 .. Len(stack)
        PROVE  left'[stack[k]] = IF k = Len(stack) THEN left[stack[k]] \ {n} ELSE left[stack[k]]
    <3>1. stack[k] # n /\ stack[k] \in Nodes
      BY <1>3, <1>4
    <3>2. k # Len(stack) => stack[k] # top
      BY <1>0, <1>3 DEF Searching
    <3>3. QED
      BY <1>0, <1>a, <3>1, <3>2
  <2>2. QED
    BY <2>1
<1>9. \A m \in Nodes : mark[m] = 2 => mark'[m] = 2
  BY <1>1 DEF Types
<1>10. ASSUME NEW k \in 1 .. Len(stack'), NEW m \in upstreams[stack'[k]] \ left'[stack'[k]]
       PROVE  mark'[m] = 2 \/ (k < Len(stack') /\ m = stack'[k + 1])
  <2>1. CASE k = Len(stack')
    BY <2>1, <1>1, <1>3 DEF Types
  <2>2. CASE k = Len(stack)
    BY <2>2, <1>1, <1>3, <1>8, <1>9 DEF Searching, Types
  <2>3. CASE k < Len(stack)
    <3>0. k \in 1 .. Len(stack) /\ stack'[k] = stack[k]
      BY <2>3, <1>3
    <3>1. m \in upstreams[stack[k]] \ left[stack[k]]
      <4>1. left'[stack[k]] = left[stack[k]]
        <5>1. k # Len(stack)
          BY <2>3, <1>3
        <5>2. QED
          BY <3>0, <5>1, <1>8, Zenon
      <4>2. QED
        BY <4>1, <3>0
    <3>2. mark[m] = 2 \/ m = stack[k + 1]
      BY <2>3, <3>1, <1>3 DEF Searching
    <3>3. m \in Nodes
      BY <3>1, <1>3, <2>3 DEF Types
    <3>4. QED
      BY <2>3, <3>2, <3>3, <1>3, <1>9
  <2>4. QED
    BY <2>1, <2>2, <2>3, <1>3
<1>11. \A k \in 1 .. Len(stack') : left'[stack'[k]] \subseteq upstreams[stack'[k]]
  <2>1. left'[n] = upstreams[n]
    BY <1>1 DEF Types
  <2>2. ASSUME NEW k \in 1 .. Len(stack)
        PROVE  left'[stack[k]] \subseteq upstreams[stack[k]]
    BY <1>8 DEF Searching
  <2>3. QED
    BY <2>1, <2>2, <1>3
<1>12. UNCHANGED upstreams /\ phase' \notin Sorting
  BY DEF Descend, Sorting
<1>13. QED
  BY <1>2, <1>5, <1>6, <1>7, <1>10, <1>11, <1>12 DEF Searching

LEMMA PassDoneInv ==
  ASSUME Types, Searching, PassDone
  PROVE  Types' /\ Searching'
<1>0. PICK top \in Nodes : top = Top /\ top = stack[Len(stack)] /\ Len(stack) \in Nat \ {0}
  BY StackFacts DEF PassDone
<1>1. PICK n \in Nodes :
        n \in left[top] /\ mark[n] = 2 /\ left' = [left EXCEPT ![top] = @ \ {n}]
  BY <1>0 DEF PassDone, Passes, LookedAt, Types
<1>2. Types'
  BY <1>0, <1>1 DEF PassDone, Types, sortVars, Sorting
<1>3. UNCHANGED <<mark, stack, upstreams, phase>> /\ phase \notin Sorting
  BY DEF PassDone, Sorting
<1>4. ASSUME NEW k \in 1 .. Len(stack)
      PROVE  /\ left'[stack[k]] \subseteq left[stack[k]]
             /\ left[stack[k]] \ {n} \subseteq left'[stack[k]]
  BY <1>0, <1>1 DEF Types
<1>5. ASSUME NEW k \in 1 .. Len(stack), NEW m \in upstreams[stack[k]] \ left'[stack[k]]
      PROVE  mark[m] = 2 \/ (k < Len(stack) /\ m = stack[k + 1])
  <2>1. CASE m = n
    BY <2>1, <1>1
  <2>2. CASE m # n
    <3>1. m \in upstreams[stack[k]] \ left[stack[k]]
      BY <2>2, <1>4
    <3>2. QED
      BY <3>1 DEF Searching
  <2>3. QED
    BY <2>1, <2>2
<1>6. \A k \in 1 .. Len(stack) : left'[stack[k]] \subseteq upstreams[stack[k]]
  BY <1>4 DEF Searching
<1>7. QED
  BY <1>2, <1>3, <1>5, <1>6 DEF Searching

LEMMA FindCycleInv ==
  ASSUME Types, Searching, FindCycle
  PROVE  Types' /\ Searching'
<1>1. UNCHANGED <<mark, stack, upstreams, left, sortVars>> /\ phase' = "cyclic"
  BY DEF FindCycle
<1>2. "cyclic" \notin Sorting
  BY DEF Sorting
<1>3. Types'
  BY <1>1 DEF Types, sortVars
<1>4. QED
  BY <1>1, <1>2, <1>3 DEF Searching

LEMMA CloseInv ==
  ASSUME Types, Searching, Close
  PROVE  Types' /\ Searching'
<1>0. PICK top \in Nodes : /\ top = Top /\ top = stack[Len(stack)]
                           /\ Len(stack) \in Nat \ {0}
  BY StackFacts DEF Close
<1>1. /\ left[top] = {} /\ mark' = [mark EXCEPT ![top] = 2]
      /\ UNCHANGED <<upstreams, phase, left>> /\ phase \notin Sorting
  BY <1>0 DEF Close, MarksDone, Sorting
<1>2. /\ Len(stack') = Len(stack) - 1 /\ stack' \in Seq(Nodes)
      /\ \A k \in 1 .. Len(stack') : stack'[k] = stack[k]
  BY StackFacts DEF Close
<1>3. Types'
  BY <1>0, <1>1, <1>2 DEF Close, Types, sortVars
<1>4. \A k \in 1 .. Len(stack') : k \in 1 .. Len(stack) /\ k < Len(stack)
  BY <1>0, <1>2
<1>5. \A k \in 1 .. Len(stack') : stack'[k] # top
  BY <1>0, <1>2, <1>4 DEF Searching
<1>6. \A n \in Nodes : mark'[n] = 1 <=> \E k \in 1 .. Len(stack') : stack'[k] = n
  <2>1. ASSUME NEW n \in Nodes, mark'[n] = 1
        PROVE  \E k \in 1 .. Len(stack') : stack'[k] = n
    <3>1. n # top /\ mark[n] = 1
      BY <2>1, <1>0, <1>1 DEF Types
    <3>2. PICK k \in 1 .. Len(stack) : stack[k] = n
      BY <3>1 DEF Searching
    <3>3. k # Len(stack)
      BY <3>1, <3>2, <1>0
    <3>4. k \in 1 .. Len(stack')
      BY <3>3, <1>0, <1>2
    <3>5. QED
      BY <3>2, <3>4, <1>2
  <2>2. ASSUME NEW n \in Nodes, NEW k \in 1 .. Len(stack'), stack'[k] = n
        PROVE  mark'[n] = 1
    <3>1. n # top /\ mark[n] = 1
      BY <2>2, <1>2, <1>4, <1>5 DEF Searching
    <3>2. QED
      BY <3>1, <1>1 DEF Types
  <2>3. QED
    BY <2>1, <2>2
<1>7. \A j, k \in 1 .. Len(stack') : j < k => stack'[j] # stack'[k]
  BY <1>2, <1>4 DEF Searching
<1>8. \A k \in 1 .. Len(stack') - 1 : stack'[k + 1] \in upstreams[stack'[k]]
  BY <1>0, <1>2, <1>4 DEF Searching
<1>9. mark'[top] = 2 /\ \A m \in Nodes : mark[m] = 2 => mark'[m] = 2
  BY <1>0, <1>1 DEF Types
<1>10. ASSUME NEW k \in 1 .. Len(stack'), NEW m \in upstreams[stack'[k]] \ left'[stack'[k]]
       PROVE  mark'[m] = 2 \/ (k < Len(stack') /\ m = stack'[k + 1])
  <2>1. k \in 1 .. Len(stack) /\ k < Len(stack) /\ stack'[k] = stack[k]
    BY <1>2, <1>4
  <2>2. mark[m] = 2 \/ m = stack[k + 1]
    <3>1. m \in upstreams[stack[k]] \ left[stack[k]]
      BY <2>1, <1>1
    <3>2. QED
      BY <2>1, <3>1 DEF Searching
  <2>3. m \in Nodes
    BY <2>1, <1>0 DEF Types
  <2>4. CASE mark[m] = 2
    BY <2>3, <2>4, <1>9
  <2>5. CASE m = stack[k + 1] /\ k + 1 = Len(stack)
    BY <2>5, <1>0, <1>9
  <2>6. CASE m = stack[k + 1] /\ k + 1 # Len(stack)
    <3>1. k + 1 \in 1 .. Len(stack') /\ k < Len(stack')
      BY <2>1, <2>6, <1>0, <1>2
    <3>2. QED
      BY <3>1, <2>6, <1>2
  <2>7. QED
    BY <2>2, <2>4, <2>5, <2>6
<1>11. \A k \in 1 .. Len(stack') : left'[stack'[k]] \subseteq upstreams[stack'[k]]
  BY <1>1, <1>2, <1>4 DEF Searching
<1>12. QED
  BY <1>1, <1>3, <1>6, <1>7, <1>8, <1>10, <1>11 DEF Searching

\* The node that is closed is ranked above every node so far
LEMMA CloseRanks ==
  ASSUME Types, Searching, Ranked, Close
  PROVE  Ranked'
<1>0. PICK n \in Nodes : n = Top /\ n = stack[Len(stack)] /\ Len(stack) \in Nat \ {0}
  BY StackFacts DEF Close
<1>1. /\ left[n] = {} /\ mark' = [mark EXCEPT ![n] = 2] /\ upstreams' = upstreams
      /\ mark[n] = 1
  <2>1. Len(stack) \in 1 .. Len(stack)
    BY <1>0
  <2>2. mark[n] = 1
    BY <1>0, <2>1 DEF Searching
  <2>3. QED
    BY <1>0, <2>2 DEF Close, MarksDone
<1>2. \A m \in upstreams[n] : m \in Nodes /\ mark[m] = 2
  <2>1. Len(stack) \in 1 .. Len(stack)
    BY <1>0
  <2>2. \A m \in upstreams[n] \ left[n] : mark[m] = 2 \/ Len(stack) < Len(stack)
    BY <1>0, <2>1 DEF Searching
  <2>3. QED
    BY <1>0, <1>1, <2>2 DEF Types
<1>3. PICK r \in [Nodes -> Nat], top \in Nat : Ranks(r, top)
  BY DEF Ranked
<1>4. PICK s \in [Nodes -> Nat] : s = [m \in Nodes |-> IF m = n THEN top + 1 ELSE r[m]]
  <2>1. [m \in Nodes |-> IF m = n THEN top + 1 ELSE r[m]] \in [Nodes -> Nat]
    BY <1>3
  <2>2. QED
    BY <2>1
<1>5. \A m \in Nodes : mark'[m] = 2 => m = n \/ mark[m] = 2
  BY <1>1 DEF Types
<1>6. \A m \in Nodes : mark[m] = 2 => mark'[m] = 2 /\ m # n /\ s[m] = r[m] /\ r[m] <= top
  BY <1>1, <1>3, <1>4 DEF Types, Ranks
<1>7. s[n] = top + 1 /\ top + 1 \in Nat
  BY <1>3, <1>4
<1>8. ASSUME NEW m \in Nodes, mark'[m] = 2
      PROVE  s[m] <= top + 1 /\ \A u \in upstreams'[m] : mark'[u] = 2 /\ s[u] < s[m]
  <2>1. CASE m = n
    <3>1. ASSUME NEW u \in upstreams[n]
          PROVE  mark'[u] = 2 /\ s[u] < s[n]
      BY <1>2, <1>3, <1>6, <1>7
    <3>2. QED
      BY <2>1, <3>1, <1>1, <1>7
  <2>2. CASE mark[m] = 2
    <3>1. s[m] = r[m] /\ r[m] <= top /\ r[m] \in Nat
      BY <2>2, <1>3, <1>6
    <3>2. ASSUME NEW u \in upstreams[m]
          PROVE  mark'[u] = 2 /\ s[u] < s[m]
      <4>1. mark[u] = 2 /\ r[u] < r[m]
        BY <2>2, <1>3 DEF Ranks
      <4>2. u \in Nodes
        BY DEF Types
      <4>3. QED
        BY <3>1, <4>1, <4>2, <1>6
    <3>3. QED
      BY <3>1, <3>2, <1>1, <1>3
  <2>3. QED
    BY <2>1, <2>2, <1>5, <1>8
<1>9. Ranks(s, top + 1)'
  BY <1>8 DEF Ranks
<1>10. QED
  BY <1>7, <1>9 DEF Ranked

------------------------------------------------------------------------------
(* The sort                                                                  *)

LEMMA FiniteUpstreams ==
  ASSUME Types, NEW n \in Nodes
  PROVE  IsFiniteSet(upstreams[n])
<1>1. IsFiniteSet(Nodes)
  BY NodesAssumption, FS_Interval DEF Nodes
<1>2. upstreams[n] \in SUBSET Nodes
  BY DEF Types
<1>3. QED
  BY <1>1, <1>2, FS_Subset

LEMMA BeginSortInv ==
  ASSUME Inv, BeginSort
  PROVE  Inv'
<1>1. /\ phase = "search" /\ stack = <<>> /\ \A n \in Nodes : mark[n] # 0
      /\ phase' = "sort" /\ remaining' = [n \in Nodes |-> Cardinality(upstreams[n])]
      /\ ready' = {n \in Nodes : upstreams[n] = {}}
      /\ UNCHANGED <<upstreams, mark, stack, left, order>>
  BY DEF BeginSort, searchVars
<1>2. \A n \in Nodes : mark[n] = 2
  <2>1. Len(stack) = 0
    BY <1>1
  <2>2. \A n \in Nodes : mark[n] # 1
    BY <2>1 DEF Inv, Searching
  <2>3. QED
    BY <1>1, <2>2 DEF Inv, Types
<1>3. order = <<>> /\ InOrder = {}
  BY <1>1 DEF Inv, Sorted, Sorting, InOrder, Placed
<1>4. Types'
  <2>1. \A n \in Nodes : Cardinality(upstreams[n]) \in Nat
    BY FiniteUpstreams, FS_CardinalityType DEF Inv
  <2>2. QED
    BY <1>1, <2>1 DEF Inv, Types, Sorting
<1>5. Searching'
  BY <1>1, <1>2 DEF Inv, Searching
<1>6. Ranked'
  BY <1>1, RanksKept DEF Inv
<1>7. Sorted'
  <2>1. InOrder' = {}
    BY <1>1, <1>3 DEF InOrder, Placed
  <2>2. OrderIsTopological'
    BY <1>1, <1>3 DEF OrderIsTopological
  <2>3. \A n \in Nodes : remaining'[n] = Cardinality(upstreams'[n] \ InOrder')
    <3>1. \A n \in Nodes : upstreams'[n] \ InOrder' = upstreams[n]
      BY <1>1, <2>1
    <3>2. QED
      BY <1>1, <3>1
  <2>4. ready' = {n \in Nodes \ InOrder' : upstreams'[n] \subseteq InOrder'}
    BY <1>1, <2>1
  <2>5. phase' \in Sorting
    BY <1>1 DEF Sorting
  <2>6. QED
    BY <2>2, <2>3, <2>4, <2>5 DEF Sorted
<1>8. SortNeverRaises'
  BY <1>1 DEF SortNeverRaises
<1>9. QED
  BY <1>4, <1>5, <1>6, <1>7, <1>8 DEF Inv

\* What is in the order has all it depends on in the order
LEMMA PlacedClosed ==
  ASSUME Types, OrderIsTopological, NEW n \in InOrder
  PROVE  n \in Nodes /\ upstreams[n] \subseteq InOrder
<1>1. PICK k \in 1 .. Len(order) : n = order[k]
  BY DEF InOrder, Placed
<1>2. Len(order) \in Nat /\ k \in DOMAIN order
  BY DEF Types
<1>3. upstreams[n] \subseteq Placed(k - 1)
  BY <1>1, <1>2 DEF OrderIsTopological
<1>4. Placed(k - 1) \subseteq InOrder
  BY <1>2 DEF Placed, InOrder
<1>5. QED
  BY <1>1, <1>2, <1>3, <1>4 DEF Types

\* Placing a node takes it from what is missing, and makes ready what misses it only
LEMMA PlaceCounts ==
  ASSUME Types, Sorted, phase \in Sorting, NEW n \in ready
  PROVE  /\ \A c \in Nodes :
              Cardinality(upstreams[c] \ (InOrder \cup {n}))
                = IF c \in Children(n) THEN remaining[c] - 1 ELSE remaining[c]
         /\ (ready \ {n}) \cup NewlyReady(n)
              = {c \in Nodes \ (InOrder \cup {n}) : upstreams[c] \subseteq InOrder \cup {n}}
<1>0. n \in Nodes /\ n \notin InOrder /\ upstreams[n] \subseteq InOrder
  BY DEF Sorted
<1>1. \A c \in Nodes : remaining[c] = Cardinality(upstreams[c] \ InOrder)
  BY DEF Sorted
<1>2. ASSUME NEW c \in Nodes
      PROVE  Cardinality(upstreams[c] \ (InOrder \cup {n}))
               = IF c \in Children(n) THEN remaining[c] - 1 ELSE remaining[c]
  <2>1. IsFiniteSet(upstreams[c] \ InOrder)
    BY FiniteUpstreams, FS_Subset
  <2>2. upstreams[c] \ (InOrder \cup {n}) = (upstreams[c] \ InOrder) \ {n}
    OBVIOUS
  <2>3. c \in Children(n) <=> n \in upstreams[c] \ InOrder
    BY <1>0 DEF Children
  <2>4. remaining[c] = Cardinality(upstreams[c] \ InOrder)
    BY <1>1
  <2>5. Cardinality((upstreams[c] \ InOrder) \ {n})
          = IF n \in upstreams[c] \ InOrder THEN remaining[c] - 1 ELSE remaining[c]
    BY <2>1, <2>4, FS_RemoveElement, Zenon
  <2>6. QED
    BY <2>2, <2>3, <2>5, Zenon
<1>3. ASSUME NEW c \in Children(n)
      PROVE  remaining[c] = 1 <=> upstreams[c] \subseteq InOrder \cup {n}
  <2>1. c \in Nodes /\ n \in upstreams[c] \ InOrder
    BY <1>0 DEF Children
  <2>2. IsFiniteSet(upstreams[c] \ InOrder)
    BY <2>1, FiniteUpstreams, FS_Subset
  <2>3. Cardinality(upstreams[c] \ InOrder) = 1 <=> upstreams[c] \ InOrder = {n}
    BY <2>1, <2>2, FS_Singleton
  <2>4. upstreams[c] \ InOrder = {n} <=> upstreams[c] \subseteq InOrder \cup {n}
    BY <2>1
  <2>5. QED
    BY <2>1, <2>3, <2>4, <1>1
<1>4. ASSUME NEW c \in Children(n)
      PROVE  c \in Nodes \ (InOrder \cup {n})
  BY <1>0, PlacedClosed DEF Children, Sorted
<1>5. ready = {c \in Nodes \ InOrder : upstreams[c] \subseteq InOrder}
  BY DEF Sorted
<1>6. \A c \in Nodes : c \notin Children(n) => n \notin upstreams[c]
  BY DEF Children
<1>7. (ready \ {n}) \cup NewlyReady(n)
        = {c \in Nodes \ (InOrder \cup {n}) : upstreams[c] \subseteq InOrder \cup {n}}
  <2>1. ASSUME NEW c \in ready \ {n}
        PROVE  c \in Nodes \ (InOrder \cup {n}) /\ upstreams[c] \subseteq InOrder \cup {n}
    BY <1>5
  <2>2. ASSUME NEW c \in NewlyReady(n)
        PROVE  c \in Nodes \ (InOrder \cup {n}) /\ upstreams[c] \subseteq InOrder \cup {n}
    BY <1>3, <1>4 DEF NewlyReady
  <2>3. ASSUME NEW c \in Nodes \ (InOrder \cup {n}), upstreams[c] \subseteq InOrder \cup {n}
        PROVE  c \in (ready \ {n}) \cup NewlyReady(n)
    <3>1. CASE c \in Children(n)
      BY <3>1, <2>3, <1>3 DEF NewlyReady
    <3>2. CASE c \notin Children(n)
      BY <3>2, <2>3, <1>5, <1>6
    <3>3. QED
      BY <3>1, <3>2
  <2>4. QED
    BY <2>1, <2>2, <2>3
<1>8. QED
  BY <1>2, <1>7

LEMMA PlaceInv ==
  ASSUME Inv, Place
  PROVE  Inv'
<1>1. PICK n \in ready :
        /\ \A m \in ready : n <= m
        /\ order' = Append(order, n)
        /\ ready' = (ready \ {n}) \cup NewlyReady(n)
        /\ remaining' = [c \in Nodes |-> IF c \in Children(n) THEN remaining[c] - 1 ELSE remaining[c]]
  BY DEF Place, TakesFirst
<1>2. /\ phase = "sort" /\ phase \in Sorting
      /\ UNCHANGED <<upstreams, phase, mark, stack, left>>
  BY DEF Place, searchVars, Sorting
<1>3. /\ ready = {c \in Nodes \ InOrder : upstreams[c] \subseteq InOrder}
      /\ n \in Nodes /\ n \notin InOrder /\ upstreams[n] \subseteq InOrder
  BY <1>2 DEF Inv, Sorted
<1>4. /\ Len(order) \in Nat /\ order' \in Seq(Nodes) /\ Len(order') = Len(order) + 1
      /\ order'[Len(order) + 1] = n
      /\ \A k \in 1 .. Len(order) : order'[k] = order[k]
  BY <1>1, <1>3 DEF Inv, Types
<1>5. \A k \in 0 .. Len(order) : Placed(k)' = Placed(k)
  BY <1>4 DEF Placed
<1>6. InOrder' = InOrder \cup {n}
  BY <1>4 DEF InOrder, Placed
<1>7. /\ \A c \in Nodes : remaining'[c] = Cardinality(upstreams[c] \ (InOrder \cup {n}))
      /\ ready' = {c \in Nodes \ (InOrder \cup {n}) : upstreams[c] \subseteq InOrder \cup {n}}
  BY <1>1, <1>2, PlaceCounts DEF Inv
<1>8. Types'
  <2>1. \A c \in Nodes : Cardinality(upstreams[c] \ (InOrder \cup {n})) \in Nat
    <3>1. ASSUME NEW c \in Nodes
          PROVE  Cardinality(upstreams[c] \ (InOrder \cup {n})) \in Nat
      <4>1. IsFiniteSet(upstreams[c] \ (InOrder \cup {n}))
        BY FiniteUpstreams, FS_Subset DEF Inv
      <4>2. QED
        BY <4>1, FS_CardinalityType
    <3>2. QED
      BY <3>1
  <2>2. remaining' \in [Nodes -> Nat]
    <3>1. \A c \in Nodes : remaining'[c] \in Nat
      BY <2>1, <1>7
    <3>2. remaining' = [c \in Nodes |-> remaining'[c]]
      BY <1>1
    <3>3. QED
      BY <3>1, <3>2
  <2>3. ready' \in SUBSET Nodes
    BY <1>7
  <2>4. QED
    BY <1>2, <1>4, <2>2, <2>3 DEF Inv, Types
<1>9. Searching'
  BY <1>2 DEF Inv, Searching
<1>10. Ranked'
  BY <1>2, RanksKept DEF Inv
<1>11. OrderIsTopological'
  <2>1. ASSUME NEW k \in DOMAIN order'
        PROVE  /\ order'[k] \notin Placed(k - 1)'
               /\ upstreams[order'[k]] \subseteq Placed(k - 1)'
               /\ \A m \in Nodes \ Placed(k - 1)' :
                    upstreams[m] \subseteq Placed(k - 1)' => order'[k] <= m
    <3>0. k \in 1 .. Len(order) + 1 /\ k - 1 \in 0 .. Len(order)
      BY <1>4
    <3>a. Placed(k - 1)' = Placed(k - 1)
      BY <3>0, <1>5
    <3>1. CASE k \in 1 .. Len(order)
      <4>1. k \in DOMAIN order /\ order'[k] = order[k]
        BY <3>1, <1>4 DEF Inv, Types
      <4>2. QED
        BY <4>1, <3>a DEF Inv, Sorted, OrderIsTopological
    <3>2. CASE k = Len(order) + 1
      <4>1. order'[k] = n /\ Placed(k - 1) = InOrder
        BY <3>2, <1>4 DEF InOrder
      <4>2. QED
        BY <4>1, <3>a, <1>1, <1>3
    <3>3. QED
      BY <3>0, <3>1, <3>2
  <2>2. QED
    BY <2>1, <1>2 DEF OrderIsTopological
<1>12. Sorted'
  BY <1>2, <1>6, <1>7, <1>11 DEF Sorted
<1>13. SortNeverRaises'
  BY <1>2 DEF SortNeverRaises
<1>14. QED
  BY <1>8, <1>9, <1>10, <1>12, <1>13 DEF Inv

\* When nothing is ready the node of least rank among those missing would be: none is
LEMMA AllPlaced ==
  ASSUME Inv, phase \in Sorting, ready = {}
  PROVE  InOrder = Nodes /\ Len(order) = N
<1>1. PICK r \in [Nodes -> Nat], top \in Nat : Ranks(r, top)
  BY DEF Inv, Ranked
<1>2. \A n \in Nodes : \A m \in upstreams[n] : m \in Nodes /\ r[m] < r[n]
  BY <1>1 DEF Inv, Searching, Ranks, Types
<1>3. InOrder = Nodes
  <2>1. InOrder \subseteq Nodes
    BY PlacedClosed DEF Inv, Sorted
  <2>2. SUFFICES ASSUME Nodes \ InOrder # {} PROVE FALSE
    BY <2>1
  <2>3. PICK S : S = {r[n] : n \in Nodes \ InOrder}
    OBVIOUS
  <2>a. S \in SUBSET Nat /\ S # {}
    BY <1>1, <2>2, <2>3
  <2>b. PICK least \in S : \A k \in S : least <= k
    BY <2>a, LeastElement
  <2>4. PICK n \in Nodes \ InOrder : \A m \in Nodes \ InOrder : r[n] <= r[m]
    BY <2>3, <2>b
  <2>5. upstreams[n] \subseteq InOrder
    BY <1>1, <1>2, <2>4
  <2>6. n \in ready
    BY <2>4, <2>5 DEF Inv, Sorted
  <2>7. QED
    BY <2>6
<1>4. Len(order) \in Nat /\ order \in [1 .. Len(order) -> Nodes] /\ DOMAIN order = 1 .. Len(order)
  BY DEF Inv, Types
<1>5. \A j, k \in 1 .. Len(order) : order[j] = order[k] => j = k
  <2>1. ASSUME NEW j \in 1 .. Len(order), NEW k \in 1 .. Len(order), j < k
        PROVE  order[j] # order[k]
    <3>1. order[k] \notin Placed(k - 1)
      BY <1>4 DEF Inv, Sorted, OrderIsTopological
    <3>2. j \in 1 .. k - 1
      BY <2>1, <1>4
    <3>3. QED
      BY <3>1, <3>2 DEF Placed
  <2>2. QED
    BY <2>1, <1>4
<1>6. \A n \in Nodes : \E k \in 1 .. Len(order) : order[k] = n
  BY <1>3 DEF InOrder, Placed
<1>7. order \in Bijection(1 .. Len(order), Nodes)
  BY <1>4, <1>5, <1>6 DEF Bijection, Injection, Surjection, IsInjective
<1>8. Cardinality(Nodes) = Len(order)
  BY <1>4, <1>7, FS_CountingElements DEF ExistsBijection
<1>9. Cardinality(Nodes) = N
  <2>1. 1 \in Int /\ N \in Int
    BY NodesAssumption
  <2>2. Cardinality(1 .. N) = IF 1 > N THEN 0 ELSE N - 1 + 1
    BY <2>1, FS_Interval
  <2>3. QED
    BY <2>2, NodesAssumption DEF Nodes
<1>10. QED
  BY <1>3, <1>8, <1>9

LEMMA EndSortInv ==
  ASSUME Inv, EndSort
  PROVE  Inv'
<1>1. phase \in Sorting /\ phase' = "walk" /\ UNCHANGED <<upstreams, searchVars, sortVars>>
  BY AllPlaced DEF EndSort, Sorting
<1>2. phase' \in Sorting
  BY <1>1 DEF Sorting
<1>3. Types' /\ Searching' /\ SortNeverRaises'
  BY <1>1, <1>2 DEF Inv, Types, Searching, SortNeverRaises, searchVars, sortVars
<1>a. Sorted'
  BY <1>1, <1>2 DEF Inv, Sorted, OrderIsTopological, InOrder, Placed, sortVars
<1>4. Ranked'
  BY <1>1, RanksKept DEF Inv, searchVars
<1>5. QED
  BY <1>3, <1>a, <1>4 DEF Inv

\* The walks and the stutters touch neither the search nor the sort
LEMMA WalkInv ==
  ASSUME Inv, phase' \in {phase, "done"}, phase' = "done" => phase \in Sorting,
         UNCHANGED <<upstreams, searchVars, sortVars>>
  PROVE  Inv'
<1>1. phase' \in Sorting <=> phase \in Sorting
  BY DEF Sorting
<1>2. Types' /\ Searching' /\ SortNeverRaises'
  BY <1>1 DEF Inv, Types, Searching, SortNeverRaises, searchVars, sortVars
<1>3. Sorted'
  BY <1>1 DEF Inv, Sorted, OrderIsTopological, InOrder, Placed, sortVars
<1>4. Ranked'
  BY RanksKept DEF Inv, searchVars
<1>5. QED
  BY <1>2, <1>3, <1>4 DEF Inv

\* The search leaves the sort alone
LEMMA SearchInv ==
  ASSUME Inv, Types', Searching', Ranked', phase \in {"search", "cyclic"}, phase' \in {"search", "cyclic"},
         UNCHANGED <<upstreams, sortVars>>
  PROVE  Inv'
<1>1. phase' \notin Sorting /\ order' = <<>>
  BY DEF Inv, Sorted, Sorting, sortVars
<1>2. Sorted' /\ SortNeverRaises'
  BY <1>1 DEF Sorted, SortNeverRaises, OrderIsTopological
<1>3. QED
  BY <1>2 DEF Inv

------------------------------------------------------------------------------
(* The theorems                                                              *)

LEMMA InitInv ==
  ASSUME Init
  PROVE  Inv
<1>1. /\ upstreams \in [Nodes -> SUBSET Nodes] /\ phase = "search"
      /\ mark = [n \in Nodes |-> 0] /\ stack = <<>> /\ left = [n \in Nodes |-> {}]
      /\ remaining = [n \in Nodes |-> 0] /\ ready = {} /\ order = <<>>
  BY DEF Init, InitWith
<1>2. Types
  BY <1>1 DEF Types
<1>3. Searching
  BY <1>1 DEF Searching, Sorting
<1>4. Ranked
  <2>1. Ranks([n \in Nodes |-> 0], 0)
    BY <1>1 DEF Ranks
  <2>2. [n \in Nodes |-> 0] \in [Nodes -> Nat]
    OBVIOUS
  <2>3. QED
    BY <2>1, <2>2 DEF Ranked
<1>5. Sorted /\ SortNeverRaises
  BY <1>1 DEF Sorted, SortNeverRaises, OrderIsTopological, Sorting
<1>6. QED
  BY <1>2, <1>3, <1>4, <1>5 DEF Inv

LEMMA NextInv ==
  ASSUME Inv, [Next]_vars
  PROVE  Inv'
<1>1. CASE OpenNext
  <2>1. Types' /\ Searching'
    BY <1>1, OpenNextInv DEF Inv
  <2>2. Ranked'
    <3>1. \A n \in Nodes : (mark'[n] = 2) <=> (mark[n] = 2)
      BY <1>1 DEF OpenNext, Visit, Inv, Types
    <3>2. QED
      BY <1>1, <3>1, RanksKept DEF OpenNext, Inv
  <2>3. QED
    BY <1>1, <2>1, <2>2, SearchInv DEF OpenNext
<1>2. CASE Descend
  <2>1. Types' /\ Searching'
    BY <1>2, DescendInv DEF Inv
  <2>2. Ranked'
    <3>1. \A n \in Nodes : (mark'[n] = 2) <=> (mark[n] = 2)
      BY <1>2, StackFacts DEF Descend, Visit, Inv, Types
    <3>2. QED
      BY <1>2, <3>1, RanksKept DEF Descend, Inv
  <2>3. QED
    BY <1>2, <2>1, <2>2, SearchInv DEF Descend
<1>3. CASE PassDone
  BY <1>3, PassDoneInv, RanksKept, SearchInv DEF PassDone, Inv
<1>4. CASE FindCycle
  BY <1>4, FindCycleInv, RanksKept, SearchInv DEF FindCycle, Inv
<1>5. CASE Close
  BY <1>5, CloseInv, CloseRanks, SearchInv DEF Close, Inv
<1>6. CASE BeginSort
  BY <1>6, BeginSortInv
<1>7. CASE Place
  BY <1>7, PlaceInv
<1>8. CASE EndSort
  BY <1>8, EndSortInv
<1>9. CASE Walk
  BY <1>9, WalkInv DEF Walk
<1>10. CASE EndWalk
  BY <1>10, WalkInv DEF EndWalk, Sorting
<1>11. CASE UNCHANGED vars
  BY <1>11, WalkInv DEF vars, Inv, Sorting
<1>12. QED
  BY <1>1, <1>2, <1>3, <1>4, <1>5, <1>6, <1>7, <1>8, <1>9, <1>10, <1>11 DEF Next, Step, Rest

LEMMA Invariance == Spec => []Inv
<1>1. Init => Inv
  BY InitInv
<1>2. Inv /\ [Next]_vars => Inv'
  BY NextInv
<1>3. QED
  BY <1>1, <1>2, PTL DEF Spec

\* The order topological_sort returns lists every node after all it depends on, and
\* among the nodes that could come next always the one declared first: for a graph of
\* any size, not only those the run enumerates.
THEOREM OrderCorrect == Spec => []OrderIsTopological
<1>1. Inv => OrderIsTopological
  BY DEF Inv, Sorted
<1>2. QED
  BY <1>1, Invariance, PTL

\* A graph that find_cycle passes never makes topological_sort raise its ValueError:
\* the search closes nodes in an order in which each is above all it depends on, so
\* whenever nodes are missing from the order one of them is ready.
THEOREM SortSucceeds == Spec => []SortNeverRaises
<1>1. Inv => SortNeverRaises
  BY DEF Inv
<1>2. QED
  BY <1>1, Invariance, PTL

\* The cycle is the part of the stack from the open node found again to the top
LEMMA CycleFound ==
  ASSUME Types, Searching, FindCycle
  PROVE  CycleIsReal'
<1>0. PICK top \in Nodes : top = Top /\ top = stack[Len(stack)] /\ Len(stack) \in Nat \ {0}
  BY StackFacts DEF FindCycle
<1>1. PICK m \in left[top] : mark[m] = 1 /\ cycle' = CycleThrough(m)
  BY <1>0 DEF FindCycle
<1>2. m \in Nodes /\ m \in upstreams[top]
  <2>1. Len(stack) \in 1 .. Len(stack)
    BY <1>0
  <2>2. left[top] \subseteq upstreams[top]
    BY <2>1, <1>0 DEF Searching
  <2>3. QED
    BY <2>2, <1>0 DEF Types
<1>3. PICK s \in 1 .. Len(stack) :
        stack[s] = m /\ cycle' = Append(SubSeq(stack, s, Len(stack)), m)
  <2>1. \E k \in 1 .. Len(stack) : stack[k] = m
    BY <1>1, <1>2 DEF Searching
  <2>2. QED
    BY <2>1, <1>1 DEF CycleThrough
<1>4. PICK path : path = SubSeq(stack, s, Len(stack))
  OBVIOUS
<1>5. /\ path \in Seq(Nodes) /\ Len(path) = Len(stack) - s + 1
      /\ \A k \in 1 .. Len(path) : path[k] = stack[s + k - 1]
  <2>1. stack \in Seq(Nodes) /\ s \in Nat /\ 1 <= s /\ s <= Len(stack)
    BY <1>0, <1>3 DEF Types
  <2>2. \A k \in s .. Len(stack) : stack[k] \in Nodes
    BY <2>1
  <2>3. Len(path) = Len(stack) - s + 1 /\ path \in Seq(Nodes)
    BY <2>1, <2>2, <1>4
  <2>4. \A k \in 1 .. Len(stack) - s + 1 : path[k] = stack[s + k - 1]
    BY <2>1, <1>4
  <2>5. QED
    BY <2>3, <2>4
<1>6. /\ Len(cycle') = Len(path) + 1 /\ cycle'[Len(path) + 1] = m
      /\ \A k \in 1 .. Len(path) : cycle'[k] = stack[s + k - 1]
  BY <1>2, <1>3, <1>4, <1>5
<1>7. Len(path) \in Nat /\ Len(path) >= 1
  BY <1>0, <1>3, <1>5
<1>8. cycle'[1] = cycle'[Len(cycle')]
  BY <1>0, <1>3, <1>6, <1>7
<1>9. ASSUME NEW k \in 1 .. Len(path)
      PROVE  cycle'[k + 1] \in upstreams[cycle'[k]]
  <2>1. CASE k = Len(path)
    BY <2>1, <1>0, <1>2, <1>3, <1>5, <1>6, <1>7
  <2>2. CASE k < Len(path)
    <3>1. s + k - 1 \in 1 .. Len(stack) - 1 /\ k + 1 \in 1 .. Len(path)
      BY <2>2, <1>0, <1>3, <1>5
    <3>2. stack[(s + k - 1) + 1] \in upstreams[stack[s + k - 1]]
      BY <3>1 DEF Searching
    <3>3. cycle'[k + 1] = stack[(s + k - 1) + 1] /\ cycle'[k] = stack[s + k - 1]
      BY <3>1, <1>0, <1>3, <1>6
    <3>4. QED
      BY <3>2, <3>3
  <2>3. QED
    BY <2>1, <2>2, <1>7
<1>10. ASSUME NEW j \in 1 .. Len(path), NEW k \in 1 .. Len(path), j < k
       PROVE  cycle'[j] # cycle'[k]
  <2>1. s + j - 1 \in 1 .. Len(stack) /\ s + k - 1 \in 1 .. Len(stack) /\ s + j - 1 < s + k - 1
    BY <1>10, <1>0, <1>3, <1>5
  <2>2. stack[s + j - 1] # stack[s + k - 1]
    BY <2>1 DEF Searching
  <2>3. QED
    BY <2>2, <1>6
<1>11. Len(cycle') > 1 /\ Len(cycle') - 1 = Len(path)
  BY <1>6, <1>7
<1>12. UNCHANGED upstreams
  BY DEF FindCycle
<1>13. QED
  BY <1>8, <1>9, <1>10, <1>11, <1>12 DEF CycleIsReal

\* What find_cycle reports is a cycle of the graph that goes through no node twice,
\* whatever the graph and the order its upstreams are looked at in.
THEOREM CycleCorrect == Spec => []CycleIsReal
<1>1. Init => CycleIsReal
  BY DEF Init, InitWith, CycleIsReal
<1>2. Inv /\ CycleIsReal /\ [Next]_vars => CycleIsReal'
  <2>1. SUFFICES ASSUME Inv, CycleIsReal, [Next]_vars PROVE CycleIsReal'
    OBVIOUS
  <2>2. CASE FindCycle
    BY <2>1, <2>2, CycleFound DEF Inv
  <2>3. CASE UNCHANGED vars
    BY <2>1, <2>3 DEF vars, searchVars, CycleIsReal
  <2>4. CASE phase' # "cyclic"
    BY <2>4 DEF CycleIsReal
  <2>5. FindCycle \/ UNCHANGED vars \/ phase' # "cyclic"
    BY <2>1 DEF Next, Step, Rest, OpenNext, Descend, PassDone, Close, BeginSort, Place,
                EndSort, Walk, EndWalk
  <2>6. QED
    BY <2>2, <2>3, <2>4, <2>5
<1>3. QED
  BY <1>1, <1>2, Invariance, PTL DEF Spec

------------------------------------------------------------------------------
(* The walks along the order                                                 *)

\* A node is one level below the deepest of its upstreams
Leveled(n) ==
  IF upstreams[n] = {} THEN levels[n] = 0
  ELSE \E m \in upstreams[n] :
         levels[n] = levels[m] + 1 /\ \A o \in upstreams[n] : levels[o] <= levels[m]

\* Its closure is what its upstreams are and depend on, and it keeps those of its
\* upstreams that none of them depends on
Closed(n) ==
  closure[n] = Implied(n) \cup upstreams[n] /\ reduced[n] = upstreams[n] \ Implied(n)

Walking ==
  /\ walked \in Nat /\ walked <= Len(order)
  /\ phase \notin {"walk", "done"} => walked = 0
  /\ phase \in {"walk", "done"} => InOrder = Nodes /\ Len(order) = N
  /\ phase = "done" => walked = Len(order)
  /\ levels \in [Nodes -> Nat]
  /\ closure \in [Nodes -> SUBSET Nodes] /\ reduced \in [Nodes -> SUBSET Nodes]
  /\ \A k \in 1 .. walked :
       levels[order[k]] < k /\ Leveled(order[k]) /\ Closed(order[k])

\* The deepest upstream exists, since those before a node in the order have levels
LEMMA DeepestFacts ==
  ASSUME NEW f \in [Nodes -> Nat], NEW ups \in SUBSET Nodes, ups # {}, NEW top \in Nat,
         \A m \in ups : f[m] < top
  PROVE  \E m \in ups : \A o \in ups : f[o] <= f[m]
<1> DEFINE Above == {u \in Nat : \A m \in ups : f[m] <= u}
<1>1. top \in Above
  <2>1. \A m \in ups : f[m] \in Nat
    OBVIOUS
  <2>2. QED
    BY <2>1
<1>2. PICK u \in Above : \A v \in Above : u <= v
  BY <1>1, LeastElement
<1>3. SUFFICES ASSUME \A m \in ups : f[m] # u PROVE FALSE
  BY <1>2
<1>4. \A m \in ups : f[m] \in Nat /\ f[m] < u
  BY <1>2, <1>3
<1>5. u - 1 \in Nat /\ ~ (u <= u - 1)
  BY <1>2, <1>4
<1>6. u - 1 \in Above
  BY <1>4, <1>5
<1>7. QED
  BY <1>2, <1>5, <1>6

LEMMA OrderDistinct ==
  ASSUME Inv, NEW j \in 1 .. Len(order), NEW k \in 1 .. Len(order), order[j] = order[k]
  PROVE  j = k
<1>1. Len(order) \in Nat /\ DOMAIN order = 1 .. Len(order)
  BY DEF Inv, Types
<1>2. ASSUME NEW a \in 1 .. Len(order), NEW b \in 1 .. Len(order), a < b
      PROVE  order[a] # order[b]
  <2>1. order[b] \notin Placed(b - 1)
    BY <1>1 DEF Inv, Sorted, OrderIsTopological
  <2>2. a \in 1 .. b - 1
    BY <1>1, <1>2
  <2>3. QED
    BY <2>1, <2>2 DEF Placed
<1>3. QED
  BY <1>1, <1>2

\* One more node is walked: what was said of those before it stands
LEMMA WalkStep ==
  ASSUME Inv, Walking, Walk
  PROVE  Walking'
<1>1. PICK n, k : n = order[walked + 1] /\ k = walked + 1
  OBVIOUS
<1>2. /\ phase = "walk" /\ walked \in Nat /\ walked < Len(order) /\ walked' = k
      /\ levels' = [levels EXCEPT ![n] = IF upstreams[n] = {} THEN 0 ELSE 1 + DeepestAbove(n)]
      /\ reduced' = [reduced EXCEPT ![n] = upstreams[n] \ Implied(n)]
      /\ closure' = [closure EXCEPT ![n] = Implied(n) \cup upstreams[n]]
      /\ UNCHANGED <<upstreams, phase, order>>
  BY <1>1 DEF Walk, Walking, sortVars
<1>3. /\ Len(order) \in Nat /\ DOMAIN order = 1 .. Len(order) /\ k \in 1 .. Len(order)
      /\ order \in Seq(Nodes) /\ upstreams \in [Nodes -> SUBSET Nodes]
  BY <1>1, <1>2 DEF Inv, Types
<1>4. n \in Nodes /\ n = order[k]
  BY <1>1, <1>3
<1>5. /\ levels \in [Nodes -> Nat]
      /\ closure \in [Nodes -> SUBSET Nodes] /\ reduced \in [Nodes -> SUBSET Nodes]
  BY DEF Walking
\* Whatever is walked has its upstreams before it
<1>6. ASSUME NEW j \in 1 .. k, NEW m \in upstreams[order[j]]
      PROVE  \E i \in 1 .. j - 1 : m = order[i]
  <2>1. upstreams[order[j]] \subseteq Placed(j - 1)
    BY <1>3 DEF Inv, Sorted, OrderIsTopological
  <2>2. QED
    BY <2>1 DEF Placed
<1>7. ASSUME NEW j \in 1 .. walked PROVE order[j] # n
  BY <1>1, <1>2, <1>3, <1>4, OrderDistinct
<1>8. ASSUME NEW j \in 1 .. k, NEW m \in upstreams[order[j]] PROVE m # n /\ m \in Nodes
  <2>1. PICK i \in 1 .. j - 1 : m = order[i]
    BY <1>6
  <2>2. i \in 1 .. walked
    BY <1>1, <1>2
  <2>3. QED
    BY <1>2, <1>3, <1>7, <2>1, <2>2
<1>9. \A m \in Nodes \ {n} : levels'[m] = levels[m] /\ closure'[m] = closure[m]
  BY <1>2, <1>5
<1>10. \A o \in {order[j] : j \in 1 .. k} :
         \A m \in upstreams[o] : levels'[m] = levels[m] /\ closure'[m] = closure[m]
  BY <1>8, <1>9
<1>11. \A o \in {order[j] : j \in 1 .. k} : Implied(o)' = Implied(o)
  BY <1>2, <1>10 DEF Implied
<1>12. ASSUME NEW j \in 1 .. walked
       PROVE  levels'[order[j]] < j /\ Leveled(order[j])' /\ Closed(order[j])'
  <2>1. PICK o : o = order[j]
    OBVIOUS
  <2>2. j \in 1 .. k /\ j \in 1 .. Len(order) /\ o \in Nodes /\ o # n
    BY <1>1, <1>2, <1>3, <1>7, <2>1
  <2>3. levels[o] < j /\ Leveled(o) /\ Closed(o)
    BY <2>1 DEF Walking
  <2>4. levels'[o] = levels[o] /\ closure'[o] = closure[o] /\ reduced'[o] = reduced[o]
    BY <1>2, <1>5, <2>2
  <2>5. \A m \in upstreams[o] : levels'[m] = levels[m]
    BY <1>10, <2>1, <2>2
  <2>6. Implied(o)' = Implied(o)
    BY <1>11, <2>1, <2>2
  <2>7. Leveled(o)'
    BY <1>2, <2>3, <2>4, <2>5 DEF Leveled
  <2>8. Closed(o)'
    BY <1>2, <2>3, <2>4, <2>6 DEF Closed
  <2>9. QED
    BY <1>2, <2>1, <2>3, <2>4, <2>7, <2>8
<1>13. levels'[n] < k /\ levels'[n] \in Nat /\ Leveled(n)'
  <2>1. k \in 1 .. k
    BY <1>3
  <2>2. \A m \in upstreams[n] : m \in Nodes /\ levels[m] < walked /\ levels'[m] = levels[m]
    <3>1. SUFFICES ASSUME NEW m \in upstreams[n]
                   PROVE  m \in Nodes /\ levels[m] < walked /\ levels'[m] = levels[m]
      OBVIOUS
    <3>2. PICK i \in 1 .. k - 1 : m = order[i]
      BY <1>4, <1>6, <2>1
    <3>3. i \in 1 .. walked /\ i <= walked /\ m \in Nodes
      BY <1>1, <1>2, <1>3, <3>2
    <3>4. levels[m] < i
      BY <3>2, <3>3 DEF Walking
    <3>5. levels[m] \in Nat
      BY <1>5, <3>3
    <3>6. levels'[m] = levels[m]
      BY <1>4, <1>10, <2>1
    <3>7. QED
      BY <1>2, <3>3, <3>4, <3>5, <3>6
  <2>3. CASE upstreams[n] = {}
    <3>1. levels'[n] = 0
      BY <1>2, <1>4, <1>5, <2>3
    <3>2. Leveled(n)'
      BY <1>2, <2>3, <3>1 DEF Leveled
    <3>3. QED
      BY <1>1, <1>2, <3>1, <3>2
  <2>4. CASE upstreams[n] # {}
    <3>1. upstreams[n] \in SUBSET Nodes
      BY <1>3, <1>4
    <3>2. PICK m \in upstreams[n] : \A o \in upstreams[n] : levels[o] <= levels[m]
      BY <1>2, <1>5, <2>2, <2>4, <3>1, DeepestFacts
    <3>3. /\ DeepestAbove(n) \in {levels[o] : o \in upstreams[n]}
          /\ \A o \in upstreams[n] : DeepestAbove(n) >= levels[o]
      <4>1. levels[m] \in {levels[o] : o \in upstreams[n]}
        OBVIOUS
      <4>2. \A o \in upstreams[n] : levels[o] \in Nat
        BY <1>5, <3>1
      <4>3. \A o \in upstreams[n] : levels[m] >= levels[o]
        BY <3>2, <4>2
      <4>4. QED
        BY <4>1, <4>3 DEF DeepestAbove
    <3>4. PICK d \in upstreams[n] : DeepestAbove(n) = levels[d]
      BY <3>3
    <3>5. levels[d] \in Nat /\ levels[d] < walked
      BY <1>5, <2>2
    <3>6. levels'[n] = 1 + levels[d]
      BY <1>2, <1>4, <1>5, <2>4, <3>4
    <3>7. \A o \in upstreams[n] : levels[o] <= levels[d]
      <4>1. \A o \in upstreams[n] : levels[o] \in Nat
        BY <1>5, <3>1
      <4>2. QED
        BY <3>3, <3>4, <3>5, <4>1
    <3>8. Leveled(n)'
      <4>1. levels'[n] = levels'[d] + 1
        BY <2>2, <3>5, <3>6
      <4>2. \A o \in upstreams[n] : levels'[o] <= levels'[d]
        BY <2>2, <3>7
      <4>3. QED
        BY <1>2, <2>4, <4>1, <4>2 DEF Leveled
    <3>9. QED
      BY <1>1, <1>2, <3>5, <3>6, <3>8
  <2>5. QED
    BY <2>3, <2>4
<1>14. Closed(n)'
  <2>1. Implied(n)' = Implied(n)
    <3>1. k \in 1 .. k
      BY <1>3
    <3>2. QED
      BY <1>4, <1>11, <3>1
  <2>2. QED
    BY <1>2, <1>4, <1>5, <2>1 DEF Closed
<1>15. Implied(n) \subseteq Nodes
  BY <1>3, <1>4, <1>5 DEF Implied
<1>16. /\ levels' \in [Nodes -> Nat]
       /\ closure' \in [Nodes -> SUBSET Nodes] /\ reduced' \in [Nodes -> SUBSET Nodes]
  <2>1. upstreams[n] \subseteq Nodes
    BY <1>3, <1>4
  <2>2. levels' \in [Nodes -> Nat]
    <3>1. levels' = [levels EXCEPT ![n] = levels'[n]]
      BY <1>2, <1>4, <1>5
    <3>2. QED
      BY <1>5, <1>13, <3>1
  <2>3. QED
    BY <1>2, <1>5, <1>15, <2>1, <2>2
<1>17. (\A j \in 1 .. walked : levels[order[j]] < j /\ Leveled(order[j]) /\ Closed(order[j]))'
  <2>1. order' = order /\ walked' = k
    BY <1>2
  <2>2. SUFFICES ASSUME NEW j \in 1 .. walked'
                 PROVE  (levels[order[j]] < j /\ Leveled(order[j]) /\ Closed(order[j]))'
    OBVIOUS
  <2>3. PICK o : o = order[j]
    OBVIOUS
  <2>4. j \in 1 .. walked \/ (j = k /\ o = n)
    BY <1>1, <1>2, <1>4, <2>1, <2>3
  <2>5. levels'[o] < j /\ Leveled(o)' /\ Closed(o)'
    <3>1. CASE j \in 1 .. walked
      <4>1. levels'[order[j]] < j /\ Leveled(order[j])' /\ Closed(order[j])'
        BY <1>12, <3>1
      <4>2. QED
        BY <2>1, <2>3, <4>1
    <3>2. CASE j = k /\ o = n
      BY <1>13, <1>14, <3>2
    <3>3. QED
      BY <2>4, <3>1, <3>2
  <2>6. o = order'[j]
    BY <2>1, <2>3
  <2>7. QED
    BY <2>5, <2>6
<1>18. InOrder' = Nodes /\ Len(order') = N
  BY <1>2 DEF Walking, InOrder, Placed
<1>19. walked' \in Nat /\ walked' <= Len(order') /\ phase' = "walk"
  BY <1>1, <1>2, <1>3
<1>20. QED
  BY <1>16, <1>17, <1>18, <1>19 DEF Walking

\* Nothing else touches the walks, and they begin where the sort ends
LEMMA WalkingNext ==
  ASSUME Inv, Walking, [Next]_vars
  PROVE  Walking'
<1>1. CASE Walk
  BY <1>1, WalkStep
<1>2. CASE EndSort
  <2>1. InOrder = Nodes /\ Len(order) = N
    BY <1>2, AllPlaced DEF EndSort, Sorting
  <2>2. phase' = "walk" /\ walked = 0 /\ UNCHANGED <<upstreams, order, walkVars>>
    BY <1>2, <2>1 DEF EndSort, Walking, sortVars
  <2>3. InOrder' = Nodes /\ Len(order') = N
    BY <2>1, <2>2 DEF InOrder, Placed
  <2>4. walked' = 0 /\ 1 .. walked' = {}
    BY <2>2 DEF walkVars
  <2>5. Len(order) \in Nat
    BY DEF Inv, Types
  <2>6. QED
    BY <2>2, <2>3, <2>4, <2>5 DEF Walking, walkVars
<1>a. ASSUME UNCHANGED <<upstreams, order, walkVars>>, phase' # phase => phase = "walk" /\ phase' = "done" /\ walked = Len(order)
      PROVE  Walking'
  <2>1. /\ walked' = walked /\ levels' = levels /\ closure' = closure /\ reduced' = reduced
        /\ order' = order /\ upstreams' = upstreams
    BY <1>a DEF walkVars
  <2>2. \A o : Implied(o)' = Implied(o)
    BY <2>1 DEF Implied
  <2>3. \A o : Leveled(o) => Leveled(o)'
    BY <2>1 DEF Leveled
  <2>4. \A o : Closed(o) => Closed(o)'
    BY <2>1, <2>2 DEF Closed
  <2>5. InOrder' = InOrder
    BY <2>1 DEF InOrder, Placed
  <2>6. (\A k \in 1 .. walked : levels[order[k]] < k /\ Leveled(order[k]) /\ Closed(order[k]))'
    <3>1. SUFFICES ASSUME NEW k \in 1 .. walked
                   PROVE  levels'[order[k]] < k /\ Leveled(order[k])' /\ Closed(order[k])'
      BY <2>1
    <3>2. PICK o : o = order[k]
      OBVIOUS
    <3>3. levels[o] < k /\ Leveled(o) /\ Closed(o)
      BY <3>2 DEF Walking
    <3>4. levels'[o] < k /\ Leveled(o)' /\ Closed(o)'
      BY <2>1, <2>3, <2>4, <3>3
    <3>5. order'[k] = o
      BY <2>1, <3>2
    <3>6. QED
      BY <2>1, <3>2, <3>4, <3>5
  <2>7. /\ walked \in Nat /\ walked <= Len(order)
        /\ levels \in [Nodes -> Nat]
        /\ closure \in [Nodes -> SUBSET Nodes] /\ reduced \in [Nodes -> SUBSET Nodes]
    BY DEF Walking
  <2>8. /\ phase \notin {"walk", "done"} => walked = 0
        /\ phase \in {"walk", "done"} => InOrder = Nodes /\ Len(order) = N
        /\ phase = "done" => walked = Len(order)
    BY DEF Walking
  <2>9. /\ phase' \notin {"walk", "done"} => walked' = 0
        /\ phase' \in {"walk", "done"} => InOrder' = Nodes /\ Len(order') = N
        /\ phase' = "done" => walked' = Len(order')
    BY <1>a, <2>1, <2>5, <2>8
  <2>10. QED
    BY <2>1, <2>6, <2>7, <2>9 DEF Walking
<1>3. CASE EndWalk
  BY <1>3, <1>a DEF EndWalk, sortVars
<1>4. CASE UNCHANGED vars
  BY <1>4, <1>a DEF vars, sortVars
<1>5. ASSUME phase \notin {"walk", "done"}, phase' \notin {"walk", "done"}, UNCHANGED walkVars,
             Len(order') \in Nat
      PROVE  Walking'
  BY <1>5 DEF Walking, walkVars
<1>6. Len(order') \in Nat
  BY NextInv DEF Inv, Types
<1>7. CASE Step /\ ~ Walk /\ ~ EndSort /\ ~ EndWalk
  <2>1. phase \notin {"walk", "done"} /\ phase' \notin {"walk", "done"} /\ UNCHANGED walkVars
    BY <1>7 DEF Step, OpenNext, Descend, PassDone, FindCycle, Close, BeginSort, Place
  <2>2. QED
    BY <1>5, <1>6, <2>1
<1>8. QED
  BY <1>1, <1>2, <1>3, <1>4, <1>7 DEF Next, Rest

LEMMA WalkInvariance == Spec => [](Inv /\ Walking)
<1>1. Init => Walking
  BY DEF Init, InitWith, Walking
<1>2. Inv /\ Walking /\ [Next]_vars => Walking'
  BY WalkingNext
<1>3. QED
  BY <1>1, <1>2, Invariance, PTL DEF Spec

\* What the walks leave behind, and the place of each node in the order
At(n) == CHOOSE k \in 1 .. Len(order) : order[k] = n

LEMMA PlaceFacts ==
  ASSUME Inv, Walking, phase = "done"
  PROVE  /\ Len(order) = N
         /\ upstreams \in [Nodes -> SUBSET Nodes] /\ closure \in [Nodes -> SUBSET Nodes]
         /\ reduced \in [Nodes -> SUBSET Nodes] /\ levels \in [Nodes -> Nat]
         /\ \A n \in Nodes : At(n) \in Nodes
         /\ \A n \in Nodes : levels[n] < N /\ Leveled(n) /\ Closed(n)
         /\ \A n \in Nodes : \A m \in upstreams[n] : At(m) < At(n)
<1>1. /\ Len(order) = N /\ InOrder = Nodes /\ walked = N
      /\ upstreams \in [Nodes -> SUBSET Nodes] /\ closure \in [Nodes -> SUBSET Nodes]
      /\ reduced \in [Nodes -> SUBSET Nodes] /\ levels \in [Nodes -> Nat]
      /\ DOMAIN order = 1 .. N
  BY DEF Inv, Types, Walking
<1>2. ASSUME NEW n \in Nodes
      PROVE  At(n) \in 1 .. N /\ order[At(n)] = n
  <2>1. \E k \in 1 .. Len(order) : order[k] = n
    BY <1>1 DEF InOrder, Placed
  <2>2. QED
    BY <1>1, <2>1 DEF At
<1>3. ASSUME NEW n \in Nodes
      PROVE  levels[n] < N /\ Leveled(n) /\ Closed(n)
  <2>1. PICK k : k = At(n)
    OBVIOUS
  <2>2. k \in 1 .. N /\ order[k] = n
    BY <1>2, <2>1
  <2>3. levels[n] < k /\ Leveled(n) /\ Closed(n)
    BY <1>1, <2>2 DEF Walking
  <2>4. QED
    BY <1>1, <2>2, <2>3, NodesAssumption
<1>4. ASSUME NEW n \in Nodes, NEW m \in upstreams[n]
      PROVE  At(m) < At(n)
  <2>1. PICK k : k = At(n) /\ k \in 1 .. N /\ order[k] = n
    BY <1>2
  <2>2. m \in Nodes
    BY <1>1
  <2>3. PICK i : i = At(m) /\ i \in 1 .. N /\ order[i] = m
    BY <1>2, <2>2
  <2>4. upstreams[order[k]] \subseteq Placed(k - 1)
    BY <1>1, <2>1 DEF Inv, Sorted, OrderIsTopological
  <2>5. PICK j \in 1 .. k - 1 : order[j] = m
    BY <2>1, <2>4 DEF Placed
  <2>6. j \in 1 .. Len(order) /\ i \in 1 .. Len(order)
    BY <1>1, <2>1, <2>3, NodesAssumption
  <2>7. j = i
    BY <2>3, <2>5, <2>6, OrderDistinct
  <2>8. QED
    BY <2>1, <2>3, <2>5, <2>7
<1>5. QED
  BY <1>1, <1>2, <1>3, <1>4 DEF Nodes

------------------------------------------------------------------------------
(* The levels                                                                *)

ChainOf(l, c) ==
  c \in [1 .. l -> Nodes] /\ \A k \in 1 .. l - 1 : c[k] \in upstreams[c[k + 1]]

LEMMA ChainFacts ==
  ASSUME NEW l \in Nat, NEW c \in [1 .. l -> Nodes]
  PROVE  Len(c) = l
<1>1. c \in Seq(Nodes)
  BY SeqDef
<1>2. Len(c) \in Nat /\ DOMAIN c = 1 .. Len(c)
  BY <1>1, LenProperties
<1>3. 1 .. Len(c) = 1 .. l
  BY <1>2
<1>4. \A i \in Nat : 1 .. i = 1 .. l => i = l
  <2>1. SUFFICES ASSUME NEW i \in Nat, 1 .. i = 1 .. l PROVE i = l
    OBVIOUS
  <2>2. (i \in 1 .. i <=> i >= 1) /\ (l \in 1 .. l <=> l >= 1)
    OBVIOUS
  <2>3. i \in 1 .. l <=> i >= 1 /\ i <= l
    OBVIOUS
  <2>4. l \in 1 .. i <=> l >= 1 /\ l <= i
    OBVIOUS
  <2>5. QED
    BY <2>1, <2>2, <2>3, <2>4
<1>5. QED
  BY <1>2, <1>3, <1>4

LEMMA ChainsAre ==
  /\ \A c \in Chains : Len(c) \in 1 .. N /\ ChainOf(Len(c), c)
  /\ \A l \in 1 .. N : \A c : ChainOf(l, c) => c \in Chains /\ Len(c) = l
<1>1. ASSUME NEW c \in Chains
      PROVE  Len(c) \in 1 .. N /\ ChainOf(Len(c), c)
  <2>1. PICK l \in 1 .. N : c \in [1 .. l -> Nodes]
    BY DEF Chains
  <2>2. Len(c) = l
    BY <2>1, ChainFacts
  <2>3. QED
    BY <2>1, <2>2 DEF Chains, ChainOf
<1>2. ASSUME NEW l \in 1 .. N, NEW c, ChainOf(l, c)
      PROVE  c \in Chains /\ Len(c) = l
  <2>1. c \in [1 .. l -> Nodes] /\ l \in Nat
    BY <1>2 DEF ChainOf
  <2>2. Len(c) = l
    BY <2>1, ChainFacts
  <2>3. QED
    BY <1>2, <2>1, <2>2 DEF Chains, ChainOf
<1>3. QED
  BY <1>1, <1>2

\* Along a chain of upstreams the level rises with every node
LEMMA LevelsRise ==
  ASSUME Inv, Walking, phase = "done"
  PROVE  \A l \in Nat \ {0} : \A c : ChainOf(l, c) => l <= levels[c[l]] + 1
<1> DEFINE S == {i \in Nat : \A c : ChainOf(i + 1, c) => i <= levels[c[i + 1]]}
<1>1. upstreams \in [Nodes -> SUBSET Nodes] /\ levels \in [Nodes -> Nat]
  BY PlaceFacts
<1>2. 0 \in S
  <2>1. SUFFICES ASSUME NEW c, ChainOf(1, c) PROVE 0 <= levels[c[1]]
    OBVIOUS
  <2>2. c[1] \in Nodes
    BY <2>1 DEF ChainOf
  <2>3. QED
    BY <1>1, <2>2
<1>3. ASSUME NEW i \in Nat, i \in S PROVE i + 1 \in S
  <2>1. SUFFICES ASSUME NEW c, ChainOf(i + 2, c) PROVE i + 1 <= levels[c[i + 2]]
    <3>1. (i + 1) + 1 = i + 2
      OBVIOUS
    <3>2. QED
      BY <2>1, <3>1
  <2>2. PICK d : d = [k \in 1 .. i + 1 |-> c[k]]
    OBVIOUS
  <2>3. ChainOf(i + 1, d)
    <3>1. \A k \in 1 .. i + 1 : k \in 1 .. i + 2 /\ d[k] = c[k]
      BY <2>2
    <3>2. d \in [1 .. i + 1 -> Nodes]
      BY <2>1, <2>2, <3>1 DEF ChainOf
    <3>3. ASSUME NEW k \in 1 .. (i + 1) - 1 PROVE d[k] \in upstreams[d[k + 1]]
      <4>1. k \in 1 .. i + 1 /\ k + 1 \in 1 .. i + 1 /\ k \in 1 .. (i + 2) - 1
        OBVIOUS
      <4>2. c[k] \in upstreams[c[k + 1]]
        BY <2>1, <4>1 DEF ChainOf
      <4>3. QED
        BY <3>1, <4>1, <4>2
    <3>4. QED
      BY <3>2, <3>3 DEF ChainOf
  <2>4. i <= levels[d[i + 1]] /\ d[i + 1] = c[i + 1]
    BY <1>3, <2>2, <2>3
  <2>5. c[i + 1] \in upstreams[c[i + 2]] /\ c[i + 1] \in Nodes /\ c[i + 2] \in Nodes
    <3>1. i + 1 \in 1 .. (i + 2) - 1 /\ (i + 1) + 1 = i + 2 /\ i + 1 \in 1 .. i + 2 /\ i + 2 \in 1 .. i + 2
      OBVIOUS
    <3>2. c[i + 1] \in upstreams[c[(i + 1) + 1]]
      BY <2>1, <3>1 DEF ChainOf
    <3>3. QED
      BY <2>1, <3>1, <3>2 DEF ChainOf
  <2>6. PICK m \in upstreams[c[i + 2]] :
          levels[c[i + 2]] = levels[m] + 1 /\ levels[c[i + 1]] <= levels[m]
    <3>1. Leveled(c[i + 2])
      BY <2>5, PlaceFacts
    <3>2. QED
      BY <2>5, <3>1 DEF Leveled
  <2>7. m \in Nodes
    BY <1>1, <2>5
  <2>8. levels[m] \in Nat /\ levels[c[i + 1]] \in Nat
    BY <1>1, <2>5, <2>7
  <2>9. QED
    BY <2>4, <2>6, <2>8
<1>4. Nat \subseteq S
  <2> HIDE DEF S
  <2> QED BY <1>2, <1>3, CountingUp
<1>5. SUFFICES ASSUME NEW l \in Nat \ {0}, NEW c, ChainOf(l, c) PROVE l <= levels[c[l]] + 1
  OBVIOUS
<1>6. l - 1 \in Nat /\ (l - 1) + 1 = l
  OBVIOUS
<1>7. l - 1 <= levels[c[l]]
  <2>1. l - 1 \in S
    BY <1>4, <1>6
  <2>2. QED
    BY <1>5, <1>6, <2>1
<1>8. levels[c[l]] \in Nat
  <2>1. l \in 1 .. l
    OBVIOUS
  <2>2. QED
    BY <1>1, <1>5, <2>1 DEF ChainOf
<1>9. QED
  BY <1>7, <1>8

\* A node at level v ends a chain of v + 1 nodes, through the deepest upstream of each
LEMMA LevelsReached ==
  ASSUME Inv, Walking, phase = "done"
  PROVE  \A n \in Nodes : \E c : ChainOf(levels[n] + 1, c) /\ c[levels[n] + 1] = n
<1> DEFINE S == {v \in Nat : \A n \in Nodes : levels[n] = v =>
                               \E c : ChainOf(v + 1, c) /\ c[v + 1] = n}
<1>1. upstreams \in [Nodes -> SUBSET Nodes] /\ levels \in [Nodes -> Nat]
  BY PlaceFacts
<1>2. 0 \in S
  <2>1. SUFFICES ASSUME NEW n \in Nodes PROVE \E c : ChainOf(1, c) /\ c[1] = n
    OBVIOUS
  <2>2. PICK c : c = [k \in 1 .. 1 |-> n]
    OBVIOUS
  <2>3. ChainOf(1, c) /\ c[1] = n
    BY <2>2 DEF ChainOf
  <2>4. QED
    BY <2>3
<1>3. ASSUME NEW v \in Nat, v \in S PROVE v + 1 \in S
  <2>1. SUFFICES ASSUME NEW n \in Nodes, levels[n] = v + 1
                 PROVE  \E c : ChainOf(v + 2, c) /\ c[v + 2] = n
    <3>1. (v + 1) + 1 = v + 2
      OBVIOUS
    <3>2. QED
      BY <2>1, <3>1
  <2>2. PICK m \in upstreams[n] : levels[n] = levels[m] + 1
    <3>1. Leveled(n)
      BY PlaceFacts
    <3>2. QED
      BY <2>1, <3>1 DEF Leveled
  <2>3. m \in Nodes /\ levels[m] = v
    <3>1. m \in Nodes /\ levels[m] \in Nat
      BY <1>1
    <3>2. QED
      BY <2>1, <2>2, <3>1
  <2>4. PICK c : ChainOf(v + 1, c) /\ c[v + 1] = m
    BY <1>3, <2>3
  <2>5. PICK d : d = [k \in 1 .. v + 2 |-> IF k = v + 2 THEN n ELSE c[k]]
    OBVIOUS
  <2>6. \A k \in 1 .. v + 1 : k \in 1 .. v + 2 /\ k # v + 2
    OBVIOUS
  <2>7. (\A k \in 1 .. v + 1 : d[k] = c[k]) /\ d[v + 2] = n
    <3>1. v + 2 \in 1 .. v + 2
      OBVIOUS
    <3>2. QED
      BY <2>5, <2>6, <3>1
  <2>8. \A k \in 1 .. v + 2 : k = v + 2 \/ k \in 1 .. v + 1
    OBVIOUS
  <2>9. d \in [1 .. v + 2 -> Nodes]
    BY <2>4, <2>5, <2>8 DEF ChainOf
  <2>10. ASSUME NEW k \in 1 .. (v + 2) - 1 PROVE d[k] \in upstreams[d[k + 1]]
    <3>1. CASE k = v + 1
      <4>1. k + 1 = v + 2 /\ k \in 1 .. v + 1
        BY <3>1
      <4>2. d[k + 1] = n /\ d[k] = m
        BY <2>4, <2>7, <3>1, <4>1
      <4>3. QED
        BY <4>2
    <3>2. CASE k # v + 1
      <4>1. k \in 1 .. v + 1 /\ k + 1 \in 1 .. v + 1 /\ k \in 1 .. (v + 1) - 1
        BY <3>2
      <4>2. c[k] \in upstreams[c[k + 1]]
        BY <2>4, <4>1 DEF ChainOf
      <4>3. QED
        BY <2>7, <4>1, <4>2
    <3>3. QED
      BY <3>1, <3>2
  <2>11. ChainOf(v + 2, d)
    BY <2>9, <2>10 DEF ChainOf
  <2>12. QED
    BY <2>7, <2>11
<1>4. Nat \subseteq S
  <2> HIDE DEF S
  <2> QED BY <1>2, <1>3, CountingUp
<1>5. QED
  BY <1>1, <1>4

\* What depth_levels computes along the order is, for a graph of any size, the length
\* of the longest chain of upstreams that ends at each node: no chain is longer, and
\* one of that length exists.
THEOREM LevelsCorrect == Spec => []LevelsAreLongest
<1>1. ASSUME Inv, Walking PROVE LevelsAreLongest
  <2>1. SUFFICES ASSUME phase = "done", NEW n \in Nodes
                 PROVE  /\ \E c \in Chains : c[Len(c)] = n /\ Len(c) = levels[n] + 1
                        /\ \A c \in Chains : c[Len(c)] = n => Len(c) <= levels[n] + 1
    BY DEF LevelsAreLongest
  <2>2. levels[n] \in Nat /\ levels[n] < N
    BY <1>1, <2>1, PlaceFacts
  <2>3. levels[n] + 1 \in 1 .. N
    BY <2>2, NodesAssumption
  <2>4. PICK c : ChainOf(levels[n] + 1, c) /\ c[levels[n] + 1] = n
    BY <1>1, <2>1, LevelsReached
  <2>5. c \in Chains /\ Len(c) = levels[n] + 1
    BY <2>3, <2>4, ChainsAre
  <2>6. ASSUME NEW d \in Chains, d[Len(d)] = n
        PROVE  Len(d) <= levels[n] + 1
    <3>1. Len(d) \in Nat \ {0} /\ ChainOf(Len(d), d)
      BY ChainsAre
    <3>2. QED
      BY <1>1, <2>1, <2>6, <3>1, LevelsRise
  <2>7. QED
    BY <2>4, <2>5, <2>6
<1>2. Inv /\ Walking => LevelsAreLongest
  BY <1>1
<1>3. QED
  BY <1>2, WalkInvariance, PTL

------------------------------------------------------------------------------
(* What can be reached                                                       *)

Graph == [Nodes -> SUBSET Nodes]

\* One step further in a graph from what each node reaches already
Further(graph, r) == [n \in Nodes |-> r[n] \cup UNION {graph[m] : m \in r[n]}]

WithinTo(graph, l, g) ==
  g = [k \in 0 .. l |-> IF k = 0 THEN graph ELSE Further(graph, g[k - 1])]

LEMMA WithinExists ==
  ASSUME NEW graph
  PROVE  \A l \in Nat : \E g : WithinTo(graph, l, g)
<1> DEFINE S == {l \in Nat : \E g : WithinTo(graph, l, g)}
<1>1. 0 \in S
  <2>1. WithinTo(graph, 0, [k \in 0 .. 0 |-> graph])
    BY DEF WithinTo
  <2>2. QED
    BY <2>1
<1>2. ASSUME NEW l \in Nat, l \in S PROVE l + 1 \in S
  <2>1. PICK g : WithinTo(graph, l, g)
    BY <1>2
  <2> DEFINE next == Further(graph, g[l])
             h == [k \in 0 .. (l + 1) |-> IF k = l + 1 THEN next ELSE g[k]]
  <2>2. ASSUME NEW k \in 0 .. (l + 1)
        PROVE  h[k] = IF k = 0 THEN graph ELSE Further(graph, h[k - 1])
    <3>1. CASE k = l + 1
      <4>1. h[k] = next /\ k - 1 = l /\ h[l] = g[l] /\ k # 0
        BY <3>1
      <4>2. QED
        BY <3>1, <4>1
    <3>2. CASE k # l + 1
      <4>1. k \in 0 .. l /\ h[k] = g[k] /\ (k # 0 => k - 1 \in 0 .. l /\ h[k - 1] = g[k - 1])
        BY <3>2
      <4>2. g[k] = IF k = 0 THEN graph ELSE Further(graph, g[k - 1])
        BY <2>1, <4>1 DEF WithinTo
      <4>3. QED
        BY <4>1, <4>2
    <3>3. QED
      BY <3>1, <3>2
  <2> HIDE DEF next
  <2>3. WithinTo(graph, l + 1, h)
    BY <2>2 DEF WithinTo
  <2>4. QED
    BY <2>3
<1>3. Nat \subseteq S
  <2> HIDE DEF S
  <2> QED BY <1>1, <1>2, CountingUp
<1>4. QED
  BY <1>3

\* g goes from the graph to Reach(graph) in N steps
Spreads(graph, g) ==
  /\ g[0] = graph
  /\ \A k \in 1 .. N : g[k] = Further(graph, g[k - 1])
  /\ Reach(graph) = g[N]

LEMMA ReachFacts ==
  ASSUME NEW graph
  PROVE  \E g : Spreads(graph, g)
<1> DEFINE G == CHOOSE g : WithinTo(graph, N, g)
<1>1. WithinTo(graph, N, G)
  BY WithinExists, NodesAssumption
<1>2. Reach(graph) = G[N]
  BY DEF Reach, WithinTo, Further
<1> HIDE DEF G
<1>3. 0 \in 0 .. N /\ \A k \in 1 .. N : k \in 0 .. N /\ k # 0
  BY NodesAssumption
<1>4. G[0] = graph /\ \A k \in 1 .. N : G[k] = Further(graph, G[k - 1])
  BY <1>1, <1>3 DEF WithinTo
<1>5. QED
  BY <1>2, <1>4 DEF Spreads

\* p puts every node after those it depends on in graph, and D holds with each node
\* what it depends on there and all that these hold
Ordered(graph, p) == \A n \in Nodes : \A m \in graph[n] : p[m] < p[n]
Holds(graph, D) == \A n \in Nodes : D[n] = graph[n] \cup UNION {D[m] : m \in graph[n]}

\* What the last step on the way to y from n is
Rising(graph, p, D, n) ==
  \A y \in D[n] : /\ p[y] < p[n] /\ D[y] \subseteq D[n]
                  /\ y \in graph[n] \/ \E z \in D[n] : y \in graph[z]

LEMMA HoldsRising ==
  ASSUME NEW graph \in Graph, NEW D \in Graph, NEW p \in [Nodes -> Nodes],
         Ordered(graph, p), Holds(graph, D)
  PROVE  \A n \in Nodes : Rising(graph, p, D, n)
<1> DEFINE S == {v \in Nat : \A n \in Nodes : p[n] <= v => Rising(graph, p, D, n)}
<1>0. \A n \in Nodes : p[n] \in Nat /\ p[n] >= 1
  BY DEF Nodes
<1>1. 0 \in S
  BY <1>0
<1>2. ASSUME NEW v \in Nat, v \in S PROVE v + 1 \in S
  <2>1. SUFFICES ASSUME NEW n \in Nodes, p[n] <= v + 1, NEW y \in D[n]
                 PROVE  /\ p[y] < p[n] /\ D[y] \subseteq D[n]
                        /\ y \in graph[n] \/ \E z \in D[n] : y \in graph[z]
    BY DEF Rising
  <2>2. y \in Nodes /\ D[n] = graph[n] \cup UNION {D[m] : m \in graph[n]}
    BY DEF Holds, Graph
  <2>3. CASE y \in graph[n]
    BY <2>2, <2>3 DEF Ordered
  <2>4. CASE y \notin graph[n]
    <3>1. PICK m \in graph[n] : y \in D[m]
      BY <2>2, <2>4
    <3>2. m \in Nodes /\ p[m] < p[n] /\ m \in D[n] /\ D[m] \subseteq D[n]
      BY <2>2 DEF Ordered, Graph
    <3>3. p[m] <= v
      BY <1>0, <2>1, <3>2
    <3>4. Rising(graph, p, D, m)
      BY <1>2, <3>2, <3>3
    <3>5. /\ p[y] < p[m] /\ D[y] \subseteq D[m]
          /\ y \in graph[m] \/ \E z \in D[m] : y \in graph[z]
      BY <3>1, <3>4 DEF Rising
    <3>6. p[y] < p[n]
      BY <1>0, <2>2, <3>2, <3>5
    <3>7. QED
      BY <3>2, <3>5, <3>6
  <2>5. QED
    BY <2>3, <2>4
<1>3. Nat \subseteq S
  <2> HIDE DEF S
  <2> QED BY <1>1, <1>2, CountingUp
<1>4. QED
  BY <1>0, <1>3

\* What is held that way is what can be reached: each step of the way back from n to x
\* goes down in the order, so N steps are enough
LEMMA HoldsReach ==
  ASSUME NEW graph \in Graph, NEW D \in Graph, NEW p \in [Nodes -> Nodes],
         Ordered(graph, p), Holds(graph, D)
  PROVE  Reach(graph) = D
<1>1. PICK g : Spreads(graph, g)
  BY ReachFacts
<1>2. \A n \in Nodes : Rising(graph, p, D, n)
  BY HoldsRising
<1>3. \A n \in Nodes : p[n] \in Nat /\ 1 <= p[n] /\ p[n] <= N
  BY NodesAssumption DEF Nodes
<1>4. \A n \in Nodes : graph[n] \subseteq D[n]
  BY DEF Holds
<1> DEFINE S == {k \in Nat : k <= N => /\ g[k] \in Graph
                                       /\ \A n \in Nodes : graph[n] \subseteq g[k][n] /\ g[k][n] \subseteq D[n]
                                       /\ \A n \in Nodes : \A x \in D[n] :
                                            p[n] <= p[x] + k + 1 => x \in g[k][n]}
<1>5. 0 \in S
  <2>1. g[0] = graph
    BY <1>1 DEF Spreads
  <2>2. ASSUME NEW n \in Nodes, NEW x \in D[n], p[n] <= p[x] + 1
        PROVE  x \in graph[n]
    <3>1. SUFFICES ASSUME x \notin graph[n] PROVE FALSE
      OBVIOUS
    <3>2. PICK m \in graph[n] : x \in D[m]
      BY <3>1 DEF Holds
    <3>3. m \in Nodes /\ x \in Nodes
      BY DEF Graph
    <3>4. p[m] < p[n] /\ p[x] < p[m]
      BY <1>2, <3>2, <3>3 DEF Ordered, Rising
    <3>5. /\ p[m] \in Nat /\ p[n] \in Nat /\ p[x] \in Nat
      BY <1>3, <3>3
    <3>6. QED
      BY <2>2, <3>4, <3>5
  <2>3. \A n \in Nodes : \A x \in D[n] : p[n] <= p[x] + 0 + 1 => x \in g[0][n]
    <3>1. SUFFICES ASSUME NEW n \in Nodes, NEW x \in D[n], p[n] <= p[x] + 0 + 1 PROVE x \in graph[n]
      BY <2>1
    <3>2. p[x] \in Nat
      BY <1>3 DEF Graph
    <3>3. p[n] <= p[x] + 1
      BY <3>1, <3>2
    <3>4. QED
      BY <2>2, <3>3
  <2>4. QED
    BY <1>4, <2>1, <2>3
<1>6. ASSUME NEW k \in Nat, k \in S PROVE k + 1 \in S
  <2>1. SUFFICES ASSUME k + 1 <= N
                 PROVE  /\ g[k + 1] \in Graph
                        /\ \A n \in Nodes : graph[n] \subseteq g[k + 1][n] /\ g[k + 1][n] \subseteq D[n]
                        /\ \A n \in Nodes : \A x \in D[n] :
                             p[n] <= p[x] + (k + 1) + 1 => x \in g[k + 1][n]
    OBVIOUS
  <2>2. k + 1 \in 1 .. N /\ (k + 1) - 1 = k /\ k <= N
    BY <2>1, NodesAssumption
  <2>3. /\ g[k] \in Graph
        /\ \A n \in Nodes : graph[n] \subseteq g[k][n] /\ g[k][n] \subseteq D[n]
        /\ \A n \in Nodes : \A x \in D[n] : p[n] <= p[x] + k + 1 => x \in g[k][n]
    BY <1>6, <2>2
  <2>4. g[k + 1] = Further(graph, g[k])
    BY <1>1, <2>2 DEF Spreads
  <2>5. \A n \in Nodes : g[k + 1][n] = g[k][n] \cup UNION {graph[m] : m \in g[k][n]}
    BY <2>4 DEF Further
  <2>6. g[k + 1] \in Graph
    <3>1. \A n \in Nodes : g[k][n] \cup UNION {graph[m] : m \in g[k][n]} \subseteq Nodes
      BY <2>3 DEF Graph
    <3>2. QED
      BY <2>4, <3>1 DEF Further, Graph
  <2>7. ASSUME NEW n \in Nodes, NEW x \in g[k + 1][n]
        PROVE  x \in D[n]
    <3>1. CASE x \in g[k][n]
      BY <2>3, <3>1
    <3>2. CASE x \notin g[k][n]
      <4>1. PICK m \in g[k][n] : x \in graph[m]
        BY <2>5, <3>2
      <4>2. m \in D[n] /\ m \in Nodes
        BY <2>3 DEF Graph
      <4>3. D[m] \subseteq D[n]
        BY <1>2, <4>2 DEF Rising
      <4>4. QED
        BY <1>4, <4>1, <4>2, <4>3
    <3>3. QED
      BY <3>1, <3>2
  <2>8. ASSUME NEW n \in Nodes, NEW x \in D[n], p[n] <= p[x] + (k + 1) + 1
        PROVE  x \in g[k + 1][n]
    <3>1. CASE x \in graph[n]
      BY <2>3, <2>5, <3>1
    <3>2. CASE x \notin graph[n]
      <4>1. PICK z \in D[n] : x \in graph[z]
        BY <1>2, <3>2 DEF Rising
      <4>2. z \in Nodes /\ x \in Nodes
        BY DEF Graph
      <4>3. p[x] < p[z]
        BY <4>1, <4>2 DEF Ordered
      <4>4. p[n] <= p[z] + k + 1
        BY <1>3, <2>8, <4>2, <4>3
      <4>5. z \in g[k][n]
        BY <2>3, <4>4
      <4>6. QED
        BY <2>5, <4>1, <4>5
    <3>3. QED
      BY <3>1, <3>2
  <2>9. \A n \in Nodes : graph[n] \subseteq g[k + 1][n]
    BY <2>3, <2>5
  <2>10. QED
    BY <2>6, <2>7, <2>8, <2>9
<1>7. N \in S
  <2>1. Nat \subseteq S
    <3> HIDE DEF S
    <3> QED BY <1>5, <1>6, CountingUp
  <2>2. QED
    BY <2>1, NodesAssumption
<1>8. g[N] \in Graph /\ \A n \in Nodes : g[N][n] \subseteq D[n]
  BY <1>7, NodesAssumption
<1>9. ASSUME NEW n \in Nodes PROVE D[n] \subseteq g[N][n]
  <2>1. SUFFICES ASSUME NEW x \in D[n] PROVE x \in g[N][n]
    OBVIOUS
  <2>2. x \in Nodes
    BY DEF Graph
  <2>3. p[n] <= p[x] + N + 1
    BY <1>3, <2>2, NodesAssumption
  <2>4. QED
    BY <1>7, <2>3, NodesAssumption
<1>10. \A n \in Nodes : g[N][n] = D[n]
  BY <1>8, <1>9
<1>11. g[N] = D
  BY <1>8, <1>10 DEF Graph
<1>12. QED
  BY <1>1, <1>11 DEF Spreads

------------------------------------------------------------------------------
(* The reduction                                                             *)

\* An upstream that is dropped is one that an upstream placed later depends on, so the
\* last of those that lead to x is kept
LEMMA KeptHolds ==
  ASSUME NEW graph \in Graph, NEW D \in Graph, NEW p \in [Nodes -> Nodes],
         Ordered(graph, p), Holds(graph, D), NEW kept \in Graph,
         \A n \in Nodes : kept[n] = graph[n] \ UNION {D[m] : m \in graph[n]}
  PROVE  Ordered(kept, p) /\ Holds(kept, D)
<1>1. \A n \in Nodes : kept[n] \subseteq graph[n]
  OBVIOUS
<1>2. \A n \in Nodes : Rising(graph, p, D, n)
  BY HoldsRising
<1>3. \A n \in Nodes : p[n] \in Nat /\ p[n] <= N
  BY NodesAssumption DEF Nodes
<1>4. Ordered(kept, p)
  BY <1>1 DEF Ordered
<1>5. ASSUME NEW n \in Nodes, NEW x \in D[n]
      PROVE  x \in kept[n] \cup UNION {D[m] : m \in kept[n]}
  <2> DEFINE Ways == {m \in graph[n] : x = m \/ x \in D[m]}
             S == {N - p[m] : m \in Ways}
  <2>1. Ways # {}
    BY DEF Holds
  <2>2. \A m \in Ways : m \in Nodes /\ N - p[m] \in Nat
    <3>1. \A m \in Ways : m \in Nodes
      BY DEF Graph
    <3>2. QED
      BY <1>3, <3>1, NodesAssumption
  <2>3. S \in SUBSET Nat /\ S # {}
    BY <2>1, <2>2
  <2>4. PICK least \in S : \A i \in S : least <= i
    <3> HIDE DEF S
    <3> QED BY <2>3, LeastElement
  <2>5. PICK m \in Ways : least = N - p[m]
    BY <2>4
  <2>6. \A o \in Ways : p[o] <= p[m]
    <3>1. SUFFICES ASSUME NEW o \in Ways PROVE p[o] <= p[m]
      OBVIOUS
    <3>2. N - p[m] <= N - p[o]
      BY <2>4, <2>5
    <3>3. p[m] \in Nat /\ p[o] \in Nat
      BY <1>3, <2>2
    <3>4. QED
      BY <3>2, <3>3, NodesAssumption
  <2>7. m \in kept[n]
    <3>1. SUFFICES ASSUME m \notin kept[n] PROVE FALSE
      OBVIOUS
    <3>2. PICK o \in graph[n] : m \in D[o]
      BY <3>1
    <3>3. o \in Nodes /\ m \in Nodes
      BY DEF Graph
    <3>4. p[m] < p[o] /\ D[m] \subseteq D[o]
      BY <1>2, <3>2, <3>3 DEF Rising
    <3>5. o \in Ways
      BY <3>2, <3>4
    <3>6. p[o] <= p[m]
      BY <2>6, <3>5
    <3>7. p[m] \in Nat /\ p[o] \in Nat
      BY <1>3, <3>3
    <3>8. QED
      BY <3>4, <3>6, <3>7
  <2>8. QED
    BY <2>7
<1>6. ASSUME NEW n \in Nodes
      PROVE  kept[n] \cup UNION {D[m] : m \in kept[n]} \subseteq D[n]
  BY <1>1 DEF Holds
<1>7. Holds(kept, D)
  BY <1>5, <1>6 DEF Holds
<1>8. QED
  BY <1>4, <1>7

\* Without an upstream m that is kept, what n reaches is among the other ones and what
\* they hold, and m is not
LEMMA NoneToSpare ==
  ASSUME NEW graph \in Graph, NEW D \in Graph, NEW p \in [Nodes -> Nodes],
         Ordered(graph, p), Holds(graph, D), NEW kept \in Graph,
         \A n \in Nodes : kept[n] = graph[n] \ UNION {D[m] : m \in graph[n]},
         NEW n \in Nodes, NEW m \in kept[n]
  PROVE  m \notin Reach([kept EXCEPT ![n] = @ \ {m}])[n]
<1>1. PICK less : less = [kept EXCEPT ![n] = @ \ {m}]
  OBVIOUS
<1>2. PICK g : Spreads(less, g)
  BY ReachFacts
<1>3. \A o \in Nodes : Rising(graph, p, D, o)
  BY HoldsRising
<1>4. \A o \in Nodes : less[o] \subseteq kept[o] /\ kept[o] \subseteq graph[o] /\ graph[o] \subseteq D[o]
  BY <1>1 DEF Graph, Holds
<1>5. less[n] = kept[n] \ {m}
  BY <1>1 DEF Graph
<1> DEFINE Y == {y \in Nodes : \E o \in kept[n] \ {m} : y = o \/ y \in D[o]}
           S == {k \in Nat : k <= N => g[k][n] \subseteq Y}
<1>6. 0 \in S
  <2>1. g[0] = less
    BY <1>2 DEF Spreads
  <2>2. less[n] \subseteq Y
    BY <1>5 DEF Graph
  <2>3. QED
    BY <2>1, <2>2
<1>7. ASSUME NEW y \in Y PROVE less[y] \subseteq Y
  <2>1. PICK o \in kept[n] \ {m} : y = o \/ y \in D[o]
    OBVIOUS
  <2>2. o \in Nodes /\ y \in Nodes
    BY DEF Graph
  <2>3. less[y] \subseteq D[y]
    BY <1>4, <2>2
  <2>4. D[y] \subseteq D[o]
    BY <1>3, <2>1, <2>2 DEF Rising
  <2>5. D[o] \subseteq Nodes
    BY <2>2 DEF Graph
  <2>6. D[o] \subseteq Y
    BY <2>1, <2>5
  <2>7. QED
    BY <2>3, <2>4, <2>6
<1>8. ASSUME NEW k \in Nat, k \in S PROVE k + 1 \in S
  <2>1. SUFFICES ASSUME k + 1 <= N PROVE g[k + 1][n] \subseteq Y
    OBVIOUS
  <2>2. k + 1 \in 1 .. N /\ (k + 1) - 1 = k /\ k <= N
    BY <2>1, NodesAssumption
  <2>3. g[k][n] \subseteq Y
    BY <1>8, <2>2
  <2>4. g[k + 1][n] = g[k][n] \cup UNION {less[y] : y \in g[k][n]}
    <3>1. g[k + 1] = Further(less, g[k])
      BY <1>2, <2>2 DEF Spreads
    <3>2. QED
      BY <3>1 DEF Further
  <2> HIDE DEF Y
  <2>5. QED
    BY <1>7, <2>3, <2>4
<1>9. N \in S
  <2>1. Nat \subseteq S
    <3> HIDE DEF S
    <3> QED BY <1>6, <1>8, CountingUp
  <2>2. QED
    BY <2>1, NodesAssumption
<1>10. g[N][n] \subseteq Y
  BY <1>9, NodesAssumption
<1>11. m \notin Y
  <2>1. SUFFICES ASSUME NEW o \in kept[n] \ {m}, m = o \/ m \in D[o] PROVE FALSE
    OBVIOUS
  <2>2. o \in graph[n] /\ m \in D[o]
    BY <1>4, <2>1
  <2>3. QED
    BY <2>2
<1>12. Reach(less) = g[N]
  BY <1>2 DEF Spreads
<1>13. QED
  BY <1>1, <1>10, <1>11, <1>12

\* For a graph of any size, transitive_reduction keeps what can be reached and keeps
\* no edge too many: dropping any one that is left loses its upstream.
THEOREM ReductionCorrect == Spec => []ReductionIsMinimal
<1>1. ASSUME Inv, Walking PROVE ReductionIsMinimal
  <2>1. SUFFICES ASSUME phase = "done"
                 PROVE  /\ Reach(reduced) = Reach(upstreams)
                        /\ \A n \in Nodes : \A m \in reduced[n] :
                             m \notin Reach([reduced EXCEPT ![n] = @ \ {m}])[n]
    BY DEF ReductionIsMinimal
  <2>2. PICK p : p = [n \in Nodes |-> At(n)]
    OBVIOUS
  <2>3. p \in [Nodes -> Nodes] /\ Ordered(upstreams, p)
    <3>1. upstreams \in [Nodes -> SUBSET Nodes]
      BY <1>1, <2>1, PlaceFacts
    <3>2. \A n \in Nodes : At(n) \in Nodes /\ \A m \in upstreams[n] : m \in Nodes /\ At(m) < At(n)
      BY <1>1, <2>1, <3>1, PlaceFacts
    <3>3. QED
      BY <2>2, <3>2 DEF Ordered
  <2>4. upstreams \in Graph /\ closure \in Graph /\ reduced \in Graph
    BY <1>1, <2>1, PlaceFacts DEF Graph
  <2>5. /\ \A n \in Nodes : closure[n] = upstreams[n] \cup UNION {closure[m] : m \in upstreams[n]}
        /\ \A n \in Nodes : reduced[n] = upstreams[n] \ UNION {closure[m] : m \in upstreams[n]}
    BY <1>1, <2>1, PlaceFacts DEF Closed, Implied
  <2>6. Holds(upstreams, closure)
    BY <2>5 DEF Holds
  <2>7. Ordered(reduced, p) /\ Holds(reduced, closure)
    BY <2>3, <2>4, <2>5, <2>6, KeptHolds
  <2>8. Reach(upstreams) = closure /\ Reach(reduced) = closure
    BY <2>3, <2>4, <2>6, <2>7, HoldsReach
  <2>9. QED
    BY <2>3, <2>4, <2>5, <2>6, <2>8, NoneToSpare
<1>2. Inv /\ Walking => ReductionIsMinimal
  BY <1>1
<1>3. QED
  BY <1>2, WalkInvariance, PTL
===============================================================================
