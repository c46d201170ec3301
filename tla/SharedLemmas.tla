----------------------------- MODULE SharedLemmas -----------------------------
(***************************************************************************)
(* Facts several of the proofs rest on: that a nonempty set of natural     *)
(* numbers has a least element, and what the trigger rules do when the     *)
(* upstreams of a task go on moving.                                       *)
(***************************************************************************)
EXTENDS Integers, FiniteSets, FiniteSetTheorems, WellFoundedInduction, TriggerRules,
        TLAPS

-------------------------------------------------------------------------------
(* Natural numbers.                                                          *)

\* The strict subset order on finite sets is well-founded, and n |-> 0 .. n embeds
\* the natural numbers into it.
LEMMA LeastElement ==
  ASSUME NEW S \in SUBSET Nat, S # {}
  PROVE  \E m \in S : \A k \in S : m <= k
<1> DEFINE R == StrictSubsetOrdering(Nat)
           I == {0 .. k : k \in S}
<1>1. IsWellFoundedOn(R, FiniteSubsetsOf(Nat))
  BY FS_StrictSubsetOrderingWellFounded
<1>2. I \subseteq FiniteSubsetsOf(Nat)
  <2>1. ASSUME NEW k \in S PROVE 0 .. k \in FiniteSubsetsOf(Nat)
    <3>1. 0 \in Int /\ k \in Int
      OBVIOUS
    <3>2. IsFiniteSet(0 .. k)
      BY <3>1, FS_Interval
    <3>3. 0 .. k \in SUBSET Nat
      BY <3>1
    <3>4. QED
      BY <3>2, <3>3 DEF FiniteSubsetsOf
  <2>2. QED
    BY <2>1
<1>3. I # {}
  OBVIOUS
<1>4. PICK x \in I : \A y \in I : ~ (<<y, x>> \in R)
  <2> HIDE DEF R, I
  <2> QED BY <1>1, <1>2, <1>3, WFMin
<1>5. PICK m \in S : x = 0 .. m
  OBVIOUS
<1>6. ASSUME NEW k \in S PROVE m <= k
  <2>1. SUFFICES ASSUME k < m PROVE FALSE
    OBVIOUS
  <2>2. 0 .. k \in I
    OBVIOUS
  <2>3. 0 .. k \subseteq 0 .. m /\ m \in 0 .. m /\ m \notin 0 .. k
    BY <2>1
  <2>4. 0 .. k \in SUBSET Nat /\ 0 .. m \in SUBSET Nat
    OBVIOUS
  <2>5. <<0 .. k, 0 .. m>> \in R
    BY <2>3, <2>4 DEF StrictSubsetOrdering
  <2>6. QED
    BY <1>4, <1>5, <2>2, <2>5
<1>7. QED
  BY <1>6

\* Numbers that are bounded have a greatest among them
LEMMA GreatestElement ==
  ASSUME NEW S \in SUBSET Int, S # {}, NEW b \in Int, \A x \in S : x <= b
  PROVE  \E m \in S : \A k \in S : k <= m
<1> DEFINE D == {b - x : x \in S}
<1>1. D \in SUBSET Nat /\ D # {}
  <2>1. \A x \in S : b - x \in Nat
    <3>1. \A x \in Int : x <= b => b - x \in Nat
      OBVIOUS
    <3>2. QED
      BY <3>1
  <2>2. D \in SUBSET Nat
    BY <2>1
  <2>3. D # {}
    OBVIOUS
  <2>4. QED
    BY <2>2, <2>3
<1>2. PICK d \in D : \A e \in D : d <= e
  BY <1>1, LeastElement
<1>3. PICK m \in S : d = b - m
  BY <1>2
<1>4. \A k \in S : b - m <= b - k
  BY <1>2, <1>3
<1>5. QED
  BY <1>3, <1>4

\* Induction, over the set of the numbers something holds of: NatInduction of the
\* library asks for an operator
LEMMA CountingUp ==
  ASSUME NEW S, 0 \in S, \A n \in Nat : n \in S => n + 1 \in S
  PROVE  Nat \subseteq S
<1>1. SUFFICES ASSUME Nat \ S # {} PROVE FALSE
  OBVIOUS
<1>2. Nat \ S \in SUBSET Nat
  OBVIOUS
<1>3. PICK m \in Nat \ S : \A k \in Nat \ S : m <= k
  BY <1>1, <1>2, LeastElement
<1>4. m - 1 \in Nat /\ ~ (m <= m - 1)
  BY <1>3
<1>5. m - 1 \in S
  BY <1>3, <1>4
<1>6. (m - 1) + 1 = m
  BY <1>3
<1>7. QED
  BY <1>3, <1>4, <1>5, <1>6

-------------------------------------------------------------------------------
(* Amounts: f[k] units for each k of S, counted as a set.                    *)

Units(S, f) == UNION {{k} \X (1 .. f[k]) : k \in S}

LEMMA UnitsOfOne ==
  ASSUME NEW k, NEW n \in Nat
  PROVE  IsFiniteSet({k} \X (1 .. n)) /\ Cardinality({k} \X (1 .. n)) = n
<1>1. IsFiniteSet({k}) /\ Cardinality({k}) = 1
  BY FS_Singleton
<1>2. IsFiniteSet(1 .. n) /\ Cardinality(1 .. n) = n
  BY FS_Interval
<1>3. ASSUME NEW S, NEW T, IsFiniteSet(S), IsFiniteSet(T), Cardinality(S) = 1, Cardinality(T) = n
      PROVE  IsFiniteSet(S \X T) /\ Cardinality(S \X T) = n
  <2>1. IsFiniteSet(S \X T) /\ Cardinality(S \X T) = Cardinality(S) * Cardinality(T)
    BY <1>3, FS_Product
  <2>2. 1 * n = n
    OBVIOUS
  <2>3. QED
    BY <1>3, <2>1, <2>2
<1>4. QED
  BY <1>1, <1>2, <1>3

LEMMA UnitsFinite ==
  ASSUME NEW S, IsFiniteSet(S), NEW f, \A k \in S : f[k] \in Nat
  PROVE  IsFiniteSet(Units(S, f)) /\ Cardinality(Units(S, f)) \in Nat
<1> DEFINE Row(k) == {k} \X (1 .. f[k])
           R == {Row(k) : k \in S}
           row == [k \in S |-> Row(k)]
<1>1. row \in Surjection(S, R)
  BY DEF Surjection
<1>2. IsFiniteSet(R)
  <2> HIDE DEF R, row
  <2> QED BY <1>1, FS_Surjection
<1>3. \A k \in S : IsFiniteSet(Row(k))
  BY UnitsOfOne
<1>4. \A T \in R : IsFiniteSet(T)
  BY <1>3
<1>5. IsFiniteSet(UNION R)
  <2> HIDE DEF R
  <2> QED BY <1>2, <1>4, FS_UNION
<1>6. QED
  BY <1>5, FS_CardinalityType DEF Units

\* One key more adds its amount
LEMMA UnitsAdd ==
  ASSUME NEW S, IsFiniteSet(S), NEW k, k \notin S,
         NEW f, \A j \in S \cup {k} : f[j] \in Nat
  PROVE  Cardinality(Units(S \cup {k}, f)) = Cardinality(Units(S, f)) + f[k]
<1> DEFINE Row == {k} \X (1 .. f[k])
<1>1. IsFiniteSet(Row) /\ Cardinality(Row) = f[k]
  BY UnitsOfOne
<1>2. IsFiniteSet(Units(S, f)) /\ Cardinality(Units(S, f)) \in Nat
  BY UnitsFinite
<1>3. Units(S \cup {k}, f) = Units(S, f) \cup Row
  BY DEF Units
<1>4. Units(S, f) \cap Row = {}
  BY DEF Units
<1>5. Cardinality(Units(S, f) \cap Row) = 0
  BY <1>4, FS_EmptySet
<1>6. Cardinality(Units(S, f) \cup Row) = Cardinality(Units(S, f)) + Cardinality(Row) - 0
  <2> HIDE DEF Row
  <2> QED BY <1>1, <1>2, <1>5, FS_Union
<1>7. Cardinality(Units(S, f) \cup Row) = Cardinality(Units(S, f)) + f[k]
  <2> HIDE DEF Row
  <2> QED BY <1>1, <1>2, <1>6
<1>8. QED
  BY <1>3, <1>7

\* More of everything is more, and more of one thing at least one unit more
LEMMA UnitsGrow ==
  ASSUME NEW S, IsFiniteSet(S), NEW f \in [S -> Nat], NEW g \in [S -> Nat],
         \A k \in S : f[k] <= g[k]
  PROVE  /\ Cardinality(Units(S, f)) \in Nat /\ Cardinality(Units(S, g)) \in Nat
         /\ Cardinality(Units(S, f)) <= Cardinality(Units(S, g))
         /\ (\E k \in S : f[k] < g[k]) =>
              Cardinality(Units(S, f)) + 1 <= Cardinality(Units(S, g))
<1>1. /\ IsFiniteSet(Units(S, f)) /\ Cardinality(Units(S, f)) \in Nat
      /\ IsFiniteSet(Units(S, g)) /\ Cardinality(Units(S, g)) \in Nat
  BY UnitsFinite
<1>2. Units(S, f) \subseteq Units(S, g)
  <2>1. ASSUME NEW k \in S PROVE 1 .. f[k] \subseteq 1 .. g[k]
    BY <2>1
  <2>2. QED
    BY <2>1 DEF Units
<1>3. Cardinality(Units(S, f)) <= Cardinality(Units(S, g))
  BY <1>1, <1>2, FS_Subset
<1>4. ASSUME NEW k \in S, f[k] < g[k]
      PROVE  Cardinality(Units(S, f)) + 1 <= Cardinality(Units(S, g))
  <2> DEFINE unit == <<k, g[k]>>
  <2>1. g[k] \in 1 .. g[k] /\ g[k] \notin 1 .. f[k]
    BY <1>4
  <2>2. unit \in Units(S, g) /\ unit \notin Units(S, f)
    BY <2>1 DEF Units
  <2>3. (Units(S, f) \cup {unit}) \in SUBSET Units(S, g)
    BY <1>2, <2>2
  <2> HIDE DEF unit
  <2>4. Cardinality(Units(S, f) \cup {unit}) = Cardinality(Units(S, f)) + 1
    BY <1>1, <2>2, FS_AddElement
  <2>5. Cardinality(Units(S, f) \cup {unit}) <= Cardinality(Units(S, g))
    BY <1>1, <2>3, FS_Subset
  <2>6. QED
    BY <2>4, <2>5
<1>5. QED
  BY <1>1, <1>3, <1>4

-------------------------------------------------------------------------------
(* Every trigger rule: now is the set of states the upstreams are in, end    *)
(* the set they are in later.                                                *)

\* What becomes RUN stays RUN, and what becomes SKIP stays SKIP, when more
\* upstreams end.
LEMMA AnswersAreMonotone ==
  ASSUME NEW r \in TriggerRule, NEW now \in SUBSET TaskState,
         NEW end \in SUBSET TaskState,
         now \cap Terminal \subseteq end,
         now \subseteq Terminal => end = now,
         now = {} => end = {}, end = {} => now = {},
         EvaluateTriggerRule(r, now) # "WAIT"
  PROVE  EvaluateTriggerRule(r, end) = EvaluateTriggerRule(r, now)
<1> USE DEF Terminal, TaskState, NeverRan
<1>1. CASE now = {}
  BY <1>1 DEF EvaluateTriggerRule
<1>2. CASE now # {} /\ now \subseteq Terminal
  BY <1>2
<1>3. CASE now # {} /\ ~ (now \subseteq Terminal)
  <2>1. CASE r = "ALWAYS"
    BY <1>3, <2>1 DEF EvaluateTriggerRule, Satisfied
  <2>2. CASE r = "ALL_DONE"
    BY <1>3, <2>2 DEF EvaluateTriggerRule, Satisfied, Hopeless
  <2>3. CASE r = "ALL_SUCCESS"
    <3>1. ~ Satisfied(r, now)
      BY <1>3, <2>3 DEF Satisfied
    <3>2. now \cap (NeverRan \cup {"FAILED"}) # {}
      BY <1>3, <2>3, <3>1 DEF EvaluateTriggerRule, Hopeless
    <3>3. PICK s \in now : s \in NeverRan \cup {"FAILED"}
      BY <3>2
    <3>4. s \in end
      BY <3>3
    <3>5. ~ Satisfied(r, end) /\ Hopeless(r, end) /\ end # {}
      BY <2>3, <3>3, <3>4 DEF Satisfied, Hopeless
    <3>6. QED
      BY <1>3, <2>3, <3>1, <3>2, <3>5 DEF EvaluateTriggerRule, Hopeless
  <2>4. CASE r = "NONE_FAILED"
    <3>1. ~ Satisfied(r, now)
      BY <1>3, <2>4 DEF Satisfied
    <3>2. "FAILED" \in now /\ "FAILED" \in end
      BY <1>3, <2>4, <3>1 DEF EvaluateTriggerRule, Hopeless
    <3>3. ~ Satisfied(r, end) /\ Hopeless(r, end) /\ Hopeless(r, now)
      BY <2>4, <3>2 DEF Satisfied, Hopeless
    <3>4. QED
      BY <1>3, <3>1, <3>2, <3>3 DEF EvaluateTriggerRule
  <2>5. CASE r \in {"ANY_SUCCESS", "ANY_FAILED"}
    <3>1. ~ Hopeless(r, now)
      BY <1>3, <2>5 DEF Hopeless
    <3>2. Satisfied(r, now)
      BY <1>3, <3>1 DEF EvaluateTriggerRule
    <3>3. Satisfied(r, end)
      BY <2>5, <3>2 DEF Satisfied
    <3>4. QED
      BY <3>2, <3>3 DEF EvaluateTriggerRule
  <2>6. CASE r = "ALL_FAILED"
    <3>1. ~ Satisfied(r, now)
      BY <1>3, <2>6 DEF Satisfied
    <3>2. now \cap (NeverRan \cup {"SUCCEEDED"}) # {}
      BY <1>3, <2>6, <3>1 DEF EvaluateTriggerRule, Hopeless
    <3>3. PICK s \in now : s \in NeverRan \cup {"SUCCEEDED"}
      BY <3>2
    <3>4. s \in end
      BY <3>3
    <3>5. ~ Satisfied(r, end) /\ Hopeless(r, end) /\ end # {}
      BY <2>6, <3>3, <3>4 DEF Satisfied, Hopeless
    <3>6. QED
      BY <1>3, <2>6, <3>1, <3>2, <3>5 DEF EvaluateTriggerRule, Hopeless
  <2>7. QED
    BY <2>1, <2>2, <2>3, <2>4, <2>5, <2>6 DEF TriggerRule
<1>4. QED
  BY <1>1, <1>2, <1>3

\* A task waits only while some upstream is not done; what is still to come can
\* make it run and can make it skip.
LEMMA WaitingIsUndecided ==
  ASSUME NEW r \in TriggerRule, NEW now \in SUBSET TaskState,
         EvaluateTriggerRule(r, now) = "WAIT"
  PROVE  /\ ~ (now \subseteq Terminal)
         /\ r # "ALL_DONE" =>
              \E good, bad \in Terminal :
                /\ EvaluateTriggerRule(r, (now \cap Terminal) \cup {good}) = "RUN"
                /\ EvaluateTriggerRule(r, (now \cap Terminal) \cup {bad}) = "SKIP"
<1> USE DEF Terminal, TaskState, NeverRan
<1>1. now # {} /\ ~ Satisfied(r, now) /\ ~ Hopeless(r, now)
  BY DEF EvaluateTriggerRule
<1>2. ~ (now \subseteq Terminal)
  BY <1>1 DEF Satisfied, Hopeless, TriggerRule
<1> DEFINE With(s) == (now \cap Terminal) \cup {s}
<1>3. CASE r \in {"ALL_SUCCESS", "NONE_FAILED", "ANY_SUCCESS"}
  <2>1. Satisfied(r, With("SUCCEEDED"))
    BY <1>1, <1>3 DEF Satisfied, Hopeless
  <2>2. ~ Satisfied(r, With("FAILED")) /\ Hopeless(r, With("FAILED"))
    BY <1>1, <1>3 DEF Satisfied, Hopeless
  <2>3. QED
    BY <1>2, <2>1, <2>2 DEF EvaluateTriggerRule
<1>4. CASE r \in {"ANY_FAILED", "ALL_FAILED"}
  <2>1. Satisfied(r, With("FAILED"))
    BY <1>1, <1>4 DEF Satisfied, Hopeless
  <2>2. ~ Satisfied(r, With("SUCCEEDED")) /\ Hopeless(r, With("SUCCEEDED"))
    BY <1>1, <1>4 DEF Satisfied, Hopeless
  <2>3. QED
    BY <1>2, <2>1, <2>2 DEF EvaluateTriggerRule
<1>5. CASE r \in {"ALWAYS", "ALL_DONE"}
  BY <1>1, <1>2, <1>5 DEF Satisfied
<1>6. QED
  BY <1>3, <1>4, <1>5 DEF TriggerRule
===============================================================================
