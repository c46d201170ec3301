---------------------------- MODULE TimetableProofs ---------------------------
(***************************************************************************)
(* Theorems about Timetable.tla, for clocks and years of any size: a       *)
(* merged calendar is open where all are, the searches of a cron           *)
(* expression find what its text names, and the answers of upcoming and    *)
(* between are complete.                                                   *)
(***************************************************************************)
EXTENDS TimetableProperties, SharedLemmas, SequenceTheorems

-------------------------------------------------------------------------------
(* Numbers.                                                                  *)

LEMMA Division ==
  ASSUME NEW a \in Int, NEW b \in Nat \ {0}
  PROVE  /\ a \div b \in Int /\ a % b \in 0 .. b - 1
         /\ a = (b * (a \div b)) + (a % b)
         /\ a >= 0 => a \div b \in Nat
<1>1. a \div b \in Int /\ a % b \in 0 .. b - 1
  OBVIOUS
<1>2. a = (b * (a \div b)) + (a % b)
  OBVIOUS
<1>3. a >= 0 => a \div b \in Nat
  OBVIOUS
<1>4. QED
  BY <1>1, <1>2, <1>3

LEMMA DivisionIsUnique ==
  ASSUME NEW b \in Nat \ {0}, NEW q \in Int, NEW r \in 0 .. b - 1
  PROVE  ((b * q) + r) \div b = q /\ ((b * q) + r) % b = r
OBVIOUS

\* Multiplying keeps the order
LEMMA Scaled ==
  ASSUME NEW b \in Nat \ {0}, NEW x \in Int, NEW y \in Int
  PROVE  /\ b * x \in Int /\ b * y \in Int
         /\ x <= y => b * x <= b * y
         /\ x < y => (b * x) + b <= b * y
<1>1. b * x \in Int /\ b * y \in Int
  OBVIOUS
<1>2. b * (y - x) = (b * y) - (b * x)
  OBVIOUS
<1>3. x <= y => b * (y - x) >= 0
  OBVIOUS
<1>4. x < y => b * (y - x) >= b
  OBVIOUS
<1>5. QED
  BY <1>1, <1>2, <1>3, <1>4

\* Which numbers a quotient is above or below of
LEMMA Quotients ==
  ASSUME NEW a \in Int, NEW b \in Nat \ {0}, NEW n \in Int
  PROVE  /\ n <= a \div b <=> b * n <= a
         /\ a \div b < n <=> a < b * n
<1>1. PICK q, r : q = a \div b /\ r = a % b
  OBVIOUS
<1>2. q \in Int /\ r \in 0 .. b - 1 /\ a = (b * q) + r
  BY <1>1, Division
<1>3. b * n \in Int /\ b * q \in Int
  BY <1>2
<1>4. n <= q => b * n <= b * q
  BY <1>2, Scaled
<1>5. q < n => (b * q) + b <= b * n
  BY <1>2, Scaled
<1>6. QED
  BY <1>1, <1>2, <1>3, <1>4, <1>5

-------------------------------------------------------------------------------
(* Windows and calendars.                                                    *)

LEMMA DayLength == MinutesPerDay \in Nat \ {0}
BY ClockAssumption DEF MinutesPerDay

LEMMA DayAndMinute ==
  ASSUME NEW t \in Int
  PROVE  /\ Day(t) \in Int /\ MinuteOfDay(t) \in 0 .. MinutesPerDay - 1
         /\ t = (MinutesPerDay * Day(t)) + MinuteOfDay(t)
         /\ t >= 0 => Day(t) \in Nat
BY DayLength, Division DEF Day, MinuteOfDay

\* The windows made of a set of minutes are open in just these
LEMMA WindowsCover ==
  ASSUME NEW n \in Nat, NEW M \in SUBSET (0 .. n), NEW m \in 0 .. n
  PROVE  OpenIn(WindowsFromMinutes(M), m) <=> m \in M
<1>0. \A k \in M : k \in Nat /\ k \in Int /\ k <= n /\ k + 1 \in Int
  OBVIOUS
<1>1. ASSUME OpenIn(WindowsFromMinutes(M), m) PROVE m \in M
  <2>1. PICK window \in WindowsFromMinutes(M) : Contains(window, m)
    BY <1>1 DEF OpenIn
  <2>2. /\ window \in [start : M, end : {k + 1 : k \in M}]
        /\ window.start < window.end /\ window.start .. window.end - 1 \subseteq M
    BY <2>1 DEF WindowsFromMinutes
  <2>3. m \in window.start .. window.end - 1
    <3>1. window.start \in M /\ window.end \in {k + 1 : k \in M}
      BY <2>2
    <3>2. window.start \in Int /\ window.end \in Int
      <4>1. \A k \in {k + 1 : k \in M} : k \in Int
        BY <1>0
      <4>2. window.start \in Int
        BY <1>0, <3>1
      <4>3. QED
        BY <3>1, <4>1, <4>2
    <3>3. QED
      BY <2>1, <2>2, <3>2 DEF Contains, Wraps
  <2>4. QED
    BY <2>2, <2>3
<1>2. ASSUME m \in M PROVE OpenIn(WindowsFromMinutes(M), m)
  <2> DEFINE A == {a \in M : a .. m \subseteq M /\ a <= m}
             B == {b \in M : m .. b \subseteq M /\ m <= b}
  <2>1. m \in A /\ m \in B
    BY <1>2
  <2>2. PICK a \in A : \A k \in A : a <= k
    <3>1. A \in SUBSET Nat /\ A # {}
      BY <1>0, <2>1
    <3> HIDE DEF A, B
    <3> QED BY <3>1, LeastElement
  <2>3. PICK b \in B : \A k \in B : k <= b
    <3>1. n \in Int /\ \A k \in B : k <= n
      BY <1>0
    <3>2. B \in SUBSET Int
      <4>1. \A k \in B : k \in M
        OBVIOUS
      <4> HIDE DEF B
      <4> QED BY <1>0, <4>1
    <3>3. B # {}
      BY <2>1
    <3> HIDE DEF A, B
    <3> QED BY <3>1, <3>2, <3>3, GreatestElement
  <2>4. a .. b \subseteq M
    <3>1. ASSUME NEW k \in a .. b PROVE k \in M
      <4>1. k \in a .. m \/ k \in m .. b
        BY <3>1, <2>2, <2>3
      <4>2. QED
        BY <4>1, <2>2, <2>3
    <3>2. QED
      BY <3>1
  <2>5. a - 1 \notin M
    <3>1. SUFFICES ASSUME a - 1 \in M PROVE FALSE
      OBVIOUS
    <3>2. \A k \in a - 1 .. m : k = a - 1 \/ k \in a .. m
      BY <2>2
    <3>3. a - 1 \in A
      BY <2>2, <3>1, <3>2
    <3>4. QED
      BY <2>2, <3>3
  <2>6. b + 1 \notin M
    <3>1. SUFFICES ASSUME b + 1 \in M PROVE FALSE
      OBVIOUS
    <3>2. \A k \in m .. b + 1 : k = b + 1 \/ k \in m .. b
      BY <2>3
    <3>3. b + 1 \in B
      BY <2>3, <3>1, <3>2
    <3>4. QED
      BY <2>3, <3>3
  <2> DEFINE window == [start |-> a, end |-> b + 1]
  <2>7. window \in WindowsFromMinutes(M)
    <3>1. a \in M /\ b \in M /\ a < b + 1 /\ (b + 1) - 1 = b
      BY <2>2, <2>3
    <3>2. window \in [start : M, end : {k + 1 : k \in M}]
      BY <3>1
    <3>3. QED
      BY <3>1, <3>2, <2>4, <2>5, <2>6 DEF WindowsFromMinutes
  <2>8. Contains(window, m)
    BY <2>2, <2>3 DEF Contains, Wraps
  <2>9. QED
    BY <2>7, <2>8 DEF OpenIn
<1>3. QED
  BY <1>1, <1>2

\* Calendars put together are open where all of them are, if their windows share a minute
LEMMA MergedIsOpen ==
  ASSUME NEW P, NEW calendars, DOMAIN calendars = P,
         NEW minute \in 0 .. MinutesPerDay - 1,
         \A p \in P : calendars[p].windows # {} => OpenIn(calendars[p].windows, minute),
         NEW t \in Int
  PROVE  IsOpen(Merged(calendars), t) <=> \A p \in P : IsOpen(calendars[p], t)
<1> DEFINE restricted == {p \in P : calendars[p].windows # {}}
           shared == {m \in 0 .. MinutesPerDay - 1 :
                        restricted # {} /\ \A p \in restricted : OpenIn(calendars[p].windows, m)}
           windows == MergedWindows(calendars)
           now == MinuteOfDay(t)
<1>1. now \in 0 .. MinutesPerDay - 1 /\ MinutesPerDay - 1 \in Nat
  BY DayAndMinute, DayLength
<1>2. IsBusinessDay(Merged(calendars), t) <=> \A p \in P : IsBusinessDay(calendars[p], t)
  BY DEF IsBusinessDay, Merged
<1>3. (windows = {} \/ OpenIn(windows, now))
        <=> \A p \in P : calendars[p].windows = {} \/ OpenIn(calendars[p].windows, now)
  <2>1. CASE \E p \in restricted : restricted = {p}
    <3>1. PICK p \in restricted : restricted = {p}
      BY <2>1
    <3>2. windows = calendars[p].windows
      BY <3>1 DEF MergedWindows
    <3>3. windows # {} /\ \A q \in P : q # p => calendars[q].windows = {}
      BY <3>1, <3>2
    <3>4. QED
      BY <3>1, <3>2, <3>3
  <2>2. CASE ~ \E p \in restricted : restricted = {p}
    <3>1. windows = WindowsFromMinutes(shared)
      BY <2>2 DEF MergedWindows
    <3>2. \A m \in 0 .. MinutesPerDay - 1 : OpenIn(windows, m) <=> m \in shared
      BY <3>1, <1>1, WindowsCover
    <3>3. CASE restricted = {}
      <4>1. windows = {}
        BY <3>1, <3>3 DEF WindowsFromMinutes
      <4>2. QED
        BY <3>3, <4>1
    <3>4. CASE restricted # {}
      <4>1. minute \in shared
        BY <3>4
      <4>2. windows # {}
        BY <3>2, <4>1 DEF OpenIn
      <4>3. QED
        BY <3>2, <3>4, <4>2, <1>1
    <3>5. QED
      BY <3>3, <3>4
  <2>3. QED
    BY <2>1, <2>2
<1>4. Merged(calendars).windows = windows
  BY DEF Merged
<1>5. QED
  BY <1>2, <1>3, <1>4 DEF IsOpen
-------------------------------------------------------------------------------
(* Entries.                                                                  *)

Entries ==
  [name : Names, trigger : Triggers, calendar : Calendars, deferring : BOOLEAN,
   enabled : BOOLEAN]

EntriesTyped == entries \in Seq(Entries)

LEMMA Popped ==
  ASSUME NEW X, NEW s \in Seq(X), NEW p \in 1 .. Len(s)
  PROVE  SubSeq(s, 1, p - 1) \o SubSeq(s, p + 1, Len(s)) \in Seq(X)
OBVIOUS

LEMMA Replaced ==
  ASSUME NEW X, NEW s \in Seq(X), NEW t \in [DOMAIN s -> X]
  PROVE  t \in Seq(X)
<1>1. Len(s) \in Nat /\ DOMAIN s = 1 .. Len(s)
  OBVIOUS
<1>2. t \in [1 .. Len(s) -> X]
  BY <1>1
<1>3. QED
  BY <1>1, <1>2, SeqDef

\* Entries keep their shape: adding, removing, enabling and asking
LEMMA EntriesTypedInvariant == Spec => []EntriesTyped
<1>1. Init => EntriesTyped
  BY DEF Init, EntriesTyped
<1>2. EntriesTyped /\ [Next]_vars => EntriesTyped'
  <2>1. SUFFICES ASSUME EntriesTyped, [Next]_vars PROVE EntriesTyped'
    OBVIOUS
  <2> USE <2>1
  <2>2. entries \in Seq(Entries) /\ Positions = DOMAIN entries
    BY DEF EntriesTyped, Positions
  <2>3. ASSUME NEW name \in Names, NEW trigger \in Triggers, NEW calendar \in Calendars,
               NEW deferring \in BOOLEAN, AddEntry(name, trigger, calendar, deferring)
        PROVE  EntriesTyped'
    <3>1. [name |-> name, trigger |-> trigger, calendar |-> calendar,
           deferring |-> deferring, enabled |-> TRUE] \in Entries
      BY DEF Entries
    <3>2. QED
      BY <2>2, <2>3, <3>1 DEF EntriesTyped, AddEntry
  <2>4. ASSUME NEW name \in Names, Remove(name) PROVE EntriesTyped'
    <3> DEFINE p == PositionOf(name)
    <3>1. p \in 1 .. Len(entries)
      BY <2>2, <2>4 DEF Remove, NamesOf, PositionOf
    <3>2. entries' = SubSeq(entries, 1, p - 1) \o SubSeq(entries, p + 1, Len(entries))
      BY <2>4 DEF Remove
    <3> HIDE DEF p
    <3>3. entries' \in Seq(Entries)
      BY <2>2, <3>1, <3>2, Popped
    <3>4. QED
      BY <3>3 DEF EntriesTyped, Entries
  <2>5. ASSUME NEW name \in Names, NEW enabled \in BOOLEAN, Enable(name, enabled)
        PROVE  EntriesTyped'
    <3>1. \A entry \in Entries : [entry EXCEPT !.enabled = enabled] \in Entries
      BY DEF Entries
    <3>2. \A p \in Positions : entries[p] \in Entries
      BY <2>2
    <3>3. entries' \in [DOMAIN entries -> Entries]
      BY <2>2, <2>5, <3>1, <3>2 DEF Enable
    <3>4. entries' \in Seq(Entries)
      BY <2>2, <3>3, Replaced
    <3>5. QED
      BY <3>4 DEF EntriesTyped, Entries
  <2>6. ASSUME entries' = entries PROVE EntriesTyped'
    BY <2>6 DEF EntriesTyped, Entries
  <2>7. ASSUME NEW q \in Queries, Ask(q) PROVE EntriesTyped'
    BY <2>6, <2>7 DEF Ask
  <2>8. CASE TakeFire
    BY <2>6, <2>8 DEF TakeFire
  <2>9. CASE Answer \/ Return \/ UNCHANGED vars
    BY <2>6, <2>9 DEF Answer, Return, vars
  <2>10. QED
    BY <2>3, <2>4, <2>5, <2>7, <2>8, <2>9 DEF Next
<1>3. QED
  BY <1>1, <1>2, PTL DEF Spec

\* A merged calendar is open exactly when all that went into it are, unless windows
\* are left nowhere: whatever the length of a day, the calendars and the entries,
\* and whether windows wrap around midnight.  (merge_calendars, _intersect_windows)
THEOREM MergeCorrect == Spec => []MergeOpensWhereAllDo
<1>1. EntriesTyped => MergeOpensWhereAllDo
  <2> DEFINE calendars == [p \in Positions |-> entries[p].calendar]
             restricted == {p \in Positions : calendars[p].windows # {}}
             shared(m) == \A p \in restricted : OpenIn(calendars[p].windows, m)
  <2>1. SUFFICES ASSUME EntriesTyped, NEW m \in 0 .. MinutesPerDay - 1, shared(m)
                 PROVE  {t \in Moments : IsOpen(Merged(calendars), t)}
                          = {t \in Moments : \A p \in Positions : t \in OpenMoments[calendars[p]]}
    BY DEF MergeOpensWhereAllDo
  <2>2. ASSUME NEW p \in Positions PROVE calendars[p] \in Calendars
    <3>1. entries[p] \in Entries
      BY <2>1 DEF EntriesTyped, Positions
    <3>2. \A entry \in Entries : entry.calendar \in Calendars
      BY DEF Entries
    <3>3. QED
      BY <3>1, <3>2
  <2>3. \A p \in Positions : OpenMoments[calendars[p]] = {t \in Moments : IsOpen(calendars[p], t)}
    <3> HIDE DEF calendars
    <3> QED BY <2>2 DEF OpenMoments
  <2>4. \A p \in Positions : calendars[p].windows # {} => OpenIn(calendars[p].windows, m)
    BY <2>1
  <2>5. DOMAIN calendars = Positions
    OBVIOUS
  <2>6. ASSUME NEW t \in Moments
        PROVE  IsOpen(Merged(calendars), t) <=> \A p \in Positions : IsOpen(calendars[p], t)
    <3>1. t \in Int
      BY HorizonAssumption DEF Moments
    <3> HIDE DEF calendars
    <3>2. QED
      BY <2>4, <2>5, <3>1, MergedIsOpen
  <2> HIDE DEF calendars
  <2>7. QED
    BY <2>3, <2>6
<1>2. QED
  BY <1>1, EntriesTypedInvariant, PTL
-------------------------------------------------------------------------------
(* Months.                                                                   *)

MonthLength(k) == MonthLengths[(k % MonthsListed) + 1]

LEMMA YearLength ==
  /\ MonthsListed \in Nat \ {0}
  /\ \A k \in Nat : (k % MonthsListed) + 1 \in 1 .. MonthsListed
  /\ \A k \in Nat : MonthLength(k) \in Nat \ {0}
<1>1. MonthsListed \in Nat \ {0} /\ DOMAIN MonthLengths = 1 .. MonthsListed
  BY YearAssumption DEF MonthsListed
<1>2. ASSUME NEW k \in Nat PROVE (k % MonthsListed) + 1 \in 1 .. MonthsListed
  <2>1. k % MonthsListed \in 0 .. MonthsListed - 1
    BY <1>1
  <2>2. QED
    BY <1>1, <2>1
<1>3. \A i \in 1 .. MonthsListed : MonthLengths[i] \in Nat \ {0}
  BY YearAssumption, <1>1
<1>4. QED
  BY <1>1, <1>2, <1>3 DEF MonthLength

\* The beginnings of the first n months
BeginsTo(f, n) ==
  /\ f \in [0 .. n -> Nat] /\ f[0] = 0
  /\ \A k \in 0 .. n - 1 : f[k + 1] = f[k] + MonthLength(k)

LEMMA BeginsAgree ==
  ASSUME NEW i \in Nat, NEW j \in Nat, NEW f, NEW g, BeginsTo(f, i), BeginsTo(g, j)
  PROVE  \A k \in 0 .. i : k <= j => f[k] = g[k]
<1> DEFINE S == {k \in Nat : k <= i /\ k <= j => f[k] = g[k]}
<1>1. 0 \in S
  BY DEF BeginsTo
<1>2. \A k \in Nat : k \in S => k + 1 \in S
  <2>1. SUFFICES ASSUME NEW k \in Nat, k \in S, k + 1 <= i, k + 1 <= j
                 PROVE  f[k + 1] = g[k + 1]
    OBVIOUS
  <2>2. k \in 0 .. i - 1 /\ k \in 0 .. j - 1 /\ f[k] = g[k]
    BY <2>1
  <2>3. QED
    BY <2>2 DEF BeginsTo
<1>3. Nat \subseteq S
  <2> HIDE DEF S
  <2> QED BY <1>1, <1>2, CountingUp
<1>4. QED
  BY <1>3

LEMMA BeginsExist == \A n \in Nat : \E f : BeginsTo(f, n)
<1> DEFINE S == {n \in Nat : \E f : BeginsTo(f, n)}
<1>1. 0 \in S
  <2>1. BeginsTo([k \in 0 .. 0 |-> 0], 0)
    BY DEF BeginsTo
  <2>2. QED
    BY <2>1
<1>2. \A n \in Nat : n \in S => n + 1 \in S
  <2>1. SUFFICES ASSUME NEW n \in Nat, NEW f, BeginsTo(f, n)
                 PROVE  \E g : BeginsTo(g, n + 1)
    OBVIOUS
  <2> DEFINE g == [k \in 0 .. n + 1 |-> IF k = n + 1 THEN f[n] + MonthLength(n) ELSE f[k]]
  <2>2. f \in [0 .. n -> Nat] /\ f[n] \in Nat /\ MonthLength(n) \in Nat
    BY <2>1, YearLength DEF BeginsTo
  <2>3. \A k \in 0 .. n : g[k] = f[k]
    OBVIOUS
  <2>4. g[n + 1] = f[n] + MonthLength(n)
    OBVIOUS
  <2>5. g \in [0 .. n + 1 -> Nat]
    <3>1. ASSUME NEW k \in 0 .. n + 1 PROVE g[k] \in Nat
      <4>1. CASE k = n + 1
        BY <2>2, <2>4, <4>1
      <4>2. CASE k # n + 1
        BY <2>2, <2>3, <4>2
      <4>3. QED
        BY <4>1, <4>2
    <3>2. QED
      BY <3>1
  <2>6. \A k \in 0 .. (n + 1) - 1 : g[k + 1] = g[k] + MonthLength(k)
    <3> HIDE DEF g
    <3>0. (n + 1) - 1 = n
      OBVIOUS
    <3>1. SUFFICES ASSUME NEW k \in 0 .. n PROVE g[k + 1] = g[k] + MonthLength(k)
      BY <3>0
    <3>2. CASE k = n
      BY <2>3, <2>4, <3>2
    <3>3. CASE k # n
      <4>1. k \in 0 .. n - 1 /\ k + 1 \in 0 .. n
        BY <3>3
      <4>2. f[k + 1] = f[k] + MonthLength(k)
        BY <2>1, <4>1 DEF BeginsTo
      <4>3. QED
        BY <2>3, <4>1, <4>2
    <3>4. QED
      BY <3>2, <3>3
  <2>7. g[0] = 0
    BY <2>1 DEF BeginsTo
  <2> HIDE DEF g
  <2>8. BeginsTo(g, n + 1)
    BY <2>5, <2>6, <2>7 DEF BeginsTo
  <2>9. QED
    BY <2>8
<1>3. Nat \subseteq S
  <2> HIDE DEF S
  <2> QED BY <1>1, <1>2, CountingUp
<1>4. QED
  BY <1>3

MonthBody(f, k) ==
  IF k = 0 THEN 0 ELSE f[k - 1] + MonthLengths[((k - 1) % MonthsListed) + 1]

\* The recursion that says when a month begins is one of a function
LEMMA MonthStarts ==
  /\ MonthStart \in [Nat -> Nat] /\ MonthStart[0] = 0
  /\ \A k \in Nat : MonthStart[k + 1] = MonthStart[k] + MonthLength(k)
<1> DEFINE fs == [n \in Nat |-> CHOOSE f : BeginsTo(f, n)]
           h == [n \in Nat |-> fs[n][n]]
<1>1. \A n \in Nat : BeginsTo(fs[n], n)
  BY BeginsExist
<1>2. h \in [Nat -> Nat] /\ h[0] = 0
  <2> HIDE DEF fs
  <2>1. \A n \in Nat : fs[n][n] \in Nat
    BY <1>1 DEF BeginsTo
  <2>2. fs[0][0] = 0
    BY <1>1 DEF BeginsTo
  <2>3. QED
    BY <2>1, <2>2
<1>3. ASSUME NEW k \in Nat PROVE h[k + 1] = h[k] + MonthLength(k)
  <2>1. BeginsTo(fs[k], k) /\ BeginsTo(fs[k + 1], k + 1)
    BY <1>1
  <2>2. k \in 0 .. k /\ k <= k + 1 /\ k \in 0 .. (k + 1) - 1
    OBVIOUS
  <2> HIDE DEF fs
  <2>3. fs[k][k] = fs[k + 1][k]
    BY <2>1, <2>2, BeginsAgree
  <2>4. fs[k + 1][k + 1] = fs[k + 1][k] + MonthLength(k)
    BY <2>1, <2>2 DEF BeginsTo
  <2>5. QED
    BY <2>3, <2>4
<1> HIDE DEF h
<1>4. ASSUME NEW k \in Nat PROVE h[k] = MonthBody(h, k)
  <2>1. CASE k = 0
    BY <1>2, <2>1 DEF MonthBody
  <2>2. CASE k # 0
    <3>1. k - 1 \in Nat /\ (k - 1) + 1 = k
      BY <2>2
    <3>2. h[k] = h[k - 1] + MonthLength(k - 1)
      BY <1>3, <3>1
    <3>3. QED
      BY <2>2, <3>2 DEF MonthBody, MonthLength
  <2>3. QED
    BY <2>1, <2>2
<1>5. h = [k \in Nat |-> MonthBody(h, k)]
  BY <1>2, <1>4
<1>6. MonthStart = CHOOSE f : f = [k \in Nat |-> MonthBody(f, k)]
  BY DEF MonthStart, MonthBody
<1>7. MonthStart = [k \in Nat |-> MonthBody(MonthStart, k)]
  BY <1>5, <1>6
<1>8. MonthStart[0] = 0
  BY <1>7 DEF MonthBody
<1>9. ASSUME NEW k \in Nat PROVE MonthStart[k + 1] = MonthStart[k] + MonthLength(k)
  <2>1. k + 1 \in Nat /\ k + 1 # 0 /\ (k + 1) - 1 = k
    OBVIOUS
  <2>2. MonthStart[k + 1] = MonthBody(MonthStart, k + 1)
    BY <1>7, <2>1
  <2>3. QED
    BY <2>1, <2>2 DEF MonthBody, MonthLength
<1>10. \A k \in Nat : MonthStart[k] \in Nat
  <2> DEFINE S == {k \in Nat : MonthStart[k] \in Nat}
  <2>1. 0 \in S
    BY <1>8
  <2>2. \A k \in Nat : k \in S => k + 1 \in S
    <3>1. SUFFICES ASSUME NEW k \in Nat, k \in S PROVE MonthStart[k + 1] \in Nat
      OBVIOUS
    <3>2. MonthStart[k + 1] = MonthStart[k] + MonthLength(k)
      BY <1>9
    <3>3. MonthLength(k) \in Nat
      BY YearLength
    <3>4. QED
      BY <3>1, <3>2, <3>3
  <2>3. Nat \subseteq S
    <3> HIDE DEF S
    <3> QED BY <2>1, <2>2, CountingUp
  <2>4. QED
    BY <2>3
<1>11. QED
  BY <1>7, <1>8, <1>9, <1>10

LEMMA MonthsRise ==
  /\ \A j, k \in Nat : j < k => MonthStart[j + 1] <= MonthStart[k]
  /\ \A k \in Nat : k <= MonthStart[k]
<1>1. \A k \in Nat : MonthStart[k] \in Nat /\ MonthStart[k] < MonthStart[k + 1]
  <2>1. SUFFICES ASSUME NEW k \in Nat
                 PROVE  MonthStart[k] \in Nat /\ MonthStart[k] < MonthStart[k + 1]
    OBVIOUS
  <2>2. MonthStart[k + 1] = MonthStart[k] + MonthLength(k) /\ MonthStart[k] \in Nat
    BY MonthStarts
  <2>3. MonthLength(k) \in Nat /\ MonthLength(k) > 0
    BY YearLength
  <2>4. QED
    BY <2>2, <2>3
<1>2. ASSUME NEW j \in Nat PROVE \A k \in Nat : j < k => MonthStart[j + 1] <= MonthStart[k]
  <2> DEFINE S == {k \in Nat : j < k => MonthStart[j + 1] <= MonthStart[k]}
  <2>1. 0 \in S
    OBVIOUS
  <2>2. \A k \in Nat : k \in S => k + 1 \in S
    <3>1. SUFFICES ASSUME NEW k \in Nat, k \in S, j < k + 1
                   PROVE  MonthStart[j + 1] <= MonthStart[k + 1]
      OBVIOUS
    <3>2. MonthStart[j + 1] \in Nat /\ MonthStart[k] \in Nat /\ MonthStart[k + 1] \in Nat
      BY <1>1
    <3>3. CASE j = k
      BY <3>2, <3>3
    <3>4. CASE j < k
      <4>1. MonthStart[j + 1] <= MonthStart[k] /\ MonthStart[k] < MonthStart[k + 1]
        BY <3>1, <3>4, <1>1
      <4>2. QED
        BY <3>2, <4>1
    <3>5. QED
      BY <3>1, <3>3, <3>4
  <2>3. Nat \subseteq S
    <3> HIDE DEF S
    <3> QED BY <2>1, <2>2, CountingUp
  <2>4. QED
    BY <2>3
<1>3. \A k \in Nat : k <= MonthStart[k]
  <2> DEFINE S == {k \in Nat : k <= MonthStart[k]}
  <2>1. 0 \in S
    BY MonthStarts
  <2>2. \A k \in Nat : k \in S => k + 1 \in S
    <3>1. SUFFICES ASSUME NEW k \in Nat, k <= MonthStart[k] PROVE k + 1 <= MonthStart[k + 1]
      OBVIOUS
    <3>2. MonthStart[k] \in Nat /\ MonthStart[k + 1] \in Nat /\ MonthStart[k] < MonthStart[k + 1]
      BY <1>1
    <3>3. QED
      BY <3>1, <3>2
  <2>3. Nat \subseteq S
    <3> HIDE DEF S
    <3> QED BY <2>1, <2>2, CountingUp
  <2>4. QED
    BY <2>3
<1>4. QED
  BY <1>2, <1>3

\* Every moment lies in one month
LEMMA MonthFacts ==
  ASSUME NEW t \in Nat
  PROVE  /\ MonthAt(t) \in Nat
         /\ MonthStart[MonthAt(t)] <= Day(t) /\ Day(t) < MonthStart[MonthAt(t) + 1]
         /\ \A k \in Nat : MonthStart[k] <= Day(t) /\ Day(t) < MonthStart[k + 1]
                             => MonthAt(t) = k
<1>1. Day(t) \in Nat
  BY DayAndMinute
<1>2. \A k \in Nat : MonthStart[k] \in Nat
  BY MonthStarts
<1> DEFINE S == {k \in Nat : MonthStart[k] <= Day(t)}
           In(k) == MonthStart[k] <= Day(t) /\ Day(t) < MonthStart[k + 1]
<1>3. \E k \in 0 .. Day(t) : In(k)
  <2>1. \A k \in S : k <= Day(t)
    <3>1. SUFFICES ASSUME NEW k \in S PROVE k <= Day(t)
      OBVIOUS
    <3>2. k \in Nat /\ MonthStart[k] \in Nat /\ MonthStart[k] <= Day(t) /\ k <= MonthStart[k]
      BY <1>2, MonthsRise
    <3>3. QED
      BY <1>1, <3>2
  <2>2. 0 \in S /\ S \in SUBSET Int
    <3>1. 0 \in S
      BY <1>1, MonthStarts
    <3>2. S \in SUBSET Int
      OBVIOUS
    <3>3. QED
      BY <3>1, <3>2
  <2>3. PICK k \in S : \A j \in S : j <= k
    <3> HIDE DEF S
    <3>1. S # {} /\ Day(t) \in Int
      BY <1>1, <2>2
    <3>2. QED
      BY <2>1, <2>2, <3>1, GreatestElement
  <2>4. k \in Nat /\ k + 1 \in Nat /\ ~ (k + 1 <= k)
    OBVIOUS
  <2>5. k + 1 \notin S
    BY <2>3, <2>4
  <2>6. In(k)
    BY <1>1, <1>2, <2>4, <2>5
  <2>7. k \in 0 .. Day(t)
    BY <1>1, <2>1, <2>4
  <2>8. QED
    BY <2>6, <2>7
<1>4. ASSUME NEW j \in Nat, NEW k \in Nat, In(j), In(k) PROVE j = k
  <2>1. ASSUME NEW a \in Nat, NEW b \in Nat, In(a), In(b) PROVE ~ (a < b)
    <3>1. SUFFICES ASSUME a < b PROVE FALSE
      OBVIOUS
    <3>2. MonthStart[a + 1] <= MonthStart[b]
      BY <3>1, MonthsRise
    <3>3. MonthStart[a + 1] \in Nat /\ MonthStart[b] \in Nat
      BY <1>2
    <3>4. QED
      BY <1>1, <2>1, <3>2, <3>3
  <2>2. ~ (j < k) /\ ~ (k < j)
    BY <1>4, <2>1
  <2>3. QED
    BY <2>2
<1>5. MonthAt(t) \in 0 .. Day(t) /\ In(MonthAt(t))
  BY <1>3 DEF MonthAt
<1>6. MonthAt(t) \in Nat
  BY <1>1, <1>5
<1>7. QED
  BY <1>4, <1>5, <1>6

LEMMA LongestMonthFacts ==
  LongestMonth \in Nat /\ \A k \in Nat : MonthLength(k) <= LongestMonth
<1> DEFINE S == {MonthLengths[k] : k \in 1 .. MonthsListed}
<1>1. \A k \in 1 .. MonthsListed : MonthLengths[k] \in Nat
  BY YearAssumption DEF MonthsListed
<1>2. \A i \in 1 .. MonthsListed : MonthLengths[i] <= MonthStart[MonthsListed]
  <2>1. SUFFICES ASSUME NEW i \in 1 .. MonthsListed
                 PROVE  MonthLengths[i] <= MonthStart[MonthsListed]
    OBVIOUS
  <2>2. MonthsListed \in Nat \ {0} /\ i - 1 \in Nat /\ i - 1 < MonthsListed /\ (i - 1) + 1 = i
    BY YearLength
  <2>3. (i - 1) % MonthsListed = i - 1
    BY <2>2
  <2>4. MonthLength(i - 1) = MonthLengths[i]
    BY <2>2, <2>3 DEF MonthLength
  <2>5. MonthStart[i] = MonthStart[i - 1] + MonthLengths[i]
    BY <2>2, <2>4, MonthStarts
  <2>6. MonthStart[i] <= MonthStart[MonthsListed]
    BY <2>2, MonthsRise
  <2>7. MonthStart[i] \in Nat /\ MonthStart[i - 1] \in Nat /\ MonthStart[MonthsListed] \in Nat
    BY <2>2, MonthStarts
  <2>8. QED
    BY <1>1, <2>5, <2>6, <2>7
<1>3. PICK n \in S : \A x \in S : x <= n
  <2>1. S \in SUBSET Int
    BY <1>1
  <2>2. S # {}
    BY YearLength
  <2>3. \A x \in S : x <= MonthStart[MonthsListed]
    BY <1>2
  <2>4. MonthStart[MonthsListed] \in Int
    BY YearLength, MonthStarts
  <2> HIDE DEF S
  <2>5. QED
    BY <2>1, <2>2, <2>3, <2>4, GreatestElement
<1>4. \A k \in 1 .. MonthsListed : MonthLengths[k] <= n
  BY <1>3
<1>5. LongestMonth \in S /\ \A k \in 1 .. MonthsListed : MonthLengths[k] <= LongestMonth
  BY <1>3, <1>4 DEF LongestMonth
<1>6. LongestMonth \in Nat
  BY <1>1, <1>5
<1>7. QED
  BY <1>5, <1>6, YearLength DEF MonthLength
-------------------------------------------------------------------------------
(* Leaps.                                                                    *)

\* Numbers whose quotients are at least lo and below hi
LEMMA Blocks ==
  ASSUME NEW b \in Nat \ {0}, NEW u \in Int, NEW lo \in Int, NEW hi \in Int
  PROVE  /\ hi * b \in Int /\ (lo * b) - 1 \in Int
         /\ u < hi * b <=> u \div b < hi
         /\ (lo * b) - 1 < u <=> lo <= u \div b
<1>1. hi * b = b * hi /\ lo * b = b * lo /\ b * hi \in Int /\ b * lo \in Int
  OBVIOUS
<1>2. u \div b < hi <=> u < b * hi
  BY Quotients
<1>3. lo <= u \div b <=> b * lo <= u
  BY Quotients
<1>4. QED
  BY <1>1, <1>2, <1>3

LEMMA HourFacts ==
  ASSUME NEW t \in Nat
  PROVE  /\ Minute(t) \in 0 .. MinutesPerHour - 1 /\ Hour(t) \in 0 .. HoursPerDay - 1
         /\ Hour(t) = (t \div MinutesPerHour) % HoursPerDay
<1>0. HoursPerDay \in Nat \ {0} /\ MinutesPerHour \in Nat \ {0}
  BY ClockAssumption
<1>1. PICK h, r, d, k : /\ h = t \div MinutesPerHour /\ r = t % MinutesPerHour
                        /\ d = h \div HoursPerDay /\ k = h % HoursPerDay
  OBVIOUS
<1>2. h \in Int /\ r \in 0 .. MinutesPerHour - 1 /\ t = (MinutesPerHour * h) + r
  <2>1. t \in Int
    OBVIOUS
  <2>2. /\ t \div MinutesPerHour \in Int /\ t % MinutesPerHour \in 0 .. MinutesPerHour - 1
        /\ t = (MinutesPerHour * (t \div MinutesPerHour)) + (t % MinutesPerHour)
    BY <1>0, <2>1, Division
  <2>3. QED
    BY <1>1, <2>2
<1>3. d \in Int /\ k \in 0 .. HoursPerDay - 1 /\ h = (HoursPerDay * d) + k
  BY <1>0, <1>1, <1>2, Division
<1>4. t = (MinutesPerDay * d) + ((MinutesPerHour * k) + r)
  <2>1. MinutesPerHour * ((HoursPerDay * d) + k)
          = (MinutesPerHour * (HoursPerDay * d)) + (MinutesPerHour * k)
    BY <1>0, <1>3
  <2>2. MinutesPerHour * (HoursPerDay * d) = (HoursPerDay * MinutesPerHour) * d
    BY <1>0, <1>3
  <2>3. /\ MinutesPerHour * (HoursPerDay * d) \in Int /\ MinutesPerHour * k \in Int
        /\ (HoursPerDay * MinutesPerHour) * d \in Int
    BY <1>0, <1>3
  <2>4. QED
    BY <1>2, <1>3, <2>1, <2>2, <2>3 DEF MinutesPerDay
<1>5. (MinutesPerHour * k) + r \in 0 .. MinutesPerDay - 1
  <2>1. (MinutesPerHour * k) + MinutesPerHour <= MinutesPerHour * HoursPerDay
    BY <1>0, <1>3, Scaled
  <2>2. MinutesPerHour * HoursPerDay = MinutesPerDay /\ MinutesPerDay \in Nat
    BY <1>0 DEF MinutesPerDay
  <2>3. MinutesPerHour * k \in Nat
    BY <1>0, <1>3
  <2>4. QED
    BY <1>0, <1>2, <2>1, <2>2, <2>3
<1>6. MinuteOfDay(t) = (MinutesPerHour * k) + r
  BY <1>3, <1>4, <1>5, DayLength, DivisionIsUnique DEF MinuteOfDay
<1>7. Hour(t) = k
  <2>1. k \in Int /\ r \in 0 .. MinutesPerHour - 1
    BY <1>2, <1>3
  <2>2. ((MinutesPerHour * k) + r) \div MinutesPerHour = k
    BY <1>0, <2>1, DivisionIsUnique
  <2>3. QED
    BY <1>6, <2>2 DEF Hour
<1>8. QED
  BY <1>0, <1>1, <1>2, <1>3, <1>7 DEF Minute

LEMMA MonthLeaps ==
  ASSUME NEW t \in Nat
  PROVE  /\ NextMonth(t) \in Nat /\ t < NextMonth(t)
         /\ LastOfPreviousMonth(t) \in Int /\ LastOfPreviousMonth(t) < t
         /\ \A u \in Nat : LastOfPreviousMonth(t) < u /\ u < NextMonth(t)
                             => Month(u) = Month(t)
<1> DEFINE k == MonthAt(t)
<1>1. /\ k \in Nat /\ MonthStart[k] \in Int /\ MonthStart[k + 1] \in Int
      /\ MonthStart[k] <= Day(t) /\ Day(t) < MonthStart[k + 1]
  <2>1. k \in Nat /\ MonthStart[k] <= Day(t) /\ Day(t) < MonthStart[k + 1]
    BY MonthFacts
  <2> HIDE DEF k
  <2>2. MonthStart[k] \in Nat /\ MonthStart[k + 1] \in Nat
    BY <2>1, MonthStarts
  <2>3. QED
    BY <2>1, <2>2
<1> HIDE DEF k
<1>2. NextMonth(t) = MonthStart[k + 1] * MinutesPerDay
  BY DEF NextMonth, k
<1>3. LastOfPreviousMonth(t) = MonthStart[k] * MinutesPerDay - 1
  BY DEF LastOfPreviousMonth, k
<1>4. ASSUME NEW u \in Nat
      PROVE  /\ u < NextMonth(t) <=> Day(u) < MonthStart[k + 1]
             /\ LastOfPreviousMonth(t) < u <=> MonthStart[k] <= Day(u)
             /\ NextMonth(t) \in Int /\ LastOfPreviousMonth(t) \in Int
  BY <1>1, <1>2, <1>3, DayLength, Blocks DEF Day
<1>5. /\ t < NextMonth(t) /\ LastOfPreviousMonth(t) < t
      /\ NextMonth(t) \in Int /\ LastOfPreviousMonth(t) \in Int
  BY <1>1, <1>4
<1>6. ASSUME NEW u \in Nat, LastOfPreviousMonth(t) < u, u < NextMonth(t)
      PROVE  Month(u) = Month(t)
  <2>1. MonthStart[k] <= Day(u) /\ Day(u) < MonthStart[k + 1]
    BY <1>4, <1>6
  <2>2. MonthAt(u) = k
    BY <1>1, <2>1, MonthFacts
  <2>3. QED
    BY <2>2 DEF Month, k
<1>7. NextMonth(t) \in Nat
  BY <1>5
<1>8. QED
  BY <1>5, <1>6, <1>7

LEMMA DayLeaps ==
  ASSUME NEW t \in Nat
  PROVE  /\ NextDay(t) \in Nat /\ t < NextDay(t)
         /\ LastOfPreviousDay(t) \in Int /\ LastOfPreviousDay(t) < t
         /\ \A u \in Nat : LastOfPreviousDay(t) < u /\ u < NextDay(t) => Day(u) = Day(t)
<1>1. Day(t) \in Int /\ Day(t) + 1 \in Int
  BY DayAndMinute
<1>2. ASSUME NEW u \in Nat
      PROVE  /\ u < NextDay(t) <=> Day(u) < Day(t) + 1
             /\ LastOfPreviousDay(t) < u <=> Day(t) <= Day(u)
             /\ NextDay(t) \in Int /\ LastOfPreviousDay(t) \in Int
             /\ Day(u) \in Int
  <2> DEFINE d == Day(t)
  <2>1. d \in Int /\ d + 1 \in Int
    BY <1>1
  <2> HIDE DEF d
  <2>2. NextDay(t) = (d + 1) * MinutesPerDay /\ LastOfPreviousDay(t) = d * MinutesPerDay - 1
    BY DEF NextDay, LastOfPreviousDay, d
  <2>3. /\ u < NextDay(t) <=> Day(u) < d + 1
        /\ LastOfPreviousDay(t) < u <=> d <= Day(u)
        /\ NextDay(t) \in Int /\ LastOfPreviousDay(t) \in Int
    BY <2>1, <2>2, DayLength, Blocks DEF Day
  <2>4. QED
    BY <2>3, DayAndMinute DEF d
<1>3. /\ t < NextDay(t) /\ LastOfPreviousDay(t) < t
      /\ NextDay(t) \in Int /\ LastOfPreviousDay(t) \in Int
  BY <1>1, <1>2
<1>4. \A u \in Nat : LastOfPreviousDay(t) < u /\ u < NextDay(t) => Day(u) = Day(t)
  BY <1>1, <1>2
<1>5. QED
  BY <1>3, <1>4

LEMMA HourLeaps ==
  ASSUME NEW t \in Nat
  PROVE  /\ NextHour(t) \in Nat /\ t < NextHour(t)
         /\ LastOfPreviousHour(t) \in Int /\ LastOfPreviousHour(t) < t
         /\ \A u \in Nat : LastOfPreviousHour(t) < u /\ u < NextHour(t) => Hour(u) = Hour(t)
<1> DEFINE Block(u) == u \div MinutesPerHour
<1>0. MinutesPerHour \in Nat \ {0}
  BY ClockAssumption
<1>1. \A u \in Nat : Block(u) \in Int
  BY <1>0
<1>2. ASSUME NEW u \in Nat
      PROVE  /\ u < NextHour(t) <=> Block(u) < Block(t) + 1
             /\ LastOfPreviousHour(t) < u <=> Block(t) <= Block(u)
             /\ NextHour(t) \in Int /\ LastOfPreviousHour(t) \in Int
  <2> DEFINE h == Block(t)
  <2>1. h \in Int /\ h + 1 \in Int
    BY <1>1
  <2> HIDE DEF h
  <2>2. NextHour(t) = (h + 1) * MinutesPerHour /\ LastOfPreviousHour(t) = h * MinutesPerHour - 1
    BY DEF NextHour, LastOfPreviousHour, h
  <2>3. /\ u < NextHour(t) <=> Block(u) < h + 1
        /\ LastOfPreviousHour(t) < u <=> h <= Block(u)
        /\ NextHour(t) \in Int /\ LastOfPreviousHour(t) \in Int
    BY <1>0, <2>1, <2>2, Blocks
  <2>4. QED
    BY <2>3 DEF h
<1> HIDE DEF Block
<1>3. /\ t < NextHour(t) /\ LastOfPreviousHour(t) < t
      /\ NextHour(t) \in Int /\ LastOfPreviousHour(t) \in Int
  BY <1>1, <1>2
<1>4. \A u \in Nat : LastOfPreviousHour(t) < u /\ u < NextHour(t) => Block(u) = Block(t)
  BY <1>1, <1>2
<1>5. \A u \in Nat : Hour(u) = Block(u) % HoursPerDay
  BY HourFacts DEF Block
<1>6. QED
  BY <1>3, <1>4, <1>5
-------------------------------------------------------------------------------
(* Reading a text.                                                           *)

\* Counting from a value by steps reaches what is a multiple of the step away
LEMMA Steps ==
  ASSUME NEW from \in Nat, NEW step \in Nat \ {0}, NEW v \in Nat
  PROVE  (from <= v /\ (v - from) % step = 0) <=> \E k \in 0 .. v : v = from + k * step
<1>1. ASSUME from <= v, (v - from) % step = 0 PROVE \E k \in 0 .. v : v = from + k * step
  <2>1. PICK k : k = (v - from) \div step
    OBVIOUS
  <2>2. v - from \in Int /\ v - from >= 0
    BY <1>1
  <2>3. k \in Nat /\ v - from = (step * k) + ((v - from) % step)
    BY <2>1, <2>2, Division
  <2>4. step * k = k * step /\ step * k \in Int /\ k <= step * k
    <3>1. step - 1 \in Nat /\ (step - 1) * k \in Nat
      BY <2>3
    <3>2. (step - 1) * k = (step * k) - k /\ step * k = k * step /\ step * k \in Int
      BY <2>3
    <3>3. QED
      BY <2>3, <3>1, <3>2
  <2>5. v = from + k * step /\ k \in 0 .. v
    BY <1>1, <2>3, <2>4
  <2>6. QED
    BY <2>5
<1>2. ASSUME NEW k \in 0 .. v, v = from + k * step PROVE from <= v /\ (v - from) % step = 0
  <2>1. k \in Nat /\ k * step \in Nat /\ k * step = step * k
    OBVIOUS
  <2>2. from <= v /\ v - from = (step * k) + 0
    BY <1>2, <2>1
  <2>3. 0 \in 0 .. step - 1 /\ k \in Int
    BY <2>1
  <2>4. ((step * k) + 0) % step = 0
    BY <2>3, DivisionIsUnique
  <2>5. QED
    BY <2>2, <2>4
<1>3. QED
  BY <1>1, <1>2

LEMMA PiecesOfField ==
  ASSUME NEW field \in Fields
  PROVE  Range(field) \in SUBSET Pieces
<1>1. field \in Seq(Pieces)
  BY DEF Fields
<1>2. \A i \in DOMAIN field : field[i] \in Pieces
  BY <1>1
<1>3. QED
  BY <1>2 DEF Range

\* What is made of a field of an accepted text is what its author reads in it
LEMMA FieldsSay ==
  ASSUME NEW field \in Fields, NEW low \in Nat, NEW high \in Nat,
         \A piece \in Range(field) : PieceAccepted(piece, low, high),
         NEW v \in low .. high
  PROVE  v \in FieldValues(Range(field), low, high) <=> Says(field, v, low)
<1> DEFINE pieces == Range(field)
           Step(piece) == IF piece.step = 0 THEN 1 ELSE piece.step
           SaidBy(piece) ==
             \E k \in 0 .. v :
               \/ piece.body = "star" /\ v = low + k * Step(piece)
               \/ piece.body = "range" /\ v = piece.from + k * Step(piece) /\ v <= piece.to
               \/ piece.body = "value" /\ v = piece.from + k * Step(piece)
                                       /\ (k = 0 \/ Step(piece) > 1)
<1>1. ASSUME NEW piece \in pieces PROVE v \in PieceValues(piece, low, high) <=> SaidBy(piece)
  <2>1. /\ piece.body \in {"star", "value", "range"}
        /\ piece.from \in Nat /\ piece.to \in Nat /\ piece.step \in Nat
    BY PiecesOfField DEF Pieces
  <2>2. Step(piece) \in Nat \ {0} /\ v \in Nat
    BY <2>1
  <2>3. PieceAccepted(piece, low, high)
    OBVIOUS
  <2> DEFINE step == Step(piece)
             From(a) == a <= v /\ (v - a) % step = 0
  <2>4. \A a \in Nat : From(a) <=> \E k \in 0 .. v : v = a + k * step
    <3> HIDE DEF Step
    <3>1. QED
      BY <2>2, Steps
  <2>5. CASE piece.body = "star"
    <3>1. v \in PieceValues(piece, low, high) <=> From(low)
      BY <2>5 DEF PieceValues
    <3>2. SaidBy(piece) <=> \E k \in 0 .. v : v = low + k * step
      BY <2>5
    <3> HIDE DEF From, SaidBy, Step
    <3>3. QED
      BY <2>4, <3>1, <3>2
  <2>6. CASE piece.body = "range"
    <3>1. low <= piece.from /\ piece.to <= high
      BY <2>1, <2>3, <2>6 DEF PieceAccepted
    <3>2. v \in PieceValues(piece, low, high) <=> From(piece.from) /\ v <= piece.to
      BY <2>1, <2>6 DEF PieceValues
    <3>3. SaidBy(piece) <=> (\E k \in 0 .. v : v = piece.from + k * step) /\ v <= piece.to
      BY <2>6
    <3> HIDE DEF From, SaidBy, Step
    <3>4. QED
      BY <2>1, <2>4, <3>2, <3>3
  <2>7. CASE piece.body = "value" /\ piece.step > 1
    <3>1. step > 1 /\ step = piece.step
      BY <2>1, <2>7
    <3>2. v \in PieceValues(piece, low, high) <=> From(piece.from)
      BY <2>1, <2>7 DEF PieceValues
    <3>3. SaidBy(piece) <=> \E k \in 0 .. v : v = piece.from + k * step
      BY <2>7, <3>1
    <3> HIDE DEF From, SaidBy, Step
    <3>4. QED
      BY <2>1, <2>4, <3>2, <3>3
  <2>8. CASE piece.body = "value" /\ ~ (piece.step > 1)
    <3>1. step = 1
      BY <2>1, <2>8
    <3>2. v \in PieceValues(piece, low, high) <=> v = piece.from
      <4>1. v \in PieceValues(piece, low, high)
              <=> v \in piece.from .. piece.from /\ (v - piece.from) % 1 = 0
        BY <2>1, <2>8, <3>1 DEF PieceValues
      <4>2. v = piece.from => (v - piece.from) % 1 = 0
        BY <2>1
      <4>3. QED
        BY <2>1, <2>2, <4>1, <4>2
    <3>3. SaidBy(piece) <=> v = piece.from
      <4>1. SaidBy(piece) <=> \E k \in 0 .. v : v = piece.from + k * 1 /\ k = 0
        BY <2>8, <3>1
      <4>2. QED
        BY <2>1, <2>2, <4>1
    <3>4. QED
      BY <3>2, <3>3
  <2>9. QED
    BY <2>1, <2>5, <2>6, <2>7, <2>8
<1>2. v \in FieldValues(pieces, low, high) <=> \E piece \in pieces : SaidBy(piece)
  <2> HIDE DEF SaidBy
  <2> QED BY <1>1 DEF FieldValues
<1>3. Says(field, v, low) <=> \E piece \in pieces : SaidBy(piece)
  BY DEF Says
<1>4. QED
  BY <1>2, <1>3

LEMMA TextFacts ==
  ASSUME NEW text \in Texts, CronAccepted(text)
  PROVE  /\ \A piece \in Range(text.minute) : PieceAccepted(piece, 0, MinutesPerHour - 1)
         /\ \A piece \in Range(text.hour) : PieceAccepted(piece, 0, HoursPerDay - 1)
         /\ \A piece \in Range(text.day) : PieceAccepted(piece, 1, LongestMonth)
         /\ \A piece \in Range(text.month) : PieceAccepted(piece, 1, MonthsPerYear)
         /\ \A piece \in Range(text.weekday) : PieceAccepted(piece, 0, 7)
         /\ {text.minute, text.hour, text.day, text.month, text.weekday} \subseteq Fields
         /\ ParseCron(text).minute = FieldValues(Range(text.minute), 0, MinutesPerHour - 1)
         /\ ParseCron(text).hour = FieldValues(Range(text.hour), 0, HoursPerDay - 1)
         /\ ParseCron(text).day = FieldValues(Range(text.day), 1, LongestMonth)
         /\ ParseCron(text).month = FieldValues(Range(text.month), 1, MonthsPerYear)
         /\ ParseCron(text).weekday = WeekdayValues(Range(text.weekday))
         /\ ParseCron(text).anyDay = (text.day = <<Star>>)
         /\ ParseCron(text).anyWeekday = (text.weekday = <<Star>>)
<1>1. /\ \A piece \in Range(text.minute) : PieceAccepted(piece, 0, MinutesPerHour - 1)
      /\ \A piece \in Range(text.hour) : PieceAccepted(piece, 0, HoursPerDay - 1)
      /\ \A piece \in Range(text.day) : PieceAccepted(piece, 1, LongestMonth)
      /\ \A piece \in Range(text.month) : PieceAccepted(piece, 1, MonthsPerYear)
      /\ \A piece \in Range(text.weekday) : PieceAccepted(piece, 0, 7)
  BY DEF CronAccepted, FieldBounds, Texts
<1>2. {text.minute, text.hour, text.day, text.month, text.weekday} \subseteq Fields
  BY DEF Texts
<1>3. /\ ParseCron(text).minute = FieldValues(Range(text.minute), 0, MinutesPerHour - 1)
      /\ ParseCron(text).hour = FieldValues(Range(text.hour), 0, HoursPerDay - 1)
      /\ ParseCron(text).day = FieldValues(Range(text.day), 1, LongestMonth)
      /\ ParseCron(text).month = FieldValues(Range(text.month), 1, MonthsPerYear)
  BY DEF ParseCron, FieldBounds, Texts
<1>4. /\ ParseCron(text).weekday = WeekdayValues(Range(text.weekday))
      /\ ParseCron(text).anyDay = (text.day = <<Star>>)
      /\ ParseCron(text).anyWeekday = (text.weekday = <<Star>>)
  BY DEF ParseCron
<1>5. QED
  BY <1>1, <1>2, <1>3, <1>4

\* The values of the calendar's fields are within their bounds
LEMMA FieldsOfMoment ==
  ASSUME NEW t \in Nat
  PROVE  Month(t) \in 1 .. MonthsPerYear /\ DayOfMonth(t) \in 1 .. LongestMonth
<1> DEFINE k == MonthAt(t)
<1>1. k \in Nat /\ MonthStart[k] <= Day(t) /\ Day(t) < MonthStart[k + 1]
  BY MonthFacts
<1> HIDE DEF k
<1>2. MonthStart[k] \in Nat /\ MonthStart[k + 1] = MonthStart[k] + MonthLength(k)
  BY <1>1, MonthStarts
<1>3. MonthLength(k) \in Nat /\ MonthLength(k) <= LongestMonth /\ LongestMonth \in Nat
  BY <1>1, YearLength, LongestMonthFacts
<1>4. Day(t) \in Nat
  BY DayAndMinute
<1>5. Day(t) - MonthStart[k] + 1 \in 1 .. LongestMonth
  BY <1>1, <1>2, <1>3, <1>4
<1>6. (k % MonthsPerYear) + 1 \in 1 .. MonthsPerYear
  <2>1. MonthsPerYear \in Nat \ {0}
    BY YearAssumption
  <2>2. k % MonthsPerYear \in 0 .. MonthsPerYear - 1
    BY <1>1, <2>1
  <2>3. QED
    BY <2>1, <2>2
<1>7. QED
  BY <1>5, <1>6 DEF Month, DayOfMonth, k

LEMMA WeekdaysSay ==
  ASSUME NEW field \in Fields, \A piece \in Range(field) : PieceAccepted(piece, 0, 7),
         NEW d \in 0 .. 6
  PROVE  d \in WeekdayValues(Range(field)) <=> Says(field, d, 0) \/ (d = 0 /\ Says(field, 7, 0))
<1> DEFINE pieces == Range(field)
<1>1. \A v \in 0 .. 7 : v \in FieldValues(pieces, 0, 7) <=> Says(field, v, 0)
  BY FieldsSay
<1>2. \A v \in FieldValues(pieces, 0, 7) : v \in 0 .. 7
  <2>1. ASSUME NEW piece \in pieces, NEW v \in PieceValues(piece, 0, 7) PROVE v \in 0 .. 7
    <3>1. piece.body \in {"star", "value", "range"} /\ piece.from \in Nat /\ piece.to \in Nat
      BY PiecesOfField DEF Pieces
    <3>2. PieceAccepted(piece, 0, 7)
      OBVIOUS
    <3>3. CASE piece.body = "star"
      BY <2>1, <3>3 DEF PieceValues
    <3>4. CASE piece.body = "range"
      <4>1. piece.to <= 7
        BY <3>1, <3>2, <3>4 DEF PieceAccepted
      <4>2. v \in piece.from .. piece.to
        BY <2>1, <3>4 DEF PieceValues
      <4>3. QED
        BY <3>1, <4>1, <4>2
    <3>5. CASE piece.body = "value"
      <4>1. piece.from <= 7
        BY <3>1, <3>2, <3>5 DEF PieceAccepted
      <4>2. v \in piece.from .. 7 \/ v \in piece.from .. piece.from
        BY <2>1, <3>5 DEF PieceValues
      <4>3. QED
        BY <3>1, <4>1, <4>2
    <3>6. QED
      BY <3>1, <3>3, <3>4, <3>5
  <2>2. QED
    BY <2>1 DEF FieldValues
<1>3. \A v \in 0 .. 7 : v % 7 = d <=> v = d \/ (v = 7 /\ d = 0)
  OBVIOUS
<1>4. d \in WeekdayValues(pieces) <=> \E v \in FieldValues(pieces, 0, 7) : v % 7 = d
  BY DEF WeekdayValues
<1>5. d \in 0 .. 7 /\ 7 \in 0 .. 7
  OBVIOUS
<1>6. QED
  BY <1>1, <1>2, <1>3, <1>4, <1>5

\* An expression matches the moments its text names
LEMMA MatchesIsWanted ==
  ASSUME NEW trigger \in Triggers, trigger.kind = "cron", NEW t \in Nat
  PROVE  Matches(trigger.cron, t) <=> Wanted(trigger, t)
<1> DEFINE text == trigger.text
           cron == ParseCron(text)
           weekday == (Day(t) + 1) % 7
<1>1. trigger.cron = cron /\ text \in Texts /\ CronAccepted(text)
  BY CronAssumption
<1>2. /\ MinutesPerHour - 1 \in Nat /\ HoursPerDay - 1 \in Nat
      /\ MonthsPerYear \in Nat /\ LongestMonth \in Nat
  BY ClockAssumption, YearAssumption, LongestMonthFacts
<1>3. weekday \in 0 .. 6
  <2>1. Day(t) + 1 \in Int
    BY DayAndMinute
  <2>2. QED
    BY <2>1
<1> HIDE DEF text, cron, weekday
<1>4. Minute(t) \in cron.minute <=> Says(text.minute, Minute(t), 0)
  <2>1. Minute(t) \in 0 .. MinutesPerHour - 1
    BY HourFacts
  <2>2. text.minute \in Fields /\ \A piece \in Range(text.minute) : PieceAccepted(piece, 0, MinutesPerHour - 1)
    BY <1>1, TextFacts
  <2>3. cron.minute = FieldValues(Range(text.minute), 0, MinutesPerHour - 1)
    BY <1>1, TextFacts DEF cron
  <2>4. QED
    BY <1>2, <2>1, <2>2, <2>3, FieldsSay
<1>5. Hour(t) \in cron.hour <=> Says(text.hour, Hour(t), 0)
  <2>1. Hour(t) \in 0 .. HoursPerDay - 1
    BY HourFacts
  <2>2. text.hour \in Fields /\ \A piece \in Range(text.hour) : PieceAccepted(piece, 0, HoursPerDay - 1)
    BY <1>1, TextFacts
  <2>3. cron.hour = FieldValues(Range(text.hour), 0, HoursPerDay - 1)
    BY <1>1, TextFacts DEF cron
  <2>4. QED
    BY <1>2, <2>1, <2>2, <2>3, FieldsSay
<1>6. Month(t) \in cron.month <=> Says(text.month, Month(t), 1)
  <2>1. Month(t) \in 1 .. MonthsPerYear
    BY FieldsOfMoment
  <2>2. text.month \in Fields /\ \A piece \in Range(text.month) : PieceAccepted(piece, 1, MonthsPerYear)
    BY <1>1, TextFacts
  <2>3. cron.month = FieldValues(Range(text.month), 1, MonthsPerYear)
    BY <1>1, TextFacts DEF cron
  <2>4. QED
    BY <1>2, <2>1, <2>2, <2>3, FieldsSay
<1>7. DayOfMonth(t) \in cron.day <=> Says(text.day, DayOfMonth(t), 1)
  <2>1. DayOfMonth(t) \in 1 .. LongestMonth
    BY FieldsOfMoment
  <2>2. text.day \in Fields /\ \A piece \in Range(text.day) : PieceAccepted(piece, 1, LongestMonth)
    BY <1>1, TextFacts
  <2>3. cron.day = FieldValues(Range(text.day), 1, LongestMonth)
    BY <1>1, TextFacts DEF cron
  <2>4. QED
    BY <1>2, <2>1, <2>2, <2>3, FieldsSay
<1>8. weekday \in cron.weekday
        <=> Says(text.weekday, weekday, 0) \/ (weekday = 0 /\ Says(text.weekday, 7, 0))
  BY <1>1, <1>3, TextFacts, WeekdaysSay DEF cron
<1>9. cron.anyDay = (text.day = <<Star>>) /\ cron.anyWeekday = (text.weekday = <<Star>>)
  BY <1>1, TextFacts DEF cron
<1>10. DayMatches(cron, t) <=> NamesDay(text, t)
  BY <1>7, <1>8, <1>9 DEF DayMatches, NamesDay, weekday
<1>11. QED
  BY <1>1, <1>4, <1>5, <1>6, <1>10 DEF Matches, Wanted, text
-------------------------------------------------------------------------------
(* Searching.                                                                *)

LEMMA MinAndMax ==
  ASSUME NEW S \in SUBSET Int, NEW m \in S
  PROVE  /\ (\A k \in S : m <= k) => Min(S) = m
         /\ (\A k \in S : k <= m) => Max(S) = m
<1>1. m \in Int /\ \A k \in S : k \in Int
  OBVIOUS
<1>2. ASSUME \A k \in S : m <= k PROVE Min(S) = m
  <2>1. \A x \in S : (\A k \in S : x <= k) => x = m
    BY <1>1, <1>2
  <2>2. QED
    BY <1>2, <2>1 DEF Min
<1>3. ASSUME \A k \in S : k <= m PROVE Max(S) = m
  <2>1. \A x \in S : (\A k \in S : k <= x) => x = m
    BY <1>1, <1>3
  <2>2. QED
    BY <1>3, <2>1 DEF Max
<1>4. QED
  BY <1>2, <1>3

\* Where next_after goes from a moment that does not match
LeapAfter(cron, m) ==
  IF Month(m) \notin cron.month THEN NextMonth(m)
  ELSE IF ~ DayMatches(cron, m) THEN NextDay(m)
  ELSE IF Hour(m) \notin cron.hour THEN NextHour(m)
  ELSE m + 1

LeapBefore(cron, m) ==
  IF Month(m) \notin cron.month THEN LastOfPreviousMonth(m)
  ELSE IF ~ DayMatches(cron, m) THEN LastOfPreviousDay(m)
  ELSE IF Hour(m) \notin cron.hour THEN LastOfPreviousHour(m)
  ELSE m - 1

LEMMA SameDayMatches ==
  ASSUME NEW cron, NEW t \in Nat, NEW u \in Nat, Day(u) = Day(t)
  PROVE  DayMatches(cron, u) <=> DayMatches(cron, t)
BY DEF DayMatches, DayOfMonth, MonthAt

\* No match is leapt over, in either direction
LEMMA LeapsMissNothing ==
  ASSUME NEW cron, NEW m \in Nat, ~ Matches(cron, m)
  PROVE  /\ LeapAfter(cron, m) \in Nat /\ m < LeapAfter(cron, m)
         /\ LeapBefore(cron, m) \in Int /\ LeapBefore(cron, m) < m
         /\ \A u \in Nat : LeapBefore(cron, m) < u /\ u < LeapAfter(cron, m)
                             => ~ Matches(cron, u)
<1>1. CASE Month(m) \notin cron.month
  <2>1. LeapAfter(cron, m) = NextMonth(m) /\ LeapBefore(cron, m) = LastOfPreviousMonth(m)
    BY <1>1 DEF LeapAfter, LeapBefore
  <2>2. QED
    BY <1>1, <2>1, MonthLeaps DEF Matches
<1>2. CASE Month(m) \in cron.month /\ ~ DayMatches(cron, m)
  <2>1. LeapAfter(cron, m) = NextDay(m) /\ LeapBefore(cron, m) = LastOfPreviousDay(m)
    BY <1>2 DEF LeapAfter, LeapBefore
  <2>2. \A u \in Nat : Day(u) = Day(m) => ~ Matches(cron, u)
    BY <1>2, SameDayMatches DEF Matches
  <2>3. QED
    BY <2>1, <2>2, DayLeaps
<1>3. CASE Month(m) \in cron.month /\ DayMatches(cron, m) /\ Hour(m) \notin cron.hour
  <2>1. LeapAfter(cron, m) = NextHour(m) /\ LeapBefore(cron, m) = LastOfPreviousHour(m)
    BY <1>3 DEF LeapAfter, LeapBefore
  <2>2. QED
    BY <1>3, <2>1, HourLeaps DEF Matches
<1>4. CASE Month(m) \in cron.month /\ DayMatches(cron, m) /\ Hour(m) \in cron.hour
  <2>1. LeapAfter(cron, m) = m + 1 /\ LeapBefore(cron, m) = m - 1
    BY <1>4 DEF LeapAfter, LeapBefore
  <2>2. \A u \in Nat : m - 1 < u /\ u < m + 1 => u = m
    OBVIOUS
  <2>3. QED
    BY <2>1, <2>2
<1>5. QED
  BY <1>1, <1>2, <1>3, <1>4

AfterBody(cron, horizon, f, m) ==
  IF m >= horizon THEN NoMoment
  ELSE IF Month(m) \notin cron.month THEN f[NextMonth(m)]
  ELSE IF ~ DayMatches(cron, m) THEN f[NextDay(m)]
  ELSE IF Hour(m) \notin cron.hour THEN f[NextHour(m)]
  ELSE IF Minute(m) \notin cron.minute THEN f[m + 1]
  ELSE m

BeforeBody(cron, horizon, f, m) ==
  IF m <= horizon \/ m < 0 THEN NoMoment
  ELSE IF Month(m) \notin cron.month THEN f[LastOfPreviousMonth(m)]
  ELSE IF ~ DayMatches(cron, m) THEN f[LastOfPreviousDay(m)]
  ELSE IF Hour(m) \notin cron.hour THEN f[LastOfPreviousHour(m)]
  ELSE IF Minute(m) \notin cron.minute THEN f[m - 1]
  ELSE m

LEMMA Bodies ==
  ASSUME NEW cron, NEW horizon \in Int, NEW f, NEW m \in Int
  PROVE  /\ m >= horizon => AfterBody(cron, horizon, f, m) = NoMoment
         /\ ~ (m >= horizon) =>
              AfterBody(cron, horizon, f, m)
                = IF Matches(cron, m) THEN m ELSE f[LeapAfter(cron, m)]
         /\ m <= horizon \/ m < 0 => BeforeBody(cron, horizon, f, m) = NoMoment
         /\ ~ (m <= horizon \/ m < 0) =>
              BeforeBody(cron, horizon, f, m)
                = IF Matches(cron, m) THEN m ELSE f[LeapBefore(cron, m)]
BY DEF AfterBody, BeforeBody, Matches, LeapAfter, LeapBefore

\* The search forward answers with the first match before its horizon
LEMMA AfterFinds ==
  ASSUME NEW cron, NEW t \in Nat
  PROVE  LET later == {u \in t + 1 .. t + SearchSpan : Matches(cron, u)}
         IN  CronAfter(cron, t) = IF later = {} THEN NoMoment ELSE Min(later)
<1> DEFINE horizon == t + 1 + SearchLimitDays * MinutesPerDay
           Rest(m) == {u \in m .. horizon - 1 : Matches(cron, u)}
           First(m) == IF Rest(m) = {} THEN NoMoment ELSE Min(Rest(m))
           Body(f, m) == AfterBody(cron, horizon, f, m)
           goal == [m \in Nat |-> First(m)]
           search == CHOOSE f : f = [m \in Nat |-> Body(f, m)]
<1>1. horizon \in Nat /\ horizon - 1 = t + SearchSpan /\ horizon - 1 \in Int
  <2>1. SearchSpan \in Nat
    BY DayLength, SearchAssumption DEF SearchSpan
  <2>2. QED
    BY <2>1 DEF SearchSpan
<1> HIDE DEF horizon
<1>2. \A m \in Nat : m >= horizon => First(m) = NoMoment
  BY <1>1
<1>3. ASSUME NEW m \in Nat, m < horizon, Matches(cron, m) PROVE First(m) = m
  <2>1. m \in Rest(m) /\ Rest(m) \in SUBSET Int /\ \A k \in Rest(m) : m <= k
    BY <1>1, <1>3
  <2> HIDE DEF Rest
  <2>2. QED
    BY <2>1, MinAndMax
<1>4. ASSUME NEW m \in Nat, m < horizon, ~ Matches(cron, m)
      PROVE  First(m) = First(LeapAfter(cron, m))
  <2> DEFINE n == LeapAfter(cron, m)
  <2>1. n \in Nat /\ m < n /\ \A u \in m .. n - 1 : ~ Matches(cron, u)
    <3>1. /\ n \in Nat /\ m < n /\ LeapBefore(cron, m) \in Int /\ LeapBefore(cron, m) < m
          /\ \A u \in Nat : LeapBefore(cron, m) < u /\ u < n => ~ Matches(cron, u)
      BY <1>4, LeapsMissNothing
    <3> HIDE DEF n
    <3>2. QED
      BY <3>1
  <2> HIDE DEF n
  <2>2. \A u \in m .. horizon - 1 : u \in n .. horizon - 1 \/ u \in m .. n - 1
    BY <1>1, <2>1
  <2>3. \A u \in n .. horizon - 1 : u \in m .. horizon - 1
    BY <1>1, <2>1
  <2>4. Rest(m) = Rest(n)
    BY <2>1, <2>2, <2>3
  <2>5. QED
    BY <2>4 DEF n
<1> HIDE DEF First
<1>5. \A m \in Nat : goal[m] = Body(goal, m)
  <2>1. SUFFICES ASSUME NEW m \in Nat PROVE First(m) = Body(goal, m)
    OBVIOUS
  <2> HIDE DEF goal
  <2>2. CASE m >= horizon
    BY <1>1, <1>2, <2>2, Bodies
  <2>3. CASE m < horizon /\ Matches(cron, m)
    BY <1>1, <1>3, <2>3, Bodies
  <2>4. CASE m < horizon /\ ~ Matches(cron, m)
    <3>1. Body(goal, m) = goal[LeapAfter(cron, m)]
      BY <1>1, <2>4, Bodies
    <3>2. LeapAfter(cron, m) \in Nat
      BY <2>4, LeapsMissNothing
    <3>3. QED
      BY <1>4, <2>4, <3>1, <3>2 DEF goal
  <2>5. QED
    BY <1>1, <2>2, <2>3, <2>4
<1>6. goal = [m \in Nat |-> Body(goal, m)]
  <2>1. goal = [m \in Nat |-> goal[m]]
    OBVIOUS
  <2> HIDE DEF goal, Body
  <2>2. QED
    BY <1>5, <2>1
<1>7. search = [m \in Nat |-> Body(search, m)]
  <2> HIDE DEF goal, Body
  <2> QED BY <1>6
<1>8. \A m \in Nat : search[m] = Body(search, m)
  <2> HIDE DEF search, Body
  <2> QED BY <1>7
<1> HIDE DEF search
<1>9. \A m \in Nat : search[m] = First(m)
  <2> DEFINE bad == {m \in 0 .. horizon : search[m] # First(m)}
  <2>1. \A m \in Nat : m >= horizon => search[m] = First(m)
    BY <1>1, <1>2, <1>8, Bodies
  <2>2. ASSUME bad # {} PROVE FALSE
    <3>1. PICK m \in bad : \A k \in bad : k <= m
      <4>1. bad \in SUBSET Int /\ horizon \in Int /\ \A k \in bad : k <= horizon
        BY <1>1
      <4> HIDE DEF bad
      <4>2. QED
        BY <2>2, <4>1, GreatestElement
    <3>2. m \in Nat /\ m < horizon /\ search[m] # First(m)
      BY <1>1, <2>1
    <3>3. ~ Matches(cron, m)
      BY <1>1, <1>3, <1>8, <3>2, Bodies
    <3>4. search[m] = search[LeapAfter(cron, m)]
      BY <1>1, <1>8, <3>2, <3>3, Bodies
    <3> DEFINE n == LeapAfter(cron, m)
    <3>5. n \in Nat /\ m < n
      BY <3>2, <3>3, LeapsMissNothing
    <3>6. search[n] = First(n)
      <4> HIDE DEF n
      <4>1. CASE n >= horizon
        BY <2>1, <3>5, <4>1
      <4>2. CASE n < horizon
        <5>1. n \notin bad
          BY <3>1, <3>2, <3>5
        <5>2. QED
          BY <1>1, <3>5, <4>2, <5>1
      <4>3. QED
        BY <1>1, <3>5, <4>1, <4>2
    <3>7. QED
      BY <1>4, <3>2, <3>3, <3>4, <3>6
  <2>3. QED
    BY <1>1, <2>1, <2>2
<1>10. CronAfter(cron, t) = search[t + 1]
  BY DEF CronAfter, search, AfterBody, horizon
<1>11. First(t + 1)
         = IF {u \in t + 1 .. t + SearchSpan : Matches(cron, u)} = {}
             THEN NoMoment ELSE Min({u \in t + 1 .. t + SearchSpan : Matches(cron, u)})
  BY <1>1 DEF First
<1>12. QED
  BY <1>9, <1>10, <1>11

\* The search backward answers with the last match after its horizon
LEMMA BeforeFinds ==
  ASSUME NEW cron, NEW t \in Nat
  PROVE  LET earlier == {u \in t - SearchSpan .. t - 1 : u >= 0 /\ Matches(cron, u)}
         IN  CronBefore(cron, t) = IF earlier = {} THEN NoMoment ELSE Max(earlier)
<1> DEFINE horizon == t - 1 - SearchLimitDays * MinutesPerDay
           Rest(m) == {u \in horizon + 1 .. m : u >= 0 /\ Matches(cron, u)}
           Last(m) == IF Rest(m) = {} THEN NoMoment ELSE Max(Rest(m))
           Body(f, m) == BeforeBody(cron, horizon, f, m)
           goal == [m \in Int |-> Last(m)]
           search == CHOOSE f : f = [m \in Int |-> Body(f, m)]
<1>1. horizon \in Int /\ horizon + 1 = t - SearchSpan /\ t - 1 \in Int
  <2>1. SearchSpan \in Nat
    BY DayLength, SearchAssumption DEF SearchSpan
  <2>2. QED
    BY <2>1 DEF SearchSpan
<1> HIDE DEF horizon
<1>2. \A m \in Int : m <= horizon \/ m < 0 => Last(m) = NoMoment
  BY <1>1
<1>3. ASSUME NEW m \in Nat, ~ (m <= horizon), Matches(cron, m) PROVE Last(m) = m
  <2>1. m \in Rest(m) /\ Rest(m) \in SUBSET Int /\ \A k \in Rest(m) : k <= m
    BY <1>1, <1>3
  <2> HIDE DEF Rest
  <2>2. QED
    BY <2>1, MinAndMax
<1>4. ASSUME NEW m \in Nat, ~ (m <= horizon), ~ Matches(cron, m)
      PROVE  Last(m) = Last(LeapBefore(cron, m))
  <2> DEFINE n == LeapBefore(cron, m)
  <2>1. n \in Int /\ n < m /\ \A u \in n + 1 .. m : u >= 0 => ~ Matches(cron, u)
    <3>1. /\ n \in Int /\ n < m /\ LeapAfter(cron, m) \in Nat /\ m < LeapAfter(cron, m)
          /\ \A u \in Nat : n < u /\ u < LeapAfter(cron, m) => ~ Matches(cron, u)
      BY <1>4, LeapsMissNothing
    <3> HIDE DEF n
    <3>2. QED
      BY <3>1
  <2> HIDE DEF n
  <2>2. \A u \in horizon + 1 .. m : u \in horizon + 1 .. n \/ u \in n + 1 .. m
    BY <1>1, <2>1
  <2>3. \A u \in horizon + 1 .. n : u \in horizon + 1 .. m
    BY <1>1, <2>1
  <2>4. Rest(m) = Rest(n)
    BY <2>1, <2>2, <2>3
  <2>5. QED
    BY <2>4 DEF n
<1> HIDE DEF Last
<1>5. \A m \in Int : goal[m] = Body(goal, m)
  <2>1. SUFFICES ASSUME NEW m \in Int PROVE Last(m) = Body(goal, m)
    OBVIOUS
  <2> HIDE DEF goal
  <2>2. CASE m <= horizon \/ m < 0
    BY <1>1, <1>2, <2>2, Bodies
  <2>3. CASE ~ (m <= horizon) /\ m \in Nat /\ Matches(cron, m)
    BY <1>1, <1>3, <2>3, Bodies
  <2>4. CASE ~ (m <= horizon) /\ m \in Nat /\ ~ Matches(cron, m)
    <3>1. Body(goal, m) = goal[LeapBefore(cron, m)]
      BY <1>1, <2>4, Bodies
    <3>2. LeapBefore(cron, m) \in Int
      BY <2>4, LeapsMissNothing
    <3>3. QED
      BY <1>4, <2>4, <3>1, <3>2 DEF goal
  <2>5. QED
    BY <1>1, <2>2, <2>3, <2>4
<1>6. goal = [m \in Int |-> Body(goal, m)]
  <2>1. goal = [m \in Int |-> goal[m]]
    OBVIOUS
  <2> HIDE DEF goal, Body
  <2>2. QED
    BY <1>5, <2>1
<1>7. search = [m \in Int |-> Body(search, m)]
  <2> HIDE DEF goal, Body
  <2> QED BY <1>6
<1>8. \A m \in Int : search[m] = Body(search, m)
  <2> HIDE DEF search, Body
  <2> QED BY <1>7
<1> HIDE DEF search
<1>9. \A m \in Int : search[m] = Last(m)
  <2> DEFINE bad == {m \in Nat : search[m] # Last(m)}
  <2>1. \A m \in Int : m <= horizon \/ m < 0 => search[m] = Last(m)
    BY <1>1, <1>2, <1>8, Bodies
  <2>2. ASSUME bad # {} PROVE FALSE
    <3>1. PICK m \in bad : \A k \in bad : m <= k
      <4>1. bad \in SUBSET Nat
        OBVIOUS
      <4> HIDE DEF bad
      <4>2. QED
        BY <2>2, <4>1, LeastElement
    <3>2. m \in Nat /\ ~ (m <= horizon) /\ search[m] # Last(m)
      BY <1>1, <2>1
    <3>3. ~ Matches(cron, m)
      BY <1>1, <1>3, <1>8, <3>2, Bodies
    <3>4. search[m] = search[LeapBefore(cron, m)]
      BY <1>1, <1>8, <3>2, <3>3, Bodies
    <3> DEFINE n == LeapBefore(cron, m)
    <3>5. n \in Int /\ n < m
      BY <3>2, <3>3, LeapsMissNothing
    <3>6. search[n] = Last(n)
      <4> HIDE DEF n
      <4>1. CASE n < 0
        BY <2>1, <3>5, <4>1
      <4>2. CASE n \in Nat
        <5>1. n \notin bad
          BY <3>1, <3>2, <3>5
        <5>2. QED
          BY <4>2, <5>1
      <4>3. QED
        BY <3>5, <4>1, <4>2
    <3>7. QED
      BY <1>4, <3>2, <3>3, <3>4, <3>6
  <2>3. QED
    BY <1>1, <2>1, <2>2
<1>10. CronBefore(cron, t) = search[t - 1]
  BY DEF CronBefore, search, BeforeBody, horizon
<1>11. Last(t - 1)
         = IF {u \in t - SearchSpan .. t - 1 : u >= 0 /\ Matches(cron, u)} = {}
             THEN NoMoment ELSE Max({u \in t - SearchSpan .. t - 1 : u >= 0 /\ Matches(cron, u)})
  BY <1>1 DEF Last
<1>12. QED
  BY <1>1, <1>9, <1>10, <1>11

\* The searches of a cron expression, which leap over months, days and hours, find the
\* first moment after and the last one before any other that the text of the expression
\* names, as far as they look: for clocks and years of any shape, and every text the
\* parser accepts.  (parse_cron, next_after, previous_before)
THEOREM CronCorrect == Spec => []CronSearchesFind
<1>1. ASSUME NEW trigger \in Triggers, trigger.kind = "cron", NEW t \in Moments
      PROVE  LET later == WantedWithin(trigger, t + 1, t + SearchSpan)
                 earlier == WantedWithin(trigger, t - SearchSpan, t - 1)
             IN  /\ CronAfter(trigger.cron, t) = IF later = {} THEN NoMoment ELSE Min(later)
                 /\ CronBefore(trigger.cron, t) = IF earlier = {} THEN NoMoment ELSE Max(earlier)
  <2>1. t \in Nat /\ SearchSpan \in Nat
    <3>1. t \in Nat
      BY HorizonAssumption DEF Moments
    <3>2. SearchSpan \in Nat
      BY DayLength, SearchAssumption DEF SearchSpan
    <3>3. QED
      BY <3>1, <3>2
  <2>2. \A u \in Int : u >= 0 => (Matches(trigger.cron, u) <=> Wanted(trigger, u))
    <3>1. \A u \in Nat : Matches(trigger.cron, u) <=> Wanted(trigger, u)
      BY <1>1, MatchesIsWanted
    <3>2. QED
      BY <3>1
  <2>3. WantedWithin(trigger, t + 1, t + SearchSpan)
          = {u \in t + 1 .. t + SearchSpan : Matches(trigger.cron, u)}
    <3>1. \A u \in t + 1 .. t + SearchSpan : u \in Int /\ u >= 0
      BY <2>1
    <3>2. QED
      BY <2>2, <3>1 DEF WantedWithin
  <2>4. WantedWithin(trigger, t - SearchSpan, t - 1)
          = {u \in t - SearchSpan .. t - 1 : u >= 0 /\ Matches(trigger.cron, u)}
    <3>1. \A u \in t - SearchSpan .. t - 1 : u \in Int
      BY <2>1
    <3>2. QED
      BY <2>2, <3>1 DEF WantedWithin
  <2>5. QED
    BY <2>1, <2>3, <2>4, AfterFinds, BeforeFinds
<1>2. \A trigger \in Triggers : trigger.kind = "cron" => trigger \in WellSearched
  BY <1>1 DEF WellSearched
<1>3. EntriesTyped => CronSearchesFind
  <2>1. SUFFICES ASSUME EntriesTyped, NEW p \in Positions PROVE entries[p].trigger \in Triggers
    BY <1>2 DEF CronSearchesFind
  <2>2. entries[p] \in Entries
    BY <2>1 DEF EntriesTyped, Positions
  <2>3. QED
    BY <2>2 DEF Entries
<1>4. QED
  BY <1>3, EntriesTypedInvariant, PTL
-------------------------------------------------------------------------------
(* Alignment.                                                                *)

\* Moments of one day differ by their minutes, and later days come later
LEMMA WithinDay ==
  ASSUME NEW t \in Nat, NEW u \in Nat
  PROVE  /\ Day(t) \in Nat /\ Day(u) \in Nat
         /\ MinuteOfDay(t) \in 0 .. MinutesPerDay - 1 /\ MinuteOfDay(u) \in 0 .. MinutesPerDay - 1
         /\ t <= u => Day(t) <= Day(u)
         /\ Day(u) = Day(t) => u - t = MinuteOfDay(u) - MinuteOfDay(t)
<1>1. /\ Day(t) \in Nat /\ MinuteOfDay(t) \in 0 .. MinutesPerDay - 1
      /\ t = (MinutesPerDay * Day(t)) + MinuteOfDay(t)
  BY DayAndMinute
<1>2. /\ Day(u) \in Nat /\ MinuteOfDay(u) \in 0 .. MinutesPerDay - 1
      /\ u = (MinutesPerDay * Day(u)) + MinuteOfDay(u)
  BY DayAndMinute
<1>3. MinutesPerDay * Day(t) \in Int /\ MinutesPerDay * Day(u) \in Int
  BY <1>1, <1>2, DayLength
<1>4. t <= u => Day(t) <= Day(u)
  <2>1. SUFFICES ASSUME Day(u) < Day(t) PROVE u < t
    BY <1>1, <1>2
  <2>2. (MinutesPerDay * Day(u)) + MinutesPerDay <= MinutesPerDay * Day(t)
    <3>1. Day(t) \in Int /\ Day(u) \in Int
      BY <1>1, <1>2
    <3>2. QED
      BY <2>1, <3>1, DayLength, Scaled
  <2>3. QED
    BY <1>1, <1>2, <1>3, <2>2, DayLength
<1>5. Day(u) = Day(t) => u - t = MinuteOfDay(u) - MinuteOfDay(t)
  BY <1>1, <1>2, <1>3
<1>6. QED
  BY <1>1, <1>2, <1>4, <1>5

LEMMA NextMidnightFacts ==
  ASSUME NEW t \in Nat
  PROVE  /\ NextMidnight(t) \in Nat /\ t < NextMidnight(t)
         /\ Day(NextMidnight(t)) = Day(t) + 1
         /\ \A u \in Nat : t <= u /\ u < NextMidnight(t) => Day(u) = Day(t)
<1>1. NextMidnight(t) = NextDay(t)
  BY DEF NextMidnight, NextDay
<1>2. /\ NextDay(t) \in Nat /\ t < NextDay(t) /\ LastOfPreviousDay(t) < t
      /\ LastOfPreviousDay(t) \in Int
      /\ \A u \in Nat : LastOfPreviousDay(t) < u /\ u < NextDay(t) => Day(u) = Day(t)
  BY DayLeaps
<1>3. Day(NextMidnight(t)) = Day(t) + 1
  <2>1. Day(t) + 1 \in Int /\ 0 \in 0 .. MinutesPerDay - 1
    BY DayAndMinute, DayLength
  <2>2. NextMidnight(t) = (MinutesPerDay * (Day(t) + 1)) + 0
    BY <2>1, DayLength DEF NextMidnight
  <2>3. QED
    BY <2>1, <2>2, DayLength, DivisionIsUnique DEF Day
<1>4. QED
  BY <1>1, <1>2, <1>3

\* Windows that contain a minute
ProperWindows == Windows \ {NoMinute}

\* A window that is closed opens next at its start
LEMMA WaitFacts ==
  ASSUME NEW window \in ProperWindows, NEW x \in 0 .. MinutesPerDay - 1, ~ Contains(window, x)
  PROVE  /\ WaitFor(window, x) \in 0 .. MinutesPerDay - 1
         /\ x + WaitFor(window, x) < MinutesPerDay => Contains(window, x + WaitFor(window, x))
         /\ \A y \in 0 .. MinutesPerDay - 1 :
              x <= y /\ Contains(window, y) => WaitFor(window, x) <= y - x
<1> DEFINE start == window.start
           end == window.end
           wait == WaitFor(window, x)
<1>1. MinutesPerDay \in Nat \ {0}
  BY DayLength
<1>2. /\ start \in 0 .. MinutesPerDay /\ end \in 0 .. MinutesPerDay /\ start # end
      /\ ~ (start = MinutesPerDay /\ end = 0)
  BY DEF ProperWindows, Windows, NoMinute
<1>3. \A y \in Int : Contains(window, y)
                       <=> IF end < start THEN y >= start \/ y < end ELSE start <= y /\ y < end
  BY <1>1, <1>2 DEF Contains, Wraps
<1>4. wait = (start - x) % MinutesPerDay
  BY DEF WaitFor
<1> HIDE DEF wait, start, end
<1>5. start - x \in 0 .. MinutesPerDay - 1 => wait = start - x
  <2>1. SUFFICES ASSUME start - x \in 0 .. MinutesPerDay - 1 PROVE wait = start - x
    OBVIOUS
  <2>2. ((MinutesPerDay * 0) + (start - x)) % MinutesPerDay = start - x
    BY <1>1, <2>1, DivisionIsUnique
  <2>3. (MinutesPerDay * 0) + (start - x) = start - x
    BY <1>1, <2>1
  <2>4. QED
    BY <1>4, <2>2, <2>3
<1>6. start - x < 0 => wait = (start - x) + MinutesPerDay
  <2>1. SUFFICES ASSUME start - x < 0 PROVE wait = (start - x) + MinutesPerDay
    OBVIOUS
  <2>2. (start - x) + MinutesPerDay \in 0 .. MinutesPerDay - 1 /\ -1 \in Int
    BY <1>1, <1>2, <2>1
  <2>3. ((MinutesPerDay * (-1)) + ((start - x) + MinutesPerDay)) % MinutesPerDay
          = (start - x) + MinutesPerDay
    BY <1>1, <2>2, DivisionIsUnique
  <2>4. (MinutesPerDay * (-1)) + ((start - x) + MinutesPerDay) = start - x
    BY <1>1, <1>2
  <2>5. QED
    BY <1>4, <2>3, <2>4
<1>7. start - x # MinutesPerDay
  BY <1>1, <1>2, <1>3
<1>8. wait \in 0 .. MinutesPerDay - 1
  BY <1>1, <1>2, <1>5, <1>6, <1>7
<1>9. x + wait < MinutesPerDay => Contains(window, x + wait)
  <2>1. SUFFICES ASSUME x + wait < MinutesPerDay PROVE Contains(window, x + wait)
    OBVIOUS
  <2>2. start - x \in 0 .. MinutesPerDay - 1
    BY <1>1, <1>2, <1>6, <1>7, <2>1
  <2>3. x + wait = start /\ start \in Int
    BY <1>2, <1>5, <2>2
  <2>4. QED
    BY <1>2, <1>3, <2>3
<1>10. ASSUME NEW y \in 0 .. MinutesPerDay - 1, x <= y, Contains(window, y)
      PROVE  wait <= y - x
  <2>1. x < start /\ start <= y
    BY <1>1, <1>2, <1>3, <1>10
  <2>2. start - x \in 0 .. MinutesPerDay - 1
    BY <1>1, <1>2, <2>1
  <2>3. QED
    BY <1>1, <1>2, <1>5, <2>1, <2>2
<1>11. QED
  BY <1>8, <1>9, <1>10 DEF wait

\* The next opening of a calendar that is closed on a day it may open
LEMMA NextOpeningFacts ==
  ASSUME NEW calendar, calendar.windows \subseteq ProperWindows, NEW t \in Nat,
         IsBusinessDay(calendar, t), ~ IsOpen(calendar, t)
  PROVE  /\ Settles(calendar, t) =>
              /\ NextOpening(calendar, t) \in Nat /\ t <= NextOpening(calendar, t)
              /\ IsOpen(calendar, NextOpening(calendar, t))
              /\ \A u \in Nat : t <= u /\ u < NextOpening(calendar, t) => ~ IsOpen(calendar, u)
         /\ ~ Settles(calendar, t) =>
              \A u \in Nat : t <= u /\ Day(u) = Day(t) => ~ IsOpen(calendar, u)
<1> DEFINE x == MinuteOfDay(t)
           Wait(window) == WaitFor(window, x)
           waits == {Wait(window) : window \in calendar.windows}
           wait == CHOOSE w \in waits : \A window \in calendar.windows : w <= Wait(window)
           next == NextOpening(calendar, t)
<1>1. x \in 0 .. MinutesPerDay - 1 /\ MinutesPerDay \in Nat \ {0}
  BY DayAndMinute, DayLength
<1>2. calendar.windows # {} /\ \A window \in calendar.windows : ~ Contains(window, x)
  BY DEF IsOpen, OpenIn
<1> HIDE DEF x
<1>3. ASSUME NEW window \in calendar.windows
      PROVE  /\ Wait(window) \in 0 .. MinutesPerDay - 1
             /\ x + Wait(window) < MinutesPerDay => Contains(window, x + Wait(window))
             /\ \A y \in 0 .. MinutesPerDay - 1 :
                  x <= y /\ Contains(window, y) => Wait(window) <= y - x
  <2>1. window \in ProperWindows /\ ~ Contains(window, x)
    BY <1>2
  <2>2. QED
    BY <1>1, <2>1, WaitFacts
<1>4. next = t + wait
  BY DEF NextOpening, x
<1> HIDE DEF next, Wait
<1>5. wait \in waits /\ \A window \in calendar.windows : wait <= Wait(window)
  <2>1. \A w \in waits : w \in Nat
    BY <1>1, <1>3
  <2>2. waits # {}
    BY <1>2
  <2>3. \E w \in waits : \A v \in waits : w <= v
    <3> HIDE DEF waits
    <3> QED BY <2>1, <2>2, LeastElement
  <2>4. \E w \in waits : \A window \in calendar.windows : w <= Wait(window)
    BY <2>3
  <2> HIDE DEF waits
  <2>5. QED
    BY <2>4
<1>6. PICK opener \in calendar.windows : wait = Wait(opener)
  BY <1>5
<1> HIDE DEF wait, waits
<1>7. wait \in Nat /\ wait \in 0 .. MinutesPerDay - 1 /\ next \in Nat /\ t <= next
  BY <1>1, <1>3, <1>4, <1>6
<1>8. ASSUME NEW u \in Nat, t <= u, Day(u) = Day(t), IsOpen(calendar, u) PROVE next <= u
  <2>1. PICK window \in calendar.windows : Contains(window, MinuteOfDay(u))
    BY <1>2, <1>8 DEF IsOpen, OpenIn
  <2>2. MinuteOfDay(u) \in 0 .. MinutesPerDay - 1 /\ u - t = MinuteOfDay(u) - x
    BY <1>8, WithinDay DEF x
  <2>3. Wait(window) <= MinuteOfDay(u) - x
    BY <1>1, <1>3, <1>8, <2>1, <2>2
  <2>4. wait <= Wait(window) /\ Wait(window) \in Int
    BY <1>1, <1>3, <1>5
  <2>5. QED
    BY <1>1, <1>4, <1>7, <2>2, <2>3, <2>4
<1>9. ASSUME Day(next) = Day(t) PROVE IsOpen(calendar, next)
  <2>1. next - t = MinuteOfDay(next) - x /\ MinuteOfDay(next) \in 0 .. MinutesPerDay - 1
    BY <1>7, <1>9, WithinDay DEF x
  <2>2. x + wait = MinuteOfDay(next) /\ x + wait < MinutesPerDay
    BY <1>1, <1>4, <1>7, <2>1
  <2>3. Contains(opener, MinuteOfDay(next))
    BY <1>3, <1>6, <2>2
  <2>4. IsBusinessDay(calendar, next)
    BY <1>9 DEF IsBusinessDay
  <2>5. QED
    BY <2>3, <2>4 DEF IsOpen, OpenIn
<1>10. CASE Day(next) = Day(t)
  <2>1. ASSUME NEW u \in Nat, t <= u, u < next PROVE ~ IsOpen(calendar, u)
    <3>1. Day(t) <= Day(u) /\ Day(u) <= Day(next) /\ Day(t) \in Nat /\ Day(u) \in Nat
      BY <1>7, <2>1, WithinDay
    <3>2. Day(u) = Day(t)
      BY <1>10, <3>1
    <3>3. QED
      BY <1>7, <1>8, <2>1, <3>2
  <2>2. QED
    BY <1>7, <1>9, <1>10, <2>1 DEF Settles, next
<1>11. CASE Day(next) # Day(t)
  <2>1. ASSUME NEW u \in Nat, t <= u, Day(u) = Day(t), IsOpen(calendar, u) PROVE FALSE
    <3>1. next <= u
      BY <1>8, <2>1
    <3>2. Day(t) <= Day(next) /\ Day(next) <= Day(u) /\ Day(t) \in Nat /\ Day(next) \in Nat
      BY <1>7, <3>1, WithinDay
    <3>3. QED
      BY <1>11, <2>1, <3>2
  <2>2. QED
    BY <1>11, <2>1 DEF Settles, next
<1>12. QED
  BY <1>10, <1>11
-------------------------------------------------------------------------------
(* Recursion that counts down.                                               *)

IteratesTo(X, a, G, f, n) ==
  f \in [0 .. n -> X] /\ f[0] = a /\ \A k \in 0 .. n - 1 : f[k + 1] = G[f[k]]

LEMMA Iterates ==
  ASSUME NEW X, NEW a \in X, NEW G \in [X -> X]
  PROVE  \A n \in Nat : \E f : IteratesTo(X, a, G, f, n)
<1> DEFINE S == {n \in Nat : \E f : IteratesTo(X, a, G, f, n)}
<1>1. 0 \in S
  <2>1. IteratesTo(X, a, G, [k \in 0 .. 0 |-> a], 0)
    BY DEF IteratesTo
  <2>2. QED
    BY <2>1
<1>2. \A n \in Nat : n \in S => n + 1 \in S
  <2>1. SUFFICES ASSUME NEW n \in Nat, NEW f, IteratesTo(X, a, G, f, n)
                 PROVE  \E g : IteratesTo(X, a, G, g, n + 1)
    OBVIOUS
  <2> DEFINE g == [k \in 0 .. n + 1 |-> IF k = n + 1 THEN G[f[n]] ELSE f[k]]
  <2>2. /\ \A k \in 0 .. n : f[k] \in X
        /\ f[0] = a /\ \A k \in 0 .. n - 1 : f[k + 1] = G[f[k]]
    BY <2>1 DEF IteratesTo
  <2>3. \A k \in 0 .. n : g[k] = f[k]
    OBVIOUS
  <2>4. g[n + 1] = G[f[n]] /\ n \in 0 .. n /\ 0 \in 0 .. n /\ (n + 1) - 1 = n
    OBVIOUS
  <2>5. G[f[n]] \in X
    BY <2>2, <2>4
  <2>6. g \in [0 .. n + 1 -> X]
    <3>1. ASSUME NEW k \in 0 .. n + 1 PROVE g[k] \in X
      <4>1. CASE k = n + 1
        BY <2>4, <2>5, <4>1
      <4>2. CASE k # n + 1
        BY <2>2, <2>3, <4>2
      <4>3. QED
        BY <4>1, <4>2
    <3>2. QED
      BY <3>1
  <2> HIDE DEF g
  <2>7. ASSUME NEW k \in 0 .. n PROVE g[k + 1] = G[g[k]]
    <3>1. CASE k = n
      BY <2>3, <2>4, <3>1
    <3>2. CASE k # n
      <4>1. k \in 0 .. n - 1 /\ k + 1 \in 0 .. n
        BY <3>2
      <4>2. QED
        BY <2>2, <2>3, <4>1
    <3>3. QED
      BY <3>1, <3>2
  <2>8. g[0] = a
    BY <2>2, <2>3, <2>4
  <2>9. IteratesTo(X, a, G, g, n + 1)
    BY <2>4, <2>6, <2>7, <2>8 DEF IteratesTo
  <2>10. QED
    BY <2>9
<1>3. Nat \subseteq S
  <2> HIDE DEF S
  <2> QED BY <1>1, <1>2, CountingUp
<1>4. QED
  BY <1>3

\* A table whose rows are made of the row before
IsTable(h, L, V, first, G) ==
  /\ h \in [(0 .. L) \X Nat -> V]
  /\ \A m \in Nat : h[<<0, m>>] = first[m]
  /\ \A n \in 0 .. L - 1, m \in Nat : h[<<n + 1, m>>] = G[[k \in Nat |-> h[<<n, k>>]]][m]

LEMMA TableExists ==
  ASSUME NEW L \in Nat, NEW V, NEW first \in [Nat -> V],
         NEW G \in [[Nat -> V] -> [Nat -> V]]
  PROVE  \E h : IsTable(h, L, V, first, G)
<1>1. PICK f : IteratesTo([Nat -> V], first, G, f, L)
  BY Iterates
<1>2. /\ f \in [0 .. L -> [Nat -> V]] /\ f[0] = first
      /\ \A n \in 0 .. L - 1 : f[n + 1] = G[f[n]]
  BY <1>1 DEF IteratesTo
<1> DEFINE h == [state \in (0 .. L) \X Nat |-> f[state[1]][state[2]]]
<1>3. \A n \in 0 .. L, m \in Nat : h[<<n, m>>] = f[n][m]
  OBVIOUS
<1>4. h \in [(0 .. L) \X Nat -> V]
  <2>1. \A state \in (0 .. L) \X Nat : f[state[1]][state[2]] \in V
    BY <1>2
  <2>2. QED
    BY <2>1
<1> HIDE DEF h
<1>5. \A n \in 0 .. L : f[n] = [k \in Nat |-> h[<<n, k>>]]
  <2>1. \A n \in 0 .. L : f[n] = [k \in Nat |-> f[n][k]]
    BY <1>2
  <2>2. QED
    BY <1>3, <2>1
<1>6. \A m \in Nat : h[<<0, m>>] = first[m]
  <2>1. 0 \in 0 .. L
    OBVIOUS
  <2>2. QED
    BY <1>2, <1>3, <2>1
<1>7. ASSUME NEW n \in 0 .. L - 1, NEW m \in Nat
      PROVE  h[<<n + 1, m>>] = G[[k \in Nat |-> h[<<n, k>>]]][m]
  <2>1. n \in 0 .. L /\ n + 1 \in 0 .. L
    OBVIOUS
  <2>2. h[<<n + 1, m>>] = f[n + 1][m]
    BY <1>3, <2>1
  <2>3. f[n + 1] = G[f[n]]
    BY <1>2
  <2>4. f[n] = [k \in Nat |-> h[<<n, k>>]]
    BY <1>5, <2>1
  <2>5. QED
    BY <2>2, <2>3, <2>4
<1>8. IsTable(h, L, V, first, G)
  BY <1>4, <1>6, <1>7 DEF IsTable
<1>9. QED
  BY <1>8

AlignBody(calendar, f, days, moment) ==
  IF days = 0 THEN Broken
  ELSE IF ~ IsBusinessDay(calendar, moment) THEN f[<<days - 1, NextMidnight(moment)>>]
  ELSE IF IsOpen(calendar, moment) THEN moment
  ELSE IF Settles(calendar, moment) THEN NextOpening(calendar, moment)
  ELSE f[<<days - 1, NextMidnight(moment)>>]

\* What align looks for: the first open moment from m on, if it is fewer days away than days
Aligned(calendar, days, m, answer) ==
  \/ /\ answer \in Nat /\ m <= answer /\ IsOpen(calendar, answer)
     /\ \A u \in Nat : m <= u /\ u < answer => ~ IsOpen(calendar, u)
  \/ /\ answer = Broken
     /\ \A u \in Nat : m <= u /\ IsOpen(calendar, u) => Day(u) - Day(m) >= days

LEMMA AlignSearch ==
  ASSUME NEW calendar, calendar.windows \subseteq ProperWindows
  PROVE  LET search == CHOOSE f : f = [state \in (0 .. SearchDays) \X Nat |->
                                         AlignBody(calendar, f, state[1], state[2])]
         IN  \A n \in 0 .. SearchDays, m \in Nat :
               search[<<n, m>>] = AlignBody(calendar, search, n, m)
<1> DEFINE V == Nat \cup {Broken}
           D == (0 .. SearchDays) \X Nat
           first == [m \in Nat |-> Broken]
           Row(row, m) == IF ~ IsBusinessDay(calendar, m) THEN row[NextMidnight(m)]
                          ELSE IF IsOpen(calendar, m) THEN m
                          ELSE IF Settles(calendar, m) THEN NextOpening(calendar, m)
                          ELSE row[NextMidnight(m)]
           G == [row \in [Nat -> V] |-> [m \in Nat |-> Row(row, m)]]
           Body(f, state) == AlignBody(calendar, f, state[1], state[2])
           search == CHOOSE f : f = [state \in D |-> Body(f, state)]
<1>1. SearchDays \in Nat /\ first \in [Nat -> V]
  BY AnswerAssumption
<1>2. G \in [[Nat -> V] -> [Nat -> V]]
  <2>1. ASSUME NEW row \in [Nat -> V], NEW m \in Nat PROVE Row(row, m) \in V
    <3>1. NextMidnight(m) \in Nat
      BY NextMidnightFacts
    <3>2. row[NextMidnight(m)] \in V
      BY <3>1
    <3>3. IsBusinessDay(calendar, m) /\ ~ IsOpen(calendar, m) /\ Settles(calendar, m)
            => NextOpening(calendar, m) \in Nat
      BY NextOpeningFacts
    <3>4. QED
      BY <3>2, <3>3
  <2> HIDE DEF V, Row
  <2>2. QED
    BY <2>1
<1>3. PICK h : IsTable(h, SearchDays, V, first, G)
  <2> HIDE DEF V, first, G
  <2> QED BY <1>1, <1>2, TableExists
<1>4. /\ h \in [D -> V]
      /\ \A m \in Nat : h[<<0, m>>] = Broken
      /\ \A n \in 0 .. SearchDays - 1, m \in Nat :
           h[<<n + 1, m>>] = G[[k \in Nat |-> h[<<n, k>>]]][m]
  <2>1. \A m \in Nat : first[m] = Broken
    OBVIOUS
  <2> HIDE DEF V, first, G
  <2>2. QED
    BY <1>3, <2>1 DEF IsTable
<1>5. ASSUME NEW n \in 0 .. SearchDays, NEW m \in Nat PROVE h[<<n, m>>] = Body(h, <<n, m>>)
  <2>1. CASE n = 0
    BY <1>4, <2>1 DEF AlignBody
  <2>2. CASE n # 0
    <3>1. n - 1 \in 0 .. SearchDays - 1 /\ (n - 1) + 1 = n /\ n - 1 \in 0 .. SearchDays
      BY <1>1, <2>2
    <3> DEFINE row == [k \in Nat |-> h[<<n - 1, k>>]]
    <3>2. row \in [Nat -> V]
      <4> HIDE DEF V
      <4>1. \A k \in Nat : h[<<n - 1, k>>] \in V
        BY <1>4, <3>1
      <4>2. QED
        BY <4>1
    <3>3. h[<<n, m>>] = G[row][m]
      <4> HIDE DEF G, V
      <4> QED BY <1>4, <3>1
    <3>4. G[row][m] = Row(row, m)
      <4> HIDE DEF V, Row, row
      <4> QED BY <3>2
    <3>5. row[NextMidnight(m)] = h[<<n - 1, NextMidnight(m)>>]
      BY NextMidnightFacts
    <3> HIDE DEF row, G
    <3>6. QED
      BY <2>2, <3>3, <3>4, <3>5 DEF AlignBody
  <2>3. QED
    BY <2>1, <2>2
<1>6. h = [state \in D |-> Body(h, state)]
  <2>1. \A state \in D : h[state] = Body(h, state)
    <3>1. SUFFICES ASSUME NEW n \in 0 .. SearchDays, NEW m \in Nat
                   PROVE  h[<<n, m>>] = Body(h, <<n, m>>)
      OBVIOUS
    <3>2. QED
      BY <1>5
  <2> HIDE DEF Body, V, D
  <2>2. QED
    BY <1>4, <2>1
<1>7. search = [state \in D |-> Body(search, state)]
  <2> HIDE DEF Body, D
  <2> QED BY <1>6
<1>8. \A state \in D : search[state] = Body(search, state)
  <2> HIDE DEF Body, D, search
  <2> QED BY <1>7
<1> HIDE DEF search
<1>9. ASSUME NEW n \in 0 .. SearchDays, NEW m \in Nat
      PROVE  search[<<n, m>>] = AlignBody(calendar, search, n, m)
  <2>1. <<n, m>> \in D
    OBVIOUS
  <2>2. QED
    BY <1>8, <2>1
<1>10. QED
  BY <1>9 DEF search

\* align answers with the first open moment, and gives up only if none is near
LEMMA AlignFacts ==
  ASSUME NEW calendar, calendar.windows \subseteq ProperWindows, NEW t \in Nat
  PROVE  Aligned(calendar, SearchDays, t, Align(calendar, t))
<1> DEFINE search == CHOOSE f : f = [state \in (0 .. SearchDays) \X Nat |->
                                       AlignBody(calendar, f, state[1], state[2])]
           S == {n \in Nat : n <= SearchDays =>
                   \A m \in Nat : Aligned(calendar, n, m, search[<<n, m>>])}
<1>1. \A n \in 0 .. SearchDays, m \in Nat : search[<<n, m>>] = AlignBody(calendar, search, n, m)
  BY AlignSearch
<1>2. Align(calendar, t) = search[<<SearchDays, t>>]
  BY DEF Align, AlignBody
<1>3. SearchDays \in Nat
  BY AnswerAssumption
<1> HIDE DEF search
<1>4. 0 \in S
  <2>1. ASSUME NEW m \in Nat PROVE Aligned(calendar, 0, m, search[<<0, m>>])
    <3>1. search[<<0, m>>] = Broken
      <4>1. 0 \in 0 .. SearchDays
        BY <1>3
      <4>2. search[<<0, m>>] = AlignBody(calendar, search, 0, m)
        BY <1>1, <4>1
      <4>3. QED
        BY <4>2 DEF AlignBody
    <3>2. ASSUME NEW u \in Nat, m <= u PROVE Day(u) - Day(m) >= 0
      <4>1. Day(m) <= Day(u) /\ Day(m) \in Nat /\ Day(u) \in Nat
        BY <3>2, WithinDay
      <4>2. QED
        BY <4>1
    <3>3. QED
      BY <3>1, <3>2 DEF Aligned
  <2>2. QED
    BY <2>1
<1>5. \A n \in Nat : n \in S => n + 1 \in S
  <2>1. SUFFICES ASSUME NEW n \in Nat, n \in S, n + 1 <= SearchDays, NEW m \in Nat
                 PROVE  Aligned(calendar, n + 1, m, search[<<n + 1, m>>])
    OBVIOUS
  <2> DEFINE next == NextMidnight(m)
             answer == search[<<n + 1, m>>]
             later == search[<<n, next>>]
  <2>2. answer = AlignBody(calendar, search, n + 1, m)
    <3>1. n + 1 \in 0 .. SearchDays
      BY <1>3, <2>1
    <3>2. QED
      BY <1>1, <3>1
  <2>3. n + 1 # 0 /\ (n + 1) - 1 = n
    OBVIOUS
  <2>4. /\ next \in Nat /\ m < next /\ Day(next) = Day(m) + 1 /\ Day(m) \in Nat
        /\ \A u \in Nat : m <= u /\ u < next => Day(u) = Day(m)
    BY NextMidnightFacts, WithinDay
  <2>5. Aligned(calendar, n, next, later)
    BY <1>3, <2>1, <2>4
  <2>6. ASSUME answer = later, \A u \in Nat : m <= u /\ Day(u) = Day(m) => ~ IsOpen(calendar, u)
        PROVE  Aligned(calendar, n + 1, m, answer)
    <3> HIDE DEF answer, later, next
    <3>1. \A u \in Nat : m <= u /\ IsOpen(calendar, u) => next <= u
      BY <2>4, <2>6
    <3>2. CASE later \in Nat /\ next <= later /\ IsOpen(calendar, later)
                 /\ \A u \in Nat : next <= u /\ u < later => ~ IsOpen(calendar, u)
      <4>1. m <= later
        BY <2>4, <3>2
      <4>2. QED
        BY <2>6, <3>1, <3>2, <4>1 DEF Aligned
    <3>3. CASE later = Broken
                 /\ \A u \in Nat : next <= u /\ IsOpen(calendar, u) => Day(u) - Day(next) >= n
      <4>1. ASSUME NEW u \in Nat, m <= u, IsOpen(calendar, u) PROVE Day(u) - Day(m) >= n + 1
        <5>1. Day(u) - Day(next) >= n /\ Day(u) \in Nat
          BY <3>1, <3>3, <4>1, WithinDay
        <5>2. QED
          BY <2>4, <5>1
      <4>2. QED
        BY <2>6, <3>3, <4>1 DEF Aligned
    <3>4. QED
      BY <2>5, <3>2, <3>3 DEF Aligned
  <2>7. CASE ~ IsBusinessDay(calendar, m)
    <3>1. \A u \in Nat : Day(u) = Day(m) => ~ IsOpen(calendar, u)
      BY <2>7 DEF IsOpen, IsBusinessDay
    <3>2. answer = later
      BY <2>2, <2>3, <2>7 DEF AlignBody
    <3>3. QED
      BY <2>6, <3>1, <3>2
  <2>8. CASE IsBusinessDay(calendar, m) /\ IsOpen(calendar, m)
    <3>1. answer = m
      BY <2>2, <2>3, <2>8 DEF AlignBody
    <3>2. Aligned(calendar, n + 1, m, answer)
      <4> HIDE DEF answer
      <4> QED BY <2>8, <3>1 DEF Aligned
    <3>3. QED
      BY <3>2
  <2>9. CASE IsBusinessDay(calendar, m) /\ ~ IsOpen(calendar, m) /\ Settles(calendar, m)
    <3>1. answer = NextOpening(calendar, m)
      BY <2>2, <2>3, <2>9 DEF AlignBody
    <3>2. Aligned(calendar, n + 1, m, answer)
      <4> HIDE DEF answer
      <4>1. /\ answer \in Nat /\ m <= answer /\ IsOpen(calendar, answer)
            /\ \A u \in Nat : m <= u /\ u < answer => ~ IsOpen(calendar, u)
        BY <2>9, <3>1, NextOpeningFacts
      <4>2. QED
        BY <4>1 DEF Aligned
    <3>3. QED
      BY <3>2
  <2>10. CASE IsBusinessDay(calendar, m) /\ ~ IsOpen(calendar, m) /\ ~ Settles(calendar, m)
    <3>1. answer = later
      BY <2>2, <2>3, <2>10 DEF AlignBody
    <3>2. \A u \in Nat : m <= u /\ Day(u) = Day(m) => ~ IsOpen(calendar, u)
      BY <2>10, NextOpeningFacts
    <3>3. QED
      BY <2>6, <3>1, <3>2
  <2>11. QED
    BY <2>7, <2>8, <2>9, <2>10
<1>6. Nat \subseteq S
  <2> HIDE DEF S
  <2> QED BY <1>4, <1>5, CountingUp
<1>7. SearchDays \in S
  <2> HIDE DEF S
  <2> QED BY <1>3, <1>6
<1>8. QED
  BY <1>2, <1>3, <1>7
-------------------------------------------------------------------------------
(* When a trigger fires next.                                                *)

\* What an interval wants, counted from its anchor
LEMMA IntervalWants ==
  ASSUME NEW trigger \in Triggers, trigger.kind = "interval", NEW u \in Nat
  PROVE  /\ \A q \in Nat : u = trigger.anchor + q * trigger.every =>
              (Wanted(trigger, u) <=> trigger.limit = NoMoment \/ q < trigger.limit)
         /\ Wanted(trigger, u) => \E q \in Nat : u = trigger.anchor + q * trigger.every
<1> DEFINE every == trigger.every
           anchor == trigger.anchor
           limit == trigger.limit
<1>1. every \in Nat \ {0} /\ anchor \in Nat /\ limit \in Nat \cup {NoMoment}
  BY TriggerAssumption
<1>2. Wanted(trigger, u)
        <=> /\ u >= anchor /\ (u - anchor) % every = 0
            /\ limit = NoMoment \/ (u - anchor) \div every < limit
  BY DEF Wanted
<1> HIDE DEF every, anchor, limit
<1>3. ASSUME NEW q \in Nat, u = anchor + q * every
      PROVE  Wanted(trigger, u) <=> limit = NoMoment \/ q < limit
  <2>1. 0 \in 0 .. every - 1 /\ every * q \in Nat
    BY <1>1
  <2>2. u - anchor = (every * q) + 0 /\ u >= anchor
    BY <1>1, <1>3, <2>1
  <2>3. ((every * q) + 0) \div every = q /\ ((every * q) + 0) % every = 0
    BY <1>1, <2>1, DivisionIsUnique
  <2>4. QED
    BY <1>2, <2>2, <2>3
<1>4. Wanted(trigger, u) => \E q \in Nat : u = anchor + q * every
  <2>1. SUFFICES ASSUME u >= anchor, (u - anchor) % every = 0
                 PROVE  \E q \in Nat : u = anchor + q * every
    BY <1>2
  <2>2. PICK q : q = (u - anchor) \div every
    OBVIOUS
  <2>3. u - anchor \in Int /\ u - anchor >= 0
    BY <1>1, <2>1
  <2>4. q \in Nat /\ u - anchor = (every * q) + 0
    BY <1>1, <2>1, <2>2, <2>3, Division
  <2>5. u = anchor + q * every
    BY <1>1, <2>4
  <2>6. QED
    BY <2>4, <2>5
<1>5. QED
  BY <1>3, <1>4 DEF every, anchor, limit

\* The first wanted moment after t
IsNextWanted(trigger, t, c) ==
  \/ /\ c \in Nat /\ t < c /\ Wanted(trigger, c)
     /\ \A u \in Nat : t < u /\ u < c => ~ Wanted(trigger, u)
  \/ /\ c = NoMoment
     /\ Silent(trigger, t) \/ \A u \in Nat : t < u => ~ Wanted(trigger, u)

LEMMA IntervalAfterFacts ==
  ASSUME NEW trigger \in Triggers, trigger.kind = "interval", NEW t \in Nat
  PROVE  IsNextWanted(trigger, t, IntervalAfter(trigger, t))
<1> DEFINE every == trigger.every
           anchor == trigger.anchor
           limit == trigger.limit
           index == IF t < anchor THEN 0 ELSE ((t - anchor) \div every) + 1
           c == anchor + index * every
<1>1. every \in Nat \ {0} /\ anchor \in Nat /\ limit \in Nat \cup {NoMoment}
  BY TriggerAssumption
<1>2. IntervalAfter(trigger, t) = IF limit # NoMoment /\ index >= limit THEN NoMoment ELSE c
  BY DEF IntervalAfter
<1>3. \A u, q \in Nat : u = anchor + q * every =>
        (Wanted(trigger, u) <=> limit = NoMoment \/ q < limit)
  BY IntervalWants
<1>4. \A u \in Nat : Wanted(trigger, u) => \E q \in Nat : u = anchor + q * every
  BY IntervalWants
<1> HIDE DEF every, anchor, limit
<1>5. t >= anchor =>
        LET d == (t - anchor) \div every
        IN  /\ d \in Nat /\ every * d <= t - anchor
            /\ t - anchor < every * (d + 1)
  <2>1. SUFFICES ASSUME t >= anchor, NEW d, d = (t - anchor) \div every
                 PROVE  d \in Nat /\ every * d <= t - anchor /\ t - anchor < every * (d + 1)
    OBVIOUS
  <2>2. t - anchor \in Int /\ t - anchor >= 0
    BY <1>1, <2>1
  <2>3. d \in Nat
    BY <1>1, <2>1, <2>2, Division
  <2>4. d \in Int /\ d + 1 \in Int /\ d <= d /\ d < d + 1
    BY <2>3
  <2>5. every * d <= t - anchor
    BY <1>1, <2>1, <2>2, <2>4, Quotients
  <2>6. t - anchor < every * (d + 1)
    BY <1>1, <2>1, <2>2, <2>4, Quotients
  <2>7. QED
    BY <2>3, <2>5, <2>6
<1>6. index \in Nat /\ c \in Nat /\ t < c
  <2>1. CASE t < anchor
    BY <1>1, <2>1
  <2>2. CASE ~ (t < anchor)
    <3> DEFINE d == (t - anchor) \div every
    <3>1. d \in Nat /\ t - anchor < every * (d + 1)
      BY <1>1, <1>5, <2>2
    <3>2. index = d + 1
      BY <2>2
    <3> HIDE DEF d, index
    <3>3. every * (d + 1) \in Nat /\ (d + 1) * every = every * (d + 1)
      BY <1>1, <3>1
    <3>4. QED
      BY <1>1, <3>1, <3>2, <3>3
  <2>3. QED
    BY <2>1, <2>2
<1>7. ASSUME NEW q \in Nat, t < anchor + q * every PROVE index <= q
  <2>1. CASE t < anchor
    BY <1>7, <2>1
  <2>2. CASE ~ (t < anchor)
    <3> DEFINE d == (t - anchor) \div every
    <3>1. d \in Nat /\ every * d <= t - anchor
      BY <1>1, <1>5, <2>2
    <3>2. index = d + 1
      BY <2>2
    <3> HIDE DEF d, index
    <3>3. q <= d => every * q <= every * d
      BY <1>1, <3>1, Scaled
    <3>4. every * q \in Nat /\ q * every = every * q /\ every * d \in Nat
      BY <1>1, <3>1
    <3>5. QED
      BY <1>1, <1>7, <3>1, <3>2, <3>3, <3>4
  <2>3. QED
    BY <2>1, <2>2
<1> HIDE DEF index
<1>8. CASE limit # NoMoment /\ index >= limit
  <2>1. ASSUME NEW u \in Nat, t < u, Wanted(trigger, u) PROVE FALSE
    <3>1. PICK q \in Nat : u = anchor + q * every
      BY <1>4, <2>1
    <3>2. q < limit /\ index <= q
      BY <1>3, <1>7, <1>8, <2>1, <3>1
    <3>3. QED
      BY <1>1, <1>6, <1>8, <3>2
  <2>2. QED
    BY <1>2, <1>8, <2>1 DEF IsNextWanted
<1>9. CASE ~ (limit # NoMoment /\ index >= limit)
  <2>1. Wanted(trigger, c)
    <3>1. limit = NoMoment \/ index < limit
      BY <1>1, <1>6, <1>9
    <3>2. QED
      BY <1>3, <1>6, <3>1
  <2>2. ASSUME NEW u \in Nat, t < u, u < c, Wanted(trigger, u) PROVE FALSE
    <3>1. PICK q \in Nat : u = anchor + q * every
      BY <1>4, <2>2
    <3>2. index <= q
      BY <1>7, <2>2, <3>1
    <3>3. every * index <= every * q /\ every * index \in Int /\ every * q \in Int
      BY <1>1, <1>6, <3>2, Scaled
    <3>4. index * every = every * index /\ q * every = every * q
      BY <1>1, <1>6
    <3>5. QED
      BY <1>1, <1>6, <2>2, <3>1, <3>3, <3>4
  <2>3. QED
    BY <1>2, <1>6, <1>9, <2>1, <2>2 DEF IsNextWanted
<1>10. QED
  BY <1>8, <1>9

LEMMA CronAfterFacts ==
  ASSUME NEW trigger \in Triggers, trigger.kind = "cron", NEW t \in Nat
  PROVE  IsNextWanted(trigger, t, CronAfter(trigger.cron, t))
<1> DEFINE later == {u \in t + 1 .. t + SearchSpan : Matches(trigger.cron, u)}
           c == CronAfter(trigger.cron, t)
<1>1. SearchSpan \in Nat
  BY DayLength, SearchAssumption DEF SearchSpan
<1>2. c = IF later = {} THEN NoMoment ELSE Min(later)
  BY AfterFinds
<1>3. \A u \in Nat : Matches(trigger.cron, u) <=> Wanted(trigger, u)
  BY MatchesIsWanted
<1>4. \A u \in Nat : u \in later <=> t < u /\ u <= t + SearchSpan /\ Wanted(trigger, u)
  BY <1>1, <1>3
<1>5. later \in SUBSET Nat
  BY <1>1
<1> HIDE DEF later, c
<1>6. CASE later = {}
  <2>1. \A u \in t + 1 .. t + SearchSpan : ~ Wanted(trigger, u)
    <3>1. \A u \in t + 1 .. t + SearchSpan : u \in Nat /\ t < u /\ u <= t + SearchSpan
      BY <1>1
    <3>2. QED
      BY <1>4, <1>6, <3>1
  <2>2. Silent(trigger, t)
    BY <2>1 DEF Silent, WantedWithin
  <2>3. QED
    BY <1>2, <1>6, <2>2 DEF IsNextWanted, c
<1>7. CASE later # {}
  <2>1. PICK m \in later : \A k \in later : m <= k
    BY <1>5, <1>7, LeastElement
  <2>2. Min(later) = m
    <3>1. later \in SUBSET Int
      BY <1>5
    <3>2. QED
      BY <2>1, <3>1, MinAndMax
  <2>3. m \in Nat /\ t < m /\ m <= t + SearchSpan /\ Wanted(trigger, m)
    BY <1>4, <1>5, <2>1
  <2>4. ASSUME NEW u \in Nat, t < u, u < m, Wanted(trigger, u) PROVE FALSE
    <3>1. u <= t + SearchSpan
      BY <1>1, <2>3, <2>4
    <3>2. u \in later
      BY <1>4, <2>4, <3>1
    <3>3. QED
      BY <2>1, <2>3, <2>4, <3>2
  <2>5. QED
    BY <1>2, <1>7, <2>2, <2>3, <2>4 DEF IsNextWanted, c
<1>8. QED
  BY <1>6, <1>7

LEMMA TriggerAfterFacts ==
  ASSUME NEW trigger \in Triggers, NEW t \in Nat
  PROVE  IsNextWanted(trigger, t, TriggerAfter(trigger, t))
<1>1. CASE trigger.kind = "interval"
  <2>1. TriggerAfter(trigger, t) = IntervalAfter(trigger, t)
    BY <1>1 DEF TriggerAfter
  <2>2. QED
    BY <1>1, <2>1, IntervalAfterFacts
<1>2. CASE trigger.kind = "once" /\ trigger.at \in Nat
  <2>1. TriggerAfter(trigger, t) = IF t < trigger.at THEN trigger.at ELSE NoMoment
    BY <1>2 DEF TriggerAfter
  <2>2. \A u \in Nat : Wanted(trigger, u) <=> u = trigger.at
    BY <1>2 DEF Wanted
  <2>3. QED
    BY <1>2, <2>1, <2>2 DEF IsNextWanted
<1>3. CASE trigger.kind = "cron"
  <2>1. TriggerAfter(trigger, t) = CronAfter(trigger.cron, t)
    BY <1>3 DEF TriggerAfter
  <2>2. QED
    BY <1>3, <2>1, CronAfterFacts
<1>4. CASE trigger.kind = "never"
  <2>1. TriggerAfter(trigger, t) = NoMoment
    BY <1>4 DEF TriggerAfter
  <2>2. \A u \in Nat : ~ Wanted(trigger, u)
    BY <1>4 DEF Wanted
  <2>3. QED
    BY <2>1, <2>2 DEF IsNextWanted
<1>5. QED
  BY <1>1, <1>2, <1>3, <1>4, TriggerAssumption

-------------------------------------------------------------------------------
(* When an entry starts next.                                                *)

\* What is asked of s, a start of the entry after t
IsStart(entry, t, s) ==
  /\ entry.enabled /\ t < s /\ IsOpen(entry.calendar, s)
  /\ IF entry.deferring
       THEN \E w \in Nat : /\ t < w /\ w <= s /\ Wanted(entry.trigger, w)
                           /\ \A u \in Nat : w <= u /\ u < s => ~ IsOpen(entry.calendar, u)
       ELSE Wanted(entry.trigger, s)

WantedFrom(trigger, t, m) == {u \in t + 1 .. m : Wanted(trigger, u)}

\* Neither among the moments after t up to m
NoneOpen(entry, t, m) ==
  \A u \in Nat : t < u /\ u <= m /\ Wanted(entry.trigger, u) => ~ IsOpen(entry.calendar, u)

\* OutOfReach, with no end to the moments
Unreached(entry, t, s) ==
  IF entry.deferring
    THEN \/ Silent(entry.trigger, t)
         \/ \E w \in Nat : /\ t < w /\ w <= s /\ Wanted(entry.trigger, w)
                           /\ Day(s) - Day(w) >= SearchDays
    ELSE \E m \in Nat :
           /\ t <= m /\ m < s /\ NoneOpen(entry, t, m)
           /\ \/ Silent(entry.trigger, m)
              \/ Cardinality(WantedFrom(entry.trigger, t, m)) >= SkipLimit

NextBody(entry, f, n, m) ==
  LET candidate == TriggerAfter(entry.trigger, m)
  IN  IF n = 0 THEN Broken
      ELSE IF candidate = NoMoment THEN NoMoment
      ELSE IF IsOpen(entry.calendar, candidate) THEN candidate
      ELSE IF entry.deferring THEN Align(entry.calendar, candidate)
      ELSE f[<<n - 1, candidate>>]

\* What a search with n attempts left makes of the moments after m
Searched(entry, n, m, answer) ==
  \/ /\ answer \in Nat /\ m < answer
     /\ Wanted(entry.trigger, answer) /\ IsOpen(entry.calendar, answer)
     /\ \A u \in Nat : m < u /\ u < answer /\ Wanted(entry.trigger, u)
                         => ~ IsOpen(entry.calendar, u)
  \/ /\ answer \in {NoMoment, Broken}
     /\ \E v \in Nat :
          /\ m <= v /\ NoneOpen(entry, m, v)
          /\ answer = NoMoment => IsNextWanted(entry.trigger, v, NoMoment)
          /\ answer = Broken => Cardinality(WantedFrom(entry.trigger, m, v)) = n

\* Entries whose windows all contain a minute
ProperEntries == {entry \in Entries : NoMinute \notin entry.calendar.windows}

LEMMA EntryFacts ==
  ASSUME NEW entry \in ProperEntries
  PROVE  /\ entry.trigger \in Triggers /\ entry.calendar \in Calendars
         /\ entry.calendar.windows \subseteq ProperWindows
         /\ entry.enabled \in BOOLEAN /\ entry.deferring \in BOOLEAN
BY CalendarAssumption DEF ProperEntries, Entries, ProperWindows

LEMMA NextWanted ==
  ASSUME NEW entry \in ProperEntries, NEW m \in Nat, NEW c, c = TriggerAfter(entry.trigger, m)
  PROVE  /\ c # NoMoment =>
              /\ c \in Nat /\ m < c /\ Wanted(entry.trigger, c)
              /\ \A u \in Nat : m < u /\ u < c => ~ Wanted(entry.trigger, u)
         /\ c = NoMoment => IsNextWanted(entry.trigger, m, NoMoment)
<1>1. IsNextWanted(entry.trigger, m, c)
  BY EntryFacts, TriggerAfterFacts
<1>2. NoMoment \notin Nat
  BY AnswerAssumption
<1>3. QED
  BY <1>1, <1>2 DEF IsNextWanted

LEMMA NextSearch ==
  ASSUME NEW entry \in ProperEntries
  PROVE  LET search == CHOOSE f : f = [state \in (0 .. SkipLimit) \X Nat |->
                                         NextBody(entry, f, state[1], state[2])]
         IN  \A n \in 0 .. SkipLimit, m \in Nat :
               search[<<n, m>>] = NextBody(entry, search, n, m)
<1> DEFINE V == Nat \cup {NoMoment, Broken}
           D == (0 .. SkipLimit) \X Nat
           first == [m \in Nat |-> Broken]
           C(m) == TriggerAfter(entry.trigger, m)
           Row(row, m) == IF C(m) = NoMoment THEN NoMoment
                          ELSE IF IsOpen(entry.calendar, C(m)) THEN C(m)
                          ELSE IF entry.deferring THEN Align(entry.calendar, C(m))
                          ELSE row[C(m)]
           G == [row \in [Nat -> V] |-> [m \in Nat |-> Row(row, m)]]
           Body(f, state) == NextBody(entry, f, state[1], state[2])
           search == CHOOSE f : f = [state \in D |-> Body(f, state)]
<1>1. SkipLimit \in Nat /\ first \in [Nat -> V]
  BY QueryAssumption
<1>2. G \in [[Nat -> V] -> [Nat -> V]]
  <2>1. ASSUME NEW row \in [Nat -> V], NEW m \in Nat PROVE Row(row, m) \in V
    <3> DEFINE c == C(m)
    <3>1. c # NoMoment => c \in Nat
      BY NextWanted
    <3> HIDE DEF c
    <3>2. c \in Nat => Align(entry.calendar, c) \in Nat \cup {Broken}
      BY EntryFacts, AlignFacts DEF Aligned
    <3>3. c \in Nat => row[c] \in V
      OBVIOUS
    <3>4. QED
      BY <3>1, <3>2, <3>3 DEF c
  <2> HIDE DEF V, Row
  <2>2. QED
    BY <2>1
<1>3. PICK h : IsTable(h, SkipLimit, V, first, G)
  <2> HIDE DEF V, first, G
  <2> QED BY <1>1, <1>2, TableExists
<1>4. /\ h \in [D -> V]
      /\ \A m \in Nat : h[<<0, m>>] = Broken
      /\ \A n \in 0 .. SkipLimit - 1, m \in Nat :
           h[<<n + 1, m>>] = G[[k \in Nat |-> h[<<n, k>>]]][m]
  <2>1. \A m \in Nat : first[m] = Broken
    OBVIOUS
  <2> HIDE DEF V, first, G
  <2>2. QED
    BY <1>3, <2>1 DEF IsTable
<1>5. ASSUME NEW n \in 0 .. SkipLimit, NEW m \in Nat PROVE h[<<n, m>>] = Body(h, <<n, m>>)
  <2>1. CASE n = 0
    BY <1>4, <2>1 DEF NextBody
  <2>2. CASE n # 0
    <3>1. n - 1 \in 0 .. SkipLimit - 1 /\ (n - 1) + 1 = n /\ n - 1 \in 0 .. SkipLimit
      BY <1>1, <2>2
    <3> DEFINE row == [k \in Nat |-> h[<<n - 1, k>>]]
    <3>2. row \in [Nat -> V]
      <4> HIDE DEF V
      <4>1. \A k \in Nat : h[<<n - 1, k>>] \in V
        BY <1>4, <3>1
      <4>2. QED
        BY <4>1
    <3>3. h[<<n, m>>] = G[row][m]
      <4> HIDE DEF G, V
      <4> QED BY <1>4, <3>1
    <3>4. G[row][m] = Row(row, m)
      <4> HIDE DEF V, Row, row
      <4> QED BY <3>2
    <3>5. C(m) # NoMoment => row[C(m)] = h[<<n - 1, C(m)>>]
      <4>1. C(m) # NoMoment => C(m) \in Nat
        BY NextWanted
      <4> HIDE DEF C
      <4>2. QED
        BY <4>1
    <3> HIDE DEF row, G
    <3>6. QED
      BY <2>2, <3>3, <3>4, <3>5 DEF NextBody
  <2>3. QED
    BY <2>1, <2>2
<1>6. h = [state \in D |-> Body(h, state)]
  <2>1. \A state \in D : h[state] = Body(h, state)
    <3>1. SUFFICES ASSUME NEW n \in 0 .. SkipLimit, NEW m \in Nat
                   PROVE  h[<<n, m>>] = Body(h, <<n, m>>)
      OBVIOUS
    <3>2. QED
      BY <1>5
  <2> HIDE DEF Body, V, D
  <2>2. QED
    BY <1>4, <2>1
<1>7. search = [state \in D |-> Body(search, state)]
  <2> HIDE DEF Body, D
  <2> QED BY <1>6
<1>8. \A state \in D : search[state] = Body(search, state)
  <2> HIDE DEF Body, D, search
  <2> QED BY <1>7
<1> HIDE DEF search
<1>9. ASSUME NEW n \in 0 .. SkipLimit, NEW m \in Nat
      PROVE  search[<<n, m>>] = NextBody(entry, search, n, m)
  <2>1. <<n, m>> \in D
    OBVIOUS
  <2>2. QED
    BY <1>8, <2>1
<1>10. QED
  BY <1>9 DEF search

LEMMA SearchFacts ==
  ASSUME NEW entry \in ProperEntries, ~ entry.deferring, NEW search,
         \A n \in 0 .. SkipLimit, m \in Nat : search[<<n, m>>] = NextBody(entry, search, n, m)
  PROVE  \A n \in 0 .. SkipLimit, m \in Nat : Searched(entry, n, m, search[<<n, m>>])
<1> DEFINE S == {n \in Nat : n <= SkipLimit =>
                   \A m \in Nat : Searched(entry, n, m, search[<<n, m>>])}
<1>1. SkipLimit \in Nat /\ NoMoment # Broken /\ NoMoment \notin Nat /\ Broken \notin Nat
  BY QueryAssumption, AnswerAssumption
<1>2. 0 \in S
  <2>1. ASSUME NEW m \in Nat PROVE Searched(entry, 0, m, search[<<0, m>>])
    <3>1. search[<<0, m>>] = Broken
      <4>1. 0 \in 0 .. SkipLimit
        BY <1>1
      <4>2. search[<<0, m>>] = NextBody(entry, search, 0, m)
        BY <4>1
      <4>3. QED
        BY <4>2 DEF NextBody
    <3>2. m <= m /\ NoneOpen(entry, m, m)
      BY DEF NoneOpen
    <3>3. WantedFrom(entry.trigger, m, m) = {}
      BY DEF WantedFrom
    <3>4. Cardinality(WantedFrom(entry.trigger, m, m)) = 0
      BY <3>3, FS_EmptySet
    <3>5. QED
      BY <1>1, <3>1, <3>2, <3>4 DEF Searched
  <2>2. QED
    BY <2>1
<1>3. \A n \in Nat : n \in S => n + 1 \in S
  <2>1. SUFFICES ASSUME NEW n \in Nat, n \in S, n + 1 <= SkipLimit, NEW m \in Nat
                 PROVE  Searched(entry, n + 1, m, search[<<n + 1, m>>])
    OBVIOUS
  <2> DEFINE c == TriggerAfter(entry.trigger, m)
             answer == search[<<n + 1, m>>]
  <2>2. answer = NextBody(entry, search, n + 1, m)
    <3>1. n + 1 \in 0 .. SkipLimit
      BY <1>1, <2>1
    <3>2. QED
      BY <3>1
  <2>3. n + 1 # 0 /\ (n + 1) - 1 = n
    OBVIOUS
  <2>4. answer = IF c = NoMoment THEN NoMoment
                 ELSE IF IsOpen(entry.calendar, c) THEN c ELSE search[<<n, c>>]
    BY <2>2, <2>3 DEF NextBody
  <2>5. /\ c # NoMoment =>
             /\ c \in Nat /\ m < c /\ Wanted(entry.trigger, c)
             /\ \A u \in Nat : m < u /\ u < c => ~ Wanted(entry.trigger, u)
        /\ c = NoMoment => IsNextWanted(entry.trigger, m, NoMoment)
    BY NextWanted
  <2>6. c \in Nat => Searched(entry, n, c, search[<<n, c>>])
    <3> HIDE DEF c
    <3> QED BY <1>1, <2>1
  <2> HIDE DEF c, S
  <2>7. CASE c = NoMoment
    <3>1. answer = NoMoment
      BY <2>4, <2>7
    <3>2. m <= m /\ NoneOpen(entry, m, m)
      BY DEF NoneOpen
    <3>3. Searched(entry, n + 1, m, answer)
      <4> HIDE DEF answer
      <4> QED BY <1>1, <2>5, <2>7, <3>1, <3>2 DEF Searched
    <3>4. QED
      BY <3>3
  <2>8. CASE c # NoMoment /\ IsOpen(entry.calendar, c)
    <3>1. answer = c
      BY <2>4, <2>8
    <3>2. Searched(entry, n + 1, m, answer)
      <4> HIDE DEF answer
      <4> QED BY <2>5, <2>8, <3>1 DEF Searched
    <3>3. QED
      BY <3>2
  <2>9. CASE c # NoMoment /\ ~ IsOpen(entry.calendar, c)
    <3>1. answer = search[<<n, c>>] /\ Searched(entry, n, c, answer)
      BY <2>4, <2>5, <2>6, <2>9
    <3>2. c \in Nat /\ m < c
      BY <2>5, <2>9
    <3>3. \A u \in Nat : m < u /\ Wanted(entry.trigger, u) => u = c \/ c < u
      BY <2>5, <2>9
    <3>4. Searched(entry, n + 1, m, answer)
      <4> HIDE DEF answer
      <4>1. CASE /\ answer \in Nat /\ c < answer
                 /\ Wanted(entry.trigger, answer) /\ IsOpen(entry.calendar, answer)
                 /\ \A u \in Nat : c < u /\ u < answer /\ Wanted(entry.trigger, u)
                                     => ~ IsOpen(entry.calendar, u)
        <5>1. m < answer
          BY <3>2, <4>1
        <5>2. \A u \in Nat : m < u /\ u < answer /\ Wanted(entry.trigger, u)
                               => ~ IsOpen(entry.calendar, u)
          BY <2>9, <3>3, <4>1
        <5>3. QED
          BY <4>1, <5>1, <5>2 DEF Searched
      <4>2. CASE answer \in {NoMoment, Broken} /\
                 \E v \in Nat :
                   /\ c <= v /\ NoneOpen(entry, c, v)
                   /\ answer = NoMoment => IsNextWanted(entry.trigger, v, NoMoment)
                   /\ answer = Broken => Cardinality(WantedFrom(entry.trigger, c, v)) = n
        <5>1. PICK v \in Nat :
                /\ c <= v /\ NoneOpen(entry, c, v)
                /\ answer = NoMoment => IsNextWanted(entry.trigger, v, NoMoment)
                /\ answer = Broken => Cardinality(WantedFrom(entry.trigger, c, v)) = n
          BY <4>2
        <5>2. m <= v /\ NoneOpen(entry, m, v)
          BY <2>9, <3>2, <3>3, <5>1 DEF NoneOpen
        <5>3. WantedFrom(entry.trigger, m, v) = WantedFrom(entry.trigger, c, v) \cup {c}
          <6>1. ASSUME NEW u \in WantedFrom(entry.trigger, m, v)
                PROVE  u \in WantedFrom(entry.trigger, c, v) \cup {c}
            <7>1. u \in Nat /\ m < u /\ u <= v /\ Wanted(entry.trigger, u)
              BY <5>1, <6>1 DEF WantedFrom
            <7>2. QED
              BY <3>2, <3>3, <5>1, <7>1 DEF WantedFrom
          <6>2. ASSUME NEW u \in WantedFrom(entry.trigger, c, v)
                PROVE  u \in WantedFrom(entry.trigger, m, v)
            BY <3>2, <5>1, <6>2 DEF WantedFrom
          <6>3. c \in WantedFrom(entry.trigger, m, v)
            BY <2>5, <2>9, <3>2, <5>1 DEF WantedFrom
          <6>4. QED
            BY <6>1, <6>2, <6>3
        <5>4. c \notin WantedFrom(entry.trigger, c, v)
          BY <3>2, <5>1 DEF WantedFrom
        <5>5. IsFiniteSet(WantedFrom(entry.trigger, c, v))
          <6>1. c + 1 \in Int /\ v \in Int
            BY <3>2
          <6>2. IsFiniteSet(c + 1 .. v)
            BY <6>1, FS_Interval
          <6>3. WantedFrom(entry.trigger, c, v) \subseteq c + 1 .. v
            BY DEF WantedFrom
          <6>4. QED
            BY <6>2, <6>3, FS_Subset
        <5>6. Cardinality(WantedFrom(entry.trigger, m, v))
                = Cardinality(WantedFrom(entry.trigger, c, v)) + 1
          BY <5>3, <5>4, <5>5, FS_AddElement
        <5>7. answer = Broken => Cardinality(WantedFrom(entry.trigger, m, v)) = n + 1
          BY <5>1, <5>6
        <5>8. QED
          BY <4>2, <5>1, <5>2, <5>7 DEF Searched
      <4>3. QED
        BY <3>1, <4>1, <4>2 DEF Searched
    <3>5. QED
      BY <3>4
  <2>10. QED
    BY <2>7, <2>8, <2>9
<1>4. Nat \subseteq S
  <2> HIDE DEF S
  <2> QED BY <1>2, <1>3, CountingUp
<1>5. ASSUME NEW n \in 0 .. SkipLimit, NEW m \in Nat
      PROVE  Searched(entry, n, m, search[<<n, m>>])
  <2>1. n \in Nat /\ n <= SkipLimit
    BY <1>1
  <2>2. n \in S
    <3> HIDE DEF S
    <3> QED BY <1>4, <2>1
  <2>3. QED
    BY <2>1, <2>2
<1>6. QED
  BY <1>5

\* next_after of an entry answers with its next start, and with none or an error only
\* if it has none or only such as its search does not get to
LEMMA NextStartFacts ==
  ASSUME NEW entry \in ProperEntries, NEW t \in Nat
  PROVE  LET answer == NextStart(entry, t)
         IN  /\ answer \in Nat \cup {NoMoment, Broken}
             /\ answer \in Nat =>
                  /\ IsStart(entry, t, answer)
                  /\ \A s \in Nat : IsStart(entry, t, s) => answer <= s
             /\ answer \notin Nat =>
                  \A s \in Nat : IsStart(entry, t, s) => Unreached(entry, t, s)
             /\ answer = Broken =>
                  entry.enabled /\ TriggerAfter(entry.trigger, t) # NoMoment
<1> DEFINE search == CHOOSE f : f = [state \in (0 .. SkipLimit) \X Nat |->
                                       NextBody(entry, f, state[1], state[2])]
           answer == NextStart(entry, t)
           c == TriggerAfter(entry.trigger, t)
           found == search[<<SkipLimit, t>>]
<1>1. \A n \in 0 .. SkipLimit, m \in Nat : search[<<n, m>>] = NextBody(entry, search, n, m)
  BY NextSearch
<1>2. answer = IF entry.enabled THEN found ELSE NoMoment
  BY DEF NextStart, NextBody
<1>3. /\ SkipLimit \in Nat \ {0} /\ NoMoment # Broken /\ NoMoment \notin Nat /\ Broken \notin Nat
      /\ SkipLimit \in 0 .. SkipLimit
  BY QueryAssumption, AnswerAssumption
<1>4. /\ c # NoMoment =>
           /\ c \in Nat /\ t < c /\ Wanted(entry.trigger, c)
           /\ \A u \in Nat : t < u /\ u < c => ~ Wanted(entry.trigger, u)
      /\ c = NoMoment => IsNextWanted(entry.trigger, t, NoMoment)
  BY NextWanted
<1>5. ~ entry.deferring => Searched(entry, SkipLimit, t, found)
  <2> HIDE DEF search
  <2> QED BY <1>1, <1>3, SearchFacts
<1>6. found = IF c = NoMoment THEN NoMoment
              ELSE IF IsOpen(entry.calendar, c) THEN c
              ELSE IF entry.deferring THEN Align(entry.calendar, c)
              ELSE search[<<SkipLimit - 1, c>>]
  <2>1. found = NextBody(entry, search, SkipLimit, t)
    <3> HIDE DEF search
    <3> QED BY <1>1, <1>3
  <2> HIDE DEF found
  <2>2. QED
    BY <1>3, <2>1 DEF NextBody
<1> HIDE DEF search, answer, c, found
<1> DEFINE Facts ==
             /\ answer \in Nat \cup {NoMoment, Broken}
             /\ answer \in Nat =>
                  /\ IsStart(entry, t, answer)
                  /\ \A s \in Nat : IsStart(entry, t, s) => answer <= s
             /\ answer \notin Nat =>
                  \A s \in Nat : IsStart(entry, t, s) => Unreached(entry, t, s)
             /\ answer = Broken => entry.enabled /\ c # NoMoment
<1>7. SUFFICES Facts
  BY DEF answer, c
<1>8. CASE ~ entry.enabled
  BY <1>2, <1>3, <1>8 DEF IsStart
<1>9. CASE entry.enabled /\ ~ entry.deferring
  <2>1. answer = found /\ Searched(entry, SkipLimit, t, answer)
    BY <1>2, <1>5, <1>9
  <2>2. answer = Broken => c # NoMoment
    BY <1>3, <1>6, <2>1
  <2>3. \A s \in Nat : IsStart(entry, t, s)
                         <=> t < s /\ IsOpen(entry.calendar, s) /\ Wanted(entry.trigger, s)
    BY <1>9 DEF IsStart
  <2>4. CASE /\ answer \in Nat /\ t < answer
             /\ Wanted(entry.trigger, answer) /\ IsOpen(entry.calendar, answer)
             /\ \A u \in Nat : t < u /\ u < answer /\ Wanted(entry.trigger, u)
                                 => ~ IsOpen(entry.calendar, u)
    <3>1. IsStart(entry, t, answer)
      BY <2>3, <2>4
    <3>2. \A s \in Nat : IsStart(entry, t, s) => answer <= s
      BY <2>3, <2>4
    <3>3. QED
      BY <1>3, <1>9, <2>2, <2>4, <3>1, <3>2
  <2>5. CASE answer \in {NoMoment, Broken} /\
             \E v \in Nat :
               /\ t <= v /\ NoneOpen(entry, t, v)
               /\ answer = NoMoment => IsNextWanted(entry.trigger, v, NoMoment)
               /\ answer = Broken => Cardinality(WantedFrom(entry.trigger, t, v)) = SkipLimit
    <3>1. PICK v \in Nat :
            /\ t <= v /\ NoneOpen(entry, t, v)
            /\ answer = NoMoment => IsNextWanted(entry.trigger, v, NoMoment)
            /\ answer = Broken => Cardinality(WantedFrom(entry.trigger, t, v)) = SkipLimit
      BY <2>5
    <3>2. ASSUME NEW s \in Nat, IsStart(entry, t, s) PROVE Unreached(entry, t, s)
      <4>1. t < s /\ IsOpen(entry.calendar, s) /\ Wanted(entry.trigger, s)
        BY <2>3, <3>2
      <4>2. v < s
        BY <3>1, <4>1 DEF NoneOpen
      <4>3. answer = NoMoment => Silent(entry.trigger, v)
        BY <1>3, <3>1, <4>1, <4>2 DEF IsNextWanted
      <4>4. answer = Broken => Cardinality(WantedFrom(entry.trigger, t, v)) >= SkipLimit
        BY <1>3, <3>1
      <4>5. QED
        BY <1>9, <2>5, <3>1, <4>2, <4>3, <4>4 DEF Unreached
    <3>3. answer \notin Nat
      BY <1>3, <2>5
    <3>4. QED
      BY <1>9, <2>2, <2>5, <3>2, <3>3
  <2>6. QED
    BY <2>1, <2>4, <2>5 DEF Searched
<1>10. CASE entry.enabled /\ entry.deferring
  <2>1. answer = IF c = NoMoment THEN NoMoment
                 ELSE IF IsOpen(entry.calendar, c) THEN c ELSE Align(entry.calendar, c)
    BY <1>2, <1>6, <1>10
  <2>2. CASE c = NoMoment
    <3>1. answer = NoMoment /\ IsNextWanted(entry.trigger, t, NoMoment)
      BY <1>4, <2>1, <2>2
    <3>2. ASSUME NEW s \in Nat, IsStart(entry, t, s) PROVE Unreached(entry, t, s)
      <4>1. \E w \in Nat : t < w /\ Wanted(entry.trigger, w)
        BY <1>10, <3>2 DEF IsStart
      <4>2. Silent(entry.trigger, t)
        BY <1>3, <3>1, <4>1 DEF IsNextWanted
      <4>3. QED
        BY <1>10, <4>2 DEF Unreached
    <3>3. QED
      BY <1>3, <3>1, <3>2
  <2>3. CASE c # NoMoment
    <3>1. /\ c \in Nat /\ t < c /\ Wanted(entry.trigger, c)
          /\ \A u \in Nat : t < u /\ u < c => ~ Wanted(entry.trigger, u)
      BY <1>4, <2>3
    <3>2. ASSUME NEW s \in Nat, IsStart(entry, t, s)
          PROVE  t < s /\ c <= s /\ IsOpen(entry.calendar, s)
      <4>1. PICK w \in Nat : t < w /\ w <= s /\ Wanted(entry.trigger, w)
        BY <1>10, <3>2 DEF IsStart
      <4>2. c <= w
        BY <3>1, <4>1
      <4>3. QED
        BY <3>1, <3>2, <4>1, <4>2 DEF IsStart
    <3>3. Aligned(entry.calendar, SearchDays, c, answer)
             \/ (IsOpen(entry.calendar, c) /\ answer = c)
      <4>1. Aligned(entry.calendar, SearchDays, c, Align(entry.calendar, c))
        BY <3>1, EntryFacts, AlignFacts
      <4>2. QED
        BY <2>1, <2>3, <4>1
    <3>4. CASE /\ answer \in Nat /\ c <= answer /\ IsOpen(entry.calendar, answer)
               /\ \A u \in Nat : c <= u /\ u < answer => ~ IsOpen(entry.calendar, u)
      <4>1. t < answer
        BY <3>1, <3>4
      <4>2. IsStart(entry, t, answer)
        BY <1>10, <3>1, <3>4, <4>1 DEF IsStart
      <4>3. \A s \in Nat : IsStart(entry, t, s) => answer <= s
        BY <3>2, <3>4
      <4>4. QED
        BY <1>3, <3>4, <4>2, <4>3
    <3>5. CASE answer = Broken /\
               \A u \in Nat : c <= u /\ IsOpen(entry.calendar, u) => Day(u) - Day(c) >= SearchDays
      <4>1. ASSUME NEW s \in Nat, IsStart(entry, t, s) PROVE Unreached(entry, t, s)
        <5>1. c <= s /\ Day(s) - Day(c) >= SearchDays
          BY <3>2, <3>5, <4>1
        <5>2. QED
          BY <1>10, <3>1, <5>1 DEF Unreached
      <4>2. QED
        BY <1>3, <1>10, <2>3, <3>5, <4>1
    <3>6. QED
      BY <3>1, <3>3, <3>4, <3>5 DEF Aligned
  <2>4. QED
    BY <2>2, <2>3
<1>11. entry.enabled \in BOOLEAN /\ entry.deferring \in BOOLEAN
  BY EntryFacts
<1>12. QED
  BY <1>8, <1>9, <1>10, <1>11

-------------------------------------------------------------------------------
(* The same, among the moments that are looked at.                           *)

LEMMA StartsListed ==
  ASSUME NEW entry \in ProperEntries, NEW t \in Nat
  PROVE  /\ AllStarts(entry, WantedAfter(entry, t)) \subseteq Moments
         /\ \A s \in Moments :
              s \in AllStarts(entry, WantedAfter(entry, t)) <=> IsStart(entry, t, s)
<1> DEFINE wanted == WantedAfter(entry, t)
           open == OpenMoments[entry.calendar]
           opensAfter(w) == {m \in open : m >= w}
           late == {w \in wanted : opensAfter(w) # {}}
<1>1. /\ Horizon \in Nat /\ \A m : m \in Moments <=> m \in Nat /\ m <= Horizon
      /\ Moments \subseteq Nat
  BY HorizonAssumption DEF Moments
<1>2. wanted = {m \in Moments : Wanted(entry.trigger, m) /\ m > t}
  BY EntryFacts DEF WantedAfter, WantedMoments
<1>3. open = {m \in Moments : IsOpen(entry.calendar, m)}
  BY EntryFacts DEF OpenMoments
<1>4. AllStarts(entry, wanted)
        = IF ~ entry.enabled THEN {}
          ELSE IF ~ entry.deferring THEN wanted \cap open
          ELSE {Min(opensAfter(w)) : w \in late}
  BY DEF AllStarts
<1> HIDE DEF wanted, open
<1>5. ASSUME NEW w \in late
      PROVE  /\ Min(opensAfter(w)) \in opensAfter(w)
             /\ \A m \in opensAfter(w) : Min(opensAfter(w)) <= m
  <2>1. opensAfter(w) \in SUBSET Nat /\ opensAfter(w) # {}
    BY <1>1, <1>3
  <2>2. opensAfter(w) \in SUBSET Int
    BY <2>1
  <2> HIDE DEF opensAfter
  <2>3. PICK m \in opensAfter(w) : \A k \in opensAfter(w) : m <= k
    BY <2>1, LeastElement
  <2>4. Min(opensAfter(w)) = m
    BY <2>2, <2>3, MinAndMax
  <2>5. QED
    BY <2>3, <2>4
<1>6. CASE ~ entry.enabled
  BY <1>4, <1>6 DEF IsStart, wanted
<1>7. CASE entry.enabled /\ ~ entry.deferring
  <2>1. AllStarts(entry, wanted) = wanted \cap open
    BY <1>4, <1>7
  <2>2. \A s \in Moments : s > t <=> t < s
    BY <1>1
  <2>3. QED
    BY <1>2, <1>3, <1>7, <2>1, <2>2 DEF IsStart, wanted
<1>8. CASE entry.enabled /\ entry.deferring
  <2>1. AllStarts(entry, wanted) = {Min(opensAfter(w)) : w \in late}
    BY <1>4, <1>8
  <2>2. AllStarts(entry, wanted) \subseteq Moments
    BY <1>3, <1>5, <2>1
  <2>3. ASSUME NEW s \in Moments, s \in AllStarts(entry, wanted) PROVE IsStart(entry, t, s)
    <3>1. PICK w \in late : s = Min(opensAfter(w))
      BY <2>1, <2>3
    <3>2. /\ w \in Nat /\ w <= Horizon /\ Wanted(entry.trigger, w) /\ t < w
          /\ s \in Nat /\ s <= Horizon
      BY <1>1, <1>2
    <3>3. w <= s /\ IsOpen(entry.calendar, s)
      BY <1>3, <1>5, <3>1, <3>2
    <3>4. ASSUME NEW u \in Nat, w <= u, u < s, IsOpen(entry.calendar, u) PROVE FALSE
      <4>1. u \in Moments
        BY <1>1, <3>2, <3>4
      <4>2. u \in opensAfter(w)
        BY <1>3, <3>2, <3>4, <4>1
      <4>3. s <= u
        BY <1>5, <3>1, <4>2
      <4>4. QED
        BY <3>2, <3>4, <4>3
    <3>5. t < s
      BY <3>2, <3>3
    <3>6. QED
      BY <1>8, <3>2, <3>3, <3>4, <3>5 DEF IsStart
  <2>4. ASSUME NEW s \in Moments, IsStart(entry, t, s) PROVE s \in AllStarts(entry, wanted)
    <3>1. PICK w \in Nat : /\ t < w /\ w <= s /\ Wanted(entry.trigger, w)
                           /\ \A u \in Nat : w <= u /\ u < s => ~ IsOpen(entry.calendar, u)
      BY <1>8, <2>4 DEF IsStart
    <3>2. s \in Nat /\ s <= Horizon /\ IsOpen(entry.calendar, s)
      BY <1>1, <2>4 DEF IsStart
    <3>3. w \in Moments
      BY <1>1, <3>1, <3>2
    <3>4. w \in wanted
      BY <1>2, <3>1, <3>3
    <3>5. s \in opensAfter(w)
      BY <1>3, <3>1, <3>2
    <3>6. w \in late
      BY <3>4, <3>5
    <3>7. \A u \in opensAfter(w) : s <= u
      BY <1>1, <1>3, <3>1, <3>2
    <3>8. Min(opensAfter(w)) = s
      <4>1. Min(opensAfter(w)) \in opensAfter(w) /\ Min(opensAfter(w)) <= s
        BY <1>5, <3>5, <3>6
      <4>2. Min(opensAfter(w)) \in Nat /\ s <= Min(opensAfter(w))
        BY <1>1, <1>3, <3>7, <4>1
      <4> HIDE DEF opensAfter
      <4>3. QED
        BY <3>2, <4>1, <4>2
    <3>9. QED
      BY <2>1, <3>6, <3>8
  <2>5. QED
    BY <2>2, <2>3, <2>4 DEF wanted
<1>9. QED
  BY <1>6, <1>7, <1>8, EntryFacts

LEMMA UnreachedIsOutOfReach ==
  ASSUME NEW entry \in ProperEntries, NEW t \in Nat, NEW s \in Moments, Unreached(entry, t, s)
  PROVE  OutOfReach(entry, t, s)
<1> DEFINE wantedTo(m) == {w \in WantedAfter(entry, t) : w <= m}
<1>1. Horizon \in Nat /\ \A m : m \in Moments <=> m \in Nat /\ m <= Horizon
  BY HorizonAssumption DEF Moments
<1>2. WantedAfter(entry, t) = {m \in Moments : Wanted(entry.trigger, m) /\ m > t}
  BY EntryFacts DEF WantedAfter, WantedMoments
<1>3. \A m \in Nat : m <= s => wantedTo(m) = WantedFrom(entry.trigger, t, m)
  <2>1. SUFFICES ASSUME NEW m \in Nat, m <= s
                 PROVE  wantedTo(m) = WantedFrom(entry.trigger, t, m)
    OBVIOUS
  <2>2. \A u : u \in Moments /\ u > t /\ u <= m <=> u \in t + 1 .. m
    <3>1. m <= Horizon /\ s \in Nat
      BY <1>1, <2>1
    <3>2. QED
      BY <1>1, <2>1, <3>1
  <2>3. \A u : u \in wantedTo(m) <=> u \in WantedFrom(entry.trigger, t, m)
    BY <1>2, <2>2 DEF WantedFrom
  <2> HIDE DEF wantedTo
  <2>4. QED
    BY <2>3
<1>4. s \in Nat
  BY <1>1
<1>5. CASE entry.deferring
  <2>1. CASE Silent(entry.trigger, t)
    BY <1>5, <2>1 DEF OutOfReach
  <2>2. CASE \E w \in Nat : /\ t < w /\ w <= s /\ Wanted(entry.trigger, w)
                            /\ Day(s) - Day(w) >= SearchDays
    <3>1. PICK w \in Nat : /\ t < w /\ w <= s /\ Wanted(entry.trigger, w)
                           /\ Day(s) - Day(w) >= SearchDays
      BY <2>2
    <3>2. w \in Moments
      BY <1>1, <3>1
    <3>3. w \in wantedTo(s)
      BY <1>2, <3>1, <3>2
    <3>4. QED
      BY <1>5, <3>1, <3>3 DEF OutOfReach
  <2>3. QED
    BY <1>5, <2>1, <2>2 DEF Unreached
<1>6. CASE ~ entry.deferring
  <2>1. PICK m \in Nat :
          /\ t <= m /\ m < s /\ NoneOpen(entry, t, m)
          /\ \/ Silent(entry.trigger, m)
             \/ Cardinality(WantedFrom(entry.trigger, t, m)) >= SkipLimit
    BY <1>6 DEF Unreached
  <2>2. wantedTo(m) = WantedFrom(entry.trigger, t, m)
    BY <1>3, <1>4, <2>1
  <2>3. m \in t .. s - 1
    BY <1>4, <2>1
  <2>4. wantedTo(m) \cap OpenMoments[entry.calendar] = {}
    <3>1. SUFFICES ASSUME NEW u \in wantedTo(m), u \in OpenMoments[entry.calendar] PROVE FALSE
      OBVIOUS
    <3>2. u \in Nat /\ t < u /\ u <= m /\ Wanted(entry.trigger, u)
      BY <1>1, <1>2
    <3>3. IsOpen(entry.calendar, u)
      BY <3>1, EntryFacts DEF OpenMoments
    <3>4. QED
      BY <2>1, <3>2, <3>3 DEF NoneOpen
  <2>5. QED
    BY <1>6, <2>1, <2>2, <2>3, <2>4 DEF OutOfReach
<1>7. QED
  BY <1>5, <1>6

\* Whether a start is one does not depend on where one begins to look, if that is an
\* open moment
LEMMA StartsLater ==
  ASSUME NEW entry \in ProperEntries, NEW a \in Nat, NEW l \in Nat, a <= l, NEW s \in Nat
  PROVE  /\ IsStart(entry, l, s) => IsStart(entry, a, s)
         /\ IsStart(entry, a, s) /\ l < s /\ (l = a \/ IsOpen(entry.calendar, l))
              => IsStart(entry, l, s)
<1>1. entry.deferring \in BOOLEAN
  BY EntryFacts
<1>2. CASE ~ entry.deferring
  BY <1>2 DEF IsStart
<1>3. CASE entry.deferring
  <2>1. ASSUME IsStart(entry, l, s) PROVE IsStart(entry, a, s)
    <3>1. PICK w \in Nat : /\ l < w /\ w <= s /\ Wanted(entry.trigger, w)
                           /\ \A u \in Nat : w <= u /\ u < s => ~ IsOpen(entry.calendar, u)
      BY <1>3, <2>1 DEF IsStart
    <3>2. a < w /\ a < s
      BY <3>1
    <3>3. QED
      BY <1>3, <2>1, <3>1, <3>2 DEF IsStart
  <2>2. ASSUME IsStart(entry, a, s), l < s, IsOpen(entry.calendar, l)
        PROVE  IsStart(entry, l, s)
    <3>1. PICK w \in Nat : /\ a < w /\ w <= s /\ Wanted(entry.trigger, w)
                           /\ \A u \in Nat : w <= u /\ u < s => ~ IsOpen(entry.calendar, u)
      BY <1>3, <2>2 DEF IsStart
    <3>2. l < w
      BY <2>2, <3>1
    <3>3. QED
      BY <1>3, <2>2, <3>1, <3>2 DEF IsStart
  <2>3. QED
    BY <2>1, <2>2
<1>4. QED
  BY <1>1, <1>2, <1>3

-------------------------------------------------------------------------------
(* The merge, on the values of its variables: es are the entries, q the      *)
(* query, fs what has been collected.                                        *)

NamesApart(es) == \A p, r \in DOMAIN es : es[p].name = es[r].name => p = r

FireOf(es, p, s) == [at |-> s, name |-> es[p].name]

\* LastStart
Begun(es, q, fs, p) == {q.after} \cup {f.at : f \in {f \in Range(fs) : f.name = es[p].name}}
LastOf(es, q, fs, p) == Max(Begun(es, q, fs, p))

NextOf(es, q, fs) == [p \in DOMAIN es |-> NextStart(es[p], LastOf(es, q, fs, p))]

\* What has been collected of each entry is every start it has up to the last of them
Collected(es, q, fs) ==
  \A p \in DOMAIN es :
    LET last == LastOf(es, q, fs, p)
    IN  /\ last \in Nat /\ q.after <= last
        /\ last = q.after \/ IsOpen(es[p].calendar, last)
        /\ last \in Begun(es, q, fs, p) /\ \A s \in Begun(es, q, fs, p) : s <= last
        /\ \A s \in Nat : FireOf(es, p, s) \in Range(fs)
                            <=> IsStart(es[p], q.after, s) /\ s <= last

FiresTyped(es, q, fs) ==
  /\ fs \in Seq([at : Nat, name : Names])
  /\ \A i \in DOMAIN fs :
       /\ \E p \in DOMAIN es : fs[i].name = es[p].name
       /\ q.end = NoMoment \/ fs[i].at <= q.end

\* Fires by the moment, simultaneous ones by the position of their entries
Earlier(s, p, t, r) == s < t \/ (s = t /\ p < r)

InOrder(es, fs) ==
  \A i, j \in DOMAIN fs : i < j =>
    \A p, r \in DOMAIN es :
      fs[i].name = es[p].name /\ fs[j].name = es[r].name => Earlier(fs[i].at, p, fs[j].at, r)

PendingLater(es, fs, pe) ==
  \A i \in DOMAIN fs : \A p \in DOMAIN es : \A r \in DOMAIN pe :
    fs[i].name = es[p].name => Earlier(fs[i].at, p, pe[r], r)

FirstOf(es, t) ==
  LET starts == Pending([p \in DOMAIN es |-> NextStart(es[p], t)], NoMoment)
  IN  IF DOMAIN starts = {} THEN NoMoment
      ELSE FireOf(es, Earliest(starts), starts[Earliest(starts)])

MergeGoesOn(es, q, pe, fs) ==
  /\ \A p \in DOMAIN es : NextOf(es, q, fs)[p] # Broken
  /\ pe = Pending(NextOf(es, q, fs), q.end)
  /\ PendingLater(es, fs, pe)
  /\ fs # <<>> => fs[1] = FirstOf(es, q.after)

MergeStops(es, q, fs) ==
  \E p \in DOMAIN es :
    /\ NextOf(es, q, fs)[p] = Broken
    /\ fs # <<>> => fs[Len(fs)].name = es[p].name

Merging(es, ph, q, pe, fs) ==
  /\ ph # "idle" => /\ q \in Queries
                    /\ Collected(es, q, fs) /\ FiresTyped(es, q, fs) /\ InOrder(es, fs)
  /\ ph \in {"merging", "answered"} => MergeGoesOn(es, q, pe, fs)
  /\ ph = "answered" => DOMAIN pe = {} \/ Len(fs) = q.count
  /\ ph = "raised" => MergeStops(es, q, fs)

Merge(es, ph, q, pe, fs) ==
  /\ ph \in {"idle", "merging", "answered", "raised"}
  /\ es \in Seq(Entries) /\ NamesApart(es)
  /\ ph = "idle" => fs = <<>> /\ pe = <<>>
  /\ es \in Seq(ProperEntries) => Merging(es, ph, q, pe, fs)

LEMMA EntryOf ==
  ASSUME NEW es \in Seq(ProperEntries)
  PROVE  /\ DOMAIN es \in SUBSET Nat /\ \A p \in DOMAIN es : es[p] \in ProperEntries
         /\ \A p \in DOMAIN es : es[p].name \in Names
<1>1. DOMAIN es = 1 .. Len(es) /\ Len(es) \in Nat
  OBVIOUS
<1>2. \A p \in DOMAIN es : es[p] \in ProperEntries
  OBVIOUS
<1>3. \A e \in ProperEntries : e.name \in Names
  BY DEF ProperEntries, Entries
<1>4. QED
  BY <1>1, <1>2, <1>3

LEMMA QueryFacts ==
  ASSUME NEW q \in Queries
  PROVE  q.after \in Nat /\ q.end \in Nat \cup {NoMoment} /\ q.count \in Nat
BY QueryAssumption

LEMMA PendingFacts ==
  ASSUME NEW moments, NEW end
  PROVE  /\ DOMAIN Pending(moments, end)
              = {p \in DOMAIN moments :
                   moments[p] # NoMoment /\ (end = NoMoment \/ moments[p] <= end)}
         /\ \A p \in DOMAIN Pending(moments, end) : Pending(moments, end)[p] = moments[p]
BY DEF Pending, Restrict

\* Two sets of moments with the same entries pending have the same of them pending
LEMMA SamePending ==
  ASSUME NEW m, NEW n, NEW end, DOMAIN m \subseteq DOMAIN n,
         \A p \in DOMAIN m : m[p] = n[p],
         \A p \in DOMAIN n \ DOMAIN m :
           ~ (n[p] # NoMoment /\ (end = NoMoment \/ n[p] <= end))
  PROVE  Pending(m, end) = Pending(n, end)
<1>1. {p \in DOMAIN m : m[p] # NoMoment /\ (end = NoMoment \/ m[p] <= end)}
        = {p \in DOMAIN n : n[p] # NoMoment /\ (end = NoMoment \/ n[p] <= end)}
  OBVIOUS
<1>2. \A p \in {p \in DOMAIN m : m[p] # NoMoment /\ (end = NoMoment \/ m[p] <= end)} : m[p] = n[p]
  OBVIOUS
<1>3. QED
  BY <1>1, <1>2 DEF Pending, Restrict

\* There is an earliest, and only one
LEMMA EarliestFacts ==
  ASSUME NEW moments, DOMAIN moments \in SUBSET Nat, DOMAIN moments # {},
         \A p \in DOMAIN moments : moments[p] \in Nat
  PROVE  LET first == Earliest(moments)
         IN  /\ first \in DOMAIN moments
             /\ \A p \in DOMAIN moments :
                  p # first => Earlier(moments[first], first, moments[p], p)
             /\ \A p \in DOMAIN moments :
                  (\A r \in DOMAIN moments : r # p => Earlier(moments[p], p, moments[r], r))
                    => p = first
<1> DEFINE D == DOMAIN moments
           Leads(p) == \A r \in D \ {p} :
                         moments[p] < moments[r] \/ (moments[p] = moments[r] /\ p < r)
           at == {moments[p] : p \in D}
           first == Earliest(moments)
<1>1. \A p \in D : p \in Nat /\ moments[p] \in Nat
  OBVIOUS
<1>2. PICK m \in at : \A k \in at : m <= k
  <2>1. at \in SUBSET Nat /\ at # {}
    OBVIOUS
  <2> HIDE DEF at
  <2>2. QED
    BY <2>1, LeastElement
<1> DEFINE same == {p \in D : moments[p] = m}
<1>3. PICK e \in same : \A k \in same : e <= k
  <2>1. same \in SUBSET Nat /\ same # {}
    BY <1>2
  <2> HIDE DEF same
  <2>2. QED
    BY <2>1, LeastElement
<1>4. Leads(e)
  <2>1. SUFFICES ASSUME NEW r \in D, r # e
                 PROVE  moments[e] < moments[r] \/ (moments[e] = moments[r] /\ e < r)
    OBVIOUS
  <2>2. e \in Nat /\ r \in Nat /\ moments[e] \in Nat /\ moments[r] \in Nat /\ moments[e] = m
    BY <1>1, <1>3
  <2>3. m <= moments[r]
    BY <1>2
  <2>4. moments[r] = m => e <= r
    BY <1>3
  <2>5. QED
    BY <2>1, <2>2, <2>3, <2>4
<1>5. first = CHOOSE p \in D : Leads(p)
  BY DEF Earliest
<1>6. first \in D /\ Leads(first)
  <2>1. e \in D
    BY <1>3
  <2> HIDE DEF Leads, first, D
  <2>2. QED
    BY <1>4, <1>5, <2>1
<1> HIDE DEF first
<1>7. ASSUME NEW p \in D, \A r \in D : r # p => Earlier(moments[p], p, moments[r], r), p # first
      PROVE  FALSE
  <2>1. moments[p] \in Nat /\ moments[first] \in Nat /\ p \in Nat /\ first \in Nat
    BY <1>1, <1>6
  <2>2. Earlier(moments[p], p, moments[first], first)
    BY <1>6, <1>7
  <2>3. moments[first] < moments[p] \/ (moments[first] = moments[p] /\ first < p)
    BY <1>6, <1>7
  <2>4. QED
    BY <2>1, <2>2, <2>3 DEF Earlier
<1>8. \A p \in D : p # first => Earlier(moments[first], first, moments[p], p)
  BY <1>6 DEF Earlier
<1>9. QED
  BY <1>6, <1>7, <1>8 DEF first

\* Of nothing that has been collected
LEMMA NothingBegun ==
  ASSUME NEW es \in Seq(ProperEntries), NEW q \in Queries
  PROVE  /\ Collected(es, q, <<>>) /\ FiresTyped(es, q, <<>>) /\ InOrder(es, <<>>)
         /\ \A pe : PendingLater(es, <<>>, pe)
         /\ NextOf(es, q, <<>>) = [p \in DOMAIN es |-> NextStart(es[p], q.after)]
<1>1. DOMAIN <<>> = {} /\ Range(<<>>) = {}
  BY DEF Range
<1>2. q.after \in Nat
  BY QueryFacts
<1>3. \A p : Begun(es, q, <<>>, p) = {q.after}
  BY <1>1 DEF Begun
<1>4. \A p : LastOf(es, q, <<>>, p) = q.after
  <2>1. Max({q.after}) = q.after
    <3>1. {q.after} \in SUBSET Int /\ q.after \in {q.after} /\ \A k \in {q.after} : k <= q.after
      BY <1>2
    <3>2. QED
      BY <3>1, MinAndMax
  <2>2. QED
    BY <1>3, <2>1 DEF LastOf
<1>5. Collected(es, q, <<>>)
  <2>1. ASSUME NEW p \in DOMAIN es, NEW s \in Nat
        PROVE  ~ (IsStart(es[p], q.after, s) /\ s <= q.after)
    BY <1>2 DEF IsStart
  <2>2. q.after <= q.after
    BY <1>2
  <2>3. QED
    BY <1>1, <1>2, <1>3, <1>4, <2>1, <2>2 DEF Collected
<1>6. FiresTyped(es, q, <<>>) /\ InOrder(es, <<>>) /\ \A pe : PendingLater(es, <<>>, pe)
  BY <1>1 DEF FiresTyped, InOrder, PendingLater
<1>7. NextOf(es, q, <<>>) = [p \in DOMAIN es |-> NextStart(es[p], q.after)]
  BY <1>4 DEF NextOf
<1>8. QED
  BY <1>5, <1>6, <1>7

LEMMA AppendFacts ==
  ASSUME NEW X, NEW fs \in Seq(X), NEW f \in X
  PROVE  /\ Append(fs, f) \in Seq(X) /\ Len(fs) \in Nat
         /\ DOMAIN fs = 1 .. Len(fs) /\ DOMAIN Append(fs, f) = 1 .. Len(fs) + 1
         /\ \A i \in DOMAIN fs : Append(fs, f)[i] = fs[i]
         /\ Append(fs, f)[Len(fs) + 1] = f /\ Len(Append(fs, f)) = Len(fs) + 1
         /\ Range(Append(fs, f)) = Range(fs) \cup {f}
<1>1. /\ Append(fs, f) \in Seq(X) /\ Len(fs) \in Nat
      /\ DOMAIN fs = 1 .. Len(fs) /\ DOMAIN Append(fs, f) = 1 .. Len(fs) + 1
      /\ Append(fs, f)[Len(fs) + 1] = f /\ Len(Append(fs, f)) = Len(fs) + 1
  OBVIOUS
<1>2. \A i \in DOMAIN fs : Append(fs, f)[i] = fs[i]
  OBVIOUS
<1>3. Range(Append(fs, f)) = Range(fs) \cup {f}
  <2> DEFINE gs == Append(fs, f)
  <2>1. \A i \in DOMAIN gs : i \in DOMAIN fs \/ i = Len(fs) + 1
    BY <1>1
  <2>2. \A i \in DOMAIN fs : i \in DOMAIN gs
    BY <1>1
  <2>3. Len(fs) + 1 \in DOMAIN gs
    BY <1>1
  <2>4. \A x \in Range(gs) : x \in Range(fs) \cup {f}
    BY <1>1, <1>2, <2>1 DEF Range
  <2>5. \A x \in Range(fs) : x \in Range(gs)
    BY <1>2, <2>2 DEF Range
  <2>6. f \in Range(gs)
    BY <1>1, <2>3 DEF Range
  <2>7. QED
    BY <2>4, <2>5, <2>6
<1>4. QED
  BY <1>1, <1>2, <1>3

LEMMA FireTimes ==
  ASSUME NEW fs \in Seq([at : Nat, name : Names])
  PROVE  /\ \A i \in DOMAIN fs : fs[i].at \in Nat
         /\ \A f \in Range(fs) : f.at \in Nat
<1> DEFINE X == [at : Nat, name : Names]
<1>1. \A i \in DOMAIN fs : fs[i] \in X
  <2>1. fs \in Seq(X)
    OBVIOUS
  <2> HIDE DEF X
  <2>2. QED
    BY <2>1
<1>2. \A i \in DOMAIN fs : fs[i].at \in Nat
  BY <1>1
<1>3. QED
  BY <1>2 DEF Range

\* Taking the earliest of what is pending
LEMMA TakeFacts ==
  ASSUME NEW es \in Seq(ProperEntries), NamesApart(es), NEW q \in Queries, NEW fs, NEW pe,
         Collected(es, q, fs), FiresTyped(es, q, fs), InOrder(es, fs),
         MergeGoesOn(es, q, pe, fs), DOMAIN pe # {},
         NEW p, p = Earliest(pe), NEW gs, gs = Append(fs, FireOf(es, p, pe[p])),
         NEW following, following = NextStart(es[p], pe[p])
  PROVE  /\ Collected(es, q, gs) /\ FiresTyped(es, q, gs) /\ InOrder(es, gs)
         /\ following # Broken =>
              MergeGoesOn(es, q, Pending([pe EXCEPT ![p] = following], q.end), gs)
         /\ following = Broken => MergeStops(es, q, gs)
<1> DEFINE moments == NextOf(es, q, fs)
           later == NextOf(es, q, gs)
           s == pe[p]
           F == FireOf(es, p, s)
           Last(r) == LastOf(es, q, fs, r)
           B(r) == Begun(es, q, fs, r)
           C(r) == Begun(es, q, gs, r)
           n == Len(fs)
<1>1. /\ DOMAIN es \in SUBSET Nat /\ \A r \in DOMAIN es : es[r] \in ProperEntries
      /\ \A r \in DOMAIN es : es[r].name \in Names
  BY EntryOf
<1>2. q.after \in Nat /\ q.end \in Nat \cup {NoMoment} /\ q.count \in Nat
  BY QueryFacts
<1>3. NoMoment \notin Nat /\ Broken \notin Nat /\ NoMoment # Broken
  BY AnswerAssumption
<1>4. ASSUME NEW r \in DOMAIN es
      PROVE  /\ Last(r) \in Nat /\ q.after <= Last(r)
             /\ Last(r) = q.after \/ IsOpen(es[r].calendar, Last(r))
             /\ Last(r) \in B(r) /\ \A u \in B(r) : u <= Last(r)
             /\ \A u \in Nat : FireOf(es, r, u) \in Range(fs)
                                 <=> IsStart(es[r], q.after, u) /\ u <= Last(r)
  BY DEF Collected
<1>5. DOMAIN moments = DOMAIN es /\ \A r \in DOMAIN es : moments[r] = NextStart(es[r], Last(r))
  BY DEF NextOf
<1>6. \A r \in DOMAIN es : moments[r] # Broken
  BY DEF MergeGoesOn
<1>7. pe = Pending(moments, q.end)
  BY DEF MergeGoesOn
<1> HIDE DEF moments, Last, B, C, s
<1>8. /\ DOMAIN pe = {r \in DOMAIN es : moments[r] # NoMoment
                                         /\ (q.end = NoMoment \/ moments[r] <= q.end)}
      /\ \A r \in DOMAIN pe : pe[r] = moments[r]
  <2>1. /\ DOMAIN Pending(moments, q.end)
             = {r \in DOMAIN moments : moments[r] # NoMoment
                                        /\ (q.end = NoMoment \/ moments[r] <= q.end)}
        /\ \A r \in DOMAIN Pending(moments, q.end) : Pending(moments, q.end)[r] = moments[r]
    BY PendingFacts
  <2>2. QED
    BY <1>5, <1>7, <2>1
<1>9. ASSUME NEW r \in DOMAIN es, moments[r] # NoMoment
      PROVE  /\ moments[r] \in Nat /\ IsStart(es[r], Last(r), moments[r])
             /\ \A u \in Nat : IsStart(es[r], Last(r), u) => moments[r] <= u
  <2>1. /\ moments[r] = NextStart(es[r], Last(r)) /\ Last(r) \in Nat
        /\ es[r] \in ProperEntries /\ moments[r] # Broken
    BY <1>1, <1>4, <1>5, <1>6
  <2>2. QED
    BY <1>9, <2>1, NextStartFacts
<1>10. \A r \in DOMAIN pe : r \in DOMAIN es /\ r \in Nat /\ pe[r] \in Nat
  BY <1>1, <1>8, <1>9
<1>11. /\ p \in DOMAIN pe
       /\ \A r \in DOMAIN pe : r # p => Earlier(s, p, pe[r], r)
  <2>1. DOMAIN pe \in SUBSET Nat /\ \A r \in DOMAIN pe : pe[r] \in Nat
    BY <1>10
  <2>2. QED
    BY <2>1, EarliestFacts DEF s
<1>12. p \in DOMAIN es /\ p \in Nat /\ s \in Nat /\ s = moments[p]
  BY <1>8, <1>10, <1>11 DEF s
<1>13. /\ IsStart(es[p], Last(p), s) /\ Last(p) < s /\ IsOpen(es[p].calendar, s)
       /\ \A u \in Nat : IsStart(es[p], Last(p), u) => s <= u
  BY <1>3, <1>9, <1>12 DEF IsStart
<1>14. q.end = NoMoment \/ s <= q.end
  BY <1>8, <1>11, <1>12
<1>15. fs \in Seq([at : Nat, name : Names]) /\ F \in [at : Nat, name : Names]
  BY <1>1, <1>12 DEF FiresTyped, FireOf
<1>16. gs = Append(fs, F)
  BY DEF s
<1> HIDE DEF F
<1>17. /\ gs \in Seq([at : Nat, name : Names]) /\ n \in Nat
       /\ DOMAIN fs = 1 .. n /\ DOMAIN gs = 1 .. n + 1
       /\ \A i \in DOMAIN fs : gs[i] = fs[i]
       /\ gs[n + 1] = F /\ Len(gs) = n + 1
       /\ Range(gs) = Range(fs) \cup {F}
  <2> DEFINE X == [at : Nat, name : Names]
  <2> HIDE DEF X
  <2>1. fs \in Seq(X) /\ F \in X
    BY <1>15 DEF X
  <2>2. /\ Append(fs, F) \in Seq(X) /\ Len(fs) \in Nat
        /\ DOMAIN fs = 1 .. Len(fs) /\ DOMAIN Append(fs, F) = 1 .. Len(fs) + 1
        /\ \A i \in DOMAIN fs : Append(fs, F)[i] = fs[i]
        /\ Append(fs, F)[Len(fs) + 1] = F /\ Len(Append(fs, F)) = Len(fs) + 1
        /\ Range(Append(fs, F)) = Range(fs) \cup {F}
    BY <2>1, AppendFacts
  <2>3. QED
    BY <1>16, <2>2 DEF X
<1> HIDE DEF n
<1>18. F.at = s /\ F.name = es[p].name
  BY DEF F, FireOf
<1>19. \A r \in DOMAIN es : es[r].name = es[p].name => r = p
  BY <1>12 DEF NamesApart
<1>20. C(p) = B(p) \cup {s}
  BY <1>17, <1>18 DEF B, C, Begun
<1>21. \A r \in DOMAIN es : r # p => C(r) = B(r)
  BY <1>17, <1>18, <1>19 DEF B, C, Begun
<1>22. LastOf(es, q, gs, p) = s
  <2>1. \A u \in B(p) : u \in Int
    <3>1. \A f \in Range(fs) : f.at \in Nat
      BY <1>15, FireTimes
    <3>2. QED
      BY <1>2, <3>1 DEF B, Begun
  <2>2. C(p) \in SUBSET Int /\ s \in C(p)
    BY <1>12, <1>20, <2>1
  <2>3. \A u \in C(p) : u <= s
    <3>1. \A u \in B(p) : u <= Last(p) /\ Last(p) \in Nat
      BY <1>4, <1>12
    <3>2. QED
      BY <1>12, <1>13, <1>20, <2>1, <3>1
  <2>4. Max(C(p)) = s
    <3> HIDE DEF C
    <3> QED BY <2>2, <2>3, MinAndMax
  <2>5. QED
    BY <2>4 DEF LastOf, C
<1>23. \A r \in DOMAIN es : r # p => LastOf(es, q, gs, r) = Last(r)
  BY <1>21 DEF LastOf, Last, B, C
<1>24. Collected(es, q, gs)
  <2>1. ASSUME NEW r \in DOMAIN es, r # p
        PROVE  LET last == LastOf(es, q, gs, r)
               IN  /\ last \in Nat /\ q.after <= last
                   /\ last = q.after \/ IsOpen(es[r].calendar, last)
                   /\ last \in C(r) /\ \A u \in C(r) : u <= last
                   /\ \A u \in Nat : FireOf(es, r, u) \in Range(gs)
                                       <=> IsStart(es[r], q.after, u) /\ u <= last
    <3>1. LastOf(es, q, gs, r) = Last(r) /\ C(r) = B(r)
      BY <1>21, <1>23, <2>1
    <3>2. \A u \in Nat : FireOf(es, r, u) # F
      BY <1>18, <1>19, <2>1 DEF FireOf
    <3>3. \A u \in Nat : FireOf(es, r, u) \in Range(gs) <=> FireOf(es, r, u) \in Range(fs)
      BY <1>17, <3>2
    <3>4. QED
      BY <1>4, <3>1, <3>3
  <2>2. /\ s \in Nat /\ q.after <= s /\ IsOpen(es[p].calendar, s)
        /\ s \in C(p) /\ \A u \in C(p) : u <= s
    <3>1. Last(p) \in Nat /\ q.after <= Last(p) /\ \A u \in B(p) : u <= Last(p)
      BY <1>4, <1>12
    <3>2. \A u \in B(p) : u \in Int
      <4>1. \A f \in Range(fs) : f.at \in Nat
        BY <1>15, FireTimes
      <4>2. QED
        BY <1>2, <4>1 DEF B, Begun
    <3>3. QED
      BY <1>2, <1>12, <1>13, <1>20, <3>1, <3>2
  <2>3. ASSUME NEW u \in Nat
        PROVE  FireOf(es, p, u) \in Range(gs) <=> IsStart(es[p], q.after, u) /\ u <= s
    <3>1. FireOf(es, p, u) = F <=> u = s
      BY <1>12 DEF F, FireOf
    <3>2. FireOf(es, p, u) \in Range(fs) <=> IsStart(es[p], q.after, u) /\ u <= Last(p)
      BY <1>4, <1>12
    <3>3. es[p] \in ProperEntries /\ Last(p) \in Nat /\ q.after <= Last(p)
      BY <1>1, <1>4, <1>12
    <3>4. IsStart(es[p], q.after, s)
      BY <1>2, <1>12, <1>13, <3>3, StartsLater
    <3>5. ASSUME IsStart(es[p], q.after, u), u <= s, ~ (u <= Last(p)) PROVE u = s
      <4>1. Last(p) < u
        BY <3>3, <3>5
      <4>2. Last(p) = q.after \/ IsOpen(es[p].calendar, Last(p))
        BY <1>4, <1>12
      <4>3. IsStart(es[p], Last(p), u)
        BY <1>2, <3>3, <3>5, <4>1, <4>2, StartsLater
      <4>4. s <= u
        BY <1>13, <4>3
      <4>5. QED
        BY <1>12, <3>5, <4>4
    <3>6. u <= Last(p) => u <= s
      BY <1>12, <1>13, <3>3
    <3>7. s <= s
      BY <1>12
    <3>8. FireOf(es, p, u) \in Range(gs) <=> FireOf(es, p, u) \in Range(fs) \/ u = s
      BY <1>17, <3>1
    <3>9. QED
      BY <3>2, <3>4, <3>5, <3>6, <3>7, <3>8
  <2>4. QED
    BY <1>22, <2>1, <2>2, <2>3 DEF Collected, C
<1>25. FiresTyped(es, q, gs)
  <2>1. ASSUME NEW i \in DOMAIN gs
        PROVE  /\ \E r \in DOMAIN es : gs[i].name = es[r].name
               /\ q.end = NoMoment \/ gs[i].at <= q.end
    <3>1. CASE i \in DOMAIN fs
      BY <1>17, <3>1 DEF FiresTyped
    <3>2. CASE i \notin DOMAIN fs
      <4>1. i = n + 1
        BY <1>17, <3>2
      <4>2. QED
        BY <1>12, <1>14, <1>17, <1>18, <4>1
    <3>3. QED
      BY <3>1, <3>2
  <2>2. QED
    BY <1>17, <2>1 DEF FiresTyped
<1>26. ASSUME NEW i \in DOMAIN fs, NEW r \in DOMAIN es, fs[i].name = es[r].name
       PROVE  Earlier(fs[i].at, r, s, p)
  BY <1>11, <1>26 DEF MergeGoesOn, PendingLater, s
<1>27. InOrder(es, gs)
  <2>1. SUFFICES ASSUME NEW i \in DOMAIN gs, NEW j \in DOMAIN gs, i < j,
                        NEW r \in DOMAIN es, NEW t \in DOMAIN es,
                        gs[i].name = es[r].name, gs[j].name = es[t].name
                 PROVE  Earlier(gs[i].at, r, gs[j].at, t)
    BY DEF InOrder
  <2>2. i \in DOMAIN fs /\ gs[i] = fs[i]
    BY <1>17, <2>1
  <2>3. CASE j \in DOMAIN fs
    BY <1>17, <2>1, <2>2, <2>3 DEF InOrder
  <2>4. CASE j \notin DOMAIN fs
    <3>1. j = n + 1
      BY <1>17, <2>4
    <3>2. gs[j].at = s /\ t = p
      BY <1>17, <1>18, <1>19, <2>1, <3>1
    <3>3. QED
      BY <1>26, <2>1, <2>2, <3>2
  <2>5. QED
    BY <2>3, <2>4
<1>28. DOMAIN later = DOMAIN es /\ later[p] = following
         /\ \A r \in DOMAIN es : r # p => later[r] = moments[r]
  <2>1. \A r \in DOMAIN es : later[r] = NextStart(es[r], LastOf(es, q, gs, r))
    BY DEF NextOf
  <2>2. DOMAIN later = DOMAIN es
    BY DEF NextOf
  <2> HIDE DEF later
  <2>3. following = NextStart(es[p], s)
    BY DEF s
  <2>4. QED
    BY <1>5, <1>12, <1>22, <1>23, <2>1, <2>2, <2>3
<1> HIDE DEF later
<1>29. following \in Nat \cup {NoMoment, Broken} /\ (following \in Nat => s < following)
  <2>1. following = NextStart(es[p], s) /\ es[p] \in ProperEntries /\ s \in Nat
    BY <1>1, <1>12 DEF s
  <2>2. following \in Nat => IsStart(es[p], s, following)
    BY <2>1, NextStartFacts
  <2>3. following \in Nat \cup {NoMoment, Broken}
    BY <2>1, NextStartFacts
  <2>4. QED
    BY <2>2, <2>3 DEF IsStart
<1>30. ASSUME following # Broken
       PROVE  MergeGoesOn(es, q, Pending([pe EXCEPT ![p] = following], q.end), gs)
  <2> DEFINE pf == [pe EXCEPT ![p] = following]
             pg == Pending(pf, q.end)
  <2>1. DOMAIN pf = DOMAIN pe /\ pf[p] = following /\ \A r \in DOMAIN pe : r # p => pf[r] = pe[r]
    BY <1>11
  <2> HIDE DEF pf
  <2>2. pg = Pending(later, q.end)
    <3>1. DOMAIN pf \subseteq DOMAIN later
      BY <1>10, <1>28, <2>1
    <3>2. \A r \in DOMAIN pf : pf[r] = later[r]
      BY <1>8, <1>10, <1>28, <2>1
    <3>3. \A r \in DOMAIN later \ DOMAIN pf :
            ~ (later[r] # NoMoment /\ (q.end = NoMoment \/ later[r] <= q.end))
      BY <1>8, <1>11, <1>28, <2>1
    <3>4. QED
      BY <3>1, <3>2, <3>3, SamePending
  <2>3. ASSUME NEW r \in DOMAIN pg
        PROVE  /\ r \in DOMAIN pe /\ r \in DOMAIN es /\ r \in Nat /\ pg[r] \in Nat
               /\ r # p => pg[r] = pe[r]
               /\ r = p => s < pg[r]
    <3>1. r \in DOMAIN pf /\ pf[r] # NoMoment /\ pg[r] = pf[r]
      <4>1. /\ DOMAIN Pending(pf, q.end)
                 = {k \in DOMAIN pf : pf[k] # NoMoment
                                      /\ (q.end = NoMoment \/ pf[k] <= q.end)}
            /\ \A k \in DOMAIN Pending(pf, q.end) : Pending(pf, q.end)[k] = pf[k]
        BY PendingFacts
      <4>2. QED
        BY <2>3, <4>1
    <3>2. QED
      BY <1>10, <1>29, <1>30, <2>1, <3>1
  <2> HIDE DEF pg
  <2>4. PendingLater(es, gs, pg)
    <3>1. SUFFICES ASSUME NEW i \in DOMAIN gs, NEW t \in DOMAIN es, NEW r \in DOMAIN pg,
                          gs[i].name = es[t].name
                   PROVE  Earlier(gs[i].at, t, pg[r], r)
      BY DEF PendingLater
    <3>2. t \in Nat /\ r \in Nat /\ pg[r] \in Nat /\ r \in DOMAIN pe
      BY <1>1, <2>3
    <3>3. CASE i \in DOMAIN fs
      <4>1. gs[i] = fs[i] /\ fs[i].at \in Nat
        BY <1>15, <1>17, <3>3, FireTimes
      <4>2. CASE r # p
        <5>1. Earlier(fs[i].at, t, pe[r], r)
          BY <3>1, <3>2, <3>3, <4>1 DEF MergeGoesOn, PendingLater
        <5>2. QED
          BY <2>3, <4>1, <4>2, <5>1
      <4>3. CASE r = p
        <5>1. Earlier(fs[i].at, t, s, p) /\ s < pg[r]
          BY <1>26, <2>3, <3>1, <3>3, <4>1, <4>3
        <5>2. QED
          BY <1>12, <3>2, <4>1, <5>1 DEF Earlier
      <4>4. QED
        BY <4>2, <4>3
    <3>4. CASE i \notin DOMAIN fs
      <4>1. i = n + 1
        BY <1>17, <3>4
      <4>2. gs[i].at = s /\ t = p
        BY <1>17, <1>18, <1>19, <3>1, <4>1
      <4>3. CASE r # p
        BY <1>11, <2>3, <3>2, <4>2, <4>3
      <4>4. CASE r = p
        BY <2>3, <4>2, <4>4 DEF Earlier
      <4>5. QED
        BY <4>3, <4>4
    <3>5. QED
      BY <3>3, <3>4
  <2>5. \A r \in DOMAIN es : later[r] # Broken
    BY <1>6, <1>28, <1>30
  <2>6. gs[1] = FirstOf(es, q.after)
    <3>1. CASE fs # <<>>
      <4>1. 1 \in DOMAIN fs
        BY <1>15, <1>17, <3>1 DEF n
      <4>2. QED
        BY <1>17, <3>1, <4>1 DEF MergeGoesOn
    <3>2. CASE fs = <<>>
      <4> DEFINE all == [r \in DOMAIN es |-> NextStart(es[r], q.after)]
                 starts == Pending(all, NoMoment)
      <4>1. moments = all
        BY <3>2, NothingBegun DEF moments
      <4>2. /\ DOMAIN starts = {r \in DOMAIN es : moments[r] # NoMoment}
            /\ \A r \in DOMAIN starts : starts[r] = moments[r]
        <5>1. DOMAIN all = DOMAIN es
          OBVIOUS
        <5> HIDE DEF all
        <5>2. DOMAIN starts = {r \in DOMAIN all : all[r] # NoMoment
                                 /\ (NoMoment = NoMoment \/ all[r] <= NoMoment)}
          BY PendingFacts
        <5>3. \A r \in DOMAIN starts : starts[r] = all[r]
          BY PendingFacts
        <5> HIDE DEF starts
        <5>4. QED
          BY <4>1, <5>1, <5>2, <5>3
      <4> HIDE DEF all, starts
      <4>3. \A r \in DOMAIN starts : r \in Nat /\ starts[r] \in Nat
        BY <1>1, <1>9, <4>2
      <4>4. p \in DOMAIN starts /\ starts[p] = s
        BY <1>3, <1>12, <4>2
      <4>5. ASSUME NEW r \in DOMAIN starts, r # p PROVE Earlier(starts[p], p, starts[r], r)
        <5>1. CASE r \in DOMAIN pe
          BY <1>8, <1>11, <4>2, <4>4, <4>5, <5>1
        <5>2. CASE r \notin DOMAIN pe
          <6>1. q.end # NoMoment /\ ~ (starts[r] <= q.end)
            BY <1>8, <4>2, <5>2
          <6>2. starts[p] < starts[r]
            BY <1>2, <1>12, <1>14, <4>3, <4>4, <6>1
          <6>3. QED
            BY <6>2 DEF Earlier
        <5>3. QED
          BY <5>1, <5>2
      <4>6. p = Earliest(starts)
        <5>1. DOMAIN starts \in SUBSET Nat /\ DOMAIN starts # {}
          BY <4>3, <4>4
        <5>2. \A r \in DOMAIN starts : r # p => Earlier(starts[p], p, starts[r], r)
          BY <4>5
        <5>3. QED
          BY <4>3, <4>4, <5>1, <5>2, EarliestFacts
      <4>7. FirstOf(es, q.after) = FireOf(es, p, s)
        BY <4>4, <4>6 DEF FirstOf, starts, all
      <4>8. n = 0
        BY <3>2 DEF n
      <4>9. QED
        BY <1>17, <4>7, <4>8 DEF F
    <3>3. QED
      BY <3>1, <3>2
  <2>7. QED
    BY <2>2, <2>4, <2>5, <2>6 DEF MergeGoesOn, later, pg, pf
<1>31. ASSUME following = Broken PROVE MergeStops(es, q, gs)
  <2>1. later[p] = Broken /\ gs[Len(gs)].name = es[p].name
    BY <1>17, <1>18, <1>28, <1>31
  <2>2. QED
    BY <1>12, <2>1 DEF MergeStops, later
<1>32. QED
  BY <1>24, <1>25, <1>27, <1>30, <1>31

-------------------------------------------------------------------------------
(* Every answer is complete.                                                 *)

LEMMA SecondPart ==
  ASSUME NEW X, NEW a \in Seq(X), NEW b \in Seq(X), NEW k \in 1 .. Len(b)
  PROVE  (a \o b)[Len(a) + k] = b[k]
<1>1. PICK n, m : n = Len(a) /\ m = Len(b)
  OBVIOUS
<1>2. n \in Nat /\ m \in Nat /\ k \in 1 .. m
  BY <1>1
<1>3. n + k \in 1 .. n + m /\ ~ (n + k <= n) /\ (n + k) - n = k
  BY <1>2
<1>4. \A i \in 1 .. n + m : (a \o b)[i] = IF i <= n THEN a[i] ELSE b[i - n]
  BY <1>1, ConcatProperties
<1>5. QED
  BY <1>1, <1>3, <1>4

LEMMA RestOf ==
  ASSUME NEW X, NEW es \in Seq(X), NEW p \in 1 .. Len(es)
  PROVE  LET b == SubSeq(es, p + 1, Len(es))
         IN  /\ b \in Seq(X) /\ Len(b) = Len(es) - p
             /\ \A j \in 1 .. Len(es) - p : b[j] = es[p + j]
<1>1. PICK n, m, b : n = Len(es) /\ m = p + 1 /\ b = SubSeq(es, m, n)
  OBVIOUS
<1>2. /\ n \in Int /\ m \in Int /\ n \in Nat /\ p \in 1 .. n
      /\ \A j \in m .. n : es[j] \in X
  BY <1>1
<1>3. b \in Seq(X)
  BY <1>1, <1>2, SubSeqProperties
<1>4. Len(b) = IF m <= n THEN n - m + 1 ELSE 0
  BY <1>1, <1>2, SubSeqProperties
<1>5. \A j \in 1 .. n - m + 1 : b[j] = es[m + j - 1]
  BY <1>1, <1>2, SubSeqProperties
<1>6. Len(b) = n - p
  BY <1>1, <1>2, <1>4
<1>7. ASSUME NEW j \in 1 .. n - p PROVE b[j] = es[p + j]
  <2>1. j \in 1 .. n - m + 1 /\ m + j - 1 = p + j
    BY <1>1, <1>2
  <2>2. QED
    BY <1>5, <2>1
<1>8. QED
  BY <1>1, <1>3, <1>6, <1>7

LEMMA PoppedAt ==
  ASSUME NEW X, NEW es \in Seq(X), NEW p \in 1 .. Len(es), NEW i \in p .. Len(es) - 1
  PROVE  (SubSeq(es, 1, p - 1) \o SubSeq(es, p + 1, Len(es)))[i] = es[i + 1]
<1>1. PICK n \in Nat : n = Len(es)
  OBVIOUS
<1>2. PICK a, b, k : a = SubSeq(es, 1, p - 1) /\ b = SubSeq(es, p + 1, n) /\ k = i - (p - 1)
  OBVIOUS
<1>3. p \in 1 .. n /\ i \in p .. n - 1 /\ p - 1 \in Int
  BY <1>1
<1>4. k \in 1 .. n - p /\ p + k = i + 1 /\ (p - 1) + k = i
  BY <1>2, <1>3
<1>5. a \in Seq(X)
  BY <1>1, <1>2, <1>3, SubSeqProperties
<1>6. Len(a) = p - 1
  <2>1. Len(SubSeq(es, 1, p - 1)) = IF 1 <= p - 1 THEN (p - 1) - 1 + 1 ELSE 0
    BY <1>1, <1>3, SubSeqProperties
  <2>2. QED
    BY <1>2, <1>3, <2>1
<1>7. b \in Seq(X) /\ Len(b) = n - p /\ \A j \in 1 .. n - p : b[j] = es[p + j]
  BY <1>1, <1>2, RestOf
<1>8. k \in 1 .. Len(b) /\ Len(a) + k = i
  BY <1>4, <1>6, <1>7
<1>9. (a \o b)[Len(a) + k] = b[k]
  BY <1>5, <1>7, <1>8, SecondPart
<1>10. b[k] = es[i + 1]
  BY <1>4, <1>7
<1>11. QED
  BY <1>1, <1>2, <1>8, <1>9, <1>10

LEMMA NamesAfterRemoval ==
  ASSUME NEW es \in Seq(Entries), NamesApart(es), NEW p \in DOMAIN es, NEW fs,
         fs = SubSeq(es, 1, p - 1) \o SubSeq(es, p + 1, Len(es))
  PROVE  NamesApart(fs)
<1> DEFINE Old(i) == IF i < p THEN i ELSE i + 1
           X == Entries
<1> HIDE DEF X
<1>1. es \in Seq(X) /\ p \in 1 .. Len(es) /\ Len(es) \in Nat /\ DOMAIN es = 1 .. Len(es)
  BY DEF X
<1>2. DOMAIN fs = 1 .. Len(es) - 1
  BY <1>1
<1>3. ASSUME NEW i \in DOMAIN fs PROVE Old(i) \in DOMAIN es /\ fs[i] = es[Old(i)]
  <2>1. i \in Nat /\ 1 <= i /\ i <= Len(es) - 1
    BY <1>1, <1>2
  <2>2. CASE i < p
    BY <1>1, <2>1, <2>2
  <2>3. CASE ~ (i < p)
    <3>1. i \in p .. Len(es) - 1 /\ i + 1 \in DOMAIN es
      BY <1>1, <2>1, <2>3
    <3>2. fs[i] = es[i + 1]
      BY <1>1, <3>1, PoppedAt
    <3>3. QED
      BY <2>3, <3>1, <3>2
  <2>4. QED
    BY <2>2, <2>3
<1>4. \A i, j \in DOMAIN fs : Old(i) = Old(j) => i = j
  BY <1>1, <1>2
<1> HIDE DEF Old
<1>5. ASSUME NEW i \in DOMAIN fs, NEW j \in DOMAIN fs, fs[i].name = fs[j].name PROVE i = j
  <2>1. Old(i) \in DOMAIN es /\ Old(j) \in DOMAIN es /\ es[Old(i)].name = es[Old(j)].name
    BY <1>3, <1>5
  <2>2. Old(i) = Old(j)
    BY <2>1 DEF NamesApart
  <2>3. QED
    BY <1>4, <2>2
<1>6. QED
  BY <1>5 DEF NamesApart

MergeInvariant == Merge(entries, phase, query, pending, fires)

\* What has been collected and what is pending, between any two steps
LEMMA MergeInvariantHolds == Spec => []MergeInvariant
<1>1. Init => MergeInvariant
  BY DEF Init, MergeInvariant, Merge, Merging, NamesApart
<1>2. EntriesTyped /\ EntriesTyped' /\ MergeInvariant /\ [Next]_vars => MergeInvariant'
  <2>1. SUFFICES ASSUME EntriesTyped, EntriesTyped', MergeInvariant, [Next]_vars
                 PROVE  MergeInvariant'
    OBVIOUS
  <2>2. /\ entries \in Seq(Entries) /\ entries' \in Seq(Entries) /\ NamesApart(entries)
        /\ Merge(entries, phase, query, pending, fires)
    BY <2>1 DEF EntriesTyped, MergeInvariant, Merge
  <2>3. ASSUME phase = "idle", phase' = "idle", fires' = fires, pending' = pending,
               NamesApart(entries')
        PROVE  MergeInvariant'
    BY <2>2, <2>3 DEF MergeInvariant, Merge, Merging
  <2>4. ASSUME NEW name \in Names, NEW trigger \in Triggers, NEW calendar \in Calendars,
               NEW deferring \in BOOLEAN, AddEntry(name, trigger, calendar, deferring)
        PROVE  MergeInvariant'
    <3> DEFINE entry == [name |-> name, trigger |-> trigger, calendar |-> calendar,
                         deferring |-> deferring, enabled |-> TRUE]
               X == Entries
    <3>1. /\ phase = "idle" /\ phase' = "idle" /\ fires' = fires /\ pending' = pending
          /\ entries' = Append(entries, entry) /\ name \notin NamesOf
      BY <2>4 DEF AddEntry
    <3>2. entry.name = name /\ entry \in X
      BY DEF Entries
    <3> HIDE DEF entry, X
    <3>3. /\ DOMAIN entries = 1 .. Len(entries) /\ Len(entries) \in Nat
          /\ DOMAIN entries' = 1 .. Len(entries) + 1
          /\ \A p \in DOMAIN entries : entries'[p] = entries[p]
          /\ entries'[Len(entries) + 1] = entry
      <4>1. entries \in Seq(X)
        BY <2>2 DEF X
      <4>2. QED
        BY <3>1, <3>2, <4>1, AppendFacts
    <3>4. \A p \in DOMAIN entries : entries[p].name # name
      BY <3>1 DEF NamesOf, Positions
    <3>5. \A p \in DOMAIN entries' : p \in DOMAIN entries \/ p = Len(entries) + 1
      BY <3>3
    <3>6. NamesApart(entries')
      BY <2>2, <3>2, <3>3, <3>4, <3>5 DEF NamesApart
    <3>7. QED
      BY <2>3, <3>1, <3>6
  <2>5. ASSUME NEW name \in Names, Remove(name) PROVE MergeInvariant'
    <3> DEFINE p == PositionOf(name)
    <3>1. /\ phase = "idle" /\ phase' = "idle" /\ fires' = fires /\ pending' = pending
          /\ entries' = SubSeq(entries, 1, p - 1) \o SubSeq(entries, p + 1, Len(entries))
      BY <2>5 DEF Remove
    <3>2. p \in DOMAIN entries
      BY <2>5 DEF Remove, NamesOf, Positions, PositionOf
    <3> HIDE DEF p
    <3>3. NamesApart(entries')
      BY <2>2, <3>1, <3>2, NamesAfterRemoval
    <3>4. QED
      BY <2>3, <3>1, <3>3
  <2>6. ASSUME NEW name \in Names, NEW enabled \in BOOLEAN, Enable(name, enabled)
        PROVE  MergeInvariant'
    <3>1. /\ phase = "idle" /\ phase' = "idle" /\ fires' = fires /\ pending' = pending
          /\ entries' = [p \in DOMAIN entries |->
                           IF entries[p].name = name
                             THEN [entries[p] EXCEPT !.enabled = enabled] ELSE entries[p]]
      BY <2>6 DEF Enable, Positions
    <3>2. \A entry \in Entries : [entry EXCEPT !.enabled = enabled].name = entry.name
      BY DEF Entries
    <3>3. \A p \in DOMAIN entries : entries[p] \in Entries
      BY <2>2
    <3>4. DOMAIN entries' = DOMAIN entries
            /\ \A p \in DOMAIN entries : entries'[p].name = entries[p].name
      BY <3>1, <3>2, <3>3
    <3>5. NamesApart(entries')
      BY <2>2, <3>4 DEF NamesApart
    <3>6. QED
      BY <2>3, <3>1, <3>5
  <2>7. ASSUME NEW q \in Queries, Ask(q) PROVE MergeInvariant'
    <3> DEFINE starts == [p \in DOMAIN entries |-> NextStart(entries[p], q.after)]
               raises == \E p \in DOMAIN entries : starts[p] = Broken
    <3>1. /\ phase = "idle" /\ query' = q /\ entries' = entries /\ fires' = fires
          /\ phase' = IF raises THEN "raised" ELSE "merging"
          /\ pending' = IF raises THEN <<>> ELSE Pending(starts, q.end)
      BY <2>7 DEF Ask, Starts, Positions
    <3>2. fires = <<>>
      BY <2>2, <3>1 DEF Merge
    <3>3. ASSUME entries \in Seq(ProperEntries)
          PROVE  /\ Collected(entries, q, <<>>) /\ FiresTyped(entries, q, <<>>)
                 /\ InOrder(entries, <<>>) /\ \A pe : PendingLater(entries, <<>>, pe)
                 /\ NextOf(entries, q, <<>>) = starts
      BY <3>3, NothingBegun
    <3> HIDE DEF starts
    <3>4. entries \in Seq(ProperEntries) /\ ~ raises
            => MergeGoesOn(entries, q, Pending(starts, q.end), <<>>)
      BY <3>3 DEF MergeGoesOn
    <3>5. entries \in Seq(ProperEntries) /\ raises => MergeStops(entries, q, <<>>)
      BY <3>3 DEF MergeStops
    <3>6. entries \in Seq(ProperEntries) => Merging(entries, phase', q, pending', fires)
      BY <3>1, <3>2, <3>3, <3>4, <3>5 DEF Merging
    <3>7. QED
      BY <2>2, <3>1, <3>6 DEF MergeInvariant, Merge
  <2>8. ASSUME TakeFire PROVE MergeInvariant'
    <3>1. PICK p : p = Earliest(pending)
      OBVIOUS
    <3>2. PICK following : following = NextStart(entries[p], pending[p])
      OBVIOUS
    <3>3. /\ phase = "merging" /\ DOMAIN pending # {}
          /\ fires' = Append(fires, FireOf(entries, p, pending[p]))
          /\ phase' = IF following = Broken THEN "raised" ELSE "merging"
          /\ pending' = IF following = Broken THEN <<>>
                        ELSE Pending([pending EXCEPT ![p] = following], query.end)
          /\ entries' = entries /\ query' = query
      BY <2>8, <3>1, <3>2 DEF TakeFire, Fire, FireOf
    <3>4. PICK gs : gs = Append(fires, FireOf(entries, p, pending[p]))
      OBVIOUS
    <3>5. ASSUME entries \in Seq(ProperEntries)
          PROVE  Merging(entries, phase', query, pending', gs)
      <4>1. /\ query \in Queries /\ Collected(entries, query, fires)
            /\ FiresTyped(entries, query, fires) /\ InOrder(entries, fires)
            /\ MergeGoesOn(entries, query, pending, fires)
        BY <2>2, <3>3, <3>5 DEF Merge, Merging
      <4>2. /\ Collected(entries, query, gs) /\ FiresTyped(entries, query, gs)
            /\ InOrder(entries, gs)
            /\ following # Broken =>
                 MergeGoesOn(entries, query,
                             Pending([pending EXCEPT ![p] = following], query.end), gs)
            /\ following = Broken => MergeStops(entries, query, gs)
        BY <2>2, <3>1, <3>2, <3>3, <3>4, <3>5, <4>1, TakeFacts
      <4>3. QED
        BY <3>3, <4>1, <4>2 DEF Merging
    <3>6. fires' = gs
      BY <3>3, <3>4
    <3>7. QED
      BY <2>2, <3>3, <3>5, <3>6 DEF MergeInvariant, Merge
  <2>9. ASSUME Answer PROVE MergeInvariant'
    BY <2>2, <2>9 DEF Answer, MergeInvariant, Merge, Merging
  <2>10. ASSUME Return PROVE MergeInvariant'
    BY <2>2, <2>10 DEF Return, MergeInvariant, Merge, Merging
  <2>11. CASE UNCHANGED vars
    BY <2>2, <2>11 DEF vars, MergeInvariant, Merge
  <2>12. QED
    BY <2>1, <2>4, <2>5, <2>6, <2>7, <2>8, <2>9, <2>10, <2>11 DEF Next
<1>3. QED
  BY <1>1, <1>2, EntriesTypedInvariant, PTL DEF Spec

\* A start that is missing comes after the last that has been collected, and the search
\* from there misses it too if it finds none
LEMMA MissedStarts ==
  ASSUME entries \in Seq(ProperEntries), query \in Queries, Collected(entries, query, fires),
         NEW p \in Positions, NEW t \in Missed(p)
  PROVE  /\ t \in Moments /\ t \in Nat
         /\ LET next == NextStart(entries[p], LastStart(p))
            IN  /\ next \in Nat \cup {NoMoment, Broken} /\ (next \in Nat => next <= t)
                /\ next \notin Nat => OutOfReach(entries[p], LastStart(p), t)
<1> DEFINE last == LastStart(p)
           next == NextStart(entries[p], last)
<1>1. p \in DOMAIN entries /\ entries[p] \in ProperEntries
  BY EntryOf DEF Positions
<1>2. query.after \in Nat
  BY QueryFacts
<1>3. last = LastOf(entries, query, fires, p)
  BY DEF LastStart, LastOf, Begun
<1>4. /\ last \in Nat /\ query.after <= last
      /\ last = query.after \/ IsOpen(entries[p].calendar, last)
      /\ \A s \in Nat : FireOf(entries, p, s) \in Range(fires)
                          <=> IsStart(entries[p], query.after, s) /\ s <= last
  BY <1>1, <1>3 DEF Collected
<1>5. /\ t \in AllStarts(entries[p], WantedAfter(entries[p], query.after))
      /\ FireOf(entries, p, t) \notin Range(fires)
  BY DEF Missed, Fire, FireOf
<1>6. t \in Moments /\ t \in Nat
  <2>1. t \in Moments
    BY <1>1, <1>2, <1>5, StartsListed
  <2>2. QED
    BY <2>1, HorizonAssumption DEF Moments
<1>7. IsStart(entries[p], query.after, t)
  BY <1>1, <1>2, <1>5, <1>6, StartsListed
<1>8. last < t
  BY <1>4, <1>5, <1>6, <1>7
<1>9. IsStart(entries[p], last, t)
  BY <1>1, <1>2, <1>4, <1>6, <1>7, <1>8, StartsLater
<1> HIDE DEF last
<1>10. /\ next \in Nat \cup {NoMoment, Broken}
       /\ next \in Nat => next <= t
       /\ next \notin Nat => Unreached(entries[p], last, t)
  BY <1>1, <1>4, <1>6, <1>9, NextStartFacts
<1>11. next \notin Nat => OutOfReach(entries[p], last, t)
  BY <1>1, <1>4, <1>6, <1>10, UnreachedIsOutOfReach
<1>12. QED
  BY <1>6, <1>10, <1>11 DEF last

LEMMA PositionFacts ==
  ASSUME NamesApart(entries), NEW p \in DOMAIN entries
  PROVE  PositionOf(entries[p].name) = p
BY DEF NamesApart, PositionOf, Positions

LEMMA FiredBy ==
  ASSUME FiresTyped(entries, query, fires), NEW f \in Range(fires)
  PROVE  /\ \E p \in DOMAIN entries : f = FireOf(entries, p, f.at)
         /\ f.at \in Nat /\ (query.end = NoMoment \/ f.at <= query.end)
<1>1. PICK i \in DOMAIN fires : f = fires[i]
  BY DEF Range
<1>2. PICK p \in DOMAIN entries : f.name = entries[p].name
  BY <1>1 DEF FiresTyped
<1>3. f \in [at : Nat, name : Names]
  <2> DEFINE X == [at : Nat, name : Names]
  <2>1. fires \in Seq(X)
    BY DEF FiresTyped
  <2> HIDE DEF X
  <2>2. f \in X
    BY <1>1, <2>1
  <2>3. QED
    BY <2>2 DEF X
<1>4. f = FireOf(entries, p, f.at)
  BY <1>2, <1>3 DEF FireOf
<1>5. f.at \in Nat
  BY <1>3
<1>6. QED
  BY <1>1, <1>4, <1>5 DEF FiresTyped

LEMMA AnswersComplete == MergeInvariant => AnswersAreComplete
<1> DEFINE Complete ==
             /\ phase = "answered" =>
                  /\ \A i, j \in DOMAIN fires : i < j => Sooner(fires[i], fires[j])
                  /\ \A f \in Range(fires) : f.at \in Moments => f \in Due(query)
                  /\ \A p \in Positions : \A t \in Missed(p) :
                       query.end = NoMoment \/ t <= query.end =>
                         \/ /\ Len(fires) = query.count
                            /\ \A i \in DOMAIN fires : Sooner(fires[i], Fire(p, t))
                         \/ OutOfReach(entries[p], LastStart(p), t)
                  /\ fires # <<>> => fires[1] = NextFire(query.after)
             /\ phase = "raised" =>
                  \E p \in Positions :
                    /\ fires # <<>> => fires[Len(fires)].name = entries[p].name
                    /\ entries[p].enabled
                    /\ TriggerAfter(entries[p].trigger, LastStart(p)) # NoMoment
                    /\ \A t \in Missed(p) : OutOfReach(entries[p], LastStart(p), t)
<1> SUFFICES ASSUME MergeInvariant, EveryWindowOpens PROVE Complete
  BY DEF AnswersAreComplete
<1>0. entries \in Seq(ProperEntries)
  BY DEF MergeInvariant, Merge, EveryWindowOpens, Positions, ProperEntries
<1>1. /\ entries \in Seq(ProperEntries) /\ NamesApart(entries) /\ Positions = DOMAIN entries
      /\ phase \in {"answered", "raised"} =>
           /\ query \in Queries /\ Collected(entries, query, fires)
           /\ FiresTyped(entries, query, fires) /\ InOrder(entries, fires)
      /\ phase = "answered" =>
           /\ MergeGoesOn(entries, query, pending, fires)
           /\ DOMAIN pending = {} \/ Len(fires) = query.count
      /\ phase = "raised" => MergeStops(entries, query, fires)
  BY <1>0 DEF MergeInvariant, Merge, Merging, Positions
<1>2. \A p \in Positions : LastStart(p) = LastOf(entries, query, fires, p)
  BY DEF LastStart, LastOf, Begun
<1>3. \A p \in Positions : NextOf(entries, query, fires)[p] = NextStart(entries[p], LastStart(p))
  BY <1>1, <1>2 DEF NextOf
<1>4. NoMoment \notin Nat /\ Broken \notin Nat /\ NoMoment # Broken
  BY AnswerAssumption
<1>5. ASSUME phase = "answered"
      PROVE  /\ \A i, j \in DOMAIN fires : i < j => Sooner(fires[i], fires[j])
             /\ \A f \in Range(fires) : f.at \in Moments => f \in Due(query)
             /\ \A p \in Positions : \A t \in Missed(p) :
                  query.end = NoMoment \/ t <= query.end =>
                    \/ /\ Len(fires) = query.count
                       /\ \A i \in DOMAIN fires : Sooner(fires[i], Fire(p, t))
                    \/ OutOfReach(entries[p], LastStart(p), t)
             /\ fires # <<>> => fires[1] = NextFire(query.after)
  <2>1. /\ query \in Queries /\ Collected(entries, query, fires)
        /\ FiresTyped(entries, query, fires) /\ InOrder(entries, fires)
        /\ MergeGoesOn(entries, query, pending, fires)
        /\ DOMAIN pending = {} \/ Len(fires) = query.count
    BY <1>1, <1>5
  <2>2. query.after \in Nat /\ query.end \in Nat \cup {NoMoment}
    BY <2>1, QueryFacts
  <2>3. ASSUME NEW i \in DOMAIN fires
        PROVE  /\ \E p \in DOMAIN entries : fires[i].name = entries[p].name
               /\ fires[i].at \in Nat
    <3>1. fires[i] \in Range(fires)
      BY DEF Range
    <3>2. QED
      BY <2>1, <3>1, FiredBy DEF FireOf
  <2>4. ASSUME NEW i \in DOMAIN fires, NEW j \in DOMAIN fires, i < j
        PROVE  Sooner(fires[i], fires[j])
    <3>1. PICK p \in DOMAIN entries : fires[i].name = entries[p].name
      BY <2>3
    <3>2. PICK r \in DOMAIN entries : fires[j].name = entries[r].name
      BY <2>3
    <3>3. Earlier(fires[i].at, p, fires[j].at, r)
      BY <2>1, <2>4, <3>1, <3>2 DEF InOrder
    <3>4. PositionOf(fires[i].name) = p /\ PositionOf(fires[j].name) = r
      BY <1>1, <3>1, <3>2, PositionFacts
    <3>5. QED
      BY <3>3, <3>4 DEF Sooner, Earlier
  <2>5. ASSUME NEW f \in Range(fires), f.at \in Moments PROVE f \in Due(query)
    <3>1. /\ \E p \in DOMAIN entries : f = FireOf(entries, p, f.at)
          /\ f.at \in Nat /\ (query.end = NoMoment \/ f.at <= query.end)
      BY <2>1, FiredBy
    <3>2. PICK p \in DOMAIN entries : f = FireOf(entries, p, f.at)
      BY <3>1
    <3>3. PICK t : t = f.at
      OBVIOUS
    <3>4. IsStart(entries[p], query.after, t)
      BY <2>1, <3>1, <3>2, <3>3 DEF Collected
    <3>5. entries[p] \in ProperEntries
      BY <1>1, EntryOf
    <3>6. t \in AllStarts(entries[p], WantedAfter(entries[p], query.after))
      BY <2>2, <2>5, <3>3, <3>4, <3>5, StartsListed
    <3>7. f = Fire(p, t)
      BY <3>2, <3>3 DEF Fire, FireOf
    <3>8. QED
      BY <1>1, <3>1, <3>3, <3>6, <3>7 DEF Due
  <2>6. ASSUME NEW p \in Positions, NEW t \in Missed(p),
               query.end = NoMoment \/ t <= query.end,
               ~ OutOfReach(entries[p], LastStart(p), t)
        PROVE  /\ Len(fires) = query.count
               /\ \A i \in DOMAIN fires : Sooner(fires[i], Fire(p, t))
    <3> DEFINE next == NextStart(entries[p], LastStart(p))
    <3>1. t \in Nat /\ next \in Nat /\ next <= t
      BY <1>1, <2>1, <2>6, MissedStarts
    <3>2. NextOf(entries, query, fires)[p] = next
      BY <1>3
    <3> HIDE DEF next
    <3>3. query.end = NoMoment \/ next <= query.end
      BY <2>2, <2>6, <3>1
    <3>4. p \in DOMAIN pending /\ pending[p] = next
      <4> DEFINE moments == NextOf(entries, query, fires)
      <4>1. pending = Pending(moments, query.end) /\ DOMAIN moments = Positions
        BY <1>1, <2>1 DEF MergeGoesOn, NextOf
      <4>2. moments[p] # NoMoment /\ (query.end = NoMoment \/ moments[p] <= query.end)
        BY <1>4, <3>1, <3>2, <3>3
      <4> HIDE DEF moments
      <4>3. /\ DOMAIN Pending(moments, query.end)
                 = {k \in DOMAIN moments : moments[k] # NoMoment
                                  /\ (query.end = NoMoment \/ moments[k] <= query.end)}
            /\ \A k \in DOMAIN Pending(moments, query.end) :
                 Pending(moments, query.end)[k] = moments[k]
        BY PendingFacts
      <4>4. QED
        BY <3>2, <4>1, <4>2, <4>3 DEF moments
    <3>5. Len(fires) = query.count
      BY <2>1, <3>4
    <3>6. ASSUME NEW i \in DOMAIN fires PROVE Sooner(fires[i], Fire(p, t))
      <4>1. PICK r \in DOMAIN entries : fires[i].name = entries[r].name
        BY <2>3
      <4>2. Earlier(fires[i].at, r, next, p)
        BY <2>1, <3>4, <4>1 DEF MergeGoesOn, PendingLater
      <4>3. PositionOf(fires[i].name) = r /\ PositionOf(entries[p].name) = p
        BY <1>1, <4>1, PositionFacts
      <4>4. Fire(p, t).at = t /\ Fire(p, t).name = entries[p].name
        BY DEF Fire
      <4>5. fires[i].at \in Nat
        BY <2>3
      <4>6. QED
        BY <3>1, <4>2, <4>3, <4>4, <4>5 DEF Sooner, Earlier
    <3>7. QED
      BY <3>5, <3>6
  <2>7. fires # <<>> => fires[1] = NextFire(query.after)
    <3>1. NextFire(query.after) = FirstOf(entries, query.after)
      BY DEF NextFire, FirstOf, Starts, Positions, Fire, FireOf
    <3>2. QED
      BY <2>1, <3>1 DEF MergeGoesOn
  <2>8. QED
    BY <2>4, <2>5, <2>6, <2>7
<1>6. ASSUME phase = "raised"
      PROVE  \E p \in Positions :
               /\ fires # <<>> => fires[Len(fires)].name = entries[p].name
               /\ entries[p].enabled /\ TriggerAfter(entries[p].trigger, LastStart(p)) # NoMoment
               /\ \A t \in Missed(p) : OutOfReach(entries[p], LastStart(p), t)
  <2>1. query \in Queries /\ Collected(entries, query, fires) /\ MergeStops(entries, query, fires)
    BY <1>1, <1>6
  <2>2. PICK p \in Positions :
          /\ NextOf(entries, query, fires)[p] = Broken
          /\ fires # <<>> => fires[Len(fires)].name = entries[p].name
    BY <1>1, <2>1 DEF MergeStops
  <2> DEFINE last == LastStart(p)
  <2>3. NextStart(entries[p], last) = Broken
    BY <1>3, <2>2
  <2>4. last \in Nat /\ entries[p] \in ProperEntries
    BY <1>1, <1>2, <2>1, EntryOf DEF Collected
  <2>5. entries[p].enabled /\ TriggerAfter(entries[p].trigger, last) # NoMoment
    <3> HIDE DEF last
    <3> QED BY <2>3, <2>4, NextStartFacts
  <2>6. \A t \in Missed(p) : OutOfReach(entries[p], last, t)
    BY <1>1, <1>4, <2>1, <2>3, MissedStarts
  <2>7. QED
    BY <2>2, <2>5, <2>6
<1>7. QED
  BY <1>5, <1>6

\* upcoming, between and next_fire list every start that is due and in reach of the
\* searches, in order and once, and raise only for an entry that has no more of them:
\* for timetables of any size, changed in any order, and whatever the triggers, the
\* calendars and the queries are.  (timetable.py: upcoming, between, next_fire)
THEOREM AnswersCorrect == Spec => []AnswersAreComplete
BY MergeInvariantHolds, AnswersComplete, PTL

====
