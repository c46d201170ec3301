--------------------------- MODULE FileStoreProofs ---------------------------
(***************************************************************************)
(* Theorems about FileStore.tla, for any number of processes that all run  *)
(* workflows, read, rewrite and delete, and any number of ids, runs,       *)
(* events and crashes.  The invariant has two halves: what holds of every  *)
(* id, whoever uses it, and what holds of the ids no two processes have    *)
(* used at the same time.  A step on an id leaves the others alone, so     *)
(* that what goes wrong with one stays with it.                            *)
(***************************************************************************)
EXTENDS FileStore, TLAPS

-------------------------------------------------------------------------------
(* The inductive invariant.                                                  *)

\* No later run has the id of run r
LatestOf(i, r) ==
  /\ r \in DOMAIN runs /\ runs[r].id = i
  /\ \A q \in DOMAIN runs : runs[q].id = i => q <= r

\* The first m lines of run r, and half of the next
TornAfter(r, m) == Append(Recorded(r, m), Torn)

\* The file of i says the first m events of run r, and may end in half of the next
Holds(i, r, m) ==
  \/ disk[i] = Recorded(r, m)
  \/ m < runs[r].events /\ disk[i] = TornAfter(r, m)

\* Process p has all of run r in memory and nothing of it on disk that counts
Owns(p, i, r) ==
  /\ LatestOf(i, r) /\ runs[r].outcome # "kept"
  /\ i \in DOMAIN cache[p] /\ cache[p][i] = Recorded(r, runs[r].events)
  /\ flushed[p][i] = 0

\* Nothing of run r of id i has been seen outside the memory of p
Unseen(p, i, r) ==
  /\ i \in DOMAIN disk => disk[i] = <<>>
  /\ \A q \in Processes \ {p} : i \in DOMAIN cache[q] =>
       \A n \in 1 .. runs[r].events : cache[q][i] # Recorded(r, n)

Doing(p, op, i) == call[p].op = op /\ call[p].id = i
Holding(p, i) == Pending(p, i) \/ Doing(p, "run", i)

Op == {"idle", "create", "truncate", "run", "flush", "write", "replace"}
CallRecord == [op : Op, id : Nat, run : Nat, at : Nat]
Outcome == {"running", "flushing", "kept", "raised", "died", "deleted"}
RunRecord == [id : Ids, events : Nat, outcome : Outcome]
Lines == Seq(Nat \X Nat)

Typed ==
  /\ DOMAIN disk \subseteq Ids
  /\ cache = [p \in Processes |-> cache[p]]
  /\ flushed = [p \in Processes |-> flushed[p]]
  /\ counter \in [Processes -> 0 .. MaxIds]
  /\ runs \in Seq(RunRecord)
  /\ Len(runs) <= MaxRuns
  /\ call \in [Processes -> CallRecord]
  /\ clashes \subseteq Ids
  /\ \A p \in Processes : /\ DOMAIN cache[p] \subseteq Ids
                          /\ DOMAIN flushed[p] = DOMAIN cache[p]

Contents(i) ==
  /\ i \in DOMAIN disk => disk[i] \in Lines
  /\ i \in DOMAIN temporary => temporary[i] \in Lines
  /\ \A p \in Processes : i \in DOMAIN cache[p] => cache[p][i] \in Lines /\ flushed[p][i] \in Nat

CallTyped(p) ==
  LET c == call[p] IN
  /\ c.op = "idle" => c = Idle
  /\ c.op # "idle" => c.id \in Ids
  /\ c.op \notin {"idle", "create"} => c.id \in DOMAIN cache[p]
  /\ c.op \in {"create", "truncate", "write", "replace"} => c.run = 0
  /\ c.op = "run" => c.run # 0
  /\ c.run # 0 => c.run \in DOMAIN runs /\ runs[c.run].id = c.id
  /\ c.op = "replace" => c.id \in DOMAIN temporary

Rewriting(p, i) == call[p].op \in {"write", "replace"} /\ call[p].id = i

\* What holds of all ids, whoever uses them
Base ==
  /\ Typed
  /\ \A i \in Ids : Contents(i)
  /\ \A p \in Processes : CallTyped(p)
  /\ \A p, q \in Processes, i \in Ids : Rewriting(p, i) /\ Rewriting(q, i) => p = q

\* The file of i
FileFits(i) ==
  i \in DOMAIN disk => \E r \in DOMAIN runs :
    LatestOf(i, r) /\ \E m \in 0 .. runs[r].events : Holds(i, r, m)

\* The copies of it
CopiesFit(i) ==
  \A p \in Processes : i \in DOMAIN cache[p] =>
    /\ \/ cache[p][i] = <<>>
       \/ \E r \in DOMAIN runs : /\ runs[r].id = i
                                 /\ \E n \in 1 .. runs[r].events : cache[p][i] = Recorded(r, n)
    /\ flushed[p][i] \in 0 .. Len(cache[p][i])

\* A log that is not all on disk
PendingFits(i) ==
  \A p \in Processes :
    Pending(p, i) => \E r \in DOMAIN runs :
      Owns(p, i, r) /\ (Doing(p, "flush", i) \/ Unseen(p, i, r))

KeptFits(i) ==
  \A r \in DOMAIN runs :
    runs[r].id = i /\ runs[r].outcome = "kept" =>
      LatestOf(i, r) /\ i \in DOMAIN disk /\ disk[i] = Recorded(r, runs[r].events)

\* A copy of the latest run never says more than the file, but for the process
\* that recorded it
Covered(i) ==
  \A q \in Processes, r \in DOMAIN runs :
    LatestOf(i, r) /\ i \in DOMAIN disk /\ i \in DOMAIN cache[q] /\ ~ Holding(q, i) =>
      \A n \in 1 .. runs[r].events : cache[q][i] = Recorded(r, n) =>
        \E m \in n .. runs[r].events : Holds(i, r, m)

IdFits(i) ==
  FileFits(i) /\ CopiesFit(i) /\ PendingFits(i) /\ KeptFits(i) /\ Covered(i)

\* What a process that is busy can rely on
CallFits(p) ==
  LET c == call[p] IN
  /\ c.op \in {"create", "truncate"} => c.id \notin DOMAIN disk
  /\ c.op = "truncate" => Log(p) = <<>>
  /\ c.op = "run" => /\ runs[c.run].outcome = "running"
                     /\ c.id \in DOMAIN disk
                     /\ Owns(p, c.id, c.run) /\ Unseen(p, c.id, c.run)
  /\ c.op = "flush" => /\ c.id \in DOMAIN disk
                       /\ Pending(p, c.id)
                       /\ c.at \in 0 .. Len(Log(p))
                       /\ \E r \in DOMAIN runs : /\ Owns(p, c.id, r)
                                                 /\ c.run \in {0, r}
                                                 /\ disk[c.id] = Recorded(r, c.at)
  /\ c.op \in {"write", "replace"} =>
       /\ c.id \in DOMAIN disk
       /\ \E r \in DOMAIN runs : LatestOf(c.id, r) /\ Log(p) = Recorded(r, runs[r].events)
  /\ c.op = "replace" => temporary[c.id] = Log(p)

\* Damage to an id that two processes use stays with that id
IInv ==
  /\ Base
  /\ \A i \in Ids \ clashes : ~ Clash(i) /\ IdFits(i)
  /\ \A p \in Processes : call[p].id \notin clashes => CallFits(p)

-------------------------------------------------------------------------------
(* Dictionaries and the lines of a run.                                      *)

LEMMA RecordedFacts ==
  ASSUME NEW r \in Nat, NEW n \in Nat
  PROVE  /\ Recorded(r, n) \in Seq(Nat \X Nat)
         /\ Len(Recorded(r, n)) = n
         /\ \A k \in 1 .. n : Recorded(r, n)[k] = Line(r, k - 1)
         /\ n = 0 => Recorded(r, n) = <<>>
         /\ Recorded(r, n) = <<>> => n = 0
         /\ Append(Recorded(r, n), Line(r, n)) = Recorded(r, n + 1)
<1>1. \A k \in 1 .. n : Line(r, k - 1) \in Nat \X Nat
  BY DEF Line
<1>2. Recorded(r, n) \in Seq(Nat \X Nat) /\ Len(Recorded(r, n)) = n
  BY <1>1 DEF Recorded
<1>3. \A k \in 1 .. n : Recorded(r, n)[k] = Line(r, k - 1)
  BY DEF Recorded
<1>4. Append(Recorded(r, n), Line(r, n)) = Recorded(r, n + 1)
  BY <1>1 DEF Recorded
<1>5. QED
  BY <1>2, <1>3, <1>4 DEF Recorded

LEMMA RecordedDiffers ==
  ASSUME NEW r \in Nat, NEW s \in Nat, NEW m \in Nat, NEW n \in Nat,
         Recorded(r, m) = Recorded(s, n)
  PROVE  m = n /\ (m # 0 => r = s)
<1>1. m = n
  BY RecordedFacts
<1>2. ASSUME m # 0 PROVE r = s
  <2>1. 1 \in 1 .. m /\ 1 \in 1 .. n /\ 1 - 1 = 0
    BY <1>1, <1>2
  <2>2. Recorded(r, m)[1] = Line(r, 0) /\ Recorded(s, n)[1] = Line(s, 0)
    BY <2>1 DEF Recorded
  <2>3. QED
    BY <2>2 DEF Line
<1>3. QED
  BY <1>1, <1>2

LEMMA TornFacts ==
  ASSUME NEW r \in Nat \ {0}, NEW m \in Nat
  PROVE  /\ TornAfter(r, m) # <<>> /\ TornAfter(r, m) \in Seq(Nat \X Nat)
         /\ Len(TornAfter(r, m)) = m + 1
         /\ TornAfter(r, m)[m + 1] = Torn
         /\ Last(TornAfter(r, m)) = Torn
         /\ Front(TornAfter(r, m)) = Recorded(r, m)
         /\ \A s \in Nat \ {0}, n \in Nat :
              /\ TornAfter(r, m) # Recorded(s, n)
              /\ Recorded(s, n) = <<>> \/ Last(Recorded(s, n)) # Torn
<1>1. Torn \in Nat \X Nat
  BY DEF Torn
<1>2. Recorded(r, m) \in Seq(Nat \X Nat) /\ Len(Recorded(r, m)) = m
  BY RecordedFacts
<1> DEFINE t == Append(Recorded(r, m), Torn)
<1>3. t \in Seq(Nat \X Nat) /\ Len(t) = m + 1 /\ t[m + 1] = Torn /\ t # <<>>
  <2>1. ASSUME NEW u \in Seq(Nat \X Nat), Len(u) = m
        PROVE  LET v == Append(u, Torn)
               IN  v \in Seq(Nat \X Nat) /\ Len(v) = m + 1 /\ v[m + 1] = Torn /\ v # <<>>
    <3> DEFINE v == Append(u, Torn)
    <3>1. v \in Seq(Nat \X Nat)
      BY <1>1, <2>1
    <3>2. Len(v) = m + 1
      BY <1>1, <2>1
    <3>3. v[m + 1] = Torn
      BY <1>1, <2>1
    <3>4. v # <<>>
      <4> HIDE DEF v
      <4> QED BY <3>2
    <3>5. QED
      BY <3>1, <3>2, <3>3, <3>4
  <2>2. QED
    BY <1>2, <2>1
<1>4. Last(t) = Torn
  BY <1>3 DEF Last
<1>5. Front(t) = Recorded(r, m)
  BY <1>1, <1>2, <1>3 DEF Front
<1>6. ASSUME NEW s \in Nat \ {0}, NEW n \in Nat, Recorded(s, n) # <<>>
      PROVE  Last(Recorded(s, n)) # Torn
  <2>1. n # 0 /\ Len(Recorded(s, n)) = n /\ Recorded(s, n)[n] = Line(s, n - 1)
    BY <1>6, RecordedFacts
  <2>2. QED
    BY <2>1 DEF Last, Line, Torn
<1>7. QED
  BY <1>3, <1>4, <1>5, <1>6 DEF TornAfter

LEMMA TornDiffers ==
  ASSUME NEW r \in Nat \ {0}, NEW m \in Nat, NEW s \in Nat \ {0}, NEW n \in Nat
  PROVE  /\ TornAfter(r, m) # Recorded(s, n)
         /\ TornAfter(r, m) = TornAfter(s, n) =>
              Recorded(r, m) = Recorded(s, n)
<1>1. /\ Last(TornAfter(r, m)) = Torn /\ Front(TornAfter(r, m)) = Recorded(r, m)
      /\ Front(TornAfter(s, n)) = Recorded(s, n) /\ TornAfter(r, m) # <<>>
  BY TornFacts
<1>2. Recorded(s, n) = <<>> \/ Last(Recorded(s, n)) # Torn
  BY TornFacts
<1>3. QED
  BY <1>1, <1>2

-------------------------------------------------------------------------------
(* Every step keeps the invariant.                                           *)

LEMMA RunFacts ==
  ASSUME Typed, NEW r \in DOMAIN runs
  PROVE  /\ r \in Nat \ {0} /\ runs[r] \in RunRecord
         /\ runs[r].id \in Ids /\ runs[r].events \in Nat /\ runs[r].outcome \in Outcome
<1>1. runs[r] \in RunRecord /\ r \in Nat \ {0}
  BY DEF Typed
<1>2. QED
  BY <1>1 DEF RunRecord

LEMMA LatestUnique ==
  ASSUME Typed, NEW i, NEW r, NEW s, LatestOf(i, r), LatestOf(i, s)
  PROVE  r = s
BY RunFacts DEF LatestOf

LEMMA LatestIsMax ==
  ASSUME Typed, NEW i, NEW r, LatestOf(i, r)
  PROVE  Max({q \in DOMAIN runs : runs[q].id = i}) = r
<1> DEFINE S == {q \in DOMAIN runs : runs[q].id = i}
<1>1. S \subseteq Nat /\ r \in S /\ \A q \in S : r >= q
  BY DEF Typed, LatestOf
<1>2. \A x \in S : (\A y \in S : x >= y) => x = r
  BY <1>1
<1>3. (CHOOSE x \in S : \A y \in S : x >= y) = r
  <2> HIDE DEF S
  <2> QED BY <1>1, <1>2
<1>4. QED
  BY <1>3 DEF Max

\* What a step on another id leaves alone
RunsUntouched(j) ==
  /\ DOMAIN runs \subseteq DOMAIN runs'
  /\ \A r \in DOMAIN runs : /\ runs'[r].id = runs[r].id
                            /\ runs[r].id = j => runs'[r] = runs[r]
  /\ \A r \in DOMAIN runs' \ DOMAIN runs : runs'[r].id # j

DataUntouched(j) ==
  /\ j \in DOMAIN disk' <=> j \in DOMAIN disk
  /\ j \in DOMAIN disk => disk'[j] = disk[j]
  /\ \A q \in Processes :
       /\ j \in DOMAIN cache'[q] <=> j \in DOMAIN cache[q]
       /\ j \in DOMAIN cache[q] => /\ cache'[q][j] = cache[q][j]
                                   /\ flushed'[q][j] = flushed[q][j]
  /\ RunsUntouched(j)

Untouched(j) ==
  /\ DataUntouched(j)
  /\ j \in DOMAIN temporary' <=> j \in DOMAIN temporary
  /\ j \in DOMAIN temporary => temporary'[j] = temporary[j]
  /\ \A q \in Processes : call[q].id = j \/ call'[q].id = j => call'[q] = call[q]

\* Nobody starts or ends a run or a flush of j
SameWriters(j) ==
  \A q \in Processes : \A op \in {"run", "flush"} : Doing(q, op, j)' <=> Doing(q, op, j)

LEMMA UntouchedLatest ==
  ASSUME NEW j, RunsUntouched(j), NEW r
  PROVE  LatestOf(j, r)' <=> LatestOf(j, r)
BY DEF RunsUntouched, LatestOf

LEMMA UntouchedOwns ==
  ASSUME NEW j, DataUntouched(j), NEW r \in DOMAIN runs, NEW p \in Processes
  PROVE  /\ Owns(p, j, r) => Owns(p, j, r)'
         /\ runs[r].id = j /\ Unseen(p, j, r) => Unseen(p, j, r)'
         /\ Pending(p, j)' <=> Pending(p, j)
<1>1. Owns(p, j, r) => Owns(p, j, r)'
  BY UntouchedLatest DEF DataUntouched, RunsUntouched, Owns, LatestOf
<1>2. runs[r].id = j /\ Unseen(p, j, r) => Unseen(p, j, r)'
  BY DEF DataUntouched, RunsUntouched, Unseen
<1>3. Pending(p, j)' <=> Pending(p, j)
  BY DEF DataUntouched, Pending
<1>4. QED
  BY <1>1, <1>2, <1>3

LEMMA UntouchedHolds ==
  ASSUME NEW j \in DOMAIN disk, DataUntouched(j), NEW r \in DOMAIN runs, runs[r].id = j, NEW m
  PROVE  Holds(j, r, m)' <=> Holds(j, r, m)
BY DEF DataUntouched, RunsUntouched, Holds

LEMMA UntouchedIdFits ==
  ASSUME IInv, NEW j \in Ids \ clashes, DataUntouched(j), SameWriters(j)
  PROVE  IdFits(j)'
<1>1. IdFits(j) /\ Typed
  BY DEF IInv, Base
<1>2. \A r \in DOMAIN runs : runs[r].id = j => r \in DOMAIN runs' /\ runs'[r] = runs[r]
  BY DEF DataUntouched, RunsUntouched
<1>3. FileFits(j)'
  <2>1. SUFFICES ASSUME j \in DOMAIN disk'
                 PROVE  \E r \in DOMAIN runs' :
                   LatestOf(j, r)' /\ \E m \in 0 .. runs'[r].events : Holds(j, r, m)'
    BY DEF FileFits
  <2>2. j \in DOMAIN disk
    BY <2>1 DEF DataUntouched
  <2>3. PICK r \in DOMAIN runs : LatestOf(j, r) /\ \E m \in 0 .. runs[r].events : Holds(j, r, m)
    BY <1>1, <2>2 DEF IdFits, FileFits
  <2>4. runs[r].id = j /\ RunsUntouched(j)
    BY <2>3 DEF LatestOf, DataUntouched
  <2>5. LatestOf(j, r)' /\ r \in DOMAIN runs' /\ runs'[r] = runs[r]
    BY <1>2, <2>3, <2>4, UntouchedLatest
  <2>6. \A m : Holds(j, r, m)' <=> Holds(j, r, m)
    BY <2>2, <2>4, UntouchedHolds
  <2>7. QED
    BY <2>3, <2>5, <2>6
<1>4. CopiesFit(j)'
  BY <1>1, <1>2 DEF IdFits, CopiesFit, DataUntouched
<1>5. PendingFits(j)'
  <2>1. SUFFICES ASSUME NEW p \in Processes, Pending(p, j)'
                 PROVE  \E r \in DOMAIN runs' :
                   Owns(p, j, r)' /\ (Doing(p, "flush", j)' \/ Unseen(p, j, r)')
    BY DEF PendingFits
  <2>3. Pending(p, j)
    BY <2>1 DEF Pending, DataUntouched
  <2>4. PICK r \in DOMAIN runs : Owns(p, j, r) /\ (Doing(p, "flush", j) \/ Unseen(p, j, r))
    BY <1>1, <2>3 DEF IdFits, PendingFits
  <2>5. runs[r].id = j
    BY <2>4 DEF Owns, LatestOf
  <2>6. QED
    BY <1>2, <2>4, <2>5, UntouchedOwns DEF SameWriters, RunsUntouched
<1>6. KeptFits(j)'
  BY <1>1, <1>2, UntouchedLatest DEF IdFits, KeptFits, DataUntouched, RunsUntouched
<1>7. Covered(j)'
  BY <1>1, <1>2, UntouchedLatest, UntouchedOwns, UntouchedHolds
  DEF IdFits, Covered, DataUntouched, SameWriters, Holding, LatestOf
<1>8. QED
  BY <1>3, <1>4, <1>5, <1>6, <1>7 DEF IdFits

LEMMA UntouchedCallFits ==
  ASSUME IInv, NEW q \in Processes, call[q].id \notin clashes, Untouched(call[q].id)
  PROVE  CallFits(q)'
<1> DEFINE j == call[q].id
<1>1. CallFits(q) /\ CallTyped(q)
  BY DEF IInv, Base
<1>2. call'[q] = call[q]
  BY DEF Untouched
<1>3. \A r \in DOMAIN runs : runs[r].id = j => r \in DOMAIN runs' /\ runs'[r] = runs[r]
  BY DEF Untouched, DataUntouched, RunsUntouched
<1>4. call[q].op = "run" => call[q].run \in DOMAIN runs /\ runs[call[q].run].id = j
  BY <1>1 DEF CallTyped
<1>5. call[q].op \notin {"idle", "create"} => j \in DOMAIN cache[q]
  BY <1>1 DEF CallTyped
<1>6. call[q].op = "replace" => j \in DOMAIN temporary
  BY <1>1 DEF CallTyped
<1>7. QED
  BY <1>1, <1>2, <1>3, <1>4, <1>5, <1>6, UntouchedOwns, UntouchedLatest
  DEF CallFits, Untouched, DataUntouched, Log, Owns, LatestOf

\* A step of p on id i: everything else is as it was
Local(p, i) ==
  /\ \A j \in Ids \ {i} : Untouched(j)
  /\ call[p].id \in {0, i} /\ call'[p].id \in {0, i}
  /\ \A q \in Processes \ {p} : call'[q] = call[q] /\ cache'[q] = cache[q]
  /\ DOMAIN runs \subseteq DOMAIN runs' /\ \A r \in DOMAIN runs : runs'[r].id = runs[r].id

LEMMA CallFacts ==
  ASSUME Base, NEW p \in Processes
  PROVE  /\ call[p] \in CallRecord /\ Idle \in CallRecord
         /\ call[p].id \in Ids \cup {0} /\ 0 \notin Ids
         /\ call[p].op = "idle" <=> call[p] = Idle
         /\ call[p].op # "idle" => call[p].id \in Ids
         /\ call[p].op \notin {"idle", "create"} => call[p].id \in DOMAIN cache[p]
         /\ \A c \in CallRecord : LET d == [call EXCEPT ![p] = c]
              IN /\ d \in [Processes -> CallRecord] /\ d[p] = c
                 /\ \A q \in Processes \ {p} : d[q] = call[q]
<1>1. call \in [Processes -> CallRecord] /\ CallTyped(p)
  BY DEF Base, Typed
<1>2. call[p].id \in Ids \cup {0} /\ (call[p].op = "idle" <=> call[p] = Idle)
  BY <1>1 DEF CallTyped, Idle, Call
<1>3. Idle \in CallRecord /\ 0 \notin Ids
  BY DEF Idle, Call, CallRecord, Op, Ids
<1>4. QED
  BY <1>1, <1>2, <1>3 DEF CallTyped

\* The types are kept by a step that keeps those of its id and of its call, and leaves
\* the temporary files of others where they are
LEMMA BaseKept ==
  ASSUME Base, NEW p \in Processes, NEW i \in Ids, Local(p, i),
         Typed', Contents(i)', CallTyped(p)',
         \A q \in Processes \ {p} : Rewriting(q, i) =>
           /\ i \in DOMAIN temporary => i \in DOMAIN temporary'
           /\ ~ Rewriting(p, i)'
  PROVE  Base'
<1>1. ASSUME NEW j \in Ids, j # i PROVE Contents(j)'
  BY <1>1 DEF Base, Contents, Local, Untouched, DataUntouched
<1>2. ASSUME NEW q \in Processes, q # p PROVE CallTyped(q)'
  <2>1. CallTyped(q) /\ call'[q] = call[q] /\ cache'[q] = cache[q] /\ call[q] \in CallRecord
    BY <1>2, CallFacts DEF Base, Local
  <2>2. call[q].run # 0 => call[q].run \in DOMAIN runs' /\ runs'[call[q].run].id = call[q].id
    BY <2>1 DEF CallTyped, Local
  <2>3. ASSUME call[q].op = "replace" PROVE call[q].id \in DOMAIN temporary'
    <3>1. call[q].id \in DOMAIN temporary /\ call[q].id \in Ids
      BY <2>1, <2>3 DEF CallTyped
    <3>2. CASE call[q].id = i
      BY <1>2, <2>3, <3>1, <3>2 DEF Rewriting
    <3>3. CASE call[q].id # i
      BY <3>1, <3>3 DEF Local, Untouched
    <3>4. QED
      BY <3>2, <3>3
  <2>4. QED
    BY <2>1, <2>2, <2>3 DEF CallTyped
<1>3. ASSUME NEW q \in Processes, NEW s \in Processes, NEW j \in Ids,
             Rewriting(q, j)', Rewriting(s, j)'
      PROVE  q = s
  <2>1. \A t \in Processes \ {p} : Rewriting(t, j)' => Rewriting(t, j)
    BY DEF Local, Rewriting
  <2>2. CASE q # p /\ s # p
    BY <1>3, <2>1, <2>2 DEF Base
  <2>3. CASE q = p /\ s # p
    <3>1. j = i
      BY <1>3, <2>3, CallFacts DEF Local, Rewriting
    <3>2. QED
      BY <1>3, <2>1, <2>3, <3>1
  <2>4. CASE q # p /\ s = p
    <3>1. j = i
      BY <1>3, <2>4, CallFacts DEF Local, Rewriting
    <3>2. QED
      BY <1>3, <2>1, <2>4, <3>1
  <2>5. QED
    BY <2>2, <2>3, <2>4
<1>4. \A q \in Processes : CallTyped(q)'
  BY <1>2
<1>5. \A j \in Ids : Contents(j)'
  BY <1>1
<1>6. QED
  BY <1>3, <1>4, <1>5 DEF Base

\* What the history variable does in every step
Noticed == clashes' = clashes \cup {i \in Ids : Clash(i)'}

LEMMA NoticedFacts ==
  ASSUME Noticed, clashes \subseteq Ids
  PROVE  /\ clashes' \subseteq Ids /\ clashes \subseteq clashes'
         /\ \A i \in Ids \ clashes' : i \notin clashes /\ ~ Clash(i)'
BY DEF Noticed

\* The rest of the invariant is kept by a step that keeps it for its id, if no two
\* processes have used that id at the same time
LEMMA Assemble ==
  ASSUME IInv, Noticed, NEW p \in Processes, NEW i \in Ids, Local(p, i), Base',
         i \notin clashes' =>
           /\ IdFits(i)'
           /\ call'[p].id = i => CallFits(p)'
           /\ \A q \in Processes \ {p} : call[q].id = i => CallFits(q)'
  PROVE  IInv'
<1>1. /\ \A j \in Ids \ clashes' : j \notin clashes /\ ~ Clash(j)'
      /\ clashes' \subseteq Ids /\ clashes \subseteq clashes'
  BY NoticedFacts DEF IInv, Base, Typed
<1>2. ASSUME NEW j \in Ids \ clashes', j # i PROVE IdFits(j)'
  <2>1. Untouched(j) /\ j \in Ids \ clashes
    BY <1>1, <1>2 DEF Local
  <2>2. SameWriters(j) /\ DataUntouched(j)
    BY <2>1 DEF Untouched, SameWriters, Doing
  <2>3. QED
    BY <2>1, <2>2, UntouchedIdFits
<1>3. ASSUME NEW q \in Processes, call'[q].id \notin clashes', call'[q].id # i PROVE CallFits(q)'
  <2>1. CASE call'[q].op = "idle"
    BY <2>1 DEF CallFits
  <2>2. CASE call'[q].op # "idle"
    <3>1. call'[q].id \in Ids /\ 0 \notin Ids
      BY <2>2 DEF Base, CallTyped, Ids
    <3>2. q # p /\ call'[q] = call[q]
      BY <1>3, <3>1 DEF Local
    <3>3. Untouched(call[q].id) /\ call[q].id \notin clashes
      BY <1>1, <1>3, <3>1, <3>2 DEF Local
    <3>4. QED
      BY <3>3, UntouchedCallFits
  <2>3. QED
    BY <2>1, <2>2
<1>4. ASSUME NEW q \in Processes, call'[q].id \notin clashes', call'[q].id = i PROVE CallFits(q)'
  BY <1>4 DEF Local
<1>5. QED
  BY <1>1, <1>2, <1>3, <1>4 DEF IInv

\* Two processes do not use the same id, but for those that have clashed
LEMMA OneUser ==
  ASSUME IInv, NEW i \in Ids \ clashes, NEW p \in Processes, NEW q \in Processes,
         Uses(p, i), Uses(q, i)
  PROVE  q = p
BY DEF IInv, Clash

LEMMA SameLength ==
  ASSUME NEW S, NEW s \in Seq(S), NEW f, f = [k \in DOMAIN s |-> f[k]],
         \A k \in DOMAIN s : f[k] \in S
  PROVE  f \in Seq(S) /\ Len(f) = Len(s) /\ DOMAIN f = DOMAIN s
<1>1. DOMAIN s = 1 .. Len(s) /\ Len(s) \in Nat
  OBVIOUS
<1>2. f \in [1 .. Len(s) -> S]
  BY <1>1
<1>3. QED
  BY <1>1, <1>2

LEMMA TryIdKeeps ==
  ASSUME IInv, Noticed, NEW p \in Processes, TryId(p)
  PROVE  IInv'
<1>0. PICK i \in Ids : i = counter[p] + 1
  BY BoundsAssumption DEF TryId, IInv, Base, Typed, Ids
<1> DEFINE c == Call("create", i, 0)
<1>1. /\ call[p] = Idle /\ call[p].id = 0 /\ call[p].op = "idle"
      /\ counter[p] < MaxIds
      /\ counter' = [counter EXCEPT ![p] = @ + 1]
      /\ call' = IF Has(p, i) THEN call ELSE [call EXCEPT ![p] = c]
      /\ UNCHANGED <<disk, temporary, cache, flushed, runs, crashes>>
  BY <1>0 DEF TryId, Idle, Call
<1>2. counter' \in [Processes -> 0 .. MaxIds] /\ i # 0
  BY <1>1, BoundsAssumption DEF IInv, Base, Typed, Ids
<1>3. c \in CallRecord /\ c.op = "create" /\ c.id = i /\ c.run = 0
  BY <1>2 DEF Call, CallRecord, Op, Ids
<1> HIDE DEF c
<1>4. clashes' \subseteq Ids /\ \A j \in Ids \ clashes' : j \notin clashes /\ ~ Clash(j)'
  BY NoticedFacts DEF IInv, Base, Typed
<1>5. /\ call' \in [Processes -> CallRecord]
      /\ \A q \in Processes \ {p} : call'[q] = call[q]
      /\ call'[p] = Idle \/ (~ Has(p, i) /\ call'[p] = c)
  BY <1>1, <1>3, CallFacts DEF IInv, Base, Typed
<1>6. Typed' /\ Contents(i)'
  BY <1>1, <1>2, <1>4, <1>5 DEF IInv, Base, Typed, Contents
<1>7. CallTyped(p)' /\ ~ Rewriting(p, i)' /\ call'[p].id \in {0, i}
  BY <1>3, <1>5 DEF CallTyped, Rewriting, Idle, Call
<1>8. DataUntouched(i) /\ SameWriters(i)
  <2>1. DataUntouched(i)
    BY <1>1 DEF DataUntouched, RunsUntouched
  <2>2. SameWriters(i)
    BY <1>1, <1>3, <1>5 DEF SameWriters, Doing, Idle, Call
  <2>3. QED
    BY <2>1, <2>2
<1>9. Local(p, i)
  <2>1. \A j \in Ids \ {i} : Untouched(j)
    BY <1>1, <1>2, <1>5, <1>7, CallFacts DEF Untouched, DataUntouched, RunsUntouched, IInv
  <2>2. QED
    BY <1>1, <1>5, <1>7, <2>1 DEF Local
<1>10. Base'
  BY <1>1, <1>6, <1>7, <1>9, BaseKept DEF IInv
<1>11. ASSUME i \notin clashes'
       PROVE  /\ IdFits(i)' /\ (call'[p].id = i => CallFits(p)')
              /\ \A q \in Processes \ {p} : call[q].id = i => CallFits(q)'
  <2>1. IdFits(i)' /\ i \notin clashes
    BY <1>4, <1>8, <1>11, UntouchedIdFits
  <2>2. call'[p].id = i => CallFits(p)'
    BY <1>1, <1>2, <1>3, <1>5 DEF CallFits, Has, Exists, Idle, Call
  <2>3. ASSUME NEW q \in Processes \ {p}, call[q].id = i PROVE CallFits(q)'
    <3>1. call'[p] # c
      BY <1>3, <1>4, <1>5, <1>11, <2>3 DEF Clash, Uses
    <3>2. call' = call
      BY <1>1, <1>5, <3>1, CallFacts DEF IInv
    <3>3. Untouched(i)
      BY <1>1, <1>8, <3>2 DEF Untouched
    <3>4. QED
      BY <2>1, <2>3, <3>3, UntouchedCallFits
  <2>4. QED
    BY <2>1, <2>2, <2>3
<1>12. QED
  BY <1>9, <1>10, <1>11, Assemble

LEMMA CreateKeeps ==
  ASSUME IInv, Noticed, NEW p \in Processes, Create(p)
  PROVE  IInv'
<1>1. PICK i \in Ids : i = call[p].id
  BY CallFacts DEF Create, IInv
<1>2. /\ call[p].op = "create" /\ call[p].run = 0
      /\ UNCHANGED <<disk, temporary, counter, runs, crashes>>
      /\ call[p] \in CallRecord /\ i # 0
      /\ clashes' \subseteq Ids /\ \A j \in Ids \ clashes' : j \notin clashes /\ ~ Clash(j)'
  BY <1>1, CallFacts, NoticedFacts DEF IInv, Base, Typed, CallTyped, Create
<1>3. ASSUME i \notin clashes'
      PROVE  /\ i \notin clashes /\ IdFits(i) /\ CallFits(p)
             /\ \A q \in Processes \ {p} : call[q].id # i /\ ~ Pending(q, i)
  BY <1>1, <1>2, <1>3, OneUser DEF IInv, Uses
<1>4. CASE Has(p, i) /\ Return(p) /\ UNCHANGED <<cache, flushed>>
  <2>1. /\ call' \in [Processes -> CallRecord] /\ call'[p] = Idle /\ call'[p].id = 0
        /\ \A q \in Processes \ {p} : call'[q] = call[q]
    BY <1>4, CallFacts DEF IInv, Return, Idle, Call
  <2>2. Typed' /\ Contents(i)'
    BY <1>2, <1>4, <2>1 DEF IInv, Base, Typed, Contents
  <2>3. CallTyped(p)' /\ ~ Rewriting(p, i)'
    BY <2>1 DEF CallTyped, Rewriting, Idle, Call
  <2>4. Local(p, i)
    <3>1. \A j \in Ids \ {i} : Untouched(j)
      BY <1>1, <1>2, <1>4, <2>1, CallFacts DEF Untouched, DataUntouched, RunsUntouched, IInv
    <3>2. QED
      BY <1>1, <1>2, <1>4, <2>1, <3>1 DEF Local
  <2>5. Base'
    BY <1>2, <2>2, <2>3, <2>4, BaseKept DEF IInv
  <2>6. DataUntouched(i)
    BY <1>2, <1>4 DEF DataUntouched, RunsUntouched
  <2>7. SameWriters(i)
    BY <1>2, <2>1 DEF SameWriters, Doing, Idle, Call
  <2>8. QED
    BY <1>2, <1>3, <2>1, <2>4, <2>5, <2>6, <2>7, UntouchedIdFits, Assemble
<1>5. CASE /\ cache' = [cache EXCEPT ![p] = Put(@, i, <<>>)]
           /\ flushed' = [flushed EXCEPT ![p] = Put(@, i, 0)]
           /\ Goto(p, "truncate")
  <2>1. /\ call'[p].op = "truncate" /\ call'[p].id = i /\ call'[p].run = 0
        /\ \A q \in Processes \ {p} : call'[q] = call[q]
        /\ call' \in [Processes -> CallRecord]
    BY <1>1, <1>2, <1>5 DEF IInv, Base, Typed, Goto, CallRecord, Op
  <2>2. /\ DOMAIN cache'[p] = DOMAIN cache[p] \cup {i} /\ cache'[p][i] = <<>>
        /\ DOMAIN flushed'[p] = DOMAIN flushed[p] \cup {i} /\ flushed'[p][i] = 0
        /\ \A j \in DOMAIN cache[p] \ {i} : /\ cache'[p][j] = cache[p][j]
                                            /\ flushed'[p][j] = flushed[p][j]
        /\ \A q \in Processes \ {p} : cache'[q] = cache[q] /\ flushed'[q] = flushed[q]
        /\ cache' = [q \in Processes |-> cache'[q]]
        /\ flushed' = [q \in Processes |-> flushed'[q]]
    <3>1. /\ cache = [q \in Processes |-> cache[q]]
          /\ flushed = [q \in Processes |-> flushed[q]]
          /\ DOMAIN flushed[p] = DOMAIN cache[p]
      BY DEF IInv, Base, Typed
    <3>2. cache'[p] = Put(cache[p], i, <<>>) /\ flushed'[p] = Put(flushed[p], i, 0)
      BY <1>5, <3>1
    <3>3. /\ \A q \in Processes \ {p} : cache'[q] = cache[q] /\ flushed'[q] = flushed[q]
          /\ cache' = [q \in Processes |-> cache'[q]]
          /\ flushed' = [q \in Processes |-> flushed'[q]]
      BY <1>5, <3>1
    <3>4. /\ DOMAIN cache'[p] = DOMAIN cache[p] \cup {i} /\ cache'[p][i] = <<>>
          /\ \A j \in DOMAIN cache[p] \ {i} : cache'[p][j] = cache[p][j]
      BY <3>2 DEF Put
    <3>5. /\ DOMAIN flushed'[p] = DOMAIN flushed[p] \cup {i} /\ flushed'[p][i] = 0
          /\ \A j \in DOMAIN flushed[p] \ {i} : flushed'[p][j] = flushed[p][j]
      BY <3>2 DEF Put
    <3>6. QED
      BY <3>1, <3>3, <3>4, <3>5
  <2>3. Typed'
    <3>1. DOMAIN cache'[p] \subseteq Ids /\ DOMAIN flushed'[p] = DOMAIN cache'[p]
      BY <2>2 DEF IInv, Base, Typed
    <3>2. QED
      BY <1>2, <2>1, <2>2, <3>1 DEF IInv, Base, Typed
  <2>4. Contents(i)' /\ CallTyped(p)' /\ ~ Rewriting(p, i)'
    <3>1. <<>> \in Lines
      BY DEF Lines
    <3>2. Contents(i)'
      BY <1>2, <2>2, <3>1 DEF IInv, Base, Contents
    <3>3. QED
      BY <1>1, <2>1, <2>2, <3>2 DEF CallTyped, Rewriting
  <2>5. Local(p, i)
    <3>1. \A j \in Ids \ {i} : Untouched(j)
      BY <1>1, <1>2, <2>1, <2>2 DEF Untouched, DataUntouched, RunsUntouched
    <3>2. QED
      BY <1>1, <1>2, <2>1, <2>2, <3>1 DEF Local
  <2>6. Base'
    BY <1>2, <2>3, <2>4, <2>5, BaseKept DEF IInv
  <2>7. ASSUME i \notin clashes' PROVE IdFits(i)' /\ CallFits(p)'
    <3>0. i \notin DOMAIN disk
      BY <1>1, <1>2, <1>3, <2>7 DEF CallFits
    <3>1. IdFits(i)
      BY <1>3, <2>7
    <3>2. FileFits(i)' /\ Covered(i)'
      BY <1>2, <3>0 DEF FileFits, Covered
    <3>3. CopiesFit(i)'
      BY <1>2, <2>2, <3>1 DEF IdFits, CopiesFit
    <3>4. PendingFits(i)'
      BY <1>2, <1>3, <2>2, <2>7 DEF PendingFits, Pending
    <3>5. KeptFits(i)'
      BY <1>2, <3>0, <3>1 DEF IdFits, KeptFits
    <3>6. CallFits(p)'
      BY <1>2, <2>1, <2>2, <3>0 DEF CallFits, Log
    <3>7. QED
      BY <3>2, <3>3, <3>4, <3>5, <3>6 DEF IdFits
  <2>8. QED
    BY <1>3, <2>5, <2>6, <2>7, Assemble
<1>6. QED
  BY <1>1, <1>4, <1>5 DEF Create

\* The outcome of run r changes, and nothing else of the runs
LEMMA OutcomeFacts ==
  ASSUME Typed, NEW r \in DOMAIN runs, NEW o \in Outcome,
         runs' = [runs EXCEPT ![r].outcome = o]
  PROVE  /\ runs' \in Seq(RunRecord) /\ Len(runs') = Len(runs) /\ DOMAIN runs' = DOMAIN runs
         /\ \A s \in DOMAIN runs \ {r} : runs'[s] = runs[s]
         /\ \A s \in DOMAIN runs : runs'[s].id = runs[s].id /\ runs'[s].events = runs[s].events
         /\ runs'[r].outcome = o
<1> DEFINE new == [runs[r] EXCEPT !.outcome = o]
<1>1. runs \in Seq(RunRecord) /\ runs[r] \in RunRecord
  BY RunFacts DEF Typed
<1>2. new \in RunRecord /\ new.id = runs[r].id /\ new.events = runs[r].events /\ new.outcome = o
  BY <1>1 DEF RunRecord
<1>3. /\ runs' = [s \in DOMAIN runs |-> runs'[s]]
      /\ \A s \in DOMAIN runs \ {r} : runs'[s] = runs[s]
      /\ runs'[r] = new
  BY <1>1
<1> HIDE DEF new
<1>4. \A s \in DOMAIN runs : runs'[s] \in RunRecord
  BY <1>1, <1>2, <1>3
<1>5. runs' \in Seq(RunRecord) /\ Len(runs') = Len(runs) /\ DOMAIN runs' = DOMAIN runs
  <2> DEFINE f == runs'
  <2>1. f = [s \in DOMAIN runs |-> f[s]] /\ \A s \in DOMAIN runs : f[s] \in RunRecord
    BY <1>3, <1>4
  <2> HIDE DEF f
  <2>2. f \in Seq(RunRecord) /\ Len(f) = Len(runs) /\ DOMAIN f = DOMAIN runs
    BY <1>1, <2>1, SameLength
  <2>3. QED
    BY <2>2 DEF f
<1>6. QED
  BY <1>2, <1>3, <1>5

LEMMA AbandonKeeps ==
  ASSUME IInv, Noticed, NEW p \in Processes, Abandon(p)
  PROVE  IInv'
<1>1. PICK i \in Ids, r \in DOMAIN runs : i = call[p].id /\ r = call[p].run
  BY CallFacts DEF Abandon, IInv, Base, CallTyped
<1>2. /\ call[p].op = "run" /\ runs[r].id = i /\ i # 0
      /\ runs' = [runs EXCEPT ![r].outcome = "raised"]
      /\ UNCHANGED <<disk, temporary, cache, flushed, counter, crashes>>
      /\ clashes' \subseteq Ids /\ \A j \in Ids \ clashes' : j \notin clashes /\ ~ Clash(j)'
  BY <1>1, NoticedFacts DEF IInv, Base, Typed, CallTyped, Abandon, Ids, memory
<1>3. ASSUME i \notin clashes'
      PROVE  /\ i \notin clashes /\ IdFits(i) /\ Owns(p, i, r) /\ Unseen(p, i, r)
             /\ \A q \in Processes \ {p} : call[q].id # i /\ ~ Pending(q, i)
  BY <1>1, <1>2, <1>3, OneUser DEF IInv, Uses, CallFits
<1>4. /\ runs' \in Seq(RunRecord) /\ Len(runs') = Len(runs) /\ DOMAIN runs' = DOMAIN runs
      /\ \A s \in DOMAIN runs \ {r} : runs'[s] = runs[s]
      /\ \A s \in DOMAIN runs : runs'[s].id = runs[s].id /\ runs'[s].events = runs[s].events
      /\ runs'[r].outcome = "raised"
  BY <1>2, OutcomeFacts DEF IInv, Base, Outcome
<1>5. /\ call' \in [Processes -> CallRecord] /\ call'[p] = Idle /\ call'[p].id = 0
      /\ \A q \in Processes \ {p} : call'[q] = call[q]
  BY CallFacts DEF IInv, Abandon, Return, Idle, Call
<1>6. Typed' /\ Contents(i)'
  BY <1>2, <1>4, <1>5 DEF IInv, Base, Typed, Contents
<1>7. Local(p, i)
  <2>1. \A j \in Ids \ {i} : Untouched(j)
    BY <1>1, <1>2, <1>4, <1>5, CallFacts DEF Untouched, DataUntouched, RunsUntouched, IInv
  <2>2. QED
    BY <1>1, <1>2, <1>4, <1>5, <2>1 DEF Local
<1>8. CallTyped(p)' /\ ~ Rewriting(p, i)'
  BY <1>5 DEF CallTyped, Rewriting, Idle, Call
<1>9. Base'
  BY <1>2, <1>6, <1>7, <1>8, BaseKept DEF IInv
<1>10. \A s : LatestOf(i, s)' <=> LatestOf(i, s)
  BY <1>2, <1>4 DEF LatestOf
<1>11. ASSUME i \notin clashes' PROVE IdFits(i)'
  <2>1. IdFits(i)
    BY <1>3, <1>11
  <2>2. FileFits(i)'
    BY <1>2, <1>4, <1>10, <2>1 DEF IdFits, FileFits, Holds
  <2>3. CopiesFit(i)'
    BY <1>2, <1>4, <2>1 DEF IdFits, CopiesFit
  <2>4. Owns(p, i, r)' /\ Unseen(p, i, r)'
    <3>1. Owns(p, i, r) /\ Unseen(p, i, r) /\ UNCHANGED <<disk, cache, flushed>>
      BY <1>2, <1>3, <1>11
    <3>2. runs'[r].events = runs[r].events /\ runs'[r].outcome = "raised"
      BY <1>4
    <3>3. QED
      BY <1>10, <3>1, <3>2 DEF Owns, Unseen
  <2>5. PendingFits(i)'
    BY <1>2, <1>3, <1>4, <1>11, <2>4 DEF PendingFits, Pending
  <2>6. KeptFits(i)'
    BY <1>2, <1>4, <1>10, <2>1 DEF IdFits, KeptFits
  <2>7. Covered(i)'
    <3>1. SUFFICES ASSUME NEW q \in Processes, NEW s \in DOMAIN runs, LatestOf(i, s),
                          i \in DOMAIN disk, i \in DOMAIN cache[q], ~ Holding(q, i)',
                          NEW n \in 1 .. runs[s].events, cache[q][i] = Recorded(s, n)
                   PROVE  \E m \in n .. runs[s].events : Holds(i, s, m)'
      BY <1>2, <1>4, <1>10 DEF Covered
    <3>2. ~ Holding(q, i)
      <4>1. CASE q # p
        BY <1>2, <1>5, <3>1, <4>1 DEF Holding, Pending, Doing
      <4>2. CASE q = p
        <5>1. Len(cache[p][i]) = n /\ flushed[p][i] = 0
          <6>1. s \in Nat /\ n \in Nat
            BY RunFacts DEF IInv, Base
          <6>2. Len(Recorded(s, n)) = n
            BY <6>1, RecordedFacts
          <6>3. QED
            BY <1>3, <1>11, <3>1, <4>2, <6>2 DEF Owns
        <5>2. QED
          BY <1>2, <3>1, <4>2, <5>1 DEF Holding, Pending
      <4>3. QED
        BY <4>1, <4>2
    <3>3. \E m \in n .. runs[s].events : Holds(i, s, m)
      BY <2>1, <3>1, <3>2 DEF IdFits, Covered
    <3>4. QED
      BY <1>2, <1>4, <3>3 DEF Holds
  <2>8. QED
    BY <2>2, <2>3, <2>5, <2>6, <2>7 DEF IdFits
<1>12. QED
  BY <1>2, <1>3, <1>5, <1>7, <1>9, <1>11, Assemble

LEMMA TruncateKeeps ==
  ASSUME IInv, Noticed, NEW p \in Processes, Truncate(p)
  PROVE  IInv'
<1>1. PICK i \in Ids : i = call[p].id
  BY CallFacts DEF Truncate, IInv
<1>2. PICK r \in Nat : r = Len(runs) + 1
  BY DEF IInv, Base, Typed
<1>3. /\ call[p].op = "truncate" /\ Len(runs) < MaxRuns
      /\ disk' = Put(disk, i, <<>>)
      /\ runs' = Append(runs, [id |-> i, events |-> 0, outcome |-> "running"])
      /\ call' = [call EXCEPT ![p].op = "run", ![p].run = r]
      /\ UNCHANGED <<temporary, cache, flushed, counter, crashes>>
      /\ i \in DOMAIN cache[p] /\ call[p] \in CallRecord /\ i # 0
      /\ clashes' \subseteq Ids /\ \A j \in Ids \ clashes' : j \notin clashes /\ ~ Clash(j)'
  BY <1>1, <1>2, CallFacts, NoticedFacts DEF IInv, Base, Typed, Truncate, memory
<1>4. ASSUME i \notin clashes'
      PROVE  /\ i \notin clashes /\ IdFits(i) /\ i \notin DOMAIN disk /\ cache[p][i] = <<>>
             /\ \A q \in Processes \ {p} : call[q].id # i /\ ~ Pending(q, i)
  BY <1>1, <1>3, <1>4, OneUser DEF IInv, Uses, CallFits, Log
<1>5. /\ call'[p].op = "run" /\ call'[p].id = i /\ call'[p].run = r
      /\ \A q \in Processes \ {p} : call'[q] = call[q]
      /\ call' \in [Processes -> CallRecord]
  <2>1. call \in [Processes -> CallRecord]
    BY DEF IInv, Base, Typed
  <2>2. /\ call'[p] = [call[p] EXCEPT !.op = "run", !.run = r]
        /\ call' = [q \in Processes |-> IF q = p THEN call'[p] ELSE call[q]]
    BY <1>3, <2>1
  <2>3. call'[p] \in CallRecord /\ call'[p].op = "run" /\ call'[p].id = i /\ call'[p].run = r
    BY <1>1, <1>3, <2>2 DEF CallRecord, Op
  <2>4. QED
    BY <2>1, <2>2, <2>3
<1>6. /\ DOMAIN runs' = DOMAIN runs \cup {r} /\ r \notin DOMAIN runs
      /\ r \in Nat \ {0} /\ \A s \in DOMAIN runs : s < r /\ runs'[s] = runs[s]
      /\ runs'[r].id = i /\ runs'[r].events = 0 /\ runs'[r].outcome = "running"
      /\ runs' \in Seq(RunRecord) /\ Len(runs') = r
  <2> DEFINE new == [id |-> i, events |-> 0, outcome |-> "running"]
  <2>1. runs \in Seq(RunRecord) /\ new \in RunRecord
    BY DEF IInv, Base, Typed, RunRecord, Outcome
  <2>2. new.id = i /\ new.events = 0 /\ new.outcome = "running"
    OBVIOUS
  <2>3. runs' = Append(runs, new)
    BY <1>3
  <2> HIDE DEF new
  <2>4. ASSUME NEW x \in RunRecord
        PROVE  LET f == Append(runs, x)
               IN /\ DOMAIN f = DOMAIN runs \cup {r} /\ r \notin DOMAIN runs
                  /\ r \in Nat \ {0} /\ \A s \in DOMAIN runs : s < r /\ f[s] = runs[s]
                  /\ f[r] = x
                  /\ f \in Seq(RunRecord) /\ Len(f) = r
    BY <1>2, <2>1
  <2>5. QED
    BY <2>1, <2>2, <2>3, <2>4
<1>7. /\ DOMAIN disk' = DOMAIN disk \cup {i} /\ disk'[i] = <<>>
      /\ \A j \in DOMAIN disk \ {i} : disk'[j] = disk[j]
  BY <1>3 DEF Put
<1>8. Typed'
  <2>1. Typed /\ DOMAIN disk' \subseteq Ids /\ r <= MaxRuns
    BY <1>2, <1>3, <1>7, BoundsAssumption DEF IInv, Base, Typed
  <2>2. QED
    BY <1>3, <1>5, <1>6, <2>1 DEF Typed
<1>9. Contents(i)' /\ CallTyped(p)' /\ ~ Rewriting(p, i)'
  <2>1. <<>> \in Lines
    BY DEF Lines
  <2>2. Contents(i)'
    BY <1>3, <1>7, <2>1 DEF IInv, Base, Contents
  <2>3. QED
    BY <1>3, <1>5, <1>6, <2>2 DEF CallTyped, Rewriting
<1>10. Local(p, i)
  <2>1. \A j \in Ids \ {i} : Untouched(j)
    BY <1>1, <1>3, <1>5, <1>6, <1>7 DEF Untouched, DataUntouched, RunsUntouched
  <2>2. QED
    BY <1>1, <1>3, <1>5, <1>6, <2>1 DEF Local
<1>11. Base'
  BY <1>3, <1>8, <1>9, <1>10, BaseKept DEF IInv
<1>12. ASSUME i \notin clashes' PROVE IdFits(i)' /\ CallFits(p)'
  <2>1. LatestOf(i, r)' /\ \A s \in DOMAIN runs : ~ LatestOf(i, s)'
    BY <1>6 DEF LatestOf
  <2>2. Recorded(r, 0) = <<>> /\ Len(<<>>) = 0
    BY <1>6, RecordedFacts
  <2>3. IdFits(i) /\ flushed[p][i] = 0
    BY <1>3, <1>4, <1>12, <2>2 DEF IdFits, CopiesFit
  <2>4. Owns(p, i, r)' /\ Unseen(p, i, r)'
    BY <1>3, <1>4, <1>6, <1>7, <1>12, <2>1, <2>2, <2>3 DEF Owns, Unseen
  <2>5. CallFits(p)'
    BY <1>5, <1>6, <1>7, <2>4 DEF CallFits
  <2>6. Holds(i, r, 0)'
    BY <1>7, <2>2 DEF Holds
  <2>7. FileFits(i)'
    BY <1>6, <2>1, <2>6 DEF FileFits
  <2>8. CopiesFit(i)'
    <3>1. CopiesFit(i) /\ \A s \in DOMAIN runs : s \in DOMAIN runs' /\ runs'[s] = runs[s]
      BY <1>6, <2>3 DEF IdFits
    <3>2. UNCHANGED <<cache, flushed>>
      BY <1>3
    <3>3. QED
      BY <3>1, <3>2 DEF CopiesFit
  <2>9. PendingFits(i)'
    BY <1>3, <1>4, <1>12, <2>2, <2>3 DEF PendingFits, Pending
  <2>10. KeptFits(i)'
    BY <1>4, <1>6, <1>12, <2>3 DEF IdFits, KeptFits
  <2>11. Covered(i)'
    BY <1>6, <2>1 DEF Covered
  <2>12. QED
    BY <2>5, <2>7, <2>8, <2>9, <2>10, <2>11 DEF IdFits
<1>13. QED
  BY <1>4, <1>10, <1>11, <1>12, Assemble

\* Record and Finish
LEMMA RecordLineKeeps ==
  ASSUME IInv, Noticed, NEW p \in Processes, call[p].op = "run", RecordLine(p),
         NEW op \in {"run", "flush"},
         call' = [call EXCEPT ![p].op = op, ![p].at = IF op = "run" THEN @ ELSE flushed[p][call[p].id]],
         UNCHANGED <<disk, temporary, flushed, counter, crashes>>
  PROVE  IInv'
<1>1. PICK i \in Ids, r \in DOMAIN runs : i = call[p].id /\ r = call[p].run
  BY CallFacts DEF IInv, Base, CallTyped
<1>2. /\ runs[r].id = i /\ i \in DOMAIN cache[p] /\ i # 0 /\ call[p] \in CallRecord
      /\ flushed[p][i] \in Nat /\ cache[p][i] \in Lines /\ r \in Nat
      /\ clashes' \subseteq Ids /\ \A j \in Ids \ clashes' : j \notin clashes /\ ~ Clash(j)'
  BY <1>1, CallFacts, RunFacts, NoticedFacts DEF IInv, Base, Typed, Contents, CallTyped
<1>3. ASSUME i \notin clashes'
      PROVE  /\ i \notin clashes /\ IdFits(i) /\ Owns(p, i, r) /\ Unseen(p, i, r)
             /\ runs[r].outcome = "running" /\ i \in DOMAIN disk
             /\ LatestOf(i, r) /\ disk[i] = <<>> /\ flushed[p][i] = 0
             /\ \A q \in Processes \ {p} : call[q].id # i /\ ~ Pending(q, i)
  BY <1>1, <1>2, <1>3, OneUser DEF IInv, Uses, CallFits, Owns, Unseen
<1>4. PICK n \in Nat : n = runs[r].events
  BY RunFacts DEF IInv, Base
<1>5. /\ call'[p].op = op /\ call'[p].id = i /\ call'[p].run = r
      /\ op = "flush" => call'[p].at = flushed[p][i]
      /\ \A q \in Processes \ {p} : call'[q] = call[q]
      /\ call' \in [Processes -> CallRecord]
  <2>1. call \in [Processes -> CallRecord]
    BY DEF IInv, Base, Typed
  <2> DEFINE at == IF op = "run" THEN call[p].at ELSE flushed[p][i]
  <2>2. /\ call'[p] = [call[p] EXCEPT !.op = op, !.at = at]
        /\ call' = [q \in Processes |-> IF q = p THEN call'[p] ELSE call[q]]
    BY <1>1, <1>2, <2>1
  <2>3. at \in Nat /\ (op = "flush" => at = flushed[p][i]) /\ op \in Op
    BY <1>2 DEF CallRecord, Op
  <2> HIDE DEF at
  <2>4. /\ call'[p] \in CallRecord /\ call'[p].op = op /\ call'[p].id = i
        /\ call'[p].run = r /\ call'[p].at = at
    BY <1>1, <1>2, <2>2, <2>3 DEF CallRecord
  <2>5. QED
    BY <2>1, <2>2, <2>3, <2>4
<1>6. /\ DOMAIN runs' = DOMAIN runs /\ \A s \in DOMAIN runs \ {r} : runs'[s] = runs[s]
      /\ runs'[r].id = i /\ runs'[r].events = n + 1
      /\ runs'[r].outcome = IF op = "flush" THEN "flushing" ELSE runs[r].outcome
      /\ runs' \in Seq(RunRecord) /\ Len(runs') = Len(runs)
  <2>1. runs \in Seq(RunRecord) /\ runs[r] \in RunRecord
    BY RunFacts DEF IInv, Base, Typed
  <2> DEFINE o == IF op = "flush" THEN "flushing" ELSE runs[r].outcome
             new == [runs[r] EXCEPT !.events = @ + 1, !.outcome = o]
  <2>2. runs' = [runs EXCEPT ![r].events = @ + 1, ![r].outcome = o]
    BY <1>1, <1>5 DEF RecordLine
  <2>3. /\ runs' = [s \in DOMAIN runs |-> runs'[s]]
        /\ \A s \in DOMAIN runs \ {r} : runs'[s] = runs[s]
        /\ runs'[r] = new
    BY <2>1, <2>2
  <2>4. new.id = i /\ new.events = n + 1 /\ new.outcome = o /\ new \in RunRecord
    <3>1. o \in Outcome
      BY <2>1 DEF RunRecord, Outcome
    <3> HIDE DEF o
    <3>2. n + 1 \in Nat
      BY <1>4
    <3>3. QED
      BY <1>2, <1>4, <2>1, <3>1, <3>2 DEF RunRecord
  <2> HIDE DEF new
  <2>5. \A s \in DOMAIN runs : runs'[s] \in RunRecord
    BY <2>1, <2>3, <2>4
  <2>6. runs' \in Seq(RunRecord) /\ Len(runs') = Len(runs) /\ DOMAIN runs' = DOMAIN runs
    <3> DEFINE f == runs'
    <3>1. f = [s \in DOMAIN runs |-> f[s]] /\ \A s \in DOMAIN runs : f[s] \in RunRecord
      BY <2>3, <2>5
    <3> HIDE DEF f
    <3>2. f \in Seq(RunRecord) /\ Len(f) = Len(runs) /\ DOMAIN f = DOMAIN runs
      BY <2>1, <3>1, SameLength
    <3>3. QED
      BY <3>2 DEF f
  <2>7. QED
    BY <2>3, <2>4, <2>6
<1>7. /\ cache' = [q \in Processes |-> cache'[q]]
      /\ \A q \in Processes \ {p} : cache'[q] = cache[q]
      /\ DOMAIN cache'[p] = DOMAIN cache[p]
      /\ \A j \in DOMAIN cache[p] \ {i} : cache'[p][j] = cache[p][j]
      /\ cache'[p][i] = Append(cache[p][i], Line(r, n))
  <2>1. cache' = [cache EXCEPT ![p][i] = Append(@, Line(r, n))]
    BY <1>1, <1>4 DEF RecordLine
  <2>2. cache = [q \in Processes |-> cache[q]]
    BY DEF IInv, Base, Typed
  <2>3. QED
    BY <1>2, <2>1, <2>2
<1>8. Typed'
  <2>1. Typed /\ \A q \in Processes : DOMAIN cache'[q] = DOMAIN cache[q]
    BY <1>7 DEF IInv, Base
  <2>2. QED
    BY <1>2, <1>5, <1>6, <1>7, <2>1 DEF Typed
<1>9. Contents(i)' /\ CallTyped(p)' /\ ~ Rewriting(p, i)'
  <2>1. Line(r, n) \in Nat \X Nat
    BY <1>2 DEF Line
  <2>2. cache'[p][i] \in Lines
    <3>1. \A s \in Lines, x \in Nat \X Nat : Append(s, x) \in Lines
      BY DEF Lines
    <3>2. QED
      BY <1>2, <1>7, <2>1, <3>1
  <2>3. \A q \in Processes : i \in DOMAIN cache'[q] => cache'[q][i] \in Lines
    BY <1>7, <2>2 DEF IInv, Base, Contents
  <2>4. \A q \in Processes : i \in DOMAIN cache'[q] => flushed[q][i] \in Nat
    BY <1>7 DEF IInv, Base, Contents
  <2>5. Contents(i)'
    BY <2>3, <2>4 DEF IInv, Base, Contents
  <2>6. CallTyped(p)'
    BY <1>2, <1>5, <1>6, <1>7, CallFacts DEF CallTyped, IInv
  <2>7. QED
    BY <1>5, <2>5, <2>6 DEF Rewriting
<1>10. Local(p, i)
  <2>1. \A j \in Ids \ {i} : Untouched(j)
    BY <1>1, <1>2, <1>5, <1>6, <1>7 DEF Untouched, DataUntouched, RunsUntouched
  <2>2. QED
    BY <1>1, <1>2, <1>5, <1>6, <1>7, <2>1 DEF Local
<1>11. Base'
  BY <1>8, <1>9, <1>10, BaseKept DEF IInv
<1>12. \A s : LatestOf(i, s)' <=> LatestOf(i, s)
  BY <1>2, <1>6 DEF LatestOf
<1>13. ASSUME i \notin clashes' PROVE IdFits(i)' /\ CallFits(p)'
  <2>1. cache'[p][i] = Recorded(r, n + 1)
    <3>1. Append(Recorded(r, n), Line(r, n)) = Recorded(r, n + 1)
      BY <1>2, <1>4, RecordedFacts
    <3>2. QED
      BY <1>3, <1>4, <1>7, <1>13, <3>1 DEF Owns
  <2>2. Len(Recorded(r, n + 1)) = n + 1 /\ Recorded(r, 0) = <<>>
    <3>1. 0 \in Nat /\ n + 1 \in Nat
      OBVIOUS
    <3>2. QED
      BY <1>2, <3>1, RecordedFacts
  <2>3. Owns(p, i, r)'
    BY <1>2, <1>3, <1>6, <1>7, <1>12, <1>13, <2>1 DEF Owns
  <2>4. Unseen(p, i, r)'
    <3>1. SUFFICES ASSUME NEW q \in Processes \ {p}, i \in DOMAIN cache[q],
                          NEW m \in 1 .. n + 1, cache[q][i] = Recorded(r, m)
                   PROVE  FALSE
      BY <1>3, <1>6, <1>7, <1>13 DEF Unseen
    <3>2. m = n + 1
      BY <1>3, <1>4, <1>13, <3>1 DEF Unseen
    <3>3. cache[q][i] # <<>>
      BY <1>2, <2>2, <3>1, <3>2, RecordedFacts
    <3>4. PICK s \in DOMAIN runs : \E k \in 1 .. runs[s].events : cache[q][i] = Recorded(s, k)
      BY <1>3, <1>13, <3>1, <3>3 DEF IdFits, CopiesFit
    <3>5. PICK k \in 1 .. runs[s].events : cache[q][i] = Recorded(s, k)
      BY <3>4
    <3>6. s \in Nat /\ k \in Nat /\ runs[s].events \in Nat
      BY RunFacts DEF IInv, Base
    <3>7. s = r /\ k = n + 1
      BY <1>2, <3>1, <3>2, <3>5, <3>6, RecordedDiffers
    <3>8. QED
      BY <1>4, <3>5, <3>7
  <2>5. Pending(p, i)'
    BY <1>2, <1>3, <1>7, <1>13, <2>1, <2>2 DEF Pending
  <2>6. CallFits(p)'
    <3>1. call'[p].op = "run" => runs'[r].outcome = "running"
      BY <1>3, <1>5, <1>6, <1>13
    <3>2. i \in DOMAIN disk' /\ disk'[i] = <<>>
      BY <1>3, <1>13
    <3>3. call'[p].op = "flush" => call'[p].at = 0 /\ disk'[i] = Recorded(r, 0)
      BY <1>3, <1>5, <1>13, <2>2, <3>2
    <3>4. r \in DOMAIN runs' /\ 0 \in 0 .. Len(cache'[p][i])
      BY <1>4, <1>6, <2>1, <2>2
    <3>5. QED
      BY <1>5, <2>3, <2>4, <2>5, <3>1, <3>2, <3>3, <3>4 DEF CallFits, Log
  <2>7. Holds(i, r, 0)'
    BY <1>3, <1>13, <2>2 DEF Holds
  <2>8. FileFits(i)'
    BY <1>3, <1>4, <1>6, <1>12, <1>13, <2>7 DEF FileFits
  <2>9. CopiesFit(i)'
    <3>1. \A s \in DOMAIN runs : /\ runs'[s].id = runs[s].id
                                 /\ 1 .. runs[s].events \subseteq 1 .. runs'[s].events
      BY <1>2, <1>4, <1>6
    <3>2. CopiesFit(i)
      BY <1>3, <1>13 DEF IdFits
    <3>3. n + 1 \in 1 .. runs'[r].events /\ 0 \in 0 .. Len(Recorded(r, n + 1))
      BY <1>4, <1>6, <2>2
    <3>4. QED
      <4>1. SUFFICES ASSUME NEW q \in Processes, i \in DOMAIN cache'[q]
                     PROVE  /\ \/ cache'[q][i] = <<>>
                               \/ \E s \in DOMAIN runs' :
                                    /\ runs'[s].id = i
                                    /\ \E k \in 1 .. runs'[s].events : cache'[q][i] = Recorded(s, k)
                            /\ flushed'[q][i] \in 0 .. Len(cache'[q][i])
        BY DEF CopiesFit
      <4>2. CASE q = p
        BY <1>3, <1>6, <1>13, <2>1, <3>3, <4>2
      <4>3. CASE q # p
        <5>1. i \in DOMAIN cache[q] /\ cache'[q] = cache[q] /\ flushed'[q] = flushed[q]
          BY <1>7, <4>1, <4>3
        <5>2. /\ \/ cache[q][i] = <<>>
                 \/ \E s \in DOMAIN runs :
                      runs[s].id = i /\ \E k \in 1 .. runs[s].events : cache[q][i] = Recorded(s, k)
              /\ flushed[q][i] \in 0 .. Len(cache[q][i])
          BY <3>2, <5>1 DEF CopiesFit
        <5>3. QED
          BY <1>6, <3>1, <5>1, <5>2
      <4>4. QED
        BY <4>2, <4>3
  <2>10. PendingFits(i)'
    BY <1>3, <1>6, <1>7, <1>13, <2>3, <2>4 DEF PendingFits, Pending
  <2>11. KeptFits(i)'
    BY <1>3, <1>6, <1>12, <1>13 DEF IdFits, KeptFits
  <2>12. Covered(i)'
    <3>1. ~ \E q \in Processes \ {p}, m \in 1 .. n + 1 :
               i \in DOMAIN cache'[q] /\ cache'[q][i] = Recorded(r, m)
      BY <1>6, <2>4 DEF Unseen
    <3>2. Holding(p, i)'
      BY <2>5 DEF Holding
    <3>3. \A s : LatestOf(i, s)' => s = r
      BY <1>3, <1>12, <1>13, LatestUnique DEF IInv, Base
    <3>4. QED
      BY <1>6, <3>1, <3>2, <3>3 DEF Covered
  <2>13. QED
    BY <2>6, <2>8, <2>9, <2>10, <2>11, <2>12 DEF IdFits
<1>14. QED
  BY <1>3, <1>10, <1>11, <1>13, Assemble

\* Process p flushes the log of i, which is all that run r recorded: e events
Flushing(p, i, r, e) ==
  /\ i = call[p].id /\ i # 0 /\ i \in Ids \ clashes /\ IdFits(i)
  /\ Owns(p, i, r) /\ LatestOf(i, r) /\ runs[r].id = i /\ runs[r].outcome # "kept"
  /\ r \in Nat \ {0} /\ e = runs[r].events /\ e >= 1
  /\ i \in DOMAIN cache[p] /\ Log(p) = cache[p][i]
  /\ cache[p][i] = Recorded(r, e) /\ Len(cache[p][i]) = e
  /\ flushed[p][i] = 0
  /\ call[p].at \in 0 .. e /\ call[p].run \in {0, r}
  /\ i \in DOMAIN disk /\ disk[i] = Recorded(r, call[p].at)
  /\ \A q \in Processes \ {p} : call[q].id # i /\ ~ Pending(q, i)

LEMMA FlushFacts ==
  ASSUME IInv, NEW p \in Processes, call[p].op = "flush", call[p].id \notin clashes
  PROVE  \E i \in Ids, r \in DOMAIN runs, e \in Nat : Flushing(p, i, r, e)
<1>1. CallFits(p) /\ Base
  BY DEF IInv
<1>2. PICK i \in Ids : i = call[p].id
  BY <1>1, CallFacts
<1>3. PICK r \in DOMAIN runs : /\ Owns(p, i, r) /\ call[p].run \in {0, r}
                               /\ disk[i] = Recorded(r, call[p].at)
  BY <1>1, <1>2 DEF CallFits
<1>4. /\ LatestOf(i, r) /\ runs[r].id = i /\ runs[r].outcome # "kept"
      /\ i \in DOMAIN cache[p] /\ Log(p) = cache[p][i]
      /\ cache[p][i] = Recorded(r, runs[r].events) /\ flushed[p][i] = 0
  BY <1>2, <1>3 DEF Owns, LatestOf, Log
<1>5. r \in Nat \ {0} /\ runs[r].events \in Nat
  BY <1>1, RunFacts DEF Base
<1>6. Len(cache[p][i]) = runs[r].events
  <2>1. Len(Recorded(r, runs[r].events)) = runs[r].events
    BY <1>5, RecordedFacts
  <2>2. QED
    BY <1>4, <2>1
<1>7. /\ runs[r].events >= 1 /\ call[p].at \in 0 .. runs[r].events /\ i \in DOMAIN disk
  BY <1>1, <1>2, <1>4, <1>5, <1>6 DEF CallFits, Pending
<1>8. i # 0 /\ \A q \in Processes \ {p} : call[q].id # i /\ ~ Pending(q, i)
  BY <1>1, <1>2, CallFacts, OneUser DEF Uses
<1>9. IdFits(i)
  BY <1>2 DEF IInv
<1>10. QED
  BY <1>2, <1>3, <1>4, <1>5, <1>6, <1>7, <1>8, <1>9 DEF Flushing

LEMMA FlushLineKeeps ==
  ASSUME IInv, Noticed, NEW p \in Processes, FlushLine(p)
  PROVE  IInv'
<1> USE DEF Flushing
<1>1. PICK i \in Ids, at \in Nat : i = call[p].id /\ at = call[p].at
  BY CallFacts DEF FlushLine, IInv, CallRecord
<1>2. /\ call[p].op = "flush" /\ i # 0 /\ i \in DOMAIN cache[p] /\ cache[p][i] \in Lines
      /\ Log(p) = cache[p][i] /\ at < Len(cache[p][i])
      /\ disk' = [disk EXCEPT ![i] = Append(@, cache[p][i][at + 1])]
      /\ call' = [call EXCEPT ![p].at = @ + 1]
      /\ UNCHANGED <<temporary, cache, flushed, counter, runs, crashes>>
      /\ clashes' \subseteq Ids /\ \A j \in Ids \ clashes' : j \notin clashes /\ ~ Clash(j)'
  BY <1>1, CallFacts, NoticedFacts DEF FlushLine, memory, Log, IInv, Base, Typed, Contents, CallTyped
<1>3. DOMAIN disk' = DOMAIN disk /\ \A j \in DOMAIN disk \ {i} : disk'[j] = disk[j]
  BY <1>2
<1>4. /\ call'[p] = [call[p] EXCEPT !.at = at + 1]
      /\ \A q \in Processes \ {p} : call'[q] = call[q]
      /\ call' \in [Processes -> CallRecord]
  <2>1. call \in [Processes -> CallRecord]
    BY DEF IInv, Base, Typed
  <2>2. [call[p] EXCEPT !.at = at + 1] \in CallRecord
    BY <2>1 DEF CallRecord
  <2>3. QED
    BY <1>1, <1>2, <2>1, <2>2
<1>5. /\ call'[p].op = "flush" /\ call'[p].id = i /\ call'[p].run = call[p].run
      /\ call'[p].at = at + 1
  BY <1>1, <1>2, <1>4 DEF IInv, Base, Typed, CallRecord
<1>6. Typed' /\ CallTyped(p)' /\ ~ Rewriting(p, i)'
  BY <1>1, <1>2, <1>3, <1>4, <1>5 DEF IInv, Base, Typed, CallTyped, Rewriting
<1>7. Contents(i)'
  <2>1. cache[p][i][at + 1] \in Nat \X Nat
    BY <1>2 DEF Lines
  <2>2. \A s \in Lines, x \in Nat \X Nat : Append(s, x) \in Lines
    BY DEF Lines
  <2>3. i \in DOMAIN disk => disk'[i] \in Lines
    BY <1>2, <2>1, <2>2 DEF IInv, Base, Contents
  <2>4. QED
    BY <1>2, <1>3, <2>3 DEF IInv, Base, Contents
<1>8. Local(p, i)
  <2>1. \A j \in Ids \ {i} : Untouched(j)
    BY <1>1, <1>2, <1>3, <1>4, <1>5 DEF Untouched, DataUntouched, RunsUntouched
  <2>2. QED
    BY <1>1, <1>2, <1>4, <1>5, <2>1 DEF Local
<1>9. Base'
  BY <1>2, <1>6, <1>7, <1>8, BaseKept DEF IInv
<1>10. ASSUME i \notin clashes'
       PROVE  /\ IdFits(i)' /\ CallFits(p)'
              /\ \A q \in Processes \ {p} : call[q].id # i
  <2>1. PICK r \in DOMAIN runs, e \in Nat : Flushing(p, i, r, e)
    BY <1>1, <1>2, <1>10, FlushFacts
  <2>2. cache[p][i][at + 1] = Line(r, at)
    BY <1>2, <2>1 DEF Recorded
  <2>3. disk'[i] = Recorded(r, at + 1)
    <3>1. Append(Recorded(r, at), Line(r, at)) = Recorded(r, at + 1)
      BY <2>1, RecordedFacts
    <3>2. QED
      BY <1>1, <1>2, <2>1, <2>2, <3>1
  <2>4. /\ \A s : LatestOf(i, s)' <=> LatestOf(i, s)
        /\ \A q \in Processes : Pending(q, i)' <=> Pending(q, i)
        /\ \A q \in Processes : Holding(q, i)' <=> Holding(q, i)
        /\ Owns(p, i, r)'
    BY <1>2, <1>4, <1>5, <2>1 DEF LatestOf, Pending, Holding, Doing, Owns
  <2>5. Pending(p, i) /\ Log(p)' = cache[p][i]
    BY <1>2, <1>5, <2>1 DEF Pending, Log
  <2>6. at + 1 \in 0 .. e
    BY <1>2, <2>1
  <2>7. CallFits(p)'
    BY <1>2, <1>3, <1>5, <2>1, <2>3, <2>4, <2>5, <2>6 DEF CallFits
  <2>8. Holds(i, r, at + 1)'
    BY <2>3 DEF Holds
  <2>9. FileFits(i)'
    BY <1>2, <2>1, <2>4, <2>6, <2>8 DEF FileFits
  <2>10. CopiesFit(i)'
    BY <1>2, <2>1 DEF IdFits, CopiesFit
  <2>11. PendingFits(i)'
    BY <1>2, <1>5, <2>1, <2>4 DEF PendingFits, Doing
  <2>12. \A s : LatestOf(i, s) => s = r
    BY <2>1, LatestUnique DEF IInv, Base
  <2>13. KeptFits(i)'
    BY <1>2, <2>1, <2>12 DEF IdFits, KeptFits
  <2>14. ASSUME NEW n \in 1 .. e, NEW m \in n .. e, Holds(i, r, m)
         PROVE  at + 1 \in n .. e
    <3>1. m \in Nat
      OBVIOUS
    <3>2. Recorded(r, at) = Recorded(r, m)
      <4>1. TornAfter(r, m) # Recorded(r, at)
        BY <2>1, <3>1, TornDiffers
      <4>2. QED
        BY <1>1, <2>1, <2>14, <4>1 DEF Holds
    <3>3. m = at
      BY <2>1, <3>1, <3>2, RecordedDiffers
    <3>4. QED
      BY <2>6, <3>3, <2>14, <1>2, <2>1
  <2>15. Covered(i)'
    <3>1. SUFFICES ASSUME NEW q \in Processes, i \in DOMAIN cache[q], ~ Holding(q, i),
                          NEW n \in 1 .. e, cache[q][i] = Recorded(r, n)
                   PROVE  \E m \in n .. e : Holds(i, r, m)'
      BY <1>2, <2>1, <2>4, <2>12 DEF Covered
    <3>2. \E m \in n .. e : Holds(i, r, m)
      BY <2>1, <3>1 DEF IdFits, Covered
    <3>3. QED
      BY <2>8, <2>14, <3>2
  <2>16. QED
    BY <2>1, <2>7, <2>9, <2>10, <2>11, <2>13, <2>15 DEF IdFits
<1>11. QED
  BY <1>8, <1>9, <1>10, Assemble

LEMMA EndFlushKeeps ==
  ASSUME IInv, Noticed, NEW p \in Processes, EndFlush(p)
  PROVE  IInv'
<1> USE DEF Flushing
<1>1. PICK i \in Ids, c \in Nat : i = call[p].id /\ c = call[p].run
  BY CallFacts DEF EndFlush, IInv, CallRecord
<1>2. /\ call[p].op = "flush" /\ i # 0 /\ i \in DOMAIN cache[p] /\ cache[p][i] \in Lines
      /\ call[p].at = Len(cache[p][i])
      /\ flushed' = [flushed EXCEPT ![p][i] = Len(cache[p][i])]
      /\ runs' = IF c = 0 THEN runs ELSE [runs EXCEPT ![c].outcome = "kept"]
      /\ c # 0 => c \in DOMAIN runs /\ runs[c].id = i
      /\ call' = [call EXCEPT ![p] = Idle]
      /\ UNCHANGED <<disk, temporary, cache, counter, crashes>>
      /\ clashes' \subseteq Ids /\ \A j \in Ids \ clashes' : j \notin clashes /\ ~ Clash(j)'
  BY <1>1, CallFacts, NoticedFacts
  DEF EndFlush, Safe, Return, Log, IInv, Base, Typed, Contents, CallTyped
<1>3. /\ flushed' = [q \in Processes |-> flushed'[q]]
      /\ \A q \in Processes \ {p} : flushed'[q] = flushed[q]
      /\ DOMAIN flushed'[p] = DOMAIN flushed[p]
      /\ flushed'[p][i] = Len(cache[p][i])
      /\ \A j \in DOMAIN flushed[p] \ {i} : flushed'[p][j] = flushed[p][j]
  <2>1. flushed = [q \in Processes |-> flushed[q]] /\ i \in DOMAIN flushed[p]
    BY <1>2 DEF IInv, Base, Typed
  <2>2. QED
    BY <1>2, <2>1
<1>4. /\ runs' \in Seq(RunRecord) /\ Len(runs') = Len(runs) /\ DOMAIN runs' = DOMAIN runs
      /\ \A s \in DOMAIN runs : runs'[s].id = runs[s].id /\ runs'[s].events = runs[s].events
      /\ \A s \in DOMAIN runs \ {c} : runs'[s] = runs[s]
  <2>1. CASE c = 0
    BY <1>2, <2>1 DEF IInv, Base, Typed
  <2>2. CASE c # 0
    <3>1. c \in DOMAIN runs /\ "kept" \in Outcome /\ runs' = [runs EXCEPT ![c].outcome = "kept"]
      BY <1>2, <2>2 DEF Outcome
    <3>2. QED
      BY <3>1, OutcomeFacts DEF IInv, Base
  <2>3. QED
    BY <2>1, <2>2
<1>5. /\ call' \in [Processes -> CallRecord] /\ call'[p] = Idle /\ call'[p].id = 0
      /\ \A q \in Processes \ {p} : call'[q] = call[q]
  BY <1>2, CallFacts DEF Idle, Call, IInv
<1>6. Typed' /\ CallTyped(p)' /\ ~ Rewriting(p, i)'
  <2>1. Typed'
    BY <1>2, <1>3, <1>4, <1>5 DEF IInv, Base, Typed
  <2>2. QED
    BY <1>5, <2>1 DEF CallTyped, Rewriting, Idle, Call
<1>7. Contents(i)'
  <2>1. Len(cache[p][i]) \in Nat
    BY <1>2 DEF Lines
  <2>2. \A q \in Processes : i \in DOMAIN cache[q] => flushed'[q][i] \in Nat
    BY <1>3, <2>1 DEF IInv, Base, Contents
  <2>3. QED
    BY <1>2, <2>2 DEF IInv, Base, Contents
<1>8. Local(p, i)
  <2>1. \A q \in Processes : DOMAIN flushed[q] = DOMAIN cache[q]
    BY DEF IInv, Base, Typed
  <2>2. \A s \in DOMAIN runs : runs[s].id # i => runs'[s] = runs[s]
    BY <1>2, <1>4
  <2>3. \A j \in Ids \ {i} : DataUntouched(j)
    BY <1>2, <1>3, <1>4, <2>1, <2>2 DEF DataUntouched, RunsUntouched
  <2>4. \A j \in Ids \ {i} : Untouched(j)
    BY <1>1, <1>2, <1>5, <2>3, CallFacts DEF Untouched, IInv
  <2>5. QED
    BY <1>1, <1>2, <1>4, <1>5, <2>4 DEF Local
<1>9. Base'
  BY <1>2, <1>6, <1>7, <1>8, BaseKept DEF IInv
<1>10. ASSUME i \notin clashes'
       PROVE  IdFits(i)' /\ \A q \in Processes \ {p} : call[q].id # i
  <2>1. PICK r \in DOMAIN runs, e \in Nat : Flushing(p, i, r, e)
    BY <1>1, <1>2, <1>10, FlushFacts
  <2>2. disk[i] = Recorded(r, e) /\ flushed'[p][i] = e /\ c \in {0, r}
    BY <1>1, <1>2, <1>3, <2>1
  <2>3. /\ \A s : LatestOf(i, s)' <=> LatestOf(i, s)
        /\ \A s : LatestOf(i, s) => s = r
    BY <1>4, <2>1, LatestUnique DEF LatestOf, IInv, Base
  <2>4. Holds(i, r, e)'
    BY <1>2, <2>2 DEF Holds
  <2>5. FileFits(i)'
    BY <1>2, <1>4, <2>1, <2>3, <2>4 DEF FileFits
  <2>6. CopiesFit(i)'
    <3>1. \A q \in Processes : i \in DOMAIN cache[q] => flushed'[q][i] \in 0 .. Len(cache[q][i])
      BY <1>3, <2>1, <2>2 DEF IdFits, CopiesFit
    <3>2. QED
      BY <1>2, <1>4, <2>1, <3>1 DEF IdFits, CopiesFit
  <2>7. PendingFits(i)'
    BY <1>2, <1>3, <2>1, <2>2 DEF PendingFits, Pending
  <2>8. KeptFits(i)'
    BY <1>2, <1>4, <2>1, <2>2, <2>3 DEF IdFits, KeptFits
  <2>9. Covered(i)'
    <3>1. SUFFICES ASSUME NEW q \in Processes, NEW n \in 1 .. e,
                          i \in DOMAIN cache[q], ~ Holding(q, i)', cache[q][i] = Recorded(r, n)
                   PROVE  \E m \in n .. e : Holds(i, r, m)'
      BY <1>2, <1>4, <2>1, <2>3 DEF Covered
    <3>2. e \in n .. e
      BY <2>1
    <3>3. QED
      BY <2>4, <3>2
  <2>10. QED
    BY <2>1, <2>5, <2>6, <2>7, <2>8, <2>9 DEF IdFits
<1>11. QED
  BY <1>1, <1>2, <1>5, <1>8, <1>9, <1>10, Assemble


LEMMA StartFlushKeeps ==
  ASSUME IInv, Noticed, NEW p \in Processes, NEW i \in Ids, StartFlush(p, i)
  PROVE  IInv'
<1>1. /\ call[p] = Idle /\ call[p].id = 0 /\ Pending(p, i) /\ i \in DOMAIN cache[p] /\ i # 0
      /\ disk' = IF i \in DOMAIN disk THEN disk ELSE Put(disk, i, <<>>)
      /\ call' = [call EXCEPT ![p] = Call("flush", i, flushed[p][i])]
      /\ UNCHANGED <<temporary, cache, flushed, counter, runs, crashes>>
      /\ clashes' \subseteq Ids /\ \A j \in Ids \ clashes' : j \notin clashes /\ ~ Clash(j)'
      /\ flushed[p][i] \in Nat
  BY NoticedFacts
  DEF StartFlush, Exists, Pending, memory, Idle, Call, Ids, IInv, Base, Typed, Contents
<1>2. /\ call'[p].op = "flush" /\ call'[p].id = i /\ call'[p].run = 0
      /\ call'[p].at = flushed[p][i]
      /\ \A q \in Processes \ {p} : call'[q] = call[q]
      /\ call' \in [Processes -> CallRecord]
  <2>1. Call("flush", i, flushed[p][i]) \in CallRecord
    BY <1>1 DEF Call, CallRecord, Op, Ids
  <2>2. QED
    BY <1>1, <2>1, CallFacts DEF Call, IInv
<1>3. /\ DOMAIN disk' = DOMAIN disk \cup {i}
      /\ i \notin DOMAIN disk => disk'[i] = <<>>
      /\ \A j \in DOMAIN disk : disk'[j] = disk[j]
  BY <1>1 DEF Put
<1>4. Typed' /\ CallTyped(p)' /\ ~ Rewriting(p, i)'
  BY <1>1, <1>2, <1>3 DEF IInv, Base, Typed, CallTyped, Rewriting
<1>5. Contents(i)'
  <2>1. <<>> \in Lines
    BY DEF Lines
  <2>2. QED
    BY <1>1, <1>3, <2>1 DEF IInv, Base, Contents
<1>6. Local(p, i)
  <2>1. \A j \in Ids \ {i} : Untouched(j)
    BY <1>1, <1>2, <1>3, CallFacts DEF Untouched, DataUntouched, RunsUntouched, IInv
  <2>2. QED
    BY <1>1, <1>2, <2>1 DEF Local
<1>7. Base'
  BY <1>1, <1>4, <1>5, <1>6, BaseKept DEF IInv
<1>8. ASSUME i \notin clashes'
      PROVE  IdFits(i)' /\ CallFits(p)' /\ \A q \in Processes \ {p} : call[q].id # i
  <2>1. /\ i \notin clashes /\ IdFits(i)
        /\ \A q \in Processes \ {p} : call[q].id # i /\ ~ Pending(q, i)
    BY <1>1, <1>8, OneUser DEF IInv, Uses
  <2>2. PICK r \in DOMAIN runs : Owns(p, i, r) /\ Unseen(p, i, r)
    BY <1>1, <2>1 DEF IdFits, PendingFits, Doing
  <2>3. PICK e \in Nat : e = runs[r].events
    BY RunFacts DEF IInv, Base
  <2>4. /\ LatestOf(i, r) /\ runs[r].outcome # "kept" /\ flushed[p][i] = 0
        /\ cache[p][i] = Recorded(r, e) /\ runs[r].id = i /\ r \in Nat
    BY <2>2, <2>3, RunFacts DEF Owns, LatestOf, IInv, Base
  <2>5. Len(cache[p][i]) = e /\ e >= 1 /\ Recorded(r, 0) = <<>>
    <3>1. Len(Recorded(r, e)) = e /\ Recorded(r, 0) = <<>>
      <4>1. 0 \in Nat
        OBVIOUS
      <4>2. QED
        BY <2>4, <4>1, RecordedFacts
    <3>2. QED
      BY <1>1, <2>4, <3>1 DEF Pending
  <2>6. disk'[i] = Recorded(r, 0) /\ call'[p].at = 0 /\ i \in DOMAIN disk'
    BY <1>2, <1>3, <2>2, <2>4, <2>5 DEF Unseen
  <2>7. /\ Owns(p, i, r)' /\ Pending(p, i)' /\ \A s : LatestOf(i, s)' <=> LatestOf(i, s)
        /\ \A s : LatestOf(i, s) => s = r
    BY <1>1, <2>2, <2>4, LatestUnique DEF Owns, Pending, LatestOf, IInv, Base
  <2>8. CallFits(p)'
    BY <1>1, <1>2, <2>5, <2>6, <2>7 DEF CallFits, Log
  <2>9. Holds(i, r, 0)'
    BY <2>6 DEF Holds
  <2>10. FileFits(i)'
    BY <1>1, <2>3, <2>4, <2>7, <2>9 DEF FileFits
  <2>11. CopiesFit(i)'
    BY <1>1, <2>1 DEF IdFits, CopiesFit
  <2>12. PendingFits(i)'
    BY <1>1, <1>2, <2>1, <2>7 DEF PendingFits, Pending, Doing
  <2>13. KeptFits(i)'
    BY <1>1, <2>1, <2>4, <2>7 DEF IdFits, KeptFits
  <2>14. Covered(i)'
    BY <1>1, <2>2, <2>3, <2>7 DEF Covered, Holding, Unseen
  <2>15. QED
    BY <2>1, <2>8, <2>10, <2>11, <2>12, <2>13, <2>14 DEF IdFits
<1>9. QED
  BY <1>6, <1>7, <1>8, Assemble

LEMMA StartWriteKeeps ==
  ASSUME IInv, Noticed, NEW p \in Processes, NEW i \in Ids, StartWrite(p, i)
  PROVE  IInv'
<1>1. /\ call[p] = Idle /\ call[p].id = 0 /\ i # 0 /\ \A q \in Processes : call[q].id # i
      /\ i \in DOMAIN disk /\ i \in DOMAIN cache[p]
      /\ HasAllOf(p, i)
      /\ temporary' = Put(temporary, i, <<>>)
      /\ call' = [call EXCEPT ![p] = Call("write", i, 0)]
      /\ UNCHANGED <<disk, cache, flushed, counter, runs, crashes>>
      /\ clashes' \subseteq Ids /\ \A j \in Ids \ clashes' : j \notin clashes /\ ~ Clash(j)'
  BY NoticedFacts DEF StartWrite, Exists, memory, InUse, Idle, Call, Ids, IInv, Base, Typed
<1>2. /\ call'[p].op = "write" /\ call'[p].id = i /\ call'[p].run = 0
      /\ \A q \in Processes \ {p} : call'[q] = call[q]
      /\ call' \in [Processes -> CallRecord]
  <2>1. Call("write", i, 0) \in CallRecord
    BY DEF Call, CallRecord, Op, Ids
  <2>2. QED
    BY <1>1, <2>1, CallFacts DEF Call, IInv
<1>3. /\ DOMAIN temporary' = DOMAIN temporary \cup {i} /\ temporary'[i] = <<>>
      /\ \A j \in DOMAIN temporary \ {i} : temporary'[j] = temporary[j]
  BY <1>1 DEF Put
<1>4. Typed' /\ CallTyped(p)'
  BY <1>1, <1>2 DEF IInv, Base, Typed, CallTyped
<1>5. Contents(i)'
  <2>1. <<>> \in Lines
    BY DEF Lines
  <2>2. QED
    BY <1>1, <1>3, <2>1 DEF IInv, Base, Contents
<1>6. Local(p, i)
  <2>1. \A j \in Ids \ {i} : Untouched(j)
    BY <1>1, <1>2, <1>3, CallFacts DEF Untouched, DataUntouched, RunsUntouched, IInv
  <2>2. QED
    BY <1>1, <1>2, <2>1 DEF Local
<1>7. Base'
  <2>1. \A q \in Processes : ~ Rewriting(q, i)
    BY <1>1 DEF Rewriting
  <2>2. QED
    BY <1>4, <1>5, <1>6, <2>1, BaseKept DEF IInv
<1>8. ASSUME i \notin clashes' PROVE IdFits(i)' /\ CallFits(p)'
  <2>1. i \in Ids \ clashes /\ IdFits(i)
    BY <1>1, <1>8 DEF IInv
  <2>2. PICK r \in DOMAIN runs : LatestOf(i, r)
    BY <1>1, <2>1 DEF IdFits, FileFits
  <2>3. cache[p][i] = Recorded(r, runs[r].events)
    BY <1>1, <2>2, LatestIsMax DEF HasAllOf, Recorded, IInv, Base
  <2>4. DataUntouched(i)
    BY <1>1 DEF DataUntouched, RunsUntouched
  <2>5. SameWriters(i)
    BY <1>1, <1>2 DEF SameWriters, Doing
  <2>6. IdFits(i)'
    BY <2>1, <2>4, <2>5, UntouchedIdFits
  <2>7. LatestOf(i, r)'
    BY <1>1, <2>2 DEF LatestOf
  <2>8. CallFits(p)'
    BY <1>1, <1>2, <2>2, <2>3, <2>7 DEF CallFits, Log
  <2>9. QED
    BY <2>6, <2>8
<1>9. QED
  BY <1>1, <1>6, <1>7, <1>8, Assemble

LEMMA WriteFacts ==
  ASSUME IInv, NEW p \in Processes, call[p].op \in {"write", "replace"}, call[p].id \notin clashes
  PROVE  \E i \in Ids \ clashes : \E r \in DOMAIN runs :
           /\ i = call[p].id /\ i # 0 /\ IdFits(i)
           /\ i \in DOMAIN disk /\ i \in DOMAIN cache[p]
           /\ LatestOf(i, r) /\ Log(p) = cache[p][i]
           /\ cache[p][i] = Recorded(r, runs[r].events)
           /\ call[p].op = "replace" => temporary[i] = cache[p][i]
           /\ \A q \in Processes \ {p} : call[q].id # i /\ ~ Pending(q, i)
<1>1. CallFits(p) /\ Base
  BY DEF IInv
<1>2. PICK i \in Ids \ clashes : i = call[p].id
  BY <1>1, CallFacts
<1>3. i # 0 /\ Log(p) = cache[p][i] /\ IdFits(i)
  BY <1>2 DEF Ids, Log, IInv
<1>4. \A q \in Processes \ {p} : call[q].id # i /\ ~ Pending(q, i)
  BY <1>2, OneUser DEF Uses
<1>5. i \in DOMAIN cache[p] /\ i \in DOMAIN disk
  BY <1>1, <1>2, CallFacts DEF CallFits
<1>6. QED
  BY <1>1, <1>2, <1>3, <1>4, <1>5 DEF CallFits

LEMMA FillTemporaryKeeps ==
  ASSUME IInv, Noticed, NEW p \in Processes, FillTemporary(p)
  PROVE  IInv'
<1>1. PICK i \in Ids : i = call[p].id
  BY CallFacts DEF FillTemporary, IInv
<1>2. /\ call[p].op = "write" /\ i # 0 /\ i \in DOMAIN cache[p] /\ cache[p][i] \in Lines
      /\ call[p].run = 0
      /\ temporary' = Put(temporary, i, cache[p][i])
      /\ call' = [call EXCEPT ![p].op = "replace"]
      /\ UNCHANGED <<disk, cache, flushed, counter, runs, crashes>>
      /\ clashes' \subseteq Ids /\ \A j \in Ids \ clashes' : j \notin clashes /\ ~ Clash(j)'
  BY <1>1, CallFacts, NoticedFacts
  DEF FillTemporary, Goto, memory, Log, IInv, Base, Typed, Contents, CallTyped
<1>3. /\ call'[p].op = "replace" /\ call'[p].id = i /\ call'[p].run = 0
      /\ \A q \in Processes \ {p} : call'[q] = call[q]
      /\ call' \in [Processes -> CallRecord]
  BY <1>1, <1>2 DEF IInv, Base, Typed, CallRecord, Op
<1>4. /\ DOMAIN temporary' = DOMAIN temporary \cup {i} /\ temporary'[i] = cache[p][i]
      /\ \A j \in DOMAIN temporary \ {i} : temporary'[j] = temporary[j]
  BY <1>2 DEF Put
<1>5. Typed' /\ CallTyped(p)' /\ Contents(i)'
  BY <1>2, <1>3, <1>4 DEF IInv, Base, Typed, CallTyped, Contents
<1>6. Local(p, i)
  <2>1. \A j \in Ids \ {i} : Untouched(j)
    BY <1>1, <1>2, <1>3, <1>4 DEF Untouched, DataUntouched, RunsUntouched
  <2>2. QED
    BY <1>1, <1>2, <1>3, <2>1 DEF Local
<1>7. Base'
  <2>1. \A q \in Processes \ {p} : ~ Rewriting(q, i)
    <3>1. Rewriting(p, i)
      BY <1>1, <1>2 DEF Rewriting
    <3>2. QED
      BY <3>1 DEF IInv, Base
  <2>2. QED
    BY <1>5, <1>6, <2>1, BaseKept DEF IInv
<1>8. ASSUME i \notin clashes'
      PROVE  IdFits(i)' /\ CallFits(p)' /\ \A q \in Processes \ {p} : call[q].id # i
  <2>1. i \notin clashes
    BY <1>2, <1>8
  <2>2. PICK r \in DOMAIN runs :
           /\ i \in DOMAIN disk /\ LatestOf(i, r)
           /\ cache[p][i] = Recorded(r, runs[r].events)
           /\ \A q \in Processes \ {p} : call[q].id # i
    BY <1>1, <1>2, <2>1, WriteFacts
  <2>3. DataUntouched(i)
    BY <1>2 DEF DataUntouched, RunsUntouched
  <2>4. SameWriters(i)
    BY <1>1, <1>2, <1>3 DEF SameWriters, Doing
  <2>5. IdFits(i)'
    BY <2>1, <2>3, <2>4, UntouchedIdFits
  <2>6. LatestOf(i, r)'
    BY <1>2, <2>2 DEF LatestOf
  <2>7. CallFits(p)'
    BY <1>2, <1>3, <1>4, <2>2, <2>6 DEF CallFits, Log
  <2>8. QED
    BY <2>2, <2>5, <2>7
<1>9. QED
  BY <1>6, <1>7, <1>8, Assemble

LEMMA ReplaceFileKeeps ==
  ASSUME IInv, Noticed, NEW p \in Processes, ReplaceFile(p)
  PROVE  IInv'
<1>1. PICK i \in Ids : i = call[p].id
  BY CallFacts DEF ReplaceFile, IInv
<1>2. /\ call[p].op = "replace" /\ i # 0 /\ i \in DOMAIN cache[p] /\ cache[p][i] \in Lines
      /\ i \in DOMAIN temporary /\ temporary[i] \in Lines
      /\ disk' = Put(disk, i, temporary[i])
      /\ temporary' = Pop(temporary, i)
      /\ flushed' = [flushed EXCEPT ![p][i] = Len(cache[p][i])]
      /\ call' = [call EXCEPT ![p] = Idle]
      /\ UNCHANGED <<cache, counter, runs, crashes>>
      /\ clashes' \subseteq Ids /\ \A j \in Ids \ clashes' : j \notin clashes /\ ~ Clash(j)'
  BY <1>1, CallFacts, NoticedFacts
  DEF ReplaceFile, Return, Log, IInv, Base, Typed, Contents, CallTyped
<1>3. /\ flushed' = [q \in Processes |-> flushed'[q]]
      /\ \A q \in Processes \ {p} : flushed'[q] = flushed[q]
      /\ DOMAIN flushed'[p] = DOMAIN flushed[p]
      /\ flushed'[p][i] = Len(cache[p][i])
      /\ \A j \in DOMAIN flushed[p] \ {i} : flushed'[p][j] = flushed[p][j]
  <2>1. flushed = [q \in Processes |-> flushed[q]] /\ i \in DOMAIN flushed[p]
    BY <1>2 DEF IInv, Base, Typed
  <2>2. QED
    BY <1>2, <2>1
<1>4. /\ call' \in [Processes -> CallRecord] /\ call'[p] = Idle /\ call'[p].id = 0
      /\ \A q \in Processes \ {p} : call'[q] = call[q]
  BY <1>2, CallFacts DEF Idle, Call, IInv
<1>5. /\ DOMAIN disk' = DOMAIN disk \cup {i} /\ disk'[i] = temporary[i]
      /\ \A j \in DOMAIN disk \ {i} : disk'[j] = disk[j]
  BY <1>2 DEF Put
<1>6. /\ DOMAIN temporary' = DOMAIN temporary \ {i}
      /\ \A j \in DOMAIN temporary \ {i} : temporary'[j] = temporary[j]
  BY <1>2 DEF Pop, Restrict
<1>7. Typed' /\ CallTyped(p)' /\ ~ Rewriting(p, i)'
  <2>1. Typed'
    BY <1>2, <1>3, <1>4, <1>5 DEF IInv, Base, Typed
  <2>2. QED
    BY <1>4, <2>1 DEF CallTyped, Rewriting, Idle, Call
<1>8. Contents(i)'
  <2>1. Len(cache[p][i]) \in Nat
    BY <1>2 DEF Lines
  <2>2. \A q \in Processes : i \in DOMAIN cache[q] => flushed'[q][i] \in Nat
    BY <1>3, <2>1 DEF IInv, Base, Contents
  <2>3. QED
    BY <1>2, <1>5, <1>6, <2>2 DEF IInv, Base, Contents
<1>9. Local(p, i)
  <2>1. \A q \in Processes : DOMAIN flushed[q] = DOMAIN cache[q]
    BY DEF IInv, Base, Typed
  <2>2. \A j \in Ids \ {i} : DataUntouched(j)
    BY <1>2, <1>3, <1>5, <2>1 DEF DataUntouched, RunsUntouched
  <2>3. \A j \in Ids \ {i} : Untouched(j)
    BY <1>1, <1>2, <1>4, <1>6, <2>2, CallFacts DEF Untouched, IInv
  <2>4. QED
    BY <1>1, <1>2, <1>4, <2>3 DEF Local
<1>10. Base'
  <2>1. \A q \in Processes \ {p} : ~ Rewriting(q, i)
    <3>1. Rewriting(p, i)
      BY <1>1, <1>2 DEF Rewriting
    <3>2. QED
      BY <3>1 DEF IInv, Base
  <2>2. QED
    BY <1>7, <1>8, <1>9, <2>1, BaseKept DEF IInv
<1>11. ASSUME i \notin clashes'
       PROVE  IdFits(i)' /\ \A q \in Processes \ {p} : call[q].id # i
  <2>0. i \notin clashes
    BY <1>2, <1>11
  <2>1. PICK r \in DOMAIN runs :
           /\ i \in DOMAIN disk /\ LatestOf(i, r) /\ IdFits(i)
           /\ cache[p][i] = Recorded(r, runs[r].events)
           /\ temporary[i] = cache[p][i]
           /\ \A q \in Processes \ {p} : call[q].id # i /\ ~ Pending(q, i)
    BY <1>1, <1>2, <2>0, WriteFacts
  <2>2. PICK e \in Nat : e = runs[r].events
    BY RunFacts DEF IInv, Base
  <2>3. r \in Nat /\ Len(cache[p][i]) = e /\ disk'[i] = Recorded(r, e)
    <3>1. r \in Nat
      BY RunFacts DEF IInv, Base
    <3>2. Len(Recorded(r, e)) = e
      BY <3>1, RecordedFacts
    <3>3. QED
      BY <1>5, <2>1, <2>2, <3>1, <3>2
  <2>4. /\ \A s : LatestOf(i, s)' <=> LatestOf(i, s)
        /\ \A s : LatestOf(i, s) => s = r
    BY <1>2, <2>1, LatestUnique DEF LatestOf, IInv, Base
  <2>5. Holds(i, r, e)'
    BY <2>3 DEF Holds
  <2>6. FileFits(i)'
    BY <1>2, <2>1, <2>2, <2>4, <2>5 DEF FileFits
  <2>7. CopiesFit(i)'
    <3>1. \A q \in Processes : i \in DOMAIN cache[q] => flushed'[q][i] \in 0 .. Len(cache[q][i])
      BY <1>3, <2>1, <2>3 DEF IdFits, CopiesFit
    <3>2. QED
      BY <1>2, <2>1, <3>1 DEF IdFits, CopiesFit
  <2>8. PendingFits(i)'
    <3>1. \A q \in Processes : ~ Pending(q, i)'
      BY <1>2, <1>3, <2>1, <2>3 DEF Pending
    <3>2. QED
      BY <3>1 DEF PendingFits
  <2>9. KeptFits(i)'
    BY <1>2, <1>5, <2>1, <2>2, <2>3, <2>4 DEF IdFits, KeptFits
  <2>10. Covered(i)'
    <3>1. \A n \in 1 .. e : e \in n .. e
      BY <2>2
    <3>2. QED
      BY <1>2, <2>2, <2>4, <2>5, <3>1 DEF Covered
  <2>11. QED
    BY <2>1, <2>6, <2>7, <2>8, <2>9, <2>10 DEF IdFits
<1>12. QED
  BY <1>2, <1>4, <1>9, <1>10, <1>11, Assemble

\* A file that parses is all the first lines of its run
LEMMA ParsedFile ==
  ASSUME IInv, NEW i \in DOMAIN disk \ clashes, Parses(disk[i])
  PROVE  \E r \in DOMAIN runs : \E m \in 0 .. runs[r].events :
           LatestOf(i, r) /\ disk[i] = Recorded(r, m)
<1>1. i \in Ids
  BY DEF IInv, Base, Typed
<1>2. PICK r \in DOMAIN runs : LatestOf(i, r) /\ \E m \in 0 .. runs[r].events : Holds(i, r, m)
  BY <1>1 DEF IInv, IdFits, FileFits
<1>3. PICK m \in 0 .. runs[r].events : Holds(i, r, m)
  BY <1>2
<1>4. disk[i] # TornAfter(r, m)
  <2>1. SUFFICES ASSUME disk[i] = TornAfter(r, m) PROVE FALSE
    OBVIOUS
  <2>2. r \in Nat \ {0} /\ m \in Nat
    BY RunFacts DEF IInv, Base
  <2>3. /\ TornAfter(r, m)[m + 1] = Torn /\ Len(TornAfter(r, m)) = m + 1
        /\ TornAfter(r, m) \in Seq(Nat \X Nat)
    BY <2>2, TornFacts
  <2>4. m + 1 \in DOMAIN disk[i]
    BY <2>1, <2>2, <2>3
  <2>5. QED
    BY <2>1, <2>3, <2>4 DEF Parses
<1>5. QED
  BY <1>2, <1>3, <1>4 DEF Holds

LEMMA LoadKeeps ==
  ASSUME IInv, Noticed, NEW p \in Processes, NEW i \in Ids, Load(p, i)
  PROVE  IInv'
<1>1. /\ call[p] = Idle /\ call[p].id = 0 /\ call[p].op = "idle" /\ i # 0
      /\ i \notin DOMAIN cache[p] /\ i \in DOMAIN disk /\ disk[i] \in Lines
      /\ cache' = [cache EXCEPT ![p] = Put(@, i, disk[i])]
      /\ flushed' = [flushed EXCEPT ![p] = Put(@, i, Len(disk[i]))]
      /\ UNCHANGED <<disk, temporary, counter, call, runs, crashes>>
      /\ clashes' \subseteq Ids /\ \A j \in Ids \ clashes' : j \notin clashes /\ ~ Clash(j)'
  BY NoticedFacts DEF Load, Exists, Idle, Call, Ids, IInv, Base, Typed, Contents
<1>2. PICK len \in Nat : len = Len(disk[i])
  BY <1>1 DEF Lines
<1>3. /\ cache = [q \in Processes |-> cache[q]] /\ flushed = [q \in Processes |-> flushed[q]]
      /\ \A q \in Processes : DOMAIN flushed[q] = DOMAIN cache[q]
  BY DEF IInv, Base, Typed
<1>4. /\ cache' = [q \in Processes |-> cache'[q]] /\ flushed' = [q \in Processes |-> flushed'[q]]
      /\ \A q \in Processes \ {p} : cache'[q] = cache[q] /\ flushed'[q] = flushed[q]
      /\ cache'[p] = Put(cache[p], i, disk[i]) /\ flushed'[p] = Put(flushed[p], i, len)
  BY <1>1, <1>2, <1>3
<1>5. /\ DOMAIN cache'[p] = DOMAIN cache[p] \cup {i} /\ cache'[p][i] = disk[i]
      /\ \A j \in DOMAIN cache[p] \ {i} : cache'[p][j] = cache[p][j]
  BY <1>4 DEF Put
<1>6. /\ DOMAIN flushed'[p] = DOMAIN flushed[p] \cup {i} /\ flushed'[p][i] = len
      /\ \A j \in DOMAIN flushed[p] \ {i} : flushed'[p][j] = flushed[p][j]
  BY <1>4 DEF Put
<1>7. Typed' /\ CallTyped(p)' /\ ~ Rewriting(p, i)'
  <2>1. DOMAIN cache'[p] \subseteq Ids /\ DOMAIN flushed'[p] = DOMAIN cache'[p]
    BY <1>3, <1>5, <1>6 DEF IInv, Base, Typed
  <2>2. Typed'
    BY <1>1, <1>4, <2>1 DEF IInv, Base, Typed
  <2>3. QED
    BY <1>1, <2>2 DEF CallTyped, Rewriting, Idle, Call
<1>8. Contents(i)'
  BY <1>1, <1>4, <1>5, <1>6 DEF IInv, Base, Contents
<1>9. Local(p, i)
  <2>1. \A j \in Ids \ {i} : Untouched(j)
    BY <1>1, <1>3, <1>4, <1>5, <1>6 DEF Untouched, DataUntouched, RunsUntouched
  <2>2. QED
    BY <1>1, <1>4, <2>1 DEF Local
<1>10. Base'
  BY <1>1, <1>7, <1>8, <1>9, BaseKept DEF IInv
<1>11. ASSUME i \notin clashes'
       PROVE  IdFits(i)' /\ \A q \in Processes \ {p} : call[q].id = i => CallFits(q)'
  <2>0. i \in DOMAIN disk \ clashes /\ IdFits(i)
    BY <1>1, <1>11 DEF IInv
  <2>1. PICK r \in DOMAIN runs : \E k \in 0 .. runs[r].events : LatestOf(i, r) /\ disk[i] = Recorded(r, k)
    BY <2>0, ParsedFile DEF Load
  <2>2. PICK m \in 0 .. runs[r].events : LatestOf(i, r) /\ disk[i] = Recorded(r, m)
    BY <2>1
  <2>3. r \in Nat /\ m \in Nat /\ runs[r].id = i /\ runs[r].events \in Nat
    BY <2>2, RunFacts DEF IInv, Base, LatestOf
  <2>4. len = m /\ (m = 0 => disk[i] = <<>>)
    <3>1. Len(Recorded(r, m)) = m /\ (m = 0 => Recorded(r, m) = <<>>)
      BY <2>3, RecordedFacts
    <3>2. QED
      BY <1>2, <2>2, <3>1
  <2>5. /\ \A s : LatestOf(i, s)' <=> LatestOf(i, s)
        /\ \A s : LatestOf(i, s) => s = r
        /\ \A q \in Processes \ {p} : /\ Pending(q, i)' <=> Pending(q, i)
                                      /\ Holding(q, i)' <=> Holding(q, i)
                                      /\ \A s : Owns(q, i, s)' <=> Owns(q, i, s)
        /\ ~ Pending(p, i)'
        /\ \A s, k : Holds(i, s, k)' <=> Holds(i, s, k)
    BY <1>1, <1>2, <1>4, <1>5, <1>6, <2>2, <2>3, <2>4, LatestUnique
    DEF LatestOf, IInv, Base, Pending, Holding, Doing, Owns, Holds
  <2>6. ASSUME NEW q \in Processes \ {p}, NEW s \in DOMAIN runs, Unseen(q, i, s)
        PROVE  Unseen(q, i, s)'
    <3>1. disk[i] = <<>>
      BY <1>1, <2>6 DEF Unseen
    <3>2. \A n \in 1 .. runs[s].events : Recorded(s, n) # <<>>
      <4>1. ASSUME NEW n \in 1 .. runs[s].events PROVE Recorded(s, n) # <<>>
        <5>1. s \in Nat /\ n \in Nat /\ n # 0
          BY RunFacts DEF IInv, Base
        <5>2. QED
          BY <5>1, RecordedFacts
      <4>2. QED
        BY <4>1
    <3>3. QED
      BY <1>1, <1>4, <1>5, <2>6, <3>1, <3>2 DEF Unseen
  <2>7. ASSUME NEW q \in Processes \ {p}, call[q].id = i PROVE CallFits(q)'
    <3>1. CallFits(q) /\ CallTyped(q) /\ cache'[q] = cache[q] /\ flushed'[q] = flushed[q]
      BY <1>4, <2>0, <2>7 DEF IInv, Base
    <3>2. QED
      BY <1>1, <2>5, <2>6, <2>7, <3>1 DEF CallFits, CallTyped, Log
  <2>8. FileFits(i)'
    BY <1>1, <2>0, <2>5 DEF IdFits, FileFits
  <2>9. CopiesFit(i)'
    <3>1. m = 0 \/ m \in 1 .. runs[r].events
      BY <2>3
    <3>2. QED
      BY <1>1, <1>2, <1>4, <1>5, <1>6, <2>0, <2>2, <2>3, <2>4, <3>1 DEF IdFits, CopiesFit
  <2>10. PendingFits(i)'
    <3>1. SUFFICES ASSUME NEW q \in Processes, Pending(q, i)'
                   PROVE  \E s \in DOMAIN runs : Owns(q, i, s)' /\ (Doing(q, "flush", i)' \/ Unseen(q, i, s)')
      BY <1>1 DEF PendingFits
    <3>2. q # p /\ Pending(q, i)
      BY <2>5, <3>1
    <3>3. PICK s \in DOMAIN runs : Owns(q, i, s) /\ (Doing(q, "flush", i) \/ Unseen(q, i, s))
      BY <2>0, <3>2 DEF IdFits, PendingFits
    <3>4. QED
      BY <1>1, <2>5, <2>6, <3>2, <3>3 DEF Doing
  <2>11. KeptFits(i)'
    BY <1>1, <2>0, <2>5 DEF IdFits, KeptFits
  <2>12. Covered(i)'
    <3>1. SUFFICES ASSUME NEW q \in Processes, i \in DOMAIN cache'[q], ~ Holding(q, i)',
                          NEW n \in 1 .. runs[r].events, cache'[q][i] = Recorded(r, n)
                   PROVE  \E k \in n .. runs[r].events : Holds(i, r, k)
      BY <1>1, <2>5 DEF Covered
    <3>2. CASE q = p
      <4>1. Holds(i, r, n) /\ n \in n .. runs[r].events
        BY <1>5, <2>3, <3>1, <3>2 DEF Holds
      <4>2. QED
        BY <4>1
    <3>3. CASE q # p
      <4>1. i \in DOMAIN cache[q] /\ ~ Holding(q, i) /\ cache[q][i] = Recorded(r, n)
        BY <1>4, <2>5, <3>1, <3>3
      <4>2. QED
        BY <1>1, <2>0, <2>2, <2>3, <4>1 DEF IdFits, Covered
    <3>4. QED
      BY <3>2, <3>3
  <2>13. QED
    BY <2>7, <2>8, <2>9, <2>10, <2>11, <2>12 DEF IdFits
<1>12. QED
  BY <1>1, <1>9, <1>10, <1>11, Assemble

LEMMA DeleteKeeps ==
  ASSUME IInv, Noticed, NEW p \in Processes, NEW i \in Ids, Delete(p, i)
  PROVE  IInv'
<1>1. /\ call[p] = Idle /\ call[p].id = 0 /\ i # 0 /\ \A q \in Processes : call[q].id # i
      /\ disk' = Pop(disk, i)
      /\ cache' = [cache EXCEPT ![p] = Pop(@, i)]
      /\ flushed' = [flushed EXCEPT ![p] = Pop(@, i)]
      /\ runs' = [r \in DOMAIN runs |->
                    IF runs[r].id = i THEN [runs[r] EXCEPT !.outcome = "deleted"] ELSE runs[r]]
      /\ UNCHANGED <<temporary, counter, call, crashes>>
      /\ clashes' \subseteq Ids /\ \A j \in Ids \ clashes' : j \notin clashes /\ ~ Clash(j)'
  BY NoticedFacts DEF Delete, InUse, Idle, Call, Ids, IInv, Base, Typed
<1>2. /\ cache = [q \in Processes |-> cache[q]] /\ flushed = [q \in Processes |-> flushed[q]]
      /\ \A q \in Processes : DOMAIN flushed[q] = DOMAIN cache[q] /\ DOMAIN cache[q] \subseteq Ids
  BY DEF IInv, Base, Typed
<1>3. /\ cache' = [q \in Processes |-> cache'[q]] /\ flushed' = [q \in Processes |-> flushed'[q]]
      /\ \A q \in Processes \ {p} : cache'[q] = cache[q] /\ flushed'[q] = flushed[q]
      /\ cache'[p] = Pop(cache[p], i) /\ flushed'[p] = Pop(flushed[p], i)
  BY <1>1, <1>2
<1>4. /\ DOMAIN cache'[p] = DOMAIN cache[p] \ {i}
      /\ \A j \in DOMAIN cache[p] \ {i} : cache'[p][j] = cache[p][j]
  BY <1>3 DEF Pop, Restrict
<1>5. /\ DOMAIN flushed'[p] = DOMAIN flushed[p] \ {i}
      /\ \A j \in DOMAIN flushed[p] \ {i} : flushed'[p][j] = flushed[p][j]
  BY <1>3 DEF Pop, Restrict
<1>6. DOMAIN disk' = DOMAIN disk \ {i} /\ \A j \in DOMAIN disk \ {i} : disk'[j] = disk[j]
  BY <1>1 DEF Pop, Restrict
<1>7. /\ runs' \in Seq(RunRecord) /\ Len(runs') = Len(runs) /\ DOMAIN runs' = DOMAIN runs
      /\ \A r \in DOMAIN runs : runs'[r].id = runs[r].id /\ runs'[r].events = runs[r].events
      /\ \A r \in DOMAIN runs : IF runs[r].id = i THEN runs'[r].outcome = "deleted"
                                                  ELSE runs'[r] = runs[r]
  <2>1. runs \in Seq(RunRecord) /\ \A r \in DOMAIN runs : runs[r] \in RunRecord
    BY RunFacts DEF IInv, Base, Typed
  <2>2. \A x \in RunRecord : LET y == [x EXCEPT !.outcome = "deleted"]
          IN y \in RunRecord /\ y.id = x.id /\ y.events = x.events /\ y.outcome = "deleted"
    BY DEF RunRecord, Outcome
  <2>3. /\ runs' = [r \in DOMAIN runs |-> runs'[r]]
        /\ \A r \in DOMAIN runs : runs'[r] = IF runs[r].id = i THEN [runs[r] EXCEPT !.outcome = "deleted"]
                                                                ELSE runs[r]
    BY <1>1
  <2>4. \A r \in DOMAIN runs : runs'[r] \in RunRecord
    BY <2>1, <2>2, <2>3
  <2>5. runs' \in Seq(RunRecord) /\ Len(runs') = Len(runs) /\ DOMAIN runs' = DOMAIN runs
    <3> DEFINE f == runs'
    <3>1. f = [r \in DOMAIN runs |-> f[r]] /\ \A r \in DOMAIN runs : f[r] \in RunRecord
      BY <2>3, <2>4
    <3> HIDE DEF f
    <3>2. f \in Seq(RunRecord) /\ Len(f) = Len(runs) /\ DOMAIN f = DOMAIN runs
      BY <2>1, <3>1, SameLength
    <3>3. QED
      BY <3>2 DEF f
  <2>6. ASSUME NEW r \in DOMAIN runs
        PROVE  /\ runs'[r].id = runs[r].id /\ runs'[r].events = runs[r].events
               /\ IF runs[r].id = i THEN runs'[r].outcome = "deleted" ELSE runs'[r] = runs[r]
    <3>1. CASE runs[r].id = i
      BY <2>1, <2>2, <2>3, <3>1
    <3>2. CASE runs[r].id # i
      BY <2>3, <3>2
    <3>3. QED
      BY <3>1, <3>2
  <2>7. QED
    BY <2>5, <2>6
<1>8. Typed' /\ CallTyped(p)' /\ ~ Rewriting(p, i)'
  <2>1. Typed'
    BY <1>1, <1>2, <1>3, <1>4, <1>5, <1>6, <1>7 DEF IInv, Base, Typed
  <2>2. QED
    BY <1>1, <2>1 DEF CallTyped, Rewriting, Idle, Call
<1>9. Contents(i)'
  <2>1. \A q \in Processes \ {p} : cache'[q] = cache[q] /\ flushed'[q] = flushed[q]
    BY <1>3
  <2>2. i \notin DOMAIN cache'[p] /\ i \notin DOMAIN disk' /\ temporary' = temporary
    BY <1>1, <1>4, <1>6
  <2>3. QED
    BY <2>1, <2>2 DEF IInv, Base, Contents
<1>10. Local(p, i)
  <2>1. \A j \in Ids \ {i} : Untouched(j)
    BY <1>1, <1>2, <1>3, <1>4, <1>5, <1>6, <1>7 DEF Untouched, DataUntouched, RunsUntouched
  <2>2. QED
    BY <1>1, <1>3, <1>7, <2>1 DEF Local
<1>11. Base'
  BY <1>1, <1>8, <1>9, <1>10, BaseKept DEF IInv
<1>12. ASSUME i \notin clashes' PROVE IdFits(i)'
  <2>0. IdFits(i)
    BY <1>1, <1>12 DEF IInv
  <2>1. FileFits(i)' /\ Covered(i)'
    BY <1>6 DEF FileFits, Covered
  <2>2. CopiesFit(i)'
    <3>1. ASSUME NEW q \in Processes, i \in DOMAIN cache'[q]
          PROVE  q # p /\ i \in DOMAIN cache[q] /\ cache'[q] = cache[q] /\ flushed'[q] = flushed[q]
      BY <1>3, <1>4, <3>1
    <3>2. CopiesFit(i)
      BY <2>0 DEF IdFits
    <3>3. QED
      BY <1>7, <3>1, <3>2 DEF CopiesFit
  <2>3. ASSUME NEW q \in Processes, Pending(q, i)'
        PROVE  \E s \in DOMAIN runs : Owns(q, i, s)' /\ Unseen(q, i, s)'
    <3>1. q # p /\ Pending(q, i) /\ ~ Doing(q, "flush", i)
      BY <1>1, <1>3, <1>4, <2>3 DEF Pending, Doing
    <3>2. PICK s \in DOMAIN runs : Owns(q, i, s) /\ Unseen(q, i, s)
      BY <2>0, <3>1 DEF IdFits, PendingFits
    <3>3. LatestOf(i, s)'
      BY <1>7, <3>2 DEF Owns, LatestOf
    <3>4. Owns(q, i, s)'
      BY <1>3, <1>7, <3>1, <3>2, <3>3 DEF Owns, LatestOf
    <3>5. Unseen(q, i, s)'
      BY <1>3, <1>4, <1>6, <1>7, <3>2 DEF Unseen
    <3>6. QED
      BY <3>4, <3>5
  <2>4. PendingFits(i)'
    BY <1>7, <2>3 DEF PendingFits
  <2>5. KeptFits(i)'
    BY <1>7 DEF KeptFits
  <2>6. QED
    BY <2>1, <2>2, <2>4, <2>5 DEF IdFits
<1>13. QED
  BY <1>1, <1>10, <1>11, <1>12, Assemble

\* The half of a line a process was writing when it died
Tears(p) ==
  /\ call[p].op = "flush" /\ call[p].at < Len(Log(p))
  /\ disk' = [disk EXCEPT ![call[p].id] = Append(@, Torn)]

\* A process forgets all it had in memory: it is evicted, or the process ends
LEMMA ForgettingKeeps ==
  ASSUME IInv, Noticed, NEW p \in Processes,
         cache' = [cache EXCEPT ![p] = <<>>],
         flushed' = [flushed EXCEPT ![p] = <<>>],
         counter' \in [Processes -> 0 .. MaxIds],
         call' = [call EXCEPT ![p] = Idle],
         runs' = [r \in DOMAIN runs |->
                    IF r = call[p].run THEN [runs[r] EXCEPT !.outcome = "died"] ELSE runs[r]],
         UNCHANGED disk \/ Tears(p),
         UNCHANGED temporary
  PROVE  IInv'
<1>0. clashes' \subseteq Ids /\ \A j \in Ids \ clashes' : j \notin clashes /\ ~ Clash(j)'
  BY NoticedFacts DEF IInv, Base, Typed
<1>1. /\ cache = [q \in Processes |-> cache[q]] /\ flushed = [q \in Processes |-> flushed[q]]
      /\ \A q \in Processes : DOMAIN flushed[q] = DOMAIN cache[q] /\ DOMAIN cache[q] \subseteq Ids
  BY DEF IInv, Base, Typed
<1>2. /\ cache' = [q \in Processes |-> cache'[q]] /\ flushed' = [q \in Processes |-> flushed'[q]]
      /\ \A q \in Processes \ {p} : cache'[q] = cache[q] /\ flushed'[q] = flushed[q]
      /\ DOMAIN cache'[p] = {} /\ DOMAIN flushed'[p] = {}
  <2>1. /\ cache' = [q \in Processes |-> cache'[q]] /\ flushed' = [q \in Processes |-> flushed'[q]]
        /\ \A q \in Processes \ {p} : cache'[q] = cache[q] /\ flushed'[q] = flushed[q]
        /\ cache'[p] = <<>> /\ flushed'[p] = <<>>
    BY <1>1
  <2>2. DOMAIN <<>> = {}
    OBVIOUS
  <2>3. QED
    BY <2>1, <2>2
<1>3. /\ runs' \in Seq(RunRecord) /\ Len(runs') = Len(runs) /\ DOMAIN runs' = DOMAIN runs
      /\ \A r \in DOMAIN runs : /\ runs'[r].id = runs[r].id /\ runs'[r].events = runs[r].events
                                /\ IF r = call[p].run THEN runs'[r].outcome = "died"
                                                      ELSE runs'[r] = runs[r]
  <2>1. runs \in Seq(RunRecord) /\ \A r \in DOMAIN runs : runs[r] \in RunRecord
    BY RunFacts DEF IInv, Base, Typed
  <2>2. \A x \in RunRecord : LET y == [x EXCEPT !.outcome = "died"]
          IN y \in RunRecord /\ y.id = x.id /\ y.events = x.events /\ y.outcome = "died"
    BY DEF RunRecord, Outcome
  <2>3. /\ runs' = [r \in DOMAIN runs |-> runs'[r]]
        /\ \A r \in DOMAIN runs : runs'[r] = IF r = call[p].run THEN [runs[r] EXCEPT !.outcome = "died"]
                                                                ELSE runs[r]
    OBVIOUS
  <2>4. \A r \in DOMAIN runs : runs'[r] \in RunRecord
    BY <2>1, <2>2, <2>3
  <2>5. runs' \in Seq(RunRecord) /\ Len(runs') = Len(runs) /\ DOMAIN runs' = DOMAIN runs
    <3> DEFINE f == runs'
    <3>1. f = [r \in DOMAIN runs |-> f[r]] /\ \A r \in DOMAIN runs : f[r] \in RunRecord
      BY <2>3, <2>4
    <3> HIDE DEF f
    <3>2. f \in Seq(RunRecord) /\ Len(f) = Len(runs) /\ DOMAIN f = DOMAIN runs
      BY <2>1, <3>1, SameLength
    <3>3. QED
      BY <3>2 DEF f
  <2>6. ASSUME NEW r \in DOMAIN runs
        PROVE  /\ runs'[r].id = runs[r].id /\ runs'[r].events = runs[r].events
               /\ IF r = call[p].run THEN runs'[r].outcome = "died" ELSE runs'[r] = runs[r]
    <3>1. CASE r = call[p].run
      BY <2>1, <2>2, <2>3, <3>1
    <3>2. CASE r # call[p].run
      BY <2>3, <3>2
    <3>3. QED
      BY <3>1, <3>2
  <2>7. QED
    BY <2>5, <2>6
<1>4. /\ call' \in [Processes -> CallRecord] /\ call'[p] = Idle /\ call'[p].id = 0
      /\ \A q \in Processes \ {p} : call'[q] = call[q]
  BY CallFacts DEF IInv, Idle, Call
<1>5. \A i, s : LatestOf(i, s)' <=> LatestOf(i, s)
  BY <1>3 DEF LatestOf
<1>6. call[p].run \in DOMAIN runs => runs[call[p].run].id = call[p].id
  <2>1. CallTyped(p) /\ 0 \notin DOMAIN runs
    BY RunFacts DEF IInv, Base
  <2>2. QED
    BY <2>1 DEF CallTyped
\* What may be torn is the file the process was writing
<1>7. /\ DOMAIN disk' = DOMAIN disk
      /\ \A j \in DOMAIN disk :
           disk'[j] = disk[j] \/ (call[p].op = "flush" /\ j = call[p].id /\ disk'[j] = Append(disk[j], Torn))
  BY DEF Tears
<1>8. Typed'
  BY <1>0, <1>1, <1>2, <1>3, <1>4, <1>7 DEF IInv, Base, Typed
<1>9. \A j \in Ids : Contents(j)'
  <2>1. ASSUME NEW j \in Ids, j \in DOMAIN disk PROVE disk'[j] \in Lines
    <3>1. Torn \in Nat \X Nat /\ disk[j] \in Lines
      BY <2>1 DEF Torn, IInv, Base, Contents
    <3>2. \A s \in Lines, x \in Nat \X Nat : Append(s, x) \in Lines
      BY DEF Lines
    <3>3. QED
      BY <1>7, <2>1, <3>1, <3>2
  <2>2. QED
    BY <1>2, <1>7, <2>1 DEF IInv, Base, Contents
<1>10. Base'
  <2>1. CallTyped(p)'
    BY <1>4 DEF CallTyped, Idle, Call
  <2>2. ASSUME NEW q \in Processes, q # p PROVE CallTyped(q)'
    <3>1. CallTyped(q) /\ call'[q] = call[q] /\ cache'[q] = cache[q] /\ temporary' = temporary
      BY <1>2, <1>4, <2>2 DEF IInv, Base
    <3>2. QED
      BY <1>3, <3>1 DEF CallTyped
  <2>3. \A q \in Processes : CallTyped(q)'
    BY <2>1, <2>2
  <2>4. ASSUME NEW q \in Processes, NEW s \in Processes, NEW j \in Ids, Rewriting(q, j)', Rewriting(s, j)'
        PROVE  q = s
    BY <1>4, <2>4 DEF IInv, Base, Rewriting, Idle, Call
  <2>5. QED
    BY <1>8, <1>9, <2>3, <2>4 DEF Base
<1>11. ASSUME NEW i \in DOMAIN disk \ clashes, disk'[i] # disk[i]
       PROVE  \E r \in DOMAIN runs, e \in Nat, at \in Nat :
                /\ Flushing(p, i, r, e) /\ at < e
                /\ disk[i] = Recorded(r, at) /\ disk'[i] = TornAfter(r, at)
  <2>1. Tears(p) /\ call[p].op = "flush" /\ call[p].id = i
    BY <1>7, <1>11 DEF Tears
  <2>2. PICK j \in Ids, r \in DOMAIN runs, e \in Nat : Flushing(p, j, r, e)
    BY <1>11, <2>1, FlushFacts
  <2>3. i = j
    BY <2>1, <2>2 DEF Flushing
  <2>4. /\ call[p].at \in Nat /\ call[p].at < e /\ disk[i] = Recorded(r, call[p].at)
        /\ disk'[i] = Append(disk[i], Torn)
    <3>1. call[p].at \in Nat /\ disk[i] = Recorded(r, call[p].at) /\ Len(Log(p)) = e /\ i \in DOMAIN disk
      BY <2>2, <2>3 DEF Flushing
    <3>2. call[p].at < Len(Log(p)) /\ disk' = [disk EXCEPT ![i] = Append(@, Torn)]
      BY <2>1 DEF Tears
    <3>3. QED
      BY <3>1, <3>2
  <2>5. QED
    BY <2>2, <2>3, <2>4 DEF TornAfter
<1>12. ASSUME NEW i \in DOMAIN disk \ clashes, NEW s \in DOMAIN runs, LatestOf(i, s),
              NEW m \in 0 .. runs[s].events, Holds(i, s, m)
       PROVE  Holds(i, s, m)'
  <2>1. CASE disk'[i] = disk[i]
    BY <1>3, <1>12, <2>1 DEF Holds
  <2>2. CASE disk'[i] # disk[i]
    <3>1. PICK r \in DOMAIN runs, e \in Nat, at \in Nat :
               /\ Flushing(p, i, r, e) /\ at < e
               /\ disk[i] = Recorded(r, at) /\ disk'[i] = TornAfter(r, at)
      BY <1>11, <2>2
    <3>2. s = r /\ e = runs[r].events /\ r \in Nat \ {0} /\ m \in Nat
      BY <1>12, <3>1, LatestUnique DEF Flushing, IInv, Base
    <3>3. Recorded(r, m) = Recorded(r, at)
      <4>1. TornAfter(r, m) # Recorded(r, at)
        BY <3>1, <3>2, TornDiffers
      <4>2. QED
        BY <1>12, <3>1, <3>2, <4>1 DEF Holds
    <3>4. m = at
      BY <3>1, <3>2, <3>3, RecordedDiffers
    <3>5. QED
      BY <1>3, <3>1, <3>2, <3>4 DEF Holds
  <2>3. QED
    BY <2>1, <2>2
<1>13. ASSUME NEW q \in Processes \ {p}, NEW i \in Ids \ clashes
       PROVE  /\ Pending(q, i)' <=> Pending(q, i)
              /\ Holding(q, i)' <=> Holding(q, i)
              /\ \A s \in DOMAIN runs : Owns(q, i, s) => Owns(q, i, s)'
              /\ \A s \in DOMAIN runs : Uses(q, i) /\ Unseen(q, i, s) => Unseen(q, i, s)'
  <2>1. Pending(q, i)' <=> Pending(q, i)
    BY <1>2, <1>4 DEF Pending
  <2>2. Holding(q, i)' <=> Holding(q, i)
    BY <1>4, <2>1 DEF Holding, Doing
  <2>3. \A s \in DOMAIN runs : Owns(q, i, s) => Owns(q, i, s)'
    BY <1>2, <1>3, <1>5 DEF Owns
  <2>4. Uses(q, i) /\ i \in DOMAIN disk => disk'[i] = disk[i]
    BY <1>7, OneUser DEF Uses
  <2>5. \A s \in DOMAIN runs : Uses(q, i) /\ Unseen(q, i, s) => Unseen(q, i, s)'
    BY <1>2, <1>3, <1>7, <2>4 DEF Unseen
  <2>6. QED
    BY <2>1, <2>2, <2>3, <2>5
<1>14. ASSUME NEW i \in Ids \ clashes' PROVE IdFits(i)'
  <2>1. IdFits(i) /\ i \in Ids \ clashes
    BY <1>0 DEF IInv
  <2>2. FileFits(i)'
    <3>1. SUFFICES ASSUME i \in DOMAIN disk
                   PROVE  \E r \in DOMAIN runs' :
                            LatestOf(i, r)' /\ \E m \in 0 .. runs'[r].events : Holds(i, r, m)'
      BY <1>7 DEF FileFits
    <3>2. PICK r \in DOMAIN runs : LatestOf(i, r) /\ \E m \in 0 .. runs[r].events : Holds(i, r, m)
      BY <2>1, <3>1 DEF IdFits, FileFits
    <3>3. PICK m \in 0 .. runs[r].events : Holds(i, r, m)
      BY <3>2
    <3>4. Holds(i, r, m)' /\ LatestOf(i, r)' /\ runs'[r].events = runs[r].events
      BY <1>3, <1>5, <1>12, <2>1, <3>1, <3>2, <3>3
    <3>5. QED
      BY <1>3, <3>4
  <2>3. CopiesFit(i)'
    <3>1. ASSUME NEW q \in Processes, i \in DOMAIN cache'[q]
          PROVE  q # p /\ i \in DOMAIN cache[q] /\ cache'[q] = cache[q] /\ flushed'[q] = flushed[q]
      BY <1>2, <3>1
    <3>2. CopiesFit(i)
      BY <2>1 DEF IdFits
    <3>3. QED
      BY <1>3, <3>1, <3>2 DEF CopiesFit
  <2>4. PendingFits(i)'
    <3>1. SUFFICES ASSUME NEW q \in Processes, Pending(q, i)'
                   PROVE  \E s \in DOMAIN runs :
                            Owns(q, i, s)' /\ (Doing(q, "flush", i)' \/ Unseen(q, i, s)')
      BY <1>3 DEF PendingFits
    <3>2. q \in Processes \ {p}
      BY <1>2, <3>1 DEF Pending
    <3>3. Pending(q, i)
      BY <1>13, <2>1, <3>1, <3>2
    <3>4. PICK s \in DOMAIN runs : Owns(q, i, s) /\ (Doing(q, "flush", i) \/ Unseen(q, i, s))
      BY <2>1, <3>3 DEF IdFits, PendingFits
    <3>5. Uses(q, i) /\ (Doing(q, "flush", i)' <=> Doing(q, "flush", i))
      BY <1>4, <3>2, <3>3 DEF Uses, Doing
    <3>6. QED
      BY <1>13, <2>1, <3>2, <3>4, <3>5
  <2>5. KeptFits(i)'
    <3>1. SUFFICES ASSUME NEW r \in DOMAIN runs, runs'[r].id = i, runs'[r].outcome = "kept"
                   PROVE  LatestOf(i, r)' /\ i \in DOMAIN disk' /\ disk'[i] = Recorded(r, runs'[r].events)
      BY <1>3 DEF KeptFits
    <3>2. runs'[r] = runs[r]
      BY <1>3, <3>1
    <3>3. LatestOf(i, r) /\ i \in DOMAIN disk /\ disk[i] = Recorded(r, runs[r].events)
      BY <2>1, <3>1, <3>2 DEF IdFits, KeptFits
    <3>4. disk'[i] = disk[i]
      <4>1. SUFFICES ASSUME disk'[i] # disk[i] PROVE FALSE
        OBVIOUS
      <4>2. PICK s \in DOMAIN runs, e \in Nat : Flushing(p, i, s, e)
        BY <1>11, <2>1, <3>3, <4>1
      <4>3. s = r
        BY <3>3, <4>2, LatestUnique DEF Flushing, IInv, Base
      <4>4. QED
        BY <3>1, <3>2, <4>2, <4>3 DEF Flushing
    <3>5. QED
      BY <1>5, <1>7, <3>2, <3>3, <3>4
  <2>6. Covered(i)'
    <3>1. SUFFICES ASSUME NEW q \in Processes, NEW r \in DOMAIN runs, LatestOf(i, r),
                          i \in DOMAIN disk, i \in DOMAIN cache'[q], ~ Holding(q, i)',
                          NEW n \in 1 .. runs[r].events, cache'[q][i] = Recorded(r, n)
                   PROVE  \E m \in n .. runs[r].events : Holds(i, r, m)'
      BY <1>3, <1>5, <1>7 DEF Covered
    <3>2. q # p /\ i \in DOMAIN cache[q] /\ ~ Holding(q, i) /\ cache[q][i] = Recorded(r, n)
      BY <1>2, <1>13, <2>1, <3>1
    <3>3. PICK m \in n .. runs[r].events : Holds(i, r, m)
      BY <2>1, <3>1, <3>2 DEF IdFits, Covered
    <3>4. Holds(i, r, m)'
      BY <1>12, <2>1, <3>1, <3>3
    <3>5. QED
      BY <3>4
  <2>7. QED
    BY <2>2, <2>3, <2>4, <2>5, <2>6 DEF IdFits
<1>15. ASSUME NEW q \in Processes, q # p, call[q].id \notin clashes' PROVE CallFits(q)'
  <2>1. /\ CallTyped(q) /\ call'[q] = call[q] /\ cache'[q] = cache[q]
        /\ flushed'[q] = flushed[q]
    BY <1>2, <1>4, <1>15 DEF IInv, Base
  <2>2. CASE call[q].op = "idle"
    BY <2>1, <2>2 DEF CallFits
  <2>3. CASE call[q].op # "idle"
    <3>0. PICK i \in Ids : i = call[q].id
      BY <2>1, <2>3 DEF CallTyped
    <3>1. i \in Ids \ clashes /\ Uses(q, i) /\ CallFits(q) /\ call[p].id # i
      BY <1>0, <1>15, <3>0, OneUser DEF IInv, Uses
    <3>2. /\ i \in DOMAIN disk' <=> i \in DOMAIN disk
          /\ i \in DOMAIN disk => disk'[i] = disk[i]
      BY <1>7, <3>1
    <3>3. \A s \in DOMAIN runs : runs[s].id = i => runs'[s] = runs[s]
      BY <1>3, <1>6, <3>1
    <3>4. \A s \in DOMAIN runs :
             /\ Owns(q, i, s) => Owns(q, i, s)'
             /\ Unseen(q, i, s) => Unseen(q, i, s)'
             /\ LatestOf(i, s) => LatestOf(i, s)'
      BY <1>5, <1>13, <1>15, <3>1
    <3>5. Pending(q, i)' <=> Pending(q, i)
      BY <1>13, <1>15, <3>1
    <3>6. CASE call[q].op \in {"create", "truncate"}
      BY <2>1, <3>0, <3>1, <3>2, <3>6 DEF CallFits, Log
    <3>7. CASE call[q].op = "run"
      <4>1. /\ call[q].run \in DOMAIN runs /\ runs[call[q].run].outcome = "running"
            /\ i \in DOMAIN disk
            /\ Owns(q, i, call[q].run) /\ Unseen(q, i, call[q].run)
            /\ runs[call[q].run].id = i
        BY <2>1, <3>0, <3>1, <3>7 DEF CallFits, CallTyped
      <4>2. PICK s \in DOMAIN runs : s = call[q].run
        BY <4>1
      <4>3. Owns(q, i, s)' /\ Unseen(q, i, s)' /\ runs'[s].outcome = "running" /\ s \in DOMAIN runs'
        BY <1>3, <3>3, <3>4, <4>1, <4>2
      <4>4. QED
        BY <2>1, <3>0, <3>2, <3>7, <4>1, <4>2, <4>3 DEF CallFits
    <3>8. CASE call[q].op = "flush"
      <4>1. /\ i \in DOMAIN disk /\ Pending(q, i) /\ call[q].at \in 0 .. Len(cache[q][i])
            /\ \E s \in DOMAIN runs : /\ Owns(q, i, s) /\ call[q].run \in {0, s}
                                      /\ disk[i] = Recorded(s, call[q].at)
        BY <3>0, <3>1, <3>8 DEF CallFits, Log
      <4>2. \E s \in DOMAIN runs' : /\ Owns(q, i, s)' /\ call'[q].run \in {0, s}
                                    /\ disk'[i] = Recorded(s, call'[q].at)
        BY <1>3, <2>1, <3>2, <3>4, <4>1
      <4>3. QED
        BY <2>1, <3>0, <3>2, <3>5, <3>8, <4>1, <4>2 DEF CallFits, Log
    <3>9. CASE call[q].op \in {"write", "replace"}
      <4>1. /\ i \in DOMAIN disk
            /\ \E s \in DOMAIN runs : LatestOf(i, s) /\ cache[q][i] = Recorded(s, runs[s].events)
            /\ call[q].op = "replace" => temporary[i] = cache[q][i]
        BY <3>0, <3>1, <3>9 DEF CallFits, Log
      <4>2. \E s \in DOMAIN runs' : LatestOf(i, s)' /\ cache'[q][i] = Recorded(s, runs'[s].events)
        BY <1>3, <2>1, <3>4, <4>1
      <4>3. QED
        BY <2>1, <3>0, <3>2, <3>9, <4>1, <4>2 DEF CallFits, Log
    <3>10. call[q].op \in Op
      BY DEF IInv, Base, Typed, CallRecord
    <3>11. QED
      BY <2>3, <3>6, <3>7, <3>8, <3>9, <3>10 DEF Op
  <2>4. QED
    BY <2>2, <2>3
<1>16. CallFits(p)'
  BY <1>4 DEF CallFits, Idle, Call
<1>17. QED
  BY <1>0, <1>4, <1>10, <1>14, <1>15, <1>16 DEF IInv

LEMMA FinishKeeps ==
  ASSUME IInv, Noticed, NEW p \in Processes, Record(p) \/ Finish(p)
  PROVE  IInv'
<1>1. CASE Record(p)
  <2>1. call' = [call EXCEPT ![p].op = "run", ![p].at = @]
    BY <1>1 DEF Record, IInv, Base, Typed, CallRecord
  <2>2. QED
    BY <1>1, <2>1, RecordLineKeeps DEF Record
<1>2. CASE Finish(p)
  BY <1>2, RecordLineKeeps DEF Finish
<1>3. QED
  BY <1>1, <1>2

LEMMA EndKeeps ==
  ASSUME IInv, Noticed, NEW p \in Processes, FlushRaises(p) \/ Crash(p)
  PROVE  IInv'
<1>1. Exit(p) /\ (UNCHANGED disk \/ Tears(p)) /\ UNCHANGED temporary
  BY DEF FlushRaises, Crash, Tears
<1>2. counter' \in [Processes -> 0 .. MaxIds]
  BY <1>1, BoundsAssumption DEF Exit, IInv, Base, Typed
<1>3. QED
  BY <1>1, <1>2, ForgettingKeeps DEF Exit, Return

LEMMA EvictKeeps ==
  ASSUME IInv, Noticed, NEW p \in Processes, Evict(p)
  PROVE  IInv'
<1>1. /\ call[p] = Idle /\ cache' = [cache EXCEPT ![p] = <<>>]
      /\ flushed' = [flushed EXCEPT ![p] = <<>>]
      /\ UNCHANGED <<disk, temporary, counter, call, runs, crashes>>
  BY DEF Evict
<1>2. call' = [call EXCEPT ![p] = Idle] /\ counter' \in [Processes -> 0 .. MaxIds]
  BY <1>1 DEF IInv, Base, Typed
<1>3. call[p].run \notin DOMAIN runs
  BY <1>1, RunFacts DEF IInv, Base, Idle, Call
<1>4. runs' = [r \in DOMAIN runs |->
                 IF r = call[p].run THEN [runs[r] EXCEPT !.outcome = "died"] ELSE runs[r]]
  BY <1>1, <1>3 DEF IInv, Base, Typed
<1>5. QED
  BY <1>1, <1>2, <1>4, ForgettingKeeps

LEMMA InitFits == Init => IInv
<1>1. SUFFICES ASSUME Init PROVE IInv
  OBVIOUS
<1>2. DOMAIN <<>> = {} /\ <<>> \in Seq(RunRecord) /\ Len(<<>>) = 0
  OBVIOUS
<1>3. \A p \in Processes : /\ cache[p] = <<>> /\ flushed[p] = <<>> /\ DOMAIN cache[p] = {}
                           /\ call[p] = Idle
  BY <1>1, <1>2 DEF Init
<1>4. Idle \in CallRecord
  BY DEF Idle, Call, CallRecord, Op
<1>5. Typed
  <2>1. counter \in [Processes -> 0 .. MaxIds] /\ 0 <= MaxRuns
    BY <1>1, BoundsAssumption DEF Init
  <2>2. call \in [Processes -> CallRecord]
    BY <1>1, <1>4 DEF Init
  <2>3. cache = [p \in Processes |-> cache[p]] /\ flushed = [p \in Processes |-> flushed[p]]
    BY <1>1 DEF Init
  <2>4. disk = <<>> /\ runs = <<>> /\ clashes = {}
    BY <1>1 DEF Init
  <2>5. QED
    BY <1>2, <1>3, <2>1, <2>2, <2>3, <2>4 DEF Typed
<1>6. DOMAIN disk = {} /\ DOMAIN runs = {} /\ DOMAIN temporary = {}
  BY <1>1, <1>2 DEF Init
<1>7. Base
  <2>1. \A i \in Ids : Contents(i)
    BY <1>3, <1>6 DEF Contents
  <2>2. \A p \in Processes : CallTyped(p) /\ \A i \in Ids : ~ Rewriting(p, i)
    BY <1>3 DEF CallTyped, Rewriting, Idle, Call
  <2>3. QED
    BY <1>5, <2>1, <2>2 DEF Base
<1>8. \A i \in Ids : ~ Clash(i)
  BY <1>3 DEF Clash, Uses, Pending, Idle, Call, Ids
<1>9. \A i \in Ids : IdFits(i)
  BY <1>3, <1>6 DEF IdFits, FileFits, CopiesFit, PendingFits, Pending, KeptFits, Covered
<1>10. \A p \in Processes : CallFits(p)
  BY <1>3 DEF CallFits, Idle, Call
<1>11. QED
  BY <1>7, <1>8, <1>9, <1>10 DEF IInv

LEMMA StepKeeps == IInv /\ [Next]_vars => IInv'
<1>1. SUFFICES ASSUME IInv, [Next]_vars PROVE IInv'
  OBVIOUS
<1>2. CASE UNCHANGED vars
  <2>1. UNCHANGED Base
    BY <1>2 DEF vars, Base, Typed, Contents, CallTyped, Rewriting
  <2>2. UNCHANGED <<call, clashes>>
    BY <1>2 DEF vars
  <2>3. \A i \in Ids : UNCHANGED <<Clash(i), IdFits(i)>>
    BY <1>2 DEF vars, Clash, Uses, Pending, IdFits, FileFits, CopiesFit, PendingFits, KeptFits, Covered,
       LatestOf, Holds, Owns, Unseen, Holding, Doing
  <2>4. \A p \in Processes : UNCHANGED CallFits(p)
    BY <1>2 DEF vars, CallFits, Pending, LatestOf, Owns, Unseen, Log
  <2>5. QED
    BY <1>1, <2>1, <2>2, <2>3, <2>4 DEF IInv
<1>3. ASSUME Noticed, NEW p \in Processes,
             \/ TryId(p) \/ Create(p) \/ Truncate(p)
             \/ Record(p) \/ Finish(p) \/ Abandon(p)
             \/ FlushLine(p) \/ EndFlush(p) \/ FlushRaises(p)
             \/ Evict(p) \/ FillTemporary(p) \/ ReplaceFile(p) \/ Crash(p)
      PROVE  IInv'
  BY <1>1, <1>3, TryIdKeeps, CreateKeeps, TruncateKeeps, FinishKeeps, AbandonKeeps, FlushLineKeeps,
     EndFlushKeeps, EndKeeps, EvictKeeps, FillTemporaryKeeps, ReplaceFileKeeps
<1>4. ASSUME Noticed, NEW p \in Processes, NEW i \in Ids,
             StartFlush(p, i) \/ Load(p, i) \/ Delete(p, i) \/ StartWrite(p, i)
      PROVE  IInv'
  BY <1>1, <1>4, StartFlushKeeps, LoadKeeps, DeleteKeeps, StartWriteKeeps
<1>5. CASE Next
  BY <1>3, <1>4, <1>5 DEF Next, Step, Noticed
<1>6. QED
  BY <1>1, <1>2, <1>5

\* The invariant of filestore.py, for any number of processes that all run workflows:
\* what the file, the caches and the calls have to do with the runs there have been,
\* for every id that no two processes have used at the same time.
THEOREM StoreInvariant == Spec => []IInv
<1>1. QED
  BY InitFits, StepKeeps, PTL DEF Spec

-------------------------------------------------------------------------------
(* What it says of files and of copies.                                      *)

\* A file is the first lines of one run, each once, and at most one torn line after
\* them, whoever flushed, loaded, evicted, rewrote or died, and however many processes
\* record runs under other ids.
THEOREM FilesCorrect == Spec => []FilesArePrefixes
<1>1. IInv => FilesArePrefixes
  <2>1. SUFFICES ASSUME IInv, NEW i \in DOMAIN disk \ clashes
                 PROVE  \/ PrefixOfRun(disk[i])
                        \/ /\ disk[i] # <<>> /\ Last(disk[i]) = Torn
                           /\ PrefixOfRun(Front(disk[i]))
    BY DEF FilesArePrefixes
  <2>2. PICK r \in DOMAIN runs : \E m \in 0 .. runs[r].events : Holds(i, r, m)
    BY <2>1 DEF IInv, Base, Typed, IdFits, FileFits
  <2>3. PICK m \in 0 .. runs[r].events : Holds(i, r, m)
    BY <2>2
  <2>4. r \in Nat \ {0} /\ m \in Nat
    BY <2>1, RunFacts DEF IInv, Base
  <2>5. PrefixOfRun(Recorded(r, m))
    <3>1. m = 0 => Recorded(r, m) = <<>>
      BY <2>4, RecordedFacts
    <3>2. QED
      BY <2>4, <3>1 DEF PrefixOfRun
  <2>6. CASE disk[i] = Recorded(r, m)
    BY <2>5, <2>6
  <2>7. CASE disk[i] = TornAfter(r, m)
    BY <2>4, <2>5, <2>7, TornFacts
  <2>8. QED
    BY <2>3, <2>6, <2>7 DEF Holds
<1>2. QED
  BY <1>1, StoreInvariant, PTL

\* Once flush has returned to _finish, the whole log of the run is on disk until the
\* run is deleted, whatever the other processes run, rewrite or lose.
THEOREM KeptRunsCorrect == Spec => []KeptRunsAreComplete
<1>1. IInv => KeptRunsAreComplete
  <2>1. SUFFICES ASSUME IInv, NEW r \in DOMAIN runs, runs[r].outcome = "kept", runs[r].id \notin clashes
                 PROVE  /\ runs[r].id \in DOMAIN disk
                        /\ disk[runs[r].id] = Recorded(r, runs[r].events)
    BY DEF KeptRunsAreComplete
  <2>2. IdFits(runs[r].id)
    BY <2>1, RunFacts DEF IInv, Base
  <2>3. QED
    BY <2>1, <2>2 DEF IdFits, KeptFits
<1>2. QED
  BY <1>1, StoreInvariant, PTL

\* What a process has in memory is the first lines some run recorded, however old.
THEOREM CopiesCorrect == Spec => []CopiesAreHonest
<1>1. IInv => CopiesAreHonest
  BY DEF IInv, Base, Typed, IdFits, CopiesFit, CopiesAreHonest, PrefixOfRun
<1>2. QED
  BY <1>1, StoreInvariant, PTL

-------------------------------------------------------------------------------
(* Two processes come to use one id only while it has no file.               *)

\* The id a step of p may come to use is in no other's hands
LEMMA NoNewClash ==
  ASSUME IInv, Noticed, NEW p \in Processes,
         \A q \in Processes \ {p}, i \in Ids : Uses(q, i)' => Uses(q, i),
         \A i \in Ids : Uses(p, i)' => Uses(p, i) \/ \A q \in Processes \ {p} : ~ Uses(q, i)
  PROVE  clashes' = clashes
<1>1. SUFFICES ASSUME NEW i \in Ids \ clashes, Clash(i)' PROVE FALSE
  BY DEF Noticed
<1>2. PICK q \in Processes, s \in Processes : q # s /\ Uses(q, i)' /\ Uses(s, i)'
  BY <1>1 DEF Clash
<1>3. Uses(q, i) /\ Uses(s, i)
  BY <1>2
<1>4. QED
  BY <1>2, <1>3, OneUser

LEMMA OthersUse ==
  ASSUME NEW p, NEW q \in Processes \ {p}, NEW i,
         call'[q] = call[q], cache'[q] = cache[q], flushed'[q] = flushed[q]
  PROVE  Uses(q, i)' => Uses(q, i)
BY DEF Uses, Pending

\* Only a process that looks for a free id can come to use one another has
LEMMA SameClashes ==
  ASSUME IInv, Noticed, NEW p \in Processes,
         \/ Create(p) \/ Truncate(p)
         \/ Record(p) \/ Finish(p) \/ Abandon(p)
         \/ FlushLine(p) \/ EndFlush(p) \/ FlushRaises(p)
         \/ Evict(p) \/ FillTemporary(p) \/ ReplaceFile(p) \/ Crash(p)
         \/ \E i \in Ids : StartFlush(p, i) \/ Load(p, i) \/ Delete(p, i) \/ StartWrite(p, i)
  PROVE  clashes' = clashes
<1>1. /\ cache = [q \in Processes |-> cache[q]] /\ flushed = [q \in Processes |-> flushed[q]]
      /\ call \in [Processes -> CallRecord]
      /\ \A q \in Processes : DOMAIN flushed[q] = DOMAIN cache[q]
  BY DEF IInv, Base, Typed
<1>2. \A q \in Processes : call[q].op \notin {"idle", "create"} => call[q].id \in DOMAIN cache[q]
  BY DEF IInv, Base, CallTyped
<1>3. Idle.id = 0 /\ 0 \notin Ids
  BY DEF Idle, Call, Ids
<1> DEFINE Others == \A q \in Processes \ {p} : /\ call'[q] = call[q] /\ cache'[q] = cache[q]
                                                /\ flushed'[q] = flushed[q]
           Same == Others /\ \A i \in Ids : Uses(p, i)' => Uses(p, i)
<1>4. ASSUME Same PROVE clashes' = clashes
  BY <1>4, OthersUse, NoNewClash
<1>5. CASE Create(p)
  <2>1. CASE Has(p, call[p].id) /\ Return(p) /\ UNCHANGED <<cache, flushed>>
    BY <1>1, <1>3, <1>4, <2>1 DEF Return, Uses, Pending
  <2>2. CASE /\ cache' = [cache EXCEPT ![p] = Put(@, call[p].id, <<>>)]
             /\ flushed' = [flushed EXCEPT ![p] = Put(@, call[p].id, 0)]
             /\ Goto(p, "truncate")
    <3>1. Others /\ call'[p].id = call[p].id
      BY <1>1, <2>2 DEF Goto, CallRecord
    <3>2. cache'[p] = Put(cache[p], call[p].id, <<>>) /\ flushed'[p] = Put(flushed[p], call[p].id, 0)
      BY <1>1, <2>2
    <3>3. ASSUME NEW i \in Ids, i # call[p].id, Pending(p, i)' PROVE Pending(p, i)
      BY <1>1, <3>2, <3>3 DEF Pending, Put
    <3>4. QED
      BY <1>4, <3>1, <3>3 DEF Uses
  <2>3. QED
    BY <1>5, <2>1, <2>2 DEF Create
<1>6. CASE Truncate(p) \/ Abandon(p) \/ FlushLine(p) \/ FillTemporary(p)
  <2>1. Others /\ cache' = cache /\ flushed' = flushed
    BY <1>1, <1>6 DEF Truncate, Abandon, FlushLine, FillTemporary, Return, Goto, memory
  <2>2. call'[p].id \in {0, call[p].id}
    BY <1>1, <1>3, <1>6 DEF Truncate, Abandon, FlushLine, FillTemporary, Return, Goto, CallRecord
  <2>3. QED
    BY <1>3, <1>4, <2>1, <2>2 DEF Uses, Pending
<1>7. CASE Record(p) \/ Finish(p)
  <2>1. /\ cache' = [cache EXCEPT ![p][call[p].id] = Append(@, Line(call[p].run, runs[call[p].run].events))]
        /\ flushed' = flushed /\ call[p].op = "run"
    BY <1>7 DEF Record, Finish, RecordLine
  <2>2. Others /\ call'[p].id = call[p].id
    BY <1>1, <1>7, <2>1 DEF Record, Finish, CallRecord
  <2>3. ASSUME NEW i \in Ids, i # call[p].id, Pending(p, i)' PROVE Pending(p, i)
    BY <1>1, <1>2, <2>1, <2>3 DEF Pending
  <2>4. QED
    BY <1>4, <2>2, <2>3 DEF Uses
<1>8. CASE EndFlush(p) \/ ReplaceFile(p)
  <2>1. /\ cache' = cache /\ flushed' = [flushed EXCEPT ![p][call[p].id] = Len(cache[p][call[p].id])]
        /\ call' = [call EXCEPT ![p] = Idle] /\ call[p].op \in {"flush", "replace"}
    BY <1>8 DEF EndFlush, ReplaceFile, Return, Log
  <2>2. Others /\ call'[p].id = 0
    BY <1>1, <1>3, <2>1
  <2>3. call[p].id \in DOMAIN cache[p] /\ cache[p][call[p].id] \in Lines
    BY <1>2, <2>1 DEF IInv, Base, Typed, Contents
  <2>4. ASSUME NEW i \in Ids, Pending(p, i)' PROVE Pending(p, i)
    <3>1. CASE i = call[p].id
      <4>1. flushed'[p][i] = Len(cache[p][i]) /\ Len(cache[p][i]) \in Nat
        BY <1>1, <2>1, <2>3, <3>1 DEF Lines
      <4>2. QED
        BY <2>1, <2>4, <4>1 DEF Pending
    <3>2. CASE i # call[p].id
      BY <1>1, <2>1, <2>4, <3>2 DEF Pending
    <3>3. QED
      BY <3>1, <3>2
  <2>5. QED
    BY <1>3, <1>4, <2>2, <2>4 DEF Uses
<1>9. CASE FlushRaises(p) \/ Crash(p) \/ Evict(p)
  <2>1. /\ cache' = [cache EXCEPT ![p] = <<>>] /\ flushed' = [flushed EXCEPT ![p] = <<>>]
        /\ call' = call \/ call' = [call EXCEPT ![p] = Idle]
    BY <1>9 DEF FlushRaises, Crash, Evict, Exit, Return
  <2>2. Others /\ cache'[p] = <<>> /\ call'[p].id \in {0, call[p].id}
    BY <1>1, <1>3, <2>1
  <2>3. DOMAIN <<>> = {}
    OBVIOUS
  <2>4. QED
    BY <1>3, <1>4, <2>2, <2>3 DEF Uses, Pending
<1>10. ASSUME NEW i \in Ids, StartFlush(p, i) PROVE clashes' = clashes
  <2>1. /\ cache' = cache /\ flushed' = flushed /\ Pending(p, i)
        /\ call' = [call EXCEPT ![p] = Call("flush", i, flushed[p][i])]
    BY <1>10 DEF StartFlush, memory
  <2>2. Others /\ call'[p].id = i
    BY <1>1, <2>1 DEF Call
  <2>3. QED
    BY <1>4, <2>1, <2>2 DEF Uses, Pending
<1>11. ASSUME NEW i \in Ids, Load(p, i) PROVE clashes' = clashes
  <2>1. /\ cache' = [cache EXCEPT ![p] = Put(@, i, disk[i])] /\ call' = call
        /\ flushed' = [flushed EXCEPT ![p] = Put(@, i, Len(disk[i]))]
        /\ i \in DOMAIN disk
    BY <1>11 DEF Load, Exists
  <2>2. Others /\ cache'[p] = Put(cache[p], i, disk[i]) /\ flushed'[p] = Put(flushed[p], i, Len(disk[i]))
    BY <1>1, <2>1
  <2>3. Len(disk[i]) \in Nat
    BY <2>1 DEF IInv, Base, Contents, Lines
  <2>4. ASSUME NEW j \in Ids, Pending(p, j)' PROVE Pending(p, j)
    BY <1>1, <2>2, <2>3, <2>4 DEF Pending, Put
  <2>5. QED
    BY <1>4, <2>1, <2>2, <2>4 DEF Uses
<1>12. ASSUME NEW i \in Ids, Delete(p, i) PROVE clashes' = clashes
  <2>1. /\ cache' = [cache EXCEPT ![p] = Pop(@, i)] /\ call' = call
        /\ flushed' = [flushed EXCEPT ![p] = Pop(@, i)]
    BY <1>12 DEF Delete
  <2>2. Others /\ cache'[p] = Pop(cache[p], i) /\ flushed'[p] = Pop(flushed[p], i)
    BY <1>1, <2>1
  <2>3. ASSUME NEW j \in Ids, Pending(p, j)' PROVE Pending(p, j)
    BY <1>1, <2>2, <2>3 DEF Pending, Pop, Restrict
  <2>4. QED
    BY <1>4, <2>1, <2>2, <2>3 DEF Uses
<1>13. ASSUME NEW i \in Ids, StartWrite(p, i) PROVE clashes' = clashes
  <2>1. /\ cache' = cache /\ flushed' = flushed
        /\ i \in DOMAIN cache[p] /\ HasAllOf(p, i) /\ \A q \in Processes : call[q].id # i
        /\ call' = [call EXCEPT ![p] = Call("write", i, 0)]
    BY <1>13 DEF StartWrite, memory, InUse
  <2>2. Others /\ call'[p].id = i
    BY <1>1, <2>1 DEF Call
  <2>3. ASSUME i \notin clashes, NEW q \in Processes \ {p}, Uses(q, i) PROVE FALSE
    <3>1. Pending(q, i) /\ ~ Doing(q, "flush", i) /\ IdFits(i)
      BY <2>1, <2>3 DEF Uses, Doing, IInv
    <3>2. PICK r \in DOMAIN runs : Owns(q, i, r) /\ Unseen(q, i, r)
      BY <3>1 DEF IdFits, PendingFits
    <3>3. PICK e \in Nat : e = runs[r].events /\ r \in Nat
      BY RunFacts DEF IInv, Base
    <3>4. LatestOf(i, r) /\ cache[q][i] = Recorded(r, e) /\ flushed[q][i] = 0
      BY <3>2, <3>3 DEF Owns
    <3>5. cache[p][i] = Recorded(r, e)
      BY <2>1, <3>3, <3>4, LatestIsMax DEF HasAllOf, Recorded, IInv, Base
    <3>6. e \in 1 .. runs[r].events
      <4>1. Len(Recorded(r, e)) = e
        BY <3>3, RecordedFacts
      <4>2. QED
        BY <3>1, <3>3, <3>4, <4>1 DEF Pending
    <3>7. QED
      BY <2>1, <2>3, <3>2, <3>5, <3>6 DEF Unseen
  <2>4. \A q \in Processes \ {p}, j \in Ids : Uses(q, j)' => Uses(q, j)
    BY <2>2, OthersUse
  <2>5. \A j \in Ids \ {i} : Uses(p, j)' => Uses(p, j)
    BY <2>1, <2>2 DEF Uses, Pending
  <2>6. CASE i \in clashes
    <3>1. SUFFICES ASSUME NEW j \in Ids \ clashes, Clash(j)' PROVE FALSE
      BY DEF Noticed
    <3>2. PICK q \in Processes, s \in Processes : q # s /\ Uses(q, j)' /\ Uses(s, j)'
      BY <3>1 DEF Clash
    <3>3. Uses(q, j) /\ Uses(s, j)
      BY <2>4, <2>5, <2>6, <3>1, <3>2
    <3>4. QED
      BY <3>1, <3>2, <3>3, OneUser
  <2>7. CASE i \notin clashes
    BY <2>3, <2>4, <2>5, <2>7, NoNewClash
  <2>8. QED
    BY <2>6, <2>7
<1>14. QED
  BY <1>5, <1>6, <1>7, <1>8, <1>9, <1>10, <1>11, <1>12, <1>13

\* And that id has no file, so that nothing any reader has seen is in question
LEMMA ClashesUnseen ==
  ASSUME IInv, Noticed, NEW p \in Processes, TryId(p)
  PROVE  disk' = disk /\ DOMAIN disk \ clashes' = DOMAIN disk \ clashes
<1>0. PICK i \in Ids : i = counter[p] + 1
  BY BoundsAssumption DEF TryId, IInv, Base, Typed, Ids
<1>1. /\ disk' = disk /\ cache' = cache /\ flushed' = flushed
      /\ call' = IF Has(p, i) THEN call ELSE [call EXCEPT ![p] = Call("create", i, 0)]
  BY <1>0 DEF TryId
<1>2. SUFFICES ASSUME NEW j \in DOMAIN disk, j \notin clashes, j \in clashes' PROVE FALSE
  BY <1>1, NoticedFacts DEF IInv, Base, Typed
<1>3. j \in Ids \ clashes /\ Clash(j)'
  BY <1>2 DEF Noticed, IInv, Base, Typed
<1>4. ASSUME NEW q \in Processes, Uses(q, j)' PROVE Uses(q, j)
  <2>1. CASE Has(p, i)
    BY <1>1, <1>4, <2>1 DEF Uses, Pending
  <2>2. CASE ~ Has(p, i)
    <3>1. j # i
      BY <1>2, <2>2 DEF Has, Exists
    <3>2. call'[q].id = call[q].id \/ call'[q].id = i
      BY <1>1, <2>2 DEF Call, IInv, Base, Typed
    <3>3. QED
      BY <1>1, <1>4, <3>1, <3>2 DEF Uses, Pending
  <2>3. QED
    BY <2>1, <2>2
<1>5. PICK q \in Processes, s \in Processes : q # s /\ Uses(q, j)' /\ Uses(s, j)'
  BY <1>3 DEF Clash
<1>6. QED
  BY <1>3, <1>4, <1>5, OneUser

-------------------------------------------------------------------------------
(* The store keeps the promise of RunDirectory.                              *)

\* What a file is described as
Says(r, m, torn) == [run |-> IF m = 0 THEN 0 ELSE r, torn |-> torn, events |-> m]

\* A step of the directory, or one its readers do not see
DirectoryStep == Directory!Next \/ UNCHANGED Directory!vars

LEMMA DescribedFacts ==
  ASSUME NEW r \in Nat \ {0}, NEW m \in Nat
  PROVE  /\ Described(Recorded(r, m)) = Says(r, m, FALSE)
         /\ Described(TornAfter(r, m)) = Says(r, m, TRUE)
<1> DEFINE whole == Recorded(r, m)
           run == IF whole = <<>> THEN 0 ELSE whole[1][1]
<1>1. (m = 0 <=> whole = <<>>) /\ Len(whole) = m
  BY RecordedFacts
<1>2. whole = <<>> \/ Last(whole) # Torn
  BY TornFacts
<1>3. /\ TornAfter(r, m) # <<>> /\ Last(TornAfter(r, m)) = Torn
      /\ Front(TornAfter(r, m)) = whole
  BY TornFacts
<1>4. m # 0 => whole[1][1] = r
  <2>1. m # 0 => 1 \in 1 .. m
    OBVIOUS
  <2>2. QED
    BY <2>1 DEF Recorded, Line
<1>5. run = IF m = 0 THEN 0 ELSE r
  BY <1>1, <1>4
<1>6. whole = Recorded(run, Len(whole))
  <2>1. CASE m = 0
    <3>1. Recorded(0, 0) = <<>>
      <4>1. 0 \in Nat
        OBVIOUS
      <4>2. QED
        BY <4>1, RecordedFacts
    <3>2. QED
      BY <1>1, <1>5, <2>1, <3>1
  <2>2. CASE m # 0
    BY <1>1, <1>5, <2>2
  <2>3. QED
    BY <2>1, <2>2
<1>7. Described(whole) = Says(r, m, FALSE)
  BY <1>1, <1>2, <1>5, <1>6 DEF Described, Says
<1>8. Described(TornAfter(r, m)) = Says(r, m, TRUE)
  BY <1>1, <1>3, <1>5, <1>6 DEF Described, Says
<1>9. QED
  BY <1>7, <1>8

LEMMA DescribedEmpty == Described(<<>>) = Directory!Empty
<1>1. 0 \in Nat
  OBVIOUS
<1>2. Recorded(0, 0) = <<>> /\ Len(<<>>) = 0
  BY <1>1, RecordedFacts
<1>3. QED
  BY <1>2 DEF Described, Directory!Empty

LEMMA SeenFacts ==
  /\ FilesSeen = [j \in DOMAIN disk \ clashes |-> Described(disk[j])]
  /\ FilesSeen' = [j \in DOMAIN disk' \ clashes' |-> Described(disk'[j])]
BY DEF FilesSeen, Described

\* The file of i is now described as f, the others as they were
LEMMA OneFileSeen ==
  ASSUME clashes' = clashes, NEW i, i \notin clashes,
         NEW f, DOMAIN disk' = DOMAIN disk \cup {i}, Described(disk'[i]) = f,
         \A j \in DOMAIN disk \ {i} : disk'[j] = disk[j]
  PROVE  FilesSeen' = Directory!With(i, f)
<1>1. DOMAIN FilesSeen = DOMAIN disk \ clashes
  BY SeenFacts
<1>2. \A j \in DOMAIN FilesSeen \ {i} : Described(disk'[j]) = FilesSeen[j]
  BY SeenFacts
<1>3. DOMAIN disk' \ clashes' = DOMAIN FilesSeen \cup {i}
  BY <1>1
<1>4. QED
  BY <1>2, <1>3, SeenFacts DEF Directory!With

\* The files are what they were, but for those two processes have had at the same time
LEMMA SameFiles ==
  ASSUME DOMAIN disk' \ clashes' = DOMAIN disk \ clashes,
         \A i \in DOMAIN disk \ clashes : disk'[i] = disk[i]
  PROVE  FilesSeen' = FilesSeen
BY SeenFacts

\* The runs have recorded what they had
LEMMA SameProgress ==
  ASSUME DOMAIN runs \subseteq DOMAIN runs',
         \A r \in DOMAIN runs : runs'[r].events = runs[r].events,
         \A r \in DOMAIN runs' \ DOMAIN runs : runs'[r].events = 0
  PROVE  Progress' = Progress
BY DEF Progress

LEMMA Unseeable ==
  ASSUME Progress' = Progress,
         DOMAIN disk' \ clashes' = DOMAIN disk \ clashes,
         \A i \in DOMAIN disk \ clashes : disk'[i] = disk[i]
  PROVE  DirectoryStep
BY SameFiles DEF DirectoryStep, Directory!vars

\* A step on the file of an id two processes have used is not seen
LEMMA ClashedStep ==
  ASSUME clashes' = clashes, NEW i \in clashes, Progress' = Progress,
         DOMAIN disk' \ {i} = DOMAIN disk \ {i},
         \A j \in DOMAIN disk \ {i} : disk'[j] = disk[j]
  PROVE  DirectoryStep
<1>1. DOMAIN disk' \ clashes' = DOMAIN disk \ clashes
  OBVIOUS
<1>2. QED
  BY <1>1, Unseeable

LEMMA AppearStep ==
  ASSUME clashes' = clashes, NEW i \in Ids, i \in clashes \/ i \notin DOMAIN disk,
         disk' = Put(disk, i, <<>>), Progress' = Progress
  PROVE  DirectoryStep
<1>1. /\ DOMAIN disk' = DOMAIN disk \cup {i} /\ disk'[i] = <<>>
      /\ \A j \in DOMAIN disk \ {i} : disk'[j] = disk[j]
  BY DEF Put
<1>2. CASE i \in clashes
  BY <1>1, <1>2, ClashedStep
<1>3. CASE i \notin clashes
  <2>1. FilesSeen' = Directory!With(i, Directory!Empty) /\ i \notin DOMAIN FilesSeen
    BY <1>1, <1>3, DescribedEmpty, OneFileSeen, SeenFacts
  <2>2. Directory!Appear(i)
    BY <2>1 DEF Directory!Appear
  <2>3. QED
    BY <2>2 DEF Directory!Next, DirectoryStep
<1>4. QED
  BY <1>2, <1>3

LEMMA RecordStep ==
  ASSUME IInv, clashes' = clashes, NEW p \in Processes, Record(p) \/ Finish(p)
  PROVE  DirectoryStep
<1>1. call[p].op = "run" /\ RecordLine(p) /\ UNCHANGED disk
  BY DEF Record, Finish
<1>2. PICK r \in DOMAIN runs : r = call[p].run
  BY <1>1 DEF IInv, Base, CallTyped
<1>3. r \in 1 .. MaxRuns /\ runs[r] \in RunRecord
  BY RunFacts, BoundsAssumption DEF IInv, Base, Typed
<1>4. /\ DOMAIN runs' = DOMAIN runs /\ runs'[r].events = runs[r].events + 1
      /\ \A s \in DOMAIN runs \ {r} : runs'[s] = runs[s]
  BY <1>1, <1>2, <1>3 DEF RecordLine, IInv, Base, Typed, RunRecord
<1>5. Progress' = [Progress EXCEPT ![r] = @ + 1]
  BY <1>3, <1>4 DEF Progress
<1>6. FilesSeen' = FilesSeen
  BY <1>1, SameFiles
<1>7. Directory!Record(r)
  BY <1>5, <1>6 DEF Directory!Record
<1>8. QED
  BY <1>3, <1>7 DEF Directory!Next, DirectoryStep

\* The file of i comes to hold n events of run r, and held no more of it before
LEMMA GrowStep ==
  ASSUME IInv, clashes' = clashes, NEW i \in DOMAIN disk \ clashes, NEW r, LatestOf(i, r),
         NEW m \in Nat, disk[i] = Recorded(r, m), m <= runs[r].events,
         NEW n \in Nat, 1 <= n, n <= runs[r].events, m <= n,
         DOMAIN disk' = DOMAIN disk, disk'[i] = Recorded(r, n),
         \A j \in DOMAIN disk \ {i} : disk'[j] = disk[j],
         UNCHANGED runs
  PROVE  DirectoryStep
<1>1. i \in Ids /\ r \in Nat \ {0} /\ r \in 1 .. MaxRuns
  BY RunFacts, BoundsAssumption DEF IInv, Base, Typed, LatestOf
<1>2. FilesSeen[i] = Says(r, m, FALSE) /\ Described(disk'[i]) = Says(r, n, FALSE)
  BY <1>1, DescribedFacts, SeenFacts
<1>3. Progress' = Progress /\ Progress[r] = runs[r].events
  BY <1>1 DEF Progress, LatestOf
<1>4. FilesSeen' = Directory!With(i, Says(r, n, FALSE))
  BY <1>2, OneFileSeen
<1>5. n # 0
  OBVIOUS
<1>6. Says(r, n, FALSE) = [run |-> r, events |-> n, torn |-> FALSE]
  BY <1>5 DEF Says
<1>7. n \in 1 .. Progress[r] /\ Progress[r] \in Nat
  BY <1>3, RunFacts DEF IInv, Base, LatestOf
<1>8. FilesSeen[i].run \in {0, r} /\ FilesSeen[i].events = m /\ ~ FilesSeen[i].torn
  BY <1>2 DEF Says
<1>9. Directory!Grow(i, r, n)
  BY <1>3, <1>4, <1>6, <1>7, <1>8 DEF Directory!Grow
<1>10. QED
  BY <1>1, <1>7, <1>9 DEF Directory!Next, DirectoryStep

LEMMA FlushStep ==
  ASSUME IInv, clashes' = clashes, NEW p \in Processes, FlushLine(p)
  PROVE  DirectoryStep
<1> USE DEF Flushing
<1>0. /\ call[p].op = "flush" /\ UNCHANGED runs
      /\ disk' = [disk EXCEPT ![call[p].id] = Append(@, Log(p)[call[p].at + 1])]
  BY DEF FlushLine, memory
<1>1. CASE call[p].id \in clashes
  <2>1. /\ DOMAIN disk' = DOMAIN disk
        /\ \A j \in DOMAIN disk \ {call[p].id} : disk'[j] = disk[j]
        /\ Progress' = Progress
    BY <1>0 DEF Progress
  <2>2. QED
    BY <1>1, <2>1, ClashedStep
<1>2. CASE call[p].id \notin clashes
  <2>1. PICK i \in Ids, r \in DOMAIN runs, e \in Nat : Flushing(p, i, r, e)
    BY <1>0, <1>2, FlushFacts
  <2>2. PICK at \in Nat : at = call[p].at
    BY <2>1
  <2>3. at < e /\ disk' = [disk EXCEPT ![i] = Append(@, Log(p)[at + 1])]
    BY <1>0, <2>1, <2>2 DEF FlushLine
  <2>4. Log(p)[at + 1] = Line(r, at)
    BY <2>1, <2>3 DEF Recorded
  <2>5. Append(Recorded(r, at), Line(r, at)) = Recorded(r, at + 1)
    BY <2>1, RecordedFacts
  <2>6. /\ DOMAIN disk' = DOMAIN disk /\ disk'[i] = Recorded(r, at + 1)
        /\ \A j \in DOMAIN disk \ {i} : disk'[j] = disk[j]
    BY <2>1, <2>2, <2>3, <2>4, <2>5
  <2>7. /\ at + 1 \in Nat /\ 1 <= at + 1 /\ at + 1 <= runs[r].events /\ at <= at + 1
        /\ at <= runs[r].events
        /\ LatestOf(i, r) /\ i \in DOMAIN disk \ clashes /\ disk[i] = Recorded(r, at)
    BY <2>1, <2>2, <2>3
  <2>8. QED
    BY <1>0, <2>6, <2>7, GrowStep
<1>3. QED
  BY <1>1, <1>2

LEMMA TearStep ==
  ASSUME IInv, clashes' = clashes, NEW p \in Processes, Tears(p), Progress' = Progress
  PROVE  DirectoryStep
<1> USE DEF Flushing
<1>0. CASE call[p].id \in clashes
  <2>1. /\ DOMAIN disk' = DOMAIN disk
        /\ \A j \in DOMAIN disk \ {call[p].id} : disk'[j] = disk[j]
    BY DEF Tears
  <2>2. QED
    BY <1>0, <2>1, ClashedStep
<1>a. SUFFICES ASSUME call[p].id \notin clashes PROVE DirectoryStep
  BY <1>0
<1>1. PICK i \in Ids, r \in DOMAIN runs, e \in Nat : Flushing(p, i, r, e)
  BY <1>a, FlushFacts DEF Tears
<1>2. PICK at \in Nat : at = call[p].at
  BY <1>1
<1>3. /\ i \in DOMAIN disk /\ disk[i] = Recorded(r, at) /\ r \in Nat \ {0} /\ i \notin clashes
      /\ disk' = [disk EXCEPT ![i] = Append(@, Torn)]
  BY <1>1, <1>2 DEF Tears
<1>4. /\ DOMAIN disk' = DOMAIN disk \cup {i} /\ disk'[i] = TornAfter(r, at)
      /\ \A j \in DOMAIN disk \ {i} : disk'[j] = disk[j]
  BY <1>3 DEF TornAfter
<1>5. FilesSeen[i] = Says(r, at, FALSE) /\ Described(disk'[i]) = Says(r, at, TRUE)
  BY <1>3, <1>4, DescribedFacts, SeenFacts
<1>6. FilesSeen' = Directory!With(i, Says(r, at, TRUE)) /\ i \in DOMAIN FilesSeen
  BY <1>3, <1>4, <1>5, OneFileSeen, SeenFacts
<1>7. Says(r, at, TRUE) = [FilesSeen[i] EXCEPT !.torn = TRUE]
  <2>1. PICK z : z = IF at = 0 THEN 0 ELSE r
    OBVIOUS
  <2>2. PICK no : no = FALSE
    OBVIOUS
  <2>3. PICK yes : yes = TRUE
    OBVIOUS
  <2>4. FilesSeen[i] = [run |-> z, torn |-> no, events |-> at]
    BY <1>5, <2>1, <2>2 DEF Says
  <2>5. Says(r, at, TRUE) = [run |-> z, torn |-> yes, events |-> at]
    BY <2>1, <2>3 DEF Says
  <2>6. [run |-> z, torn |-> yes, events |-> at] = [FilesSeen[i] EXCEPT !.torn = yes]
    BY <2>4
  <2>7. QED
    BY <2>3, <2>5, <2>6
<1>8. FilesSeen = [j \in DOMAIN FilesSeen |-> FilesSeen[j]]
  BY SeenFacts
<1>9. FilesSeen' = [FilesSeen EXCEPT ![i].torn = TRUE]
  BY <1>6, <1>7, <1>8 DEF Directory!With
<1>10. Directory!Tear(i)
  BY <1>6, <1>9 DEF Directory!Tear
<1>11. QED
  BY <1>10 DEF Directory!Next, DirectoryStep

\* What is written over a file is never less than it had, and never over a torn end
LEMMA ReplaceStep ==
  ASSUME IInv, clashes' = clashes, NEW p \in Processes, ReplaceFile(p)
  PROVE  DirectoryStep
<1>0. /\ call[p].op = "replace" /\ disk' = Put(disk, call[p].id, temporary[call[p].id])
      /\ UNCHANGED runs /\ Progress' = Progress
  BY DEF ReplaceFile, Progress
<1>1. CASE call[p].id \in clashes
  <2>1. /\ DOMAIN disk' = DOMAIN disk \cup {call[p].id}
        /\ \A j \in DOMAIN disk \ {call[p].id} : disk'[j] = disk[j]
    BY <1>0 DEF Put
  <2>2. QED
    BY <1>0, <1>1, <2>1, ClashedStep
<1>2. SUFFICES ASSUME call[p].id \notin clashes PROVE DirectoryStep
  BY <1>1
<1>3. PICK i \in Ids \ clashes, r \in DOMAIN runs :
           /\ i = call[p].id /\ i # 0 /\ IdFits(i)
           /\ i \in DOMAIN disk /\ i \in DOMAIN cache[p]
           /\ LatestOf(i, r) /\ Log(p) = cache[p][i]
           /\ cache[p][i] = Recorded(r, runs[r].events)
           /\ call[p].op = "replace" => temporary[i] = cache[p][i]
  BY <1>2, WriteFacts DEF ReplaceFile
<1>4. PICK e \in Nat : e = runs[r].events
  BY RunFacts DEF IInv, Base
<1>5. /\ DOMAIN disk' = DOMAIN disk /\ disk'[i] = Recorded(r, e)
      /\ \A j \in DOMAIN disk \ {i} : disk'[j] = disk[j]
  BY <1>0, <1>3, <1>4 DEF Put
<1>6. r \in Nat \ {0}
  BY RunFacts DEF IInv, Base
<1>7. PICK m \in 0 .. e : Holds(i, r, m)
  BY <1>3, <1>4, LatestUnique DEF IdFits, FileFits, IInv, Base
<1>8. disk[i] = Recorded(r, m) \/ disk[i] = Recorded(r, e)
  <2>1. SUFFICES ASSUME m < e, disk[i] = TornAfter(r, m)
                 PROVE  FALSE
    BY <1>4, <1>7 DEF Holds
  <2>2. disk[i] # <<>> /\ disk[i] # Recorded(r, e)
    <3>1. m \in Nat
      OBVIOUS
    <3>2. TornAfter(r, m) # <<>> /\ TornAfter(r, m) # Recorded(r, e)
      BY <1>6, <3>1, TornFacts
    <3>3. QED
      BY <2>1, <3>2
  <2>3. CASE Pending(p, i)
    BY <1>0, <1>3, <2>2, <2>3 DEF IdFits, PendingFits, Doing, Unseen
  <2>4. CASE ~ Pending(p, i)
    <3>1. ~ Holding(p, i)
      BY <1>0, <2>4 DEF Holding, Doing
    <3>2. e \in 1 .. runs[r].events
      BY <1>4, <2>1
    <3>3. PICK k \in e .. runs[r].events : Holds(i, r, k)
      BY <1>3, <1>4, <3>1, <3>2 DEF IdFits, Covered
    <3>4. disk[i] = Recorded(r, e)
      BY <1>4, <3>3 DEF Holds
    <3>5. QED
      BY <2>2, <3>4
  <2>5. QED
    BY <2>3, <2>4
<1>9. PICK k \in 0 .. e : disk[i] = Recorded(r, k)
  BY <1>7, <1>8
<1>10. CASE e = 0
  <2>1. disk'[i] = disk[i]
    BY <1>5, <1>9, <1>10
  <2>2. QED
    BY <1>0, <1>5, <2>1, Unseeable
<1>11. CASE e # 0
  <2>1. k \in Nat /\ k <= runs[r].events /\ 1 <= e /\ e <= runs[r].events /\ k <= e
    BY <1>4, <1>9, <1>11
  <2>2. QED
    BY <1>0, <1>3, <1>5, <1>9, <2>1, GrowStep
<1>12. QED
  BY <1>10, <1>11

LEMMA DeleteStep ==
  ASSUME IInv, clashes' = clashes, NEW p \in Processes, NEW i \in Ids, Delete(p, i)
  PROVE  DirectoryStep
<1>1. /\ DOMAIN runs' = DOMAIN runs
      /\ \A r \in DOMAIN runs : runs'[r].events = runs[r].events
  BY RunFacts DEF Delete, IInv, Base, RunRecord
<1>2. Progress' = Progress
  BY <1>1, SameProgress
<1>3. DOMAIN disk' = DOMAIN disk \ {i} /\ \A j \in DOMAIN disk \ {i} : disk'[j] = disk[j]
  BY DEF Delete, Pop, Restrict
<1>4. CASE i \in DOMAIN disk \ clashes
  <2>1. /\ DOMAIN FilesSeen = DOMAIN disk \ clashes
        /\ \A j \in DOMAIN FilesSeen \ {i} : FilesSeen[j] = Described(disk'[j])
    BY <1>3, SeenFacts
  <2>2. FilesSeen' = Restrict(FilesSeen, DOMAIN FilesSeen \ {i})
    <3>1. DOMAIN disk' \ clashes' = DOMAIN FilesSeen \ {i}
      BY <1>3, <2>1
    <3>2. QED
      BY <2>1, <3>1, SeenFacts DEF Restrict
  <2>3. Directory!Vanish(i)
    BY <1>2, <1>4, <2>1, <2>2 DEF Directory!Vanish, Directory!Restrict, Restrict
  <2>4. QED
    BY <2>3 DEF DirectoryStep, Directory!Next
<1>5. CASE i \in clashes
  BY <1>2, <1>3, <1>5, ClashedStep
<1>6. CASE i \notin DOMAIN disk
  BY <1>2, <1>3, <1>6, Unseeable
<1>7. QED
  BY <1>4, <1>5, <1>6

LEMMA TruncateStep ==
  ASSUME IInv, clashes' = clashes, NEW p \in Processes, Truncate(p)
  PROVE  DirectoryStep
<1>1. PICK i \in Ids : i = call[p].id
  BY CallFacts DEF Truncate, IInv
<1>2. (i \in clashes \/ i \notin DOMAIN disk) /\ disk' = Put(disk, i, <<>>)
  BY <1>1 DEF Truncate, IInv, CallFits
<1>3. runs' = Append(runs, [id |-> i, events |-> 0, outcome |-> "running"])
  BY <1>1 DEF Truncate
<1>4. /\ DOMAIN runs \subseteq DOMAIN runs'
      /\ \A r \in DOMAIN runs : runs'[r] = runs[r]
      /\ \A r \in DOMAIN runs' \ DOMAIN runs : runs'[r].events = 0
  <2> DEFINE new == [id |-> i, events |-> 0, outcome |-> "running"]
  <2>1. runs \in Seq(RunRecord) /\ new \in RunRecord
    BY DEF IInv, Base, Typed, RunRecord, Outcome
  <2>2. \A s \in Seq(RunRecord), x \in RunRecord :
          LET t == Append(s, x)
          IN  /\ DOMAIN t = DOMAIN s \cup {Len(s) + 1} /\ t[Len(s) + 1] = x
              /\ \A k \in DOMAIN s : t[k] = s[k]
    OBVIOUS
  <2>3. new.events = 0 /\ runs' = Append(runs, new)
    BY <1>3
  <2> HIDE DEF new
  <2>4. QED
    BY <2>1, <2>2, <2>3
<1>5. Progress' = Progress
  BY <1>4, SameProgress
<1>6. QED
  BY <1>2, <1>5, AppearStep

\* What ends a run does not change how much it has recorded
LEMMA EndedProgress ==
  ASSUME IInv, NEW p \in Processes, Abandon(p) \/ EndFlush(p) \/ FlushRaises(p) \/ Crash(p)
  PROVE  Progress' = Progress
<1>1. \A x \in RunRecord, o \in Outcome : [x EXCEPT !.outcome = o].events = x.events
  BY DEF RunRecord
<1>2. /\ DOMAIN runs' = DOMAIN runs
      /\ \A r \in DOMAIN runs : runs'[r].events = runs[r].events
  <2>1. PICK c \in Nat : c = call[p].run
    BY DEF IInv, Base, Typed, CallRecord
  <2>2. \A r \in DOMAIN runs : runs[r] \in RunRecord
    BY RunFacts DEF IInv, Base
  <2>3. runs = [r \in DOMAIN runs |-> runs[r]]
    BY DEF IInv, Base, Typed
  <2>4. \/ runs' = runs
        \/ runs' = [runs EXCEPT ![c].outcome = "raised"]
        \/ runs' = [runs EXCEPT ![c].outcome = "kept"]
        \/ runs' = [r \in DOMAIN runs |->
                      IF r = c THEN [runs[r] EXCEPT !.outcome = "died"] ELSE runs[r]]
    BY <2>1 DEF Abandon, EndFlush, FlushRaises, Crash, Exit, Safe
  <2>5. "raised" \in Outcome /\ "kept" \in Outcome /\ "died" \in Outcome
    BY DEF Outcome
  <2>6. CASE c \in DOMAIN runs
    <3>1. \E o \in Outcome : \/ runs' = runs
                             \/ runs' = [runs EXCEPT ![c] = [runs[c] EXCEPT !.outcome = o]]
      <4>1. [runs EXCEPT ![c].outcome = "raised"] = [runs EXCEPT ![c] = [runs[c] EXCEPT !.outcome = "raised"]]
        OBVIOUS
      <4>2. [runs EXCEPT ![c].outcome = "kept"] = [runs EXCEPT ![c] = [runs[c] EXCEPT !.outcome = "kept"]]
        OBVIOUS
      <4>3. [r \in DOMAIN runs |-> IF r = c THEN [runs[r] EXCEPT !.outcome = "died"] ELSE runs[r]]
              = [runs EXCEPT ![c] = [runs[c] EXCEPT !.outcome = "died"]]
        BY <2>3
      <4>4. CASE runs' = runs
        BY <2>5, <4>4
      <4>5. CASE runs' = [runs EXCEPT ![c].outcome = "raised"]
        BY <2>5, <4>1, <4>5, Zenon
      <4>6. CASE runs' = [runs EXCEPT ![c].outcome = "kept"]
        BY <2>5, <4>2, <4>6, Zenon
      <4>7. CASE runs' = [r \in DOMAIN runs |->
                          IF r = c THEN [runs[r] EXCEPT !.outcome = "died"] ELSE runs[r]]
        BY <2>5, <4>3, <4>7, Zenon
      <4>8. QED
        BY <2>4, <4>4, <4>5, <4>6, <4>7
    <3>2. PICK o \in Outcome : \/ runs' = runs
                               \/ runs' = [runs EXCEPT ![c] = [runs[c] EXCEPT !.outcome = o]]
      BY <3>1
    <3>3. [runs[c] EXCEPT !.outcome = o].events = runs[c].events
      BY <1>1, <2>2, <2>6
    <3>4. QED
      BY <2>3, <2>6, <3>2, <3>3
  <2>7. CASE c \notin DOMAIN runs
    BY <2>3, <2>4, <2>7
  <2>8. QED
    BY <2>6, <2>7
<1>3. QED
  BY <1>2, SameProgress

LEMMA StepMaps == IInv /\ [Next]_vars => DirectoryStep
<1>1. SUFFICES ASSUME IInv, [Next]_vars PROVE DirectoryStep
  OBVIOUS
<1>2. CASE UNCHANGED vars
  <2>1. UNCHANGED <<disk, clashes>> /\ Progress' = Progress
    BY <1>2 DEF vars, Progress
  <2>2. QED
    BY <2>1, Unseeable
<1>3. ASSUME UNCHANGED <<disk, runs, clashes>> PROVE DirectoryStep
  <2>1. Progress' = Progress
    BY <1>3 DEF Progress
  <2>2. QED
    BY <1>3, <2>1, Unseeable
<1>4. ASSUME Noticed, NEW p \in Processes, TryId(p) PROVE DirectoryStep
  <2>1. Progress' = Progress
    BY <1>4 DEF TryId, Progress
  <2>2. QED
    BY <1>1, <1>4, <2>1, ClashesUnseen, Unseeable
<1>5. ASSUME Noticed, NEW p \in Processes,
             Create(p) \/ FillTemporary(p) \/ Evict(p)
      PROVE  DirectoryStep
  <2>1. clashes' = clashes
    BY <1>1, <1>5, SameClashes
  <2>2. QED
    BY <1>3, <1>5, <2>1 DEF Create, FillTemporary, Evict
<1>6. ASSUME Noticed, NEW p \in Processes, Abandon(p) \/ EndFlush(p) \/ FlushRaises(p) \/ Crash(p)
      PROVE  DirectoryStep
  <2>1. clashes' = clashes
    BY <1>1, <1>6, SameClashes
  <2>2. Progress' = Progress
    BY <1>1, <1>6, EndedProgress
  <2>3. UNCHANGED disk \/ Tears(p)
    BY <1>6 DEF Abandon, EndFlush, FlushRaises, Crash, Tears
  <2>4. QED
    BY <1>1, <2>1, <2>2, <2>3, TearStep, Unseeable
<1>7. ASSUME Noticed, NEW p \in Processes,
             Truncate(p) \/ Record(p) \/ Finish(p) \/ FlushLine(p) \/ ReplaceFile(p)
      PROVE  DirectoryStep
  <2>1. clashes' = clashes
    BY <1>1, <1>7, SameClashes
  <2>2. QED
    BY <1>1, <1>7, <2>1, TruncateStep, RecordStep, FlushStep, ReplaceStep
<1>8. ASSUME Noticed, NEW p \in Processes, NEW i \in Ids,
             Load(p, i) \/ StartWrite(p, i) \/ StartFlush(p, i) \/ Delete(p, i)
      PROVE  DirectoryStep
  <2>1. clashes' = clashes
    BY <1>1, <1>8, SameClashes
  <2>2. CASE Load(p, i) \/ StartWrite(p, i)
    BY <1>3, <2>1, <2>2 DEF Load, StartWrite
  <2>3. CASE StartFlush(p, i)
    <3>1. /\ UNCHANGED runs /\ disk' = IF i \in DOMAIN disk THEN disk ELSE Put(disk, i, <<>>)
          /\ Progress' = Progress
      BY <2>3 DEF StartFlush, Exists, Progress
    <3>2. QED
      BY <1>3, <2>1, <3>1, AppearStep
  <2>4. CASE Delete(p, i)
    BY <1>1, <2>1, <2>4, DeleteStep
  <2>5. QED
    BY <1>8, <2>2, <2>3, <2>4
<1>9. CASE Next
  BY <1>4, <1>5, <1>6, <1>7, <1>8, <1>9 DEF Next, Step, Noticed
<1>10. QED
  BY <1>1, <1>2, <1>9

LEMMA InitMaps == Init => Directory!Init
<1>1. SUFFICES ASSUME Init PROVE Directory!Init
  OBVIOUS
<1>2. DOMAIN <<>> = {}
  OBVIOUS
<1>3. DOMAIN disk = {} /\ DOMAIN runs = {}
  BY <1>1, <1>2 DEF Init
<1>4. Progress = [r \in 1 .. MaxRuns |-> 0]
  BY <1>3 DEF Progress
<1>5. FilesSeen = <<>>
  BY <1>3, SeenFacts
<1>6. QED
  BY <1>4, <1>5 DEF Directory!Init

\* To whoever reads the directory, any number of processes that all run workflows,
\* with their caches, their flushes a line at a time, their rewrites and their deaths,
\* are one RunDirectory, of the ids no two of them have used at the same time: a file
\* only grows, by events its run has recorded, may be torn once, or goes away as a whole.
THEOREM StoreKeepsDirectory == Spec => KeepsDirectory
<1>1. Init => Directory!Init
  BY InitMaps
<1>2. IInv /\ [Next]_vars => [Directory!Next]_Directory!vars
  BY StepMaps DEF DirectoryStep
<1>3. QED
  BY <1>1, <1>2, StoreInvariant, PTL DEF Spec, KeepsDirectory, Directory!Spec
===============================================================================
