---------------------------- MODULE ResourceLedger ----------------------------
(***************************************************************************)
(* The slot accounting of src/campanile/runtime/resources.py: per pool how *)
(* much is in use and the most that ever was, per holder what it took.     *)
(*                                                                         *)
(* A request is a function from pools to amounts; an amount of 0 stands    *)
(* for a pool the request does not name.  A call the ledger refuses by     *)
(* raising changes nothing, so it has no step here.  The scheduler assumes *)
(* of the constants what they need: RequestAssumption.                     *)
(***************************************************************************)
EXTENDS Integers, FiniteSets

CONSTANTS Pools, Holders, Capacity, NoReservation

VARIABLES
  used,           \* pool -> slots in use
  peak,           \* pool -> the highest value of used since the last reset
  reservations    \* holder -> what it took, or NoReservation

ledgerVars == <<used, peak, reservations>>

HoldersNow == {h \in Holders : reservations[h] # NoReservation}

\* Fault, used nowhere and caught when put in the place of Fits: only the capacity
\* counts
FitsCapacity(request) == \A p \in Pools : request[p] <= Capacity[p]

\* blocking_pools(request) is empty, which is also can_admit(request)
Fits(request) == \A p \in Pools : request[p] <= Capacity[p] - used[p]

Init ==
  /\ used = [p \in Pools |-> 0]
  /\ peak = [p \in Pools |-> 0]
  /\ reservations = [h \in Holders |-> NoReservation]

\* acquire: the whole request or nothing of it
Acquire(h, request) ==
  /\ reservations[h] = NoReservation
  /\ Fits(request)
  /\ used' = [p \in Pools |-> used[p] + request[p]]
  /\ peak' = [p \in Pools |-> IF used'[p] > peak[p] THEN used'[p] ELSE peak[p]]
  /\ reservations' = [reservations EXCEPT ![h] = request]

\* Fault: the counters are given back but the holder is kept
ReleaseCounters(h) ==
  /\ reservations[h] # NoReservation
  /\ used' = [p \in Pools |-> used[p] - reservations[h][p]]
  /\ UNCHANGED <<peak, reservations>>

\* release: everything the holder took
Release(h) ==
  /\ reservations[h] # NoReservation
  /\ used' = [p \in Pools |-> used[p] - reservations[h][p]]
  /\ reservations' = [reservations EXCEPT ![h] = NoReservation]
  /\ UNCHANGED peak

\* What all holders took of a pool, slot by slot
SlotsOf(p) == UNION {{h} \X (1 .. reservations[h][p]) : h \in HoldersNow}
Held(p) == Cardinality(SlotsOf(p))

\* release_all: release of every holder, in acquisition order
ReleaseAll ==
  IF HoldersNow = {} THEN UNCHANGED ledgerVars
  ELSE /\ used' = [p \in Pools |-> used[p] - Held(p)]
       /\ reservations' = [h \in Holders |-> NoReservation]
       /\ UNCHANGED peak
===============================================================================
