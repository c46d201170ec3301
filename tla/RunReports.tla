------------------------------ MODULE RunReports ------------------------------
(***************************************************************************)
(* What src/campanile/report makes of a log while the run is still writing *)
(* it, or after it has stopped: the rows and the span of a timeline, the   *)
(* critical path, the durations the metrics add up.  All of it is computed *)
(* from the replayed snapshot alone.                                       *)
(***************************************************************************)
EXTENDS LoggedRun, FiniteSetsExt

-------------------------------------------------------------------------------
(* report/timeline.py                                                        *)

\* TimelineRow.placed: the task began and ended
Placed == {t \in Replayed.known :
             Replayed.tasks[t].started # R!Never /\ Replayed.tasks[t].finished # R!Never}

StartOf(t) == Replayed.tasks[t].started
EndOf(t) == Replayed.tasks[t].finished

\* Timeline.of: where the drawing begins and ends
TimesOf(Time(_)) == {Time(t) : t \in Replayed.known} \ {R!Never}
FirstOf(times, default) == IF times = {} THEN default ELSE Min(times)
LastOf(times, default) == IF times = {} THEN default ELSE Max(times)

Origin == IF Replayed.started # R!Never THEN Replayed.started
          ELSE FirstOf(TimesOf(StartOf), 0)
Close == IF Replayed.finished # R!Never THEN Replayed.finished
         ELSE LastOf(TimesOf(EndOf), Origin)

\* max(..., key = (finished_at, name)); TLC's strings have no order, so Order stands
\* for the order of names
EndsLast(names) ==
  CHOOSE t \in names : \A u \in names \ {t} :
    \/ EndOf(u) < EndOf(t)
    \/ EndOf(u) = EndOf(t) /\ \E i, j \in 1 .. Len(Order) :
                            i < j /\ Order[i] = u /\ Order[j] = t

\* critical_path: backwards from the task that ended last, each time to the
\* upstream that ended last
ChainTo ==
  LET chain[t \in Tasks] ==
        LET before == Upstreams(t) \cap Placed
        IN  IF before = {} THEN <<t>> ELSE Append(chain[EndsLast(before)], t)
  IN  chain

CriticalPath == IF Placed = {} THEN <<>> ELSE ChainTo[EndsLast(Placed)]

-------------------------------------------------------------------------------
(* report/metrics.py and store/replay.py                                     *)

\* TaskSnapshot.duration and what collect adds up of it
Duration(t) == IF EndOf(t) > StartOf(t) THEN EndOf(t) - StartOf(t) ELSE 0
TotalDuration == MapThenSumSet(Duration, Placed)

-------------------------------------------------------------------------------
(* What a reader of a report relies on.                                      *)

\* The rules under which a task starts only when all its upstreams have ended
WaitsForAll == {"ALL_SUCCESS", "ALL_DONE", "NONE_FAILED", "ALL_FAILED"}

Follows(u, t) == EndOf(u) # R!Never /\ EndOf(u) <= StartOf(t)

Overlap(t, u) == StartOf(t) < EndOf(u) /\ StartOf(u) < EndOf(t)

\* The times in a log tell a story that can have happened, at every moment of the run
\* and however it ends: every bar of Timeline.of lies inside the span it is drawn
\* against, also when a cancellation has set the end early; a task begins after the
\* upstreams its rule waited for, so critical_path goes forward in time; and since
\* the executor runs one body at a time, bars overlap -- and collect counts a second
\* twice -- only while some task waits for a retry.
TimelineIsCausal ==
  Written =>
    /\ \A t \in Placed : Origin <= StartOf(t) /\ StartOf(t) <= EndOf(t) /\ EndOf(t) <= Close
    /\ \A t \in Replayed.known : StartOf(t) # R!Never /\ EdgesInto[t] # <<>> =>
         /\ Rule[t] \in WaitsForAll => \A u \in Upstreams(t) : Follows(u, t)
         /\ Rule[t] = "ANY_SUCCESS" => \E u \in Upstreams(t) : Follows(u, t)
    /\ \A i \in 1 .. Len(CriticalPath) - 1 :
         Rule[CriticalPath[i + 1]] \in WaitsForAll =>
           ~ Overlap(CriticalPath[i], CriticalPath[i + 1])
    /\ \A t, u \in Placed : t # u /\ Overlap(t, u) =>
         Replayed.tasks[t].retries + Replayed.tasks[u].retries > 0
    /\ (\A t \in Placed : Replayed.tasks[t].retries = 0) =>
         TotalDuration <= Close - Origin
===============================================================================
