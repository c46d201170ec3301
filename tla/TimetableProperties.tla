-------------------------- MODULE TimetableProperties -------------------------
(***************************************************************************)
(* What the answers of a timetable are, said without searching: every      *)
(* moment up to Horizon is looked at.                                      *)
(***************************************************************************)
EXTENDS Timetable, FiniteSetsExt

CONSTANT Horizon

ASSUME HorizonAssumption == Horizon \in Nat

\* 24:00-00:00 is accepted and contains no minute; align answers with a midnight at
\* which it is closed.
NoMinute == [start |-> MinutesPerDay, end |-> 0]
EveryWindowOpens == \A p \in Positions : NoMinute \notin entries[p].calendar.windows

Moments == 0 .. Horizon

\* A field as its author reads it: some piece says the value.  "*" counts its steps
\* from the lowest value of the field.
Says(field, v, low) ==
  \E piece \in Range(field) : \E k \in 0 .. v :
    LET step == IF piece.step = 0 THEN 1 ELSE piece.step
    IN  \/ piece.body = "star" /\ v = low + k * step
        \/ piece.body = "range" /\ v = piece.from + k * step /\ v <= piece.to
        \/ piece.body = "value" /\ v = piece.from + k * step /\ (k = 0 \/ step > 1)

\* The days an expression names: by either field if both are restricted, that is,
\* written as something else than "*"
NamesDay(text, t) ==
  LET weekday == (Day(t) + 1) % 7
      byDay == Says(text.day, DayOfMonth(t), 1)
      byWeekday == Says(text.weekday, weekday, 0)
                     \/ (weekday = 0 /\ Says(text.weekday, 7, 0))
  IN  IF text.day = <<Star>> /\ text.weekday = <<Star>> THEN TRUE
      ELSE IF text.day = <<Star>> THEN byWeekday
      ELSE IF text.weekday = <<Star>> THEN byDay
      ELSE byDay \/ byWeekday

Wanted(trigger, t) ==
  CASE trigger.kind = "interval" ->
         /\ t >= trigger.anchor /\ (t - trigger.anchor) % trigger.every = 0
         /\ trigger.limit = NoMoment \/ (t - trigger.anchor) \div trigger.every < trigger.limit
    [] trigger.kind = "once"     -> t = trigger.at
    [] trigger.kind = "cron"     ->
         /\ Says(trigger.text.minute, Minute(t), 0) /\ Says(trigger.text.hour, Hour(t), 0)
         /\ Says(trigger.text.month, Month(t), 1) /\ NamesDay(trigger.text, t)
    [] trigger.kind = "never"    -> FALSE

WantedMoments == [trigger \in Triggers |-> {t \in Moments : Wanted(trigger, t)}]
OpenMoments == [calendar \in Calendars |-> {t \in Moments : IsOpen(calendar, t)}]

\* The starts of an entry: what is wanted while the calendar is open, and if the
\* entry is deferring what is wanted before, at the next open moment
AllStarts(entry, wanted) ==
  LET open == OpenMoments[entry.calendar]
      opensAfter(t) == {m \in open : m >= t}
  IN  IF ~ entry.enabled THEN {}
      ELSE IF ~ entry.deferring THEN wanted \cap open
      ELSE {Min(opensAfter(t)) : t \in {t \in wanted : opensAfter(t) # {}}}

WantedAfter(entry, t) == {m \in WantedMoments[entry.trigger] : m > t}

Due(q) ==
  UNION {{Fire(p, t) : t \in {t \in AllStarts(entries[p], WantedAfter(entries[p], q.after)) :
                                q.end = NoMoment \/ t <= q.end}} : p \in Positions}

Sooner(f, g) ==
  f.at < g.at \/ (f.at = g.at /\ PositionOf(f.name) < PositionOf(g.name))

\* The searches of a cron trigger look no further than this
SearchSpan == SearchLimitDays * MinutesPerDay

WantedWithin(trigger, from, to) == {m \in from .. to : m >= 0 /\ Wanted(trigger, m)}

Silent(trigger, t) ==
  trigger.kind = "cron" /\ WantedWithin(trigger, t + 1, t + SearchSpan) = {}

\* The starts a search from t does not get to: an expression is silent for too long, or
\* there are too many closed days, or too many wanted moments at which it is closed
OutOfReach(entry, t, start) ==
  LET wantedTo(m) == {w \in WantedAfter(entry, t) : w <= m}
  IN  IF entry.deferring
        THEN \/ Silent(entry.trigger, t)
             \/ \E w \in wantedTo(start) : Day(start) - Day(w) >= SearchDays
        ELSE \E m \in t .. start - 1 :
               /\ wantedTo(m) \cap OpenMoments[entry.calendar] = {}
               /\ Silent(entry.trigger, m) \/ Cardinality(wantedTo(m)) >= SkipLimit

\* Where the search for the next start of an entry begins
LastStart(p) ==
  Max({query.after} \cup {f.at : f \in {f \in Range(fires) : f.name = entries[p].name}})

Missed(p) ==
  {t \in AllStarts(entries[p], WantedAfter(entries[p], query.after)) :
     Fire(p, t) \notin Range(fires)}

\* upcoming and between, which follow each entry by searches of their own, list
\* every start that is due and in reach, each once, simultaneous ones in the order of
\* declaration, and stop only at the number asked for; next_fire agrees with the
\* first.  A query that raises does so because the entry that fired last, or any if
\* none has, would run but for its calendar, and every start that entry has is among
\* those collected or out of reach: skipping and aligning do not give up on a start
\* they would find.  (Nothing is said of an entry with the window 24:00-00:00.)
\* (timetable.py: upcoming, between, next_fire, ScheduleEntry.next_after)
AnswersAreComplete ==
  EveryWindowOpens =>
    /\ phase = "answered" =>
         /\ \A i, j \in DOMAIN fires : i < j => Sooner(fires[i], fires[j])
         /\ \A f \in Range(fires) : f.at \in Moments => f \in Due(query)
         /\ \A p \in Positions : \A t \in Missed(p) :
              query.end = NoMoment \/ t <= query.end =>
                \/ Len(fires) = query.count /\ \A i \in DOMAIN fires : Sooner(fires[i], Fire(p, t))
                \/ OutOfReach(entries[p], LastStart(p), t)
         /\ fires # <<>> => fires[1] = NextFire(query.after)
    /\ phase = "raised" =>
         \E p \in Positions :
           /\ fires # <<>> => fires[Len(fires)].name = entries[p].name
           /\ entries[p].enabled /\ TriggerAfter(entries[p].trigger, LastStart(p)) # NoMoment
           /\ \A t \in Missed(p) : OutOfReach(entries[p], LastStart(p), t)

\* A merged calendar is open exactly when every calendar that went into it is,
\* unless windows are left nowhere, which the code takes for no restriction.
\* (calendar.py: merge_calendars, _intersect_windows)
MergeOpensWhereAllDo ==
  LET calendars == [p \in Positions |-> entries[p].calendar]
      restricted == {p \in Positions : calendars[p].windows # {}}
      shared == \E m \in 0 .. MinutesPerDay - 1 :
                  \A p \in restricted : OpenIn(calendars[p].windows, m)
  IN  phase = "idle" /\ shared =>
        {t \in Moments : IsOpen(Merged(calendars), t)}
          = {t \in Moments : \A p \in Positions : t \in OpenMoments[calendars[p]]}

\* The cron triggers whose searches find the first match after and the last one
\* before every moment, if there is one where they look, and nothing otherwise
WellSearched ==
  {trigger \in {trigger \in Triggers : trigger.kind = "cron"} :
     \A t \in Moments :
       LET later == WantedWithin(trigger, t + 1, t + SearchSpan)
           earlier == WantedWithin(trigger, t - SearchSpan, t - 1)
       IN  /\ CronAfter(trigger.cron, t) = IF later = {} THEN NoMoment ELSE Min(later)
           /\ CronBefore(trigger.cron, t) = IF earlier = {} THEN NoMoment ELSE Max(earlier)}

\* The searches of a cron expression leap over whole months, days and hours, in both
\* directions, and as far as they look miss no moment that the text of the expression
\* names: lists, ranges, steps and both spellings of Sunday are read as they are written.
\* (cron.py: parse_cron, next_after, previous_before)
CronSearchesFind ==
  \A p \in Positions : entries[p].trigger.kind = "cron" => entries[p].trigger \in WellSearched

\* "The earliest fire strictly after ``after``" (timetable.py:233), whenever one asks:
\* also between the moment a start was wanted at and the one it was deferred to.
NextFireIsEarliest ==
  phase = "idle" =>
    \A t \in Moments :
      LET later == {m \in UNION {AllStarts(entries[p], WantedMoments[entries[p].trigger]) :
                                   p \in Positions} : m > t}
      IN  later # {} /\ Broken \notin Range(Starts(t)) =>
           NextFire(t) # NoMoment /\ NextFire(t).at = Min(later)
===============================================================================
