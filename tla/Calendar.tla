------------------------------ MODULE Calendar -------------------------------
(***************************************************************************)
(* schedule/calendar.py: when a workflow may run.  A moment is a number of *)
(* whole minutes since the midnight before some Monday; a day has          *)
(* HoursPerDay * MinutesPerHour of them, 24 * 60 in the code.              *)
(***************************************************************************)
EXTENDS Integers, Sequences

CONSTANTS
  HoursPerDay,
  MinutesPerHour,
  SearchDays,      \* _SEARCH_DAYS
  NoMoment,        \* None where a moment may be
  Broken           \* the ScheduleError instead of an answer

ASSUME ClockAssumption == HoursPerDay \in Nat \ {0} /\ MinutesPerHour \in Nat \ {0}
ASSUME AnswerAssumption ==
  SearchDays \in Nat /\ NoMoment \notin Int /\ Broken \notin Int /\ NoMoment # Broken

MinutesPerDay == HoursPerDay * MinutesPerHour

Day(t) == t \div MinutesPerDay
MinuteOfDay(t) == t % MinutesPerDay

NextMidnight(t) == (Day(t) + 1) * MinutesPerDay

-------------------------------------------------------------------------------
(* Windows: [start |-> .., end |-> ..], half-open                            *)

\* What TimeWindow.__post_init__ accepts
Windows ==
  {window \in [start : 0 .. MinutesPerDay, end : 0 .. MinutesPerDay] :
     window.start # window.end}

Wraps(window) == window.end < window.start

Contains(window, minute) ==
  IF Wraps(window) THEN minute >= window.start \/ minute < window.end
                   ELSE minute \in window.start .. window.end - 1

\* next_open_minute, for a window that is not open
WaitFor(window, minute) == (window.start - minute) % MinutesPerDay

OpenIn(windows, minute) == \E window \in windows : Contains(window, minute)

-------------------------------------------------------------------------------
(* Calendars: [weekend |-> .., holidays |-> .., windows |-> ..]              *)

IsBusinessDay(calendar, t) ==
  /\ (Day(t) % 7) \notin calendar.weekend
  /\ Day(t) \notin calendar.holidays

IsOpen(calendar, t) ==
  /\ IsBusinessDay(calendar, t)
  /\ calendar.windows = {} \/ OpenIn(calendar.windows, MinuteOfDay(t))

NextOpening(calendar, t) ==
  t + (CHOOSE wait \in {WaitFor(window, MinuteOfDay(t)) : window \in calendar.windows} :
         \A window \in calendar.windows : wait <= WaitFor(window, MinuteOfDay(t)))

\* Fault: an opening tomorrow is taken although tomorrow may be closed
SettlesAnyDay(calendar, t) == TRUE

\* An opening tomorrow may fall on a closed day, so only one of today settles it
Settles(calendar, t) == Day(NextOpening(calendar, t)) = Day(t)

\* align: one step per closed day
Align(calendar, t) ==
  LET search[state \in (0 .. SearchDays) \X Nat] ==
        LET days == state[1]
            moment == state[2]
        IN  IF days = 0 THEN Broken
            ELSE IF ~ IsBusinessDay(calendar, moment) THEN search[<<days - 1, NextMidnight(moment)>>]
            ELSE IF IsOpen(calendar, moment) THEN moment
            ELSE IF Settles(calendar, moment) THEN NextOpening(calendar, moment)
            ELSE search[<<days - 1, NextMidnight(moment)>>]
  IN  search[<<SearchDays, t>>]

\* The longest runs of a set of minutes, as windows
WindowsFromMinutes(minutes) ==
  {window \in [start : minutes, end : {m + 1 : m \in minutes}] :
     /\ window.start < window.end
     /\ window.start .. window.end - 1 \subseteq minutes
     /\ window.start - 1 \notin minutes /\ window.end \notin minutes}

\* Fault: the windows of all calendars are put together
CollectWindows(calendars) == UNION {calendars[i].windows : i \in DOMAIN calendars}

\* The windows of the only calendar that has any, or what all that have any share
MergedWindows(calendars) ==
  LET restricted == {i \in DOMAIN calendars : calendars[i].windows # {}}
  IN  IF \E i \in restricted : restricted = {i}
        THEN calendars[CHOOSE i \in restricted : TRUE].windows
        ELSE WindowsFromMinutes(
               {m \in 0 .. MinutesPerDay - 1 :
                  restricted # {} /\ \A i \in restricted : OpenIn(calendars[i].windows, m)})

\* merge_calendars
Merged(calendars) ==
  [weekend |-> UNION {calendars[i].weekend : i \in DOMAIN calendars},
   holidays |-> UNION {calendars[i].holidays : i \in DOMAIN calendars},
   windows |-> MergedWindows(calendars)]
===============================================================================
