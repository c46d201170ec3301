------------------------------ MODULE MCTimetable ------------------------------
(***************************************************************************)
(* Days of two hours of two minutes, years of three months with 3, 2 and 3 *)
(* days -- every other year a leap year, whose second month has 3 -- and a *)
(* few triggers and calendars of every kind.                               *)
(***************************************************************************)
EXTENDS TimetableProperties, TLC

MonthsOfTwoYears == <<3, 2, 3, 3, 3, 3>>

Interval(every, anchor, limit) ==
  [kind |-> "interval", every |-> every, anchor |-> anchor, limit |-> limit]

Value(v) == [body |-> "value", from |-> v, to |-> v, step |-> 0]
Every(n) == [Star EXCEPT !.step = n]
FromTo(v, w, n) == [body |-> "range", from |-> v, to |-> w, step |-> n]
FromOn(v, n) == [Value(v) EXCEPT !.step = n]

Text(minute, hour, day, month, weekday) ==
  [minute |-> minute, hour |-> hour, day |-> day, month |-> month, weekday |-> weekday]

\* In the second hour of a third of the first or third month, or of a Tuesday or
\* Sunday in them: "*/1 1 3 1-3/2 2,7"
OnThirdOrTuesday ==
  Text(<<Every(1)>>, <<Value(1)>>, <<Value(3)>>, <<FromTo(1, 3, 2)>>, <<Value(2), Value(7)>>)

\* On the leap day: "1 * 3/2 2 *"
OnLeapDay == Text(<<Value(1)>>, <<Star>>, <<FromOn(3, 2)>>, <<Value(2)>>, <<Star>>)

\* On every day of the second month, as the first of two day fields names them all
\* without being "*": "1 1 *,* 2 4"
OnAnyDay == Text(<<Value(1)>>, <<Value(1)>>, <<Star, Star>>, <<Value(2)>>, <<Value(4)>>)

\* Refused: "0 0 * 3-1 *" and "2 0 * * *"
Refused ==
  {Text(<<Value(0)>>, <<Value(0)>>, <<Star>>, <<FromTo(3, 1, 0)>>, <<Star>>),
   Text(<<Value(2)>>, <<Value(0)>>, <<Star>>, <<Star>>, <<Star>>)}

SomeTexts ==
  {text \in {OnThirdOrTuesday, OnLeapDay, OnAnyDay} \cup Refused : CronAccepted(text)}

SomeTriggers ==
  {Interval(3, 1, 4), Interval(1, 0, NoMoment), [kind |-> "once", at |-> 5]}
    \cup {[kind |-> "cron", text |-> text, cron |-> ParseCron(text)] : text \in SomeTexts}

OpenUnless(weekend, holidays, windows) ==
  [weekend |-> weekend, holidays |-> holidays, windows |-> windows]
Window(start, end) == [start |-> start, end |-> end]

SomeCalendars ==
  {OpenUnless({}, {}, {}),
   OpenUnless({0, 2}, {}, {}),
   OpenUnless({}, {1}, {Window(1, 3)}),
   OpenUnless({1}, {}, {Window(3, 1)}),
   OpenUnless({6}, {2, 3}, {Window(0, 1), Window(2, 3)})}

NeverOpen == OpenUnless(0 .. 6, {}, {})

ClosedAndOpen == SomeCalendars \cup {NeverOpen}

SomeQueries ==
  {[after |-> 0, end |-> NoMoment, count |-> 3],
   [after |-> 3, end |-> 14, count |-> 4]}

SameNames == Permutations(Names)
===============================================================================
