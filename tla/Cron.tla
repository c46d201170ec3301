-------------------------------- MODULE Cron ---------------------------------
(***************************************************************************)
(* The parser and the searches of schedule/cron.py.  The text of a field   *)
(* is the row of its comma-separated pieces, each of which has a body --   *)
(* "*", a value or a range -- and a step, 0 if none is written; names of   *)
(* months and days are the numbers they stand for.  An expression is what  *)
(* the parser makes of a text: a set of values per field and whether a day *)
(* field is "*".  Months have the lengths MonthLengths says, over and over *)
(* (400 years of them in the code's calendar, leap years included).        *)
(***************************************************************************)
EXTENDS Calendar, Functions

CONSTANTS
  MonthLengths,     \* days of each month until the calendar repeats itself
  MonthsPerYear,
  SearchLimitDays   \* _SEARCH_LIMIT_DAYS

ASSUME YearAssumption ==
  /\ MonthLengths \in Seq(Nat \ {0}) /\ MonthLengths # <<>>
  /\ MonthsPerYear \in Nat \ {0} /\ Len(MonthLengths) % MonthsPerYear = 0
ASSUME SearchAssumption == SearchLimitDays \in Nat

MonthsListed == Len(MonthLengths)

-------------------------------------------------------------------------------
(* Parsing                                                                   *)

\* A step that is written is at least 1
Pieces == [body : {"star", "value", "range"}, from : Nat, to : Nat, step : Nat]

Fields == Seq(Pieces) \ {<<>>}

Texts == [minute : Fields, hour : Fields, day : Fields, month : Fields, weekday : Fields]

Star == [body |-> "star", from |-> 0, to |-> 0, step |-> 0]

\* _parse_value's bounds and _parse_piece's test for a range that runs backwards
PieceAccepted(piece, low, high) ==
  CASE piece.body = "star"  -> TRUE
    [] piece.body = "value" -> piece.from \in low .. high
    [] piece.body = "range" -> /\ {piece.from, piece.to} \subseteq low .. high
                               /\ piece.from <= piece.to

\* _parse_piece: a single value with a step above 1 runs to the end of the field
PieceValues(piece, low, high) ==
  LET first == IF piece.body = "star" THEN low ELSE piece.from
      last == CASE piece.body = "star"  -> high
                [] piece.body = "range" -> piece.to
                [] piece.body = "value" -> IF piece.step > 1 THEN high ELSE first
      step == IF piece.step = 0 THEN 1 ELSE piece.step
  IN  {v \in first .. last : (v - first) % step = 0}

\* The values _parse_field collects
FieldValues(pieces, low, high) ==
  UNION {PieceValues(piece, low, high) : piece \in pieces}

\* Both 0 and 7 are Sunday
WeekdayValues(pieces) == {v % 7 : v \in FieldValues(pieces, 0, 7)}

LongestMonth ==
  CHOOSE n \in {MonthLengths[k] : k \in 1 .. MonthsListed} :
    \A k \in 1 .. MonthsListed : MonthLengths[k] <= n

\* _FIELD_BOUNDS, in the units of the model
FieldBounds ==
  [minute |-> <<0, MinutesPerHour - 1>>, hour |-> <<0, HoursPerDay - 1>>,
   day |-> <<1, LongestMonth>>, month |-> <<1, MonthsPerYear>>, weekday |-> <<0, 7>>]

CronAccepted(text) ==
  \A f \in DOMAIN FieldBounds : \A piece \in Range(text[f]) :
    PieceAccepted(piece, FieldBounds[f][1], FieldBounds[f][2])

\* parse_cron of a text it accepts.  Only a day field that is "*" leaves the days to
\* the other one: "*,*" does not.
ParseCron(text) ==
  LET Values(f) == FieldValues(Range(text[f]), FieldBounds[f][1], FieldBounds[f][2])
  IN  [minute |-> Values("minute"), hour |-> Values("hour"), day |-> Values("day"),
       month |-> Values("month"), weekday |-> WeekdayValues(Range(text.weekday)),
       anyDay |-> text.day = <<Star>>, anyWeekday |-> text.weekday = <<Star>>]

-------------------------------------------------------------------------------
(* Matching and searching                                                    *)

\* The day the k-th month from the first moment on begins with
MonthStart[k \in Nat] ==
  IF k = 0 THEN 0 ELSE MonthStart[k - 1] + MonthLengths[((k - 1) % MonthsListed) + 1]

MonthAt(t) == CHOOSE k \in 0 .. Day(t) : MonthStart[k] <= Day(t) /\ Day(t) < MonthStart[k + 1]

Month(t) == (MonthAt(t) % MonthsPerYear) + 1
DayOfMonth(t) == Day(t) - MonthStart[MonthAt(t)] + 1
Hour(t) == MinuteOfDay(t) \div MinutesPerHour
Minute(t) == t % MinutesPerHour

\* Cron counts weekdays from Sunday
DayMatches(cron, t) ==
  LET dayFits == DayOfMonth(t) \in cron.day
      weekdayFits == ((Day(t) + 1) % 7) \in cron.weekday
  IN  \/ cron.anyDay /\ cron.anyWeekday
      \/ cron.anyDay /\ weekdayFits
      \/ cron.anyWeekday /\ dayFits
      \/ ~ cron.anyDay /\ ~ cron.anyWeekday /\ (dayFits \/ weekdayFits)

Matches(cron, t) ==
  /\ Minute(t) \in cron.minute /\ Hour(t) \in cron.hour
  /\ Month(t) \in cron.month /\ DayMatches(cron, t)

NextMonth(t) == MonthStart[MonthAt(t) + 1] * MinutesPerDay
NextDay(t) == (Day(t) + 1) * MinutesPerDay

\* Fault: the minutes that have passed are kept
HourLater(t) == t + MinutesPerHour

NextHour(t) == ((t \div MinutesPerHour) + 1) * MinutesPerHour

\* next_after: skips the months, days and hours that cannot match
CronAfter(cron, t) ==
  LET horizon == t + 1 + SearchLimitDays * MinutesPerDay
      search[m \in Nat] ==
        IF m >= horizon THEN NoMoment
        ELSE IF Month(m) \notin cron.month THEN search[NextMonth(m)]
        ELSE IF ~ DayMatches(cron, m) THEN search[NextDay(m)]
        ELSE IF Hour(m) \notin cron.hour THEN search[NextHour(m)]
        ELSE IF Minute(m) \notin cron.minute THEN search[m + 1]
        ELSE m
  IN  search[t + 1]

LastOfPreviousMonth(t) == MonthStart[MonthAt(t)] * MinutesPerDay - 1
LastOfPreviousDay(t) == Day(t) * MinutesPerDay - 1
LastOfPreviousHour(t) == (t \div MinutesPerHour) * MinutesPerHour - 1

\* previous_before, which also ends where the moments of the model begin
CronBefore(cron, t) ==
  LET horizon == t - 1 - SearchLimitDays * MinutesPerDay
      search[m \in Int] ==
        IF m <= horizon \/ m < 0 THEN NoMoment
        ELSE IF Month(m) \notin cron.month THEN search[LastOfPreviousMonth(m)]
        ELSE IF ~ DayMatches(cron, m) THEN search[LastOfPreviousDay(m)]
        ELSE IF Hour(m) \notin cron.hour THEN search[LastOfPreviousHour(m)]
        ELSE IF Minute(m) \notin cron.minute THEN search[m - 1]
        ELSE m
  IN  search[t - 1]
===============================================================================
