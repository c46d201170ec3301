SPECIFICATION Spec
CONSTANTS
  HoursPerDay = 2
  MinutesPerHour = 2
  SearchDays = 10
  MonthLengths <- MonthsOfTwoYears
  MonthsPerYear = 3
  SearchLimitDays = 16
  SkipLimit = 12
  Horizon = 100
  Names = {n1}
  Triggers <- SomeTriggers
  Calendars <- SomeCalendars
  Queries <- SomeQueries
  NoMoment = NoMoment
  Broken = Broken
INVARIANT NextFireIsEarliest
