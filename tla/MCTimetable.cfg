SPECIFICATION Spec
CONSTANTS
  HoursPerDay = 2
  MinutesPerHour = 2
  SearchDays = 3
  MonthLengths <- MonthsOfTwoYears
  MonthsPerYear = 3
  SearchLimitDays = 16
  SkipLimit = 6
  Horizon = 100
  Names = {n1, n2}
  Triggers <- SomeTriggers
  Calendars <- ClosedAndOpen
  Queries <- SomeQueries
  NoMoment = NoMoment
  Broken = Broken
SYMMETRY SameNames
INVARIANTS AnswersAreComplete MergeOpensWhereAllDo CronSearchesFind
