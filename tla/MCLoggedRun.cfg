SPECIFICATION LoggedFairSpec
CONSTANTS
  Tasks <- DiamondTasks
  Order <- DiamondOrder
  EdgesInto <- DiamondEdges
  Conditional <- DiamondConditional
  Reads <- DiamondReads
  Rule <- DiamondMixed
  Priority <- DiamondPriority
  DeclaredAt <- DiamondDeclared
  Request <- DiamondRequest
  Pools <- OnePool
  Capacity <- TwoSlots
  FailurePolicy = "CONTINUE"
  MaxParallelism = 0
  MaxInFlight = 8
  MaxAttempts <- RootThrice
  RetryOn <- AnyError
  Delay <- Growing
  Timeout <- TimeoutOfOne
  Raises <- Errors
  Elapsed <- RootSlow
  MayCancel <- SecondBranch
  ClockCanWait = TRUE
  OutsideCancel = TRUE
  MaxIterations = 40
  NoReservation = NoReservation
  NoTask = NoTask
  NoError = NoError
  NoTimeout = NoTimeout
  Unknown = Unknown
INVARIANTS
  DecisionsStand
  ReplayAgrees
  OneEndPerTask
  TimelineIsCausal
PROPERTIES
  RunEnds
