SPECIFICATION Spec
CONSTANTS
  Tasks <- DiamondTasks
  Order <- DiamondOrder
  EdgesInto <- DiamondEdges
  Conditional <- DiamondConditional
  Reads <- DiamondEagerReads
  Rule <- AllSuccess
  Priority <- DiamondPriority
  DeclaredAt <- DiamondDeclared
  Request <- DiamondRequest
  Pools <- OnePool
  Capacity <- TwoSlots
  FailurePolicy = "CONTINUE"
  MaxParallelism = 0
  MaxInFlight = 8
  MaxAttempts <- TwoAttempts
  RetryOn <- AnyError
  Delay <- ByAttempt
  Timeout <- NoTimeouts
  Raises <- Errors
  Elapsed <- Instant
  MayCancel <- Nobody
  ClockCanWait = TRUE
  OutsideCancel = FALSE
  MaxIterations = 40
  NoReservation = NoReservation
  NoTask = NoTask
  NoError = NoError
  NoTimeout = NoTimeout
  Unknown = Unknown
PROPERTIES
  ConditionsReadFinishedTasks
