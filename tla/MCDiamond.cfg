SPECIFICATION Spec
CONSTANTS
  Tasks <- DiamondTasks
  Order <- DiamondOrder
  EdgesInto <- DiamondEdges
  Conditional <- DiamondConditional
  Reads <- DiamondReads
  Rule <- AllSuccess
  Priority <- DiamondPriority
  DeclaredAt <- DiamondDeclared
  Request <- DiamondRequest
  Pools <- OnePool
  Capacity <- TwoSlots
  FailurePolicy = "ISOLATE"
  MaxParallelism = 0
  MaxInFlight = 8
  MaxAttempts <- TwoAttempts
  RetryOn <- AnyError
  Delay <- ByAttempt
  Timeout <- NoTimeouts
  Raises <- Errors
  Elapsed <- Instant
  MayCancel <- Nobody
  ClockCanWait = TRUE
  OutsideCancel = TRUE
  MaxIterations = 40
  NoReservation = NoReservation
  NoTask = NoTask
  NoError = NoError
  NoTimeout = NoTimeout
  Unknown = Unknown
INVARIANTS
  TypeOK
  NothingStranded
  ResolveSettles
  AttemptsAccounted
  IterationBudget
PROPERTIES
  BackoffRespected
  KeepsPromise
