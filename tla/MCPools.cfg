SPECIFICATION Spec
CONSTANTS
  Tasks <- FanTasks
  Order <- FanOrder
  EdgesInto <- FanEdges
  Conditional <- Nobody
  Reads <- NoReads
  Rule <- AllSuccess
  Priority <- FanPriority
  DeclaredAt <- FanDeclared
  Request <- FanRequest
  Pools <- OnePool
  Capacity <- TwoSlots
  FailurePolicy = "FAIL_FAST"
  MaxParallelism = 3
  MaxInFlight = 2
  MaxAttempts <- TwoAttempts
  RetryOn <- OnlyTimeouts
  Delay <- ByAttempt
  Timeout <- TimeoutOfOne
  Raises <- Errors
  Elapsed <- AnyOneSlow
  MayCancel <- Everybody
  ClockCanWait = FALSE
  OutsideCancel = TRUE
  MaxIterations = 6
  NoReservation = NoReservation
  NoTask = NoTask
  NoError = NoError
  NoTimeout = NoTimeout
  Unknown = Unknown
INVARIANTS
  SlotsConserved
  SlotsHeldExactlyInWaves
  AdmissionMaximal
  ClockStrandsOnlyRetries
PROPERTIES
  FailFastStops
