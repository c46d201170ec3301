CONSTANTS
  Builtins = {"has", "get"}
  ReadAsInteger <- Readable
  Facts <- SomeFacts
  Flows = {"w", "v"}
  Nameable <- SomeNames
  Qualified <- SomeQualified
  BuilderCalls <- SomeCalls
  Declarations <- SomeDeclarations
  Merges <- SomeMerges
  Requests <- SomeRequests
  MaxCalls = 4
SPECIFICATION Spec
INVARIANTS EdgesAreUnique StartedIsSchedulable OnlyKeepsValidity MergesPass BoundFitsSchema
CHECK_DEADLOCK FALSE
