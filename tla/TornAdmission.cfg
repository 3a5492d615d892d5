CONSTANTS
  a = a
  b = b
  c = c
  u = u
  call = call
  NoQuery = NoQuery
  NoCall = NoCall
  Query <- Three
  Call <- MCCall
  Type <- MCType
  Priority <- FlatPriority
  Steps <- TwinSteps
  Key <- TwinKey
  Rank <- FileOrder
  MaxQueries = 3
  Registries <- EveryToolKnown
  Faults = {"fail", "torn"}
  MaxSteps = 2
  MaxFaults = 2
  MaxStops = 1
  MaxRequeues = 0
SPECIFICATION Spec
INVARIANTS DuplicateCallOnce
CHECK_DEADLOCK FALSE
