CONSTANTS
  a = a
  b = b
  c = c
  u = u
  call = call
  NoQuery = NoQuery
  NoCall = NoCall
  Query <- Three
  Call <- MCCall
  Type <- MCType
  Priority <- FlatPriority
  Steps <- TwinSteps
  Key <- TwinKey
  Rank <- FileOrder
  MaxQueries = 3
  Registries <- EveryToolKnown
  Faults = {"fail", "audit"}
  MaxSteps = 2
  MaxFaults = 2
  MaxStops = 2
  MaxRequeues = 0
SPECIFICATION Spec
INVARIANTS DuplicateCallOnce CompletedMeansSucceeded
PROPERTIES DurableTerminalIsFinal
CHECK_DEADLOCK FALSE
