CONSTANTS
  a = a
  b = b
  c = c
  u = u
  call = call
  NoQuery = NoQuery
  NoCall = NoCall
  Query <- Two
  Call <- MCCall
  Type <- MCType
  Priority <- FlatPriority
  Steps <- LoneSteps
  Key <- LoneKey
  Rank <- FileOrder
  MaxQueries = 3
  Registries <- ToolMayVanish
  Faults = {}
  MaxSteps = 2
  MaxFaults = 0
  MaxStops = 1
  MaxRequeues = 0
SPECIFICATION Spec
PROPERTIES DurableTerminalIsFinal
CHECK_DEADLOCK FALSE
