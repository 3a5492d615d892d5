CONSTANTS
  a = a
  c = c
  call = call
  NoQuery = NoQuery
  NoCall = NoCall
  Query <- MCQuery
  Call <- MCCall
  Mine <- MCMine
  Type <- MCType
  Priority <- MCPriority
  Steps <- MCSteps
  Key <- MCKey
  Rank <- MCRank
  MaxQueries = 2
  Registries <- MCRegistries
  Faults = {}
  MaxSteps = 1
  MaxFaults = 0
  MaxStops = 1
  MaxRequeues = 0
SPECIFICATION Spec
INVARIANTS IdentityExecutedOnce
CHECK_DEADLOCK FALSE
