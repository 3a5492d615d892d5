CONSTANTS
  a = a
  b = b
  c = c
  u = u
  call = call
  NoQuery = NoQuery
  NoCall = NoCall
  Query <- Two
  Call <- MCCall
  Type <- MCType
  Priority <- FlatPriority
  Steps <- TwinSteps
  Key <- LoneKey
  Rank <- FileOrder
  MaxQueries = 3
  Registries <- ToolMayVanish
  Faults = {"fail", "torn", "audit", "read"}
  MaxSteps = 2
  MaxFaults = 2
  MaxStops = 2
  MaxRequeues = 1
SPECIFICATION Spec
INVARIANTS TypeOK NoAutomaticReplay EffectIsEvident ReplayInvariant
PROPERTIES CheckpointNeverRegresses DurableRunningBeforeEffect ImplementsDurableEffect
CHECK_DEADLOCK FALSE
