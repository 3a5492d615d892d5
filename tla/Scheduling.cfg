CONSTANTS
  a = a
  b = b
  c = c
  u = u
  call = call
  NoQuery = NoQuery
  NoCall = NoCall
  Query <- Four
  Call <- MCCall
  Type <- MCType
  Priority <- FourPriority
  Steps <- TwinSteps
  Key <- LoneKey
  Rank <- FileOrder
  MaxQueries = 2
  Registries <- ToolMayVanish
  Faults = {}
  MaxSteps = 2
  MaxFaults = 0
  MaxStops = 1
  MaxRequeues = 1
SPECIFICATION FifoSpec
INVARIANTS QueuedIsScheduled 
PROPERTIES BestQueuedRunsNext FifoAdmissionOrder CapacityRespected
CHECK_DEADLOCK FALSE
