CONSTANTS
  a = a
  b = b
  c = c
  u = u
  call = call
  call2 = call2
  n1 = n1
  NoQuery = NoQuery
  NoCall = NoCall
  Query <- Three
  Call <- TwoCalls
  Type <- MCType
  Priority <- MixedPriority
  Steps <- HostSteps
  Key <- CycleKey
  Rank <- FileOrder
  MaxQueries = 2
  Registries <- EveryToolKnown
  Faults = {"fail", "audit"}
  MaxSteps = 2
  MaxFaults = 1
  MaxStops = 1
  MaxRequeues = 0
  Interaction <- OneInteraction
  InteractionOf <- OneTurn
  MaxCalls = 2
  MaxRounds = 2
  Budget = 3
SPECIFICATION FairCycleSpec
INVARIANTS CycleTypeOK AnswersAreSettled EffectsAreAnswered BudgetSuffices
PROPERTIES CycleEnds NothingRunsAfterAnswer CompletedAnswersAreDurable
CHECK_DEADLOCK FALSE
