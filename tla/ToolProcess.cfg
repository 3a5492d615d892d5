CONSTANTS
  Chunk <- MCChunk
  Limit <- MCLimit
  Pipe <- MCPipe
SPECIFICATION ThreadsSpec
INVARIANTS TypeOK OkMeansComplete TimeoutLeavesNobody
PROPERTIES CallReturns FloodIsKilled
CHECK_DEADLOCK FALSE
