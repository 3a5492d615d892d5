CONSTANTS
  Chunk <- MCChunk
  Limit <- MCLimit
  Pipe <- MCPipe
SPECIFICATION Spec
INVARIANTS FloodIsError
CHECK_DEADLOCK FALSE
