SPECIFICATION Spec
CONSTANTS
  LastChunk = 1
  Images = {v1, v2, oowow}
  Running = v1
  Foreign = oowow
  Modes = {"spi"}
  Requests = {"enabled", "none"}
  WornSets <- MCHealthy
  SilentErase = FALSE
  MaxCalls = 2
  MaxFaults = 2
  MaxCuts = 1
INVARIANTS NorNeverHalfWritten BoardKeepsBooting UpdateHonest
CHECK_DEADLOCK FALSE
