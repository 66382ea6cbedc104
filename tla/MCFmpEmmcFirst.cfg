SPECIFICATION Spec
CONSTANTS
  LastChunk = 1
  Images = {v1, v2, oowow}
  Running = v1
  Foreign = oowow
  Modes = {"emmc"}
  Requests = {"none"}
  WornSets <- MCHealthy
  SilentErase = FALSE
  MaxCalls = 2
  MaxFaults = 0
  MaxCuts = 1
INVARIANTS RescueKeepsBooting
CHECK_DEADLOCK FALSE
