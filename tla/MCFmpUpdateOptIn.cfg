SPECIFICATION FairSpec
CONSTANTS
  LastChunk = 1
  Images = {v1, v2, oowow}
  Running = v1
  Foreign = oowow
  Modes = {"emmc"}
  Requests = {"enabled", "now"}
  WornSets <- MCWorn
  SilentErase = TRUE
  MaxCalls = 2
  MaxFaults = 2
  MaxCuts = 1
PROPERTIES FlipOnlyOverVerified RequestKept EveryCallEnds
CHECK_DEADLOCK FALSE
