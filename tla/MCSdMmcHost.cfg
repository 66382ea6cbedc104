SPECIFICATION Spec
CONSTANTS
  BlockBytes = 4
  MaxChunk = 2
  CardBlocks = 5
  AskedClocks = {0, 161, 520}
  MaxPolls = 1
  MaxFaults = 1
CHECK_DEADLOCK FALSE
INVARIANTS
  BlocksLandInPlace CardNeverAbused InstalledCardsAnswer
PROPERTIES EveryTransferReturns
