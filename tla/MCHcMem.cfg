SPECIFICATION MemSpec
CONSTANTS
  MemPages = 7
  PageUnits = 2
  DefaultPages = 2
  Boundary = 4
  Sizes = {1, 3, 5}
  AlignedAsks <- MCAlignedAsks
  MaxLive = 3
  MaxBuffers = 1
  MaxFaults = 1
INVARIANTS
  PoolSound SearchFindsRoom
