SPECIFICATION Spec
CONSTANTS
    ChipSize = 6
    EraseSize = 3
    PageSize = 3
    CommandMax = 1
    TransferMax = 2
    Buffers <- MCBuffers
    Contents <- MCContents
    MaxPolls = 2
    MaxFaults = 2
INVARIANT
    CommandsFramed
PROPERTIES
    EveryCallReturns
    ImplementsContract
