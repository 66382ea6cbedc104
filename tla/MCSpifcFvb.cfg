CHECK_DEADLOCK FALSE
SPECIFICATION Spec
CONSTANTS
    Bits <- MCBits
    BlockSize = 2
    BlockCount = 4
    RuntimeBase = 4
    BoardSize = 1
    HeaderSize = 1
    VariableLast = 0
    WorkingFirst = 1
    WorkingLast = 1
    SpareFirst = 3
    SpareLast = 3
    PageSize = 2
    VerifySize = 1
    Contents <- MCContents
    MaxLength = 2
    EraseLists <- MCEraseLists
    MaxRequests = 3
    MaxCuts = 1
    SilentPhases = {"ready"}
INVARIANTS
    ShadowCoherent
PROPERTIES
    ReplyIsHonest
    ForeignCellsUntouched
    ImplementsStore
