CONSTANTS
    size1 = size1
    size2 = size2
    look1 = look1
    look2 = look2
    None = None
    Sizes <- TwoSizes
    Looks <- TwoLooks
    InitScreen <- Blank
    RingCap = 1
    OutCap = 1
    MaxFrames = 2
    MaxResizes = 1
    MaxSnapshots = 1
    MaxGarbled = 1
SPECIFICATION FairSpec
CHECK_DEADLOCK FALSE
INVARIANTS
    TypeOK
    HeldIsExact
    BellsExact
    ExitOnce
PROPERTIES
    NeverRewinds
    ExitDelivered
    ForwarderConverges
