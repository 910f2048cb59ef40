CONSTANTS
    size1 = size1
    size2 = size2
    look1 = look1
    look2 = look2
    None = None
    Sizes <- OneSize
    Looks <- TwoLooks
    InitScreen <- Blank
    RingCap = 2
    OutCap = 2
    MaxFrames = 3
    MaxResizes = 0
    MaxSnapshots = 1
    MaxGarbled = 0
SPECIFICATION FairSpec
CHECK_DEADLOCK FALSE
PROPERTIES
    QuietScreenConverges
