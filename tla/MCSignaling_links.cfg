SPECIFICATION Spec
CONSTANTS
    Sess = {s1}
    DeskSlots = {j1}
    Slots = {i1, i2}
    MaxIce = 2
    Waked = {}
    TotalLimit = 1
    PerKeyLimit = 1
    MaxServes = 1
    MaxPosts = 1
    MaxFaults = 1
    Blobs <- ThreeBlobs
    c1 = c1
    c2 = c2
    c3 = c3
    Desk = d
    NoSlot = NoSlot
PROPERTIES LinksDeliver
CONSTRAINT NoHints
SYMMETRY Symmetry
CHECK_DEADLOCK FALSE
