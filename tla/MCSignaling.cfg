SPECIFICATION FairSpec
CONSTANTS
    Sess = {s1}
    DeskSlots = {j1, j2}
    Slots = {i1}
    MaxIce = 1
    Waked = {d, s1}
    TotalLimit = 2
    PerKeyLimit = 1
    MaxServes = 1
    MaxPosts = 1
    MaxFaults = 1
    Blobs <- NoBlobs
    c1 = c1
    c2 = c2
    c3 = c3
    Desk = d
    NoSlot = NoSlot
INVARIANTS
    HubExact
    NoMissedWake
PROPERTIES
    OfferServed
    AnswerReachesBrowser
CHECK_DEADLOCK FALSE
