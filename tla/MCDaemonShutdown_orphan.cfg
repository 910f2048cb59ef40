CONSTANTS
    Ids = {i1, i2}
    Clients = {c1, c2}
    Tokens = {}
    OpTokens = {}
    None = None
    MaxSessions = 1
    MaxLedger = 1
    MaxPending = 1
    MaxRetired = 1
    MaxGen = 2
SPECIFICATION LifeSpec
SYMMETRY Symmetry
CHECK_DEADLOCK FALSE
INVARIANTS
    NoOrphanAtExit
