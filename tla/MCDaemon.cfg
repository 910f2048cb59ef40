CONSTANTS
    Ids = {i1, i2}
    Clients = {c1, c2}
    Tokens = {t1, t2, t3}
    OpTokens = {o1, o2}
    None = None
    MaxSessions = 1
    MaxLedger = 1
    MaxPending = 2
    MaxRetired = 1
    MaxGen = 2
SPECIFICATION Spec
SYMMETRY Symmetry
CONSTRAINT OneKindOfToken
CHECK_DEADLOCK FALSE
INVARIANTS
    TypeOK
    GuardCountExact
    GuardedSessionMapped
    PendingOwnerPresent
    PendingNotRetired
    OperationSpawnsOnce
    AppliedEntryNamesSession
    TablesBounded
PROPERTIES
    LiveSessionOnlyKilled
