CONSTANTS
    Ops = {o1}
    Workers = {w1, w2}
    MaxInst = 2
    MaxGen = 2
    MaxFaults = 2
    None = None
    TimelyWire = TRUE
SPECIFICATION FairSpec
INVARIANTS
    PtyAccounted
    RecordsTruthful
PROPERTIES
    RecoveryNeverKillsPublished
    RowsResolve
CHECK_DEADLOCK FALSE
