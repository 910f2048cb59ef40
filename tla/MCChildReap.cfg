SPECIFICATION FairSpec
CONSTANTS
    Killers = {k1, k2}
    Free = free
INVARIANTS NoStraySignal ReapAccounted
PROPERTIES NobodyWaitsForEver
CHECK_DEADLOCK FALSE
