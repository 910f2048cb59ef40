SPECIFICATION Spec
CONSTANTS
    Conn = {c1, c2}
    Sess = {s1}
    NoConn = noConn
    NoSess = noSess
    MaxGen = 4
    Grace = 1
    Lease = 1
    MaxFaults = 0
    MaxRestarts = 0
VIEW WithoutFiles
SYMMETRY Symmetry
INVARIANT ReclaimIsCurrent
INVARIANT LeaseAwaitsViewing
PROPERTY DeferredIsCurrent
CHECK_DEADLOCK FALSE
