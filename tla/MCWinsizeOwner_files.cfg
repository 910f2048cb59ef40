SPECIFICATION FairSpec
CONSTANTS
    Conn = {c1}
    Sess = {s1}
    NoConn = noConn
    NoSess = noSess
    MaxGen = 2
    Grace = 1
    Lease = 1
    MaxFaults = 2
    MaxRestarts = 1
PROPERTY FilesFollow
PROPERTY AllLocalAgain
INVARIANT CleanMeansOnDisk
CHECK_DEADLOCK FALSE
