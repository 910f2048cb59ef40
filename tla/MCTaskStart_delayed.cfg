CONSTANTS
    Ops = {o1}
    Workers = {w1}
    MaxInst = 1
    MaxGen = 1
    MaxFaults = 1
    None = None
    TimelyWire = FALSE
SPECIFICATION Spec
INVARIANTS
    UnappliedProofSound
CHECK_DEADLOCK FALSE
