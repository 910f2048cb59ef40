SPECIFICATION Spec
CONSTANTS
    a = a
    b = b
    Sess = {a, b}
    NoSess = NoSess
    MaxBind = 2
    MaxFrames = 1
    MaxGen = 2
    MaxRetired = 1
SYMMETRY SessSymmetry
INVARIANTS
    PaintedByOwnRoute
    RouteStaysAttached
    ExitToldOnce
    StaleIsInert
    EchoPaints
CHECK_DEADLOCK FALSE
