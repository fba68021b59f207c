CONSTANTS
    root = root
    x = x
    y = y
    z = z
    X = X
    Names = {root, x, y, z, X}
    Addresses = {root, x, y, z}
    Norm <- MCNorm
    Root = root
    Ledgers <- MCLedgers
    MaxDepth = 3
    MaxBreadth = 2
    Budget = 3
SPECIFICATION Spec
CHECK_DEADLOCK FALSE
INVARIANTS
    TypeOK
    WalkIsExact
PROPERTY WalkEnds
