CONSTANTS
    Addresses = {1, 2, 3}
    Tagged = {1}
    Ledgers <- MCLedgers
SPECIFICATION Spec
CHECK_DEADLOCK FALSE
INVARIANTS
    TypeOK
    ClustersAreComponents
    AbstainsWhenAmbiguous
PROPERTIES
    NeverSplit
    EveryPassEnds
