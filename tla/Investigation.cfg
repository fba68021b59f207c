CONSTANTS
    r = r
    x = x
    s = s
    z = z
    c1 = c1
    c2 = c2
    NULL = NULL
    Addresses = {r, x, s, z}
    Root = r
    Cases = {c1, c2}
    CaseRoot <- MCCaseRoot
    Txids = {1, 2, 3, 4, 5, 6}
    Ledgers <- MCLedgers
    TagSets <- MCTagSets
    Clusterings <- MCClusterings
    Depth = 2
    MaxNodes = 2
SPECIFICATION Spec
CHECK_DEADLOCK FALSE
INVARIANTS
    TypeOK
    TraceCoversReach
    NamesAreCurated
    ScoreNamesItsCases
    VolumeIsConserved
    NoneMeansNone
