SPECIFICATION Spec
CONSTANTS
    Processes = {p1, p2}
    SourceCount = 2
    Keys = {k1, k2}
    Mutations = {m1, m2}
    None = None
    MaxVersion = 1
CHECK_DEADLOCK FALSE
SYMMETRY MigrationSymmetry
INVARIANTS
    HistoryIsNeverResent
    CollisionsBlock
PROPERTIES
    NothingLost
