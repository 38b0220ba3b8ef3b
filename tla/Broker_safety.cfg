SPECIFICATION Spec
CONSTANTS
    Ids = {r1, r2, r3}
    Keys = {k1, k2}
    Targets = {t1, t2}
    NoId = NoId
    MaxBoot = 3
    MaxPending = 2
    MaxTombstones = 2
    SaveFaults = TRUE
    BrokerErrors = TRUE
    SameBoot = TRUE
CHECK_DEADLOCK FALSE
SYMMETRY BrokerSymmetry
INVARIANTS
    OneCallPerKey
    NoOverlappingWrites
    CallsAreDurable
    SnapshotRestarts
PROPERTIES
    QuarantineHolds
    ImplementsApprovedCalls
