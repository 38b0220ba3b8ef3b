SPECIFICATION FairSpec
CONSTANTS
    Ids = {r1, r2, r3}
    Keys = {k1, k2}
    Targets = {t1, t2}
    NoId = NoId
    MaxBoot = 2
    MaxPending = 1
    MaxTombstones = 1
    SaveFaults = FALSE
    BrokerErrors = FALSE
    SameBoot = FALSE
CHECK_DEADLOCK FALSE
INVARIANTS
    TypeOK
PROPERTIES
    AttemptsSettle
