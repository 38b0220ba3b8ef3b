SPECIFICATION Spec
CONSTANTS
    t1 = t1
    t2 = t2
    r1 = r1
    Rows = {t1, t2, r1}
    Requests <- EachContract
    PageSize = 1
    MaxPages = 3
    MaxRows = 3
    MaxChanges = 2
CHECK_DEADLOCK FALSE
INVARIANTS
    AbsenceIsHonest
    MissingIsMissing
PROPERTIES
    PresenceIsReal
