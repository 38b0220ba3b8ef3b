SPECIFICATION Spec
CONSTANTS
    p1 = p1
    p2 = p2
    ready = ready
    progress = progress
    None = None
    Processes = {p1, p2}
    States = {ready, progress}
    MaxCalls = 2
    MaxRevision = 2
SYMMETRY Symmetry
CHECK_DEADLOCK FALSE
INVARIANTS
    CommentsTellTheTruth
    ReportsAreTrue
PROPERTIES
    KeepsThePromise
