SPECIFICATION Spec
CONSTANTS
    Executors = {e1, e2}
    NoOne = NoOne
    Legacy = TRUE
    DecodeFaults = FALSE
    MaxTries = 2
    MaxAuth = 2
    MaxFence = 4
SYMMETRY ExecutorSymmetry
INVARIANTS
    OneWritePerGrant
    ResumeIsUnambiguous
    EvidencePostdatesSends
    SendsAreRecorded
    VerifiedMeansLanded
    SoleRejectionIsAbsence
PROPERTIES
    TerminalReceiptIsFinal
    AuthorizationIsNotLost
