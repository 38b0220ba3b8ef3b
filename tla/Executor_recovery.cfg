SPECIFICATION FairSpec
CONSTANTS
    Executors = {e1, e2}
    NoOne = NoOne
    Legacy = FALSE
    DecodeFaults = TRUE
    MaxTries = 2
    MaxAuth = 1
    MaxFence = 3
PROPERTIES
    ImplementsGrantedWrites
    CallReturns
    SendingIsResolved
