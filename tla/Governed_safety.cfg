SPECIFICATION FairSpec
CONSTANTS
    item = item
    bind = bind
    comment = comment
    k1 = k1
    k2 = k2
    Processes = {p1, p2}
    Keys = {k1, k2}
    Mutations = {item, bind, comment}
    KindOf <- OneOfEach
    Requests <- AllAndAnItem
    Auths = {a1, a2}
    None = None
    MaxPosts = 2
    StaleListings = TRUE
CHECK_DEADLOCK FALSE
INVARIANTS
    CommentsPostOnce
    OneWriterPerKey
PROPERTIES
    ReceiptsKeep
    AckedBindsNeverRepeat
    CallsEnd
