SPECIFICATION Spec
CONSTANTS
    bind = bind
    archive = archive
    update = update
    edit = edit
    Processes = {p1, p2}
    Mutations = {bind, archive, update, edit}
    Reconciled = {archive, update}
    KindOf <- OneOfEach
    Auths = {a1, a2}
    None = None
INVARIANTS
    OneWritePerKey
    VerdictsAreTrue
PROPERTIES
    ReceiptsMoveForward
    EvidenceFitsReceipt
