CONSTANTS
    PayableIds = {p1, p2}
    RequestIds = {r1}
    PaymentIds = {x1, x2}
    Sessions = {s1}
    Amounts = {1, 2}
    None = None
SPECIFICATION Spec
SYMMETRY IdSymmetry
INVARIANTS
    TypeOK
    NothingPaidBeforeApproval
    RequestNotOverspent
    PaidStatusEarned
    LedgerAgrees
    RequestAgrees
PROPERTY ImplementsLedger
CHECK_DEADLOCK FALSE
