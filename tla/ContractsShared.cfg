CONSTANTS
    Ids = {k1, k2}
    Customers = {c1}
    Years = {26}
    Files = {f1}
    Users = {u1}
    Requests = {r1, r2}
    None = None
    Fees = {a1}
    NoFee = NoFee
    MaxItems = 2
    Priced = {k1}
    MaxUsed = 1
    RequestedFiles <- AllFiles
    Given <- FewItems
    OwnLists <- FewLists
SPECIFICATION Spec
SYMMETRY RequestSymmetry
INVARIANTS TypeOK CodesFree OneBaseFee
PROPERTIES RecordsKeepContract BilledItemsKept
CHECK_DEADLOCK FALSE
