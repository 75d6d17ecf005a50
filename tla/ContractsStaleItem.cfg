CONSTANTS
    Ids = {k1}
    Customers = {c1}
    Years = {26}
    Files = {f1}
    Users = {u1}
    Requests = {r1, r2}
    None = None
    Fees = {a1}
    NoFee = NoFee
    MaxItems = 2
    Priced = {k1}
    MaxUsed = 1
    RequestedFiles <- AllFiles
    Given <- OtherNames
    OwnLists <- NoLists
SPECIFICATION Spec
SYMMETRY RequestSymmetry
INVARIANT OneBaseFeeAlways
CHECK_DEADLOCK FALSE
