CONSTANTS
    Ids = {i1, i2}
    Names = {n1, n2}
    Users = {m, u}
    ReadAll = {m}
    Requests = {r1, r2}
    None = None
    RequestedRows <- FewRows
    RequestedOwners <- OneOwner
    MaxUsed = 1
SPECIFICATION Spec
SYMMETRY IdSymmetry
INVARIANTS TypeOK NamesUnique OnePrimaryOwner ImportAnswersAll
CHECK_DEADLOCK FALSE
