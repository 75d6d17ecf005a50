CONSTANTS
    b1 = b1
    e1 = e1
    c1 = c1
    c2 = c2
    n1 = n1
    n2 = n2
    Bills = {b1}
    Entries = {e1}
    Debts = {d1}
    Receipts = {k1}
    Recipients = {r1}
    Customers = {c1, c2}
    CustomerOf <- TwoCustomers
    OwnerNames = {n1, n2}
    OwnersOf <- Owners
    Sessions = {s1, s2}
    Amounts = {1}
    MaxTotal = 1
    MaxHistory = 2
    None = None
SPECIFICATION Spec
SYMMETRY PeriodsSymmetry
INVARIANTS
    TypeOK
    ReportsAgree
    ClosedAsReported
CHECK_DEADLOCK FALSE
