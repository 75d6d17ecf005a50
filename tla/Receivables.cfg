CONSTANTS
    BillIds = {b1}
    InvoiceIds = {i1}
    ReceiptIds = {k1, k2}
    Sessions = {s1, s2}
    Amounts = {1, 2}
    GeneratedTotals <- ZeroOrBelow
    Adjustments <- UpAndDown
    MaxTotal = 2
    LinesPerBill = 2
SPECIFICATION Spec
SYMMETRY IdSymmetry
INVARIANTS TypeOK UnconfirmedUnallocated
PROPERTIES AllocationsFit ClosedFrozen
CHECK_DEADLOCK FALSE
