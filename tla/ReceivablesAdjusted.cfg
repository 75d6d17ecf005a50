CONSTANTS
    BillIds = {b1}
    InvoiceIds = {i1, i2}
    ReceiptIds = {k1, k2}
    Sessions = {s1}
    Amounts = {1, 2}
    GeneratedTotals = {}
    Adjustments <- UpAndDown
    MaxTotal = 2
    LinesPerBill = 1
SPECIFICATION Spec
SYMMETRY IdSymmetry
INVARIANT NotOverAllocated
CHECK_DEADLOCK FALSE
