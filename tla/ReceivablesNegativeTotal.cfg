CONSTANTS
    BillIds = {b1}
    InvoiceIds = {i1, i2}
    ReceiptIds = {k1, k2}
    Sessions = {s1}
    Amounts = {1, 2}
    GeneratedTotals <- ZeroOrBelow
    Adjustments <- UpAndDown
    MaxTotal = 2
    LinesPerBill = 1
SPECIFICATION Spec
SYMMETRY IdSymmetry
INVARIANT TotalsNotNegative
CHECK_DEADLOCK FALSE
