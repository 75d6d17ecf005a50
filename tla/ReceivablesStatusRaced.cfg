CONSTANTS
    BillIds = {b1}
    InvoiceIds = {i1}
    ReceiptIds = {k1}
    Sessions = {s1, s2}
    Amounts = {1, 2}
    GeneratedTotals = {}
    Adjustments <- UpAndDown
    MaxTotal = 2
    LinesPerBill = 1
SPECIFICATION Spec
SYMMETRY IdSymmetry
PROPERTY StatusFollowsTable
CHECK_DEADLOCK FALSE
