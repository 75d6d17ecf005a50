CONSTANTS
    BillIds = {b1}
    InvoiceIds = {i1}
    ReceiptIds = {k1}
    Sessions = {s1}
    Amounts = {1}
    GeneratedTotals = {}
    Adjustments = {}
    MaxTotal = 2
    LinesPerBill = 1
SPECIFICATION FairSpec
PROPERTIES CompleteMonthCloses
CHECK_DEADLOCK FALSE
