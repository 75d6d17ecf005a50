CONSTANTS
    PayableIds = {p1}
    RequestIds = {r1}
    PaymentIds = {x1, x2}
    Sessions = {s1, s2}
    Amounts = {1, 2}
    None = None
SPECIFICATION Spec
SYMMETRY IdSymmetry
INVARIANT CancelledUnpaid
CHECK_DEADLOCK FALSE
