CONSTANTS
    PayableIds = {p1}
    RequestIds = {r1}
    PaymentIds = {x1, x2}
    Sessions = {s1}
    Amounts = {1, 2}
    None = None
SPECIFICATION Spec
SYMMETRY IdSymmetry
INVARIANT ClosedRequestsFinished
CHECK_DEADLOCK FALSE
