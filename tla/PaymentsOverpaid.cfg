CONSTANTS
    PayableIds = {p1}
    RequestIds = {}
    PaymentIds = {x1, x2, x3}
    Sessions = {s1, s2}
    Amounts = {1, 2}
    None = None
SPECIFICATION Spec
SYMMETRY IdSymmetry
INVARIANT NoOverpayment
CHECK_DEADLOCK FALSE
