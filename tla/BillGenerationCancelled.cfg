CONSTANTS
    Contracts = {c1, c2}
    Charges = {x1}
    Sessions = {s1, s2}
    Prices = {1}
    None = None
SPECIFICATION Spec
SYMMETRY IdSymmetry
INVARIANT CancelledNotBilledAlways
CHECK_DEADLOCK FALSE
