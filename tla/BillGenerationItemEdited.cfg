CONSTANTS
    Contracts = {c1, c2}
    Charges = {}
    Sessions = {s1, s2}
    Prices = {1, 2}
    None = None
SPECIFICATION Spec
SYMMETRY IdSymmetry
INVARIANT UsedItemsKept
CHECK_DEADLOCK FALSE
