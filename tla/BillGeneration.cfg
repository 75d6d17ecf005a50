CONSTANTS
    Contracts = {c1, c2}
    Charges = {x1}
    Sessions = {s1, s2}
    Prices = {1}
    None = None
SPECIFICATION FairSpec
INVARIANTS TypeOK ChargesFollowBills ChargedOnce CancelledNotBilled
PROPERTY EveryContractBilled
CHECK_DEADLOCK FALSE
