CONSTANTS
    u1 = u1
    u2 = u2
    m1 = m1
    m2 = m2
    Users = {u1, u2}
    Tokens = {k1, k2}
    Tasks = {t1, t2}
    Months = {m1, m2}
    MaxFailures = 1
    MaxBusy = 1
    None = None
    Kinds = {"bill", "recipient", "contract", "customer", "signingEntity"}
    Forms = {"billStatus", "contract", "recipient"}
    Files = {f1}
    MaxRows = 2
    Choices <- OneFile
    Scenes <- FiveScenes
SPECIFICATION Spec
SYMMETRY ConsoleSymmetry
INVARIANTS
    TypeOK
    SessionAgrees
    EvidenceStored
    OpenMeansUndone
    AsMeant
CHECK_DEADLOCK FALSE
