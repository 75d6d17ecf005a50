CONSTANTS
    Users = {root, chief, u1}
    Tenants = {t1, t2}
    Platform = platform
    Root = root
    DefaultTenant = t1
    DefaultAdmin = chief
    Sessions = {s1, s2}
    RequestedRoles <- FewRoles
    RequestedGrants <- FewGrants
    MaxSeeds = 1
SPECIFICATION Spec
SYMMETRY IdSymmetry
INVARIANTS TypeOK PowersConfined SuperAdminRemains
PROPERTY AdminsAreAppointed
CHECK_DEADLOCK FALSE
