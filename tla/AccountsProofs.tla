--------------------------- MODULE AccountsProofs ---------------------------
(***************************************************************************)
(* Proofs about Accounts, for any users, tenants and number of sessions:   *)
(* the type invariant, that the powers of super admins stay inside the     *)
(* platform (PowersConfined), that only super admins and the seed appoint  *)
(* tenant admins (AdminsAreAppointed), and for one request at a time that  *)
(* an active super admin remains, nobody is active in a closed tenant and   *)
(* tenant admins are out of reach of each other.                           *)
(*                                                                         *)
(* PowersConfined is about rows; what a request has read may be older than  *)
(* the rows, so that Confined says the same of every pending request: a    *)
(* caller who was a super admin belongs to the platform, roles to be given *)
(* fit the organization of the user, whose organization never changes, and *)
(* permissions to be granted fit the role.                                 *)
(***************************************************************************)
EXTENDS Accounts, TLAPS

USE DEF Go

Reserved == {"user.manage", "period.reopen"}

ConfinedSession(s) ==
    /\ session[s].op # "idle" =>
         ("super_admin" \in session[s].by.roles => session[s].by.org = Platform)
    /\ session[s].op = "updateUser" =>
         /\ user[session[s].id].status # "ABSENT"
         /\ "super_admin" \in session[s].roles => user[session[s].id].org = Platform
    /\ session[s].op = "grant" =>
         /\ "tenant.manage" \in session[s].new => session[s].by.org = Platform
         /\ session[s].role \notin {"admin", "owner"} =>
              session[s].new \cap Reserved = {}

Confined == \A s \in Sessions : ConfinedSession(s)

RootStays == user[Root].status # "ABSENT" /\ user[Root].org = Platform

Inv == TypeOK /\ PowersConfined /\ Confined /\ RootStays
-----------------------------------------------------------------------------
(* A session that has been asked to do something.                          *)
LEMMA SessionTypes ==
    ASSUME TypeOK, NEW s \in Sessions
    PROVE  /\ session[s].op # "idle" => session[s].by \in Caller
           /\ session[s].op \in {"updateSuper", "updateUser"} =>
                /\ session[s].id \in Users /\ session[s].active \in BOOLEAN
                /\ session[s].roles \in (SUBSET Roles) \cup {{Keep}}
           /\ session[s].op \in {"deleteSuper", "deleteTenantUser", "deleteUser"} =>
                session[s].id \in Users
           /\ session[s].op = "deleteTenant" => session[s].id \in Tenants
           /\ session[s].op = "grant" =>
                /\ session[s].role \in Roles
                /\ session[s].old \in SUBSET Permissions
                /\ session[s].new \in SUBSET Permissions
<1>1. session[s] \in Pending
  BY DEF TypeOK
<1> QED
  BY <1>1 DEF Pending, Idle

LEMMA ByTypes ==
    ASSUME TypeOK, NEW s \in Sessions, session[s].op # "idle"
    PROVE  By(s).id \in Users /\ By(s).org \in Orgs /\ By(s).roles \in SUBSET Roles
BY SessionTypes DEF By, Caller

LEMMA DefinitionType == \A r \in Roles : Definition(r) \in SUBSET Permissions
BY DEF Definition, Roles, TenantRoles, Permissions

LEMMA TenantGrantsType ==
    /\ TenantGrants \in [Roles -> SUBSET Permissions]
    /\ PlatformGrants \in [Roles -> SUBSET Permissions]
    /\ NoGrants \in [Roles -> SUBSET Permissions]
BY DefinitionType DEF TenantGrants, PlatformGrants, NoGrants, Permissions

LEMMA SeededRolesType ==
    ASSUME TypeOK
    PROVE  SeededRoles \in [Orgs -> [Roles -> SUBSET Permissions]]
BY TenantGrantsType DEF SeededRoles, TypeOK

(* What a session may be set to.                                           *)
LEMMA PendingTypes ==
    /\ Idle \in Pending
    /\ \A by \in Caller : [op |-> "asked", by |-> by] \in Pending
    /\ \A by \in Caller, u \in Users, a \in BOOLEAN,
          codes \in (SUBSET Roles) \cup {{Keep}}, o \in {"updateSuper", "updateUser"} :
         [op |-> o, by |-> by, id |-> u, active |-> a, roles |-> codes] \in Pending
    /\ \A by \in Caller, u \in Users,
          o \in {"deleteSuper", "deleteTenantUser", "deleteUser"} :
         [op |-> o, by |-> by, id |-> u] \in Pending
    /\ \A by \in Caller, t \in Tenants :
         [op |-> "deleteTenant", by |-> by, id |-> t] \in Pending
    /\ \A by \in Caller, r \in Roles, x, y \in SUBSET Permissions :
         [op |-> "grant", by |-> by, role |-> r, old |-> x, new |-> y] \in Pending
BY DEF Pending

LEMMA AskedBy ==
    ASSUME TypeOK, NEW s \in Sessions, Asked(s)
    PROVE  By(s) \in Caller
BY SessionTypes DEF Asked, By

(* The steps that only read.                                               *)
LEMMA BeginTypes ==
    ASSUME TypeOK, NEW s \in Sessions, NEW p \in Pending,
           session' = [session EXCEPT ![s] = p],
           UNCHANGED <<user, tenant, grants, quiet, seeds>>
    PROVE  TypeOK'
BY DEF TypeOK

(* The steps that write and end the request.                               *)
LEMMA CommitTypes ==
    ASSUME TypeOK, NEW s \in Sessions, Go(s, Idle),
           user' \in [Users -> User],
           tenant' \in [Tenants -> {"ABSENT", "ACTIVE", "INACTIVE"}],
           grants' \in [Orgs -> [Roles -> SUBSET Permissions]]
    PROVE  TypeOK'
BY PendingTypes DEF TypeOK

LEMMA UserTypes ==
    ASSUME TypeOK, NEW u \in Users
    PROVE  /\ user[u] \in User
           /\ user[u].status \in {"ABSENT", "ACTIVE", "INACTIVE", "DELETED"}
           /\ user[u].org \in Orgs
           /\ user[u].roles \in SUBSET Roles
BY DEF TypeOK, User

LEMMA SuperTypes ==
    ASSUME TypeOK, NEW s \in Sessions, Super(s)
    PROVE  TypeOK'
<1>1. ASSUME NEW u \in Users, CreateSuperAdmin(s, u) PROVE TypeOK'
  <2>1. user' \in [Users -> User]
    BY <1>1 DEF CreateSuperAdmin, TypeOK, User, Orgs, Roles
  <2>2. grants' \in [Orgs -> [Roles -> SUBSET Permissions]]
    BY <1>1 DEF CreateSuperAdmin, TypeOK, Orgs, Roles, Permissions
  <2> QED
    BY <1>1, <2>1, <2>2, CommitTypes DEF CreateSuperAdmin, TypeOK
<1>2. ASSUME NEW u \in Users, NEW active \in BOOLEAN,
             BeginUpdateSuperAdmin(s, u, active)
      PROVE  TypeOK'
  BY <1>2, AskedBy, BeginTypes, PendingTypes DEF BeginUpdateSuperAdmin, PlatformAccess
<1>3. ASSUME CommitUpdateSuperAdmin(s) PROVE TypeOK'
  <2>1. session[s].id \in Users
    BY <1>3, SessionTypes DEF CommitUpdateSuperAdmin
  <2>2. user' \in [Users -> User]
    BY <1>3, <2>1 DEF CommitUpdateSuperAdmin, TypeOK, User, StatusOf
  <2> QED
    BY <1>3, <2>2, CommitTypes DEF CommitUpdateSuperAdmin, TypeOK
<1>4. ASSUME NEW u \in Users, BeginDeleteSuperAdmin(s, u) PROVE TypeOK'
  BY <1>4, AskedBy, BeginTypes, PendingTypes DEF BeginDeleteSuperAdmin, PlatformAccess
<1>5. ASSUME CommitDeleteSuperAdmin(s) PROVE TypeOK'
  <2>1. user' \in [Users -> User]
    BY <1>5, SessionTypes DEF CommitDeleteSuperAdmin, Deleted, TypeOK, User
  <2> QED
    BY <1>5, <2>1, CommitTypes DEF CommitDeleteSuperAdmin, TypeOK
<1>6. ASSUME NEW t \in Tenants, NEW u \in Users, CreateTenant(s, t, u) PROVE TypeOK'
  <2>1. user' \in [Users -> User]
    BY <1>6 DEF CreateTenant, TypeOK, User, Orgs, Roles, TenantRoles
  <2>2. grants' \in [Orgs -> [Roles -> SUBSET Permissions]]
    BY <1>6, TenantGrantsType DEF CreateTenant, TypeOK, Orgs
  <2>3. tenant' \in [Tenants -> {"ABSENT", "ACTIVE", "INACTIVE"}]
    BY <1>6 DEF CreateTenant, TypeOK
  <2> QED
    BY <1>6, <2>1, <2>2, <2>3, CommitTypes DEF CreateTenant
<1>7. ASSUME NEW t \in Tenants, BeginDeleteTenant(s, t) PROVE TypeOK'
  BY <1>7, AskedBy, BeginTypes, PendingTypes DEF BeginDeleteTenant, PlatformAccess
<1>8. ASSUME CommitDeleteTenant(s) PROVE TypeOK'
  <2>1. user' \in [Users -> User]
    BY <1>8 DEF CommitDeleteTenant, TypeOK, User
  <2>2. tenant' \in [Tenants -> {"ABSENT", "ACTIVE", "INACTIVE"}]
    BY <1>8 DEF CommitDeleteTenant, TypeOK
  <2> QED
    BY <1>8, <2>1, <2>2, CommitTypes DEF CommitDeleteTenant, TypeOK
<1>9. ASSUME NEW u \in Users, NEW active \in BOOLEAN,
             NEW codes \in RequestedRoles \cup {{Keep}},
             BeginUpdateTenantUser(s, u, active, codes)
      PROVE  TypeOK'
  <2>1. codes \in (SUBSET Roles) \cup {{Keep}}
    BY AccountsAssumption
  <2> QED
    BY <1>9, <2>1, AskedBy, BeginTypes, PendingTypes
    DEF BeginUpdateTenantUser, PlatformAccess
<1>10. ASSUME NEW u \in Users, BeginDeleteTenantUser(s, u) PROVE TypeOK'
  BY <1>10, AskedBy, BeginTypes, PendingTypes DEF BeginDeleteTenantUser, PlatformAccess
<1>11. ASSUME CommitDeleteTenantUser(s) PROVE TypeOK'
  <2>1. user' \in [Users -> User]
    BY <1>11, SessionTypes DEF CommitDeleteTenantUser, TypeOK, User
  <2> QED
    BY <1>11, <2>1, CommitTypes DEF CommitDeleteTenantUser, TypeOK
<1> QED
  BY <1>1, <1>2, <1>3, <1>4, <1>5, <1>6, <1>7, <1>8, <1>9, <1>10, <1>11 DEF Super

LEMMA IdentityTypes ==
    ASSUME TypeOK, NEW s \in Sessions, Identity(s)
    PROVE  TypeOK'
<1>1. ASSUME NEW u \in Users, NEW active \in BOOLEAN, NEW codes \in RequestedRoles,
             CreateUser(s, u, active, codes)
      PROVE  TypeOK'
  <2>1. By(s) \in Caller /\ codes \in SUBSET Roles
    BY <1>1, AskedBy, AccountsAssumption DEF CreateUser, IdentityAccess
  <2>2. user' \in [Users -> User]
    BY <1>1, <2>1 DEF CreateUser, TypeOK, User, StatusOf, Caller
  <2> QED
    BY <1>1, <2>2, CommitTypes DEF CreateUser, TypeOK
<1>2. ASSUME NEW u \in Users, NEW active \in BOOLEAN,
             NEW codes \in RequestedRoles \cup {{Keep}},
             BeginUpdateUser(s, u, active, codes)
      PROVE  TypeOK'
  <2>1. codes \in (SUBSET Roles) \cup {{Keep}}
    BY AccountsAssumption
  <2> QED
    BY <1>2, <2>1, AskedBy, BeginTypes, PendingTypes DEF BeginUpdateUser, IdentityAccess
<1>3. ASSUME CommitUpdateUser(s) PROVE TypeOK'
  <2>1. session[s].id \in Users /\ session[s].active \in BOOLEAN
        /\ session[s].roles \in (SUBSET Roles) \cup {{Keep}}
    BY <1>3, SessionTypes DEF CommitUpdateUser
  <2>2. user' \in [Users -> User]
    BY <1>3, <2>1 DEF CommitUpdateUser, TypeOK, User, StatusOf
  <2> QED
    BY <1>3, <2>2, CommitTypes DEF CommitUpdateUser, TypeOK
<1>4. ASSUME NEW u \in Users, BeginDeleteUser(s, u) PROVE TypeOK'
  BY <1>4, AskedBy, BeginTypes, PendingTypes DEF BeginDeleteUser, IdentityAccess
<1>5. ASSUME CommitDeleteUser(s) PROVE TypeOK'
  <2>1. user' \in [Users -> User]
    BY <1>5, SessionTypes DEF CommitDeleteUser, Deleted, TypeOK, User
  <2> QED
    BY <1>5, <2>1, CommitTypes DEF CommitDeleteUser, TypeOK
<1>6. ASSUME NEW r \in Roles, NEW codes \in RequestedGrants,
             BeginUpdateRolePermissions(s, r, codes)
      PROVE  TypeOK'
  <2>1. By(s) \in Caller /\ codes \in SUBSET Permissions
    BY <1>6, AskedBy, AccountsAssumption DEF BeginUpdateRolePermissions, IdentityAccess
  <2>2. grants[By(s).org][r] \in SUBSET Permissions
    BY <2>1 DEF TypeOK, Caller
  <2> QED
    BY <1>6, <2>1, <2>2, BeginTypes, PendingTypes DEF BeginUpdateRolePermissions
<1>7. ASSUME CommitUpdateRolePermissions(s) PROVE TypeOK'
  <2>1. session[s].by.org \in Orgs /\ session[s].role \in Roles
        /\ session[s].new \in SUBSET Permissions
    BY <1>7, SessionTypes DEF CommitUpdateRolePermissions, Caller
  <2>2. grants' \in [Orgs -> [Roles -> SUBSET Permissions]]
    BY <1>7, <2>1 DEF CommitUpdateRolePermissions, TypeOK
  <2> QED
    BY <1>7, <2>2, CommitTypes DEF CommitUpdateRolePermissions, TypeOK
<1> QED
  BY <1>1, <1>2, <1>3, <1>4, <1>5, <1>6, <1>7 DEF Identity

LEMMA TypeStep == TypeOK /\ [Next]_vars => TypeOK'
<1> SUFFICES ASSUME TypeOK, [Next]_vars
             PROVE  TypeOK'
  OBVIOUS
<1>1. ASSUME NEW s \in Sessions, NEW u \in Users, Arrive(s, u) PROVE TypeOK'
  <2>1. [id |-> u, org |-> user[u].org, roles |-> user[u].roles,
         manage |-> \E r \in user[u].roles :
                      "tenant.manage" \in grants[user[u].org][r]] \in Caller
    BY UserTypes DEF Caller
  <2>2. session' \in [Sessions -> Pending]
    BY <1>1, <2>1, PendingTypes DEF Arrive, TypeOK
  <2>3. quiet' \in BOOLEAN
    BY <1>1 DEF Arrive, TypeOK
  <2> QED
    BY <1>1, <2>2, <2>3 DEF Arrive, TypeOK
<1>2. ASSUME NEW s \in Sessions, Super(s) PROVE TypeOK'
  BY <1>2, SuperTypes
<1>3. ASSUME NEW s \in Sessions, Identity(s) PROVE TypeOK'
  BY <1>3, IdentityTypes
<1>4. ASSUME NEW s \in Sessions, Abandon(s) PROVE TypeOK'
  BY <1>4, PendingTypes DEF Abandon, TypeOK
<1>5. CASE SeedRoles
  <2>1. seeds' \in 0 .. 2 * MaxSeeds
    BY <1>5, AccountsAssumption DEF SeedRoles, TypeOK
  <2> QED
    BY <1>5, <2>1, SeededRolesType DEF SeedRoles, TypeOK
<1>6. CASE SeedUsers
  <2>1. seeds' \in 0 .. 2 * MaxSeeds
    <3>1. MaxSeeds \in Nat /\ seeds \in Nat /\ seeds <= 2 * MaxSeeds
            /\ seeds % 2 = 1 /\ seeds' = seeds + 1
      BY <1>6, AccountsAssumption DEF SeedUsers, TypeOK
    <3> QED
      BY <3>1
  <2>2. user' \in [Users -> User]
    <3>1. [status |-> "ACTIVE", org |-> Platform,
           roles |-> user[Root].roles \cup {"super_admin"}] \in User
      BY AccountsAssumption, UserTypes DEF User, Orgs, Roles
    <3>2. [status |-> "ACTIVE", org |-> user[DefaultAdmin].org,
           roles |-> user[DefaultAdmin].roles \cup {"admin"}] \in User
      BY AccountsAssumption, UserTypes DEF User, Roles, TenantRoles
    <3>3. user' = [user EXCEPT
             ![Root] = [status |-> "ACTIVE", org |-> Platform,
                        roles |-> user[Root].roles \cup {"super_admin"}],
             ![DefaultAdmin] = [status |-> "ACTIVE", org |-> user[DefaultAdmin].org,
                                roles |-> user[DefaultAdmin].roles \cup {"admin"}]]
      BY <1>6, AccountsAssumption DEF SeedUsers, SeededUsers, TypeOK
    <3> QED
      BY <3>1, <3>2, <3>3 DEF TypeOK
  <2> QED
    BY <1>6, <2>1, <2>2 DEF SeedUsers, TypeOK
<1>7. CASE UNCHANGED vars
  BY <1>7 DEF vars, TypeOK
<1> QED
  BY <1>1, <1>2, <1>3, <1>4, <1>5, <1>6, <1>7 DEF Next

LEMMA InitTypes == Init => TypeOK
BY AccountsAssumption, TenantGrantsType, PendingTypes
DEF Init, TypeOK, User, Orgs, Roles, TenantRoles

(* Type correctness, for any users, tenants and number of sessions.         *)
THEOREM AccountsTypes == Spec => []TypeOK
BY InitTypes, TypeStep, PTL DEF Spec

-----------------------------------------------------------------------------
(* PowersConfined.                                                         *)

(* Rows that exist stay and keep their organization.                       *)
RowsKeepOrg ==
    \A u \in Users : user[u].status # "ABSENT" =>
      user'[u].status # "ABSENT" /\ user'[u].org = user[u].org

LEMMA ReadOnly ==
    ASSUME Inv, NEW s \in Sessions, NEW p \in Pending,
           session' = [session EXCEPT ![s] = p], UNCHANGED <<user, grants>>,
           ConfinedSession(s)'
    PROVE  PowersConfined' /\ Confined' /\ RootStays'
<1>1. PowersConfined' /\ RootStays'
  BY DEF Inv, PowersConfined, RootStays
<1>2. ASSUME NEW r \in Sessions PROVE ConfinedSession(r)'
  <2>1. CASE r = s
    BY <2>1
  <2>2. CASE r # s
    <3>1. session'[r] = session[r]
      BY <2>2 DEF Inv, TypeOK
    <3> QED
      BY <3>1 DEF Inv, Confined, ConfinedSession
  <2> QED
    BY <2>1, <2>2
<1> QED
  BY <1>1, <1>2 DEF Confined

LEMMA Written ==
    ASSUME Inv, NEW s \in Sessions, Go(s, Idle), RowsKeepOrg
    PROVE  Confined' /\ RootStays'
<1>1. RootStays'
  BY AccountsAssumption DEF Inv, RowsKeepOrg, RootStays
<1>2. ASSUME NEW r \in Sessions PROVE ConfinedSession(r)'
  <2>1. CASE r = s
    BY <2>1 DEF Inv, TypeOK, ConfinedSession, Idle
  <2>2. CASE r # s
    <3>1. session'[r] = session[r]
      BY <2>2 DEF Inv, TypeOK
    <3>2. session[r].op = "updateUser" => session[r].id \in Users
      BY SessionTypes DEF Inv
    <3> QED
      BY <3>1, <3>2 DEF Inv, Confined, ConfinedSession, RowsKeepOrg
  <2> QED
    BY <2>1, <2>2
<1> QED
  BY <1>1, <1>2 DEF Confined

(* A request that only changes status or roles of rows that exist.         *)
LEMMA StatusWritten ==
    ASSUME Inv, NEW s \in Sessions, Go(s, Idle), UNCHANGED grants, RowsKeepOrg,
           \A u \in Users : "super_admin" \in user'[u].roles =>
             "super_admin" \in user[u].roles /\ user'[u].org = user[u].org
    PROVE  PowersConfined' /\ Confined' /\ RootStays'
<1>1. PowersConfined'
  BY DEF Inv, PowersConfined
<1> QED
  BY <1>1, Written

LEMMA AskedConfined ==
    ASSUME Inv, NEW s \in Sessions, Asked(s)
    PROVE  "super_admin" \in By(s).roles => By(s).org = Platform
BY DEF Inv, Confined, ConfinedSession, Asked, By

LEMMA PlatformTenants == Platform \notin Tenants /\ \A t \in Tenants : t # Platform
BY AccountsAssumption

(* What the definitions of the roles give.                                 *)
LEMMA GrantsConfined ==
    /\ \A r \in Roles : "tenant.manage" \notin TenantGrants[r]
    /\ \A r \in Roles \ {"admin", "owner"} :
         /\ TenantGrants[r] \cap Reserved = {}
         /\ PlatformGrants[r] \cap Reserved = {}
         /\ NoGrants[r] \cap Reserved = {}
    /\ \A r \in Roles : "tenant.manage" \notin NoGrants[r]
<1>1. ASSUME NEW r \in Roles PROVE "tenant.manage" \notin TenantGrants[r]
  BY DEF TenantGrants, Definition, Roles, TenantRoles, Permissions
<1>2. ASSUME NEW r \in Roles \ {"admin", "owner"}
      PROVE  TenantGrants[r] \cap Reserved = {}
  BY DEF TenantGrants, Definition, Roles, TenantRoles, Reserved
<1>3. ASSUME NEW r \in Roles
      PROVE  /\ PlatformGrants[r] \cap Reserved = {}
             /\ NoGrants[r] \cap Reserved = {}
             /\ "tenant.manage" \notin NoGrants[r]
  BY DEF PlatformGrants, NoGrants, Reserved
<1> QED
  BY <1>1, <1>2, <1>3

LEMMA SuperConfined ==
    ASSUME Inv, NEW s \in Sessions, Super(s)
    PROVE  PowersConfined' /\ Confined' /\ RootStays'
<1> USE DEF Inv
<1>1. ASSUME NEW u \in Users, CreateSuperAdmin(s, u)
      PROVE  PowersConfined' /\ Confined' /\ RootStays'
  <2>1. RowsKeepOrg
    BY <1>1 DEF CreateSuperAdmin, RowsKeepOrg, TypeOK
  <2>2. \A v \in Users : "super_admin" \in user'[v].roles => user'[v].org = Platform
    BY <1>1 DEF CreateSuperAdmin, PowersConfined, TypeOK
  <2>3. \A t \in Tenants : grants'[t] = grants[t]
    BY <1>1, PlatformTenants DEF CreateSuperAdmin, TypeOK, Orgs
  <2>4. \A o \in Orgs, r \in Roles :
          grants'[o][r] \subseteq grants[o][r] \cup {"tenant.manage"}
    BY <1>1 DEF CreateSuperAdmin, TypeOK, Orgs
  <2>5. PowersConfined'
    BY <2>2, <2>3, <2>4 DEF PowersConfined
  <2> QED
    BY <1>1, <2>1, <2>5, Written DEF CreateSuperAdmin
<1>2. ASSUME NEW u \in Users, NEW active \in BOOLEAN,
             BeginUpdateSuperAdmin(s, u, active)
      PROVE  PowersConfined' /\ Confined' /\ RootStays'
  <2> DEFINE p == [op |-> "updateSuper", by |-> By(s), id |-> u, active |-> active,
                   roles |-> {Keep}]
  <2>1. p \in Pending
    BY <1>2, AskedBy, PendingTypes DEF BeginUpdateSuperAdmin, PlatformAccess
  <2>2. ConfinedSession(s)'
    BY <1>2, AskedConfined DEF BeginUpdateSuperAdmin, PlatformAccess, ConfinedSession,
                               TypeOK
  <2> QED
    BY <1>2, <2>1, <2>2, ReadOnly DEF BeginUpdateSuperAdmin
<1>3. ASSUME CommitUpdateSuperAdmin(s)
      PROVE  PowersConfined' /\ Confined' /\ RootStays'
  <2>1. session[s].id \in Users
    BY <1>3, SessionTypes DEF CommitUpdateSuperAdmin
  <2>2. \A v \in Users : user'[v].roles = user[v].roles /\ user'[v].org = user[v].org
                            /\ (user[v].status # "ABSENT" => user'[v].status # "ABSENT")
    BY <1>3, <2>1, UserTypes DEF CommitUpdateSuperAdmin, TypeOK, StatusOf
  <2> QED
    BY <1>3, <2>2, StatusWritten DEF CommitUpdateSuperAdmin, RowsKeepOrg
<1>4. ASSUME NEW u \in Users, BeginDeleteSuperAdmin(s, u)
      PROVE  PowersConfined' /\ Confined' /\ RootStays'
  <2>1. [op |-> "deleteSuper", by |-> By(s), id |-> u] \in Pending
    BY <1>4, AskedBy, PendingTypes DEF BeginDeleteSuperAdmin, PlatformAccess
  <2>2. ConfinedSession(s)'
    BY <1>4, AskedConfined DEF BeginDeleteSuperAdmin, PlatformAccess, ConfinedSession,
                               TypeOK
  <2> QED
    BY <1>4, <2>1, <2>2, ReadOnly DEF BeginDeleteSuperAdmin
<1>5. ASSUME CommitDeleteSuperAdmin(s)
      PROVE  PowersConfined' /\ Confined' /\ RootStays'
  <2>1. session[s].id \in Users
    BY <1>5, SessionTypes DEF CommitDeleteSuperAdmin
  <2>2. \A v \in Users : user'[v].roles \subseteq user[v].roles /\ user'[v].org = user[v].org
                            /\ (user[v].status # "ABSENT" => user'[v].status # "ABSENT")
    BY <1>5, <2>1, UserTypes DEF CommitDeleteSuperAdmin, Deleted, TypeOK
  <2> QED
    BY <1>5, <2>2, StatusWritten DEF CommitDeleteSuperAdmin, RowsKeepOrg
<1>6. ASSUME NEW t \in Tenants, NEW u \in Users, CreateTenant(s, t, u)
      PROVE  PowersConfined' /\ Confined' /\ RootStays'
  <2>1. RowsKeepOrg
    BY <1>6 DEF CreateTenant, RowsKeepOrg, TypeOK
  <2>2. \A v \in Users : "super_admin" \in user'[v].roles => user'[v].org = Platform
    BY <1>6 DEF CreateTenant, PowersConfined, TypeOK
  <2>3. \A o \in Orgs : grants'[o] = grants[o] \/ (o = t /\ grants'[o] = TenantGrants)
    BY <1>6 DEF CreateTenant, TypeOK, Orgs
  <2>4. PowersConfined'
    BY <2>2, <2>3, PlatformTenants, GrantsConfined DEF PowersConfined, Orgs, Reserved
  <2> QED
    BY <1>6, <2>1, <2>4, Written DEF CreateTenant
<1>7. ASSUME NEW t \in Tenants, BeginDeleteTenant(s, t)
      PROVE  PowersConfined' /\ Confined' /\ RootStays'
  <2>1. [op |-> "deleteTenant", by |-> By(s), id |-> t] \in Pending
    BY <1>7, AskedBy, PendingTypes DEF BeginDeleteTenant, PlatformAccess
  <2>2. ConfinedSession(s)'
    BY <1>7, AskedConfined DEF BeginDeleteTenant, PlatformAccess, ConfinedSession, TypeOK
  <2> QED
    BY <1>7, <2>1, <2>2, ReadOnly DEF BeginDeleteTenant
<1>8. ASSUME CommitDeleteTenant(s)
      PROVE  PowersConfined' /\ Confined' /\ RootStays'
  <2>1. \A v \in Users : user'[v].roles = user[v].roles /\ user'[v].org = user[v].org
                            /\ (user[v].status # "ABSENT" => user'[v].status # "ABSENT")
    BY <1>8, UserTypes DEF CommitDeleteTenant, TypeOK, User
  <2> QED
    BY <1>8, <2>1, StatusWritten DEF CommitDeleteTenant, RowsKeepOrg
<1>9. ASSUME NEW u \in Users, NEW active \in BOOLEAN,
             NEW codes \in RequestedRoles \cup {{Keep}},
             BeginUpdateTenantUser(s, u, active, codes)
      PROVE  PowersConfined' /\ Confined' /\ RootStays'
  <2>1. [op |-> "updateUser", by |-> By(s), id |-> u, active |-> active,
         roles |-> codes] \in Pending
    BY <1>9, AskedBy, PendingTypes, AccountsAssumption
    DEF BeginUpdateTenantUser, PlatformAccess
  <2>2. "super_admin" \notin codes
    BY <1>9 DEF BeginUpdateTenantUser, TenantUser, RolesFound, TenantRoles, Keep
  <2>3. user[u].status # "ABSENT"
    BY <1>9 DEF BeginUpdateTenantUser, TenantUser, Exists
  <2>4. ConfinedSession(s)'
    BY <1>9, <2>2, <2>3, AskedConfined
    DEF BeginUpdateTenantUser, PlatformAccess, ConfinedSession, TypeOK
  <2> QED
    BY <1>9, <2>1, <2>4, ReadOnly DEF BeginUpdateTenantUser
<1>10. ASSUME NEW u \in Users, BeginDeleteTenantUser(s, u)
       PROVE  PowersConfined' /\ Confined' /\ RootStays'
  <2>1. [op |-> "deleteTenantUser", by |-> By(s), id |-> u] \in Pending
    BY <1>10, AskedBy, PendingTypes DEF BeginDeleteTenantUser, PlatformAccess
  <2>2. ConfinedSession(s)'
    BY <1>10, AskedConfined DEF BeginDeleteTenantUser, PlatformAccess, ConfinedSession,
                                TypeOK
  <2> QED
    BY <1>10, <2>1, <2>2, ReadOnly DEF BeginDeleteTenantUser
<1>11. ASSUME CommitDeleteTenantUser(s)
       PROVE  PowersConfined' /\ Confined' /\ RootStays'
  <2>1. session[s].id \in Users
    BY <1>11, SessionTypes DEF CommitDeleteTenantUser
  <2>2. \A v \in Users : user'[v].roles = user[v].roles /\ user'[v].org = user[v].org
                            /\ (user[v].status # "ABSENT" => user'[v].status # "ABSENT")
    BY <1>11, <2>1, UserTypes DEF CommitDeleteTenantUser, TypeOK
  <2> QED
    BY <1>11, <2>2, StatusWritten DEF CommitDeleteTenantUser, RowsKeepOrg
<1> QED
  BY <1>1, <1>2, <1>3, <1>4, <1>5, <1>6, <1>7, <1>8, <1>9, <1>10, <1>11 DEF Super

LEMMA IdentityConfined ==
    ASSUME Inv, NEW s \in Sessions, Identity(s)
    PROVE  PowersConfined' /\ Confined' /\ RootStays'
<1> USE DEF Inv
<1>1. ASSUME NEW u \in Users, NEW active \in BOOLEAN, NEW codes \in RequestedRoles,
             CreateUser(s, u, active, codes)
      PROVE  PowersConfined' /\ Confined' /\ RootStays'
  <2>1. RowsKeepOrg
    BY <1>1 DEF CreateUser, RowsKeepOrg, TypeOK
  <2>2. "super_admin" \in codes => By(s).org = Platform
    BY <1>1 DEF CreateUser, RolesFound, TenantRoles
  <2>3. \A v \in Users : "super_admin" \in user'[v].roles => user'[v].org = Platform
    BY <1>1, <2>2 DEF CreateUser, PowersConfined, TypeOK
  <2>4. PowersConfined'
    BY <1>1, <2>3 DEF CreateUser, PowersConfined
  <2> QED
    BY <1>1, <2>1, <2>4, Written DEF CreateUser
<1>2. ASSUME NEW u \in Users, NEW active \in BOOLEAN,
             NEW codes \in RequestedRoles \cup {{Keep}},
             BeginUpdateUser(s, u, active, codes)
      PROVE  PowersConfined' /\ Confined' /\ RootStays'
  <2>1. [op |-> "updateUser", by |-> By(s), id |-> u, active |-> active,
         roles |-> codes] \in Pending
    BY <1>2, AskedBy, PendingTypes, AccountsAssumption DEF BeginUpdateUser, IdentityAccess
  <2>2. "super_admin" \in codes => user[u].org = Platform
    BY <1>2 DEF BeginUpdateUser, RolesFound, TenantRoles, Keep
  <2>3. user[u].status # "ABSENT"
    BY <1>2 DEF BeginUpdateUser, Exists
  <2>4. ConfinedSession(s)'
    BY <1>2, <2>2, <2>3, AskedConfined
    DEF BeginUpdateUser, IdentityAccess, ConfinedSession, TypeOK
  <2> QED
    BY <1>2, <2>1, <2>4, ReadOnly DEF BeginUpdateUser
<1>3. ASSUME CommitUpdateUser(s)
      PROVE  PowersConfined' /\ Confined' /\ RootStays'
  <2>1. session[s].id \in Users
    BY <1>3, SessionTypes DEF CommitUpdateUser
  <2>2. "super_admin" \in session[s].roles => user[session[s].id].org = Platform
    BY <1>3 DEF CommitUpdateUser, Confined, ConfinedSession
  <2>3. \A v \in Users : /\ user'[v].org = user[v].org
                         /\ user[v].status # "ABSENT" => user'[v].status # "ABSENT"
    BY <1>3, <2>1, UserTypes DEF CommitUpdateUser, TypeOK, StatusOf
  <2>4. \A v \in Users : \/ user'[v].roles = user[v].roles
                         \/ v = session[s].id /\ user'[v].roles = session[s].roles
    BY <1>3, <2>1, UserTypes DEF CommitUpdateUser, TypeOK
  <2>5. PowersConfined'
    BY <1>3, <2>2, <2>3, <2>4 DEF CommitUpdateUser, PowersConfined
  <2> QED
    BY <1>3, <2>3, <2>5, Written DEF CommitUpdateUser, RowsKeepOrg
<1>4. ASSUME NEW u \in Users, BeginDeleteUser(s, u)
      PROVE  PowersConfined' /\ Confined' /\ RootStays'
  <2>1. [op |-> "deleteUser", by |-> By(s), id |-> u] \in Pending
    BY <1>4, AskedBy, PendingTypes DEF BeginDeleteUser, IdentityAccess
  <2>2. ConfinedSession(s)'
    BY <1>4, AskedConfined DEF BeginDeleteUser, IdentityAccess, ConfinedSession, TypeOK
  <2> QED
    BY <1>4, <2>1, <2>2, ReadOnly DEF BeginDeleteUser
<1>5. ASSUME CommitDeleteUser(s)
      PROVE  PowersConfined' /\ Confined' /\ RootStays'
  <2>1. session[s].id \in Users
    BY <1>5, SessionTypes DEF CommitDeleteUser
  <2>2. \A v \in Users : user'[v].roles \subseteq user[v].roles /\ user'[v].org = user[v].org
                            /\ (user[v].status # "ABSENT" => user'[v].status # "ABSENT")
    BY <1>5, <2>1, UserTypes DEF CommitDeleteUser, Deleted, TypeOK
  <2> QED
    BY <1>5, <2>2, StatusWritten DEF CommitDeleteUser, RowsKeepOrg
<1>6. ASSUME NEW r \in Roles, NEW codes \in RequestedGrants,
             BeginUpdateRolePermissions(s, r, codes)
      PROVE  PowersConfined' /\ Confined' /\ RootStays'
  <2> DEFINE p == [op |-> "grant", by |-> By(s), role |-> r,
                   old |-> grants[By(s).org][r], new |-> codes]
  <2>1. By(s) \in Caller /\ codes \in SUBSET Permissions
    BY <1>6, AskedBy, AccountsAssumption DEF BeginUpdateRolePermissions, IdentityAccess
  <2>2. grants[By(s).org][r] \in SUBSET Permissions
    BY <2>1 DEF TypeOK, Caller
  <2>3. p \in Pending
    BY <2>1, <2>2, PendingTypes
  <2>4. "tenant.manage" \in codes => By(s).org = Platform
    <3>1. SUFFICES ASSUME "tenant.manage" \in codes PROVE "super_admin" \in By(s).roles
      BY <1>6, AskedConfined DEF BeginUpdateRolePermissions, IdentityAccess
    <3> QED
      BY <1>6, <3>1 DEF BeginUpdateRolePermissions, MayGrant, ManagesAll
  <2>5. r \notin {"admin", "owner"} => codes \cap Reserved = {}
    BY <1>6 DEF BeginUpdateRolePermissions, MayGrant, Reserved
  <2>6. ConfinedSession(s)'
    <3>1. session'[s] = p
      BY <1>6 DEF BeginUpdateRolePermissions, TypeOK
    <3>2. "super_admin" \in By(s).roles => By(s).org = Platform
      BY <1>6, AskedConfined DEF BeginUpdateRolePermissions, IdentityAccess
    <3> QED
      BY <3>1, <3>2, <2>4, <2>5 DEF ConfinedSession
  <2> QED
    BY <1>6, <2>3, <2>6, ReadOnly DEF BeginUpdateRolePermissions
<1>7. ASSUME CommitUpdateRolePermissions(s)
      PROVE  PowersConfined' /\ Confined' /\ RootStays'
  <2> DEFINE put == session[s]
  <2>1. put.by.org \in Orgs /\ put.role \in Roles
    BY <1>7, SessionTypes DEF CommitUpdateRolePermissions, Caller
  <2>2. \A o \in Orgs, r \in Roles :
          \/ grants'[o][r] = grants[o][r]
          \/ /\ o = put.by.org /\ r = put.role
             /\ grants'[o][r] \subseteq grants[o][r] \cup put.new
    BY <1>7, <2>1 DEF CommitUpdateRolePermissions, TypeOK
  <2>3. /\ "tenant.manage" \in put.new => put.by.org = Platform
        /\ put.role \notin {"admin", "owner"} => put.new \cap Reserved = {}
    BY <1>7 DEF CommitUpdateRolePermissions, Confined, ConfinedSession
  <2>4. \A t \in Tenants, r \in Roles : "tenant.manage" \notin grants'[t][r]
    BY <2>2, <2>3, PlatformTenants DEF PowersConfined, Orgs
  <2>5. \A o \in Orgs, r \in Roles \ {"admin", "owner"} :
          grants'[o][r] \cap {"user.manage", "period.reopen"} = {}
    BY <2>2, <2>3 DEF PowersConfined, Reserved
  <2>6. PowersConfined'
    BY <1>7, <2>4, <2>5 DEF CommitUpdateRolePermissions, PowersConfined
  <2>7. RowsKeepOrg
    BY <1>7 DEF CommitUpdateRolePermissions, RowsKeepOrg
  <2> QED
    BY <1>7, <2>6, <2>7, Written DEF CommitUpdateRolePermissions
<1> QED
  BY <1>1, <1>2, <1>3, <1>4, <1>5, <1>6, <1>7 DEF Identity

LEMMA ConfinedStep == Inv /\ [Next]_vars => PowersConfined' /\ Confined' /\ RootStays'
<1> SUFFICES ASSUME Inv, [Next]_vars
             PROVE  PowersConfined' /\ Confined' /\ RootStays'
  OBVIOUS
<1> USE DEF Inv
<1>1. ASSUME NEW s \in Sessions, NEW u \in Users, Arrive(s, u)
      PROVE  PowersConfined' /\ Confined' /\ RootStays'
  <2> DEFINE by == [id |-> u, org |-> user[u].org, roles |-> user[u].roles,
                    manage |-> \E r \in user[u].roles :
                                 "tenant.manage" \in grants[user[u].org][r]]
  <2>1. by \in Caller
    BY UserTypes DEF Caller
  <2>2. [op |-> "asked", by |-> by] \in Pending
    BY <2>1, PendingTypes
  <2>3. session' = [session EXCEPT ![s] = [op |-> "asked", by |-> by]]
    BY <1>1 DEF Arrive
  <2>4. ConfinedSession(s)'
    BY <2>3 DEF ConfinedSession, PowersConfined, TypeOK
  <2> QED
    BY <1>1, <2>2, <2>3, <2>4, ReadOnly DEF Arrive
<1>2. ASSUME NEW s \in Sessions, Super(s)
      PROVE  PowersConfined' /\ Confined' /\ RootStays'
  BY <1>2, SuperConfined
<1>3. ASSUME NEW s \in Sessions, Identity(s)
      PROVE  PowersConfined' /\ Confined' /\ RootStays'
  BY <1>3, IdentityConfined
<1>4. ASSUME NEW s \in Sessions, Abandon(s)
      PROVE  PowersConfined' /\ Confined' /\ RootStays'
  <2>1. ConfinedSession(s)'
    BY <1>4 DEF Abandon, ConfinedSession, Idle, TypeOK
  <2> QED
    BY <1>4, <2>1, ReadOnly, PendingTypes DEF Abandon
<1>5. CASE SeedRoles
  <2>1. \A o \in Orgs :
          \/ grants'[o] = grants[o]
          \/ o \in Tenants /\ grants'[o] = TenantGrants
          \/ o = Platform /\ grants'[o] = PlatformGrants
    BY <1>5 DEF SeedRoles, SeededRoles
  <2>2. PowersConfined'
    BY <1>5, <2>1, PlatformTenants, GrantsConfined
    DEF SeedRoles, PowersConfined, Orgs, Reserved
  <2> QED
    BY <1>5, <2>2 DEF SeedRoles, Confined, ConfinedSession, RootStays
<1>6. CASE SeedUsers
  <2>1. user' = [user EXCEPT
           ![Root] = [status |-> "ACTIVE", org |-> Platform,
                      roles |-> user[Root].roles \cup {"super_admin"}],
           ![DefaultAdmin] = [status |-> "ACTIVE", org |-> user[DefaultAdmin].org,
                              roles |-> user[DefaultAdmin].roles \cup {"admin"}]]
    BY <1>6, AccountsAssumption DEF SeedUsers, SeededUsers, TypeOK
  <2>2. \A v \in Users : /\ user'[v].org = user[v].org
                         /\ user[v].status # "ABSENT" => user'[v].status # "ABSENT"
    BY <2>1, AccountsAssumption DEF RootStays, TypeOK
  <2>3. \A v \in Users : "super_admin" \in user'[v].roles =>
                           v = Root \/ "super_admin" \in user[v].roles
    BY <2>1, AccountsAssumption DEF TypeOK
  <2>4. PowersConfined'
    BY <1>6, <2>2, <2>3 DEF SeedUsers, PowersConfined, RootStays
  <2>5. RootStays'
    BY <2>2, AccountsAssumption DEF RootStays
  <2>6. ASSUME NEW r \in Sessions PROVE ConfinedSession(r)'
    <3>1. session'[r] = session[r]
      BY <1>6 DEF SeedUsers
    <3>2. session[r].op = "updateUser" => session[r].id \in Users
      BY SessionTypes
    <3> QED
      BY <3>1, <3>2, <2>2 DEF Confined, ConfinedSession
  <2> QED
    BY <2>4, <2>5, <2>6 DEF Confined
<1>7. CASE UNCHANGED vars
  BY <1>7 DEF vars, PowersConfined, Confined, ConfinedSession, RootStays
<1> QED
  BY <1>1, <1>2, <1>3, <1>4, <1>5, <1>6, <1>7 DEF Next

LEMMA InitConfined == Init => PowersConfined /\ Confined /\ RootStays
<1> SUFFICES ASSUME Init PROVE PowersConfined /\ Confined /\ RootStays
  OBVIOUS
<1>1. Confined
  BY DEF Init, Confined, ConfinedSession, Idle
<1>2. RootStays
  BY AccountsAssumption DEF Init, RootStays
<1>3. \A u \in Users : "super_admin" \in user[u].roles => user[u].org = Platform
  BY DEF Init
<1>4. \A o \in Orgs : \/ o = Platform /\ grants[o] = PlatformGrants
                      \/ o # Platform /\ grants[o] \in {TenantGrants, NoGrants}
  BY AccountsAssumption, PlatformTenants DEF Init
<1>5. \A t \in Tenants, r \in Roles : "tenant.manage" \notin grants[t][r]
  BY <1>4, PlatformTenants, GrantsConfined DEF Orgs
<1>6. \A o \in Orgs, r \in Roles \ {"admin", "owner"} : grants[o][r] \cap Reserved = {}
  BY <1>4, GrantsConfined
<1>7. PowersConfined
  BY <1>3, <1>5, <1>6 DEF PowersConfined, Reserved
<1> QED
  BY <1>1, <1>2, <1>7

LEMMA InvHolds == Spec => []Inv
<1>1. Init => Inv
  BY InitTypes, InitConfined DEF Inv
<1>2. Inv /\ [Next]_vars => Inv'
  BY TypeStep, ConfinedStep DEF Inv
<1> QED
  BY <1>1, <1>2, PTL DEF Spec

(* Nobody outside the platform ever has the powers of a super admin, and    *)
(* user management and reopening stay with admins and owners, for any      *)
(* number of users, tenants and requests in flight, with the seed run      *)
(* again at any moment.                                                    *)
THEOREM PowersStayConfined == Spec => []PowersConfined
BY InvHolds, PTL DEF Inv

-----------------------------------------------------------------------------
(* AdminsAreAppointed: a pending update that makes somebody a tenant admin  *)
(* is a super admin's.                                                     *)
AppointedSession(s) ==
    session[s].op = "updateUser" /\ "admin" \in session[s].roles =>
      "super_admin" \in session[s].by.roles

Appointed == \A s \in Sessions : AppointedSession(s)

(* A step of one session keeps what the other sessions have read.          *)
LEMMA OneSession ==
    ASSUME TypeOK, Appointed, NEW s \in Sessions, NEW p \in Pending,
           session' = [session EXCEPT ![s] = p],
           p.op = "updateUser" => ("admin" \in p.roles => "super_admin" \in p.by.roles)
    PROVE  Appointed'
<1> SUFFICES ASSUME NEW r \in Sessions PROVE AppointedSession(r)'
  BY DEF Appointed
<1>1. CASE r = s
  BY <1>1 DEF TypeOK, AppointedSession
<1>2. CASE r # s
  <2>1. session'[r] = session[r]
    BY <1>2 DEF TypeOK
  <2> QED
    BY <2>1 DEF Appointed, AppointedSession
<1> QED
  BY <1>1, <1>2

(* What the step promises of the users.                                    *)
AppointedStep ==
    \A u \in Users :
      "admin" \in user'[u].roles \ user[u].roles =>
        \/ seeds' # seeds
        \/ \E s \in Sessions : /\ session'[s] # session[s]
                               /\ "super_admin" \in session[s].by.roles

(* Steps that give nobody the role.                                        *)
LEMMA NobodyAppointed ==
    ASSUME TypeOK, Appointed, NEW s \in Sessions, Go(s, Idle),
           \A u \in Users : "admin" \in user'[u].roles => "admin" \in user[u].roles
    PROVE  Appointed' /\ AppointedStep
<1>1. Appointed'
  BY OneSession, PendingTypes DEF Idle
<1> QED
  BY <1>1 DEF AppointedStep

(* Steps of a super admin.                                                 *)
LEMMA SuperAppoints ==
    ASSUME TypeOK, Appointed, NEW s \in Sessions, Go(s, Idle),
           session[s].op # "idle", "super_admin" \in session[s].by.roles
    PROVE  Appointed' /\ AppointedStep
<1>1. Appointed'
  BY OneSession, PendingTypes DEF Idle
<1>2. session'[s] # session[s]
  BY DEF TypeOK, Idle
<1> QED
  BY <1>1, <1>2 DEF AppointedStep

(* Steps that only read.                                                   *)
LEMMA ReadersAppoint ==
    ASSUME TypeOK, Appointed, NEW s \in Sessions, NEW p \in Pending,
           session' = [session EXCEPT ![s] = p],
           p.op = "updateUser" => ("admin" \in p.roles => "super_admin" \in p.by.roles),
           UNCHANGED user
    PROVE  Appointed' /\ AppointedStep
BY OneSession DEF AppointedStep

LEMMA AppointedSteps ==
    TypeOK /\ Appointed /\ [Next]_vars => Appointed' /\ AppointedStep
<1> SUFFICES ASSUME TypeOK, Appointed, [Next]_vars
             PROVE  Appointed' /\ AppointedStep
  OBVIOUS
<1>1. ASSUME NEW s \in Sessions, NEW u \in Users, Arrive(s, u)
      PROVE  Appointed' /\ AppointedStep
  <2> DEFINE by == [id |-> u, org |-> user[u].org, roles |-> user[u].roles,
                    manage |-> \E r \in user[u].roles :
                                 "tenant.manage" \in grants[user[u].org][r]]
  <2>1. by \in Caller
    BY UserTypes DEF Caller
  <2>2. [op |-> "asked", by |-> by] \in Pending
    BY <2>1, PendingTypes
  <2> QED
    BY <1>1, <2>2, ReadersAppoint DEF Arrive
<1>2. ASSUME NEW s \in Sessions, Super(s) PROVE Appointed' /\ AppointedStep
  <2> USE DEF PlatformAccess
  <2>1. ASSUME NEW u \in Users, CreateSuperAdmin(s, u)
        PROVE  Appointed' /\ AppointedStep
    BY <2>1, SuperAppoints DEF CreateSuperAdmin, Asked, By
  <2>2. ASSUME NEW u \in Users, NEW active \in BOOLEAN,
               BeginUpdateSuperAdmin(s, u, active)
        PROVE  Appointed' /\ AppointedStep
    BY <2>2, AskedBy, PendingTypes, ReadersAppoint DEF BeginUpdateSuperAdmin
  <2>3. ASSUME CommitUpdateSuperAdmin(s) PROVE Appointed' /\ AppointedStep
    <3>1. \A u \in Users : user'[u].roles = user[u].roles
      BY <2>3, UserTypes DEF CommitUpdateSuperAdmin, TypeOK, User
    <3> QED
      BY <2>3, <3>1, NobodyAppointed DEF CommitUpdateSuperAdmin
  <2>4. ASSUME NEW u \in Users, BeginDeleteSuperAdmin(s, u)
        PROVE  Appointed' /\ AppointedStep
    BY <2>4, AskedBy, PendingTypes, ReadersAppoint DEF BeginDeleteSuperAdmin
  <2>5. ASSUME CommitDeleteSuperAdmin(s) PROVE Appointed' /\ AppointedStep
    <3>1. \A u \in Users : user'[u].roles \subseteq user[u].roles
      BY <2>5, UserTypes DEF CommitDeleteSuperAdmin, Deleted, TypeOK, User
    <3> QED
      BY <2>5, <3>1, NobodyAppointed DEF CommitDeleteSuperAdmin
  <2>6. ASSUME NEW t \in Tenants, NEW u \in Users, CreateTenant(s, t, u)
        PROVE  Appointed' /\ AppointedStep
    BY <2>6, SuperAppoints DEF CreateTenant, Asked, By
  <2>7. ASSUME NEW t \in Tenants, BeginDeleteTenant(s, t)
        PROVE  Appointed' /\ AppointedStep
    BY <2>7, AskedBy, PendingTypes, ReadersAppoint DEF BeginDeleteTenant
  <2>8. ASSUME CommitDeleteTenant(s) PROVE Appointed' /\ AppointedStep
    <3>1. \A u \in Users : user'[u].roles = user[u].roles
      BY <2>8, UserTypes DEF CommitDeleteTenant, TypeOK, User
    <3> QED
      BY <2>8, <3>1, NobodyAppointed DEF CommitDeleteTenant
  <2>9. ASSUME NEW u \in Users, NEW active \in BOOLEAN,
               NEW codes \in RequestedRoles \cup {{Keep}},
               BeginUpdateTenantUser(s, u, active, codes)
        PROVE  Appointed' /\ AppointedStep
    <3>1. By(s) \in Caller /\ codes \in (SUBSET Roles) \cup {{Keep}}
      BY <2>9, AskedBy, AccountsAssumption DEF BeginUpdateTenantUser
    <3> DEFINE p == [op |-> "updateUser", by |-> By(s), id |-> u,
                     active |-> active, roles |-> codes]
    <3>2. p \in Pending
      BY <3>1, PendingTypes
    <3>3. session' = [session EXCEPT ![s] = p] /\ UNCHANGED user
      BY <2>9 DEF BeginUpdateTenantUser
    <3>4. "super_admin" \in p.by.roles
      BY <2>9 DEF BeginUpdateTenantUser
    <3> QED
      BY <3>2, <3>3, <3>4, ReadersAppoint
  <2>10. ASSUME NEW u \in Users, BeginDeleteTenantUser(s, u)
         PROVE  Appointed' /\ AppointedStep
    BY <2>10, AskedBy, PendingTypes, ReadersAppoint DEF BeginDeleteTenantUser
  <2>11. ASSUME CommitDeleteTenantUser(s) PROVE Appointed' /\ AppointedStep
    <3>1. \A u \in Users : user'[u].roles = user[u].roles
      BY <2>11, UserTypes DEF CommitDeleteTenantUser, TypeOK, User
    <3> QED
      BY <2>11, <3>1, NobodyAppointed DEF CommitDeleteTenantUser
  <2> QED
    BY <1>2, <2>1, <2>2, <2>3, <2>4, <2>5, <2>6, <2>7, <2>8, <2>9, <2>10, <2>11 DEF Super
<1>3. ASSUME NEW s \in Sessions, Identity(s) PROVE Appointed' /\ AppointedStep
  <2>1. ASSUME NEW u \in Users, NEW active \in BOOLEAN, NEW codes \in RequestedRoles,
               CreateUser(s, u, active, codes)
        PROVE  Appointed' /\ AppointedStep
    <3>1. CASE "super_admin" \in By(s).roles
      BY <2>1, <3>1, SuperAppoints DEF CreateUser, IdentityAccess, Asked, By
    <3>2. CASE "super_admin" \notin By(s).roles
      <4>1. "admin" \notin codes
        BY <2>1, <3>2 DEF CreateUser, MayManage, ManagesAll
      <4>2. \A v \in Users : "admin" \in user'[v].roles => "admin" \in user[v].roles
        BY <2>1, <4>1 DEF CreateUser, TypeOK
      <4> QED
        BY <2>1, <4>2, NobodyAppointed DEF CreateUser
    <3> QED
      BY <3>1, <3>2
  <2>2. ASSUME NEW u \in Users, NEW active \in BOOLEAN,
               NEW codes \in RequestedRoles \cup {{Keep}},
               BeginUpdateUser(s, u, active, codes)
        PROVE  Appointed' /\ AppointedStep
    <3>1. By(s) \in Caller /\ codes \in (SUBSET Roles) \cup {{Keep}}
      BY <2>2, AskedBy, AccountsAssumption DEF BeginUpdateUser, IdentityAccess
    <3> DEFINE p == [op |-> "updateUser", by |-> By(s), id |-> u,
                     active |-> active, roles |-> codes]
    <3>2. p \in Pending
      BY <3>1, PendingTypes
    <3>3. session' = [session EXCEPT ![s] = p] /\ UNCHANGED user
      BY <2>2 DEF BeginUpdateUser
    <3>4. "admin" \in codes => "super_admin" \in By(s).roles
      BY <2>2 DEF BeginUpdateUser, MayManage, ManagesAll, Keep
    <3> QED
      BY <3>2, <3>3, <3>4, ReadersAppoint
  <2>3. ASSUME CommitUpdateUser(s) PROVE Appointed' /\ AppointedStep
    <3>1. CASE "super_admin" \in session[s].by.roles
      BY <2>3, <3>1, SuperAppoints DEF CommitUpdateUser
    <3>2. CASE "super_admin" \notin session[s].by.roles
      <4>1. session[s].id \in Users /\ "admin" \notin session[s].roles
        BY <2>3, <3>2, SessionTypes DEF CommitUpdateUser, Appointed, AppointedSession
      <4>2. \A v \in Users : user'[v].roles \in {user[v].roles, session[s].roles}
        BY <2>3, <4>1, UserTypes DEF CommitUpdateUser, TypeOK, User
      <4> QED
        BY <2>3, <4>1, <4>2, NobodyAppointed DEF CommitUpdateUser
    <3> QED
      BY <3>1, <3>2
  <2>4. ASSUME NEW u \in Users, BeginDeleteUser(s, u)
        PROVE  Appointed' /\ AppointedStep
    BY <2>4, AskedBy, PendingTypes, ReadersAppoint DEF BeginDeleteUser, IdentityAccess
  <2>5. ASSUME CommitDeleteUser(s) PROVE Appointed' /\ AppointedStep
    <3>1. \A u \in Users : user'[u].roles \subseteq user[u].roles
      BY <2>5, UserTypes DEF CommitDeleteUser, Deleted, TypeOK, User
    <3> QED
      BY <2>5, <3>1, NobodyAppointed DEF CommitDeleteUser
  <2>6. ASSUME NEW r \in Roles, NEW codes \in RequestedGrants,
               BeginUpdateRolePermissions(s, r, codes)
        PROVE  Appointed' /\ AppointedStep
    <3>1. By(s) \in Caller /\ codes \in SUBSET Permissions
      BY <2>6, AskedBy, AccountsAssumption DEF BeginUpdateRolePermissions, IdentityAccess
    <3>2. grants[By(s).org][r] \in SUBSET Permissions
      BY <3>1 DEF TypeOK, Caller
    <3> QED
      BY <2>6, <3>1, <3>2, PendingTypes, ReadersAppoint DEF BeginUpdateRolePermissions
  <2>7. ASSUME CommitUpdateRolePermissions(s) PROVE Appointed' /\ AppointedStep
    BY <2>7, NobodyAppointed DEF CommitUpdateRolePermissions
  <2> QED
    BY <1>3, <2>1, <2>2, <2>3, <2>4, <2>5, <2>6, <2>7 DEF Identity
<1>4. ASSUME NEW s \in Sessions, Abandon(s) PROVE Appointed' /\ AppointedStep
  BY <1>4, NobodyAppointed DEF Abandon
<1>5. CASE SeedRoles
  BY <1>5 DEF SeedRoles, Appointed, AppointedSession, AppointedStep
<1>6. CASE SeedUsers
  <2>1. seeds' # seeds
    BY <1>6, AccountsAssumption DEF SeedUsers, TypeOK
  <2> QED
    BY <1>6, <2>1 DEF SeedUsers, Appointed, AppointedSession, AppointedStep
<1>7. CASE UNCHANGED vars
  BY <1>7 DEF vars, Appointed, AppointedSession, AppointedStep
<1> QED
  BY <1>1, <1>2, <1>3, <1>4, <1>5, <1>6, <1>7 DEF Next

(* A tenant admin is made by a super admin or by the seed, for any users    *)
(* and any requests in flight, of delegates whose own rights change        *)
(* meanwhile too.                                                          *)
THEOREM AdminsStayAppointed == Spec => AdminsAreAppointed
<1>1. Init => TypeOK /\ Appointed
  BY InitTypes DEF Init, Appointed, AppointedSession, Idle
<1>2. TypeOK /\ Appointed /\ [Next]_vars => TypeOK' /\ Appointed'
  BY TypeStep, AppointedSteps
<1>3. TypeOK /\ Appointed /\ [Next]_vars =>
        [\A u \in Users :
           "admin" \in user'[u].roles \ user[u].roles =>
             \/ seeds' # seeds
             \/ \E s \in Sessions :
                  /\ session'[s] # session[s]
                  /\ "super_admin" \in session[s].by.roles]_vars
  BY AppointedSteps DEF AppointedStep
<1> QED
  BY <1>1, <1>2, <1>3, PTL DEF Spec, AdminsAreAppointed

-----------------------------------------------------------------------------
(* SuperAdminRemains and ClosedTenantsAreEmpty, one request at a time: what *)
(* the request has read of its caller, of the user it is about to change    *)
(* and of the user's tenant is still so when it writes.                    *)

Busy(s) == session[s].op # "idle"

CallerCurrent(s) ==
    Busy(s) =>
      /\ user[By(s).id].status = "ACTIVE"
      /\ user[By(s).id].roles = By(s).roles
      /\ user[By(s).id].org = By(s).org

UserWrites ==
    {"updateSuper", "updateUser", "deleteSuper", "deleteTenantUser", "deleteUser"}

(* Nobody switches off or removes himself; who switches off or removes a    *)
(* super admin, a tenant or another tenant admin is a super admin.         *)
CallerStays(s) ==
    /\ session[s].op \in UserWrites =>
         /\ session[s].id = By(s).id =>
              /\ session[s].op \in {"updateSuper", "updateUser"}
              /\ session[s].active
              /\ session[s].roles = {Keep}
         /\ "super_admin" \in user[session[s].id].roles =>
              "super_admin" \in By(s).roles
    /\ session[s].op \in {"updateUser", "deleteUser"} =>
         ("admin" \in user[session[s].id].roles =>
            "super_admin" \in By(s).roles \/ session[s].id = By(s).id)
    /\ session[s].op = "deleteTenant" => "super_admin" \in By(s).roles

(* Who may become active belongs to the platform or to an active tenant.   *)
TenantStays(s) ==
    session[s].op \in {"updateSuper", "updateUser"} =>
      (user[session[s].id].org \in Tenants => tenant[user[session[s].id].org] = "ACTIVE")

Sound(s) == CallerCurrent(s) /\ CallerStays(s) /\ TenantStays(s)

OneRequest ==
    quiet =>
      /\ seeds % 2 = 0
      /\ \A r, s \in Sessions : Busy(r) /\ Busy(s) => r = s
      /\ \A s \in Sessions : Sound(s)

Kept == SuperAdminRemains /\ ClosedTenantsAreEmpty

QuietInv == OneRequest /\ Kept

LEMMA BusyOrIdle ==
    ASSUME TypeOK, NEW s \in Sessions
    PROVE  ~Busy(s) <=> session[s] = Idle
<1>1. session[s] \in Pending
  BY DEF TypeOK
<1>2. \A p \in Pending : p.op = "idle" <=> p = Idle
  BY DEF Pending, Idle
<1> QED
  BY <1>1, <1>2 DEF Busy

(* A request that ends leaves nothing to be sound about.                   *)
LEMMA LastOne ==
    ASSUME TypeOK, OneRequest, NEW s \in Sessions, Busy(s), Go(s, Idle)
    PROVE  OneRequest'
<1> SUFFICES ASSUME quiet
             PROVE  /\ seeds' % 2 = 0
                    /\ \A r \in Sessions : ~Busy(r)'
  BY DEF OneRequest, Sound, CallerCurrent, CallerStays, TenantStays, Busy, UserWrites
<1>1. ASSUME NEW r \in Sessions PROVE session'[r].op = "idle"
  <2>1. CASE r = s
    BY <2>1 DEF TypeOK, Idle
  <2>2. CASE r # s
    BY <2>2 DEF TypeOK, OneRequest, Busy
  <2> QED
    BY <2>1, <2>2
<1> QED
  BY <1>1 DEF OneRequest, Busy

(* A request that has read what it needs.                                  *)
LEMMA Reads ==
    ASSUME TypeOK, QuietInv, NEW s \in Sessions, Asked(s), NEW p \in Pending, Go(s, p),
           p.op # "idle", p.by = By(s), UNCHANGED <<user, tenant>>,
           quiet => CallerStays(s)' /\ TenantStays(s)'
    PROVE  QuietInv'
<1>1. Busy(s) /\ session'[s] = p
  BY DEF Asked, Busy, TypeOK
<1>2. \A r \in Sessions : r # s => session'[r] = session[r]
  BY DEF TypeOK
<1>3. \A r \in Sessions : Busy(r)' => Busy(r)
  BY <1>1, <1>2 DEF Busy
<1>4. ASSUME quiet PROVE Sound(s)'
  <2>1. CallerCurrent(s)'
    BY <1>1, <1>4 DEF QuietInv, OneRequest, Sound, CallerCurrent, By
  <2> QED
    BY <1>4, <2>1 DEF Sound
<1>5. ASSUME quiet, NEW r \in Sessions, r # s PROVE Sound(r)'
  BY <1>2, <1>5 DEF QuietInv, OneRequest, Sound, CallerCurrent, CallerStays,
                    TenantStays, By, Busy, UserWrites
<1>6. OneRequest'
  BY <1>3, <1>4, <1>5 DEF QuietInv, OneRequest
<1>7. Kept'
  BY DEF QuietInv, Kept, SuperAdminRemains, ActiveSuperAdmins, ClosedTenantsAreEmpty
<1> QED
  BY <1>6, <1>7 DEF QuietInv

(* A row is made: nobody who was there changes.                            *)
LEMMA MadeKept ==
    ASSUME TypeOK, QuietInv, NEW s \in Sessions, Busy(s), Go(s, Idle), NEW u \in Users,
           user[u].status = "ABSENT", NEW new,
           user' = [user EXCEPT ![u] = new],
           \A t \in Tenants : tenant[t] = "ACTIVE" => tenant'[t] = "ACTIVE",
           quiet => (new.status = "ACTIVE" /\ new.org \in Tenants =>
                       tenant'[new.org] = "ACTIVE")
    PROVE  QuietInv'
<1>1. OneRequest'
  BY LastOne DEF QuietInv
<1>2. user'[u] = new /\ \A v \in Users : v # u => user'[v] = user[v]
  BY DEF TypeOK
<1>3. SuperAdminRemains'
  BY <1>2 DEF QuietInv, Kept, SuperAdminRemains, ActiveSuperAdmins
<1>4. ClosedTenantsAreEmpty'
  BY <1>2 DEF QuietInv, Kept, ClosedTenantsAreEmpty
<1> QED
  BY <1>1, <1>3, <1>4 DEF QuietInv, Kept

(* A row is changed or removed by a request that is sound.                 *)
LEMMA ChangedKept ==
    ASSUME TypeOK, QuietInv, NEW s \in Sessions, Busy(s), Go(s, Idle), UNCHANGED tenant,
           session[s].op \in UserWrites, session[s].id \in Users,
           user' \in [Users -> User],
           \A v \in Users : v # session[s].id => user'[v] = user[v],
           user'[session[s].id].status = "ACTIVE" =>
             /\ session[s].op \in {"updateSuper", "updateUser"}
             /\ user'[session[s].id].org = user[session[s].id].org,
           session[s].op \in {"updateSuper", "updateUser"} =>
             /\ session[s].active => user'[session[s].id].status = "ACTIVE"
             /\ session[s].roles = {Keep} =>
                  user'[session[s].id].roles = user[session[s].id].roles
    PROVE  QuietInv'
<1>1. OneRequest'
  BY LastOne DEF QuietInv
<1>2. By(s).id \in Users
  BY ByTypes DEF Busy
<1>3. ASSUME quiet PROVE ActiveSuperAdmins' # {}
  <2>1. Sound(s)
    BY <1>3 DEF QuietInv, OneRequest
  <2>2. CASE "super_admin" \in By(s).roles
    <3>1. By(s).id \in ActiveSuperAdmins'
      BY <1>2, <2>1, <2>2 DEF Sound, CallerCurrent, CallerStays, ActiveSuperAdmins
    <3> QED
      BY <3>1
  <2>3. CASE "super_admin" \notin By(s).roles
    <3>1. PICK u \in Users : user[u].status = "ACTIVE" /\ "super_admin" \in user[u].roles
      BY <1>3 DEF QuietInv, Kept, SuperAdminRemains, ActiveSuperAdmins
    <3>2. u # session[s].id
      BY <2>1, <2>3, <3>1 DEF Sound, CallerStays
    <3> QED
      BY <3>1, <3>2 DEF ActiveSuperAdmins
  <2> QED
    BY <2>2, <2>3
<1>4. ASSUME quiet, NEW u \in Users, user'[u].status = "ACTIVE", user'[u].org \in Tenants
      PROVE  tenant'[user'[u].org] = "ACTIVE"
  <2>1. CASE u = session[s].id
    BY <1>4, <2>1 DEF QuietInv, OneRequest, Sound, TenantStays
  <2>2. CASE u # session[s].id
    BY <1>4, <2>2 DEF QuietInv, Kept, ClosedTenantsAreEmpty
  <2> QED
    BY <2>1, <2>2
<1>5. Kept'
  BY <1>3, <1>4 DEF Kept, SuperAdminRemains, ClosedTenantsAreEmpty
<1> QED
  BY <1>1, <1>5 DEF QuietInv

LEMMA SuperQuiet ==
    ASSUME Inv, QuietInv, NEW s \in Sessions, Super(s)
    PROVE  QuietInv'
<1> USE DEF PlatformAccess, Asked
<1>0. TypeOK /\ TypeOK'
  BY SuperTypes DEF Inv
<1>1. \A v \in Users : user[v].org \in Tenants => "super_admin" \notin user[v].roles
  BY PlatformTenants DEF Inv, PowersConfined
<1>2. ASSUME NEW u \in Users, CreateSuperAdmin(s, u) PROVE QuietInv'
  <2>1. Platform \notin Tenants
    BY AccountsAssumption
  <2> QED
    BY <1>0, <1>2, <2>1, MadeKept DEF CreateSuperAdmin, Busy
<1>3. ASSUME NEW u \in Users, NEW active \in BOOLEAN,
             BeginUpdateSuperAdmin(s, u, active)
      PROVE  QuietInv'
  <2> DEFINE p == [op |-> "updateSuper", by |-> By(s), id |-> u,
                   active |-> active, roles |-> {Keep}]
  <2>1. p \in Pending /\ Go(s, p)
    BY <1>0, <1>3, AskedBy, PendingTypes DEF BeginUpdateSuperAdmin
  <2>2. session'[s] = p
    BY <1>0, <2>1 DEF TypeOK
  <2>3. CallerStays(s)'
    BY <1>3, <2>2 DEF BeginUpdateSuperAdmin, CallerStays, By, UserWrites
  <2>4. TenantStays(s)'
    BY <1>1, <1>3, <2>2 DEF BeginUpdateSuperAdmin, TenantStays, IsSuperAdmin
  <2> QED
    BY <1>0, <1>3, <2>1, <2>3, <2>4, Reads DEF BeginUpdateSuperAdmin
<1>4. ASSUME CommitUpdateSuperAdmin(s) PROVE QuietInv'
  <2>1. session[s].id \in Users /\ session[s].active \in BOOLEAN
    BY <1>0, <1>4, SessionTypes DEF CommitUpdateSuperAdmin
  <2>2. user' = [user EXCEPT ![session[s].id].status = StatusOf(session[s].active)]
    BY <1>4 DEF CommitUpdateSuperAdmin
  <2>3. /\ \A v \in Users : v # session[s].id => user'[v] = user[v]
        /\ user'[session[s].id].org = user[session[s].id].org
        /\ user'[session[s].id].roles = user[session[s].id].roles
        /\ session[s].active => user'[session[s].id].status = "ACTIVE"
    BY <1>0, <2>1, <2>2 DEF TypeOK, User, StatusOf
  <2> QED
    BY <1>0, <1>4, <2>1, <2>3, ChangedKept
    DEF CommitUpdateSuperAdmin, Busy, UserWrites, TypeOK
<1>5. ASSUME NEW u \in Users, BeginDeleteSuperAdmin(s, u) PROVE QuietInv'
  <2> DEFINE p == [op |-> "deleteSuper", by |-> By(s), id |-> u]
  <2>1. p \in Pending /\ Go(s, p)
    BY <1>0, <1>5, AskedBy, PendingTypes DEF BeginDeleteSuperAdmin
  <2>2. session'[s] = p
    BY <1>0, <2>1 DEF TypeOK
  <2>3. CallerStays(s)' /\ TenantStays(s)'
    BY <1>5, <2>2 DEF BeginDeleteSuperAdmin, CallerStays, TenantStays, By, UserWrites
  <2> QED
    BY <1>0, <1>5, <2>1, <2>3, Reads DEF BeginDeleteSuperAdmin
<1>6. ASSUME CommitDeleteSuperAdmin(s) PROVE QuietInv'
  <2>1. session[s].id \in Users
    BY <1>0, <1>6, SessionTypes DEF CommitDeleteSuperAdmin
  <2>2. /\ \A v \in Users : v # session[s].id => user'[v] = user[v]
        /\ user'[session[s].id].status = "DELETED"
    BY <1>0, <1>6, <2>1 DEF CommitDeleteSuperAdmin, Deleted, TypeOK, User
  <2> QED
    BY <1>0, <1>6, <2>1, <2>2, ChangedKept
    DEF CommitDeleteSuperAdmin, Busy, UserWrites, TypeOK
<1>7. ASSUME NEW t \in Tenants, NEW u \in Users, CreateTenant(s, t, u) PROVE QuietInv'
  <2>1. tenant'[t] = "ACTIVE" /\ \A x \in Tenants : x # t => tenant'[x] = tenant[x]
    BY <1>0, <1>7 DEF CreateTenant, TypeOK
  <2> QED
    BY <1>0, <1>7, <2>1, MadeKept DEF CreateTenant, Busy
<1>8. ASSUME NEW t \in Tenants, BeginDeleteTenant(s, t) PROVE QuietInv'
  <2> DEFINE p == [op |-> "deleteTenant", by |-> By(s), id |-> t]
  <2>1. p \in Pending /\ Go(s, p)
    BY <1>0, <1>8, AskedBy, PendingTypes DEF BeginDeleteTenant
  <2>2. session'[s] = p
    BY <1>0, <2>1 DEF TypeOK
  <2>3. CallerStays(s)' /\ TenantStays(s)'
    BY <1>8, <2>2 DEF BeginDeleteTenant, CallerStays, TenantStays, By, UserWrites
  <2> QED
    BY <1>0, <1>8, <2>1, <2>3, Reads DEF BeginDeleteTenant
<1>9. ASSUME CommitDeleteTenant(s) PROVE QuietInv'
  <2>1. session[s].id \in Tenants /\ By(s).id \in Users /\ Busy(s)
    BY <1>0, <1>9, SessionTypes, ByTypes DEF CommitDeleteTenant, Busy
  <2>2. /\ \A x \in Tenants : x # session[s].id => tenant'[x] = tenant[x]
        /\ \A v \in Users :
             user'[v] = IF user[v].status = "ACTIVE" /\ user[v].org = session[s].id
                        THEN [user[v] EXCEPT !.status = "INACTIVE"]
                        ELSE user[v]
    BY <1>0, <1>9, <2>1 DEF CommitDeleteTenant, TypeOK
  <2>3. ASSUME quiet PROVE By(s).id \in ActiveSuperAdmins'
    <3>1. /\ user[By(s).id].status = "ACTIVE"
          /\ "super_admin" \in user[By(s).id].roles
      BY <1>9, <2>1, <2>3
      DEF CommitDeleteTenant, QuietInv, OneRequest, Sound, CallerCurrent, CallerStays
    <3>2. user[By(s).id].org # session[s].id
      BY <1>1, <2>1, <3>1
    <3> QED
      BY <2>1, <2>2, <3>1, <3>2 DEF ActiveSuperAdmins
  <2>4. ASSUME quiet, NEW v \in Users, user'[v].status = "ACTIVE", user'[v].org \in Tenants
        PROVE  tenant'[user'[v].org] = "ACTIVE"
    <3>1. ~(user[v].status = "ACTIVE" /\ user[v].org = session[s].id)
      BY <1>0, <2>2, <2>4 DEF TypeOK, User
    <3> QED
      BY <2>2, <2>4, <3>1 DEF QuietInv, Kept, ClosedTenantsAreEmpty
  <2>5. OneRequest'
    BY <1>0, <1>9, <2>1, LastOne DEF CommitDeleteTenant, QuietInv
  <2>6. Kept'
    BY <1>9, <2>3, <2>4
    DEF CommitDeleteTenant, Kept, SuperAdminRemains, ClosedTenantsAreEmpty
  <2> QED
    BY <2>5, <2>6 DEF QuietInv
<1>10. ASSUME NEW u \in Users, NEW active \in BOOLEAN,
              NEW codes \in RequestedRoles \cup {{Keep}},
              BeginUpdateTenantUser(s, u, active, codes)
       PROVE  QuietInv'
  <2> DEFINE p == [op |-> "updateUser", by |-> By(s), id |-> u,
                   active |-> active, roles |-> codes]
  <2>1. p \in Pending /\ Go(s, p)
    <3>1. codes \in (SUBSET Roles) \cup {{Keep}}
      BY AccountsAssumption
    <3> QED
      BY <1>0, <1>10, <3>1, AskedBy, PendingTypes DEF BeginUpdateTenantUser
  <2>2. session'[s] = p
    BY <1>0, <2>1 DEF TypeOK
  <2>3. quiet => u # By(s).id
    <3>1. quiet => user[By(s).id].roles = By(s).roles
      BY <1>10 DEF BeginUpdateTenantUser, QuietInv, OneRequest, Sound, CallerCurrent, Busy
    <3>2. user[u].org \in Tenants
      BY <1>0, <1>10, UserTypes DEF BeginUpdateTenantUser, TenantUser, Orgs
    <3> QED
      BY <1>1, <1>10, <3>1, <3>2 DEF BeginUpdateTenantUser
  <2>4. quiet => CallerStays(s)'
    BY <1>10, <2>2, <2>3 DEF BeginUpdateTenantUser, CallerStays, By, UserWrites
  <2>5. TenantStays(s)'
    BY <1>10, <2>2 DEF BeginUpdateTenantUser, TenantStays, TenantUser
  <2> QED
    BY <1>0, <1>10, <2>1, <2>4, <2>5, Reads DEF BeginUpdateTenantUser
<1>11. ASSUME NEW u \in Users, BeginDeleteTenantUser(s, u) PROVE QuietInv'
  <2> DEFINE p == [op |-> "deleteTenantUser", by |-> By(s), id |-> u]
  <2>1. p \in Pending /\ Go(s, p)
    BY <1>0, <1>11, AskedBy, PendingTypes DEF BeginDeleteTenantUser
  <2>2. session'[s] = p
    BY <1>0, <2>1 DEF TypeOK
  <2>3. quiet => u # By(s).id
    <3>1. quiet => user[By(s).id].roles = By(s).roles
      BY <1>11 DEF BeginDeleteTenantUser, QuietInv, OneRequest, Sound, CallerCurrent, Busy
    <3>2. user[u].org \in Tenants
      BY <1>0, <1>11, UserTypes DEF BeginDeleteTenantUser, TenantUser, Orgs
    <3> QED
      BY <1>1, <1>11, <3>1, <3>2 DEF BeginDeleteTenantUser
  <2>4. quiet => CallerStays(s)' /\ TenantStays(s)'
    BY <1>11, <2>2, <2>3
    DEF BeginDeleteTenantUser, CallerStays, TenantStays, By, UserWrites
  <2> QED
    BY <1>0, <1>11, <2>1, <2>4, Reads DEF BeginDeleteTenantUser
<1>12. ASSUME CommitDeleteTenantUser(s) PROVE QuietInv'
  <2>1. session[s].id \in Users
    BY <1>0, <1>12, SessionTypes DEF CommitDeleteTenantUser
  <2>2. /\ \A v \in Users : v # session[s].id => user'[v] = user[v]
        /\ user'[session[s].id].status = "INACTIVE"
    BY <1>0, <1>12, <2>1 DEF CommitDeleteTenantUser, TypeOK, User
  <2> QED
    BY <1>0, <1>12, <2>1, <2>2, ChangedKept
    DEF CommitDeleteTenantUser, Busy, UserWrites, TypeOK
<1> QED
  BY <1>2, <1>3, <1>4, <1>5, <1>6, <1>7, <1>8, <1>9, <1>10, <1>11, <1>12 DEF Super

(* Whom a request of the identity endpoints may change.                    *)
LEMMA MayManageStays ==
    ASSUME NEW by, NEW codes, MayManage(by, codes), {"super_admin", "admin"} \cap codes # {}
    PROVE  "super_admin" \in by.roles
BY DEF MayManage, ManagesAll

LEMMA IdentityQuiet ==
    ASSUME Inv, QuietInv, NEW s \in Sessions, Identity(s)
    PROVE  QuietInv'
<1> USE DEF IdentityAccess, Asked
<1>0. TypeOK /\ TypeOK'
  BY IdentityTypes DEF Inv
<1>1. quiet /\ session[s].op = "asked" =>
        /\ user[By(s).id].status = "ACTIVE"
        /\ user[By(s).id].roles = By(s).roles
        /\ user[By(s).id].org = By(s).org
  BY DEF QuietInv, OneRequest, Sound, CallerCurrent, Busy
<1>2. quiet /\ session[s].op = "asked" /\ By(s).org \in Tenants =>
        tenant[By(s).org] = "ACTIVE"
  <2>1. session[s].op = "asked" => By(s).id \in Users
    BY <1>0, ByTypes
  <2> QED
    BY <1>1, <2>1 DEF QuietInv, Kept, ClosedTenantsAreEmpty
<1>3. ASSUME NEW u \in Users, NEW active \in BOOLEAN, NEW codes \in RequestedRoles,
             CreateUser(s, u, active, codes)
      PROVE  QuietInv'
  BY <1>0, <1>2, <1>3, MadeKept DEF CreateUser, Busy
<1>4. ASSUME NEW u \in Users, NEW active \in BOOLEAN,
             NEW codes \in RequestedRoles \cup {{Keep}},
             BeginUpdateUser(s, u, active, codes)
      PROVE  QuietInv'
  <2> DEFINE p == [op |-> "updateUser", by |-> By(s), id |-> u,
                   active |-> active, roles |-> codes]
  <2>1. p \in Pending /\ Go(s, p)
    <3>1. codes \in (SUBSET Roles) \cup {{Keep}}
      BY AccountsAssumption
    <3> QED
      BY <1>0, <1>4, <3>1, AskedBy, PendingTypes DEF BeginUpdateUser
  <2>2. session'[s] = p
    BY <1>0, <2>1 DEF TypeOK
  <2>3. /\ u = By(s).id => codes = {Keep} /\ active
        /\ u # By(s).id => MayManage(By(s), user[u].roles)
    BY <1>4 DEF BeginUpdateUser
  <2>4. quiet =>
          /\ "super_admin" \in user[u].roles => "super_admin" \in By(s).roles
          /\ "admin" \in user[u].roles => "super_admin" \in By(s).roles \/ u = By(s).id
    BY <1>1, <1>4, <2>3, MayManageStays DEF BeginUpdateUser
  <2>5. quiet => CallerStays(s)'
    BY <1>4, <2>2, <2>3, <2>4 DEF BeginUpdateUser, CallerStays, By, UserWrites
  <2>6. quiet => TenantStays(s)'
    BY <1>2, <1>4, <2>2 DEF BeginUpdateUser, TenantStays
  <2> QED
    BY <1>0, <1>4, <2>1, <2>5, <2>6, Reads DEF BeginUpdateUser
<1>5. ASSUME CommitUpdateUser(s) PROVE QuietInv'
  <2>1. session[s].id \in Users /\ session[s].active \in BOOLEAN
    BY <1>0, <1>5, SessionTypes DEF CommitUpdateUser
  <2>2. /\ \A v \in Users : v # session[s].id => user'[v] = user[v]
        /\ user'[session[s].id].org = user[session[s].id].org
        /\ session[s].roles = {Keep} =>
             user'[session[s].id].roles = user[session[s].id].roles
        /\ session[s].active => user'[session[s].id].status = "ACTIVE"
    BY <1>0, <1>5, <2>1 DEF CommitUpdateUser, TypeOK, User, StatusOf
  <2> QED
    BY <1>0, <1>5, <2>1, <2>2, ChangedKept
    DEF CommitUpdateUser, Busy, UserWrites, TypeOK
<1>6. ASSUME NEW u \in Users, BeginDeleteUser(s, u) PROVE QuietInv'
  <2> DEFINE p == [op |-> "deleteUser", by |-> By(s), id |-> u]
  <2>1. p \in Pending /\ Go(s, p)
    BY <1>0, <1>6, AskedBy, PendingTypes DEF BeginDeleteUser
  <2>2. session'[s] = p
    BY <1>0, <2>1 DEF TypeOK
  <2>3. {"super_admin", "admin"} \cap user[u].roles # {} => "super_admin" \in By(s).roles
    BY <1>6, MayManageStays DEF BeginDeleteUser
  <2>4. CallerStays(s)' /\ TenantStays(s)'
    BY <1>6, <2>2, <2>3 DEF BeginDeleteUser, CallerStays, TenantStays, By, UserWrites
  <2> QED
    BY <1>0, <1>6, <2>1, <2>4, Reads DEF BeginDeleteUser
<1>7. ASSUME CommitDeleteUser(s) PROVE QuietInv'
  <2>1. session[s].id \in Users
    BY <1>0, <1>7, SessionTypes DEF CommitDeleteUser
  <2>2. /\ \A v \in Users : v # session[s].id => user'[v] = user[v]
        /\ user'[session[s].id].status = "DELETED"
    BY <1>0, <1>7, <2>1 DEF CommitDeleteUser, Deleted, TypeOK, User
  <2> QED
    BY <1>0, <1>7, <2>1, <2>2, ChangedKept
    DEF CommitDeleteUser, Busy, UserWrites, TypeOK
<1>8. ASSUME NEW r \in Roles, NEW codes \in RequestedGrants,
             BeginUpdateRolePermissions(s, r, codes)
      PROVE  QuietInv'
  <2> DEFINE p == [op |-> "grant", by |-> By(s), role |-> r,
                   old |-> grants[By(s).org][r], new |-> codes]
  <2>1. By(s) \in Caller /\ codes \in SUBSET Permissions
    BY <1>0, <1>8, AskedBy, AccountsAssumption DEF BeginUpdateRolePermissions
  <2>2. p \in Pending /\ Go(s, p)
    <3>1. grants[By(s).org][r] \in SUBSET Permissions
      BY <1>0, <2>1 DEF TypeOK, Caller
    <3> QED
      BY <1>8, <2>1, <3>1, PendingTypes DEF BeginUpdateRolePermissions
  <2>3. session'[s] = p
    BY <1>0, <2>2 DEF TypeOK
  <2>4. CallerStays(s)' /\ TenantStays(s)'
    BY <2>3 DEF CallerStays, TenantStays, UserWrites
  <2> QED
    BY <1>0, <1>8, <2>2, <2>4, Reads DEF BeginUpdateRolePermissions
<1>9. ASSUME CommitUpdateRolePermissions(s) PROVE QuietInv'
  <2>1. OneRequest'
    BY <1>0, <1>9, LastOne DEF CommitUpdateRolePermissions, QuietInv, Busy
  <2> QED
    BY <1>9, <2>1
    DEF CommitUpdateRolePermissions, QuietInv, Kept, SuperAdminRemains,
        ActiveSuperAdmins, ClosedTenantsAreEmpty
<1> QED
  BY <1>3, <1>4, <1>5, <1>6, <1>7, <1>8, <1>9 DEF Identity

LEMMA QuietStep == Inv /\ QuietInv /\ [Next]_vars => QuietInv'
<1> SUFFICES ASSUME Inv, QuietInv, [Next]_vars
             PROVE  QuietInv'
  OBVIOUS
<1>0. TypeOK
  BY DEF Inv
<1>1. ASSUME NEW s \in Sessions, NEW u \in Users, Arrive(s, u) PROVE QuietInv'
  <2>1. quiet' => quiet /\ \A r \in Sessions : ~Busy(r)
    <3>1. quiet' => quiet /\ \A r \in Sessions : session[r] = Idle
      BY <1>0, <1>1, Zenon DEF Arrive
    <3> QED
      BY <1>0, <3>1, BusyOrIdle
  <2>2. \A r \in Sessions : r # s => session'[r] = session[r]
    BY <1>0, <1>1 DEF Arrive, TypeOK
  <2>3. /\ session'[s].op = "asked"
        /\ session'[s].by.id = u
        /\ session'[s].by.org = user[u].org
        /\ session'[s].by.roles = user[u].roles
    BY <1>0, <1>1 DEF Arrive, TypeOK
  <2>4. UNCHANGED <<user, tenant, seeds>> /\ user[u].status = "ACTIVE"
    BY <1>1 DEF Arrive
  <2>5. ASSUME quiet', NEW r \in Sessions PROVE Sound(r)' /\ (r # s => ~Busy(r)')
    <3>1. CASE r = s
      BY <2>3, <2>4, <3>1
      DEF Sound, CallerCurrent, CallerStays, TenantStays, By, UserWrites
    <3>2. CASE r # s
      <4>1. session'[r].op = "idle"
        BY <2>1, <2>2, <2>5, <3>2 DEF Busy
      <4> QED
        BY <3>2, <4>1
        DEF Sound, CallerCurrent, CallerStays, TenantStays, Busy, UserWrites
    <3> QED
      BY <3>1, <3>2
  <2>6. OneRequest'
    <3>1. quiet' => seeds' % 2 = 0
      BY <2>1, <2>4 DEF QuietInv, OneRequest
    <3> QED
      BY <2>5, <3>1 DEF OneRequest
  <2>7. Kept'
    BY <2>1, <2>4
    DEF QuietInv, Kept, SuperAdminRemains, ActiveSuperAdmins, ClosedTenantsAreEmpty
  <2> QED
    BY <2>6, <2>7 DEF QuietInv
<1>2. ASSUME NEW s \in Sessions, Super(s) PROVE QuietInv'
  BY <1>2, SuperQuiet
<1>3. ASSUME NEW s \in Sessions, Identity(s) PROVE QuietInv'
  BY <1>3, IdentityQuiet
<1>4. ASSUME NEW s \in Sessions, Abandon(s) PROVE QuietInv'
  <2>1. OneRequest'
    BY <1>0, <1>4, BusyOrIdle, LastOne DEF Abandon, QuietInv
  <2> QED
    BY <1>4, <2>1
    DEF Abandon, QuietInv, Kept, SuperAdminRemains, ActiveSuperAdmins,
        ClosedTenantsAreEmpty
<1>5. CASE SeedRoles
  BY <1>5 DEF SeedRoles, QuietInv, OneRequest, Kept, SuperAdminRemains,
              ClosedTenantsAreEmpty
<1>6. CASE SeedUsers
  <2>1. ~quiet /\ ~quiet'
    BY <1>6 DEF SeedUsers, QuietInv, OneRequest
  <2> QED
    BY <2>1 DEF QuietInv, OneRequest, Kept, SuperAdminRemains, ClosedTenantsAreEmpty
<1>7. CASE UNCHANGED vars
  BY <1>7 DEF vars, QuietInv, OneRequest, Sound, CallerCurrent, CallerStays, TenantStays,
              Busy, By, Kept, SuperAdminRemains, ActiveSuperAdmins, ClosedTenantsAreEmpty
<1> QED
  BY <1>1, <1>2, <1>3, <1>4, <1>5, <1>6, <1>7 DEF Next

LEMMA InitQuiet == Init => QuietInv
<1> SUFFICES ASSUME Init PROVE QuietInv
  OBVIOUS
<1>1. OneRequest
  BY DEF Init, OneRequest, Sound, CallerCurrent, CallerStays, TenantStays, Busy, Idle,
         UserWrites
<1>2. Root \in ActiveSuperAdmins
  BY AccountsAssumption DEF Init, ActiveSuperAdmins
<1>3. ClosedTenantsAreEmpty
  BY AccountsAssumption DEF Init, ClosedTenantsAreEmpty
<1> QED
  BY <1>1, <1>2, <1>3 DEF QuietInv, Kept, SuperAdminRemains

LEMMA QuietHolds == Spec => []QuietInv
BY InitQuiet, InvHolds, QuietStep, PTL DEF Spec

(* With requests one after another there is always an active super admin,   *)
(* for any users, tenants and requests: nobody switches off, demotes or     *)
(* removes himself, and who does it to a super admin is another one.       *)
THEOREM SuperAdminStays == Spec => []SuperAdminRemains
BY QuietHolds, PTL DEF QuietInv, Kept

(* With requests one after another, nobody is active in a tenant that was   *)
(* switched off.                                                           *)
THEOREM ClosedTenantsStayEmpty == Spec => []ClosedTenantsAreEmpty
BY QuietHolds, PTL DEF QuietInv, Kept

(* With requests one after another, no request to the endpoints of the      *)
(* tenants' users that was not sent by a super admin changes another tenant *)
(* admin: whom a request is about was judged by roles that are still so.   *)
THEOREM AdminsStayOutOfReach == Spec => AdminsOutOfReach
<1> DEFINE OutOfReach ==
             quiet /\ quiet' =>
               \A s \in Sessions, u \in Users :
                 /\ session[s].op \in {"updateUser", "deleteUser"}
                 /\ session'[s] # session[s]
                 /\ user'[u] # user[u]
                 /\ "admin" \in user[u].roles
                 => "super_admin" \in By(s).roles \/ u = By(s).id
<1>1. Inv /\ QuietInv /\ [Next]_vars => [OutOfReach]_vars
  <2> SUFFICES ASSUME Inv, QuietInv, [Next]_vars, quiet,
                      NEW s \in Sessions, NEW u \in Users,
                      session[s].op \in {"updateUser", "deleteUser"},
                      session'[s] # session[s], user'[u] # user[u],
                      "admin" \in user[u].roles
               PROVE  "super_admin" \in By(s).roles \/ u = By(s).id
    OBVIOUS
  <2>0. TypeOK /\ CallerStays(s) /\ Busy(s)
    BY DEF Inv, QuietInv, OneRequest, Sound, Busy
  <2>1. ASSUME u = session[s].id
        PROVE  "super_admin" \in By(s).roles \/ u = By(s).id
    BY <2>0, <2>1 DEF CallerStays
  <2>2. ASSUME NEW r \in Sessions, Super(r) \/ Identity(r)
        PROVE  Super(s) \/ Identity(s)
    <3>1. \E p : Go(r, p)
      BY <2>2
      DEF Super, Identity, CreateSuperAdmin, BeginUpdateSuperAdmin,
        CommitUpdateSuperAdmin, BeginDeleteSuperAdmin, CommitDeleteSuperAdmin,
        CreateTenant, BeginDeleteTenant, CommitDeleteTenant, BeginUpdateTenantUser,
        BeginDeleteTenantUser, CommitDeleteTenantUser, CreateUser, BeginUpdateUser,
        CommitUpdateUser, BeginDeleteUser, CommitDeleteUser,
        BeginUpdateRolePermissions, CommitUpdateRolePermissions
    <3>2. r = s
      BY <2>0, <3>1 DEF TypeOK
    <3> QED BY <2>2, <3>2
  <2>3. ASSUME Super(s) \/ Identity(s)
        PROVE  u = session[s].id
    <3>1. CommitUpdateUser(s) \/ CommitDeleteUser(s)
      BY <2>3
      DEF Super, Identity, CreateSuperAdmin, BeginUpdateSuperAdmin,
        CommitUpdateSuperAdmin, BeginDeleteSuperAdmin, CommitDeleteSuperAdmin,
        CreateTenant, BeginDeleteTenant, CommitDeleteTenant, BeginUpdateTenantUser,
        BeginDeleteTenantUser, CommitDeleteTenantUser, CreateUser, BeginUpdateUser,
        BeginDeleteUser, BeginUpdateRolePermissions, CommitUpdateRolePermissions,
        PlatformAccess, IdentityAccess, Asked
    <3>2. \A v \in Users : v # session[s].id => user'[v] = user[v]
      BY <2>0, <3>1 DEF CommitUpdateUser, CommitDeleteUser, Deleted, TypeOK
    <3> QED BY <3>2
  <2>4. ASSUME NEW r \in Sessions, (\E v \in Users : Arrive(r, v)) \/ Abandon(r)
        PROVE  FALSE
    BY <2>4 DEF Arrive, Abandon
  <2>5. ~SeedRoles /\ ~SeedUsers /\ ~UNCHANGED vars
    BY DEF SeedRoles, SeedUsers, vars
  <2> QED BY <2>1, <2>2, <2>3, <2>4, <2>5 DEF Next
<1> QED BY <1>1, InvHolds, QuietHolds, PTL DEF Spec, AdminsOutOfReach
=============================================================================
