------------------------------ MODULE Accounts ------------------------------
(***************************************************************************)
(* Organizations, users, roles and permissions: the platform endpoints     *)
(* (PlatformService), the identity endpoints (IdentityService), the guards *)
(* every request passes, and the seed that a deployment may run again.     *)
(* A definition named <name>_<change> is an altered form of <name>, used by *)
(* no action: see Payments.                                                *)
(*                                                                         *)
(* A session is an HTTP request.  JwtAuthGuard reads the caller's row,     *)
(* roles and permissions once (Arrive); the handler works with that copy,  *)
(* reads what it changes (Begin...) and writes in a transaction            *)
(* (Commit...).  Names, e-mail addresses, phones and passwords are left    *)
(* out: where one is taken, the request ends (Abandon).                    *)
(***************************************************************************)
EXTENDS Naturals, FiniteSets

CONSTANTS
    Users,           \* ids of user rows
    Tenants,         \* ids of organizations that are not the platform
    Platform,        \* the platform's organization
    Root,            \* the super admin of the seed
    DefaultTenant,   \* the tenant of the seed
    DefaultAdmin,    \* the tenant admin of the seed
    Sessions,        \* requests in flight
    RequestedRoles,  \* bound: sets of role codes that requests name
    RequestedGrants, \* bound: sets of permission codes that requests name
    MaxSeeds         \* bound: how often the seed runs again

TenantRoles == {"admin", "owner", "business_owner", "finance"}

Roles == TenantRoles \cup {"super_admin"}

(* The permissions that somebody may not grant; "other" stands for the rest. *)
Permissions == {"tenant.manage", "user.manage", "period.reopen", "other"}

ASSUME AccountsAssumption ==
    /\ Platform \notin Tenants
    /\ DefaultTenant \in Tenants
    /\ Root \in Users
    /\ DefaultAdmin \in Users
    /\ Root # DefaultAdmin
    /\ RequestedRoles \subseteq (SUBSET Roles) \ {{}}
    /\ RequestedGrants \subseteq SUBSET Permissions
    /\ MaxSeeds \in Nat

Orgs == Tenants \cup {Platform}

VARIABLES
    user,     \* user rows with their roles
    tenant,   \* whether each tenant exists and is active
    grants,   \* the permissions of each organization's roles
    session,  \* what each request has read and still has to do
    quiet,    \* requests have come one after another, without a second seed
    seeds     \* how many halves of the seed have run again

vars == <<user, tenant, grants, session, quiet, seeds>>

User == [status : {"ABSENT", "ACTIVE", "INACTIVE", "DELETED"}, org : Orgs,
         roles : SUBSET Roles]

(* What JwtAuthGuard puts into the request.                                *)
Caller == [id : Users, org : Orgs, roles : SUBSET Roles, manage : BOOLEAN]

Idle == [op |-> "idle"]

Keep == "keep"

Pending == {Idle}
    \cup [op : {"asked"}, by : Caller]
    \cup [op : {"updateSuper", "updateUser"}, by : Caller, id : Users,
          active : BOOLEAN, roles : (SUBSET Roles) \cup {{Keep}}]
    \cup [op : {"deleteSuper", "deleteTenantUser", "deleteUser"}, by : Caller,
          id : Users]
    \cup [op : {"deleteTenant"}, by : Caller, id : Tenants]
    \cup [op : {"grant"}, by : Caller, role : Roles, old : SUBSET Permissions,
          new : SUBSET Permissions]

TypeOK ==
    /\ user \in [Users -> User]
    /\ tenant \in [Tenants -> {"ABSENT", "ACTIVE", "INACTIVE"}]
    /\ grants \in [Orgs -> [Roles -> SUBSET Permissions]]
    /\ session \in [Sessions -> Pending]
    /\ quiet \in BOOLEAN
    /\ seeds \in 0 .. 2 * MaxSeeds

(* tenantRoleDefinitions.                                                  *)
Definition(r) ==
    CASE r = "admin" -> Permissions \ {"tenant.manage"}
      [] r = "owner" -> {"user.manage", "period.reopen", "other"}
      [] r \in {"finance", "business_owner"} -> {"other"}
      [] r = "super_admin" -> {}

(* ensureTenantRoles.                                                      *)
TenantGrants == [r \in Roles |-> Definition(r)]

PlatformGrants ==
    [r \in Roles |-> IF r = "super_admin" THEN {"tenant.manage"} ELSE {}]

NoGrants == [r \in Roles |-> {}]

(* The state after the first seed.                                         *)
Init ==
    /\ user = [u \in Users |->
         CASE u = Root -> [status |-> "ACTIVE", org |-> Platform,
                           roles |-> {"super_admin"}]
           [] u = DefaultAdmin -> [status |-> "ACTIVE", org |-> DefaultTenant,
                                   roles |-> {"admin"}]
           [] OTHER -> [status |-> "ABSENT", org |-> Platform, roles |-> {}]]
    /\ tenant = [t \in Tenants |->
                   IF t = DefaultTenant THEN "ACTIVE" ELSE "ABSENT"]
    /\ grants = [o \in Orgs |->
         CASE o = Platform -> PlatformGrants
           [] o = DefaultTenant -> TenantGrants
           [] OTHER -> NoGrants]
    /\ session = [s \in Sessions |-> Idle]
    /\ quiet = TRUE
    /\ seeds = 0

Go(s, next) ==
    /\ session' = [session EXCEPT ![s] = next]
    /\ UNCHANGED <<quiet, seeds>>

-----------------------------------------------------------------------------
(* The guards.                                                             *)

(* Altered: the roles are those of the token, for thirty days.             *)
Arrive_TokenRoles(s, u) ==
    /\ session[s] = Idle
    /\ user[u].status # "ABSENT"
    /\ session' = [session EXCEPT ![s] =
         [op |-> "asked",
          by |-> [id |-> u, org |-> user[u].org, roles |-> user[u].roles,
                  manage |-> \E r \in user[u].roles :
                               "tenant.manage" \in grants[user[u].org][r]]]]
    /\ quiet' = (quiet /\ \A other \in Sessions : session[other] = Idle)
    /\ UNCHANGED <<user, tenant, grants, seeds>>

(* JwtAuthGuard takes only the id from the token: the row must be active    *)
(* now, and roles and permissions are read again.  That the organization   *)
(* is active is not asked.                                                 *)
Arrive(s, u) ==
    /\ session[s] = Idle
    /\ user[u].status = "ACTIVE"
    /\ session' = [session EXCEPT ![s] =
         [op |-> "asked",
          by |-> [id |-> u, org |-> user[u].org, roles |-> user[u].roles,
                  manage |-> \E r \in user[u].roles :
                               "tenant.manage" \in grants[user[u].org][r]]]]
    /\ quiet' = (quiet /\ \A other \in Sessions : session[other] = Idle)
    /\ UNCHANGED <<user, tenant, grants, seeds>>

Asked(s) == session[s].op = "asked"

By(s) == session[s].by

(* PermissionsGuard and ensureSuperAdmin: the platform endpoints.          *)
PlatformAccess(s) ==
    /\ Asked(s)
    /\ By(s).manage
    /\ "super_admin" \in By(s).roles

-----------------------------------------------------------------------------
(* Platform endpoints.                                                     *)

IsSuperAdmin(u) ==
    /\ user[u].status \in {"ACTIVE", "INACTIVE"}
    /\ "super_admin" \in user[u].roles

ActiveSuperAdmins ==
    {u \in Users : user[u].status = "ACTIVE" /\ "super_admin" \in user[u].roles}

(* ensurePlatformRole gives tenant.manage back to the role.                *)
CreateSuperAdmin(s, u) ==
    /\ PlatformAccess(s)
    /\ user[u].status = "ABSENT"
    /\ user' = [user EXCEPT ![u] = [status |-> "ACTIVE", org |-> Platform,
                                    roles |-> {"super_admin"}]]
    /\ grants' = [grants EXCEPT ![Platform]["super_admin"] =
                    @ \cup {"tenant.manage"}]
    /\ Go(s, Idle)
    /\ UNCHANGED tenant

BeginUpdateSuperAdmin(s, u, active) ==
    /\ PlatformAccess(s)
    /\ IsSuperAdmin(u)
    /\ u = By(s).id => active
    /\ Go(s, [op |-> "updateSuper", by |-> By(s), id |-> u, active |-> active,
              roles |-> {Keep}])
    /\ UNCHANGED <<user, tenant, grants>>

Exists(u) == user[u].status \in {"ACTIVE", "INACTIVE"}

StatusOf(active) == IF active THEN "ACTIVE" ELSE "INACTIVE"

CommitUpdateSuperAdmin(s) ==
    /\ session[s].op = "updateSuper"
    /\ Exists(session[s].id)
    /\ user' = [user EXCEPT ![session[s].id].status =
                  StatusOf(session[s].active)]
    /\ Go(s, Idle)
    /\ UNCHANGED <<tenant, grants>>

BeginDeleteSuperAdmin(s, u) ==
    /\ PlatformAccess(s)
    /\ u # By(s).id
    /\ IsSuperAdmin(u)
    /\ Cardinality(ActiveSuperAdmins) > 1
    /\ Go(s, [op |-> "deleteSuper", by |-> By(s), id |-> u])
    /\ UNCHANGED <<user, tenant, grants>>

(* The row and its roles go (onDelete: Cascade).                           *)
Deleted(u) == [user EXCEPT ![u].status = "DELETED", ![u].roles = {}]

CommitDeleteSuperAdmin(s) ==
    /\ session[s].op = "deleteSuper"
    /\ Exists(session[s].id)
    /\ user' = Deleted(session[s].id)
    /\ Go(s, Idle)
    /\ UNCHANGED <<tenant, grants>>

CreateTenant(s, t, u) ==
    /\ PlatformAccess(s)
    /\ tenant[t] = "ABSENT"
    /\ user[u].status = "ABSENT"
    /\ tenant' = [tenant EXCEPT ![t] = "ACTIVE"]
    /\ grants' = [grants EXCEPT ![t] = TenantGrants]
    /\ user' = [user EXCEPT ![u] = [status |-> "ACTIVE", org |-> t,
                                    roles |-> {"admin"}]]
    /\ Go(s, Idle)

BeginDeleteTenant(s, t) ==
    /\ PlatformAccess(s)
    /\ tenant[t] = "ACTIVE"
    /\ Go(s, [op |-> "deleteTenant", by |-> By(s), id |-> t])
    /\ UNCHANGED <<user, tenant, grants>>

(* Altered: the tenant's users are left as they are.                       *)
CommitDeleteTenant_UsersStay(s) ==
    /\ session[s].op = "deleteTenant"
    /\ tenant' = [tenant EXCEPT ![session[s].id] = "INACTIVE"]
    /\ Go(s, Idle)
    /\ UNCHANGED <<user, grants>>

CommitDeleteTenant(s) ==
    LET t == session[s].id
    IN /\ session[s].op = "deleteTenant"
       /\ tenant' = [tenant EXCEPT ![t] = "INACTIVE"]
       /\ user' = [u \in Users |->
                     IF user[u].status = "ACTIVE" /\ user[u].org = t
                     THEN [user[u] EXCEPT !.status = "INACTIVE"]
                     ELSE user[u]]
       /\ Go(s, Idle)
       /\ UNCHANGED grants

(* findTenantUserOrThrow.                                                  *)
TenantUser(u) ==
    /\ Exists(u)
    /\ user[u].org # Platform
    /\ tenant[user[u].org] = "ACTIVE"

(* Altered: roles of any organization are found.                           *)
RolesFound_AnyOrg(o, codes) == codes \subseteq Roles

(* resolveTenantRoles and resolveRoles: every code names a role of the      *)
(* organization.                                                           *)
RolesFound(o, codes) ==
    codes \subseteq (IF o = Platform THEN {"super_admin"} ELSE TenantRoles)

BeginUpdateTenantUser(s, u, active, codes) ==
    /\ PlatformAccess(s)
    /\ TenantUser(u)
    /\ codes = {Keep} \/ RolesFound(user[u].org, codes)
    /\ Go(s, [op |-> "updateUser", by |-> By(s), id |-> u, active |-> active,
              roles |-> codes])
    /\ UNCHANGED <<user, tenant, grants>>

(* Altered: the roles are replaced also where the request names none.      *)
CommitUpdateUser_RolesAsSent(s) ==
    LET put == session[s]
    IN /\ put.op = "updateUser"
       /\ Exists(put.id)
       /\ user' = [user EXCEPT ![put.id].status = StatusOf(put.active),
                               ![put.id].roles = put.roles]
       /\ Go(s, Idle)
       /\ UNCHANGED <<tenant, grants>>

(* The transactions of updateTenantUser and updateUser: the row first, then *)
(* the roles are replaced where the request names any.                     *)
CommitUpdateUser(s) ==
    LET put == session[s]
    IN /\ put.op = "updateUser"
       /\ Exists(put.id)
       /\ user' = [user EXCEPT
                     ![put.id].status = StatusOf(put.active),
                     ![put.id].roles = IF put.roles = {Keep} THEN @ ELSE put.roles]
       /\ Go(s, Idle)
       /\ UNCHANGED <<tenant, grants>>

BeginDeleteTenantUser(s, u) ==
    /\ PlatformAccess(s)
    /\ TenantUser(u)
    /\ Go(s, [op |-> "deleteTenantUser", by |-> By(s), id |-> u])
    /\ UNCHANGED <<user, tenant, grants>>

(* The row stays, switched off.                                            *)
CommitDeleteTenantUser(s) ==
    /\ session[s].op = "deleteTenantUser"
    /\ Exists(session[s].id)
    /\ user' = [user EXCEPT ![session[s].id].status = "INACTIVE"]
    /\ Go(s, Idle)
    /\ UNCHANGED <<tenant, grants>>

-----------------------------------------------------------------------------
(* Identity endpoints: the routes ask for no permission, the service asks   *)
(* for a role.                                                             *)

ManagesAll(by) == "super_admin" \in by.roles

ManagesAsAdmin(by) == "admin" \in by.roles /\ ~ManagesAll(by)

ManagesAsOwner(by) == "owner" \in by.roles /\ "admin" \notin by.roles
                        /\ ~ManagesAll(by)

IdentityAccess(s) ==
    /\ Asked(s)
    /\ ManagesAll(By(s)) \/ ManagesAsAdmin(By(s)) \/ ManagesAsOwner(By(s))

(* Altered: a tenant admin may manage tenant admins.                       *)
MayManage_Peers(by, codes) ==
    \/ ManagesAll(by)
    \/ ManagesAsAdmin(by) /\ codes \subseteq TenantRoles
    \/ ManagesAsOwner(by) /\ codes \subseteq {"business_owner", "finance"}

(* ensureRoleManagementAccess.                                             *)
MayManage(by, codes) ==
    \/ ManagesAll(by)
    \/ ManagesAsAdmin(by) /\ codes \subseteq {"owner", "business_owner", "finance"}
    \/ ManagesAsOwner(by) /\ codes \subseteq {"business_owner", "finance"}

(* ensureGrantablePermissions.                                             *)
MayGrant(by, r, codes) ==
    /\ codes \cap {"user.manage", "period.reopen"} # {} => r \in {"admin", "owner"}
    /\ \/ ManagesAll(by)
       \/ ManagesAsAdmin(by) /\ "tenant.manage" \notin codes
       \/ ManagesAsOwner(by) /\ codes \subseteq {"period.reopen", "other"}

CreateUser(s, u, active, codes) ==
    /\ IdentityAccess(s)
    /\ MayManage(By(s), codes)
    /\ RolesFound(By(s).org, codes)
    /\ user[u].status = "ABSENT"
    /\ user' = [user EXCEPT ![u] = [status |-> StatusOf(active),
                                    org |-> By(s).org, roles |-> codes]]
    /\ Go(s, Idle)
    /\ UNCHANGED <<tenant, grants>>

BeginUpdateUser(s, u, active, codes) ==
    /\ IdentityAccess(s)
    /\ Exists(u)
    /\ user[u].org = By(s).org
    /\ IF u = By(s).id THEN codes = {Keep} /\ active
       ELSE MayManage(By(s), user[u].roles)
    /\ codes # {Keep} => MayManage(By(s), codes) /\ RolesFound(By(s).org, codes)
    /\ Go(s, [op |-> "updateUser", by |-> By(s), id |-> u, active |-> active,
              roles |-> codes])
    /\ UNCHANGED <<user, tenant, grants>>

(* Altered: the target's roles are not looked at.                          *)
BeginDeleteUser_AnyTarget(s, u) ==
    /\ IdentityAccess(s)
    /\ u # By(s).id
    /\ Exists(u)
    /\ user[u].org = By(s).org
    /\ Go(s, [op |-> "deleteUser", by |-> By(s), id |-> u])
    /\ UNCHANGED <<user, tenant, grants>>

BeginDeleteUser(s, u) ==
    /\ IdentityAccess(s)
    /\ u # By(s).id
    /\ Exists(u)
    /\ user[u].org = By(s).org
    /\ MayManage(By(s), user[u].roles)
    /\ "super_admin" \in user[u].roles => Cardinality(ActiveSuperAdmins) > 1
    /\ Go(s, [op |-> "deleteUser", by |-> By(s), id |-> u])
    /\ UNCHANGED <<user, tenant, grants>>

CommitDeleteUser(s) ==
    /\ session[s].op = "deleteUser"
    /\ Exists(session[s].id)
    /\ user' = Deleted(session[s].id)
    /\ Go(s, Idle)
    /\ UNCHANGED <<tenant, grants>>

(* The role is one of the caller's organization; the rows it finds are the  *)
(* ones it deletes.                                                        *)
BeginUpdateRolePermissions(s, r, codes) ==
    /\ IdentityAccess(s)
    /\ RolesFound(By(s).org, {r})
    /\ MayManage(By(s), {r})
    /\ MayGrant(By(s), r, codes)
    /\ Go(s, [op |-> "grant", by |-> By(s), role |-> r,
              old |-> grants[By(s).org][r], new |-> codes])
    /\ UNCHANGED <<user, tenant, grants>>

(* Rows that another transaction has inserted meanwhile stay; the insert    *)
(* fails where one of its own is among them.                               *)
CommitUpdateRolePermissions(s) ==
    LET put == session[s]
        rest == grants[put.by.org][put.role] \ put.old
    IN /\ put.op = "grant"
       /\ rest \cap put.new = {}
       /\ grants' = [grants EXCEPT ![put.by.org][put.role] = rest \cup put.new]
       /\ Go(s, Idle)
       /\ UNCHANGED <<user, tenant>>

(* listUsers.                                                              *)
Listed(by) ==
    {u \in Users :
       /\ Exists(u)
       /\ user[u].org = by.org
       /\ \/ ManagesAll(by)
          \/ u = by.id
          \/ ManagesAsAdmin(by)
               /\ user[u].roles \subseteq {"owner", "business_owner", "finance"}
          \/ ManagesAsOwner(by)
               /\ user[u].roles \subseteq {"business_owner", "finance"}}

(* A request that is refused or fails, or a process that stops.            *)
Abandon(s) ==
    /\ session[s] # Idle
    /\ Go(s, Idle)
    /\ UNCHANGED <<user, tenant, grants>>

-----------------------------------------------------------------------------
(* The seed, run again: the roles of the default and of all active tenants  *)
(* go back to their definitions, and its two users are active again.       *)

SeededRoles ==
    [o \in Orgs |->
       CASE o = Platform -> PlatformGrants
         [] o \in Tenants /\ (o = DefaultTenant \/ tenant[o] = "ACTIVE") -> TenantGrants
         [] OTHER -> grants[o]]

SeededUsers ==
    [user EXCEPT
       ![Root] = [status |-> "ACTIVE", org |-> Platform,
                  roles |-> @.roles \cup {"super_admin"}],
       ![DefaultAdmin] = [status |-> "ACTIVE", org |-> @.org,
                          roles |-> @.roles \cup {"admin"}]]

(* The script is no transaction: the roles come first, then the users.  One *)
(* that was deleted comes back as a new row, which keeps the id here.      *)
SeedRoles ==
    /\ seeds % 2 = 0
    /\ seeds < 2 * MaxSeeds
    /\ seeds' = seeds + 1
    /\ quiet' = FALSE
    /\ grants' = SeededRoles
    /\ UNCHANGED <<user, tenant, session>>

SeedUsers ==
    /\ seeds % 2 = 1
    /\ seeds' = seeds + 1
    /\ user' = SeededUsers
    /\ UNCHANGED <<tenant, grants, session, quiet>>

-----------------------------------------------------------------------------
Super(s) ==
    \/ \E u \in Users : CreateSuperAdmin(s, u)
    \/ \E u \in Users, active \in BOOLEAN : BeginUpdateSuperAdmin(s, u, active)
    \/ CommitUpdateSuperAdmin(s)
    \/ \E u \in Users : BeginDeleteSuperAdmin(s, u)
    \/ CommitDeleteSuperAdmin(s)
    \/ \E t \in Tenants, u \in Users : CreateTenant(s, t, u)
    \/ \E t \in Tenants : BeginDeleteTenant(s, t)
    \/ CommitDeleteTenant(s)
    \/ \E u \in Users, active \in BOOLEAN, codes \in RequestedRoles \cup {{Keep}} :
         BeginUpdateTenantUser(s, u, active, codes)
    \/ \E u \in Users : BeginDeleteTenantUser(s, u)
    \/ CommitDeleteTenantUser(s)

Identity(s) ==
    \/ \E u \in Users, active \in BOOLEAN, codes \in RequestedRoles :
         CreateUser(s, u, active, codes)
    \/ \E u \in Users, active \in BOOLEAN, codes \in RequestedRoles \cup {{Keep}} :
         BeginUpdateUser(s, u, active, codes)
    \/ CommitUpdateUser(s)
    \/ \E u \in Users : BeginDeleteUser(s, u)
    \/ CommitDeleteUser(s)
    \/ \E r \in Roles, codes \in RequestedGrants :
         BeginUpdateRolePermissions(s, r, codes)
    \/ CommitUpdateRolePermissions(s)

Next ==
    \/ \E s \in Sessions :
         (\E u \in Users : Arrive(s, u)) \/ Super(s) \/ Identity(s) \/ Abandon(s)
    \/ SeedRoles
    \/ SeedUsers

Spec == Init /\ [][Next]_vars
-----------------------------------------------------------------------------
(* Properties.                                                             *)

(* Nobody outside the platform holds the role of super admins or the        *)
(* permission to manage tenants, and user management and reopening stay    *)
(* with admins and owners, whoever grants what at the same time.           *)
PowersConfined ==
    /\ \A u \in Users :
         "super_admin" \in user[u].roles => user[u].org = Platform
    /\ \A t \in Tenants, r \in Roles : "tenant.manage" \notin grants[t][r]
    /\ \A o \in Orgs, r \in Roles \ {"admin", "owner"} :
         grants[o][r] \cap {"user.manage", "period.reopen"} = {}

(* Nobody becomes a tenant admin unless a super admin or the seed makes     *)
(* them one.                                                               *)
AdminsAreAppointed ==
    [][\A u \in Users :
         "admin" \in user'[u].roles \ user[u].roles =>
           \/ seeds' # seeds
           \/ \E s \in Sessions :
                /\ session'[s] # session[s]
                /\ "super_admin" \in session[s].by.roles]_vars

(* What the list of users shows a delegate is what it may change.          *)
ListsWhatIsManaged ==
    \A s \in Sessions : IdentityAccess(s) =>
        \A u \in Users :
          (Exists(u) /\ user[u].org = By(s).org /\ u # By(s).id) =>
            (u \in Listed(By(s)) <=> MayManage(By(s), user[u].roles))

(* One request at a time: "At least one active super admin is required."    *)
SuperAdminRemains == quiet => ActiveSuperAdmins # {}

(* One request at a time: the users of a tenant that was switched off stay  *)
(* switched off, so that its tokens are refused.                           *)
ClosedTenantsAreEmpty ==
    quiet => \A u \in Users :
      user[u].status = "ACTIVE" /\ user[u].org \in Tenants =>
        tenant[user[u].org] = "ACTIVE"

(* One request at a time: no identity request of somebody who is not a      *)
(* super admin changes another tenant admin.                               *)
AdminsOutOfReach ==
    [][quiet /\ quiet' =>
         \A s \in Sessions, u \in Users :
           /\ session[s].op \in {"updateUser", "deleteUser"}
           /\ session'[s] # session[s]
           /\ user'[u] # user[u]
           /\ "admin" \in user[u].roles
           => "super_admin" \in By(s).roles \/ u = By(s).id]_vars
=============================================================================
