------------------------------ MODULE Registry ------------------------------
(***************************************************************************)
(* Customers and signing entities: names and codes that are unique inside  *)
(* the organization (CustomersService, SigningEntitiesService), the owners *)
(* of customers, the import of customers row by row, and removal.          *)
(* A definition named <name>_<change> is an altered form of <name>, used by *)
(* no action: see Payments.                                                *)
(*                                                                         *)
(* create and update run inside a transaction that first takes an advisory *)
(* lock (lockCustomerRegistry, lockRegistry), then looks for a duplicate,   *)
(* then writes; under Read Committed every statement sees what others have *)
(* committed by then.  What update falls back on is read before the lock.  *)
(* A name stands for all its spellings: the comparison ignores case.       *)
(*                                                                         *)
(* The two registries share neither rows nor locks, so that a behaviour is  *)
(* about one of them: kind says which, from the initial state on.          *)
(***************************************************************************)
EXTENDS Naturals, Sequences, FiniteSets

CONSTANTS
    Ids,             \* ids of rows
    Names,           \* names, short or full
    Users,           \* users of the organization
    ReadAll,         \* users with customer.read_all
    Requests,        \* requests in flight
    None,            \* no id, nobody
    RequestedRows,   \* bound: sequences of rows that a request creates
    RequestedOwners, \* bound: sequences of users that a request names as owners
    MaxUsed          \* bound: how many rows are referred to at a time

NamePair == [name : Names, full : Names]

ASSUME RegistryAssumption ==
    /\ None \notin Names \cup Requests \cup Ids
    /\ IsFiniteSet(Ids)
    /\ ReadAll \subseteq Users
    /\ RequestedRows \subseteq Seq(NamePair)
    /\ RequestedOwners \subseteq Seq(Users) \ {<<>>}
    /\ MaxUsed \in Nat

VARIABLES
    kind,      \* the registry: of customers or of signing entities
    row,       \* the rows, with their owners
    lock,      \* who holds the advisory lock
    request,   \* what each request has read and still has to do
    used,      \* ids that rows with a restricting foreign key refer to
    referred,  \* ids that rows refer to that stay without them (SetNull)
    orphaned,  \* such a row has lost what it refers to, one request at a time
    gone,      \* users that have been deleted
    quiet      \* requests have come one after another

vars == <<kind, row, lock, request, used, referred, orphaned, gone, quiet>>

others == <<kind, used, referred, orphaned, gone>>

Row == [status : {"ABSENT", "LIVE", "DELETED"}, name : Names \cup {None},
        full : Names \cup {None}, code : Nat,
        owners : SUBSET Users, primary : SUBSET Users]

Idle == [op |-> "idle"]

Pending == {Idle}
    \cup [op : {"create"}, at : {"row", "lock", "check", "write"}, by : Users,
          id : Ids \cup {None}, code : Nat,
          rows : Seq(NamePair), owners : Seq(Users), made : SUBSET Ids]
    \cup [op : {"update"}, at : {"lock", "check", "write"}, by : Users, id : Ids,
          name : Names, full : Names,
          asked : [name : Names \cup {None}, full : Names \cup {None}]]
    \cup [op : {"remove"}, at : {"write"}, by : Users, id : Ids]
    \cup [op : {"owners"}, at : {"write"}, by : Users, id : Ids,
          owners : Seq(Users), seen : SUBSET Users]

TypeOK ==
    /\ kind \in {"customer", "entity"}
    /\ row \in [Ids -> Row]
    /\ lock \in Requests \cup {None}
    /\ request \in [Requests -> Pending]
    /\ used \in SUBSET Ids
    /\ referred \in SUBSET Ids
    /\ orphaned \in BOOLEAN
    /\ gone \in SUBSET Users
    /\ quiet \in BOOLEAN

Absent == [status |-> "ABSENT", name |-> None, full |-> None, code |-> 0,
           owners |-> {}, primary |-> {}]

Init ==
    /\ kind \in {"customer", "entity"}
    /\ row = [i \in Ids |-> Absent]
    /\ lock = None
    /\ request = [r \in Requests |-> Idle]
    /\ used = {}
    /\ referred = {}
    /\ orphaned = FALSE
    /\ gone = {}
    /\ quiet = TRUE

Live(i) == row[i].status = "LIVE"

(* A request comes: quiet while no other one is under way.                 *)
Arrive(r, first) ==
    /\ request[r] = Idle
    /\ request' = [request EXCEPT ![r] = first]
    /\ quiet' = (quiet /\ \A q \in Requests : request[q] = Idle)

Go(r, next) ==
    /\ request' = [request EXCEPT ![r] = next]
    /\ UNCHANGED quiet

Unlock(r) == lock' = IF lock = r THEN None ELSE lock

-----------------------------------------------------------------------------
(* Who may touch a customer.                                               *)

(* ensureCustomerAccess; signing entities belong to everybody.             *)
Accessible(u, i) ==
    /\ Live(i)
    /\ kind = "customer" => u \in ReadAll \/ u \in row[i].owners

(* ownerIds names nobody twice, and the caller where the request names      *)
(* nobody; ensureOwnerAssignmentAllowed.                                   *)
OwnersAllowed(u, owners) == u \in ReadAll \/ owners = <<u>>

Named(owners) == {owners[k] : k \in DOMAIN owners}

(* ensureUsersInOrg.                                                       *)
UsersInOrg(owners) == Named(owners) \cap gone = {}

-----------------------------------------------------------------------------
(* create and import.                                                      *)

BeginCreateCustomers(r, u, rows, owners) ==
    /\ kind = "customer"
    /\ u \notin gone
    /\ rows # <<>>
    /\ OwnersAllowed(u, owners)
    /\ Arrive(r, [op |-> "create", at |-> "row", by |-> u, id |-> None,
                  code |-> 0, rows |-> rows, owners |-> owners, made |-> {}])
    /\ UNCHANGED <<row, lock, others>>

BeginCreateEntity(r, u, rows) ==
    /\ kind = "entity"
    /\ u \notin gone
    /\ Len(rows) = 1
    /\ Arrive(r, [op |-> "create", at |-> "row", by |-> u, id |-> None,
                  code |-> 0, rows |-> rows, owners |-> <<>>, made |-> {}])
    /\ UNCHANGED <<row, lock, others>>

(* The loop of an import: each row is a create of its own.                 *)
TakeRow(r, i) ==
    LET job == request[r]
    IN /\ job.op = "create"
       /\ job.at = "row"
       /\ job.rows # <<>>
       /\ row[i].status = "ABSENT"
       /\ \A q \in Requests : request[q].op = "create" => request[q].id # i
       /\ Go(r, [job EXCEPT !.at = "lock", !.id = i])
       /\ UNCHANGED <<row, lock, others>>

(* lockCustomerRegistry and lockRegistry.                                  *)
TakeLock(r) ==
    LET job == request[r]
    IN /\ job # Idle
       /\ job.at = "lock"
       /\ lock = None
       /\ lock' = r
       /\ Go(r, [job EXCEPT !.at = "check"])
       /\ UNCHANGED <<row, others>>

(* Altered: names are compared with names, full names with full names.     *)
Clash_Likewise(i, name, full) ==
    \E j \in Ids \ {i} : Live(j) /\ (row[j].name = name \/ row[j].full = full)

(* ensureCustomerUnique and ensureUnique: a short name is compared with     *)
(* full names too.                                                         *)
Clash(i, name, full) ==
    \E j \in Ids \ {i} :
      Live(j) /\ {row[j].name, row[j].full} \cap {name, full} # {}

Codes == {row[i].code : i \in {i \in Ids : Live(i)}}

(* Altered: the rows are counted.                                          *)
NextCode_Counted == Cardinality(Codes) + 1

(* nextCustomerCode and nextCode: one more than the largest.               *)
NextCode ==
    IF Codes = {} THEN 1 ELSE 1 + CHOOSE n \in Codes : \A m \in Codes : m <= n

(* The row is done, well or not: the next one.                             *)
RowDone(r, made) ==
    LET job == request[r]
    IN Go(r, [job EXCEPT !.at = "row", !.id = None, !.code = 0,
                         !.rows = Tail(@), !.made = made])

(* A transaction that throws: an import notes the error and goes on.       *)
FailCreate(r) ==
    LET job == request[r]
    IN /\ job.op = "create"
       /\ job.at = "check"
       /\ \/ ~UsersInOrg(job.owners)
          \/ Clash(job.id, Head(job.rows).name, Head(job.rows).full)
       /\ RowDone(r, job.made)
       /\ Unlock(r)
       /\ UNCHANGED <<row, others>>

CheckCreate(r) ==
    LET job == request[r]
    IN /\ job.op = "create"
       /\ job.at = "check"
       /\ UsersInOrg(job.owners)
       /\ ~Clash(job.id, Head(job.rows).name, Head(job.rows).full)
       /\ Go(r, [job EXCEPT !.at = "write", !.code = NextCode])
       /\ UNCHANGED <<row, lock, others>>

(* The first owner is the primary one.                                     *)
First(owners) == IF owners = <<>> THEN {} ELSE {Head(owners)}

(* The insert, unless the code is taken (unique index) or an owner has gone *)
(* (foreign key); the commit releases the lock.                            *)
Insert(r) ==
    LET job == request[r]
    IN /\ job.op = "create"
       /\ job.at = "write"
       /\ job.code \notin Codes
       /\ UsersInOrg(job.owners)
       /\ row' = [row EXCEPT ![job.id] =
                    [status |-> "LIVE", name |-> Head(job.rows).name,
                     full |-> Head(job.rows).full, code |-> job.code,
                     owners |-> Named(job.owners), primary |-> First(job.owners)]]
       /\ RowDone(r, job.made \cup {job.id})
       /\ Unlock(r)
       /\ UNCHANGED others

(* Altered: the error of a row is taken for its answer.                    *)
FailInsert_Reported(r) ==
    LET job == request[r]
    IN /\ job.op = "create"
       /\ job.at = "write"
       /\ job.code \in Codes \/ ~UsersInOrg(job.owners)
       /\ RowDone(r, job.made \cup {job.id})
       /\ Unlock(r)
       /\ UNCHANGED <<row, others>>

FailInsert(r) ==
    LET job == request[r]
    IN /\ job.op = "create"
       /\ job.at = "write"
       /\ job.code \in Codes \/ ~UsersInOrg(job.owners)
       /\ RowDone(r, job.made)
       /\ Unlock(r)
       /\ UNCHANGED <<row, others>>

(* The answer says which rows have been created.                           *)
Respond(r) ==
    /\ request[r].op = "create"
    /\ request[r].at = "row"
    /\ request[r].rows = <<>>
    /\ Go(r, Idle)
    /\ UNCHANGED <<row, lock, others>>

-----------------------------------------------------------------------------
(* update.                                                                 *)

(* Altered: what the request leaves out is left out of the row.            *)
BeginUpdate_AsSent(r, u, i, name, full) ==
    /\ u \notin gone
    /\ Accessible(u, i)
    /\ Arrive(r, [op |-> "update", at |-> "lock", by |-> u, id |-> i,
                  name |-> name, full |-> full, asked |-> [name |-> name, full |-> full]])
    /\ UNCHANGED <<row, lock, others>>

(* Altered: a full name that is left out becomes the name.                 *)
BeginUpdate_FullFollows(r, u, i, name, full) ==
    LET newName == IF name = None THEN row[i].name ELSE name
        newFull == IF full = None THEN newName ELSE full
    IN /\ u \notin gone
       /\ Accessible(u, i)
       /\ Arrive(r, [op |-> "update", at |-> "lock", by |-> u, id |-> i,
                     name |-> newName, full |-> newFull,
                     asked |-> [name |-> name, full |-> full]])
       /\ UNCHANGED <<row, lock, others>>

(* What the request leaves out is taken from the row, read before the lock. *)
BeginUpdate(r, u, i, name, full) ==
    LET newName == IF name = None THEN row[i].name ELSE name
        newFull == IF full = None THEN row[i].full ELSE full
    IN /\ u \notin gone
       /\ Accessible(u, i)
       /\ Arrive(r, [op |-> "update", at |-> "lock", by |-> u, id |-> i,
                     name |-> newName, full |-> newFull,
                     asked |-> [name |-> name, full |-> full]])
       /\ UNCHANGED <<row, lock, others>>

CheckUpdate(r) ==
    LET job == request[r]
    IN /\ job.op = "update"
       /\ job.at = "check"
       /\ ~Clash(job.id, job.name, job.full)
       /\ Go(r, [job EXCEPT !.at = "write"])
       /\ UNCHANGED <<row, lock, others>>

WriteUpdate(r) ==
    LET job == request[r]
    IN /\ job.op = "update"
       /\ job.at = "write"
       /\ Live(job.id)
       /\ row' = [row EXCEPT ![job.id].name = job.name, ![job.id].full = job.full]
       /\ Go(r, Idle)
       /\ Unlock(r)
       /\ UNCHANGED others

-----------------------------------------------------------------------------
(* setOwners.                                                              *)

BeginSetOwners(r, u, c, owners) ==
    /\ kind = "customer"
    /\ u \notin gone
    /\ Accessible(u, c)
    /\ u \in ReadAll
    /\ UsersInOrg(owners)
    /\ Arrive(r, [op |-> "owners", at |-> "write", by |-> u, id |-> c,
                  owners |-> owners, seen |-> row[c].owners])
    /\ UNCHANGED <<row, lock, others>>

(* Altered: owners who stay are left as they are.                          *)
WriteOwners_Added(r) ==
    LET job == request[r]
    IN /\ job.op = "owners"
       /\ Live(job.id)
       /\ UsersInOrg(job.owners)
       /\ row' = [row EXCEPT
                    ![job.id].owners = @ \cup Named(job.owners),
                    ![job.id].primary = @ \cup First(job.owners)]
       /\ Go(r, Idle)
       /\ UNCHANGED <<lock, others>>

(* deleteMany removes the rows it has seen, createMany fails where one of   *)
(* its rows exists by then.                                                *)
WriteOwners(r) ==
    LET job == request[r]
        rest == row[job.id].owners \ job.seen
    IN /\ job.op = "owners"
       /\ Live(job.id)
       /\ UsersInOrg(job.owners)
       /\ rest \cap Named(job.owners) = {}
       /\ row' = [row EXCEPT
                    ![job.id].owners = rest \cup Named(job.owners),
                    ![job.id].primary = (@ \cap rest) \cup First(job.owners)]
       /\ Go(r, Idle)
       /\ UNCHANGED <<lock, others>>

-----------------------------------------------------------------------------
(* remove.                                                                 *)

(* What is counted: for a customer also the payment requests, for a signing *)
(* entity the contracts only, not the bills.                               *)
Counted == IF kind = "customer" THEN used \cup referred ELSE used

(* Altered: payment requests are not counted.                              *)
BeginRemove_NotAsked(r, u, i) ==
    /\ u \notin gone
    /\ Accessible(u, i)
    /\ i \notin used
    /\ Arrive(r, [op |-> "remove", at |-> "write", by |-> u, id |-> i])
    /\ UNCHANGED <<row, lock, others>>

(* Altered: the access is not checked.                                     *)
BeginRemove_Anybody(r, u, i) ==
    /\ u \notin gone
    /\ Live(i)
    /\ i \notin Counted
    /\ Arrive(r, [op |-> "remove", at |-> "write", by |-> u, id |-> i])
    /\ UNCHANGED <<row, lock, others>>

BeginRemove(r, u, i) ==
    /\ u \notin gone
    /\ Accessible(u, i)
    /\ i \notin Counted
    /\ Arrive(r, [op |-> "remove", at |-> "write", by |-> u, id |-> i])
    /\ UNCHANGED <<row, lock, others>>

(* What contracts, bills, extra charges or cost entries refer to is not     *)
(* deleted; owners go with the row; payment requests, and the bills of a    *)
(* signing entity, stay without it.                                        *)
WriteRemove(r) ==
    LET i == request[r].id
    IN /\ request[r].op = "remove"
       /\ Live(i)
       /\ i \notin used
       /\ row' = [row EXCEPT ![i] = [Absent EXCEPT !.status = "DELETED"]]
       /\ referred' = referred \ {i}
       /\ orphaned' = (orphaned \/ (quiet /\ i \in referred))
       /\ Go(r, Idle)
       /\ UNCHANGED <<kind, lock, used, gone>>

(* A request is refused or fails, or the process stops: the transaction is  *)
(* rolled back, and what an import has already created stays.              *)
Abandon(r) ==
    /\ request[r] # Idle
    /\ Go(r, Idle)
    /\ Unlock(r)
    /\ UNCHANGED <<row, others>>

-----------------------------------------------------------------------------
(* The rest of the system, one request each.                               *)

Elsewhere ==
    /\ quiet' = (quiet /\ \A q \in Requests : request[q] = Idle)
    /\ UNCHANGED <<kind, lock, request>>

(* A contract is created, or for a customer a bill, an extra charge or a    *)
(* cost entry.                                                             *)
Use(i) ==
    /\ Live(i)
    /\ Cardinality(used \cup referred \cup {i}) <= MaxUsed
    /\ used' = used \cup {i}
    /\ Elsewhere
    /\ UNCHANGED <<row, referred, orphaned, gone>>

(* The last of them is removed again.                                      *)
Release(i) ==
    /\ i \in used
    /\ used' = used \ {i}
    /\ Elsewhere
    /\ UNCHANGED <<row, referred, orphaned, gone>>

(* A payment request names a customer, a bill a signing entity.            *)
Refer(i) ==
    /\ Live(i)
    /\ Cardinality(used \cup referred \cup {i}) <= MaxUsed
    /\ referred' = referred \cup {i}
    /\ Elsewhere
    /\ UNCHANGED <<row, used, orphaned, gone>>

(* deleteUser: the rows of the owner go with the user.                     *)
UserLeaves(u) ==
    /\ kind = "customer"
    /\ u \notin gone \cup ReadAll
    /\ gone' = gone \cup {u}
    /\ row' = [i \in Ids |-> [row[i] EXCEPT !.owners = @ \ {u}, !.primary = @ \ {u}]]
    /\ Elsewhere
    /\ UNCHANGED <<used, referred, orphaned>>

-----------------------------------------------------------------------------
Step(r) ==
    \/ \E i \in Ids : TakeRow(r, i)
    \/ TakeLock(r)
    \/ CheckCreate(r)
    \/ FailCreate(r)
    \/ Insert(r)
    \/ FailInsert(r)
    \/ Respond(r)
    \/ CheckUpdate(r)
    \/ WriteUpdate(r)
    \/ WriteOwners(r)
    \/ WriteRemove(r)
    \/ Abandon(r)

Begin(r, u) ==
    \/ \E rows \in RequestedRows, owners \in RequestedOwners :
         BeginCreateCustomers(r, u, rows, owners)
    \/ \E rows \in RequestedRows : BeginCreateEntity(r, u, rows)
    \/ \E i \in Ids, name, full \in Names \cup {None} : BeginUpdate(r, u, i, name, full)
    \/ \E c \in Ids, owners \in RequestedOwners : BeginSetOwners(r, u, c, owners)
    \/ \E i \in Ids : BeginRemove(r, u, i)

Next ==
    \/ \E r \in Requests : Step(r) \/ \E u \in Users : Begin(r, u)
    \/ \E i \in Ids : Use(i) \/ Release(i) \/ Refer(i)
    \/ \E u \in Users : UserLeaves(u)

Spec == Init /\ [][Next]_vars
-----------------------------------------------------------------------------
(* Properties.                                                             *)

(* No two customers, and no two signing entities, share a name, short or    *)
(* full, however creations, imports and updates overlap, although update   *)
(* falls back on names it has read before it holds the lock.               *)
NamesUnique ==
    \A i \in Ids : \A j \in Ids \ {i} :
      Live(i) /\ Live(j) =>
        {row[i].name, row[i].full} \cap {row[j].name, row[j].full} = {}

(* The code that a transaction has worked out is still free when it writes, *)
(* so that no creation fails for its code; no two rows share one.          *)
CodesFree ==
    /\ \A r \in Requests :
         request[r].op = "create" /\ request[r].at = "write" =>
           request[r].code \notin Codes
    /\ \A i \in Ids : \A j \in Ids \ {i} :
         Live(i) /\ Live(j) => row[i].code # row[j].code

(* One request at a time: no payment request loses its customer.           *)
PaymentRequestsKeepCustomer == kind = "customer" => ~orphaned

(* One request at a time: a customer has exactly one primary owner, until   *)
(* that user is deleted.                                                   *)
OnePrimaryOwner ==
    quiet /\ kind = "customer" => \A c \in Ids : Live(c) =>
      /\ row[c].primary \subseteq row[c].owners
      /\ Cardinality(row[c].primary) <= 1
      /\ gone = {} => row[c].primary # {}

(* One request at a time: a customer is renamed, reassigned or removed only *)
(* for a user who may see all customers or owns it.                        *)
OwnersChange ==
    [][quiet /\ quiet' /\ kind = "customer" =>
         \A c \in Ids : Live(c) /\ row'[c] # row[c] /\ gone' = gone =>
           \E r \in Requests :
             /\ request'[r] # request[r]
             /\ request[r].by \in ReadAll \/ request[r].by \in row[c].owners]_vars

Asked(i, names) ==
    \E r \in Requests : /\ request[r].op = "update"
                        /\ request[r].id = i
                        /\ request[r].asked = names

(* One request at a time: a name changes only to one that a request has     *)
(* asked for, in the same place.                                           *)
NamesAsAsked ==
    [][quiet /\ quiet' =>
         \A i \in Ids : Live(i) /\ row'[i].status = "LIVE" =>
           \E name, full \in Names \cup {None} :
             /\ \/ <<name, full>> = <<None, None>>
                \/ Asked(i, [name |-> name, full |-> full])
             /\ row'[i].name \in {row[i].name, name}
             /\ row'[i].full \in {row[i].full, full}]_vars

(* An import answers after every row, and what it says it has created is    *)
(* registered, unless another request has removed it since.                *)
ImportAnswersAll ==
    \A r \in Requests : request[r].op = "create" =>
      /\ \A i \in request[r].made : row[i].status # "ABSENT"
      /\ quiet => \A i \in request[r].made : Live(i)
=============================================================================
