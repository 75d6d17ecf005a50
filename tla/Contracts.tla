----------------------------- MODULE Contracts -----------------------------
(***************************************************************************)
(* Contracts with their codes, charge items and attached files             *)
(* (ContractsService), and what refers to them: bills and extra charges.   *)
(* A definition named <name>_<change> is an altered form of <name>, used by *)
(* no action: see Payments.                                                *)
(*                                                                         *)
(* create takes an advisory lock per year before it looks for the next      *)
(* code.  update reads the contract before its transaction; in it the first *)
(* UPDATE locks the contract's row until the commit, then the base fee is   *)
(* carried over to a charge item and the files are attached.  Charge items  *)
(* are added, edited and ended, and bills generated (BillGeneration),       *)
(* without asking for that row lock.                                       *)
(***************************************************************************)
EXTENDS Naturals, Sequences, FiniteSets

CONSTANTS
    Ids,             \* ids of contracts
    Customers,       \* customers
    Years,           \* years in which contracts start, of two digits
    Files,           \* ids of attachments
    Users,           \* users who may write contracts
    Requests,        \* requests in flight
    None,            \* nobody, no contract
    Fees,            \* amounts of charge items
    NoFee,           \* the request names no base fee
    MaxItems,        \* bound: charge items that are ever made
    Priced,          \* bound: contracts that have charge items
    MaxUsed,         \* bound: contracts that bills or extra charges refer to
    Given,           \* bound: what requests say of charge items
    OwnLists,        \* bound: lists of charge items that a creation brings
    RequestedFiles   \* bound: sets of files that a request attaches

(* What a request says of a charge item: whether it has the base fee's name, *)
(* whether its kind is FIXED, whether it is active, and its amount.         *)
Data == [base : BOOLEAN, fixed : BOOLEAN, active : BOOLEAN, amount : Fees]

ASSUME ContractsAssumption ==
    /\ None \notin Ids \cup Users \cup Requests \cup Customers
    /\ IsFiniteSet(Ids)
    /\ NoFee \notin Fees
    /\ MaxItems \in Nat
    /\ Priced \subseteq Ids
    /\ MaxUsed \in Nat
    /\ RequestedFiles \subseteq SUBSET Files
    /\ Given \subseteq Data
    /\ OwnLists \subseteq Seq(Data)

VARIABLES
    contract,  \* the rows of contracts
    items,     \* charge items, in the order of their creation
    file,      \* attachments: who has uploaded them, and their contract
    charges,   \* extra charges of a contract, by customer
    billed,    \* contracts with bills
    codeLock,  \* who holds the advisory lock of a year
    rowLock,   \* who holds the lock of a contract's row
    request,   \* what each request has read and still has to do
    named,     \* contracts whose requests have named items after the base fee
    met        \* contracts written while another request for them was under way

vars == <<contract, items, file, charges, billed, codeLock, rowLock, request, named, met>>

Contract == [status : {"ABSENT", "LIVE", "DELETED"}, customer : Customers \cup {None},
             year : Years \cup {None}, code : Nat]

(* Rows of charge items: whether they were created with their contract, and *)
(* whether bills use them.                                                 *)
Item == [contract : Ids, initial : BOOLEAN, used : BOOLEAN,
         base : BOOLEAN, fixed : BOOLEAN, active : BOOLEAN, amount : Fees]

Idle == [op |-> "idle"]

Pending == {Idle}
    \cup [op : {"create"}, at : {"lock", "write"}, by : Users, id : Ids,
          customer : Customers, year : Years, code : Nat, files : SUBSET Files,
          list : Seq(Data)]
    \cup [op : {"update"}, at : {"lock", "read", "write"}, by : Users, id : Ids,
          customer : Customers, fee : Fees \cup {NoFee}, files : SUBSET Files,
          item : 0 .. MaxItems, used : BOOLEAN]
    \cup [op : {"remove"}, at : {"write"}, by : Users, id : Ids]
    \cup [op : {"item"}, at : {"write"}, by : Users, id : Ids, item : 1 .. MaxItems,
          to : Data]

TypeOK ==
    /\ contract \in [Ids -> Contract]
    /\ items \in Seq(Item)
    /\ Len(items) <= MaxItems
    /\ file \in [Files -> [by : Users \cup {None}, contract : Ids \cup {None}]]
    /\ charges \in [Ids -> SUBSET Customers]
    /\ billed \in SUBSET Ids
    /\ codeLock \in [Years -> Requests \cup {None}]
    /\ rowLock \in [Ids -> Requests \cup {None}]
    /\ request \in [Requests -> Pending]
    /\ named \in SUBSET Ids
    /\ met \in SUBSET Ids

Absent == [status |-> "ABSENT", customer |-> None, year |-> None, code |-> 0]

Init ==
    /\ contract = [k \in Ids |-> Absent]
    /\ items = <<>>
    /\ file = [f \in Files |-> [by |-> None, contract |-> None]]
    /\ charges = [k \in Ids |-> {}]
    /\ billed = {}
    /\ codeLock = [y \in Years |-> None]
    /\ rowLock = [k \in Ids |-> None]
    /\ request = [r \in Requests |-> Idle]
    /\ named = {}
    /\ met = {}

Live(k) == contract[k].status = "LIVE"

(* Requests for k that are under way, but r.                               *)
Others(r, k) == {q \in Requests \ {r} : request[q] # Idle /\ request[q].id = k}

(* Request r (None: one that is a single transaction) writes at contract k. *)
Meets(r, k) == met' = IF Others(r, k) = {} THEN met ELSE met \cup {k}

Arrive(r, first) ==
    /\ request[r] = Idle
    /\ request' = [request EXCEPT ![r] = first]
    /\ UNCHANGED <<contract, items, file, charges, billed, codeLock, rowLock, named, met>>

Go(r, next) ==
    /\ request' = [request EXCEPT ![r] = next]
    /\ UNCHANGED <<contract, items, file, charges, billed, named, met>>

Freed(locks, r) == [x \in DOMAIN locks |-> IF locks[x] = r THEN None ELSE locks[x]]

(* The end of a transaction: its locks are free.                           *)
Commit(r) ==
    /\ request' = [request EXCEPT ![r] = Idle]
    /\ codeLock' = Freed(codeLock, r)
    /\ rowLock' = Freed(rowLock, r)

-----------------------------------------------------------------------------
(* Charge items and files.                                                 *)

ItemsOf(k) == {n \in DOMAIN items : items[n].contract = k}

Row(k, initial, data) ==
    [contract |-> k, initial |-> initial, used |-> FALSE, base |-> data.base,
     fixed |-> data.fixed, active |-> data.active, amount |-> data.amount]

BaseFee(fee) == [base |-> TRUE, fixed |-> TRUE, active |-> TRUE, amount |-> fee]

BaseItem(k, fee) == Row(k, FALSE, BaseFee(fee))

(* An item that charges the base fee.                                      *)
Carries(item) == item.base /\ item.fixed /\ item.active

(* The first of some items of a contract: those created with the contract   *)
(* have the same createdAt.                                                *)
Earliest(S) ==
    {n \in S : \A m \in S : n <= m \/ (items[n].initial /\ items[m].initial)}

(* The item that an update of the base fee may find: the first that carries *)
(* it, else the first active one of a fixed amount; 0 for none.            *)
BaseOf(k) ==
    LET fixed == {n \in ItemsOf(k) : items[n].fixed /\ items[n].active}
        base == {n \in fixed : items[n].base}
    IN IF fixed = {} THEN {0}
       ELSE IF base = {} THEN Earliest(fixed) ELSE Earliest(base)

(* syncBaseFeeChargeItem: an item that bills use is ended and replaced; of  *)
(* another one the name and the amount are written, not the kind.          *)
Synced(k, n, used, fee) ==
    CASE fee = NoFee -> items
      [] fee # NoFee /\ n = 0 -> Append(items, BaseItem(k, fee))
      [] fee # NoFee /\ n # 0 /\ used ->
           Append([items EXCEPT ![n].active = FALSE], BaseItem(k, fee))
      [] fee # NoFee /\ n # 0 /\ ~used ->
           [items EXCEPT ![n].amount = fee, ![n].base = TRUE]

(* attachFiles: files that the user has uploaded, whatever they belong to,  *)
(* or that are the contract's already.                                     *)
Attachable(u, k, fs) == \A f \in fs : file[f].by = u \/ file[f].contract = k

Attached(k, fs) ==
    [f \in Files |-> IF f \in fs THEN [file[f] EXCEPT !.contract = k] ELSE file[f]]

(* createAttachment and createAttachmentUploadUrl, for a contract or for    *)
(* none yet.                                                               *)
Upload(u, f, k) ==
    /\ file[f].by = None
    /\ k # None => Live(k)
    /\ file' = [file EXCEPT ![f] = [by |-> u, contract |-> k]]
    /\ UNCHANGED <<contract, items, charges, billed, codeLock, rowLock, request, named, met>>

-----------------------------------------------------------------------------
(* create.                                                                 *)

(* contractChargeItems: without items of its own, the contract gets one for *)
(* its base fee.                                                           *)
Requested(fee, own) ==
    IF own # <<>> THEN own ELSE IF fee = NoFee THEN <<>> ELSE <<BaseFee(fee)>>

BeginCreate(r, u, k, c, y, fee, fs, own) ==
    /\ contract[k].status = "ABSENT"
    /\ \A q \in Requests : request[q].op = "create" => request[q].id # k
    /\ fs # {}
    /\ Requested(fee, own) # <<>> => k \in Priced
    /\ Arrive(r, [op |-> "create", at |-> "lock", by |-> u, id |-> k, customer |-> c,
                  year |-> y, code |-> 0, files |-> fs, list |-> Requested(fee, own)])

Codes(y) == {contract[k].code : k \in {k \in Ids : Live(k) /\ contract[k].year = y}}

(* nextContractCode: one more than the largest of the year.                *)
NextCode(y) ==
    IF Codes(y) = {} THEN 1
    ELSE 1 + CHOOSE n \in Codes(y) : \A m \in Codes(y) : m <= n

(* Altered: the code is worked out before the lock is taken.               *)
TakeCode_Early(r) ==
    LET job == request[r]
    IN /\ job.op = "create"
       /\ job.at = "lock"
       /\ Go(r, [job EXCEPT !.at = "write", !.code = NextCode(job.year)])
       /\ UNCHANGED <<codeLock, rowLock>>

TakeCode(r) ==
    LET job == request[r]
    IN /\ job.op = "create"
       /\ job.at = "lock"
       /\ codeLock[job.year] = None
       /\ codeLock' = [codeLock EXCEPT ![job.year] = r]
       /\ Go(r, [job EXCEPT !.at = "write", !.code = NextCode(job.year)])
       /\ UNCHANGED rowLock

Several(list) ==
    \E i, j \in DOMAIN list : i # j /\ Carries(list[i]) /\ Carries(list[j])

Create(r) ==
    LET job == request[r]
    IN /\ job.op = "create"
       /\ job.at = "write"
       /\ job.code \notin Codes(job.year)
       /\ Attachable(job.by, job.id, job.files)
       /\ Len(items) + Len(job.list) <= MaxItems
       /\ contract' = [contract EXCEPT ![job.id] =
            [status |-> "LIVE", customer |-> job.customer, year |-> job.year,
             code |-> job.code]]
       /\ items' = items \o [i \in DOMAIN job.list |-> Row(job.id, TRUE, job.list[i])]
       /\ named' = IF Several(job.list) THEN named \cup {job.id} ELSE named
       /\ file' = Attached(job.id, job.files)
       /\ Commit(r)
       /\ UNCHANGED <<charges, billed, met>>

-----------------------------------------------------------------------------
(* update.                                                                 *)

(* Altered: what the request leaves out is written as such.                *)
BeginUpdate_AsSent(r, u, k, c, fee, fs) ==
    /\ Live(k)
    /\ fee # NoFee => k \in Priced
    /\ Arrive(r, [op |-> "update", at |-> "lock", by |-> u, id |-> k, customer |-> c,
                  fee |-> fee, files |-> fs, item |-> 0, used |-> FALSE])

(* What the request leaves out (None) is taken from the contract now.      *)
BeginUpdate(r, u, k, c, fee, fs) ==
    /\ Live(k)
    /\ fee # NoFee => k \in Priced
    /\ Arrive(r, [op |-> "update", at |-> "lock", by |-> u, id |-> k,
                  customer |-> IF c = None THEN contract[k].customer ELSE c,
                  fee |-> fee, files |-> fs, item |-> 0, used |-> FALSE])

(* Altered: the contract's row is written last.                            *)
LockRow_Last(r) ==
    LET job == request[r]
    IN /\ job.op = "update"
       /\ job.at = "lock"
       /\ Live(job.id)
       /\ Go(r, [job EXCEPT !.at = "read"])
       /\ UNCHANGED <<codeLock, rowLock>>

(* tx.contract.update waits for the row.                                   *)
LockRow(r) ==
    LET job == request[r]
    IN /\ job.op = "update"
       /\ job.at = "lock"
       /\ Live(job.id)
       /\ rowLock[job.id] = None
       /\ rowLock' = [rowLock EXCEPT ![job.id] = r]
       /\ Go(r, [job EXCEPT !.at = IF job.fee = NoFee THEN "write" ELSE "read"])
       /\ UNCHANGED codeLock

(* Altered: the bills are not counted.                                     *)
ReadItem_Unbilled(r) ==
    LET job == request[r]
    IN /\ job.op = "update"
       /\ job.at = "read"
       /\ \E n \in BaseOf(job.id) :
            Go(r, [job EXCEPT !.at = "write", !.item = n, !.used = FALSE])
       /\ UNCHANGED <<codeLock, rowLock>>

(* The item, and whether bills use it.                                     *)
ReadItem(r) ==
    LET job == request[r]
    IN /\ job.op = "update"
       /\ job.at = "read"
       /\ \E n \in BaseOf(job.id) :
            Go(r, [job EXCEPT !.at = "write", !.item = n,
                              !.used = n # 0 /\ items[n].used])
       /\ UNCHANGED <<codeLock, rowLock>>

Update(r) ==
    LET job == request[r]
    IN /\ job.op = "update"
       /\ job.at = "write"
       /\ Attachable(job.by, job.id, job.files)
       /\ Len(Synced(job.id, job.item, job.used, job.fee)) <= MaxItems
       /\ contract' = [contract EXCEPT ![job.id].customer = job.customer]
       /\ items' = Synced(job.id, job.item, job.used, job.fee)
       /\ file' = Attached(job.id, job.files)
       /\ Commit(r)
       /\ Meets(r, job.id)
       /\ UNCHANGED <<charges, billed, named>>

-----------------------------------------------------------------------------
(* remove.                                                                 *)

(* An item that is deleted: switched off here, to keep the order of others. *)
Gone(item) ==
    [item EXCEPT !.base = FALSE, !.fixed = FALSE, !.active = FALSE, !.used = FALSE,
                 !.initial = FALSE]

(* Altered: extra charges are not counted.                                 *)
BeginRemove_Charged(r, u, k) ==
    /\ Live(k)
    /\ k \notin billed
    /\ Arrive(r, [op |-> "remove", at |-> "write", by |-> u, id |-> k])

(* Bills and extra charges are counted.                                    *)
BeginRemove(r, u, k) ==
    /\ Live(k)
    /\ k \notin billed
    /\ charges[k] = {}
    /\ Arrive(r, [op |-> "remove", at |-> "write", by |-> u, id |-> k])

Forget(k) == named' = named \ {k} /\ met' = met \ {k}

(* The rows of the files and of the items go too; a bill or an extra charge *)
(* made since the count stays without its contract (SetNull).              *)
Remove(r) ==
    LET k == request[r].id
    IN /\ request[r].op = "remove"
       /\ Live(k)
       /\ rowLock[k] = None
       /\ contract' = [contract EXCEPT ![k] = [Absent EXCEPT !.status = "DELETED"]]
       /\ items' = [n \in DOMAIN items |->
                      IF items[n].contract = k THEN Gone(items[n]) ELSE items[n]]
       /\ file' = [f \in Files |-> IF file[f].contract = k
                                   THEN [by |-> None, contract |-> None] ELSE file[f]]
       /\ billed' = billed \ {k}
       /\ charges' = [charges EXCEPT ![k] = {}]
       /\ Forget(k)
       /\ Commit(r)

-----------------------------------------------------------------------------
(* Charge items.                                                           *)

Elsewhere(k) ==
    /\ Meets(None, k)
    /\ UNCHANGED <<contract, file, codeLock, rowLock, request>>

(* A request names an item after the base fee, or makes one of that name    *)
(* active or FIXED (again).                                                *)
Names(k, was, data) ==
    named' = IF ~was /\ Carries(data) THEN named \cup {k} ELSE named

(* addChargeItem: any name, kind and activity.                             *)
AddItem(k, data) ==
    /\ Live(k)
    /\ k \in Priced
    /\ Len(items) < MaxItems
    /\ items' = Append(items, Row(k, FALSE, data))
    /\ Names(k, FALSE, data)
    /\ Elsewhere(k)
    /\ UNCHANGED <<charges, billed>>

(* What an update asks for that gives everything, or the amount alone: what *)
(* it leaves out is taken from the item as it is now.                      *)
Asked(n, data) ==
    {data, [base |-> items[n].base, fixed |-> items[n].fixed,
            active |-> items[n].active, amount |-> data.amount]}

(* updateChargeItem: ensureChargeItemEditable counts the bills first.       *)
BeginUpdateItem(r, u, n, data) ==
  \E to \in Asked(n, data) :
    /\ Live(items[n].contract)
    /\ ~items[n].used
    /\ Arrive(r, [op |-> "item", at |-> "write", by |-> u, id |-> items[n].contract,
                  item |-> n, to |-> to])

(* Name, kind, amount and activity are all written.                        *)
Edited(item, to) ==
    [item EXCEPT !.base = to.base, !.fixed = to.fixed, !.active = to.active,
                 !.amount = to.amount]

UpdateItem(r) ==
    LET job == request[r]
    IN /\ job.op = "item"
       /\ Live(job.id)
       /\ items' = [items EXCEPT ![job.item] = Edited(@, job.to)]
       /\ Names(job.id, Carries(items[job.item]), job.to)
       /\ Commit(r)
       /\ Meets(r, job.id)
       /\ UNCHANGED <<contract, file, charges, billed>>

DeactivateItem(n) ==
    /\ Live(items[n].contract)
    /\ items' = [items EXCEPT ![n].active = FALSE]
    /\ Elsewhere(items[n].contract)
    /\ UNCHANGED <<charges, billed, named>>

(* A request is refused or fails, or the process stops.                    *)
Abandon(r) ==
    /\ request[r] # Idle
    /\ Commit(r)
    /\ UNCHANGED <<contract, items, file, charges, billed, named, met>>

-----------------------------------------------------------------------------
(* Bills and extra charges: see BillGeneration.                            *)

UsedWith(k) == {k} \cup billed \cup {l \in Ids : charges[l] # {}}

Bill(k) ==
    /\ Live(k)
    /\ Cardinality(UsedWith(k)) <= MaxUsed
    /\ billed' = billed \cup {k}
    /\ items' = [n \in DOMAIN items |->
                   IF items[n].contract = k /\ items[n].active
                   THEN [items[n] EXCEPT !.used = TRUE] ELSE items[n]]
    /\ Elsewhere(k)
    /\ UNCHANGED <<charges, named>>

(* ensureContractForCustomer: the charge's customer is the contract's.     *)
Charge(k) ==
    /\ Live(k)
    /\ Cardinality(UsedWith(k)) <= MaxUsed
    /\ charges' = [charges EXCEPT ![k] = @ \cup {contract[k].customer}]
    /\ Elsewhere(k)
    /\ UNCHANGED <<items, billed, named>>

-----------------------------------------------------------------------------
Begin(r, u) ==
    \/ \E k \in Ids, c \in Customers, y \in Years, fee \in Fees \cup {NoFee},
          fs \in RequestedFiles, own \in OwnLists :
         BeginCreate(r, u, k, c, y, fee, fs, own)
    \/ \E k \in Ids, c \in Customers \cup {None}, fee \in Fees \cup {NoFee},
          fs \in RequestedFiles : BeginUpdate(r, u, k, c, fee, fs)
    \/ \E k \in Ids : BeginRemove(r, u, k)
    \/ \E n \in DOMAIN items, data \in Given : BeginUpdateItem(r, u, n, data)

Step(r) ==
    \/ TakeCode(r)
    \/ Create(r)
    \/ LockRow(r)
    \/ ReadItem(r)
    \/ Update(r)
    \/ Remove(r)
    \/ UpdateItem(r)
    \/ Abandon(r)

Next ==
    \/ \E r \in Requests : Step(r) \/ \E u \in Users : Begin(r, u)
    \/ \E u \in Users, f \in Files, k \in Ids \cup {None} : Upload(u, f, k)
    \/ \E k \in Ids, data \in Given : AddItem(k, data)
    \/ \E n \in DOMAIN items : DeactivateItem(n)
    \/ \E k \in Ids : Bill(k) \/ Charge(k)

Spec == Init /\ [][Next]_vars
-----------------------------------------------------------------------------
(* Properties.                                                             *)

(* The code that a creation has worked out is still free when it writes,    *)
(* and no two contracts of a year share one.                               *)
CodesFree ==
    /\ \A r \in Requests :
         request[r].op = "create" /\ request[r].at = "write" =>
           request[r].code \notin Codes(request[r].year)
    /\ \A k, l \in Ids : k # l /\ Live(k) /\ Live(l) =>
         <<contract[k].year, contract[k].code>> # <<contract[l].year, contract[l].code>>

(* Setting the base fee never makes a second item that charges it, also     *)
(* where two updates change the fee of a contract whose item has been       *)
(* billed: the second one finds the item of the first.  addChargeItem and   *)
(* updateChargeItem check no name: a contract where they have made such an  *)
(* item, or whose creation listed two, is another matter.                  *)
OneBaseFee ==
    \A k \in Ids \ named : Cardinality({n \in ItemsOf(k) : Carries(items[n])}) <= 1

(* A file belongs to a contract that exists.                               *)
FilesHaveContracts ==
    \A f \in Files : file[f].contract # None => Live(file[f].contract)

(* A contract that bills or extra charges refer to is not removed, unless   *)
(* something was done for it between the count and the removal.            *)
RecordsKeepContract ==
    [][\A k \in Ids \ met : Live(k) /\ (k \in billed \/ charges[k] # {}) => Live(k)']_vars

(* The item that a bill has used keeps its name, kind and amount and is not *)
(* switched on again, unless something was done for its contract between    *)
(* the count of the bills and the change.                                  *)
BilledItemsKept ==
    [][\A n \in DOMAIN items :
         items[n].used /\ items[n].contract \notin met =>
           /\ items'[n].amount = items[n].amount
           /\ items'[n].base = items[n].base
           /\ items'[n].fixed = items[n].fixed
           /\ items'[n].active => items[n].active]_vars

(* After an update that sets the base fee, an active item charges it, unless *)
(* something was done for the contract between the read and the write.      *)
FeeIsCharged ==
    [][\A r \in Requests :
         (/\ request[r].op = "update"
          /\ request[r].at = "write"
          /\ request[r].fee # NoFee
          /\ request[r].id \notin met
          /\ request'[r] = Idle
          /\ items' # items) =>
           \E n \in DOMAIN items' :
             /\ items'[n].contract = request[r].id
             /\ Carries(items'[n])
             /\ items'[n].amount = request[r].fee]_vars

(* What TLC refutes: a contract is charged for one base fee.  addChargeItem *)
(* takes a second item of that name, and an updateChargeItem that began     *)
(* before a bill writes back the activity it has read to an item that an    *)
(* update of the fee has ended since.                                      *)
OneBaseFeeAlways ==
    \A k \in Ids : Cardinality({n \in ItemsOf(k) : Carries(items[n])}) <= 1

(* What TLC refutes, whatever is under way: a request that attaches a file  *)
(* of another contract takes it away there.                                *)
ContractsKeepFiles ==
    \A k \in Ids : Live(k) => \E f \in Files : file[f].contract = k

(* What TLC refutes, whatever is under way: a contract whose customer       *)
(* changes leaves its extra charges with the customer it had, where no bill *)
(* of the contract finds them.                                             *)
ChargesFollowContract == \A k \in Ids : charges[k] \subseteq {contract[k].customer}
=============================================================================
