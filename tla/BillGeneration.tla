--------------------------- MODULE BillGeneration ---------------------------
(***************************************************************************)
(* The month's bills of one customer: the generation runs of the API       *)
(* (BillingService.generateMonthlyBills) and of the worker                 *)
(* (handleBillingJob), the customer's extra charges (finance.service.ts)   *)
(* and the charge items of its contracts (contracts.service.ts).           *)
(* A definition named <name>_<change> is an altered form of <name>, used by *)
(* no action: see Payments.                                                *)
(*                                                                         *)
(* A session is an HTTP request or a job attempt.  A run reads the         *)
(* contracts and their items once, then takes the contracts one by one, in *)
(* the order the database returns them, which no query fixes.  For each it *)
(* looks for a bill, and in a READ COMMITTED transaction reads the draft   *)
(* charges, inserts the bill and marks the charges.  What the transaction  *)
(* reads and its commit are two steps.                                     *)
(***************************************************************************)
EXTENDS Naturals, FiniteSets

CONSTANTS
    Contracts,  \* the customer's contracts that are active in the month
    Charges,    \* rows of the extra charge table that may be created
    Sessions,   \* HTTP requests and job attempts in flight
    Prices,     \* amounts of the charge item of a contract
    None        \* an extra charge that names no contract

ASSUME BillGenerationAssumption ==
    /\ Prices \subseteq Nat \ {0}
    /\ Prices # {}
    /\ None \notin Contracts

VARIABLES
    bill,    \* the month's bill of each contract, unique in the database
    charge,  \* ExtraCharge rows: status and contract
    item,    \* ContractChargeItem rows, one for each contract
    closed,  \* the billing period's status is CLOSED
    session, \* what each run or two-step handler still has to do
    met      \* history: the charges that two sessions held at a time

vars == <<bill, charge, item, closed, session, met>>

Bill == [exists : BOOLEAN, price : Prices \cup {0}, charges : SUBSET Charges]
Item == [price : Prices, active : BOOLEAN]

Idle == [op |-> "idle"]

Pending == {Idle}
    \cup [op : {"run"}, todo : SUBSET Contracts, read : [Contracts -> Item]]
    \cup [op : {"bill"}, todo : SUBSET Contracts,
          read : [Contracts -> Item], id : Contracts, found : SUBSET Charges]
    \cup [op : {"manual"}, id : Contracts]
    \cup [op : {"create"}, contract : Contracts \cup {None}]
    \cup [op : {"cancel"}, id : Charges]
    \cup [op : {"update"}, id : Contracts, to : Item]
    \cup [op : {"close", "reopen"}]

TypeOK ==
    /\ bill \in [Contracts -> Bill]
    /\ charge \in [Charges ->
                    [status : {"ABSENT", "DRAFT", "BILLING_INCLUDED", "CANCELLED"},
                     contract : Contracts \cup {None}]]
    /\ item \in [Contracts -> Item]
    /\ closed \in BOOLEAN
    /\ session \in [Sessions -> Pending]
    /\ met \subseteq Charges

Init ==
    /\ bill = [c \in Contracts |->
                [exists |-> FALSE, price |-> 0, charges |-> {}]]
    /\ charge = [x \in Charges |-> [status |-> "ABSENT", contract |-> None]]
    /\ \E n \in Prices :
         item = [c \in Contracts |-> [price |-> n, active |-> TRUE]]
    /\ closed = FALSE
    /\ session = [s \in Sessions |-> Idle]
    /\ met = {}

Go(s, next) == session' = [session EXCEPT ![s] = next]

-----------------------------------------------------------------------------
(* A generation run.                                                       *)

(* Altered: a month that has a bill counts as generated.                   *)
StartRun_OncePerMonth(s) ==
    /\ session[s] = Idle
    /\ ~closed
    /\ \A c \in Contracts : ~bill[c].exists
    /\ Go(s, [op |-> "run", todo |-> Contracts, read |-> item])
    /\ UNCHANGED <<bill, charge, item, closed>>

(* The lock is asked once, at the start.                                   *)
StartRun(s) ==
    /\ session[s] = Idle
    /\ ~closed
    /\ Go(s, [op |-> "run", todo |-> Contracts, read |-> item])
    /\ UNCHANGED <<bill, charge, item, closed>>

(* A contract that has a bill, of whatever status, is skipped.             *)
Skip(s, c) ==
    /\ session[s].op = "run"
    /\ c \in session[s].todo
    /\ bill[c].exists
    /\ Go(s, [session[s] EXCEPT !.todo = @ \ {c}])
    /\ UNCHANGED <<bill, charge, item, closed>>

(* Altered: charges of any status are found.                               *)
DraftCharges_AnyStatus(c) ==
    {x \in Charges : charge[x].status # "ABSENT"
                       /\ charge[x].contract \in {None, c}}

DraftCharges(c) ==
    {x \in Charges : charge[x].status = "DRAFT"
                       /\ charge[x].contract \in {None, c}}

Read(s, c) ==
    /\ session[s].op = "run"
    /\ c \in session[s].todo
    /\ ~bill[c].exists
    /\ Go(s, [op |-> "bill", read |-> session[s].read,
              todo |-> session[s].todo \ {c}, id |-> c,
              found |-> DraftCharges(c)])
    /\ UNCHANGED <<bill, charge, item, closed>>

(* What is left of the run after a contract.                               *)
Resume(s) == [op |-> "run", todo |-> session[s].todo, read |-> session[s].read]

Marked(rows, xs, status) ==
    [x \in Charges |->
        IF x \in xs THEN [rows[x] EXCEPT !.status = status] ELSE rows[x]]

(* Altered: the charges are counted into the line of the charge item.      *)
CommitBill_ChargesInPrice(s, c) ==
    LET run == session[s]
    IN /\ run.op = "bill"
       /\ run.id = c
       /\ ~bill[c].exists
       /\ bill' = [bill EXCEPT ![c] =
                     [exists |-> TRUE,
                      price |-> run.read[c].price + Cardinality(run.found),
                      charges |-> run.found]]
       /\ charge' = Marked(charge, run.found, "BILLING_INCLUDED")
       /\ Go(s, Resume(s))
       /\ UNCHANGED <<item, closed>>

(* The insert succeeds only where the unique index finds no other bill of   *)
(* the contract and month.                                                 *)
CommitBill(s, c) ==
    LET run == session[s]
    IN /\ run.op = "bill"
       /\ run.id = c
       /\ ~bill[c].exists
       /\ bill' = [bill EXCEPT ![c] =
                     [exists |-> TRUE,
                      price |-> IF run.read[c].active THEN run.read[c].price
                                ELSE 0,
                      charges |-> run.found]]
       /\ charge' = Marked(charge, run.found, "BILLING_INCLUDED")
       /\ Go(s, Resume(s))
       /\ UNCHANGED <<item, closed>>

(* Altered: no transaction, the charges stay marked.                       *)
FailBill_KeepsCharges(s) ==
    /\ session[s].op = "bill"
    /\ charge' = Marked(charge, session[s].found, "BILLING_INCLUDED")
    /\ \E next \in {Resume(s), Idle} : Go(s, next)
    /\ UNCHANGED <<bill, item, closed>>

(* The unique index, a deadlock or a lost connection aborts the            *)
(* transaction: the API notes the error and goes on, the job ends.         *)
FailBill(s) ==
    /\ session[s].op = "bill"
    /\ \E next \in {Resume(s), Idle} : Go(s, next)
    /\ UNCHANGED <<bill, charge, item, closed>>

EndRun(s) ==
    /\ session[s].op = "run"
    /\ session[s].todo = {}
    /\ Go(s, Idle)
    /\ UNCHANGED <<bill, charge, item, closed>>

-----------------------------------------------------------------------------
(* Bills entered by hand for a contract (createManualBill,                 *)
(* createReceivableBill) take the month's place; their items name neither  *)
(* a charge item nor an extra charge.                                      *)
BeginManualBill(s, c) ==
    /\ session[s] = Idle
    /\ ~closed
    /\ Go(s, [op |-> "manual", id |-> c])
    /\ UNCHANGED <<bill, charge, item, closed>>

CommitManualBill(s) ==
    /\ session[s].op = "manual"
    /\ ~bill[session[s].id].exists
    /\ bill' = [bill EXCEPT ![session[s].id].exists = TRUE]
    /\ Go(s, Idle)
    /\ UNCHANGED <<charge, item, closed>>

-----------------------------------------------------------------------------
(* Extra charges.                                                          *)

BeginCreateExtraCharge(s, c) ==
    /\ session[s] = Idle
    /\ ~closed
    /\ Go(s, [op |-> "create", contract |-> c])
    /\ UNCHANGED <<bill, charge, item, closed>>

CommitCreateExtraCharge(s, x) ==
    /\ session[s].op = "create"
    /\ charge[x].status = "ABSENT"
    /\ charge' = [charge EXCEPT ![x] = [status |-> "DRAFT",
                                        contract |-> session[s].contract]]
    /\ Go(s, Idle)
    /\ UNCHANGED <<bill, item, closed>>

(* Altered: a charge that is on a bill can be cancelled.                   *)
BeginCancelExtraCharge_Included(s, x) ==
    /\ session[s] = Idle
    /\ ~closed
    /\ charge[x].status \in {"DRAFT", "BILLING_INCLUDED"}
    /\ Go(s, [op |-> "cancel", id |-> x])
    /\ UNCHANGED <<bill, charge, item, closed>>

BeginCancelExtraCharge(s, x) ==
    /\ session[s] = Idle
    /\ ~closed
    /\ charge[x].status = "DRAFT"
    /\ Go(s, [op |-> "cancel", id |-> x])
    /\ UNCHANGED <<bill, charge, item, closed>>

CommitCancelExtraCharge(s) ==
    /\ session[s].op = "cancel"
    /\ charge' = [charge EXCEPT ![session[s].id].status = "CANCELLED"]
    /\ Go(s, Idle)
    /\ UNCHANGED <<bill, item, closed>>

-----------------------------------------------------------------------------
(* Charge items.                                                           *)

(* updateChargeItem, and syncBaseFeeChargeItem for an item that no bill     *)
(* uses: ensureChargeItemEditable counts the bill items first.             *)
BeginUpdateChargeItem(s, c, to) ==
    /\ session[s] = Idle
    /\ bill[c].price = 0
    /\ Go(s, [op |-> "update", id |-> c, to |-> to])
    /\ UNCHANGED <<bill, charge, item, closed>>

CommitUpdateChargeItem(s) ==
    /\ session[s].op = "update"
    /\ item' = [item EXCEPT ![session[s].id] = session[s].to]
    /\ Go(s, Idle)
    /\ UNCHANGED <<bill, charge, closed>>

(* deactivateChargeItem, and syncBaseFeeChargeItem for an item in use: the  *)
(* item that takes its place belongs to the months that follow.            *)
DeactivateChargeItem(s, c) ==
    /\ session[s] = Idle
    /\ item' = [item EXCEPT ![c].active = FALSE]
    /\ UNCHANGED <<bill, charge, closed, session>>

-----------------------------------------------------------------------------
(* The period lock: the part of closePeriod that looks at extra charges.   *)

BeginClosePeriod(s) ==
    /\ session[s] = Idle
    /\ ~closed
    /\ \A x \in Charges : charge[x].status # "DRAFT"
    /\ Go(s, [op |-> "close"])
    /\ UNCHANGED <<bill, charge, item, closed>>

CommitClosePeriod(s) ==
    /\ session[s].op = "close"
    /\ closed' = TRUE
    /\ Go(s, Idle)
    /\ UNCHANGED <<bill, charge, item>>

BeginReopenPeriod(s) ==
    /\ session[s] = Idle
    /\ closed
    /\ Go(s, [op |-> "reopen"])
    /\ UNCHANGED <<bill, charge, item, closed>>

CommitReopenPeriod(s) ==
    /\ session[s].op = "reopen"
    /\ closed' = FALSE
    /\ Go(s, Idle)
    /\ UNCHANGED <<bill, charge, item>>

(* A run or a two-step handler that ends without its write: a later check   *)
(* refuses or the process stops.                                           *)
Abandon(s) ==
    /\ session[s] # Idle
    /\ Go(s, Idle)
    /\ UNCHANGED <<bill, charge, item, closed>>

-----------------------------------------------------------------------------
Finish(s) ==
    \/ FailBill(s)
    \/ EndRun(s)
    \/ CommitManualBill(s)
    \/ \E x \in Charges : CommitCreateExtraCharge(s, x)
    \/ CommitCancelExtraCharge(s)
    \/ CommitUpdateChargeItem(s)
    \/ CommitClosePeriod(s)
    \/ CommitReopenPeriod(s)
    \/ Abandon(s)

Step(s) ==
    \/ StartRun(s)
    \/ \E c \in Contracts :
         Skip(s, c) \/ Read(s, c) \/ CommitBill(s, c) \/ BeginManualBill(s, c)
    \/ \E c \in Contracts \cup {None} : BeginCreateExtraCharge(s, c)
    \/ \E x \in Charges : BeginCancelExtraCharge(s, x)
    \/ \E c \in Contracts, to \in Item : BeginUpdateChargeItem(s, c, to)
    \/ \E c \in Contracts : DeactivateChargeItem(s, c)
    \/ BeginClosePeriod(s)
    \/ BeginReopenPeriod(s)
    \/ Finish(s)

(* A session holds the charges it has read as drafts and is about to write: *)
(* those it puts on a bill, or the one it cancels.                         *)
Holds(s, x) ==
    \/ session[s].op = "bill" /\ x \in session[s].found
    \/ session[s].op = "cancel" /\ x = session[s].id

Contended ==
    {x \in Charges : \E s, t \in Sessions : s # t /\ Holds(s, x) /\ Holds(t, x)}

Meet == met' = met \cup Contended'

Next == (\E s \in Sessions : Step(s)) /\ Meet

Spec == Init /\ [][Next]_vars

(* Somebody runs the generation again until it is done, a run that is       *)
(* started over and over reaches every contract, and its transaction does  *)
(* not fail every time.                                                    *)
Fairness ==
    /\ \A s \in Sessions : WF_vars(Finish(s) /\ Meet)
    /\ SF_vars((\E s \in Sessions : StartRun(s)) /\ Meet)
    /\ \A c \in Contracts :
         /\ SF_vars((\E s \in Sessions : Read(s, c)) /\ Meet)
         /\ SF_vars((\E s \in Sessions : CommitBill(s, c)) /\ Meet)

FairSpec == Spec /\ Fairness
-----------------------------------------------------------------------------
(* Properties.                                                             *)

(* A charge is marked BILLING_INCLUDED only together with the bill that     *)
(* carries it, and a charge on a bill is a draft no more and belongs to the *)
(* bill's contract or to none, whatever runs, failures and cancellations   *)
(* meet.                                                                   *)
ChargesFollowBills ==
    \A x \in Charges :
        /\ charge[x].status = "BILLING_INCLUDED" =>
             \E c \in Contracts : x \in bill[c].charges
        /\ \A c \in Contracts : x \in bill[c].charges =>
             /\ charge[x].status \in {"BILLING_INCLUDED", "CANCELLED"}
             /\ charge[x].contract \in {None, c}

(* Runs may be aborted, collide and be repeated: as long as the month is    *)
(* not closed for good, every contract gets its bill.                      *)
EveryContractBilled ==
    <>[]~closed => \A c \in Contracts : <>bill[c].exists

(* "After a failure the job can safely be retried" (architecture, section   *)
(* 5.4): an extra charge is on at most one bill, however runs are aborted,  *)
(* repeated and overlap, unless two sessions held it at a time.            *)
ChargedOnce ==
    \A x \in Charges \ met, c, d \in Contracts :
        x \in bill[c].charges /\ x \in bill[d].charges => c = d

(* "Draft extra charges may be cancelled before billing; charges already    *)
(* included in bills must be corrected through bill adjustment": a          *)
(* cancelled charge is on no bill, unless two sessions held it at a time.  *)
CancelledNotBilled ==
    \A x \in Charges \ met, c \in Contracts :
        x \in bill[c].charges => charge[x].status # "CANCELLED"

-----------------------------------------------------------------------------
(* What documents say and overlapping requests can break.                  *)

(* The same two for every charge.                                          *)
ChargedOnceAlways ==
    \A x \in Charges, c, d \in Contracts :
        x \in bill[c].charges /\ x \in bill[d].charges => c = d

CancelledNotBilledAlways ==
    \A x \in Charges, c \in Contracts :
        x \in bill[c].charges => charge[x].status # "CANCELLED"

(* "Contract charge items already used by bills must not be edited          *)
(* directly": a bill shows the amount of the item it used.                 *)
UsedItemsKept ==
    \A c \in Contracts : bill[c].price \in {0, item[c].price}

(* "Period close is blocked while the period has [...] draft extra          *)
(* charges": a closed period has none.                                     *)
ClosedWithoutDrafts ==
    closed => \A x \in Charges : charge[x].status # "DRAFT"
=============================================================================
