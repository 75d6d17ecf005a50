------------------------------ MODULE Payments ------------------------------
(***************************************************************************)
(* Accounts payable of modules/finance/finance.service.ts: payables, the   *)
(* payment requests that ask for their payment, and the payments that      *)
(* settle both.                                                            *)
(*                                                                         *)
(* A session is one HTTP request being served.  A handler whose reads and  *)
(* writes are in one Serializable transaction is one action.  A handler    *)
(* that reads and checks first and writes later without a transaction      *)
(* around both is two: Begin<Handler> performs the reads and the checks,   *)
(* Commit<Handler> the unconditional write, and other sessions may run in  *)
(* between.                                                                *)
(* (A transaction asks the period lock on another connection, so that the  *)
(* lock may be older than the rest of what it reads; the step reads both   *)
(* at once.  Only properties about the lock could tell; those that are     *)
(* checked of all runs are Receivables' and Periods'.)                     *)
(*                                                                         *)
(* All payables belong to one accounting period, whose lock is closed.     *)
(***************************************************************************)
EXTENDS Sums

CONSTANTS
    PayableIds,   \* rows of the payable table that may be created
    RequestIds,   \* rows of the payment request table that may be created
    PaymentIds,   \* rows of the payment table that may be created
    Sessions,     \* HTTP requests in flight
    Amounts,      \* the amounts a client may send, in units
    None          \* an optional id the client leaves out

ASSUME PaymentsAssumption ==
    /\ IsFiniteSet(PayableIds)
    /\ IsFiniteSet(PaymentIds)
    /\ Amounts \subseteq Nat \ {0}
    /\ None \notin RequestIds \cup PayableIds

VARIABLES
    payable,  \* Payable rows: status, amount, paidAmount
    request,  \* PaymentRequest rows with their items, and whether one of
              \* their PaymentApproval rows is an approval
    payment,  \* Payment rows with their allocations
    closed,   \* the billing period's status is CLOSED
    session   \* what each two-step handler has still to write

vars == <<payable, request, payment, closed, session>>

(* History of the rows, which no column keeps and no handler reads: of a     *)
(* payable, whether confirmPayable ever wrote it (confirmed), whether it     *)
(* last wrote over a status that payments had set (late), and what           *)
(* reversals of already reversed payments took off it (twice); of a         *)
(* request, whether a decision or a cancellation last wrote over a status   *)
(* that payments had set (overtaken).                                      *)

PayableStatus == {"ABSENT", "UNPAID", "CONFIRMED", "PARTIALLY_PAID", "PAID"}
RequestStatus == {"ABSENT", "DRAFT", "SUBMITTED", "APPROVED", "REJECTED",
                  "CANCELLED", "PARTIALLY_PAID", "PAID"}
PaymentStatus == {"ABSENT", "REGISTERED", "REVERSED"}

Decisions == {"submit", "approve", "reject"}

NoAllocation == [p \in PayableIds |-> 0]

(* How many units each payable gets: the payable items of a request and the *)
(* allocations of a payment.                                                *)
Allocations == [PayableIds -> Amounts \cup {0}]

Idle == [op |-> "idle"]

Pending == {Idle}
    \cup [op : {"create"}, amount : Amounts]
    \cup [op : {"confirm"}, id : PayableIds]
    \cup [op : Decisions \cup {"cancel"}, id : RequestIds]
    \cup [op : {"reverse"}, id : PaymentIds]
    \cup [op : {"close", "reopen"}]

PayableRow ==
    [status : PayableStatus, amount : Nat, paid : Nat, confirmed : BOOLEAN,
     late : BOOLEAN, twice : Nat]

RequestRow ==
    [status : RequestStatus, amount : Nat, items : [PayableIds -> Nat],
     scoped : BOOLEAN, approved : BOOLEAN, overtaken : BOOLEAN]

TypeOK ==
    /\ payable \in [PayableIds -> PayableRow]
    /\ request \in [RequestIds -> RequestRow]
    /\ payment \in [PaymentIds ->
                     [status : PaymentStatus, request : RequestIds \cup {None},
                      amount : Nat, alloc : [PayableIds -> Nat]]]
    /\ closed \in BOOLEAN
    /\ session \in [Sessions -> Pending]

Init ==
    /\ payable = [p \in PayableIds |->
                   [status |-> "ABSENT", amount |-> 0, paid |-> 0,
                    confirmed |-> FALSE, late |-> FALSE, twice |-> 0]]
    /\ request = [r \in RequestIds |->
                   [status |-> "ABSENT", amount |-> 0,
                    items |-> NoAllocation, scoped |-> FALSE,
                    approved |-> FALSE, overtaken |-> FALSE]]
    /\ payment = [x \in PaymentIds |->
                   [status |-> "ABSENT", request |-> None,
                    amount |-> 0, alloc |-> NoAllocation]]
    /\ closed = FALSE
    /\ session = [s \in Sessions |-> Idle]

-----------------------------------------------------------------------------
(* What the handlers read.                                                 *)

(* A definition named <name>_<change> is an altered form of <name>, which   *)
(* follows it.  No action uses it: the checks put it in the place of <name> *)
(* to show that a property would notice the change.                        *)

(* The payment's units that count for request r: payments that are not     *)
(* reversed.                                                               *)
CountedFor(pays, r) ==
    [x \in PaymentIds |->
        IF pays[x].status = "REGISTERED" /\ pays[x].request = r
          THEN pays[x].amount ELSE 0]

PaidFor(pays, r) == Total(CountedFor(pays, r), PaymentIds)

(* The units allocated to payable p by the payments that are not reversed, *)
(* those of request r only, or all of them.                                *)
AllocatedFor(r, p) ==
    Total([x \in PaymentIds |->
             IF payment[x].status = "REGISTERED" /\ payment[x].request = r
               THEN payment[x].alloc[p] ELSE 0], PaymentIds)

LiveAlloc(pays, p) ==
    [x \in PaymentIds |->
        IF pays[x].status = "REGISTERED" THEN pays[x].alloc[p] ELSE 0]

Allocated(p) == Total(LiveAlloc(payment, p), PaymentIds)

(* Items of requests that are not rejected, cancelled or paid, whether or   *)
(* not a part of them has been paid already.                               *)
Reserved(p) ==
    Total([r \in RequestIds |->
             IF request[r].status \in {"DRAFT", "SUBMITTED", "APPROVED",
                                       "PARTIALLY_PAID"}
               THEN request[r].items[p] ELSE 0], RequestIds)

(* Altered: one unit short of the amount counts as paid in full.           *)
Settled_OneShort(row, paid) ==
    [row EXCEPT !.paid = paid, !.late = FALSE,
                !.status = IF paid + 1 >= row.amount THEN "PAID"
                           ELSE IF paid = 0 THEN "CONFIRMED"
                           ELSE "PARTIALLY_PAID"]

(* paidAmount and the status that goes with it, as both applyPayablePayment *)
(* and reversePayablePayment write them.                                   *)
Settled(row, paid) ==
    [row EXCEPT !.paid = paid, !.late = FALSE,
                !.status = IF paid >= row.amount THEN "PAID"
                           ELSE IF paid = 0 THEN "CONFIRMED"
                           ELSE "PARTIALLY_PAID"]

(* Altered: a request whose payments are all reversed stays as it is.      *)
Refreshed_NeverBack(r, pays) ==
    LET row  == request[r]
        paid == PaidFor(pays, r)
    IN [row EXCEPT !.overtaken = FALSE, !.status =
          IF paid >= row.amount THEN "PAID"
          ELSE IF paid > 0 THEN "PARTIALLY_PAID"
          ELSE row.status]

(* refreshPaymentRequestStatus, over the payment rows as just written.     *)
Refreshed(r, pays) ==
    LET row  == request[r]
        paid == PaidFor(pays, r)
    IN [row EXCEPT !.overtaken = FALSE, !.status =
          IF paid >= row.amount THEN "PAID"
          ELSE IF paid > 0 THEN "PARTIALLY_PAID"
          ELSE IF row.status \in {"PAID", "PARTIALLY_PAID"} THEN "APPROVED"
          ELSE row.status]

(* A request that closePeriod finds when it looks for unfinished ones: by   *)
(* a period of its own or through a payable of one of its items.           *)
InPeriod(r) == request[r].scoped \/ request[r].items # NoAllocation

Unfinished(r) ==
    request[r].status \in {"DRAFT", "SUBMITTED", "APPROVED", "PARTIALLY_PAID"}

-----------------------------------------------------------------------------
(* Payables.                                                               *)

(* createPayable and createCostEntry with createPayable.                   *)
BeginCreatePayable(s, n) ==
    /\ ~closed
    /\ session' = [session EXCEPT ![s] = [op |-> "create", amount |-> n]]
    /\ UNCHANGED <<payable, request, payment, closed>>

CommitCreatePayable(s, p) ==
    /\ session[s].op = "create"
    /\ payable[p].status = "ABSENT"
    /\ payable' = [payable EXCEPT ![p] =
                     [status |-> "UNPAID", amount |-> session[s].amount,
                      paid |-> 0, confirmed |-> FALSE,
                      late |-> FALSE, twice |-> 0]]
    /\ session' = [session EXCEPT ![s] = Idle]
    /\ UNCHANGED <<request, payment, closed>>

BeginConfirmPayable(s, p) ==
    /\ payable[p].status = "UNPAID"
    /\ ~closed
    /\ session' = [session EXCEPT ![s] = [op |-> "confirm", id |-> p]]
    /\ UNCHANGED <<payable, request, payment, closed>>

SetByPayments == {"PAID", "PARTIALLY_PAID"}

Confirmed(row) ==
    [row EXCEPT !.status = "CONFIRMED", !.confirmed = TRUE,
                !.late = @ \/ row.status \in SetByPayments]

CommitConfirmPayable(s) ==
    /\ session[s].op = "confirm"
    /\ payable' = [payable EXCEPT ![session[s].id] = Confirmed(@)]
    /\ session' = [session EXCEPT ![s] = Idle]
    /\ UNCHANGED <<request, payment, closed>>

-----------------------------------------------------------------------------
(* Payment requests.                                                       *)

(* createPaymentRequest: items are the amounts asked for payables, other an *)
(* item without a payable, header the optional payableId of the request     *)
(* itself, scoped whether the request or an item names the period.         *)
CreatePaymentRequest(r, items, other, header, scoped, status) ==
    LET amount == Total(items, PayableIds) + other
        asked  == [p \in PayableIds |->
                     IF p = header /\ items[p] = 0 THEN amount ELSE items[p]]
    IN /\ request[r].status = "ABSENT"
       /\ amount > 0
       /\ scoped \/ asked # NoAllocation => ~closed
       /\ \A p \in PayableIds : asked[p] > 0 =>
            /\ payable[p].status # "ABSENT"
            /\ asked[p] + payable[p].paid + Reserved(p) <= payable[p].amount
       /\ request' = [request EXCEPT ![r] =
                        [status |-> status, amount |-> amount,
                         items |-> items, scoped |-> scoped,
                         approved |-> FALSE, overtaken |-> FALSE]]
       /\ UNCHANGED <<payable, payment, closed, session>>

DecisionFrom(op) == IF op = "submit" THEN "DRAFT" ELSE "SUBMITTED"

DecisionTo(op) ==
    CASE op = "submit"  -> "SUBMITTED"
      [] op = "approve" -> "APPROVED"
      [] op = "reject"  -> "REJECTED"

BeginDecide(s, r, op) ==
    /\ request[r].status = DecisionFrom(op)
    /\ session' = [session EXCEPT ![s] = [op |-> op, id |-> r]]
    /\ UNCHANGED <<payable, request, payment, closed>>

Decided(row, op) ==
    [row EXCEPT !.status = DecisionTo(op), !.approved = @ \/ op = "approve",
                !.overtaken = @ \/ row.status \in SetByPayments]

CommitDecide(s) ==
    /\ session[s].op \in Decisions
    /\ request' = [request EXCEPT ![session[s].id] =
                     Decided(@, session[s].op)]
    /\ session' = [session EXCEPT ![s] = Idle]
    /\ UNCHANGED <<payable, payment, closed>>

BeginCancelRequest(s, r) ==
    /\ request[r].status \notin {"ABSENT", "CANCELLED", "PAID", "PARTIALLY_PAID"}
    /\ PaidFor(payment, r) = 0
    /\ session' = [session EXCEPT ![s] = [op |-> "cancel", id |-> r]]
    /\ UNCHANGED <<payable, request, payment, closed>>

Cancelled(row) ==
    [row EXCEPT !.status = "CANCELLED",
                !.overtaken = @ \/ row.status \in SetByPayments]

CommitCancelRequest(s) ==
    /\ session[s].op = "cancel"
    /\ request' = [request EXCEPT ![session[s].id] = Cancelled(@)]
    /\ session' = [session EXCEPT ![s] = Idle]
    /\ UNCHANGED <<payable, payment, closed>>

-----------------------------------------------------------------------------
(* Payments.                                                               *)

(* Altered: a payable can be paid before it is confirmed.                  *)
Payable_Unconfirmed(a) ==
    \A p \in PayableIds : a[p] > 0 =>
        /\ payable[p].status # "ABSENT"
        /\ ~closed
        /\ payable[p].paid + a[p] <= payable[p].amount

(* Altered: the balance of the payable is not checked.                     *)
Payable_NoBalance(a) ==
    \A p \in PayableIds : a[p] > 0 =>
        /\ payable[p].status \notin {"ABSENT", "UNPAID"}
        /\ ~closed

(* applyPayablePayment for every allocation of a: what it refuses.         *)
Payable(a) ==
    \A p \in PayableIds : a[p] > 0 =>
        /\ payable[p].status \notin {"ABSENT", "UNPAID"}
        /\ ~closed
        /\ payable[p].paid + a[p] <= payable[p].amount

Register(x, r, n, a) ==
    /\ payment[x].status = "ABSENT"
    /\ Payable(a)
    /\ payment' = [payment EXCEPT ![x] =
                     [status |-> "REGISTERED", request |-> r,
                      amount |-> n, alloc |-> a]]
    /\ payable' = [p \in PayableIds |->
                     IF a[p] = 0 THEN payable[p]
                     ELSE Settled(payable[p], payable[p].paid + a[p])]
    /\ UNCHANGED <<closed, session>>

(* createPayment without a request: explicit allocations, of which some may *)
(* name no payable, so that they sum to at most the amount.                *)
PayDirect(x, n, a) ==
    /\ Total(a, PayableIds) <= n
    /\ Register(x, None, n, a)
    /\ UNCHANGED request

(* What derivePaymentAllocations may still give payable p.                 *)
Room(r, p) ==
    LET asked == request[r].items[p]
        used  == AllocatedFor(r, p)
        left  == payable[p].amount - payable[p].paid
    IN IF asked <= used THEN 0
       ELSE IF asked - used <= left THEN asked - used ELSE left

(* derivePaymentAllocations fills the items greedily in the order they were *)
(* entered: at most one payable is left partly filled.                     *)
Derived(r, n, a) ==
    /\ \A p \in PayableIds : a[p] <= Room(r, p)
    /\ \A p, q \in PayableIds :
         p # q => a[p] \in {0, Room(r, p)} \/ a[q] \in {0, Room(r, q)}
    /\ Total(a, PayableIds) = n

(* ensurePaymentAllocationsMatchRequest: every explicit allocation names a  *)
(* payable of the request, unless the request has none.                    *)
Matching(r, n, a) ==
    IF request[r].items = NoAllocation
      THEN Total(a, PayableIds) <= n
      ELSE /\ \A p \in PayableIds : a[p] > 0 => request[r].items[p] > 0
           /\ Total(a, PayableIds) = n

(* Altered: the balance of the request is not checked.                     *)
PayRequest_NoBalance(x, r, n, a) ==
    /\ request[r].status \in {"APPROVED", "PARTIALLY_PAID"}
    /\ \/ Matching(r, n, a)
       \/ request[r].items # NoAllocation /\ Derived(r, n, a)
    /\ Register(x, r, n, a)
    /\ request' = [request EXCEPT ![r] = Refreshed(r, payment')]

(* createPayment for a request: the allocations are derived when the client *)
(* sends none, and a request without payables then gets an empty list.     *)
PayRequest(x, r, n, a) ==
    /\ request[r].status \in {"APPROVED", "PARTIALLY_PAID"}
    /\ PaidFor(payment, r) + n <= request[r].amount
    /\ \/ Matching(r, n, a)
       \/ request[r].items # NoAllocation /\ Derived(r, n, a)
    /\ Register(x, r, n, a)
    /\ request' = [request EXCEPT ![r] = Refreshed(r, payment')]

(* reversePayment reads the payment and its status before its transaction. *)
BeginReversePayment(s, x) ==
    /\ payment[x].status = "REGISTERED"
    /\ session' = [session EXCEPT ![s] = [op |-> "reverse", id |-> x]]
    /\ UNCHANGED <<payable, request, payment, closed>>

(* reversePayablePayment: n units of a payment less, which were taken off   *)
(* before when the payment has already been reversed.                      *)
TakenOff(row, n, again) ==
    [Settled(row, row.paid - n) EXCEPT !.twice = IF again THEN @ + n ELSE @]

(* Altered: the reversal may take a payable's paidAmount below zero.       *)
CommitReversePayment_BelowZero(s) ==
    LET x == session[s].id
        a == payment[x].alloc
    IN /\ session[s].op = "reverse"
       /\ \A p \in PayableIds : a[p] > 0 => ~closed
       /\ payable' = [p \in PayableIds |->
                        IF a[p] = 0 THEN payable[p]
                        ELSE Settled(payable[p], payable[p].paid - a[p])]
       /\ payment' = [payment EXCEPT ![x].status = "REVERSED"]
       /\ session' = [session EXCEPT ![s] = Idle]
       /\ UNCHANGED <<request, closed>>

(* Altered: the payables keep their paidAmount.                            *)
CommitReversePayment_KeepsPaid(s) ==
    LET x == session[s].id
        r == payment[x].request
    IN /\ session[s].op = "reverse"
       /\ payment' = [payment EXCEPT ![x].status = "REVERSED"]
       /\ request' = IF r = None THEN request
                     ELSE [request EXCEPT ![r] = Refreshed(r, payment')]
       /\ session' = [session EXCEPT ![s] = Idle]
       /\ UNCHANGED <<payable, closed>>

CommitReversePayment(s) ==
    LET x == session[s].id
        a == payment[x].alloc
        r == payment[x].request
    IN /\ session[s].op = "reverse"
       /\ \A p \in PayableIds :
            a[p] > 0 => ~closed /\ a[p] <= payable[p].paid
       /\ payable' = [p \in PayableIds |->
                        IF a[p] = 0 THEN payable[p]
                        ELSE TakenOff(payable[p], a[p],
                                      payment[x].status = "REVERSED")]
       /\ payment' = [payment EXCEPT ![x].status = "REVERSED"]
       /\ request' = IF r = None THEN request
                     ELSE [request EXCEPT ![r] = Refreshed(r, payment')]
       /\ session' = [session EXCEPT ![s] = Idle]
       /\ UNCHANGED closed

-----------------------------------------------------------------------------
(* The period lock.  closePeriod runs its checks as separate reads before   *)
(* the transaction that writes CLOSED; those on bills and extra charges are *)
(* not part of this module and may always succeed.                         *)

BeginClosePeriod(s) ==
    /\ ~closed
    /\ \A p \in PayableIds : payable[p].status \in {"ABSENT", "PAID"}
    /\ \A r \in RequestIds : ~ (InPeriod(r) /\ Unfinished(r))
    /\ session' = [session EXCEPT ![s] = [op |-> "close"]]
    /\ UNCHANGED <<payable, request, payment, closed>>

CommitClosePeriod(s) ==
    /\ session[s].op = "close"
    /\ closed' = TRUE
    /\ session' = [session EXCEPT ![s] = Idle]
    /\ UNCHANGED <<payable, request, payment>>

BeginReopenPeriod(s) ==
    /\ closed
    /\ session' = [session EXCEPT ![s] = [op |-> "reopen"]]
    /\ UNCHANGED <<payable, request, payment, closed>>

CommitReopenPeriod(s) ==
    /\ session[s].op = "reopen"
    /\ closed' = FALSE
    /\ session' = [session EXCEPT ![s] = Idle]
    /\ UNCHANGED <<payable, request, payment>>

(* A two-step handler that ends without its write: a later check refuses,   *)
(* its transaction is aborted, or the process stops.                       *)
Abandon(s) ==
    /\ session[s] # Idle
    /\ session' = [session EXCEPT ![s] = Idle]
    /\ UNCHANGED <<payable, request, payment, closed>>

-----------------------------------------------------------------------------
Request ==
    \E r \in RequestIds, items \in Allocations, other \in Amounts \cup {0},
       header \in PayableIds \cup {None}, scoped \in BOOLEAN,
       status \in {"DRAFT", "SUBMITTED"} :
      CreatePaymentRequest(r, items, other, header, scoped, status)

Pay ==
    \E x \in PaymentIds, n \in Amounts, a \in Allocations :
        \/ PayDirect(x, n, a)
        \/ \E r \in RequestIds : PayRequest(x, r, n, a)

Begin(s) ==
    \/ \E n \in Amounts : BeginCreatePayable(s, n)
    \/ \E p \in PayableIds : BeginConfirmPayable(s, p)
    \/ \E r \in RequestIds, op \in Decisions : BeginDecide(s, r, op)
    \/ \E r \in RequestIds : BeginCancelRequest(s, r)
    \/ \E x \in PaymentIds : BeginReversePayment(s, x)
    \/ BeginClosePeriod(s)
    \/ BeginReopenPeriod(s)

Commit(s) ==
    \/ \E p \in PayableIds : CommitCreatePayable(s, p)
    \/ CommitConfirmPayable(s)
    \/ CommitDecide(s)
    \/ CommitCancelRequest(s)
    \/ CommitReversePayment(s)
    \/ CommitClosePeriod(s)
    \/ CommitReopenPeriod(s)

(* A handler is served by a session that serves nothing else.              *)
Next ==
    \E s \in Sessions :
        \/ session[s] = Idle /\ (Request \/ Pay \/ Begin(s))
        \/ Commit(s)
        \/ Abandon(s)

Spec == Init /\ [][Next]_vars
-----------------------------------------------------------------------------
(* Properties.                                                             *)

(* Confirmation and approval come before money: whoever has been paid, even *)
(* by a payment reversed since, was confirmed, and whatever request was paid *)
(* was approved once, although decisions, cancellations, reversals and      *)
(* confirmations are written from stale reads.                              *)
NothingPaidBeforeApproval ==
    \A x \in PaymentIds :
        /\ \A p \in PayableIds :
             payment[x].alloc[p] > 0 => payable[p].confirmed
        /\ \A r \in RequestIds :
             payment[x].status # "ABSENT" /\ payment[x].request = r
               => request[r].approved

(* The payments registered for a request never exceed what it asked for,    *)
(* although the check is made on a sum over other sessions' payments.       *)
RequestNotOverspent ==
    \A r \in RequestIds : PaidFor(payment, r) <= request[r].amount

(* paidAmount and status are written from stale reads by confirmPayable and *)
(* recomputed by payments and reversals; still a payable is shown as PAID   *)
(* or PARTIALLY_PAID only when its paidAmount says so.                     *)
PaidStatusEarned ==
    \A p \in PayableIds :
        /\ payable[p].paid <= payable[p].amount
        /\ payable[p].status = "PAID" => payable[p].paid = payable[p].amount
        /\ payable[p].status = "PARTIALLY_PAID" =>
             payable[p].paid \in 1 .. payable[p].amount - 1
        /\ payable[p].status = "UNPAID" => payable[p].paid = 0

(* paidAmount is the sum of the allocations of the payments that stand,     *)
(* less exactly what reversals of payments already reversed took off again, *)
(* and the status follows from it unless confirmPayable has since written   *)
(* CONFIRMED over it from an old read: no other interleaving of payments,   *)
(* reversals and confirmations makes the stored columns drift.              *)
LedgerAgrees ==
    \A p \in PayableIds :
        LET row == payable[p]
        IN /\ row.paid + row.twice = Allocated(p)
           /\ ~row.late =>
                /\ row.status = "PAID" <=>
                     row.amount > 0 /\ row.paid = row.amount
                /\ row.status = "PARTIALLY_PAID" <=>
                     row.paid \in 1 .. row.amount - 1

(* A request is PAID, PARTIALLY_PAID or neither as the payments registered  *)
(* for it say, however sessions overlap, until a decision or a cancellation *)
(* that read it before those payments is written over their status; the     *)
(* next payment or reversal sets it right.                                 *)
RequestAgrees ==
    \A r \in RequestIds :
        ~request[r].overtaken =>
          /\ request[r].status = "PAID" <=>
               request[r].amount > 0 /\ PaidFor(payment, r) = request[r].amount
          /\ request[r].status = "PARTIALLY_PAID" <=>
               PaidFor(payment, r) \in 1 .. request[r].amount - 1

(* Accounts payable implements the ledger of PayableLedger, which stores no *)
(* balance and no status, in every interleaving of its sessions.            *)
Ledger ==
    INSTANCE PayableLedger WITH
      debt <- [p \in PayableIds |->
                [state |-> IF payable[p].status = "ABSENT" THEN "none"
                           ELSE IF payable[p].confirmed THEN "confirmed"
                           ELSE "entered",
                 amount |-> payable[p].amount]],
      entry <- [x \in PaymentIds |->
                [state |-> CASE payment[x].status = "ABSENT" -> "free"
                             [] payment[x].status = "REGISTERED" -> "posted"
                             [] payment[x].status = "REVERSED" -> "reversed",
                 alloc |-> payment[x].alloc]],
      taken <- [p \in PayableIds |-> payable[p].twice]

ImplementsLedger == Ledger!Spec

-----------------------------------------------------------------------------
(* What documents and messages of the code say, and two sessions at once,   *)
(* or for the last one a single session, can break.                        *)

(* The architecture document forbids allocations beyond a payable's balance *)
(* (section 6.2): the payments that stand never exceed the payable.        *)
NoOverpayment ==
    \A p \in PayableIds : Allocated(p) <= payable[p].amount

(* "Payment requests can be cancelled only before any payment is            *)
(* registered": a cancelled request holds no registered payment.           *)
CancelledUnpaid ==
    \A r \in RequestIds :
        request[r].status = "CANCELLED" => PaidFor(payment, r) = 0

(* "Only submitted payment requests can be decided": a request with         *)
(* registered payments is not turned into a rejected one.                  *)
RejectedUnpaid ==
    \A r \in RequestIds :
        request[r].status = "REJECTED" => PaidFor(payment, r) = 0

(* "Only unpaid payables can be confirmed": a payable that is paid in full   *)
(* does not fall back to CONFIRMED, where it would keep its period open.   *)
PaidInFullIsPaid ==
    \A p \in PayableIds :
        payable[p].amount > 0 /\ payable[p].paid = payable[p].amount
          => payable[p].status = "PAID"

(* "Period close is blocked while the period has [...] unfinished payment   *)
(* requests": no request of a closed period is unfinished.                 *)
ClosedRequestsFinished ==
    closed => \A r \in RequestIds : ~ (InPeriod(r) /\ Unfinished(r))
=============================================================================
