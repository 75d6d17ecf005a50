------------------------------ MODULE Periods ------------------------------
(***************************************************************************)
(* One accounting period of one organization: its lock (common/periods/     *)
(* period-lock.service.ts), the handlers of finance.service.ts that close   *)
(* it, reopen it, enter costs and keep payment recipients, and its reports  *)
(* (periodSnapshot, customerProfit, ownerRanking).  Every other handler     *)
(* that changes a bill, receipt, cost or payable of the month asks the lock *)
(* first and writes later; Receivables and Payments have their rules, here  *)
(* they are the writes between which the period is closed.                  *)
(* A definition named <name>_<change> is an altered form of <name>, used by *)
(* no action: see Payments.                                                *)
(***************************************************************************)
EXTENDS Sums, Sequences

CONSTANTS
    Bills,       \* bills of the month that may be made
    Entries,     \* cost entries of the month that may be made
    Debts,       \* payables entered for a bill, of no cost entry
    Receipts,    \* allocations of receipts to bills that may be made
    Recipients,  \* payment recipients that may be made
    Customers,
    CustomerOf,  \* the customer of each bill and cost entry
    OwnerNames,  \* names of the users who own customers
    OwnersOf,    \* the names that a customer's owners have
    Sessions,    \* HTTP requests in flight
    Amounts,     \* amounts of bills and costs, in units
    MaxTotal,    \* bound: a bill's total after an adjustment
    MaxHistory,  \* bound: rows of the closing history
    None         \* no bill, nobody

Payables == Entries \cup Debts

ASSUME PeriodsAssumption ==
    /\ IsFiniteSet(Bills) /\ IsFiniteSet(Entries) /\ IsFiniteSet(Debts)
    /\ IsFiniteSet(Receipts) /\ IsFiniteSet(Customers)
    /\ Entries \cap Debts = {} /\ None \notin Bills
    /\ CustomerOf \in [Bills \cup Entries -> Customers]
    /\ OwnersOf \in [Customers -> SUBSET OwnerNames] /\ None \notin OwnerNames
    /\ Amounts \subseteq Nat \ {0} /\ MaxTotal \in Nat

VARIABLES
    period,     \* BillingPeriod.status
    history,    \* PeriodClosing rows
    bill,       \* Bill rows of the month
    receipt,    \* ReceiptAllocation rows: the bill, the amount, and whether
                \* the receipt stands or is reversed
    entry,      \* CostEntry rows: the amount, 0 for no row
    payable,    \* Payable rows; a cost entry's payable has the entry's name
    recipient,  \* PaymentRecipient rows
    charges,    \* there are draft extra charges
    asked,      \* the payment request of the month that names no payable
    session,    \* the requests in flight
    orderly     \* no change was under way while the period was closed or
                \* reopened, nor two of those at once

books == <<bill, receipt, entry, payable, charges>>
vars == <<period, history, books, recipient, asked, session, orderly>>

Idle == [op |-> "idle"]

-----------------------------------------------------------------------------
(* Reports.                                                                *)

Standing == {b \in Bills : bill[b].state \in {"waiting", "RECEIVED"}}
Entered == {e \in Entries : entry[e] > 0}
Owed == {p \in Payables : payable[p].state # "none"}

(* Altered: costEntryId is not asked for.                                  *)
Direct_Owed == Owed

(* payable.costEntryId is null.                                            *)
Direct == Owed \cap Debts

Unpaid == {p \in Owed : payable[p].state = "open"}

Kept == {k \in Receipts : receipt[k].state = "standing"}

Received == [k \in Receipts |-> receipt[k].amount]
Due == [p \in Payables |-> payable[p].amount]
Billed == [b \in Bills |-> bill[b].amount]

(* periodSnapshot.                                                         *)
PeriodSnapshot ==
    [billCount |-> Cardinality(Standing),
     billAmount |-> Total(Billed, Standing),
     costCount |-> Cardinality(Entered) + Cardinality(Direct),
     costAmount |-> Total(entry, Entered) + Total(Due, Direct),
     receiptAmount |-> Total(Received, Kept),
     openPayableCount |-> Cardinality(Unpaid)]

CustomerOfPayable(p) ==
    IF p \in Entries THEN CustomerOf[p] ELSE CustomerOf[payable[p].bill]

(* Altered: the payables of cost entries are costs once more.              *)
CustomerProfit_EntriesTwice ==
    [income |->
       [c \in Customers |-> Total(Billed, {b \in Standing : CustomerOf[b] = c})],
     cost |->
       [c \in Customers |->
          Total(entry, {e \in Entered : CustomerOf[e] = c})
            + Total(Due, {p \in Owed : CustomerOfPayable(p) = c})]]

(* customerProfit, for a reader of all customers.                          *)
CustomerProfit ==
    [income |->
       [c \in Customers |-> Total(Billed, {b \in Standing : CustomerOf[b] = c})],
     cost |->
       [c \in Customers |->
          Total(entry, {e \in Entered : CustomerOf[e] = c})
            + Total(Due, {p \in Direct : CustomerOfPayable(p) = c})]]

(* ownerRanking: a customer counts in full for each name; without an owner  *)
(* it counts for a name that stands for nobody.                            *)
RankedUnder(c) == IF OwnersOf[c] = {} THEN {None} ELSE OwnersOf[c]

OwnerRanking ==
    [n \in UNION {RankedUnder(c) : c \in Customers} |->
       LET counted == {c \in Customers : n \in RankedUnder(c)}
       IN [income |-> Total(CustomerProfit.income, counted),
           cost |-> Total(CustomerProfit.cost, counted)]]

-----------------------------------------------------------------------------
(* Handlers that write to the month's books: what each does, when it may,   *)
(* and what it leaves.                                                     *)

Changes ==
    [do : {"issue"}, b : Bills, n : Amounts]
    \cup [do : {"move", "void"}, b : Bills]
    \cup [do : {"adjust"}, b : Bills, n : Amounts, up : BOOLEAN]
    \cup [do : {"receive"}, b : Bills, k : Receipts]
    \cup [do : {"allocate"}, b : Bills, k : Receipts, n : Amounts]
    \cup [do : {"reverse"}, k : Receipts]
    \cup [do : {"enter"}, e : Entries, n : Amounts, owed : BOOLEAN]
    \cup [do : {"owe"}, p : Debts, b : Bills, to : Recipients, n : Amounts]
    \cup [do : {"pay", "unpay"}, p : Payables]
    \cup [do : {"charge", "use"}]

(* What is left to receive of a bill: an adjustment may have made it less   *)
(* than nothing.                                                           *)
LeftOf(b) == bill[b].amount - Total(Received, {k \in Kept : receipt[k].bill = b})

(* What adjust makes of a bill's total.                                    *)
Adjusted(w) == IF w.up THEN bill[w.b].amount + w.n ELSE bill[w.b].amount - w.n

(* The row is there, in a status that the handler accepts; "waiting" is any *)
(* status before RECEIVED, which Receivables tells apart.                  *)
Possible(w) ==
    CASE w.do = "issue"   -> bill[w.b].state = "none"
      [] w.do \in {"move", "void", "adjust"} -> bill[w.b].state = "waiting"
      [] w.do = "receive" -> /\ bill[w.b].state = "waiting" /\ LeftOf(w.b) > 0
                             /\ receipt[w.k].state = "none"
      [] w.do = "allocate" -> /\ bill[w.b].state \in {"waiting", "RECEIVED"}
                              /\ w.n <= LeftOf(w.b)
                              /\ receipt[w.k].state = "none"
      [] w.do = "reverse" -> receipt[w.k].state = "standing"
      [] w.do = "enter"   -> entry[w.e] = 0
      [] w.do = "owe"     -> bill[w.b].state # "none" /\ payable[w.p].state = "none"
      [] w.do = "pay"     -> payable[w.p].state = "open"
      [] w.do = "unpay"   -> payable[w.p].state = "paid"
      [] w.do = "charge"  -> ~charges
      [] w.do = "use"     -> charges

(* What a write finds to be possible.  A status change overwrites what it   *)
(* finds; adjust refuses a negative total and nothing else; a handler in a  *)
(* Serializable transaction fails over a row that has changed since.       *)
Lands(w) ==
    CASE w.do \in {"move", "void"} -> TRUE
      [] w.do = "adjust" -> Adjusted(w) \in 0 .. MaxTotal
      [] w.do \notin {"move", "void", "adjust"} -> Possible(w)

NoReceipt == [state |-> "none", bill |-> None, amount |-> 0]
Allocated(b, n) == [state |-> "standing", bill |-> b, amount |-> n]

NoPayable == [state |-> "none", amount |-> 0, bill |-> None]
OpenPayable(n, b) == [state |-> "open", amount |-> n, bill |-> b]

(* createCostEntry's transaction makes the payable with the entry.         *)
Written(w) ==
    /\ bill' = CASE w.do = "issue" ->
                      [bill EXCEPT ![w.b] = [state |-> "waiting", amount |-> w.n]]
                 [] w.do = "receive" -> [bill EXCEPT ![w.b].state = "RECEIVED"]
                 [] w.do = "move"    -> [bill EXCEPT ![w.b].state = "waiting"]
                 [] w.do = "void"    -> [bill EXCEPT ![w.b].state = "VOIDED"]
                 [] w.do = "adjust"  ->
                      [bill EXCEPT ![w.b] = [state |-> "waiting", amount |-> Adjusted(w)]]
                 [] w.do \notin {"issue", "receive", "move", "void", "adjust"} -> bill
    /\ receipt' = CASE w.do = "receive" ->
                         [receipt EXCEPT ![w.k] = Allocated(w.b, LeftOf(w.b))]
                    [] w.do = "allocate" ->
                         [receipt EXCEPT ![w.k] = Allocated(w.b, w.n)]
                    [] w.do = "reverse" -> [receipt EXCEPT ![w.k].state = "reversed"]
                    [] w.do \notin {"receive", "allocate", "reverse"} -> receipt
    /\ entry' = IF w.do = "enter" THEN [entry EXCEPT ![w.e] = w.n] ELSE entry
    /\ payable' = CASE w.do = "owe" ->
                         [payable EXCEPT ![w.p] = OpenPayable(w.n, w.b)]
                    [] w.do = "enter" /\ w.owed ->
                         [payable EXCEPT ![w.e] = OpenPayable(w.n, None)]
                    [] w.do = "enter" /\ ~w.owed -> payable
                    [] w.do = "pay" -> [payable EXCEPT ![w.p].state = "paid"]
                    [] w.do = "unpay" -> [payable EXCEPT ![w.p].state = "open"]
                    [] w.do \notin {"owe", "enter", "pay", "unpay"} -> payable
    /\ charges' = CASE w.do = "charge" -> TRUE
                    [] w.do = "use" -> FALSE
                    [] w.do \notin {"charge", "use"} -> charges

Snapshots == [billCount : Nat, billAmount : Nat, costCount : Nat, costAmount : Nat,
              receiptAmount : Nat, openPayableCount : Nat]

Request ==
    {Idle}
    \cup [op : {"change"}, at : {"write"}, w : Changes]
    \cup [op : {"close"}, at : {"bills", "counts", "snapshot"}]
    \cup [op : {"close"}, at : {"commit"}, read : Snapshots]
    \cup [op : {"reopen"}, at : {"set", "row"}]

TypeOK ==
    /\ period \in {"OPEN", "CLOSED", "REOPENED"}
    /\ history \in Seq([status : {"CLOSED"}, snapshot : Snapshots]
                         \cup [status : {"REOPENED"}])
    /\ bill \in [Bills -> [state : {"none", "waiting", "RECEIVED", "VOIDED"},
                           amount : Nat]]
    /\ receipt \in [Receipts -> [state : {"none", "standing", "reversed"},
                                 bill : Bills \cup {None}, amount : Nat]]
    /\ entry \in [Entries -> Amounts \cup {0}]
    /\ payable \in [Payables -> [state : {"none", "open", "paid"},
                                 amount : Amounts \cup {0}, bill : Bills \cup {None}]]
    /\ \A p \in Direct : payable[p].bill \in Bills
    /\ recipient \in [Recipients -> {"none", "active", "removed"}]
    /\ charges \in BOOLEAN /\ orderly \in BOOLEAN
    /\ asked \in {"no", "unfinished", "paid"}
    /\ session \in [Sessions -> Request]

(* A month in which nothing has been written yet; the period's row is made  *)
(* with status OPEN by the first handler that asks, and read as OPEN before.*)
Init ==
    /\ period = "OPEN"
    /\ history = <<>>
    /\ bill = [b \in Bills |-> [state |-> "none", amount |-> 0]]
    /\ receipt = [k \in Receipts |-> NoReceipt]
    /\ entry = [e \in Entries |-> 0]
    /\ payable = [p \in Payables |-> NoPayable]
    /\ recipient = [r \in Recipients |-> "none"]
    /\ charges = FALSE
    /\ asked = "no"
    /\ session = [s \in Sessions |-> Idle]
    /\ orderly = TRUE

(* When the history is full nothing more begins: no closing could end.      *)
Begin(s, first) ==
    /\ session[s] = Idle
    /\ Len(history) < MaxHistory
    /\ session' = [session EXCEPT ![s] = first]
    /\ orderly' = (orderly /\ \A t \in Sessions :
                     session[t] # Idle => {first.op, session[t].op} = {"change"})

Goes(s, next) ==
    /\ session' = [session EXCEPT ![s] = next]
    /\ UNCHANGED orderly

At(s, op, at) == session[s].op = op /\ session[s].at = at

(* ensureOpen answers 409 if the period is CLOSED; REOPENED is open.        *)
EnsureOpen == period # "CLOSED"

BeginChange(s, w) ==
    /\ Possible(w)
    /\ w.do = "owe" => recipient[w.to] = "active"
    /\ EnsureOpen
    /\ Begin(s, [op |-> "change", at |-> "write", w |-> w])
    /\ UNCHANGED <<period, history, books, recipient, asked>>

(* A write that another one has made impossible since fails, and leaves all *)
(* as it is.                                                               *)
Write(s) ==
    LET w == session[s].w
    IN /\ At(s, "change", "write")
       /\ Goes(s, Idle)
       /\ UNCHANGED <<period, history, recipient, asked>>
       /\ \/ /\ Lands(w)
             /\ Written(w)
          \/ /\ ~Lands(w)
             /\ UNCHANGED books

-----------------------------------------------------------------------------
(* closePeriod.                                                            *)

BeginClose(s) ==
    /\ period # "CLOSED"
    /\ Begin(s, [op |-> "close", at |-> "bills"])
    /\ UNCHANGED <<period, history, books, recipient, asked>>

(* There are bills, and all of them are RECEIVED.                          *)
CloseBills(s) ==
    /\ At(s, "close", "bills")
    /\ Goes(s, IF Standing # {} /\ \A b \in Standing : bill[b].state = "RECEIVED"
               THEN [session[s] EXCEPT !.at = "counts"] ELSE Idle)
    /\ UNCHANGED <<period, history, books, recipient, asked>>

(* Altered: payables that are still to be paid do not matter.              *)
CloseCounts_Unpaid(s) ==
    /\ At(s, "close", "counts")
    /\ Goes(s, IF ~charges /\ asked # "unfinished"
               THEN [session[s] EXCEPT !.at = "snapshot"] ELSE Idle)
    /\ UNCHANGED <<period, history, books, recipient, asked>>

(* Open payables, draft extra charges and unfinished requests, asked for at *)
(* once.                                                                   *)
CloseCounts(s) ==
    /\ At(s, "close", "counts")
    /\ Goes(s, IF Unpaid = {} /\ ~charges /\ asked # "unfinished"
               THEN [session[s] EXCEPT !.at = "snapshot"] ELSE Idle)
    /\ UNCHANGED <<period, history, books, recipient, asked>>

CloseSnapshot(s) ==
    /\ At(s, "close", "snapshot")
    /\ Goes(s, [op |-> "close", at |-> "commit", read |-> PeriodSnapshot])
    /\ UNCHANGED <<period, history, books, recipient, asked>>

(* The transaction: status and history row together, unasked.              *)
CloseCommit(s) ==
    /\ At(s, "close", "commit")
    /\ Len(history) < MaxHistory
    /\ period' = "CLOSED"
    /\ history' = Append(history, [status |-> "CLOSED", snapshot |-> session[s].read])
    /\ Goes(s, Idle)
    /\ UNCHANGED <<books, recipient, asked>>

-----------------------------------------------------------------------------
(* reopenPeriod: the status, then the history row on its own.              *)

BeginReopen(s) ==
    /\ period = "CLOSED"
    /\ Begin(s, [op |-> "reopen", at |-> "set"])
    /\ UNCHANGED <<period, history, books, recipient, asked>>

ReopenSet(s) ==
    /\ At(s, "reopen", "set")
    /\ period' = "REOPENED"
    /\ Goes(s, [session[s] EXCEPT !.at = "row"])
    /\ UNCHANGED <<history, books, recipient, asked>>

ReopenRow(s) ==
    /\ At(s, "reopen", "row")
    /\ Len(history) < MaxHistory
    /\ history' = Append(history, [status |-> "REOPENED"])
    /\ Goes(s, Idle)
    /\ UNCHANGED <<period, books, recipient, asked>>

-----------------------------------------------------------------------------
(* Payment recipients: removing one only switches it off.  The fields that  *)
(* updatePaymentRecipient writes are not modelled.                         *)

CreatePaymentRecipient(r) ==
    /\ recipient[r] = "none"
    /\ recipient' = [recipient EXCEPT ![r] = "active"]
    /\ UNCHANGED <<period, history, books, asked, session, orderly>>

(* Nothing can come between its check and its write that would matter.     *)
RemovePaymentRecipient(r) ==
    /\ recipient[r] = "active"
    /\ recipient' = [recipient EXCEPT ![r] = "removed"]
    /\ UNCHANGED <<period, history, books, asked, session, orderly>>

-----------------------------------------------------------------------------
(* A payment request of the month that names no payable: the lock is asked  *)
(* when it is made, not when it is paid nor when its payment is reversed.   *)

Ask ==
    /\ asked = "no"
    /\ EnsureOpen
    /\ asked' = "unfinished"
    /\ UNCHANGED <<period, history, books, recipient, session, orderly>>

Pay ==
    /\ asked = "unfinished"
    /\ asked' = "paid"
    /\ UNCHANGED <<period, history, books, recipient, session, orderly>>

ReversePayment ==
    /\ asked = "paid"
    /\ asked' = "unfinished"
    /\ UNCHANGED <<period, history, books, recipient, session, orderly>>

(* The API stops; what was not written is lost.                            *)
Crash ==
    /\ session' = [s \in Sessions |-> Idle]
    /\ UNCHANGED <<period, history, books, recipient, asked, orderly>>

Next ==
    \/ \E s \in Sessions :
         \/ \E w \in Changes : BeginChange(s, w)
         \/ Write(s)
         \/ BeginClose(s) \/ CloseBills(s) \/ CloseCounts(s)
         \/ CloseSnapshot(s) \/ CloseCommit(s)
         \/ BeginReopen(s) \/ ReopenSet(s) \/ ReopenRow(s)
    \/ \E r \in Recipients : CreatePaymentRecipient(r) \/ RemovePaymentRecipient(r)
    \/ Ask \/ Pay \/ ReversePayment \/ Crash

Spec == Init /\ [][Next]_vars
-----------------------------------------------------------------------------
(* Properties.                                                             *)

(* The two reports agree: what customerProfit gives to the customers adds   *)
(* up to what closePeriod writes down, so that a cost entry with a payable  *)
(* is one cost and no row belongs to two customers or to none.              *)
ReportsAgree ==
    LET profit == CustomerProfit
        snapshot == PeriodSnapshot
    IN /\ Total(profit.income, Customers) = snapshot.billAmount
       /\ Total(profit.cost, Customers) = snapshot.costAmount

(* While changes, however they meet each other, do not meet a closing or a  *)
(* reopening: a closed month is as its last history row says, nothing in it *)
(* is left to pay or to bill, and its bills are received.  A change that    *)
(* has passed the lock before breaks this: see ClosedAsReportedAlways.      *)
ClosedAsReported ==
    orderly /\ period = "CLOSED" =>
      /\ history # <<>>
      /\ history[Len(history)] = [status |-> "CLOSED", snapshot |-> PeriodSnapshot]
      /\ Unpaid = {} /\ ~charges
      /\ \A b \in Standing : bill[b].state = "RECEIVED"

(* What TLC refutes: a change that passes the lock before the closing and   *)
(* writes after it.                                                        *)
ClosedAsReportedAlways ==
    period = "CLOSED" /\ history # <<>> =>
      history[Len(history)] = [status |-> "CLOSED", snapshot |-> PeriodSnapshot]

(* What TLC refutes: two requests to close both pass the status, and both   *)
(* write a row of history.                                                 *)
ClosedOnce ==
    \A i \in DOMAIN history :
      i > 1 /\ history[i].status = "CLOSED" => history[i - 1].status = "REOPENED"

(* What TLC refutes: the payment of a request that names no payable is      *)
(* reversed in a closed month, and the request is unfinished in it.         *)
ClosedWithoutRequests == orderly /\ period = "CLOSED" => asked # "unfinished"

(* What TLC refutes: a customer with two owners counts in full for both.    *)
RankingAddsUp ==
    Total([n \in DOMAIN OwnerRanking |-> OwnerRanking[n].income], DOMAIN OwnerRanking)
      = PeriodSnapshot.billAmount
=============================================================================
