----------------------------- MODULE Receivables -----------------------------
(***************************************************************************)
(* Accounts receivable: the status of a bill (modules/billing/             *)
(* billing.service.ts) and the invoices and receipts allocated to bills    *)
(* (modules/finance/finance.service.ts).                                   *)
(*                                                                         *)
(* Sessions are HTTP requests, as in Payments: what a handler reads and     *)
(* writes in one Serializable transaction is one action; every other one is *)
(* a Begin that reads and checks and a Commit that writes, with other      *)
(* sessions in between.  The period lock is always read outside: even the  *)
(* transactional handlers ask ensureOpen on another connection.            *)
(*                                                                         *)
(* All bills belong to one accounting period, whose lock is closed.        *)
(***************************************************************************)
EXTENDS Sums, Integers

CONSTANTS
    BillIds,      \* rows of the bill table that may be created
    InvoiceIds,   \* rows of the invoice table that may be created
    ReceiptIds,   \* rows of the receipt table that may be created
    Sessions,     \* HTTP requests in flight
    Amounts,      \* the amounts a client may send, in units
    GeneratedTotals, \* the totals of generated bills, of either sign
    Adjustments,  \* the amounts of bill adjustments, of either sign
    MaxTotal,     \* bound: adjustments do not take a bill beyond it
    LinesPerBill  \* how often one document may name the same bill: 1 or 2

ASSUME ReceivablesAssumption ==
    /\ IsFiniteSet(BillIds)
    /\ IsFiniteSet(InvoiceIds)
    /\ IsFiniteSet(ReceiptIds)
    /\ Amounts \subseteq Nat \ {0}
    /\ GeneratedTotals \subseteq Int
    /\ Adjustments \subseteq Int
    /\ MaxTotal \in Nat
    /\ LinesPerBill \in {1, 2}

VARIABLES
    bill,     \* Bill rows: status and totalAmount
    invoice,  \* Invoice rows with their allocations
    receipt,  \* Receipt rows with their allocations
    closed,   \* the billing period's status is CLOSED
    session,  \* what each handler has still to write
    late      \* history: the sessions that asked the lock before it closed

vars == <<bill, invoice, receipt, closed, session, late>>

BillStatus == {"ABSENT", "DRAFT", "PENDING_APPROVAL", "PENDING_SETTLEMENT",
               "INVOICED", "RECEIVED", "INTERNAL_REVIEW", "FINANCE_REVIEW",
               "CUSTOMER_PENDING", "CUSTOMER_CONFIRMED", "VOIDED", "ADJUSTED"}

(* The table of ensureTransitionAllowed.  It also names CLOSED, which no    *)
(* handler of the program ever asks for.                                   *)
Allowed(from) ==
    CASE from = "DRAFT" -> {"INTERNAL_REVIEW", "CUSTOMER_PENDING", "VOIDED"}
      [] from = "PENDING_APPROVAL"   -> {"PENDING_SETTLEMENT", "VOIDED"}
      [] from = "PENDING_SETTLEMENT" -> {"INVOICED", "VOIDED"}
      [] from = "INVOICED"           -> {"RECEIVED"}
      [] from = "INTERNAL_REVIEW"    -> {"FINANCE_REVIEW", "VOIDED"}
      [] from = "FINANCE_REVIEW"     -> {"CUSTOMER_PENDING", "VOIDED"}
      [] from = "CUSTOMER_PENDING"   -> {"CUSTOMER_CONFIRMED", "VOIDED"}
      [] from = "CUSTOMER_CONFIRMED" -> {"ADJUSTED"}
      [] from = "ADJUSTED"           -> {"CUSTOMER_CONFIRMED", "VOIDED"}
      [] OTHER -> {}

(* The targets the endpoints submit, finance-review, send-to-customer,      *)
(* confirm-customer, approve and void ask for.                             *)
Targets == {"INTERNAL_REVIEW", "FINANCE_REVIEW", "CUSTOMER_PENDING",
            "CUSTOMER_CONFIRMED", "PENDING_SETTLEMENT", "VOIDED"}

(* The bills that two lines of the document name are in split.             *)
Documents == [status : {"ABSENT", "STANDING", "CANCELLED"},
              alloc : [BillIds -> Nat], split : SUBSET BillIds]

(* A bill is overtaken once a handler has written a status over another one *)
(* than the one it had read.                                               *)
Bills == [status : BillStatus, total : Int, overtaken : BOOLEAN]

Idle == [op |-> "idle"]

Pending == {Idle}
    \cup [op : {"create"}, status : {"DRAFT", "PENDING_APPROVAL"},
          total : Amounts \cup GeneratedTotals]
    \cup [op : {"transact"}]
    \cup [op : {"move"}, id : BillIds, from : BillStatus, to : Targets]
    \cup [op : {"adjust"}, id : BillIds, from : BillStatus, by : Adjustments]
    \cup [op : {"voidInvoice"}, id : InvoiceIds]
    \cup [op : {"reverseReceipt"}, id : ReceiptIds]
    \cup [op : {"close", "reopen"}]

TypeOK ==
    /\ bill \in [BillIds -> Bills]
    /\ invoice \in [InvoiceIds -> Documents]
    /\ receipt \in [ReceiptIds -> Documents]
    /\ closed \in BOOLEAN
    /\ session \in [Sessions -> Pending]
    /\ late \subseteq Sessions

NoDocument == [status |-> "ABSENT", alloc |-> [b \in BillIds |-> 0], split |-> {}]

NewBill(status, n) == [status |-> status, total |-> n, overtaken |-> FALSE]

Init ==
    /\ bill = [b \in BillIds |-> NewBill("ABSENT", 0)]
    /\ invoice = [i \in InvoiceIds |-> NoDocument]
    /\ receipt = [k \in ReceiptIds |-> NoDocument]
    /\ closed = FALSE
    /\ session = [s \in Sessions |-> Idle]
    /\ late = {}

-----------------------------------------------------------------------------
(* The units of bill b on the documents of one table that stand: invoices   *)
(* ISSUED rather than VOIDED, receipts REGISTERED rather than REVERSED.    *)
Standing(docs, b) ==
    Total([d \in DOMAIN docs |->
             IF docs[d].status = "STANDING" THEN docs[d].alloc[b] ELSE 0],
          DOMAIN docs)

Invoiced(b) == Standing(invoice, b)
Received(b) == Standing(receipt, b)

Write(docs, d, a, split) ==
    [docs EXCEPT ![d] = [status |-> "STANDING", alloc |-> a, split |-> split]]

Only(b, n) == [c \in BillIds |-> IF c = b THEN n ELSE 0]

Active(b) == bill[b].status \notin {"ABSENT", "VOIDED"}

(* A handler that does all but ask the lock in one transaction is past      *)
(* ensureOpen; it ends with its transaction, or by Abandon.                *)
BeginTransaction(s) ==
    /\ ~closed
    /\ session' = [session EXCEPT ![s] = [op |-> "transact"]]
    /\ UNCHANGED <<bill, invoice, receipt, closed>>

Ends(s) == session' = [session EXCEPT ![s] = Idle]

-----------------------------------------------------------------------------
(* Bills.                                                                  *)

(* createManualBill and the monthly generation create drafts,               *)
(* createReceivableBill and createFlatReceivableBill bills to approve.     *)
(* Only the generation does not ask for a total greater than zero: it adds *)
(* up charge items, whose amounts may have either sign.                    *)
BeginCreateBill(s, status, n) ==
    /\ ~closed
    /\ n \in Amounts \/ status = "DRAFT"
    /\ session' = [session EXCEPT ![s] =
                     [op |-> "create", status |-> status, total |-> n]]
    /\ UNCHANGED <<bill, invoice, receipt, closed>>

CommitCreateBill(s, b) ==
    /\ session[s].op = "create"
    /\ bill[b].status = "ABSENT"
    /\ bill' = [bill EXCEPT ![b] = NewBill(session[s].status, session[s].total)]
    /\ Ends(s)
    /\ UNCHANGED <<invoice, receipt, closed>>

(* Altered: the table is not consulted.                                    *)
BeginMove_AnyTarget(s, b, to) ==
    /\ Active(b)
    /\ ~closed
    /\ session' = [session EXCEPT ![s] = [op |-> "move", id |-> b,
                                         from |-> bill[b].status, to |-> to]]
    /\ UNCHANGED <<bill, invoice, receipt, closed>>

(* transition, confirmCustomer and approveReceivable.                      *)
BeginMove(s, b, to) ==
    /\ ~closed
    /\ to \in Allowed(bill[b].status)
    /\ session' = [session EXCEPT ![s] = [op |-> "move", id |-> b,
                                         from |-> bill[b].status, to |-> to]]
    /\ UNCHANGED <<bill, invoice, receipt, closed>>

(* The row that a handler writes a status to, which it had read as from.    *)
Rewritten(row, from, to, n) ==
    [status |-> to, total |-> row.total + n,
     overtaken |-> row.overtaken \/ row.status # from]

CommitMove(s) ==
    /\ session[s].op = "move"
    /\ bill' = [bill EXCEPT ![session[s].id] =
                  Rewritten(@, session[s].from, session[s].to, 0)]
    /\ Ends(s)
    /\ UNCHANGED <<invoice, receipt, closed>>

(* markInvoiced issues an invoice for what is not invoiced yet.            *)
MarkInvoiced(s, b, i) ==
    /\ session[s].op = "transact"
    /\ "INVOICED" \in Allowed(bill[b].status)
    /\ Invoiced(b) < bill[b].total
    /\ invoice[i].status = "ABSENT"
    /\ invoice' = Write(invoice, i, Only(b, bill[b].total - Invoiced(b)), {})
    /\ bill' = [bill EXCEPT ![b].status = "INVOICED"]
    /\ Ends(s)
    /\ UNCHANGED <<receipt, closed>>

(* Altered: the receipts registered before are forgotten.                  *)
MarkReceived_WholeTotal(s, b, k) ==
    /\ session[s].op = "transact"
    /\ "RECEIVED" \in Allowed(bill[b].status)
    /\ receipt[k].status = "ABSENT"
    /\ receipt' = Write(receipt, k, Only(b, bill[b].total), {})
    /\ bill' = [bill EXCEPT ![b].status = "RECEIVED"]
    /\ Ends(s)
    /\ UNCHANGED <<invoice, closed>>

(* Altered: a bill that is received in full is CLOSED, not RECEIVED.       *)
MarkReceived_Closes(s, b, k) ==
    /\ session[s].op = "transact"
    /\ "RECEIVED" \in Allowed(bill[b].status)
    /\ Received(b) < bill[b].total
    /\ receipt[k].status = "ABSENT"
    /\ receipt' = Write(receipt, k, Only(b, bill[b].total - Received(b)), {})
    /\ bill' = [bill EXCEPT ![b].status = "CLOSED"]
    /\ Ends(s)
    /\ UNCHANGED <<invoice, closed>>

(* markReceived registers a receipt for what is not received yet.          *)
MarkReceived(s, b, k) ==
    /\ session[s].op = "transact"
    /\ "RECEIVED" \in Allowed(bill[b].status)
    /\ Received(b) < bill[b].total
    /\ receipt[k].status = "ABSENT"
    /\ receipt' = Write(receipt, k, Only(b, bill[b].total - Received(b)), {})
    /\ bill' = [bill EXCEPT ![b].status = "RECEIVED"]
    /\ Ends(s)
    /\ UNCHANGED <<invoice, closed>>

(* adjust looks at the status before its transaction, which recomputes the  *)
(* total from the items it finds.                                          *)
BeginAdjust(s, b, n) ==
    /\ ~closed
    /\ bill[b].status \in {"CUSTOMER_CONFIRMED", "ADJUSTED"}
    /\ session' = [session EXCEPT ![s] = [op |-> "adjust", id |-> b,
                                         from |-> bill[b].status, by |-> n]]
    /\ UNCHANGED <<bill, invoice, receipt, closed>>

CommitAdjust(s) ==
    LET b == session[s].id
    IN /\ session[s].op = "adjust"
       /\ bill[b].total + session[s].by \in 0 .. MaxTotal
       /\ bill' = [bill EXCEPT ![b] =
                     Rewritten(@, session[s].from, "ADJUSTED", session[s].by)]
       /\ Ends(s)
       /\ UNCHANGED <<invoice, receipt, closed>>

-----------------------------------------------------------------------------
(* Invoices and receipts.                                                  *)

(* A document's lines, as one or two amounts for each bill.                *)
Lines == {l \in [1 .. 2 -> [BillIds -> Amounts \cup {0}]] :
            /\ LinesPerBill = 1 => \A b \in BillIds : l[2][b] = 0
            /\ \A b \in BillIds : l[2][b] > 0 => l[1][b] > 0
            /\ \E b \in BillIds : l[1][b] > 0}

LineSum(l) == [b \in BillIds |-> l[1][b] + l[2][b]]

SplitOver(l) == {b \in BillIds : l[2][b] > 0}

(* ensureBillAllocationFits, which sees one line at a time and none of the  *)
(* other lines of the same document.                                       *)
Fits(l, docs, statuses) ==
    \A b \in BillIds : l[1][b] > 0 =>
        /\ bill[b].status \in statuses
        /\ \A j \in 1 .. 2 : Standing(docs, b) + l[j][b] <= bill[b].total

CreateInvoice(s, i, l) ==
    /\ session[s].op = "transact"
    /\ invoice[i].status = "ABSENT"
    /\ Fits(l, invoice, {"CUSTOMER_CONFIRMED", "ADJUSTED",
                         "PENDING_SETTLEMENT", "INVOICED"})
    /\ invoice' = Write(invoice, i, LineSum(l), SplitOver(l))
    /\ Ends(s)
    /\ UNCHANGED <<bill, receipt, closed>>

CreateReceipt(s, k, l) ==
    /\ session[s].op = "transact"
    /\ receipt[k].status = "ABSENT"
    /\ Fits(l, receipt, {"CUSTOMER_CONFIRMED", "ADJUSTED",
                         "INVOICED", "RECEIVED"})
    /\ receipt' = Write(receipt, k, LineSum(l), SplitOver(l))
    /\ Ends(s)
    /\ UNCHANGED <<bill, invoice, closed>>

(* The documents have allocations, so that their period is looked up.      *)
BeginVoidInvoice(s, i) ==
    /\ invoice[i].status = "STANDING"
    /\ ~closed
    /\ session' = [session EXCEPT ![s] = [op |-> "voidInvoice", id |-> i]]
    /\ UNCHANGED <<bill, invoice, receipt, closed>>

CommitVoidInvoice(s) ==
    /\ session[s].op = "voidInvoice"
    /\ invoice' = [invoice EXCEPT ![session[s].id].status = "CANCELLED"]
    /\ Ends(s)
    /\ UNCHANGED <<bill, receipt, closed>>

(* Altered: the period lock is not asked.                                  *)
BeginReverseReceipt_NoLock(s, k) ==
    /\ receipt[k].status = "STANDING"
    /\ session' = [session EXCEPT ![s] = [op |-> "reverseReceipt", id |-> k]]
    /\ UNCHANGED <<bill, invoice, receipt, closed>>

BeginReverseReceipt(s, k) ==
    /\ receipt[k].status = "STANDING"
    /\ ~closed
    /\ session' = [session EXCEPT ![s] = [op |-> "reverseReceipt", id |-> k]]
    /\ UNCHANGED <<bill, invoice, receipt, closed>>

CommitReverseReceipt(s) ==
    /\ session[s].op = "reverseReceipt"
    /\ receipt' = [receipt EXCEPT ![session[s].id].status = "CANCELLED"]
    /\ Ends(s)
    /\ UNCHANGED <<bill, invoice, closed>>

-----------------------------------------------------------------------------
(* The period lock: the part of closePeriod that looks at bills.           *)

BeginClosePeriod(s) ==
    /\ ~closed
    /\ \E b \in BillIds : Active(b)
    /\ \A b \in BillIds : Active(b) => bill[b].status = "RECEIVED"
    /\ session' = [session EXCEPT ![s] = [op |-> "close"]]
    /\ UNCHANGED <<bill, invoice, receipt, closed>>

CommitClosePeriod(s) ==
    /\ session[s].op = "close"
    /\ closed' = TRUE
    /\ Ends(s)
    /\ UNCHANGED <<bill, invoice, receipt>>

BeginReopenPeriod(s) ==
    /\ closed
    /\ session' = [session EXCEPT ![s] = [op |-> "reopen"]]
    /\ UNCHANGED <<bill, invoice, receipt, closed>>

CommitReopenPeriod(s) ==
    /\ session[s].op = "reopen"
    /\ closed' = FALSE
    /\ Ends(s)
    /\ UNCHANGED <<bill, invoice, receipt>>

(* A handler that ends without its write.                                  *)
Abandon(s) ==
    /\ session[s] # Idle
    /\ Ends(s)
    /\ UNCHANGED <<bill, invoice, receipt, closed>>

-----------------------------------------------------------------------------
Transaction(s) ==
    \/ \E b \in BillIds, i \in InvoiceIds : MarkInvoiced(s, b, i)
    \/ \E b \in BillIds, k \in ReceiptIds : MarkReceived(s, b, k)
    \/ \E i \in InvoiceIds, l \in Lines : CreateInvoice(s, i, l)
    \/ \E k \in ReceiptIds, l \in Lines : CreateReceipt(s, k, l)

Begin(s) ==
    \/ BeginTransaction(s)
    \/ \E status \in {"DRAFT", "PENDING_APPROVAL"},
          n \in Amounts \cup GeneratedTotals :
         BeginCreateBill(s, status, n)
    \/ \E b \in BillIds, to \in Targets : BeginMove(s, b, to)
    \/ \E b \in BillIds, n \in Adjustments : BeginAdjust(s, b, n)
    \/ \E i \in InvoiceIds : BeginVoidInvoice(s, i)
    \/ \E k \in ReceiptIds : BeginReverseReceipt(s, k)
    \/ BeginClosePeriod(s)
    \/ BeginReopenPeriod(s)

Commit(s) ==
    \/ \E b \in BillIds : CommitCreateBill(s, b)
    \/ CommitMove(s)
    \/ CommitAdjust(s)
    \/ CommitVoidInvoice(s)
    \/ CommitReverseReceipt(s)
    \/ CommitClosePeriod(s)
    \/ CommitReopenPeriod(s)

Step(s) ==
    \/ session[s] = Idle /\ Begin(s)
    \/ Transaction(s)
    \/ Commit(s)
    \/ Abandon(s)

Busy == {s \in Sessions : session[s] # Idle}

(* Who is at work when the period closes is late until it ends.             *)
LateAfter == (IF ~closed /\ closed' THEN Sessions ELSE late) \cap Busy'

Next ==
    /\ \E s \in Sessions : Step(s)
    /\ late' = LateAfter

Spec == Init /\ [][Next]_vars
-----------------------------------------------------------------------------
(* Properties.                                                             *)

(* A bill that nobody has taken out of its first status has never been      *)
(* invoiced or received, whatever other sessions do meanwhile.             *)
FirstStatusUnallocated ==
    \A b \in BillIds : bill[b].status \in {"ABSENT", "DRAFT", "PENDING_APPROVAL"} =>
        /\ \A i \in InvoiceIds : invoice[i].alloc[b] = 0
        /\ \A k \in ReceiptIds : receipt[k].alloc[b] = 0

(* No step raises what is invoiced or received of a bill beyond the bill's  *)
(* total, although the total is moved by adjustments and the sums by other  *)
(* sessions; only a document that names the bill on two lines can, as each  *)
(* line is compared with what stood before the document (NotOverAllocated  *)
(* is what is lost by it).                                                 *)
AllocationsFit ==
    [][\A b \in BillIds :
         /\ Invoiced(b)' > Invoiced(b) =>
              \/ Invoiced(b)' <= bill'[b].total
              \/ \E i \in InvoiceIds : invoice[i].status = "ABSENT" /\ b \in invoice'[i].split
         /\ Received(b)' > Received(b) =>
              \/ Received(b)' <= bill'[b].total
              \/ \E k \in ReceiptIds : receipt[k].status = "ABSENT" /\ b \in receipt'[k].split]_vars

(* No invoice or receipt stands against a bill that is still to be reviewed *)
(* or confirmed, however requests overlap, but for a bill whose status has  *)
(* been written over one that the writer had not seen.                     *)
UnconfirmedUnallocated ==
    \A b \in BillIds :
        bill[b].status \in {"DRAFT", "PENDING_APPROVAL", "INTERNAL_REVIEW",
                            "FINANCE_REVIEW", "CUSTOMER_PENDING"}
          => bill[b].overtaken \/ (Invoiced(b) = 0 /\ Received(b) = 0)

(* While the period is closed none of its bills and of their documents      *)
(* changes, but by a handler that was past ensureOpen when it was closed:  *)
(* nobody gets in afterwards.                                              *)
ClosedFrozen ==
    [][closed /\ closed' =>
         \/ UNCHANGED <<bill, invoice, receipt>>
         \/ \E s \in late : session'[s] # session[s]]_vars

-----------------------------------------------------------------------------
(* What documents and messages of the code say and the code can break.     *)

(* The architecture document forbids allocations beyond a bill's balance    *)
(* (section 6.2): what is allocated to a bill fits its total.              *)
NotOverAllocated ==
    \A b \in BillIds :
        /\ Invoiced(b) > 0 => Invoiced(b) <= bill[b].total
        /\ Received(b) > 0 => Received(b) <= bill[b].total

(* "Bill total amount cannot be negative", however the bill came about.     *)
TotalsNotNegative ==
    \A b \in BillIds : bill[b].total >= 0

(* "Cannot change bill from ... to ...": a bill's status moves only along   *)
(* the table of ensureTransitionAllowed.                                   *)
StatusFollowsTable ==
    [][\A b \in BillIds :
         \/ bill'[b].status = bill[b].status
         \/ bill[b].status = "ABSENT"
         \/ bill'[b].status \in Allowed(bill[b].status)]_vars

(* A closed period takes no financial operation (formal operations, closing *)
(* the period): none of its bills and documents changes.                   *)
ClosedFrozenAlways ==
    [][closed /\ closed' => UNCHANGED <<bill, invoice, receipt>>]_vars

(* Whether a bill is invoiced "is computed from the allocations and not     *)
(* maintained by hand": an INVOICED bill is invoiced in full.              *)
InvoicedBillsAreInvoiced ==
    \A b \in BillIds : bill[b].status = "INVOICED" => Invoiced(b) = bill[b].total

(* "All receivable bills in this period must be received before closing":   *)
(* in a closed period every bill that is not voided is received in full.   *)
ClosedMeansReceived ==
    closed => \A b \in BillIds : Active(b) => Received(b) >= bill[b].total

(* "Receivable period was not auto-closed", says the end-to-end test when a *)
(* month is still open after its bills were received (and its payables     *)
(* paid, of which there are none here): a month whose bills stay invoiced  *)
(* and received in full is closed.  Nobody calls autoCloseIfReady; it is    *)
(* not closed even if finance marks what can be marked and asks closePeriod *)
(* whenever it can.                                                        *)
Complete ==
    /\ \E b \in BillIds : Active(b)
    /\ \A b \in BillIds : Active(b) =>
         Invoiced(b) = bill[b].total /\ Received(b) = bill[b].total

CompleteMonthCloses == <>[]Complete => <>closed

(* Handlers end; what finance can mark it marks, and it closes the period   *)
(* when it may.                                                            *)
FinanceKeepsGoing ==
    /\ \A s \in Sessions : WF_vars(Next /\ session[s] # Idle /\ Ends(s))
    /\ SF_vars(Next /\ \E s \in Sessions : session[s] = Idle /\ BeginTransaction(s))
    /\ SF_vars(Next /\ \E s \in Sessions, b \in BillIds, i \in InvoiceIds :
                 MarkInvoiced(s, b, i))
    /\ SF_vars(Next /\ \E s \in Sessions, b \in BillIds, k \in ReceiptIds :
                 MarkReceived(s, b, k))
    /\ SF_vars(Next /\ \E s \in Sessions : session[s] = Idle /\ BeginClosePeriod(s))
    /\ SF_vars(Next /\ \E s \in Sessions : CommitClosePeriod(s))

FairSpec == Spec /\ FinanceKeepsGoing
=============================================================================
