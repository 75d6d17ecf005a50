# A TLA+ model of erpdog

erpdog is the back office of a bookkeeping agency: a NestJS API over PostgreSQL
(`apps/api`), a worker (`apps/worker`), a web client (`apps/web`) and a Prisma
schema (`prisma/schema.prisma`).  This directory holds a model of them, the TLC
configurations that check it on small instances, and the theorems TLAPS proves
about it for instances of every size.

Paths below are relative to the repository; `finance`, `billing`, `contracts`
stand for `apps/api/src/modules/<name>/<name>.service.ts`, `page` for
`apps/web/src/app/page.tsx`.

## 1. The system and its parts

The state is one database, an object store, the login counters in the memory of the
API's process, the worker's queue in Redis, and what each browser shows.  Handlers of the API run concurrently,
in one or more processes, and so do the worker's jobs.  Four ways of using the
database matter:

* **Serializable transactions** (`createInvoice`, `createReceipt`,
  `createPaymentRequest`, `createPayment`, `markInvoiced`, `markReceived`): they
  read, check and write as if alone, or fail.
* **Advisory locks** (creation and update of customers and signing entities, codes of
  contracts): a Read Committed transaction that first waits for a lock.
* **Read, check, then write**: the row is read and judged first and written
  later by its id, without a condition on what was read and with no transaction
  around both (`confirmPayable`, the decisions on payment requests,
  `cancelPaymentRequest`, `voidInvoice`, `reverseReceipt`, the transitions of a
  bill, `cancelExtraCharge`, `updateChargeItem`, `closePeriod`, every change of a
  user).  Two requests can both pass the check before either writes.
* **Read outside, write inside**: `reversePayment`, `adjust`, the monthly
  generation and `update` of a contract check before a transaction and recompute a
  part of what they write in it.

| Part | State | Operations | Interacts with | What makes it hard | What makes it correct | Module |
|---|---|---|---|---|---|---|
| Payables, payment requests, payments (`finance`) | `Payable.status/amount/paidAmount`, `PaymentRequest.status` and items, `Payment.status` and allocations | create, confirm, submit, approve, reject, cancel, pay, reverse | period lock, cost entries | stored balance beside the entries it sums; stale decisions; two reversals of one payment; reservations by open requests | balance equals entries; nothing is paid before approval; requests and payables are never overpaid | `Payments`, `PayableLedger` |
| Bills and their status (`billing`) | `Bill.status/totalAmount` | create, transitions, mark invoiced or received, adjust | invoices, receipts, period lock | a transition table with one guard and many writers | status follows the table and agrees with the documents | `Receivables` |
| Invoices and receipts (`finance`) | documents and their allocations | create, void, reverse | bills, period lock | a check on each line against sums of rows | nothing allocated beyond the bill or to a bill nobody confirmed | `Receivables` |
| Monthly generation (`billing`, `billing.job.ts`) | the unique bill of contract and month, `BillItem` | run from the API, run from the queue, rerun | contracts, extra charges | two runs at once, partial failure, retries | each contract is billed, each charge once | `BillGeneration` |
| Extra charges (`finance`) | `ExtraCharge.status` | create, cancel | generation, period lock | cancelled while being billed | a billed charge is not cancelled | `BillGeneration` |
| Contracts (`contracts`) | contracts, their codes and files | create, update, remove | charge items, bills, extra charges, attachments | read before the transaction, counted before the delete; files move between contracts | codes are unique; what bills refer to is kept | `Contracts` |
| Contract charge items (`contracts`) | `ContractChargeItem` | add, update, deactivate, follow the base fee | generation | counted as unused, used before it is written | an item a bill uses is kept; one base fee | `Contracts`, `BillGeneration` |
| Period closing and lock (`finance`, `period-lock.service.ts`) | `BillingPeriod.status`, closing history | ensureOpen, close, reopen | every part that changes a month | counts read one after another, then CLOSED written; a reopening in two writes | a closed month is complete, frozen and as its history says | `Periods`; the checks on their own tables in `Payments`, `Receivables`, `BillGeneration` |
| Cost entries, payment recipients (`finance`) | `CostEntry`, `PaymentRecipient` | create, with or without a payable; switch off | payables, reports | one transaction for two tables | an entry and its payable are one cost | `Periods`, `Payments` |
| Reports (`finance`) | none | snapshot, profit of customers, ranking of owners | the month's books | the same rows summed in three ways | the ways agree | `Periods` |
| Outbox (`outbox.job.ts`) | `OutboxEvent.status/attempts` | claim, deliver, mark sent or failed | worker queue | a stop between delivery and mark; five jobs at once | delivered at least once, never lost | `Outbox`, `AtLeastOnce` |
| Authentication (`auth.service.ts`, guards) | failure counter and lock of a login | login, failure, success, request | users | counted before the password is compared; a copy of the caller's rights | a refused caller is refused | `Session`, `Accounts` |
| Users, roles, platform (`identity`, `platform`) | users, super admins, tenants, permissions of roles | create, change, delete, switch off, grant; the seed again | authentication | who may manage whom, judged on a copy; count then delete | powers stay in their bounds; one active super admin remains | `Accounts` |
| Customers, signing entities (`customers`, `signing-entities`) | rows, names, codes, owners | create, import, update, set owners, remove | contracts, finance | fallbacks read before the lock; imports row by row | names and codes unique; imports tell the truth | `Registry` |
| Attachments, object storage (`finance`, `storage.service.ts`) | `Attachment`, objects, the remembered bucket | presign, put, link | contracts, bills, page | the row before the object | evidence that is linked is stored | `Console`, `Contracts` |
| Web client (`page`) | token, user, month, lists, selections, dialogs; the session cookie | sign in and out, refresh, forms, uploads, viewers | API | every `await` lets clicks and other tasks in; a failed step in a chain | an action is about what the user chose; what is done is not offered again | `Session`, `Console` |
| Audit log, Excel, health, utilities, shared packages | none of their own, or append-only rows | read, format, store | all | I/O | | section 8 |

## 2. The modules

| Module | Models | Uses |
|---|---|---|
| `Sums` | `sum()` of `common/utils/finance.ts`: a total as the number of units, without recursion | |
| `PayableLedger` | the abstract specification of accounts payable: debts and entries, no stored balance | `Sums` |
| `Payments` | accounts payable as the code does it; `Ledger == INSTANCE PayableLedger WITH ...` is its refinement mapping | `Sums` |
| `Receivables` | bills, invoices, receipts | `Sums` |
| `BillGeneration` | monthly runs, extra charges, charge items | |
| `Periods` | closing, reopening and the lock of one month, with the changes that ask it, the history, the snapshot and the reports | `Sums` |
| `AtLeastOnce` | the abstract specification of the outbox: recorded, then performed, in the end | |
| `Outbox` | the queue's jobs and the events they deliver; `Promise == INSTANCE AtLeastOnce WITH ...` is its refinement mapping | |
| `Accounts` | organizations, users, roles, permissions, guards, seed | |
| `Registry` | customers and signing entities | |
| `Contracts` | contracts with codes, items and files, and what refers to them | |
| `Session` | signing in and out, at the API and in the page | |
| `Console` | the page's forms, uploads, refreshes and viewers, composed with `Session` | `Session` |
| `MC...` | symmetry, negative numbers and bounded inputs for TLC | the module each names |
| `PaymentsProofs`, `ReceivablesProofs`, `PeriodsProofs`, `AccountsProofs`, `RegistryProofs`, `ContractsProofs`, `ConsoleProofs` | theorems and proofs | the module each names |
| `WorkerProofs` | theorems and proofs about the two queues of the worker | `BillGeneration`, `Outbox`, whose `Init`, `Next` and the like are prefixed for it |

### State and actions against the code

A **session** (in `Registry` and `Contracts`: a request) is an HTTP request or a job
being served, at most one thing at a time.  A handler whose reads and writes are in
one Serializable transaction is one action.  Every other writing handler is two:
`Begin<Handler>` performs the reads, the early returns and the exceptions, and
stores what remains to be written; `Commit<Handler>` performs the write with the
values read before.  `Abandon` ends a session without its write: a later check
refuses, the transaction is aborted, the process stops.  Sessions interleave in every
way.

**History variables** are read by properties only.  Where a handler writes over
something that it has not seen, or two of them hold one thing at a time, the model
remembers it of that row and of no other, so that a property can say exactly what is
lost by it and hold everything else fast: `late`, `overtaken` and `twice` of the rows
of `Payments`, `overtaken` of a bill and `late` of a session in `Receivables`, `met`
in `BillGeneration` and `Contracts`, `named` in `Contracts`, `cut` in `Console`.

* `Payments`.  `payable`, `request`, `payment` are the tables of those names (a
  row not created yet is `ABSENT`); a row's `confirmed` and `approved` remember
  what the code keeps in the audit log and in `PaymentApproval` rows.
  `CreatePaymentRequest`, `PayDirect`, `PayRequest` are atomic; the rest are
  pairs.  `Payable(a)` is what `applyPayablePayment` refuses, `Settled` the amount
  and status it and `reversePayablePayment` write, `Refreshed` is
  `refreshPaymentRequestStatus`, `Derived` `derivePaymentAllocations`, `Matching`
  `ensurePaymentAllocationsMatchRequest`, `Reserved` the items of requests that
  are still open.  A payable is `late` once a confirmation was written over a status
  that payments had set, `twice` is what reversals of a payment reversed before took off
  it; a request is `overtaken` while a decision or a cancellation stands where payments
  had set the status.
* `Receivables`.  `bill` keeps status and total, `invoice` and `receipt` whether a
  document stands and what it allocates to each bill.  `Allowed` is the table of
  `ensureTransitionAllowed`, `Fits` is `ensureBillAllocationFits`, which sees one
  line at a time.  `BeginTransaction` is `ensureOpen` of the handlers that do the rest in
  one transaction (`MarkInvoiced`, `MarkReceived`, `CreateInvoice`, `CreateReceipt`):
  it reads on a connection of its own.  A bill is `overtaken` once a status was written
  over one that the writer had not read; a session is `late` if it was at work when
  the period closed; a document is `split` over the bills that two of its lines name.
* `BillGeneration`.  A run (`StartRun` to `EndRun`) reads contracts and items once,
  then takes each contract: `Skip` where a bill exists, otherwise `Read` (the draft
  charges) and `CommitBill` (bill and marked charges) or `FailBill` (the unique
  index, a deadlock, a lost connection; the API goes on with the next contract, the
  job ends).  `met` are the charges that two sessions have held at a time: a run that
  has read the charge and not yet written, or a cancellation.
* `Periods`.  `closePeriod` is `BeginClose`, `CloseBills`, `CloseCounts`,
  `CloseSnapshot`, `CloseCommit`, one for each await; `reopenPeriod` is
  `BeginReopen`, `ReopenSet`, `ReopenRow`.  Any handler that changes the month is a
  `BeginChange` (the lock) and a `Write` (one of `Changes`: bills issued, moved,
  voided, adjusted, received; receipts allocated and reversed; entries, debts and their
  payments; extra charges).  `Ask`, `Pay` and
  `ReversePayment` are what the payments of the month do without the lock.
  `PeriodSnapshot`, `CustomerProfit`, `OwnerRanking` are the report functions.
  `orderly` is a history variable: no change and no closing or reopening, and no two
  of the latter, have been under way together.
* `Outbox`.  Each await of the job is a step: `Take` (the row is read), `Claim`
  (`processing`, one attempt more), `Deliver`, `MarkSent`, or `MarkFailed` after an
  error; `Lose` is an update that fails where the job cannot answer for it, `Crash`
  the stop of the worker, after which the queue runs its jobs again.  `Enqueue` is
  whoever fills the queue: nothing in the repository polls the table.
* `Accounts`.  `Arrive` is `JwtAuthGuard`: a copy of the caller's row, roles and
  permissions, which the handler then trusts.  Pairs follow for each endpoint of
  `platform` and `identity`; `SeedRoles` and `SeedUsers` are a second run of
  `prisma/seed.ts`.  `MayManage`, `MayGrant`, `RolesFound`, `Listed` are the helpers of
  `IdentityService`.
* `Registry`.  A creation is `TakeRow`, `TakeLock`, `CheckCreate`, `Insert`, for each
  row of an import, and `Respond`; an update reads what it falls back on
  (`BeginUpdate`) before `CheckUpdate` holds the lock.  `kind` says, from the initial
  state on, whether the rows are customers or signing entities.
* `Contracts`.  `codeLock` is the advisory lock of a year, `rowLock` the lock that
  the first `UPDATE` of a transaction takes on the contract.  An update is
  `BeginUpdate`, `LockRow`, `ReadItem`, `Update`; `Synced` is
  `syncBaseFeeChargeItem`.  An item has an amount and says whether it has the base fee's
  name, is `FIXED`, is active; `AddItem`, `UpdateItem` and the items that a creation lists
  take any of these, as `chargeItemData` does.  `Bill` and `Charge` are the other
  modules' writes.  `named` are the contracts for which a request has itself made an
  item that charges a base fee, or listed two; `met` those at which something was
  written between a request's read and its write.
* `Session` and `Console`.  A `task` is an asynchronous function of the page; it
  keeps the token, month and identifiers it was started with.  A sign-in is
  `SubmitLogin`, `AssertLoginAllowed`, `Compare`, `LoginAnswer`, and the refresh that
  follows (`Me`, `ReadData`, `ApplyData`).  A form is `Submit`, then `Presign`
  and `Put` for each file, `Handle` at the API, `Answer`, and a refresh; `FormTable`
  says of each of the twelve forms what it saves, which selections it sends, which
  a fresh form starts from, when it uploads and what its answer selects.  `seen` and
  `selected` are the page's lists and selections, `dialog` and `viewer` what is
  open, `bucket` the promise `StorageService` remembers, `table` the API's rows,
  which `OthersAdd`, `OthersStep`, `OthersDelete` change too.  The history fields
  `meant` (what the user saw when choosing) and `done` (whether the API has done
  what the open dialog asked) and the history variable `cut` (whether its answer was
  lost, or an upload failed) are read by properties only.

### What is abstracted

Money is a small number of units.  All rows of `Payments`, `Receivables` and
`BillGeneration` belong to one accounting period, whose only state there is
`closed`; payables without a period, which the lock never concerns, are left out.
`closePeriod` checks bills, payables, requests and extra charges: each of these
modules contains the checks on its own tables, the checks of the others may
always succeed, so that a module allows at least the closings of the program, and its
separate counts are read in one `Begin`.  `Periods` is the other half: all counts, step
by step, over books of which a row has an amount and hardly a status.  A
transaction asks the period lock on another connection; the step reads both at once.
Several payable items of one payable in one request are merged.
`BillGeneration` has one charge item for each contract and a bill price of 0 means
that no item was used; `Contracts` has many, of each of which it keeps whether its name is
the base fee's, its kind, its amount, and whether it is active and has been billed, and
leaves out quantities, units and dates.  Totals of generated bills may be of
either sign, because `chargeItemData` takes any decimal; entered bills must be
positive, as the code asks.  `PayableStatus.VOIDED` and `BillStatus.CLOSED` are never
written by any handler and are in no model.  Audit rows are written with the change
they report and read by no handler: left out.

In `Accounts` a user is a status, an organization and a set of roles; names, addresses
and passwords are checked by unique indexes and hashes, where a request may end in
`Abandon`.  In `Registry` a name stands for all its spellings and a code is a
number.  In `Console` a row is a status and the references the page sent for it;
what the API does with it is the matter of the other modules.

A definition named `<name>_<change>` is an altered form of `<name>`, used by no
action.  Put in its place, it shows that a property would notice the change.

## 3. What is checked

The nine runs that pass, all but `OutboxDelivery` and `ConsoleClicks` with two sessions
or requests that interleave:

| Run | Instance | Distinct states | Shows |
|---|---|---|---|
| `Payments` | 1 payable, 1 request, 2 payments, amounts 1-2, 2 sessions | 1,834,087 | `TypeOK`; `NothingPaidBeforeApproval`; `RequestNotOverspent`; `PaidStatusEarned`; `LedgerAgrees`: the stored balance is what the standing payments allocate less exactly what repeated reversals took off, and the status follows from it but for a late confirmation; `RequestAgrees`: the same of requests; `ImplementsLedger`: accounts payable refines the ledger |
| `Receivables` | 1 bill, 1 invoice, 2 receipts, two lines for a bill, amounts 1-2, totals down to -1, adjustments -1 and 1, 2 sessions | 3,190,639 | `TypeOK`; `UnconfirmedUnallocated`: nothing stands against a bill in review unless its status was written over; `AllocationsFit`: no step but a document with two lines for a bill goes beyond a total; `ClosedFrozen`: only who was past `ensureOpen` writes to a closed month |
| `BillGeneration` | 2 contracts of a customer, 1 charge, 1 price, 2 sessions, fair | 1,152,024 | `TypeOK`; `ChargesFollowBills`; `ChargedOnce` and `CancelledNotBilled` of every charge that two sessions have not held at a time; `EveryContractBilled`, with failing transactions, collisions and reruns |
| `PeriodClosing` | 1 bill, 1 receipt, 1 cost entry, 1 further debt, 1 recipient, 2 customers (one with 2 owners), 2 sessions, amount 1, 2 rows of history | 2,723,850 | `TypeOK`; `ReportsAgree`: profit by customer adds up to the snapshot; `ClosedAsReported`: while changes do not meet a closing, a closed month is as its last history row says, with nothing left to pay, bill or receive |
| `OutboxDelivery` | 1 event, 4 jobs for it, 2 at a time, 3 faults, fair | 83,128 | `OutboxTypeOK`; `SentWasDelivered`; `ImplementsPromise`: nothing is delivered that is not recorded, and what is recorded is delivered in the end |
| `AccountsManaged` | the seed's super admin and tenant admin, 1 more user, 2 tenants, 2 sessions, four sets of roles, two of permissions, the seed once more | 1,939,986 | `TypeOK`; `PowersConfined` and `AdminsAreAppointed` under every interleaving; `SuperAdminRemains` one request at a time |
| `RegistryShared` | 2 rows, 2 names, 2 users (one sees only what it owns), 2 requests, imports of two rows, both kinds | 2,344,841 | `TypeOK`; `NamesUnique` and `ImportAnswersAll` however requests overlap; `OnePrimaryOwner` one request at a time |
| `ContractsShared` | 2 contracts, one of them with items, 1 customer, 1 year, 1 file, 1 fee, 2 items of any name and kind, 2 requests | 3,595,685 | `TypeOK`; `CodesFree` however requests overlap; `OneBaseFee`: setting a base fee makes no second item that charges one, where no request made such an item itself; `RecordsKeepContract` and `BilledItemsKept`, where nothing was written between a request's count and its write |
| `ConsoleClicks` | 2 users, 2 tokens, 2 tasks, 2 months, lock after 1 failure, 1 click made while the page works, 2 rows of a kind, five scenes | 1,803,317 | `TypeOK`; `EvidenceStored` always; `SessionAgrees`: the cookie is its token's, and who waits has the session on the screen in the cookie; for who waits, `OpenMeansUndone`: a dialog that is open although its action is done is one whose answer was lost or, where files are uploaded afterwards, one whose upload failed; `AsMeant`: an action is about the rows that were chosen |

Three runs expect a violation of what a document or a test of the repository says:

| Run | Property | Says |
|---|---|---|
| `PaymentsCancelled` | `CancelledUnpaid` | "Payment requests can be cancelled only before any payment is registered." (`docs/process/formal-operations.md:101`) |
| `ReceivablesSplitLines` | `NotOverAllocated` | "允许分摊金额超过账单余额或应付余额。" is forbidden: no allocation exceeds a bill's balance (architecture document, lines 345 and 349) |
| `ReceivablesNeverCloses` | `CompleteMonthCloses` | "Receivable period was not auto-closed.", "Billing period was not auto-closed after received bill and paid payable." (`apps/api/test/business-flow.e2e.ts:819, 1105`) |

What the conditions leave out.  The properties of `Payments`, `Receivables`,
`BillGeneration` and `Contracts` name the row on which an overlap has landed and hold of
all others, in every interleaving.  Those that hold "one request at a time" or "for a
user who waits" are weaker: the conditions `quiet` (`Accounts`, `Registry`), `orderly`
(`Periods`) and `Quiet` (`Console`) are history variables that become false for good
when two requests that matter overlap (or half of the seed runs), or a user clicks while
the page works.  Such a property says nothing about the overlap itself, and no hazard
that is one is credited to it in `PROJECT.json`; section 4 says what happens there.

Why these sizes.  Two payments are the least with a partial payment and its
complement, two payables (`PaymentsTwoPayables`) the least that a greedy derivation can
split.  Amounts 1 and
2 give zero, a part and the whole of a balance.  Two sessions are the least that
interleave, and no handler looks at more than one competing write.  Two contracts
of one customer are the least for a charge that names no contract to be billed
twice.  In `PeriodClosing` a bill, a receipt, a cost entry with its payable and a debt of its
own are one of each term of the snapshot, and two rows of history are a closing and its
reopening, or a second closing; once the history is full no request begins, since none
could close the month any more.  Four jobs for one event are one more than the faults,
the least with which delivery is certain; with two at a time jobs overlap in every state, and
events do not read each other.  Three users are one who manages, one who is managed,
and one who comes in between; a second run of the seed is like a third.  Two rows of the
registry are the least that clash, two names the least with a short and a full form
that differ.  Two items of a contract are an item already billed and the one that
replaces it.  In the page two tasks are an action and the refresh of another, two
rows the least among which a selection can slip.  The scenes keep to the forms with
the most in `FormTable` (a status change of the selected row; a form that makes and edits
and uploads afterwards; one that sends two selections and uploads before) and to the
viewer; each other form does a part of what one of these does.  The scene of
`billStatus` with expiring sessions and two tokens (4,676,465 distinct states) passes
too and is left out for its time.  `MaxTotal`, `MaxHistory`, `MaxSeeds`, `MaxUsed`,
`MaxItems`, `MaxRows`, `MaxBusy`, `MaxJobs`, `MaxFaults` bound what would grow without
end, and pools of rows run out, which is why deadlock is not checked: the program is a
service whose clients may stop asking.  Symmetry is used where only safety is checked
and ids are interchangeable.

### Fairness

`BillGeneration!Fairness`: sessions end (weak fairness of `Finish`: timeouts and
the queue's retry see to it), somebody starts the generation again and again
(finance repeats it until the month is complete; the queue retries attempts),
each contract is reached again and again and its transaction does not fail every
time (strong fairness of `Read` and `CommitBill`).  `StartRun` has no condition
on what happened before, which is what makes the property true.

`Outbox!OutboxFairSpec`: the queue runs its jobs (weak fairness of each job's next step),
and whoever fills the queue asks again for an event (weak fairness of `Enqueue`).
The second is an assumption about code that is not in the repository; without
it a recorded event is never delivered, because nothing reads the table.

`Receivables!FinanceKeepsGoing`: finance marks what can be marked and closes when it
can.  It makes the counterexample of `ReceivablesNeverCloses` a statement about
the code: even so the month is not closed.

### Further configurations and properties

`PaymentsTwoPayables` (2 payables, 1 request, 2 payments, 1 session; 842,065 distinct
states) checks the properties of `Payments` where a payment is split over payables.

These properties hold too; to check one, put it in the place of the properties of the
configuration named.

| Property | Configuration | Says |
|---|---|---|
| `Receivables!FirstStatusUnallocated` (proved) | `Receivables` | a bill in its first status has no document, whatever overlaps |
| `Outbox!DeliveriesCounted`, `SentIsLeftAlone` (proved) | `OutboxDelivery` | attempts are never fewer than deliveries; a sent event stays sent |
| `Accounts!ListsWhatIsManaged`, `ClosedTenantsAreEmpty` (proved), `AdminsOutOfReach` (proved) | `AccountsManaged` | who is listed is who may be managed; a tenant switched off stays without active users; nobody below a super admin changes another tenant admin |
| `Registry!CodesFree`, `OwnersChange`, `NamesAsAsked` (proved) | `RegistryShared` | no creation fails for its code; only who sees a customer changes it; names change as asked |
| `Registry!PaymentRequestsKeepCustomer` (proved) | `RegistryShared` with one request | a payment request keeps its customer |
| `Contracts!FilesHaveContracts`, `FeeIsCharged` (proved) | `ContractsShared` | a file's contract exists; a base fee that is set is charged, where nothing was written between the read and the write |

## 4. What does not hold

TLC refutes the following, each a claim one might expect of the program, and most of
them a claim that a document, a message or a test of the repository makes; the fourth
column quotes it (FO is `docs/process/formal-operations.md`, AR the architecture document
in `docs/architecture`).  They are stated in the modules next to the properties that do
hold, which are what remains of them.  A configuration of that name is kept where the
third column says so; the others are found with the configuration and the changes
named.  The three in bold are runs of the project, each with a finding.

| Property | Module | Configuration | Contradicts | What happens |
|---|---|---|---|---|
| `NoOverpayment` | `Payments` | `PaymentsOverpaid` | AR:349, no allocation beyond a payable's balance | `reversePayment` (finance:1373) reads the payment before its transaction: two reversals both take its allocations off the payable, which can then be paid again |
| `CancelledUnpaid` | `Payments` | **`PaymentsCancelled`** | FO:101 | a stale cancellation lands on a request paid meanwhile |
| `RejectedUnpaid` | `Payments` | `Payments` | "Only submitted payment requests can be decided." (finance:2039) | a stale rejection lands on a request approved and paid meanwhile |
| `PaidInFullIsPaid` | `Payments` | `Payments` | "Only unpaid payables can be confirmed." (finance:893) | a stale confirmation sets a paid payable back to `CONFIRMED` |
| `ClosedRequestsFinished` | `Payments` | `PaymentsClosedRequest` | FO:105, no closing with unfinished payment requests | with one session: reversing a payment that names no payable asks no lock, and its request is unfinished in a closed period |
| `NotOverAllocated` | `Receivables` | **`ReceivablesSplitLines`**, `ReceivablesAdjusted` | AR:349, no allocation beyond a bill's balance | `createInvoice` and `createReceipt` check lines one by one against stored rows (finance:290, 421): two lines for one bill pass although their sum does not fit; an adjustment goes below what is invoiced |
| `TotalsNotNegative` | `Receivables` | `ReceivablesNegativeTotal` | "Bill total amount cannot be negative." (billing:1136) | a generated bill has a negative total |
| `StatusFollowsTable` | `Receivables` | `ReceivablesStatusRaced` | "Cannot change bill from ${from} to ${to}." (billing:1201) | two transitions are judged on the same status and written one after the other |
| `ClosedFrozenAlways` | `Receivables` | `ReceivablesClosedRaced` | FO:96, no edits of a closed period | a handler past `ensureOpen` writes after the closing |
| `InvoicedBillsAreInvoiced` | `Receivables` | `ReceivablesInvoiceVoided` | AR:211, whether a bill is invoiced is computed from allocations | the bill stays `INVOICED` when its invoice is voided |
| `ClosedMeansReceived` | `Receivables` | `ReceivablesReceiptReversed` | "All receivable bills in this period must be received before closing." (finance:1477) | `reverseReceipt` leaves the bill `RECEIVED`, and `closePeriod` looks at statuses |
| `CompleteMonthCloses` | `Receivables` | **`ReceivablesNeverCloses`** | the end-to-end test, lines 819 and 1105; the reason text of `period-lock.service.ts:168` | a bill invoiced and received through documents of its own can never be marked `RECEIVED` ("Bill is already fully received."), only `RECEIVED` bills let a period close, and nobody calls `autoCloseIfReady` |
| `ChargedOnceAlways` | `BillGeneration` | `BillGenerationChargedTwice` | AR:175, a run can safely be repeated (of runs after a failure; nothing is said of two at once) | two runs read a draft charge that names no contract and bill it on two contracts of the customer |
| `CancelledNotBilledAlways` | `BillGeneration` | `BillGenerationCancelled` | FO:100, billed charges are corrected through adjustments | a cancellation meets a generation run |
| `UsedItemsKept` | `BillGeneration` | `BillGenerationItemEdited` | FO:99 and contracts:948, used items are not edited | an edit meets a generation run |
| `ClosedWithoutDrafts` | `BillGeneration` | `BillGeneration` | FO:105, no closing with draft extra charges | a charge is created between the count and the closing |
| `ClosedAsReportedAlways` | `Periods` | `PeriodClosing` | FO:96 | a change passes the lock before the closing and writes after it |
| `ClosedOnce` | `Periods` | `PeriodClosing` | | two requests to close both pass the status and both write history |
| `ClosedWithoutRequests` | `Periods` | `PeriodClosing` | FO:105 | as `ClosedRequestsFinished`, in an otherwise orderly month |
| `RankingAddsUp` | `Periods` | `PeriodClosing` | | a customer with two owners counts in full for both |
| `OneBaseFeeAlways` | `Contracts` | `ContractsStaleItem`; `ContractsShared` | | `addChargeItem` takes a second item of the base fee's name, a creation may list two, and `updateChargeItem` may rename one or switch it on: with one request.  `ContractsStaleItem` leaves all of these out: an update that gives the amount alone has read that the item is active, an update of the base fee ends the item and adds its successor, and then the first writes the item active again (contracts:368) |
| `ContractsKeepFiles` | `Contracts` | `ContractsShared` | | a request that attaches a file of another contract takes it away there |
| `ChargesFollowContract` | `Contracts` | `ContractsShared`, 2 customers, 1 request | | a contract whose customer changes leaves its extra charges with the customer it had |
| `SuperAdminRemains` without `quiet` | `Accounts` | `AccountsManaged` | "At least one active super admin is required." (platform:307); FO:65 | two super admins switch each other off; both counted the other |
| `OnePrimaryOwner` without `quiet` | `Registry` | `RegistryShared` | | two `setOwners` each delete the rows they have seen and create their own |
| `BilledItemsKept` without `met` | `Contracts` | `ContractsShared` | FO:99 | a bill uses an item between the count and the write |
| `RecordsKeepContract` without `met` | `Contracts` | `ContractsShared` | | a bill is made between `remove`'s count and its delete |
| `SignedOutForGood` | `Console` | `ConsoleClicks` | | a refresh under way at the sign-out brings the cookie back |
| `AlwaysAsMeant` | `Console` | `ConsoleClicks` | | a refresh replaces the selection under an open dialog, whose action then goes to another row |
| `ViewerShowsOwn` | `Console` | `ConsoleClicks`, `MaxBusy = 2` | | the list of one row's attachments arrives in the dialog of another |
| `AsMeantAfterwards` | `Console` | a scene of `billStatus` with expiry and 2 tokens | | a status dialog open when the session ends comes back after the next sign-in, about the first row |
| `DoneIsToldSo` | `Console` | `ConsoleClicks` | | the refresh after an action that succeeded fails, and the page tells of a failure |
| `OpenMeansUndoneAlways` | `Console` | `ConsoleClicks` | | an action whose answer was lost, or a payment recipient whose files fail to upload, stays open as a new one and is made twice |

Of the sentences quoted, those of FO are rules for the people who use the system as much
as for the code, and the messages are those of the check that a second request slips
past; the three runs are the ones for which the sentence is plainly about what the
program does.

## 5. What is proved

TLAPS checks the following for every set of rows, every set of sessions and all
amounts.  The assumptions are the named ones of the modules: the sets of rows
that totals range over, or among which the last code is looked for, are finite; amounts
are positive naturals; the platform is no tenant; `None` is no id, no form and no
session cookie, and the like.  No theorem assumes one session, or that no document
names a bill twice: what an overlap or a second line takes away is written into the
property, for the row on which it has happened (`late`, `twice`, `overtaken`, `split`,
`met`, `named`).  The properties of one request at a time carry their condition (`quiet`,
`orderly`, `Quiet`) themselves; their theorems hold for any number of requests, and say
nothing once two have overlapped.

Every invariant and every action property of the runs is stated by a theorem; of the
two refinements the ledger's is, and the safety part of the outbox's.

| Theorem | Module | States | Inductive invariant |
|---|---|---|---|
| `PaymentsTypes` | `PaymentsProofs` | `[]TypeOK` | `TypeOK` |
| `PaidStatusIsEarned` | `PaymentsProofs` | `[]PaidStatusEarned` | with `TypeOK` |
| `ApprovalBeforeMoney` | `PaymentsProofs` | `[]NothingPaidBeforeApproval` | `ApprovedFirst` |
| `RequestsWithinAmount` | `PaymentsProofs` | `[]RequestNotOverspent` | with `ApprovedFirst` |
| `StoredBalancesAgree` | `PaymentsProofs` | `[]LedgerAgrees` | `LedgerInv` |
| `RequestsAgree` | `PaymentsProofs` | `[]RequestAgrees` | `RequestInv` |
| `PaymentsImplementLedger` | `PaymentsProofs` | `ImplementsLedger` | `LedgerInv` |
| `ReceivablesTypes` | `ReceivablesProofs` | `[]TypeOK` | `TypeOK` |
| `FirstStatusIsUnallocated` | `ReceivablesProofs` | `[]FirstStatusUnallocated` | with `TypeOK` |
| `StepsFit` | `ReceivablesProofs` | `AllocationsFit` | `TypeOK` |
| `ClosedStaysFrozen` | `ReceivablesProofs` | `ClosedFrozen` | `TypeOK`, `BusyAreLate` |
| `UnconfirmedStayUnallocated` | `ReceivablesProofs` | `[]UnconfirmedUnallocated` | with `SessionsDecided`, `EarlyUnallocated` |
| `BillGenerationTypes` | `WorkerProofs` | `[]TypeOK` | `TypeOK` |
| `BilledChargesFollow` | `WorkerProofs` | `[]ChargesFollowBills` | `Consistent` |
| `UncontendedChargedOnce` | `WorkerProofs` | `[]ChargedOnce` | `Kept` |
| `UncontendedCancelledNotBilled` | `WorkerProofs` | `[]CancelledNotBilled` | `Kept` |
| `PeriodsTypes` | `PeriodsProofs` | `[]TypeOK` | `TypeOK` |
| `ClosedIsAsReported` | `PeriodsProofs` | `[]ClosedAsReported` | `Inv` |
| `ReportsAlwaysAgree` | `PeriodsProofs` | `[]ReportsAgree` | `TypeOK`, with the laws of sums |
| `OutboxTypes` | `WorkerProofs` | `[]OutboxTypeOK` | `OutboxTypeOK` |
| `DeliveriesAreCounted` | `WorkerProofs` | `[]DeliveriesCounted` | `OutboxInv`, by `Ahead` |
| `SentIsDelivered` | `WorkerProofs` | `[]SentWasDelivered` | `OutboxInv` |
| `SentStays` | `WorkerProofs` | `SentIsLeftAlone` | `OutboxInv` |
| `KeepsPromise` | `WorkerProofs` | the safety part of `ImplementsPromise` | `OutboxInv` |
| `AccountsTypes` | `AccountsProofs` | `[]TypeOK` | `TypeOK` |
| `PowersStayConfined` | `AccountsProofs` | `[]PowersConfined` | `Inv` |
| `AdminsStayAppointed` | `AccountsProofs` | `AdminsAreAppointed` | `TypeOK /\ Appointed` |
| `SuperAdminStays` | `AccountsProofs` | `[]SuperAdminRemains` | `QuietInv` |
| `ClosedTenantsStayEmpty` | `AccountsProofs` | `[]ClosedTenantsAreEmpty` | `QuietInv` |
| `AdminsStayOutOfReach` | `AccountsProofs` | `AdminsOutOfReach` | `QuietInv` |
| `RegistryTypes` | `RegistryProofs` | `[]TypeOK` | `TypeOK` |
| `NamesStayUnique` | `RegistryProofs` | `[]NamesUnique` | `RegInv` |
| `CodesStayFree` | `RegistryProofs` | `[]CodesFree` | `RegInv` |
| `ImportsAnswerAll` | `RegistryProofs` | `[]ImportAnswersAll` | `Inv` |
| `OnePrimaryOwnerStays` | `RegistryProofs` | `[]OnePrimaryOwner` | `Inv` |
| `PaymentRequestsStay` | `RegistryProofs` | `[]PaymentRequestsKeepCustomer` | `Inv` |
| `OwnersDecide` | `RegistryProofs` | `OwnersChange` | `Inv` |
| `NamesChangeAsAsked` | `RegistryProofs` | `NamesAsAsked` | `Inv` |
| `ContractsTypes` | `ContractsProofs` | `[]TypeOK` | `TypeOK` |
| `CodesStayFree` | `ContractsProofs` | `[]CodesFree` | `Inv` |
| `OneBaseFeeAtATime` | `ContractsProofs` | `[]OneBaseFee` | `Inv`, by `ItemRead` |
| `FilesStayWithContracts` | `ContractsProofs` | `[]FilesHaveContracts` | `Inv` |
| `RecordsStayWithContract` | `ContractsProofs` | `RecordsKeepContract` | `Inv`, by `Undisturbed` |
| `BilledItemsStay` | `ContractsProofs` | `BilledItemsKept` | `Inv`, by `Undisturbed` |
| `FeeStaysCharged` | `ContractsProofs` | `FeeIsCharged` | `Inv`, by `Undisturbed` |
| `ConsoleTypes` | `ConsoleProofs` | `[]TypeOK` | `Sound` |
| `EvidenceIsStored` | `ConsoleProofs` | `[]EvidenceStored` | `Sound /\ Uploads /\ EvidenceStored` |
| `SessionAlwaysAgrees` | `ConsoleProofs` | `[]SessionAgrees` | `Waiting` |
| `OpenDialogsAreUndone` | `ConsoleProofs` | `[]OpenMeansUndone` | `Sound /\ FilesFit /\ Answering /\ Afterwards` |
| `ActionsAreAsMeant` | `ConsoleProofs` | `[]AsMeant` | `Waiting /\ Meant` |

**Totals** (`PaymentsProofs`, `ReceivablesProofs`, `PeriodsProofs`).  A total is the
cardinality of a set of units, so that its laws follow from the library's facts about
finite sets without induction over data: its type, what an empty table adds up to,
monotony, and the effect of changing one term (`TotalType`, `TotalZero`,
`TotalMonotonic`, `TotalChange`).  Two laws are what the reports need: the sums over
the parts of a set, told apart by a key, add up to the sum over the set (`TotalByKey`), and
the sum of two functions is the sum of their sums (`TotalOfSum`).  Both are bijections
between sets of units, written down as functions.

**Approval before money.**  `NothingPaidBeforeApproval` is not inductive: a payment
is let through because of a status, so the invariant must say what a status
promises (`StatusAgreed`: a status after confirmation or approval implies the
decision, and an absent row has none), and a reversal writes a status because of a
payment it read earlier, so that payment must still be there (`ReversesPosted`).
The steps that write unconditionally (a stale decision, a stale confirmation) keep
these because decisions are never taken back: `PayableAdvances`, `RequestAdvances`
and `PaymentsKept` say so of every step.

**A request is not overspent.**  Registering is the only step that adds to
`PaidFor`; it compares the sum over committed rows with the amount inside its
transaction.  `ApprovedFirst` gives that a request created in a free row has no
earlier payments, which is why its amount may be set at will.

**Balances and refinement.**  A payable's row remembers how many units repeated reversals
took off it (`twice`) and whether a confirmation was written over payments (`late`), so
that `LedgerAgrees` can say of every interleaving what the stored columns are.  It is not
inductive: `LedgerInv` adds that money comes after confirmation, that a paid status is
earned, and that whoever is about to write a payable or a request has read one that
exists (`PendingExist`).  A reversal of a payment that still counts changes
`paidAmount` and the sum of allocations by the same amount (`LiveChange`); a reversal of
one that somebody else has reversed meanwhile changes `paidAmount` alone, and `twice` with
it (`TakenOff`, `TwiceOnly`).  For the refinement each handler that touches debts or entries
has a lemma: `CommitCreatePayable` is `Enter`, a first `CommitConfirmPayable` is
`Confirm` and a later one a stutter, `Register` is `Post` (the stored balance it
compares equals what the ledger computes, by `LedgerAgrees`), `CommitReversePayment` is
`Reverse` or, the second time, `ReverseAgain`; all else leaves the ledger alone.  The
ledger promises no more than the code keeps: an entry may be written off twice, which is
why `NoOverpayment` does not follow.

**Receivables.**  A step leaves a document table alone, writes one absent document
or cancels one (`DocumentsStep`); that carries the types and shows that only
writing can raise what stands on a bill.  `Fits` compares the sum of standing
documents with the total in the transaction that writes, line by line, so a step
raises it beyond the total only with a document that names the bill on two lines
(`split`).  That is an action property: an adjustment can still lower the total below the
sum, and the invariant `NotOverAllocated` is false.

**Generation.**  `Consistent` adds to `ChargesFollowBills` that a contract without a
bill carries no charges (`NoBillNoCharges`) and that a run holds only charges the
contract may be billed, each of which existed when they were read (`FoundKnown`).
A charge is never a draft again, so a stale run or a stale cancellation can
move a charge only among the states the property allows.

**Charges held by two sessions.**  `met` collects the charges that two sessions held as
drafts at one time.  For all others `Kept` adds to `Consistent` that one session at most
holds the charge (`OneHolder`) and that it is a draft as long as it is held
(`HeldAreDrafts`).  With that a bill takes charges that are on no other bill, and a
cancellation meets none that is billed, although any number of other sessions runs.

**Requests.**  `RequestInv` says of each request that its amount is positive and, unless a
decision or a cancellation was written over payments (`overtaken`), that its status fits
what is paid (`RequestSound`).  A registration or a reversal refreshes a status from the
payments that are known, whatever others have read, and clears `overtaken`; a decision or
a cancellation that lands on a status set by payments sets it, and one that lands on any
other leaves the two in agreement, since nothing is paid there (`OverwrittenSound`).

**Frozen months.**  The period lock is asked when a handler begins, so the invariant says who
may still be at work in a closed period: those that were past the lock when it closed
(`BusyAreLate`).  The handlers of one transaction need an open period, so a step
that writes a bill or a document of a closed month is one of theirs.

**Bills in review.**  `EarlyUnallocated` is `UnconfirmedUnallocated` in the form that steps
keep: a bill that nobody has confirmed is named by no document, standing or not, unless a
status was written over one that it was not judged on (`overtaken`).  What a session is to
write follows the table from the status that it read (`SessionsDecided`), and the
table leads to these statuses from these statuses only (`FollowsTable`).

**Outbox.**  Attempts run ahead of deliveries by the jobs that have claimed and not yet
delivered (`Ahead`), which is why counting before delivering never misses one.
`KeepsPromise` maps `Record` and the first `Deliver` of an event to the two
actions of the promise and every other step to a stutter; a job that runs has a row
to run for (`RowsStay`).

**Powers.**  What a request is about to write was judged on a copy of its caller, so the
invariant speaks of sessions (`ConfinedSession`): a caller with the role of super
admins is of the platform, and roles or permissions about to be written stay in their
bounds for the organization they are written to, which a user never changes.
`Appointed` says the same of the role of tenant admins: only a session whose caller is
a super admin is about to give it.

**One request after another in `Accounts`.**  `QuietInv` says of the one request under way
that its copy of the caller is the caller's row (`CallerCurrent`), that the caller is not
about to switch himself off, and that who is about to change a super admin, a tenant or
another tenant admin is a super admin (`CallerStays`).  When such a write lands the
caller is an active super admin still, which is all that `SuperAdminRemains` asks; the
counts in the code are not needed for it.  That nobody becomes active in a tenant that was
switched off needs that a request found the tenant active (`TenantStays`).

**Reports.** `ReportsAgree` needs no more of a state than its type: it is a law of the
three report functions. The rows of a month are told apart by customer (`TotalByKey`),
and a customer's profit is a sum of sums (`TotalOfSum`).

**Registry.** Who has looked for duplicates and has not yet written holds the advisory
lock (`Locked`), and what the check found is still so (`Checked`: no clash, the code not
in use), because nobody else writes names or codes without the lock. Creations name
different ids (`Apart`). That the next code is free asks for a largest code, which a
finite set has (`LastOf`, by the library's well-founded order of subsets). `Quiet` says
of the one request under way that it may touch its row and that what it has read is
still so (`SoundJob`), and of each customer that it has one primary owner (`PrimaryOf`).

**Contracts.** A request between reading and writing under a lock holds it
(`LocksHeld`). Under the lock of its row an update has read the item that carries the
base fee, and until it writes no other item of the contract comes to carry it
(`ItemRead`), unless a request makes, renames or switches on an item so that it
does, which `named` remembers: whatever else makes one takes the lock of the row. That gives
`OneBase`. `met` remembers the contracts for which something was done between a request's
count and its write; for the others what was counted or read is still so (`ReadStill`):
nothing refers to a contract about to be removed, an item about to be edited has not been
used.

**Console.** `Sound` says of each task, by how far it has come, what it holds (`Work`):
a token that was issued to the user it names (`Issued`), rows that exist (`RowsStay`),
an id where its request needs one (`IdsGiven`), and that the counter of failures exceeds
its limit by comparisons under way only (`Counted`), which bounds it. `Uploads` follows
a file from its row to its object: an action past its uploads has all of them stored,
and no step takes an object away. For a user who waits there is one task at most
(`OneTask`), and whatever it holds is the page's (`Settled`: the token, the cookie, the
user, the rows). A dialog whose action is done still has the task that will close it
(`Answering`), unless its answer was lost or an upload after it failed, which `cut`
remembers; uploads come after the API only where the form has them there
(`Afterwards`), because the forms which upload before have done so when the request is
sent (`FilesFit`). `Meant` says that
while a dialog or a viewer is open the selection is what it was opened for or was chosen
in it (`Chosen`), and that a task which may replace a selection, a refresh, is under way
only while nothing is open, whereas one that brings attachments does so to the viewer it
was started from (`AboutChosen`).

## 6. What is only model-checked

* `EveryContractBilled` and the liveness part of `ImplementsPromise`: liveness under
  fairness is beyond the prover, and so is ENABLED.
* `ListsWhatIsManaged`: two functions of the caller compared, which TLC does for all
  sets of roles there are.
* Every counterexample.

No module declares a RECURSIVE operator, and nothing is proved by induction over data:
the library states induction with an operator as parameter, which the installed provers
cannot instantiate. Where one would expect it, in sums and in the last code of a year,
the proofs build a bijection or take a minimal element of a well-founded order (`WFMin`,
`FS_StrictSubsetOrderingWellFounded`), which are stated without operators.

## 7. How the project was built, and what could follow

The order was that of consequence: money paid (`Payments`), money received
(`Receivables`), bills made (`BillGeneration`), the lock around them (`Periods`), side
effects (`Outbox`), powers (`Accounts`), master records (`Registry`, `Contracts`), and
the page that drives it all (`Session`, `Console`).  What would come next: the page's
remaining buttons (section 8), and refinements that relate the modules' views of one table,
as the payables of `Payments` and of `Periods`.

## 8. What is not modelled and why

* Page: rendering, filters, sorting and the permissions that hide buttons, which the API
  enforces again; the buttons that close or reopen a period and delete a row, which are a
  confirmation and one call (deletions by others are `OthersDelete`).
* `updateEvidenceAttachments` of a bill, `updatePaymentRecipient` beyond switching off,
  `updateTenant`: they replace fields that decide nothing.
* Contacts and billing profiles of customers, contract kinds, tiers and rule
  templates, cost and charge categories: reference data.
* The import of contracts: a loop over `create`, as that of customers in `Registry`.
* `autoCloseIfReady`: nobody calls it.
* Excel import and export: parsing and layout.  The audit log: rows appended and read
  back only by a list.
* Request parsing, paging, money formatting, permission decorators: functions of one
  request without state.
* The health endpoint, migrations, demonstration data, the shared packages (environment
  and constant tables).
