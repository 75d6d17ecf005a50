---------------------------- MODULE WorkerProofs ----------------------------
(***************************************************************************)
(* Theorems about the two queues of the worker.                            *)
(*                                                                         *)
(* BillGeneration, for every set of contracts, charges, prices and         *)
(* sessions.                                                               *)
(*                                                                         *)
(* Outbox, for any events, any number of jobs, any concurrency and any     *)
(* number of faults: the type invariant, that the deliveries are counted,  *)
(* that what is sent was delivered, and that the queue implements the      *)
(* safety part of AtLeastOnce.                                             *)
(***************************************************************************)
EXTENDS BillGeneration, Outbox, FiniteSetTheorems, TLAPS

ChargeRow ==
    [status : {"ABSENT", "DRAFT", "BILLING_INCLUDED", "CANCELLED"},
     contract : Contracts \cup {None}]

Running == [op : {"run"}, todo : SUBSET Contracts,
            read : [Contracts -> Item]]

Billing == [op : {"bill"}, todo : SUBSET Contracts,
            read : [Contracts -> Item], id : Contracts, found : SUBSET Charges]

(* What a run or a handler about to write has read.                        *)
LEMMA PendingRow ==
    ASSUME TypeOK, NEW s \in Sessions
    PROVE  /\ session[s].op = "run" => session[s] \in Running
           /\ session[s].op = "bill" => session[s] \in Billing
           /\ session[s].op = "manual" => session[s].id \in Contracts
           /\ session[s].op = "create" =>
                session[s].contract \in Contracts \cup {None}
           /\ session[s].op = "cancel" => session[s].id \in Charges
           /\ session[s].op = "update" =>
                session[s].id \in Contracts /\ session[s].to \in Item
<1>1. session[s] \in Pending
  BY DEF TypeOK
<1>2. ASSUME session[s].op = "run" PROVE session[s] \in Running
  BY <1>1, <1>2 DEF Pending, Idle, Running
<1>3. ASSUME session[s].op = "bill" PROVE session[s] \in Billing
  BY <1>1, <1>3 DEF Pending, Idle, Billing
<1>4. ASSUME session[s].op = "manual" PROVE session[s].id \in Contracts
  BY <1>1, <1>4 DEF Pending, Idle
<1>5. ASSUME session[s].op = "create"
      PROVE  session[s].contract \in Contracts \cup {None}
  BY <1>1, <1>5 DEF Pending, Idle
<1>6. ASSUME session[s].op = "cancel" PROVE session[s].id \in Charges
  BY <1>1, <1>6 DEF Pending, Idle
<1>7. ASSUME session[s].op = "update"
      PROVE  session[s].id \in Contracts /\ session[s].to \in Item
  BY <1>1, <1>7 DEF Pending, Idle
<1> QED BY <1>2, <1>3, <1>4, <1>5, <1>6, <1>7

-----------------------------------------------------------------------------
(* Types, one table at a time.                                             *)

LEMMA TypeInit == Init => TypeOK
<1> SUFFICES ASSUME Init PROVE TypeOK
  OBVIOUS
<1>1. bill \in [Contracts -> Bill]
  BY DEF Init, Bill
<1>2. charge \in [Charges -> ChargeRow]
  BY DEF Init, ChargeRow
<1>3. item \in [Contracts -> Item]
  BY DEF Init, Item
<1>4. session \in [Sessions -> Pending]
  BY DEF Init, Pending
<1> QED BY <1>1, <1>2, <1>3, <1>4 DEF TypeOK, ChargeRow, Init

(* The handlers that write bills, charges and items: all others leave the   *)
(* three tables as they are.                                               *)
LEMMA WhoWrites ==
    ASSUME [Next]_vars
    PROVE  \/ UNCHANGED <<bill, charge, item>>
           \/ \E s \in Sessions, c \in Contracts : CommitBill(s, c)
           \/ \E s \in Sessions : CommitManualBill(s)
           \/ \E s \in Sessions, x \in Charges : CommitCreateExtraCharge(s, x)
           \/ \E s \in Sessions : CommitCancelExtraCharge(s)
           \/ UNCHANGED <<bill, charge, session>> /\
                \E s \in Sessions, c \in Contracts : DeactivateChargeItem(s, c)
           \/ UNCHANGED <<bill, charge>> /\
                \E s \in Sessions : CommitUpdateChargeItem(s)
<1>1. CASE UNCHANGED vars
  BY <1>1 DEF vars
<1>2. ASSUME NEW s \in Sessions, StartRun(s)
      PROVE  UNCHANGED <<bill, charge, item>>
  BY <1>2 DEF StartRun
<1>3. ASSUME NEW s \in Sessions,
             \/ \E c \in Contracts :
                  Skip(s, c) \/ Read(s, c) \/ BeginManualBill(s, c)
             \/ \E c \in Contracts \cup {None} : BeginCreateExtraCharge(s, c)
             \/ \E x \in Charges : BeginCancelExtraCharge(s, x)
             \/ \E c \in Contracts, to \in Item : BeginUpdateChargeItem(s, c, to)
             \/ BeginClosePeriod(s)
             \/ BeginReopenPeriod(s)
      PROVE  UNCHANGED <<bill, charge, item>>
  BY <1>3 DEF Skip, Read, BeginManualBill, BeginCreateExtraCharge,
    BeginCancelExtraCharge, BeginUpdateChargeItem, BeginClosePeriod,
    BeginReopenPeriod
<1>4. ASSUME NEW s \in Sessions,
             \/ FailBill(s) \/ EndRun(s) \/ Abandon(s)
             \/ CommitClosePeriod(s) \/ CommitReopenPeriod(s)
      PROVE  UNCHANGED <<bill, charge, item>>
  BY <1>4 DEF FailBill, EndRun, Abandon, CommitClosePeriod, CommitReopenPeriod
<1>5. ASSUME NEW s \in Sessions, CommitUpdateChargeItem(s)
      PROVE  UNCHANGED <<bill, charge>>
  BY <1>5 DEF CommitUpdateChargeItem
<1>6. ASSUME NEW s \in Sessions, NEW c \in Contracts, DeactivateChargeItem(s, c)
      PROVE  UNCHANGED <<bill, charge, session>>
  BY <1>6 DEF DeactivateChargeItem
<1>7. CASE Next
  <2>1. PICK s \in Sessions : Step(s)
    BY <1>7, Zenon DEF Next
  <2>2. CASE Finish(s)
    BY <2>2, <1>4, <1>5, Zenon DEF Finish
  <2> QED BY <2>1, <2>2, <1>2, <1>3, <1>6, Zenon DEF Step
<1> QED BY <1>1, <1>7, Zenon

LEMMA BillRowType ==
    ASSUME TypeOK, NEW s \in Sessions, NEW c \in Contracts, CommitBill(s, c)
    PROVE  /\ bill' \in [Contracts -> Bill]
           /\ session[s].found \in SUBSET Charges
<1> DEFINE price == IF session[s].read[c].active THEN session[s].read[c].price
                    ELSE 0
<1>1. session[s] \in Billing
  BY PendingRow DEF CommitBill
<1>2. session[s].read[c] \in Item
  BY <1>1 DEF Billing
<1>3. price \in Prices \cup {0} /\ session[s].found \in SUBSET Charges
  BY <1>1, <1>2 DEF Item, Billing
<1>4. bill' = [bill EXCEPT ![c] = [exists |-> TRUE, price |-> price,
                                  charges |-> session[s].found]]
  BY DEF CommitBill
<1>5. [exists |-> TRUE, price |-> price, charges |-> session[s].found] \in Bill
  <2> HIDE DEF price
  <2> QED BY <1>3 DEF Bill
<1> HIDE DEF price
<1> QED BY <1>3, <1>4, <1>5 DEF TypeOK

LEMMA MarkedType ==
    ASSUME NEW rows \in [Charges -> ChargeRow], NEW xs,
           NEW status \in {"BILLING_INCLUDED"}
    PROVE  Marked(rows, xs, status) \in [Charges -> ChargeRow]
BY DEF Marked, ChargeRow

LEMMA TablesType ==
    ASSUME TypeOK, [Next]_vars
    PROVE  /\ bill' \in [Contracts -> Bill]
           /\ charge' \in [Charges -> ChargeRow]
           /\ item' \in [Contracts -> Item]
<1> DEFINE Goal == /\ bill' \in [Contracts -> Bill]
                   /\ charge' \in [Charges -> ChargeRow]
                   /\ item' \in [Contracts -> Item]
<1>1. /\ bill \in [Contracts -> Bill]
      /\ charge \in [Charges -> ChargeRow]
      /\ item \in [Contracts -> Item]
  BY DEF TypeOK, ChargeRow
<1>2. CASE UNCHANGED <<bill, charge, item>>
  BY <1>1, <1>2
<1>3. ASSUME NEW s \in Sessions, NEW c \in Contracts, CommitBill(s, c) PROVE Goal
  BY <1>1, <1>3, BillRowType, MarkedType DEF CommitBill
<1>4. ASSUME NEW s \in Sessions, CommitManualBill(s) PROVE Goal
  BY <1>1, <1>4, PendingRow DEF CommitManualBill, Bill
<1>5. ASSUME NEW s \in Sessions, NEW x \in Charges, CommitCreateExtraCharge(s, x)
      PROVE  Goal
  BY <1>1, <1>5, PendingRow DEF CommitCreateExtraCharge, ChargeRow
<1>6. ASSUME NEW s \in Sessions, CommitCancelExtraCharge(s) PROVE Goal
  BY <1>1, <1>6, PendingRow DEF CommitCancelExtraCharge, ChargeRow
<1>7. ASSUME NEW s \in Sessions, NEW c \in Contracts, DeactivateChargeItem(s, c)
      PROVE  Goal
  BY <1>1, <1>7 DEF DeactivateChargeItem, Item
<1>8. ASSUME NEW s \in Sessions, CommitUpdateChargeItem(s) PROVE Goal
  BY <1>1, <1>8, PendingRow DEF CommitUpdateChargeItem
<1> QED
  <2> HIDE DEF Goal
  <2>1. Goal
    BY <1>2, <1>3, <1>4, <1>5, <1>6, <1>7, <1>8, WhoWrites DEF Goal
  <2> QED BY <2>1 DEF Goal

LEMMA ResumeType ==
    ASSUME TypeOK, NEW s \in Sessions, session[s].op = "bill"
    PROVE  Resume(s) \in Pending
<1>1. session[s] \in Billing
  BY PendingRow
<1>2. Resume(s) \in Running
  BY <1>1 DEF Billing, Running, Resume
<1> QED BY <1>2, Zenon DEF Running, Pending

(* What a step leaves a session with.                                      *)
LEMMA NextPending ==
    ASSUME TypeOK, [Next]_vars
    PROVE  \/ UNCHANGED session
           \/ \E s \in Sessions, next \in Pending : Go(s, next)
<1>1. CASE UNCHANGED vars
  BY <1>1 DEF vars
<1>2. ASSUME NEW s \in Sessions, StartRun(s)
      PROVE  \E next \in Pending : Go(s, next)
  <2>1. [op |-> "run", todo |-> Contracts, read |-> item] \in Running
    BY DEF TypeOK, Running
  <2>2. [op |-> "run", todo |-> Contracts, read |-> item] \in Pending
    BY <2>1, Zenon DEF Running, Pending
  <2> QED BY <1>2, <2>2 DEF StartRun
<1>3. ASSUME NEW s \in Sessions, NEW c \in Contracts, Skip(s, c)
      PROVE  \E next \in Pending : Go(s, next)
  <2>1. session[s] \in Running
    BY <1>3, PendingRow DEF Skip
  <2>2. [session[s] EXCEPT !.todo = session[s].todo \ {c}] \in Running
    BY <2>1 DEF Running
  <2>3. [session[s] EXCEPT !.todo = session[s].todo \ {c}] \in Pending
    BY <2>2, Zenon DEF Running, Pending
  <2> QED BY <1>3, <2>3 DEF Skip
<1>4. ASSUME NEW s \in Sessions, NEW c \in Contracts, Read(s, c)
      PROVE  \E next \in Pending : Go(s, next)
  <2> DEFINE next == [op |-> "bill",
                      read |-> session[s].read, todo |-> session[s].todo \ {c},
                      id |-> c, found |-> DraftCharges(c)]
  <2>1. session[s] \in Running /\ DraftCharges(c) \in SUBSET Charges
    BY <1>4, PendingRow DEF Read, DraftCharges
  <2>2. next \in Billing
    BY <2>1 DEF Running, Billing
  <2>3. Go(s, next)
    BY <1>4 DEF Read
  <2> HIDE DEF next
  <2>4. next \in Pending
    BY <2>2, Zenon DEF Billing, Pending
  <2> QED BY <2>3, <2>4
<1>5. ASSUME NEW s \in Sessions, NEW c \in Contracts, CommitBill(s, c)
      PROVE  \E next \in Pending : Go(s, next)
  BY <1>5, ResumeType DEF CommitBill
<1>6. Idle \in Pending
  BY DEF Pending
<1>7. ASSUME NEW s \in Sessions, FailBill(s)
      PROVE  \E next \in Pending : Go(s, next)
  BY <1>6, <1>7, ResumeType DEF FailBill
<1>8. ASSUME NEW s \in Sessions, Finish(s)
      PROVE  \E next \in Pending : Go(s, next)
  BY <1>6, <1>7, <1>8 DEF Finish, EndRun, CommitManualBill,
    CommitCreateExtraCharge, CommitCancelExtraCharge, CommitUpdateChargeItem,
    CommitClosePeriod, CommitReopenPeriod, Abandon
<1>9. ASSUME NEW s \in Sessions,
             \/ \E c \in Contracts : BeginManualBill(s, c)
             \/ \E c \in Contracts \cup {None} : BeginCreateExtraCharge(s, c)
             \/ \E x \in Charges : BeginCancelExtraCharge(s, x)
             \/ \E c \in Contracts, to \in Item : BeginUpdateChargeItem(s, c, to)
             \/ BeginClosePeriod(s)
             \/ BeginReopenPeriod(s)
      PROVE  \E next \in Pending : Go(s, next)
  BY <1>9 DEF BeginManualBill, BeginCreateExtraCharge, BeginCancelExtraCharge,
    BeginUpdateChargeItem, BeginClosePeriod, BeginReopenPeriod, Pending
<1>10. ASSUME NEW s \in Sessions, NEW c \in Contracts, DeactivateChargeItem(s, c)
       PROVE  UNCHANGED session
  BY <1>10 DEF DeactivateChargeItem
<1> QED BY <1>1, <1>2, <1>3, <1>4, <1>5, <1>8, <1>9, <1>10 DEF Next, Step

LEMMA TypeStep ==
    ASSUME TypeOK, [Next]_vars
    PROVE  TypeOK'
<1>1. /\ bill' \in [Contracts -> Bill]
      /\ charge' \in [Charges -> ChargeRow]
      /\ item' \in [Contracts -> Item]
  BY TablesType
<1>2. session' \in [Sessions -> Pending]
  BY NextPending DEF Go, TypeOK
<1>3. closed' \in BOOLEAN
  <2>1. closed' \in {closed, TRUE, FALSE}
    BY DEF Next, Step, vars, StartRun, Skip, Read, CommitBill, BeginManualBill,
      BeginCreateExtraCharge, BeginCancelExtraCharge, BeginUpdateChargeItem,
      DeactivateChargeItem, BeginClosePeriod, BeginReopenPeriod, Finish,
      FailBill, EndRun, CommitManualBill, CommitCreateExtraCharge,
      CommitCancelExtraCharge, CommitUpdateChargeItem, CommitClosePeriod,
      CommitReopenPeriod, Abandon
  <2> QED BY <2>1 DEF TypeOK
<1>4. met' \subseteq Charges
  BY DEF Next, Meet, Contended, vars, TypeOK
<1> QED BY <1>1, <1>2, <1>3, <1>4 DEF TypeOK, ChargeRow

(* Bills, charges, items and runs keep their shape under every step.       *)
THEOREM BillGenerationTypes == Spec => []TypeOK
BY TypeInit, TypeStep, PTL DEF Spec

-----------------------------------------------------------------------------
(* Charges and bills.                                                      *)

(* A bill that does not exist carries no charge, and what a run has found   *)
(* still exists and still belongs to the contract it bills.                *)
NoBillNoCharges ==
    \A c \in Contracts : bill[c].exists \/ bill[c].charges = {}

FoundKnown ==
    \A s \in Sessions : session[s].op = "bill" =>
        \A x \in session[s].found :
            /\ charge[x].status # "ABSENT"
            /\ charge[x].contract \in {None, session[s].id}

(* ChargesFollowBills is not inductive by itself: the bill's transaction    *)
(* marks the charges it has read, whatever they are by then, and the bill  *)
(* it inserts must not take the place of one that carries others.          *)
Consistent == TypeOK /\ NoBillNoCharges /\ FoundKnown /\ ChargesFollowBills

LEMMA ConsistentInit == Init => Consistent
<1> SUFFICES ASSUME Init PROVE Consistent
  OBVIOUS
<1>1. NoBillNoCharges /\ ChargesFollowBills
  BY DEF Init, NoBillNoCharges, ChargesFollowBills
<1>2. FoundKnown
  BY DEF Init, Idle, FoundKnown
<1> QED BY <1>1, <1>2, TypeInit DEF Consistent

(* Charges are never deleted and never move to another contract.           *)
LEMMA ChargesKept ==
    ASSUME TypeOK, [Next]_vars, NEW x \in Charges, charge[x].status # "ABSENT"
    PROVE  /\ charge'[x].status # "ABSENT"
           /\ charge'[x].contract = charge[x].contract
<1> DEFINE Kept == /\ charge'[x].status # "ABSENT"
                   /\ charge'[x].contract = charge[x].contract
<1>1. CASE UNCHANGED charge
  BY <1>1
<1>2. ASSUME NEW s \in Sessions, NEW c \in Contracts, CommitBill(s, c) PROVE Kept
  BY <1>2 DEF CommitBill, Marked, TypeOK
<1>3. ASSUME NEW s \in Sessions, NEW y \in Charges, CommitCreateExtraCharge(s, y)
      PROVE  Kept
  BY <1>3 DEF CommitCreateExtraCharge, TypeOK
<1>4. ASSUME NEW s \in Sessions, CommitCancelExtraCharge(s) PROVE Kept
  BY <1>4, PendingRow DEF CommitCancelExtraCharge, TypeOK
<1>5. ASSUME NEW s \in Sessions, CommitManualBill(s) PROVE UNCHANGED charge
  BY <1>5 DEF CommitManualBill
<1> HIDE DEF Kept
<1>6. Kept
  BY <1>1, <1>2, <1>3, <1>4, <1>5, WhoWrites DEF Kept
<1> QED BY <1>6 DEF Kept

(* Only Read and BeginCancelExtraCharge make a session hold charges.       *)
LEMMA NewHold ==
    ASSUME TypeOK, [Next]_vars, NEW s \in Sessions,
           session'[s].op \in {"bill", "cancel"}
    PROVE  \/ session'[s] = session[s]
           \/ \E c \in Contracts : Read(s, c)
           \/ \E x \in Charges : BeginCancelExtraCharge(s, x)
<1>1. ASSUME NEW u \in Sessions, NEW next, Go(u, next)
      PROVE  session'[s] = session[s] \/ (u = s /\ session'[s] = next)
  BY <1>1 DEF Go, TypeOK
<1>2. CASE UNCHANGED session
  BY <1>2
<1>3. ASSUME NEW u \in Sessions, StartRun(u) PROVE session'[s] = session[s]
  BY <1>1, <1>3 DEF StartRun
<1>4. ASSUME NEW u \in Sessions, NEW c \in Contracts, Skip(u, c)
      PROVE  session'[s] = session[s]
  <2>1. session[u] \in Running
    BY <1>4, PendingRow DEF Skip
  <2>2. [session[u] EXCEPT !.todo = session[u].todo \ {c}].op = "run"
    BY <2>1 DEF Running
  <2> QED BY <1>1, <1>4, <2>2 DEF Skip
<1>5. ASSUME NEW u \in Sessions, NEW c \in Contracts, Read(u, c)
      PROVE  session'[s] = session[s] \/ Read(s, c)
  BY <1>1, <1>5 DEF Read
<1>6. Resume(s).op = "run" /\ Idle.op = "idle"
  BY DEF Resume, Idle
<1>7. ASSUME NEW u \in Sessions, NEW c \in Contracts, CommitBill(u, c)
      PROVE  session'[s] = session[s]
  BY <1>1, <1>6, <1>7 DEF CommitBill
<1>8. ASSUME NEW u \in Sessions, FailBill(u) PROVE session'[s] = session[s]
  BY <1>1, <1>6, <1>8 DEF FailBill
<1>9. ASSUME NEW u \in Sessions, Finish(u) PROVE session'[s] = session[s]
  BY <1>1, <1>6, <1>8, <1>9 DEF Finish, EndRun, CommitManualBill,
    CommitCreateExtraCharge, CommitCancelExtraCharge, CommitUpdateChargeItem,
    CommitClosePeriod, CommitReopenPeriod, Abandon
<1>10. ASSUME NEW u \in Sessions,
              \/ \E c \in Contracts : BeginManualBill(u, c)
              \/ \E c \in Contracts \cup {None} : BeginCreateExtraCharge(u, c)
              \/ \E c \in Contracts, to \in Item : BeginUpdateChargeItem(u, c, to)
              \/ BeginClosePeriod(u)
              \/ BeginReopenPeriod(u)
       PROVE  session'[s] = session[s]
  <2>1. ASSUME NEW c, BeginManualBill(u, c) PROVE session'[s] = session[s]
    BY <1>1, <2>1 DEF BeginManualBill
  <2>2. ASSUME NEW c, BeginCreateExtraCharge(u, c) PROVE session'[s] = session[s]
    BY <1>1, <2>2 DEF BeginCreateExtraCharge
  <2>4. ASSUME NEW c, NEW to, BeginUpdateChargeItem(u, c, to)
        PROVE  session'[s] = session[s]
    BY <1>1, <2>4 DEF BeginUpdateChargeItem
  <2>5. ASSUME BeginClosePeriod(u) \/ BeginReopenPeriod(u)
        PROVE  session'[s] = session[s]
    BY <1>1, <2>5 DEF BeginClosePeriod, BeginReopenPeriod
  <2> QED BY <1>10, <2>1, <2>2, <2>4, <2>5
<1>11. ASSUME NEW u \in Sessions, NEW c \in Contracts, DeactivateChargeItem(u, c)
       PROVE  UNCHANGED session
  BY <1>11 DEF DeactivateChargeItem
<1>12. ASSUME NEW u \in Sessions, NEW x \in Charges, BeginCancelExtraCharge(u, x)
       PROVE  session'[s] = session[s] \/ BeginCancelExtraCharge(s, x)
  BY <1>1, <1>12 DEF BeginCancelExtraCharge
<1> QED BY <1>2, <1>3, <1>4, <1>5, <1>7, <1>9, <1>10, <1>11, <1>12
        DEF Next, Step, vars

(* A run finds charges that exist and belong to its contract or to none.   *)
LEMMA FoundStep ==
    ASSUME Consistent, [Next]_vars
    PROVE  FoundKnown'
<1> SUFFICES ASSUME NEW s \in Sessions, session'[s].op = "bill",
                    NEW x \in session'[s].found
             PROVE  /\ charge'[x].status # "ABSENT"
                    /\ charge'[x].contract \in {None, session'[s].id}
  BY DEF FoundKnown
<1>1. TypeOK /\ TypeOK'
  BY TypeStep DEF Consistent
<1>2. x \in Charges
  <2>1. session'[s] \in Pending
    BY <1>1 DEF TypeOK
  <2>2. session'[s] \in Billing
    BY <2>1 DEF Pending, Idle, Billing
  <2> QED BY <2>2 DEF Billing
<1>3. CASE session'[s] = session[s]
  BY <1>1, <1>2, <1>3, ChargesKept DEF Consistent, FoundKnown
<1>4. ASSUME NEW c \in Contracts, Read(s, c)
      PROVE  /\ charge'[x].status # "ABSENT"
             /\ charge'[x].contract \in {None, session'[s].id}
  <2>1. session'[s] = [op |-> "bill",
                       read |-> session[s].read,
                       todo |-> session[s].todo \ {c}, id |-> c,
                       found |-> DraftCharges(c)]
    BY <1>1, <1>4 DEF Read, Go, TypeOK
  <2>2. x \in DraftCharges(c) /\ session'[s].id = c /\ charge' = charge
    BY <1>4, <2>1 DEF Read
  <2> QED BY <2>2 DEF DraftCharges
<1>5. ASSUME NEW y \in Charges PROVE ~BeginCancelExtraCharge(s, y)
  BY <1>1 DEF BeginCancelExtraCharge, Go, TypeOK
<1> QED BY <1>1, <1>3, <1>4, <1>5, NewHold

(* What one charge and the bills must agree on.                            *)
Agree(row, x, bills) ==
    /\ row.status = "BILLING_INCLUDED" => \E c \in Contracts : x \in bills[c].charges
    /\ \A c \in Contracts : x \in bills[c].charges =>
         /\ row.status \in {"BILLING_INCLUDED", "CANCELLED"}
         /\ row.contract \in {None, c}

LEMMA BillStep ==
    ASSUME Consistent, NEW s \in Sessions, NEW c \in Contracts, CommitBill(s, c),
           NEW x \in Charges
    PROVE  Agree(charge'[x], x, bill') /\ NoBillNoCharges'
<1>1. /\ TypeOK
      /\ Agree(charge[x], x, bill)
      /\ bill[c].charges = {}
  BY DEF Consistent, ChargesFollowBills, NoBillNoCharges, CommitBill, Agree
<1>2. /\ bill'[c].exists
      /\ bill'[c].charges = session[s].found
      /\ \A d \in Contracts \ {c} : bill'[d] = bill[d]
  BY <1>1 DEF CommitBill, TypeOK
<1>3. charge'[x] = IF x \in session[s].found
                     THEN [charge[x] EXCEPT !.status = "BILLING_INCLUDED"]
                     ELSE charge[x]
  BY DEF CommitBill, Marked
<1>4. charge[x] \in ChargeRow
  BY <1>1 DEF TypeOK, ChargeRow
<1>5. CASE x \in session[s].found
  <2>1. charge[x].contract \in {None, c}
    BY <1>5 DEF Consistent, FoundKnown, CommitBill
  <2>2. charge'[x].status = "BILLING_INCLUDED"
          /\ charge'[x].contract = charge[x].contract
    BY <1>3, <1>4, <1>5 DEF ChargeRow
  <2> QED BY <1>1, <1>2, <1>5, <2>1, <2>2 DEF Agree, Consistent, NoBillNoCharges
<1>6. CASE x \notin session[s].found
  BY <1>1, <1>2, <1>3, <1>6 DEF Agree, Consistent, NoBillNoCharges
<1> QED BY <1>5, <1>6

LEMMA FollowStep ==
    ASSUME Consistent, [Next]_vars
    PROVE  ChargesFollowBills' /\ NoBillNoCharges'
<1>1. TypeOK /\ NoBillNoCharges /\ \A x \in Charges : Agree(charge[x], x, bill)
  BY DEF Consistent, ChargesFollowBills, Agree
<1> DEFINE Goal == NoBillNoCharges' /\ \A x \in Charges : Agree(charge'[x], x, bill')
<1>2. ASSUME UNCHANGED <<bill, charge>> PROVE Goal
  BY <1>1, <1>2 DEF NoBillNoCharges
<1>3. ASSUME NEW s \in Sessions, NEW c \in Contracts, CommitBill(s, c) PROVE Goal
  <2>1. NoBillNoCharges'
    BY <1>1, <1>3 DEF CommitBill, NoBillNoCharges, TypeOK
  <2> QED BY <1>3, <2>1, BillStep
<1>4. ASSUME NEW s \in Sessions, CommitManualBill(s) PROVE Goal
  <2>1. \A c \in Contracts : /\ bill'[c].charges = bill[c].charges
                             /\ bill[c].exists => bill'[c].exists
    BY <1>1, <1>4, PendingRow DEF CommitManualBill, TypeOK, Bill
  <2>2. charge' = charge
    BY <1>4 DEF CommitManualBill
  <2> QED BY <1>1, <2>1, <2>2 DEF NoBillNoCharges, Agree
<1>5. ASSUME NEW s \in Sessions, NEW y \in Charges, CommitCreateExtraCharge(s, y)
      PROVE  Goal
  <2>1. bill' = bill /\ charge[y].status = "ABSENT" /\ charge'[y].status = "DRAFT"
    BY <1>1, <1>5 DEF CommitCreateExtraCharge, TypeOK
  <2>2. \A x \in Charges \ {y} : charge'[x] = charge[x]
    BY <1>1, <1>5 DEF CommitCreateExtraCharge, TypeOK
  <2>3. \A c \in Contracts : y \notin bill[c].charges
    BY <1>1, <2>1 DEF Agree
  <2> QED BY <1>1, <2>1, <2>2, <2>3 DEF NoBillNoCharges, Agree
<1>6. ASSUME NEW s \in Sessions, CommitCancelExtraCharge(s) PROVE Goal
  <2>1. PICK y \in Charges :
          /\ charge'[y].status = "CANCELLED"
          /\ charge'[y].contract = charge[y].contract
          /\ \A x \in Charges \ {y} : charge'[x] = charge[x]
    BY <1>1, <1>6, PendingRow DEF CommitCancelExtraCharge, TypeOK
  <2>2. bill' = bill
    BY <1>6 DEF CommitCancelExtraCharge
  <2> QED BY <1>1, <2>1, <2>2 DEF NoBillNoCharges, Agree
<1> HIDE DEF Goal
<1>7. Goal
  BY <1>2, <1>3, <1>4, <1>5, <1>6, WhoWrites DEF Goal
<1> QED BY <1>7 DEF Goal, ChargesFollowBills, Agree

(* Whatever runs, failures, manual bills and cancellations meet: a charge   *)
(* is marked as billed only with a bill that carries it, and a charge on a *)
(* bill is a draft no more and belongs to the bill's contract or to none.  *)
THEOREM BilledChargesFollow == Spec => []ChargesFollowBills
<1>1. Consistent /\ [Next]_vars => Consistent'
  BY TypeStep, FoundStep, FollowStep DEF Consistent
<1>2. Consistent => ChargesFollowBills
  BY DEF Consistent
<1> QED BY ConsistentInit, <1>1, <1>2, PTL DEF Spec
-----------------------------------------------------------------------------
(* Sessions that hold the same charge.                                     *)

Books == ChargedOnce /\ CancelledNotBilled

OneHolder ==
    \A x \in Charges \ met, s, t \in Sessions : Holds(s, x) /\ Holds(t, x) => s = t

(* What a session has read as a draft and nobody else holds is still one.   *)
HeldAreDrafts ==
    \A x \in Charges \ met, s \in Sessions : Holds(s, x) => charge[x].status = "DRAFT"

Kept == Consistent /\ OneHolder /\ HeldAreDrafts /\ Books

LEMMA KeptInit == Init => Kept
<1> SUFFICES ASSUME Init PROVE Kept
  OBVIOUS
<1>1. \A x \in Charges, s \in Sessions : ~Holds(s, x)
  BY DEF Init, Idle, Holds
<1>2. Books
  BY DEF Init, Books, ChargedOnce, CancelledNotBilled
<1> QED BY <1>1, <1>2, ConsistentInit DEF Kept, OneHolder, HeldAreDrafts

(* A charge that is on no bill yet.                                        *)
LEMMA DraftOnNoBill ==
    ASSUME Consistent, NEW x \in Charges, charge[x].status \in {"DRAFT", "ABSENT"}
    PROVE  \A c \in Contracts : x \notin bill[c].charges
BY DEF Consistent, ChargesFollowBills

(* Who meets at a charge is remembered.                                    *)
LEMMA HolderStep ==
    ASSUME OneHolder, [Next]_vars
    PROVE  met \subseteq met' /\ OneHolder'
<1>1. CASE UNCHANGED vars
  BY <1>1 DEF vars, OneHolder, Holds
<1>2. CASE Next
  <2>1. met' = met \cup Contended'
    BY <1>2 DEF Next, Meet
  <2> QED BY <2>1 DEF Contended, OneHolder
<1> QED BY <1>1, <1>2

(* Who writes a charge: the session that holds it, or the one that creates  *)
(* it.                                                                     *)
LEMMA ChargeWriter ==
    ASSUME TypeOK, [Next]_vars, NEW x \in Charges, charge'[x] # charge[x]
    PROVE  \/ charge[x].status = "ABSENT"
           \/ \E s \in Sessions :
                Holds(s, x) /\ session'[s].op \notin {"bill", "cancel"}
<1> DEFINE Goal == \/ charge[x].status = "ABSENT"
                   \/ \E s \in Sessions :
                        Holds(s, x) /\ session'[s].op \notin {"bill", "cancel"}
<1>1. ASSUME NEW s \in Sessions, NEW c \in Contracts, CommitBill(s, c) PROVE Goal
  <2>1. session[s].op = "bill" /\ x \in session[s].found
    BY <1>1 DEF CommitBill, Marked
  <2>2. session'[s].op = "run"
    BY <1>1 DEF CommitBill, Go, Resume, TypeOK
  <2> QED BY <2>1, <2>2 DEF Holds
<1>2. ASSUME NEW s \in Sessions, CommitCancelExtraCharge(s) PROVE Goal
  <2>1. session[s].op = "cancel" /\ x = session[s].id
    BY <1>2 DEF CommitCancelExtraCharge, TypeOK
  <2>2. session'[s].op = "idle"
    BY <1>2 DEF CommitCancelExtraCharge, Go, Idle, TypeOK
  <2> QED BY <2>1, <2>2 DEF Holds
<1>3. ASSUME NEW s \in Sessions, NEW y \in Charges, CommitCreateExtraCharge(s, y)
      PROVE  Goal
  BY <1>3 DEF CommitCreateExtraCharge, TypeOK
<1>4. ASSUME NEW s \in Sessions, CommitManualBill(s) PROVE UNCHANGED charge
  BY <1>4 DEF CommitManualBill
<1> HIDE DEF Goal
<1>5. Goal
  BY <1>1, <1>2, <1>3, <1>4, WhoWrites
<1> QED BY <1>5 DEF Goal

LEMMA DraftsStep ==
    ASSUME Kept, [Next]_vars
    PROVE  HeldAreDrafts'
<1> SUFFICES ASSUME NEW x \in Charges, x \notin met', NEW s \in Sessions, Holds(s, x)'
             PROVE  charge'[x].status = "DRAFT"
  BY DEF HeldAreDrafts
<1>1. /\ TypeOK /\ OneHolder /\ HeldAreDrafts /\ x \notin met
      /\ session'[s].op \in {"bill", "cancel"}
  BY HolderStep DEF Kept, Consistent, Holds
<1>2. CASE session'[s] = session[s]
  <2>1. Holds(s, x) /\ charge[x].status = "DRAFT"
    BY <1>1, <1>2 DEF Holds, HeldAreDrafts
  <2>2. ASSUME charge'[x] # charge[x] PROVE FALSE
    <3>1. PICK u \in Sessions : Holds(u, x) /\ session'[u].op \notin {"bill", "cancel"}
      BY <1>1, <2>1, <2>2, ChargeWriter
    <3>2. u = s
      BY <1>1, <2>1, <3>1 DEF OneHolder
    <3> QED BY <1>1, <3>1, <3>2
  <2> QED BY <2>1, <2>2
<1>3. ASSUME NEW c \in Contracts, Read(s, c) PROVE charge'[x].status = "DRAFT"
  <2>1. session'[s].op = "bill" /\ session'[s].found = DraftCharges(c)
    BY <1>1, <1>3 DEF Read, Go, TypeOK
  <2> QED BY <1>3, <2>1 DEF Holds, DraftCharges, Read
<1>4. ASSUME NEW y \in Charges, BeginCancelExtraCharge(s, y)
      PROVE  charge'[x].status = "DRAFT"
  <2>1. session'[s].op = "cancel" /\ session'[s].id = y
    BY <1>1, <1>4 DEF BeginCancelExtraCharge, Go, TypeOK
  <2> QED BY <1>4, <2>1 DEF Holds, BeginCancelExtraCharge
<1> QED BY <1>1, <1>2, <1>3, <1>4, NewHold

LEMMA BooksStep ==
    ASSUME Kept, [Next]_vars
    PROVE  Books'
<1>1. TypeOK /\ Books /\ HeldAreDrafts /\ met \subseteq met'
  BY HolderStep DEF Kept, Consistent
<1>2. ASSUME NEW s \in Sessions, NEW x \in Charges \ met, Holds(s, x)
      PROVE  \A c \in Contracts : x \notin bill[c].charges
  BY <1>1, <1>2, DraftOnNoBill DEF HeldAreDrafts, Kept
<1>3. ASSUME NEW x \in Charges \ met,
             charge'[x].status = "CANCELLED" => charge[x].status = "CANCELLED" \/
                 \A c \in Contracts : x \notin bill[c].charges,
             \A c \in Contracts : bill'[c].charges = bill[c].charges
      PROVE  /\ \A c, d \in Contracts :
                  x \in bill'[c].charges /\ x \in bill'[d].charges => c = d
             /\ \A c \in Contracts :
                  x \in bill'[c].charges => charge'[x].status # "CANCELLED"
  BY <1>1, <1>3 DEF Books, ChargedOnce, CancelledNotBilled
<1> DEFINE Right(x) ==
             /\ \A c, d \in Contracts :
                  x \in bill'[c].charges /\ x \in bill'[d].charges => c = d
             /\ \A c \in Contracts :
                  x \in bill'[c].charges => charge'[x].status # "CANCELLED"
<1> SUFFICES ASSUME NEW x \in Charges, x \notin met' PROVE Right(x)
  BY DEF Books, ChargedOnce, CancelledNotBilled
<1>4. x \in Charges \ met
  BY <1>1
<1>5. ASSUME UNCHANGED <<bill, charge>> PROVE Right(x)
  BY <1>3, <1>4, <1>5
<1>6. ASSUME NEW s \in Sessions, NEW c \in Contracts, CommitBill(s, c) PROVE Right(x)
  <2>1. /\ bill'[c].charges = session[s].found
        /\ session[s].op = "bill"
        /\ \A d \in Contracts \ {c} : bill'[d] = bill[d]
        /\ charge'[x] = IF x \in session[s].found
                          THEN [charge[x] EXCEPT !.status = "BILLING_INCLUDED"]
                          ELSE charge[x]
    BY <1>1, <1>6 DEF CommitBill, Marked, TypeOK
  <2>2. CASE x \in session[s].found
    <3>1. \A d \in Contracts : x \notin bill[d].charges
      BY <1>2, <1>4, <2>1, <2>2 DEF Holds
    <3>2. charge'[x].status = "BILLING_INCLUDED"
      BY <1>1, <2>1, <2>2 DEF TypeOK
    <3> QED BY <2>1, <3>1, <3>2
  <2>3. CASE x \notin session[s].found
    BY <1>1, <1>4, <2>1, <2>3 DEF Books, ChargedOnce, CancelledNotBilled
  <2> QED BY <2>2, <2>3
<1>7. ASSUME NEW s \in Sessions, CommitManualBill(s) PROVE Right(x)
  <2>1. \A c \in Contracts : bill'[c].charges = bill[c].charges
    BY <1>1, <1>7, PendingRow DEF CommitManualBill, TypeOK, Bill
  <2> QED BY <1>3, <1>4, <1>7, <2>1 DEF CommitManualBill
<1>8. ASSUME NEW s \in Sessions, NEW y \in Charges, CommitCreateExtraCharge(s, y)
      PROVE  Right(x)
  <2>1. charge'[x] = charge[x] \/ charge'[x].status = "DRAFT"
    BY <1>1, <1>8 DEF CommitCreateExtraCharge, TypeOK
  <2> QED BY <1>3, <1>4, <1>8, <2>1 DEF CommitCreateExtraCharge
<1>9. ASSUME NEW s \in Sessions, CommitCancelExtraCharge(s) PROVE Right(x)
  <2>1. charge'[x] = charge[x] \/ Holds(s, x)
    BY <1>1, <1>9 DEF CommitCancelExtraCharge, Holds, TypeOK
  <2> QED BY <1>2, <1>3, <1>4, <1>9, <2>1 DEF CommitCancelExtraCharge
<1> HIDE DEF Right
<1> QED BY <1>5, <1>6, <1>7, <1>8, <1>9, WhoWrites

LEMMA KeptAlways == Spec => []Kept
<1>1. Kept /\ [Next]_vars => Kept'
  <2>1. Consistent /\ [Next]_vars => Consistent'
    BY TypeStep, FoundStep, FollowStep DEF Consistent
  <2> QED BY <2>1, HolderStep, DraftsStep, BooksStep DEF Kept
<1> QED BY KeptInit, <1>1, PTL DEF Spec

(* However runs of the API and of the worker fail, are repeated and overlap *)
(* each other and the cancellations, a charge is on at most one bill, but   *)
(* for those that two sessions held as drafts at a time.                   *)
THEOREM UncontendedChargedOnce == Spec => []ChargedOnce
<1>1. Kept => ChargedOnce
  BY DEF Kept, Books
<1> QED BY <1>1, KeptAlways, PTL

(* A charge that is cancelled is on no bill, but for those that two         *)
(* sessions held as drafts at a time.                                      *)
THEOREM UncontendedCancelledNotBilled == Spec => []CancelledNotBilled
<1>1. Kept => CancelledNotBilled
  BY DEF Kept, Books
<1> QED BY <1>1, KeptAlways, PTL

-----------------------------------------------------------------------------
(* The outbox.                                                             *)
(*                                                                         *)
(* DeliveriesCounted is not inductive: a claim is counted before its        *)
(* delivery happens.  Ahead adds the jobs between the two, of which there   *)
(* are finitely many.                                                      *)

USE DEF Moves, Fault

LEMMA JobParts ==
    /\ \A j \in Jobs : j[1] \in Events /\ j[2] \in 1 .. MaxJobs /\ j = <<j[1], j[2]>>
    /\ \A e \in Events, n \in 1 .. MaxJobs : <<e, n>> \in Jobs
BY DEF Jobs

Claimed(e) == {n \in 1 .. MaxJobs : job[<<e, n>>] = "claimed"}

Ahead ==
    \A e \in Events : delivered[e] + Cardinality(Claimed(e)) <= event[e].attempts

DeliveredOnce ==
    \A j \in Jobs : job[j] = "delivered" => delivered[j[1]] > 0

(* Every event that has been delivered has a row.                          *)
EventsStay ==
    \A j \in Jobs : job[j] \in Underway => event[j[1]].status # "ABSENT"

DeliveredRecorded ==
    \A e \in Events : delivered[e] > 0 => event[e].status # "ABSENT"

OutboxInv == OutboxTypeOK /\ Ahead /\ DeliveredOnce /\ SentWasDelivered /\ EventsStay
         /\ DeliveredRecorded

-----------------------------------------------------------------------------
LEMMA OutboxTypeStep == OutboxTypeOK /\ [OutboxNext]_outboxVars => OutboxTypeOK'
<1> SUFFICES ASSUME OutboxTypeOK, [OutboxNext]_outboxVars
             PROVE  OutboxTypeOK'
  OBVIOUS
<1> USE OutboxAssumption, JobParts DEF OutboxTypeOK, Statuses, Places, Underway
<1>1. ASSUME NEW e \in Events, Record(e) PROVE OutboxTypeOK'
  BY <1>1 DEF Record
<1>2. ASSUME NEW j \in Jobs, Enqueue(j) \/ EnqueueEarly(j) PROVE OutboxTypeOK'
  BY <1>2 DEF Enqueue, EnqueueEarly
<1>3. ASSUME NEW j \in Jobs, Take(j) PROVE OutboxTypeOK'
  BY <1>3 DEF Take
<1>4. ASSUME NEW j \in Jobs, Claim(j) PROVE OutboxTypeOK'
  BY <1>4 DEF Claim
<1>5. ASSUME NEW j \in Jobs, Deliver(j) PROVE OutboxTypeOK'
  BY <1>5 DEF Deliver
<1>6. ASSUME NEW j \in Jobs, MarkSent(j) PROVE OutboxTypeOK'
  BY <1>6 DEF MarkSent
<1>7. ASSUME NEW j \in Jobs, MarkFailed(j) PROVE OutboxTypeOK'
  BY <1>7 DEF MarkFailed
<1>10. ASSUME NEW j \in Jobs, Lose(j) PROVE OutboxTypeOK'
  BY <1>10 DEF Lose
<1>8. CASE Crash
  BY <1>8 DEF Crash
<1>9. CASE UNCHANGED outboxVars
  BY <1>9 DEF outboxVars
<1> QED
  BY <1>1, <1>2, <1>3, <1>4, <1>5, <1>6, <1>7, <1>8, <1>9, <1>10 DEF OutboxNext, Advance

(* The type invariant holds for every value of the constants.              *)
THEOREM OutboxTypes == OutboxSpec => []OutboxTypeOK
<1>1. OutboxInit => OutboxTypeOK
  BY OutboxAssumption DEF OutboxInit, OutboxTypeOK, Statuses, Places
<1> QED
  BY <1>1, OutboxTypeStep, PTL DEF OutboxSpec
-----------------------------------------------------------------------------
LEMMA ClaimedFinite ==
    ASSUME NEW e
    PROVE  IsFiniteSet(Claimed(e)) /\ Cardinality(Claimed(e)) \in Nat
<1>1. IsFiniteSet(1 .. MaxJobs)
  BY OutboxAssumption, FS_Interval
<1>2. Claimed(e) \subseteq 1 .. MaxJobs
  BY DEF Claimed
<1> QED
  BY <1>1, <1>2, FS_Subset, FS_CardinalityType

(* What no new claim can add to.                                           *)
LEMMA ClaimedFewer ==
    ASSUME NEW e, Claimed(e)' \subseteq Claimed(e)
    PROVE  Cardinality(Claimed(e)') <= Cardinality(Claimed(e))
             /\ Cardinality(Claimed(e)') \in Nat
BY ClaimedFinite, FS_Subset, FS_CardinalityType

LEMMA ClaimedByClaim ==
    ASSUME OutboxTypeOK, NEW j \in Jobs, Claim(j), NEW e \in Events
    PROVE  /\ e = j[1] => /\ Cardinality(Claimed(e)') = Cardinality(Claimed(e)) + 1
                          /\ event'[e].attempts = event[e].attempts + 1
           /\ e # j[1] => Claimed(e)' = Claimed(e) /\ event'[e] = event[e]
<1>1. CASE e = j[1]
  <2>1. Claimed(e)' = Claimed(e) \cup {j[2]} /\ j[2] \notin Claimed(e)
    BY <1>1, JobParts DEF Claim, Claimed, OutboxTypeOK
  <2>2. Cardinality(Claimed(e)') = Cardinality(Claimed(e)) + 1
    BY <2>1, ClaimedFinite, FS_AddElement
  <2>3. event'[e].attempts = event[e].attempts + 1
    BY <1>1 DEF Claim, OutboxTypeOK
  <2> QED
    BY <1>1, <2>2, <2>3
<1>2. CASE e # j[1]
  BY <1>2, JobParts DEF Claim, Claimed, OutboxTypeOK
<1> QED
  BY <1>1, <1>2

LEMMA ClaimedByDeliver ==
    ASSUME OutboxTypeOK, NEW j \in Jobs, Deliver(j), NEW e \in Events
    PROVE  /\ e = j[1] => /\ Cardinality(Claimed(e)') = Cardinality(Claimed(e)) - 1
                          /\ delivered'[e] = delivered[e] + 1
           /\ e # j[1] => Claimed(e)' = Claimed(e) /\ delivered'[e] = delivered[e]
<1>1. CASE e = j[1]
  <2>1. Claimed(e)' = Claimed(e) \ {j[2]} /\ j[2] \in Claimed(e)
    BY <1>1, JobParts DEF Deliver, Claimed, OutboxTypeOK
  <2>2. Cardinality(Claimed(e)') = Cardinality(Claimed(e)) - 1
    BY <2>1, ClaimedFinite, FS_RemoveElement
  <2>3. delivered'[e] = delivered[e] + 1
    BY <1>1 DEF Deliver, OutboxTypeOK
  <2> QED
    BY <1>1, <2>2, <2>3
<1>2. CASE e # j[1]
  BY <1>2, JobParts DEF Deliver, Claimed, OutboxTypeOK
<1> QED
  BY <1>1, <1>2

LEMMA AheadInvariant == OutboxTypeOK /\ Ahead /\ [OutboxNext]_outboxVars => Ahead'
<1> SUFFICES ASSUME OutboxTypeOK, Ahead, [OutboxNext]_outboxVars, NEW e \in Events
             PROVE  delivered'[e] + Cardinality(Claimed(e)') <= event'[e].attempts
  BY DEF Ahead
<1>1. /\ delivered[e] + Cardinality(Claimed(e)) <= event[e].attempts
      /\ delivered[e] \in Nat /\ event[e].attempts \in Nat
      /\ Cardinality(Claimed(e)) \in Nat
  BY ClaimedFinite DEF Ahead, OutboxTypeOK
<1>2. ASSUME Claimed(e)' \subseteq Claimed(e), delivered'[e] = delivered[e],
             event'[e].attempts = event[e].attempts
      PROVE  delivered'[e] + Cardinality(Claimed(e)') <= event'[e].attempts
  BY <1>1, <1>2, ClaimedFewer
<1>3. ASSUME NEW d \in Events, Record(d)
      PROVE  delivered'[e] + Cardinality(Claimed(e)') <= event'[e].attempts
  BY <1>2, <1>3 DEF Record, Claimed, OutboxTypeOK
<1>4. ASSUME NEW j \in Jobs, Enqueue(j) \/ EnqueueEarly(j) \/ Take(j) \/ Lose(j)
      PROVE  delivered'[e] + Cardinality(Claimed(e)') <= event'[e].attempts
  BY <1>2, <1>4, JobParts DEF Enqueue, EnqueueEarly, Take, Lose, Claimed, OutboxTypeOK, Underway
<1>5. ASSUME NEW j \in Jobs, MarkSent(j) \/ MarkFailed(j)
      PROVE  delivered'[e] + Cardinality(Claimed(e)') <= event'[e].attempts
  <2>1. Claimed(e)' \subseteq Claimed(e)
    BY <1>5, JobParts DEF MarkSent, MarkFailed, Claimed, OutboxTypeOK
  <2>2. delivered'[e] = delivered[e] /\ event'[e].attempts = event[e].attempts
    BY <1>5, JobParts DEF MarkSent, MarkFailed, OutboxTypeOK
  <2> QED
    BY <1>2, <2>1, <2>2
<1>6. ASSUME NEW j \in Jobs, Claim(j)
      PROVE  delivered'[e] + Cardinality(Claimed(e)') <= event'[e].attempts
  <2>1. delivered' = delivered
    BY <1>6 DEF Claim
  <2> QED
    BY <1>1, <1>6, <2>1, ClaimedByClaim
<1>7. ASSUME NEW j \in Jobs, Deliver(j)
      PROVE  delivered'[e] + Cardinality(Claimed(e)') <= event'[e].attempts
  <2>1. event' = event
    BY <1>7 DEF Deliver
  <2> QED
    BY <1>1, <1>7, <2>1, ClaimedByDeliver
<1>8. CASE Crash
  <2>1. Claimed(e)' \subseteq Claimed(e)
    BY <1>8, JobParts DEF Crash, Claimed, OutboxTypeOK, Underway
  <2> QED
    BY <1>2, <1>8, <2>1 DEF Crash
<1>9. CASE UNCHANGED outboxVars
  BY <1>2, <1>9 DEF outboxVars, Claimed
<1> QED
  BY <1>3, <1>4, <1>5, <1>6, <1>7, <1>8, <1>9 DEF OutboxNext, Advance

LEMMA OutboxInitInv == OutboxInit => OutboxInv
<1> SUFFICES ASSUME OutboxInit PROVE OutboxInv
  OBVIOUS
<1>1. OutboxTypeOK
  BY OutboxAssumption DEF OutboxInit, OutboxTypeOK, Statuses, Places
<1>2. Ahead
  <2> SUFFICES ASSUME NEW e \in Events
               PROVE  delivered[e] + Cardinality(Claimed(e)) <= event[e].attempts
    BY DEF Ahead
  <2>1. Cardinality(Claimed(e)) = 0
    BY FS_EmptySet DEF OutboxInit, Claimed, Jobs
  <2>2. delivered[e] = 0 /\ event[e].attempts = 0
    BY DEF OutboxInit
  <2> QED
    BY <2>1, <2>2
<1> QED
  BY <1>1, <1>2 DEF OutboxInit, OutboxInv, DeliveredOnce, SentWasDelivered, EventsStay,
                    DeliveredRecorded, Underway

LEMMA OutboxNextInv == OutboxInv /\ [OutboxNext]_outboxVars => OutboxInv'
<1> SUFFICES ASSUME OutboxInv, [OutboxNext]_outboxVars
             PROVE  OutboxInv'
  OBVIOUS
<1> DEFINE Rest == DeliveredOnce /\ SentWasDelivered /\ EventsStay /\ DeliveredRecorded
<1>1. OutboxTypeOK' /\ Ahead'
  <2>1. OutboxTypeOK'
    BY OutboxTypeStep DEF OutboxInv
  <2> QED
    BY <2>1, AheadInvariant DEF OutboxInv
<1> USE DEF OutboxInv, OutboxTypeOK, DeliveredOnce, SentWasDelivered, EventsStay,
            DeliveredRecorded, Underway
<1>2. ASSUME NEW e \in Events, Record(e) PROVE Rest'
  BY <1>2, JobParts DEF Record
<1>3. ASSUME NEW j \in Jobs, Enqueue(j) \/ EnqueueEarly(j) PROVE Rest'
  BY <1>3, JobParts DEF Enqueue, EnqueueEarly
<1>4. ASSUME NEW j \in Jobs, Take(j) PROVE Rest'
  BY <1>4, JobParts DEF Take
<1>5. ASSUME NEW j \in Jobs, Claim(j) PROVE Rest'
  BY <1>5, JobParts DEF Claim
<1>6. ASSUME NEW j \in Jobs, Deliver(j) PROVE Rest'
  BY <1>6, JobParts DEF Deliver
<1>7. ASSUME NEW j \in Jobs, MarkSent(j) PROVE Rest'
  <2>1. event[j[1]].status # "ABSENT"
    BY <1>7, JobParts DEF MarkSent
  <2>2. \A e \in Events : e # j[1] => event'[e] = event[e]
    BY <1>7, JobParts DEF MarkSent
  <2>3. event'[j[1]].status = "sent"
    BY <1>7, JobParts DEF MarkSent
  <2>4. delivered' = delivered
    BY <1>7, JobParts DEF MarkSent
  <2>5. \A k \in Jobs : k # j => job'[k] = job[k]
    BY <1>7, JobParts DEF MarkSent
  <2>6. job'[j] = "ended"
    BY <1>7, JobParts DEF MarkSent
  <2>7. DeliveredOnce' /\ EventsStay' /\ DeliveredRecorded'
    BY JobParts, <2>1, <2>2, <2>3, <2>4, <2>5, <2>6
  <2>8. SentWasDelivered'
    BY <1>7, JobParts, <2>2, <2>3, <2>4 DEF MarkSent
  <2> QED
    BY <2>7, <2>8
<1>8. ASSUME NEW j \in Jobs, MarkFailed(j) PROVE Rest'
  <2>1. event[j[1]].status # "ABSENT"
    BY <1>8, JobParts DEF MarkFailed
  <2>2. \A e \in Events : e # j[1] => event'[e] = event[e]
    BY <1>8, JobParts DEF MarkFailed
  <2>3. event'[j[1]].status = "failed"
    BY <1>8, JobParts DEF MarkFailed
  <2>4. delivered' = delivered
    BY <1>8, JobParts DEF MarkFailed
  <2>5. \A k \in Jobs : k # j => job'[k] = job[k]
    BY <1>8, JobParts DEF MarkFailed
  <2>6. job'[j] = "ended"
    BY <1>8, JobParts DEF MarkFailed
  <2>7. DeliveredOnce' /\ EventsStay' /\ DeliveredRecorded'
    BY JobParts, <2>1, <2>2, <2>3, <2>4, <2>5, <2>6
  <2>8. SentWasDelivered'
    BY <1>8, JobParts, <2>2, <2>3, <2>4 DEF MarkFailed
  <2> QED
    BY <2>7, <2>8
<1>12. ASSUME NEW j \in Jobs, Lose(j) PROVE Rest'
  BY <1>12, JobParts DEF Lose
<1>9. ASSUME Crash PROVE Rest'
  <2>1. \A j \in Jobs : job'[j] = job[j] \/ job'[j] = "waiting"
    BY <1>9 DEF Crash
  <2>2. event' = event /\ delivered' = delivered
    BY <1>9 DEF Crash
  <2> QED
    BY <2>1, <2>2
<1>10. ASSUME UNCHANGED outboxVars PROVE Rest'
  BY <1>10 DEF outboxVars
<1>11. Rest'
  BY <1>2, <1>3, <1>4, <1>5, <1>6, <1>7, <1>8, <1>9, <1>10, <1>12 DEF OutboxNext, Advance
<1> QED
  BY <1>1, <1>11
-----------------------------------------------------------------------------
(* The attempts of an event are never fewer than its deliveries.           *)
THEOREM DeliveriesAreCounted == OutboxSpec => []DeliveriesCounted
<1>1. OutboxInv => DeliveriesCounted
  <2> SUFFICES ASSUME OutboxInv, NEW e \in Events
               PROVE  delivered[e] <= event[e].attempts
    BY DEF DeliveriesCounted
  <2> QED
    BY ClaimedFinite DEF OutboxInv, Ahead, OutboxTypeOK
<1> QED
  BY OutboxInitInv, OutboxNextInv, <1>1, PTL DEF OutboxSpec

(* An event that is marked sent was delivered.                             *)
THEOREM SentIsDelivered == OutboxSpec => []SentWasDelivered
<1>1. OutboxInv => SentWasDelivered
  BY DEF OutboxInv
<1> QED
  BY OutboxInitInv, OutboxNextInv, <1>1, PTL DEF OutboxSpec

(* An event that is sent and that no running job has read stays so.        *)
THEOREM SentStays == OutboxSpec => SentIsLeftAlone
<1>1. OutboxInv /\ [OutboxNext]_outboxVars => [\A e \in Events : Settled(e) => Settled(e)']_outboxVars
  <2> SUFFICES ASSUME OutboxInv, [OutboxNext]_outboxVars, NEW e \in Events, Settled(e)
               PROVE  Settled(e)'
    OBVIOUS
  <2> USE JobParts DEF OutboxInv, OutboxTypeOK, Settled, Underway
  <2>1. ASSUME NEW d \in Events, Record(d) PROVE Settled(e)'
    BY <2>1 DEF Record
  <2>2. ASSUME NEW j \in Jobs, Enqueue(j) \/ EnqueueEarly(j) \/ Take(j)
        PROVE  Settled(e)'
    BY <2>2 DEF Enqueue, EnqueueEarly, Take
  <2>3. ASSUME NEW j \in Jobs, Claim(j) \/ Deliver(j) PROVE Settled(e)'
    BY <2>3 DEF Claim, Deliver
  <2>4. ASSUME NEW j \in Jobs, MarkSent(j) \/ MarkFailed(j) \/ Lose(j)
        PROVE  Settled(e)'
    BY <2>4 DEF MarkSent, MarkFailed, Lose
  <2>5. CASE Crash
    BY <2>5 DEF Crash
  <2>6. CASE UNCHANGED outboxVars
    BY <2>6 DEF outboxVars
  <2> QED
    BY <2>1, <2>2, <2>3, <2>4, <2>5, <2>6 DEF OutboxNext, Advance
<1> QED
  BY OutboxInitInv, OutboxNextInv, <1>1, PTL DEF OutboxSpec, SentIsLeftAlone

(* The safety part of ImplementsPromise: the initial states map to initial  *)
(* states and every step to a step or a stutter.                           *)
THEOREM KeepsPromise == OutboxSpec => Promise!Init /\ [][Promise!Next]_(Promise!vars)
<1>1. OutboxInit => Promise!Init
  BY DEF OutboxInit, Promise!Init
<1>2. OutboxInv /\ OutboxInv' /\ [OutboxNext]_outboxVars => [Promise!Next]_(Promise!vars)
  <2> SUFFICES ASSUME OutboxInv, OutboxInv', [OutboxNext]_outboxVars
               PROVE  [Promise!Next]_(Promise!vars)
    OBVIOUS
  <2> USE JobParts DEF OutboxInv, OutboxTypeOK, Promise!vars
  <2>1. ASSUME NEW e \in Events, Record(e) PROVE Promise!Record(e)
    BY <2>1 DEF Record, Promise!Record
  <2>2. ASSUME NEW j \in Jobs, Deliver(j) PROVE Promise!Perform(j[1])
    <3>1. {e \in Events : delivered'[e] > 0}
            = {e \in Events : delivered[e] > 0} \cup {j[1]}
      BY <2>2 DEF Deliver
    <3>2. event[j[1]].status # "ABSENT"
      BY <2>2 DEF Deliver, EventsStay, Underway
    <3> QED
      BY <2>2, <3>1, <3>2 DEF Deliver, Promise!Perform
  <2>3. ASSUME NEW j \in Jobs,
               Enqueue(j) \/ EnqueueEarly(j) \/ Take(j) \/ Lose(j)
        PROVE  UNCHANGED Promise!vars
    BY <2>3 DEF Enqueue, EnqueueEarly, Take, Lose
  <2>4. ASSUME NEW j \in Jobs, Claim(j) \/ MarkSent(j) \/ MarkFailed(j)
        PROVE  UNCHANGED Promise!vars
    <3>1. event[j[1]].status # "ABSENT"
      BY <2>4 DEF Claim, MarkSent, MarkFailed, EventsStay, Underway
    <3>2. event'[j[1]].status # "ABSENT"
      BY <2>4 DEF Claim, MarkSent, MarkFailed
    <3>3. \A e \in Events : e # j[1] => event'[e] = event[e]
      BY <2>4 DEF Claim, MarkSent, MarkFailed
    <3>4. delivered' = delivered
      BY <2>4 DEF Claim, MarkSent, MarkFailed
    <3> QED
      BY <3>1, <3>2, <3>3, <3>4
  <2>5. CASE Crash
    BY <2>5 DEF Crash
  <2>6. CASE UNCHANGED outboxVars
    BY <2>6 DEF outboxVars
  <2> QED
    BY <2>1, <2>2, <2>3, <2>4, <2>5, <2>6 DEF OutboxNext, Advance, Promise!Next
<1> QED
  BY OutboxInitInv, OutboxNextInv, <1>1, <1>2, PTL DEF OutboxSpec
=============================================================================
