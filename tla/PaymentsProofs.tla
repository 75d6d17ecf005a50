--------------------------- MODULE PaymentsProofs ---------------------------
(***************************************************************************)
(* Theorems about Payments, for every set of rows, sessions and amounts.   *)
(* Each safety property is proved from an inductive invariant: it holds    *)
(* initially and every step of every handler preserves it.                 *)
(***************************************************************************)
EXTENDS Payments, FiniteSetTheorems, TLAPS

-----------------------------------------------------------------------------
(* Laws of sums, for every finite index set.                               *)

(* The units of a natural-valued function over a finite set are finitely    *)
(* many: they are a finite union of finite sets.                           *)
LEMMA UnitsFinite ==
    ASSUME NEW S, IsFiniteSet(S), NEW f \in [S -> Nat], NEW T \in SUBSET S
    PROVE  IsFiniteSet(Units(f, T))
<1> DEFINE part == [x \in T |-> {x} \X (1 .. f[x])]
           parts == {{x} \X (1 .. f[x]) : x \in T}
<1>1. part \in Surjection(T, parts)
  BY DEF Surjection
<1>2. IsFiniteSet(T)
  BY FS_Subset
<1>3. IsFiniteSet(parts)
  <2> HIDE DEF part, parts
  <2> QED BY <1>1, <1>2, FS_Surjection
<1>4. ASSUME NEW P \in parts PROVE IsFiniteSet(P)
  <2>1. PICK x \in T : P = {x} \X (1 .. f[x])
    BY <1>4
  <2>2. f[x] \in Int /\ 1 \in Int
    OBVIOUS
  <2>3. IsFiniteSet({x})
    BY FS_Singleton
  <2>4. IsFiniteSet(1 .. f[x])
    BY <2>2, FS_Interval
  <2> QED BY <2>1, <2>3, <2>4, FS_Product
<1>5. Units(f, T) = UNION parts
  BY DEF Units
<1> QED
  <2> HIDE DEF parts
  <2> QED BY <1>3, <1>4, <1>5, FS_UNION

(* A sum of natural numbers is a natural number.                           *)
LEMMA TotalType ==
    ASSUME NEW S, IsFiniteSet(S), NEW f \in [S -> Nat]
    PROVE  Total(f, S) \in Nat
<1>1. IsFiniteSet(Units(f, S))
  BY UnitsFinite
<1> QED BY <1>1, FS_CardinalityType DEF Total

(* A sum depends on nothing but the values of the function in the set.     *)
LEMMA TotalSame ==
    ASSUME NEW S, NEW f, NEW g, \A x \in S : f[x] = g[x]
    PROVE  Total(f, S) = Total(g, S)
<1>1. Units(f, S) = Units(g, S)
  BY DEF Units
<1> QED BY <1>1 DEF Total

(* A sum of nothing but zeros is zero.                                     *)
LEMMA TotalZero ==
    ASSUME NEW S, NEW f, \A x \in S : f[x] = 0
    PROVE  Total(f, S) = 0
<1>1. Units(f, S) = {}
  BY DEF Units
<1> QED BY <1>1, FS_EmptySet DEF Total

(* A larger function has a sum that is not smaller.                        *)
LEMMA TotalMonotonic ==
    ASSUME NEW S, IsFiniteSet(S), NEW f \in [S -> Nat], NEW g \in [S -> Nat],
           \A x \in S : f[x] <= g[x]
    PROVE  Total(f, S) <= Total(g, S)
<1>1. Units(f, S) \subseteq Units(g, S)
  BY DEF Units
<1>2. IsFiniteSet(Units(g, S))
  BY UnitsFinite
<1> QED BY <1>1, <1>2, FS_Subset DEF Total

(* One element's value can be split off a sum.                             *)
LEMMA TotalSplit ==
    ASSUME NEW S, IsFiniteSet(S), NEW f \in [S -> Nat], NEW x \in S
    PROVE  /\ Total(f, S) = Total(f, S \ {x}) + f[x]
           /\ Total(f, S \ {x}) \in Nat
<1> DEFINE rest == Units(f, S \ {x})
           own  == {x} \X (1 .. f[x])
<1>1. Units(f, S) = rest \cup own /\ rest \cap own = {}
  BY DEF Units
<1>2. IsFiniteSet(rest)
  BY UnitsFinite
<1>3. IsFiniteSet(own) /\ Cardinality(own) = f[x]
  <2>1. f[x] \in Nat
    OBVIOUS
  <2>2. IsFiniteSet({x}) /\ Cardinality({x}) = 1
    BY FS_Singleton
  <2>3. IsFiniteSet(1 .. f[x]) /\ Cardinality(1 .. f[x]) = f[x]
    BY <2>1, FS_Interval
  <2>4. /\ IsFiniteSet(own)
        /\ Cardinality(own) = Cardinality({x}) * Cardinality(1 .. f[x])
    BY <2>2, <2>3, FS_Product
  <2> QED BY <2>1, <2>2, <2>3, <2>4
<1>4. Cardinality(rest) \in Nat
  BY <1>2, FS_CardinalityType
<1>5. Cardinality(rest \cap own) = 0
  BY <1>1, FS_EmptySet
<1>6. Cardinality(rest \cup own) = Cardinality(rest) + Cardinality(own)
  <2> HIDE DEF rest, own
  <2>1. Cardinality(rest \cup own) =
          Cardinality(rest) + Cardinality(own) - Cardinality(rest \cap own)
    BY <1>2, <1>3, FS_Union
  <2>2. Cardinality(own) \in Nat
    BY <1>3, FS_CardinalityType
  <2> QED BY <2>1, <2>2, <1>4, <1>5
<1> QED BY <1>1, <1>3, <1>4, <1>6 DEF Total

(* Changing one element's value changes the sum by as much.                *)
LEMMA TotalChange ==
    ASSUME NEW S, IsFiniteSet(S), NEW f \in [S -> Nat], NEW g \in [S -> Nat],
           NEW x \in S, \A y \in S \ {x} : g[y] = f[y]
    PROVE  Total(g, S) + f[x] = Total(f, S) + g[x]
<1>1. Total(f, S \ {x}) = Total(g, S \ {x})
  BY TotalSame
<1>2. /\ Total(f, S) = Total(f, S \ {x}) + f[x]
      /\ Total(g, S) = Total(g, S \ {x}) + g[x]
      /\ Total(f, S \ {x}) \in Nat
  BY TotalSplit
<1>3. f[x] \in Nat /\ g[x] \in Nat
  OBVIOUS
<1> QED BY <1>1, <1>2, <1>3

-----------------------------------------------------------------------------

USE DEF PayableRow, RequestRow

(* Which row a handler that has read and checked is about to write.        *)
LEMMA PendingRow ==
    ASSUME TypeOK, NEW s \in Sessions
    PROVE  /\ session[s].op = "create" => session[s].amount \in Amounts
           /\ session[s].op = "confirm" => session[s].id \in PayableIds
           /\ session[s].op \in Decisions \cup {"cancel"} =>
                session[s].id \in RequestIds
           /\ session[s].op = "reverse" => session[s].id \in PaymentIds
BY DEF TypeOK, Pending, Idle, Decisions

(* A payable's row keeps its type when paidAmount is written.              *)
LEMMA SettledType ==
    ASSUME NEW row \in PayableRow, NEW n \in Nat
    PROVE  /\ Settled(row, n) \in PayableRow
           /\ Settled(row, n).amount = row.amount
           /\ Settled(row, n).paid = n
           /\ Settled(row, n).twice = row.twice
BY DEF Settled, PayableStatus

(* Writing paidAmount never leads back to a status before confirmation.    *)
LEMMA SettledStatus ==
    ASSUME NEW row \in PayableRow, NEW n
    PROVE  /\ Settled(row, n).status \notin {"ABSENT", "UNPAID"}
           /\ Settled(row, n).confirmed = row.confirmed
BY DEF Settled

(* Taking a payment's units off a payable.                                 *)
LEMMA TakenOffType ==
    ASSUME NEW row \in PayableRow, NEW n \in Nat, n <= row.paid,
           NEW again \in BOOLEAN
    PROVE  /\ TakenOff(row, n, again) \in PayableRow
           /\ TakenOff(row, n, again) =
                [Settled(row, row.paid - n) EXCEPT
                   !.twice = IF again THEN row.twice + n ELSE row.twice]
           /\ TakenOff(row, n, again).status \notin {"ABSENT", "UNPAID"}
           /\ TakenOff(row, n, again).confirmed = row.confirmed
           /\ TakenOff(row, n, again).amount = row.amount
<1>1. row.paid - n \in Nat /\ row.twice + n \in Nat
  OBVIOUS
<1>2. Settled(row, row.paid - n) \in PayableRow
  BY <1>1, SettledType
<1> QED BY <1>1, <1>2, SettledType, SettledStatus DEF TakenOff

(* Refreshing a request changes its status only.                           *)
LEMMA RefreshedType ==
    ASSUME TypeOK, NEW r \in RequestIds, NEW pays
    PROVE  /\ Refreshed(r, pays) \in RequestRow
           /\ Refreshed(r, pays).amount = request[r].amount
           /\ Refreshed(r, pays).approved = request[r].approved
           /\ Refreshed(r, pays).status = "ABSENT" =>
                request[r].status = "ABSENT"
BY DEF TypeOK, Refreshed, RequestStatus

(* What confirmPayable and the decisions write.                            *)
LEMMA ConfirmedType ==
    ASSUME NEW row \in PayableRow
    PROVE  /\ Confirmed(row) \in PayableRow
           /\ Confirmed(row).status = "CONFIRMED"
           /\ Confirmed(row).confirmed
           /\ Confirmed(row).amount = row.amount
           /\ Confirmed(row).paid = row.paid
BY DEF Confirmed, PayableStatus

LEMMA DecidedType ==
    ASSUME NEW row \in RequestRow, NEW op \in Decisions
    PROVE  /\ Decided(row, op) \in RequestRow
           /\ Decided(row, op).status \in {"SUBMITTED", "APPROVED", "REJECTED"}
           /\ Decided(row, op).status = "APPROVED" => op = "approve"
           /\ Decided(row, op).amount = row.amount
           /\ Decided(row, op).approved = (row.approved \/ op = "approve")
<1>1. /\ DecisionTo(op) \in {"SUBMITTED", "APPROVED", "REJECTED"}
      /\ DecisionTo(op) = "APPROVED" => op = "approve"
  BY DEF DecisionTo, Decisions
<1> QED BY <1>1 DEF Decided, RequestStatus

LEMMA CancelledType ==
    ASSUME NEW row \in RequestRow
    PROVE  /\ Cancelled(row) \in RequestRow
           /\ Cancelled(row).status = "CANCELLED"
           /\ Cancelled(row).amount = row.amount
           /\ Cancelled(row).approved = row.approved
BY DEF Cancelled, RequestStatus

LEMMA AllocationsType ==
    ASSUME NEW a \in Allocations
    PROVE  a \in [PayableIds -> Nat]
<1>1. \A p \in PayableIds : a[p] \in Nat
  <2>1. Amounts \cup {0} \subseteq Nat
    BY PaymentsAssumption
  <2>2. \A p \in PayableIds : a[p] \in Amounts \cup {0}
    BY DEF Allocations
  <2> QED BY <2>1, <2>2, Zenon
<1>2. a = [p \in PayableIds |-> a[p]]
  BY DEF Allocations
<1> QED BY <1>1, <1>2

(* Registering a payment keeps the types of the two tables it writes.      *)
LEMMA RegisterType ==
    ASSUME TypeOK, NEW x \in PaymentIds, NEW r \in RequestIds \cup {None},
           NEW n \in Amounts, NEW a \in Allocations, Register(x, r, n, a)
    PROVE  TypeOK!1' /\ TypeOK!3'
<1>1. a \in [PayableIds -> Nat] /\ n \in Nat
  BY AllocationsType, PaymentsAssumption
<1>2. ASSUME NEW p \in PayableIds
      PROVE  Settled(payable[p], payable[p].paid + a[p]) \in
               PayableRow
  <2>1. /\ payable[p] \in PayableRow
        /\ payable[p].paid + a[p] \in Nat
    BY <1>1 DEF TypeOK
  <2> QED BY <2>1, SettledType
<1>3. TypeOK!1'
  BY <1>2 DEF TypeOK, Register
<1>4. TypeOK!3'
  BY <1>1 DEF TypeOK, Register, PaymentStatus
<1> QED BY <1>3, <1>4

LEMMA TypeStep ==
    ASSUME TypeOK, [Next]_vars
    PROVE  TypeOK'
<1>1. CASE UNCHANGED vars
  BY <1>1 DEF TypeOK, vars
<1>2. CASE Next
  <2>1. PICK s \in Sessions :
          \/ session[s] = Idle /\ (Request \/ Pay \/ Begin(s))
          \/ Commit(s)
          \/ Abandon(s)
    BY <1>2 DEF Next
  <2>2. CASE Request
    <3>1. PICK r \in RequestIds, items \in Allocations,
               other \in Amounts \cup {0}, header \in PayableIds \cup {None},
               scoped \in BOOLEAN, status \in {"DRAFT", "SUBMITTED"} :
            CreatePaymentRequest(r, items, other, header, scoped, status)
      BY <2>2 DEF Request
    <3>2. items \in [PayableIds -> Nat]
      BY AllocationsType
    <3>3. Total(items, PayableIds) + other \in Nat
      BY <3>2, TotalType, PaymentsAssumption
    <3> QED BY <3>1, <3>2, <3>3 DEF CreatePaymentRequest, TypeOK, RequestStatus
  <2>3. CASE Pay
    <3>1. PICK x \in PaymentIds, n \in Amounts, a \in Allocations :
            PayDirect(x, n, a) \/ \E r \in RequestIds : PayRequest(x, r, n, a)
      BY <2>3 DEF Pay
    <3>2. CASE PayDirect(x, n, a)
      <4>1. Register(x, None, n, a) /\ UNCHANGED request
        BY <3>2 DEF PayDirect
      <4>2. TypeOK!1' /\ TypeOK!3'
        BY <4>1, RegisterType
      <4> QED BY <4>1, <4>2 DEF TypeOK, Register
    <3>3. ASSUME NEW r \in RequestIds, PayRequest(x, r, n, a) PROVE TypeOK'
      <4>1. Register(x, r, n, a)
        BY <3>3 DEF PayRequest
      <4>2. TypeOK!1' /\ TypeOK!3'
        BY <4>1, RegisterType
      <4>3. TypeOK!2'
        BY <3>3, RefreshedType DEF PayRequest, TypeOK
      <4> QED BY <4>1, <4>2, <4>3 DEF TypeOK, Register
    <3> QED BY <3>1, <3>2, <3>3
  <2>4. CASE Begin(s)
    <3>1. payable' = payable /\ request' = request /\ payment' = payment
            /\ closed' = closed
      BY <2>4 DEF Begin, BeginCreatePayable, BeginConfirmPayable, BeginDecide,
        BeginCancelRequest, BeginReversePayment, BeginClosePeriod,
        BeginReopenPeriod
    <3>2. \E next \in Pending : session' = [session EXCEPT ![s] = next]
      BY <2>4 DEF Begin, BeginCreatePayable, BeginConfirmPayable, BeginDecide,
        BeginCancelRequest, BeginReversePayment, BeginClosePeriod,
        BeginReopenPeriod, Pending
    <3> QED BY <3>1, <3>2 DEF TypeOK
  <2>5. CASE Commit(s)
    <3>1. ASSUME NEW p \in PayableIds, CommitCreatePayable(s, p) PROVE TypeOK'
      BY <3>1, PendingRow, PaymentsAssumption
      DEF CommitCreatePayable, TypeOK, PayableStatus, Pending
    <3>2. CASE CommitConfirmPayable(s)
      <4> DEFINE p == session[s].id
      <4>1. p \in PayableIds
        BY <3>2, PendingRow DEF CommitConfirmPayable
      <4>2. Confirmed(payable[p]) \in PayableRow
        BY <4>1, ConfirmedType DEF TypeOK
      <4>3. payable' = [payable EXCEPT ![p] = Confirmed(payable[p])]
        BY <3>2 DEF CommitConfirmPayable
      <4> QED BY <3>2, <4>1, <4>2, <4>3
              DEF CommitConfirmPayable, TypeOK, Pending
    <3>3. CASE CommitDecide(s)
      <4> DEFINE r == session[s].id
      <4>1. r \in RequestIds /\ session[s].op \in Decisions
        BY <3>3, PendingRow DEF CommitDecide
      <4>2. Decided(request[r], session[s].op) \in RequestRow
        BY <4>1, DecidedType DEF TypeOK
      <4>3. request' = [request EXCEPT ![r] = Decided(request[r], session[s].op)]
        BY <3>3 DEF CommitDecide
      <4> QED BY <3>3, <4>1, <4>2, <4>3 DEF CommitDecide, TypeOK, Pending
    <3>4. CASE CommitCancelRequest(s)
      <4>1. session[s].id \in RequestIds
        BY <3>4, PendingRow DEF CommitCancelRequest
      <4>2. Cancelled(request[session[s].id]) \in RequestRow
        BY <4>1, CancelledType DEF TypeOK
      <4> QED BY <3>4, <4>1, <4>2 DEF CommitCancelRequest, TypeOK, Pending
    <3>5. CASE CommitReversePayment(s)
      <4> DEFINE x == session[s].id
                 a == payment[x].alloc
                 r == payment[x].request
      <4>1. x \in PaymentIds
        BY <3>5, PendingRow DEF CommitReversePayment
      <4>2. a \in [PayableIds -> Nat] /\ r \in RequestIds \cup {None}
        BY <4>1 DEF TypeOK
      <4>3. ASSUME NEW p \in PayableIds, a[p] # 0
            PROVE  TakenOff(payable[p], a[p], payment[x].status = "REVERSED") \in
                     PayableRow
        <5>1. payable[p] \in PayableRow
          BY DEF TypeOK
        <5>2. a[p] <= payable[p].paid
          BY <3>5, <4>2, <4>3 DEF CommitReversePayment
        <5> QED BY <4>2, <5>1, <5>2, TakenOffType
      <4>4. TypeOK!1'
        BY <3>5, <4>3 DEF CommitReversePayment, TypeOK
      <4>5. TypeOK!2'
        BY <3>5, <4>2, RefreshedType DEF CommitReversePayment, TypeOK
      <4>6. TypeOK!3'
        BY <3>5, <4>1 DEF CommitReversePayment, TypeOK, PaymentStatus
      <4> QED BY <3>5, <4>4, <4>5, <4>6
              DEF CommitReversePayment, TypeOK, Pending
    <3>6. CASE CommitClosePeriod(s) \/ CommitReopenPeriod(s)
      BY <3>6 DEF CommitClosePeriod, CommitReopenPeriod, TypeOK, Pending
    <3> QED BY <2>5, <3>1, <3>2, <3>3, <3>4, <3>5, <3>6 DEF Commit
  <2>6. CASE Abandon(s)
    BY <2>6 DEF Abandon, TypeOK, Pending
  <2> QED BY <2>1, <2>2, <2>3, <2>4, <2>5, <2>6
<1> QED BY <1>1, <1>2

LEMMA TypeInit == Init => TypeOK
<1> SUFFICES ASSUME Init PROVE TypeOK
  OBVIOUS
<1>1. NoAllocation \in [PayableIds -> Nat]
  BY DEF NoAllocation
<1>2. TypeOK!1
  BY DEF Init, PayableStatus
<1>3. TypeOK!2
  BY <1>1 DEF Init, RequestStatus
<1>4. TypeOK!3
  BY <1>1 DEF Init, PaymentStatus
<1>5. closed \in BOOLEAN /\ session \in [Sessions -> Pending]
  BY DEF Init, Pending
<1> QED BY <1>2, <1>3, <1>4, <1>5 DEF TypeOK

(* Every table keeps its shape: no amount becomes negative, no handler      *)
(* writes a status or an id that does not exist.                           *)
THEOREM PaymentsTypes == Spec => []TypeOK
BY TypeInit, TypeStep, PTL DEF Spec

-----------------------------------------------------------------------------
(* A payable is shown as paid only when its paidAmount says so.            *)

Earned(row) ==
    /\ row.paid <= row.amount
    /\ row.status = "PAID" => row.paid = row.amount
    /\ row.status = "PARTIALLY_PAID" => row.paid \in 1 .. row.amount - 1
    /\ row.status = "UNPAID" => row.paid = 0

LEMMA SettledEarned ==
    ASSUME NEW row \in PayableRow, NEW n \in Nat, n <= row.amount
    PROVE  Earned(Settled(row, n))
BY DEF Settled, Earned, PayableStatus

LEMMA TakenOffEarned ==
    ASSUME NEW row \in PayableRow, NEW n \in Nat, n <= row.paid,
           row.paid <= row.amount, NEW again \in BOOLEAN
    PROVE  Earned(TakenOff(row, n, again))
<1>1. row.paid - n \in Nat /\ row.paid - n <= row.amount
  OBVIOUS
<1>2. Earned(Settled(row, row.paid - n))
  BY <1>1, SettledEarned
<1>3. Settled(row, row.paid - n) \in PayableRow
  BY <1>1, SettledType
<1> QED BY <1>2, <1>3 DEF Earned, TakenOff

LEMMA EarnedInit == Init => PaidStatusEarned
BY DEF Init, PaidStatusEarned

(* Only five handlers write payables.  Those that write paidAmount write it  *)
(* with its status, and no more than the amount; confirmPayable writes a   *)
(* status that claims nothing.                                             *)
LEMMA EarnedStep ==
    ASSUME TypeOK, PaidStatusEarned, [Next]_vars
    PROVE  PaidStatusEarned'
<1> SUFFICES ASSUME NEW p \in PayableIds PROVE Earned(payable'[p])
  BY DEF PaidStatusEarned, Earned
<1>1. /\ payable[p] \in PayableRow
      /\ Earned(payable[p])
  BY DEF TypeOK, PaidStatusEarned, Earned
<1>2. CASE payable' = payable
  BY <1>1, <1>2
<1>3. ASSUME NEW x \in PaymentIds, NEW r, NEW n, NEW a \in Allocations,
             Register(x, r, n, a)
      PROVE  Earned(payable'[p])
  <2>1. a[p] \in Nat
    BY AllocationsType
  <2>2. CASE a[p] = 0
    BY <1>1, <1>3, <2>2 DEF Register
  <2>3. CASE a[p] # 0
    <3>1. payable[p].paid + a[p] \in Nat /\ payable[p].paid + a[p] <= payable[p].amount
      BY <1>1, <1>3, <2>1, <2>3 DEF Register, Payable
    <3>2. payable'[p] = Settled(payable[p], payable[p].paid + a[p])
      BY <1>3, <2>3 DEF Register
    <3> QED BY <1>1, <3>1, <3>2, SettledEarned
  <2> QED BY <2>2, <2>3
<1>4. ASSUME NEW s \in Sessions, NEW q \in PayableIds, CommitCreatePayable(s, q)
      PROVE  Earned(payable'[p])
  <2>1. session[s].amount \in Nat
    BY <1>4, PendingRow, PaymentsAssumption DEF CommitCreatePayable
  <2>2. payable'[p] = payable[p] \/
          payable'[p] = [status |-> "UNPAID", amount |-> session[s].amount,
                         paid |-> 0, confirmed |-> FALSE, late |-> FALSE,
                         twice |-> 0]
    BY <1>4 DEF CommitCreatePayable, TypeOK
  <2> QED BY <1>1, <2>1, <2>2 DEF Earned
<1>5. ASSUME NEW s \in Sessions, CommitConfirmPayable(s)
      PROVE  Earned(payable'[p])
  <2>1. payable'[p] = payable[p] \/
          payable'[p] = Confirmed(payable[p])
    BY <1>5 DEF CommitConfirmPayable, TypeOK
  <2> QED BY <1>1, <2>1, ConfirmedType DEF Earned
<1>6. ASSUME NEW s \in Sessions, CommitReversePayment(s)
      PROVE  Earned(payable'[p])
  <2> DEFINE a == payment[session[s].id].alloc
  <2>1. a[p] \in Nat
    BY <1>6, PendingRow DEF CommitReversePayment, TypeOK
  <2>2. CASE a[p] = 0
    BY <1>1, <1>6, <2>2 DEF CommitReversePayment
  <2>3. CASE a[p] # 0
    <3>1. a[p] <= payable[p].paid
      BY <1>6, <2>1, <2>3 DEF CommitReversePayment
    <3>2. payable[p].paid <= payable[p].amount
      BY <1>1 DEF Earned
    <3>3. payable'[p] = TakenOff(payable[p], a[p],
                          payment[session[s].id].status = "REVERSED")
      BY <1>6, <2>3 DEF CommitReversePayment
    <3> HIDE DEF a
    <3> QED BY <1>1, <2>1, <3>1, <3>2, <3>3, TakenOffEarned
  <2> QED BY <2>2, <2>3
<1>7. CASE Next
  <2>1. PICK s \in Sessions :
          \/ session[s] = Idle /\ (Request \/ Pay \/ Begin(s))
          \/ Commit(s)
          \/ Abandon(s)
    BY <1>7 DEF Next
  <2>2. CASE Request \/ Begin(s) \/ Abandon(s)
    BY <1>2, <2>2
    DEF Request, CreatePaymentRequest, Abandon, Begin,
      BeginCreatePayable, BeginConfirmPayable, BeginDecide,
      BeginCancelRequest, BeginReversePayment, BeginClosePeriod,
      BeginReopenPeriod
  <2>3. CASE Pay
    BY <1>3, <2>3 DEF Pay, PayDirect, PayRequest
  <2>4. CASE Commit(s)
    <3>1. CASE \/ CommitDecide(s)
               \/ CommitCancelRequest(s)
               \/ CommitClosePeriod(s)
               \/ CommitReopenPeriod(s)
      BY <1>2, <3>1 DEF CommitDecide, CommitCancelRequest, CommitClosePeriod,
        CommitReopenPeriod
    <3> QED BY <1>4, <1>5, <1>6, <2>4, <3>1 DEF Commit
  <2> QED BY <2>1, <2>2, <2>3, <2>4
<1> QED BY <1>2, <1>7 DEF vars

(* Whatever sessions interleave, a payable is shown as PAID or              *)
(* PARTIALLY_PAID only when its paidAmount says so, and paidAmount never   *)
(* exceeds the amount.                                                     *)
THEOREM PaidStatusIsEarned == Spec => []PaidStatusEarned
<1>1. Init => TypeOK /\ PaidStatusEarned
  BY TypeInit, EarnedInit
<1>2. TypeOK /\ PaidStatusEarned /\ [Next]_vars => (TypeOK /\ PaidStatusEarned)'
  BY TypeStep, EarnedStep
<1> QED BY <1>1, <1>2, PTL DEF Spec

-----------------------------------------------------------------------------
(* Confirmation and approval come before money.                            *)

(* What a handler about to reverse a payment has read stays true: rows are  *)
(* never deleted.                                                          *)
ReversesPosted ==
    \A s \in Sessions : session[s].op = "reverse" =>
        payment[session[s].id].status # "ABSENT"

(* What a status says about the decisions taken before.                    *)
PayableAgreed(row) ==
    /\ row.status \notin {"ABSENT", "UNPAID"} => row.confirmed
    /\ row.status = "ABSENT" => ~row.confirmed

RequestAgreed(row) ==
    /\ row.status \in {"APPROVED", "PARTIALLY_PAID", "PAID"} => row.approved
    /\ row.status = "ABSENT" => ~row.approved

StatusAgreed ==
    /\ \A p \in PayableIds : PayableAgreed(payable[p])
    /\ \A r \in RequestIds : RequestAgreed(request[r])

(* NothingPaidBeforeApproval is not inductive by itself: a payment is let   *)
(* through because of a status, and a reversal writes a status because of a *)
(* payment it has read before.                                             *)
ApprovedFirst ==
    TypeOK /\ ReversesPosted /\ StatusAgreed /\ NothingPaidBeforeApproval

(* What every step does to the tables, as far as approval is concerned: a   *)
(* confirmation and an approval are never taken back, and payments that     *)
(* exist keep their request and allocations.                               *)
PayableAdvances ==
    \A p \in PayableIds : payable[p].confirmed => payable'[p].confirmed

RequestAdvances ==
    \A r \in RequestIds : request[r].approved => request'[r].approved

PaymentsKept ==
    \A x \in PaymentIds : payment[x].status # "ABSENT" =>
        /\ payment'[x].status # "ABSENT"
        /\ payment'[x].request = payment[x].request
        /\ payment'[x].alloc = payment[x].alloc

LEMMA RegisterAdvances ==
    ASSUME TypeOK, StatusAgreed, NEW x \in PaymentIds,
           NEW r \in RequestIds \cup {None}, NEW n \in Amounts,
           NEW a \in Allocations, Register(x, r, n, a)
    PROVE  /\ PayableAdvances
           /\ PaymentsKept
           /\ \A p \in PayableIds : PayableAgreed(payable'[p])
           /\ \A p \in PayableIds : a[p] > 0 => payable'[p].confirmed
           /\ \A y \in PaymentIds \ {x} : payment'[y] = payment[y]
           /\ payment'[x] = [status |-> "REGISTERED", request |-> r,
                             amount |-> n, alloc |-> a]
<1>1. \A p \in PayableIds : a[p] \in Nat
  BY AllocationsType
<1>2. ASSUME NEW p \in PayableIds, a[p] # 0
      PROVE  /\ payable[p].confirmed
             /\ payable'[p].confirmed
             /\ payable'[p].status \notin {"ABSENT", "UNPAID"}
  <2>1. payable[p].confirmed
    BY <1>1, <1>2 DEF Register, Payable, StatusAgreed, PayableAgreed
  <2>2. payable'[p] = Settled(payable[p], payable[p].paid + a[p])
    BY <1>2 DEF Register
  <2> QED BY <2>1, <2>2, SettledStatus DEF TypeOK
<1>3. \A p \in PayableIds : a[p] = 0 => payable'[p] = payable[p]
  BY DEF Register
<1>4. PayableAdvances /\ \A p \in PayableIds : PayableAgreed(payable'[p])
  BY <1>2, <1>3 DEF PayableAdvances, PayableAgreed, StatusAgreed
<1>5. /\ \A y \in PaymentIds \ {x} : payment'[y] = payment[y]
      /\ payment'[x] = [status |-> "REGISTERED", request |-> r,
                        amount |-> n, alloc |-> a]
      /\ payment[x].status = "ABSENT"
  BY DEF Register, TypeOK
<1>6. PaymentsKept
  BY <1>5 DEF PaymentsKept
<1> QED BY <1>1, <1>2, <1>4, <1>5, <1>6

LEMMA ReverseAdvances ==
    ASSUME ApprovedFirst, NEW s \in Sessions, CommitReversePayment(s)
    PROVE  PayableAdvances /\ RequestAdvances /\ PaymentsKept /\ StatusAgreed'
<1> DEFINE x == session[s].id
           a == payment[x].alloc
           r == payment[x].request
<1> USE DEF ApprovedFirst
<1>1. x \in PaymentIds /\ r \in RequestIds \cup {None}
        /\ a \in [PayableIds -> Nat] /\ payment[x].status # "ABSENT"
  BY PendingRow DEF CommitReversePayment, TypeOK, ReversesPosted
<1>2. ASSUME NEW p \in PayableIds
      PROVE  /\ payable[p].confirmed => payable'[p].confirmed
             /\ PayableAgreed(payable'[p])
  <2>1. CASE a[p] = 0
    BY <2>1 DEF CommitReversePayment, StatusAgreed
  <2>2. CASE a[p] # 0
    <3>1. payable[p].confirmed
      BY <1>1, <2>2 DEF NothingPaidBeforeApproval
    <3> DEFINE again == payment[x].status = "REVERSED"
    <3>2. /\ payable'[p] = TakenOff(payable[p], a[p], again)
          /\ a[p] <= payable[p].paid
      BY <1>1, <2>2 DEF CommitReversePayment
    <3>3. payable[p] \in PayableRow /\ a[p] \in Nat /\ again \in BOOLEAN
      BY <1>1 DEF TypeOK
    <3> HIDE DEF x, a, again
    <3>4. /\ payable'[p].status \notin {"ABSENT", "UNPAID"}
          /\ payable'[p].confirmed = payable[p].confirmed
      BY <3>2, <3>3, TakenOffType
    <3> QED BY <3>1, <3>4 DEF PayableAgreed
  <2> QED BY <2>1, <2>2
<1>3. ASSUME NEW q \in RequestIds
      PROVE  /\ request[q].approved => request'[q].approved
             /\ RequestAgreed(request'[q])
  <2>1. CASE request'[q] = request[q]
    BY <2>1 DEF StatusAgreed
  <2>2. CASE q = r /\ request'[q] = Refreshed(q, payment')
    <3>1. request[q].approved
      BY <1>1, <2>2 DEF NothingPaidBeforeApproval
    <3>2. request[q].status # "ABSENT"
      BY <3>1 DEF StatusAgreed, RequestAgreed
    <3> QED BY <2>2, <3>1, <3>2, RefreshedType DEF RequestAgreed
  <2> QED BY <2>1, <2>2 DEF CommitReversePayment, TypeOK
<1>4. PaymentsKept
  BY <1>1 DEF CommitReversePayment, PaymentsKept, TypeOK
<1> QED BY <1>2, <1>3, <1>4
        DEF PayableAdvances, RequestAdvances, StatusAgreed

LEMMA CommitAdvances ==
    ASSUME ApprovedFirst, NEW s \in Sessions,
           \/ \E p \in PayableIds : CommitCreatePayable(s, p)
           \/ CommitConfirmPayable(s)
           \/ CommitDecide(s)
           \/ CommitCancelRequest(s)
           \/ CommitClosePeriod(s)
           \/ CommitReopenPeriod(s)
    PROVE  /\ PayableAdvances /\ RequestAdvances /\ payment' = payment
           /\ StatusAgreed'
           /\ session'[s] = Idle
           /\ \A t \in Sessions \ {s} : session'[t] = session[t]
<1> USE DEF ApprovedFirst, PayableAdvances, RequestAdvances, StatusAgreed,
    PayableAgreed, RequestAgreed
<1>1. ASSUME NEW p \in PayableIds, CommitCreatePayable(s, p)
      PROVE  PayableAdvances /\ RequestAdvances /\ StatusAgreed'
  BY <1>1 DEF CommitCreatePayable, TypeOK
<1>2. ASSUME CommitConfirmPayable(s)
      PROVE  PayableAdvances /\ RequestAdvances /\ StatusAgreed'
  <2>1. request' = request
    BY <1>2 DEF CommitConfirmPayable
  <2>2. \A p \in PayableIds :
          payable'[p] \in {payable[p], Confirmed(payable[p])}
    BY <1>2 DEF CommitConfirmPayable, TypeOK
  <2>3. ASSUME NEW p \in PayableIds
        PROVE  /\ payable[p].confirmed => payable'[p].confirmed
               /\ PayableAgreed(payable'[p])
    <3>1. payable[p] \in PayableRow /\ PayableAgreed(payable[p])
      BY DEF TypeOK
    <3>2. CASE payable'[p] = payable[p]
      BY <3>1, <3>2
    <3>3. CASE payable'[p] = Confirmed(payable[p])
      BY <3>1, <3>3, ConfirmedType
    <3> QED BY <2>2, <3>2, <3>3
  <2> QED BY <2>1, <2>3
<1>3. ASSUME CommitDecide(s)
      PROVE  PayableAdvances /\ RequestAdvances /\ StatusAgreed'
  <2>1. payable' = payable /\ session[s].op \in Decisions
    BY <1>3 DEF CommitDecide
  <2>2. \A r \in RequestIds :
          request'[r] \in {request[r], Decided(request[r], session[s].op)}
    BY <1>3 DEF CommitDecide, TypeOK
  <2>3. ASSUME NEW r \in RequestIds
        PROVE  /\ request[r].approved => request'[r].approved
               /\ RequestAgreed(request'[r])
    <3>1. request[r] \in RequestRow /\ RequestAgreed(request[r])
      BY DEF TypeOK
    <3>2. CASE request'[r] = request[r]
      BY <3>1, <3>2
    <3>3. CASE request'[r] = Decided(request[r], session[s].op)
      BY <2>1, <3>1, <3>3, DecidedType
    <3> QED BY <2>2, <3>2, <3>3
  <2> QED BY <2>1, <2>3
<1>4. ASSUME CommitCancelRequest(s)
      PROVE  PayableAdvances /\ RequestAdvances /\ StatusAgreed'
  <2>1. payable' = payable
    BY <1>4 DEF CommitCancelRequest
  <2>2. \A r \in RequestIds : request'[r] \in {request[r], Cancelled(request[r])}
    BY <1>4 DEF CommitCancelRequest, TypeOK
  <2>3. ASSUME NEW r \in RequestIds
        PROVE  /\ request[r].approved => request'[r].approved
               /\ RequestAgreed(request'[r])
    <3>1. request[r] \in RequestRow /\ RequestAgreed(request[r])
      BY DEF TypeOK
    <3>2. CASE request'[r] = request[r]
      BY <3>1, <3>2
    <3>3. CASE request'[r] = Cancelled(request[r])
      BY <3>1, <3>3, CancelledType
    <3> QED BY <2>2, <3>2, <3>3
  <2> QED BY <2>1, <2>3
<1>5. ASSUME CommitClosePeriod(s) \/ CommitReopenPeriod(s)
      PROVE  PayableAdvances /\ RequestAdvances /\ StatusAgreed'
  <2>1. payable' = payable /\ request' = request
    BY <1>5 DEF CommitClosePeriod, CommitReopenPeriod
  <2> QED BY <2>1
<1>6. /\ payment' = payment
      /\ session'[s] = Idle /\ \A t \in Sessions \ {s} : session'[t] = session[t]
  BY DEF CommitCreatePayable, CommitConfirmPayable, CommitDecide,
    CommitCancelRequest, CommitClosePeriod, CommitReopenPeriod, TypeOK
<1> QED BY <1>1, <1>2, <1>3, <1>4, <1>5, <1>6

LEMMA ApprovedInit == Init => ApprovedFirst
<1> SUFFICES ASSUME Init
             PROVE  ReversesPosted /\ StatusAgreed /\ NothingPaidBeforeApproval
  BY TypeInit DEF ApprovedFirst
<1>1. ReversesPosted
  BY DEF Init, ReversesPosted, Idle
<1>2. StatusAgreed
  BY DEF Init, StatusAgreed, PayableAgreed, RequestAgreed
<1>3. NothingPaidBeforeApproval
  BY DEF Init, NothingPaidBeforeApproval, NoAllocation
<1> QED BY <1>1, <1>2, <1>3

(* Steps that add no payment preserve the order of approval and money       *)
(* because tables only advance.                                            *)
LEMMA AdvancingSteps ==
    ASSUME ApprovedFirst, PayableAdvances, RequestAdvances, PaymentsKept,
           \A x \in PaymentIds : payment[x].status = "ABSENT" =>
             payment'[x] = payment[x]
    PROVE  NothingPaidBeforeApproval'
<1> SUFFICES ASSUME NEW x \in PaymentIds
             PROVE  /\ \A p \in PayableIds :
                         payment'[x].alloc[p] > 0 => payable'[p].confirmed
                    /\ \A r \in RequestIds :
                         payment'[x].status # "ABSENT" /\ payment'[x].request = r
                           => request'[r].approved
  BY DEF NothingPaidBeforeApproval
<1>1. payment'[x].alloc = payment[x].alloc
        /\ payment'[x].request = payment[x].request
        /\ (payment'[x].status # "ABSENT" => payment[x].status # "ABSENT")
  BY DEF PaymentsKept
<1> QED BY <1>1 DEF ApprovedFirst, NothingPaidBeforeApproval, PayableAdvances,
                 RequestAdvances

(* A payment is registered only where the statuses let it through.         *)
LEMMA RegisterApproved ==
    ASSUME ApprovedFirst, NEW x \in PaymentIds, NEW n \in Amounts,
           NEW a \in Allocations, NEW r \in RequestIds \cup {None},
           Register(x, r, n, a),
           \/ r = None /\ request' = request
           \/ /\ r \in RequestIds
              /\ request[r].status \in {"APPROVED", "PARTIALLY_PAID"}
              /\ request' = [request EXCEPT ![r] = Refreshed(r, payment')]
    PROVE  ReversesPosted' /\ StatusAgreed' /\ NothingPaidBeforeApproval'
<1>1. /\ PayableAdvances
      /\ PaymentsKept
      /\ \A p \in PayableIds : PayableAgreed(payable'[p])
      /\ \A p \in PayableIds : a[p] > 0 => payable'[p].confirmed
      /\ \A y \in PaymentIds \ {x} : payment'[y] = payment[y]
      /\ payment'[x] = [status |-> "REGISTERED", request |-> r,
                        amount |-> n, alloc |-> a]
  BY RegisterAdvances DEF ApprovedFirst
<1>2. ASSUME NEW q \in RequestIds
      PROVE  /\ request[q].approved => request'[q].approved
             /\ RequestAgreed(request'[q])
             /\ q = r => request'[q].approved
  <2>1. CASE q # r
    BY <2>1 DEF ApprovedFirst, TypeOK, StatusAgreed
  <2>2. CASE q = r
    <3>1. /\ request'[q] = Refreshed(q, payment')
          /\ request[q].approved /\ request[q].status # "ABSENT"
      BY <2>2, PaymentsAssumption
      DEF ApprovedFirst, TypeOK, StatusAgreed, RequestAgreed
    <3> QED BY <3>1, RefreshedType DEF ApprovedFirst, RequestAgreed
  <2> QED BY <2>1, <2>2
<1>3. StatusAgreed'
  BY <1>1, <1>2 DEF StatusAgreed
<1>4. ReversesPosted'
  <2>1. session' = session
    BY DEF Register
  <2> QED BY <1>1, <2>1, PendingRow DEF ReversesPosted, ApprovedFirst, PaymentsKept
<1>5. NothingPaidBeforeApproval'
  <2> SUFFICES ASSUME NEW y \in PaymentIds
               PROVE  /\ \A p \in PayableIds :
                           payment'[y].alloc[p] > 0 => payable'[p].confirmed
                      /\ \A q \in RequestIds :
                           payment'[y].status # "ABSENT" /\ payment'[y].request = q
                             => request'[q].approved
    BY DEF NothingPaidBeforeApproval
  <2>1. CASE y = x
    BY <1>1, <1>2, <2>1
  <2>2. CASE y # x
    BY <1>1, <1>2, <2>2
    DEF ApprovedFirst, NothingPaidBeforeApproval, PayableAdvances
  <2> QED BY <2>1, <2>2
<1> QED BY <1>3, <1>4, <1>5

LEMMA ApprovedStep ==
    ASSUME ApprovedFirst, [Next]_vars
    PROVE  ApprovedFirst'
<1> SUFFICES ReversesPosted' /\ StatusAgreed' /\ NothingPaidBeforeApproval'
  BY TypeStep DEF ApprovedFirst
<1>1. CASE UNCHANGED vars
  BY <1>1 DEF vars, ApprovedFirst, ReversesPosted, StatusAgreed,
    NothingPaidBeforeApproval
<1>2. CASE Next
  <2>1. PICK s \in Sessions :
          \/ session[s] = Idle /\ (Request \/ Pay \/ Begin(s))
          \/ Commit(s)
          \/ Abandon(s)
    BY <1>2 DEF Next
  <2>2. CASE Pay
    <3>1. PICK x \in PaymentIds, n \in Amounts, a \in Allocations :
            PayDirect(x, n, a) \/ \E r \in RequestIds : PayRequest(x, r, n, a)
      BY <2>2 DEF Pay
    <3>2. CASE PayDirect(x, n, a)
      BY <3>2, RegisterApproved DEF PayDirect
    <3>3. ASSUME NEW r \in RequestIds, PayRequest(x, r, n, a)
          PROVE  ReversesPosted' /\ StatusAgreed' /\ NothingPaidBeforeApproval'
      BY <3>3, RegisterApproved DEF PayRequest
    <3> QED BY <3>1, <3>2, <3>3
  <2>3. CASE Request
    <3>1. PICK r \in RequestIds, items \in Allocations,
               other \in Amounts \cup {0}, header \in PayableIds \cup {None},
               scoped \in BOOLEAN, status \in {"DRAFT", "SUBMITTED"} :
            CreatePaymentRequest(r, items, other, header, scoped, status)
      BY <2>3 DEF Request
    <3>2. payable' = payable /\ payment' = payment /\ session' = session
      BY <3>1 DEF CreatePaymentRequest
    <3>3. RequestAdvances /\ \A q \in RequestIds : RequestAgreed(request'[q])
      BY <3>1 DEF CreatePaymentRequest, RequestAdvances, RequestAgreed,
        StatusAgreed, ApprovedFirst, TypeOK
    <3>4. PayableAdvances /\ PaymentsKept
      BY <3>2 DEF PayableAdvances, PaymentsKept
    <3>5. StatusAgreed' /\ ReversesPosted'
      BY <3>2, <3>3 DEF StatusAgreed, ReversesPosted, ApprovedFirst
    <3> QED BY <3>2, <3>3, <3>4, <3>5, AdvancingSteps
  <2>4. CASE Begin(s) \/ Abandon(s)
    <3>1. payable' = payable /\ request' = request /\ payment' = payment
      BY <2>4 DEF Abandon, Begin, BeginCreatePayable, BeginConfirmPayable,
        BeginDecide, BeginCancelRequest, BeginReversePayment, BeginClosePeriod,
        BeginReopenPeriod
    <3>2. \/ \E x \in PaymentIds :
               /\ payment[x].status = "REGISTERED"
               /\ session' = [session EXCEPT ![s] = [op |-> "reverse", id |-> x]]
          \/ \E next : next.op # "reverse" /\ session' = [session EXCEPT ![s] = next]
      BY <2>4 DEF Abandon, Begin, BeginCreatePayable, BeginConfirmPayable,
        BeginDecide, BeginCancelRequest, BeginReversePayment, BeginClosePeriod,
        BeginReopenPeriod, Decisions, Idle
    <3>3. session \in [Sessions -> Pending]
      BY DEF ApprovedFirst, TypeOK
    <3>4. ReversesPosted'
      BY <3>1, <3>2, <3>3 DEF ReversesPosted, ApprovedFirst
    <3>5. NothingPaidBeforeApproval' /\ StatusAgreed'
      BY <3>1 DEF NothingPaidBeforeApproval, StatusAgreed, ApprovedFirst
    <3> QED BY <3>4, <3>5
  <2>5. CASE Commit(s)
    <3>1. CASE CommitReversePayment(s)
      <4>1. PayableAdvances /\ RequestAdvances /\ PaymentsKept /\ StatusAgreed'
        BY <3>1, ReverseAdvances
      <4>2. session'[s] = Idle /\ \A t \in Sessions \ {s} : session'[t] = session[t]
        BY <3>1 DEF CommitReversePayment, ApprovedFirst, TypeOK
      <4>3. ReversesPosted'
        BY <4>1, <4>2, PendingRow
        DEF ReversesPosted, ApprovedFirst, PaymentsKept, Idle
      <4>4. session[s].id \in PaymentIds /\ payment[session[s].id].status # "ABSENT"
        BY <3>1, PendingRow DEF CommitReversePayment, ReversesPosted, ApprovedFirst
      <4>5. \A x \in PaymentIds : payment[x].status = "ABSENT" =>
              payment'[x] = payment[x]
        BY <3>1, <4>4 DEF CommitReversePayment, ApprovedFirst, TypeOK
      <4> QED BY <4>1, <4>3, <4>5, AdvancingSteps
    <3>2. CASE ~CommitReversePayment(s)
      <4>1. /\ PayableAdvances /\ RequestAdvances /\ payment' = payment
            /\ StatusAgreed'
            /\ session'[s] = Idle
            /\ \A t \in Sessions \ {s} : session'[t] = session[t]
        BY <2>5, <3>2, CommitAdvances DEF Commit
      <4>2. ReversesPosted'
        BY <4>1 DEF ReversesPosted, ApprovedFirst, Idle
      <4>3. NothingPaidBeforeApproval'
        BY <4>1, AdvancingSteps DEF PaymentsKept
      <4> QED BY <4>1, <4>2, <4>3
    <3> QED BY <3>1, <3>2
  <2> QED BY <2>1, <2>2, <2>3, <2>4, <2>5
<1> QED BY <1>1, <1>2

(* Whatever sessions interleave, no payment is ever registered against a    *)
(* payable that was not confirmed or for a request that was not approved.  *)
THEOREM ApprovalBeforeMoney == Spec => []NothingPaidBeforeApproval
<1>1. ApprovedFirst => NothingPaidBeforeApproval
  BY DEF ApprovedFirst
<1> QED BY <1>1, ApprovedInit, ApprovedStep, PTL DEF Spec

-----------------------------------------------------------------------------
(* No request is paid more than it asked for.                              *)

LEMMA CountedType ==
    ASSUME TypeOK, NEW r
    PROVE  CountedFor(payment, r) \in [PaymentIds -> Nat]
BY DEF CountedFor, TypeOK

LEMMA OverspentInit == Init => RequestNotOverspent
<1> SUFFICES ASSUME Init, NEW r \in RequestIds
             PROVE  PaidFor(payment, r) <= request[r].amount
  BY DEF RequestNotOverspent
<1>1. \A x \in PaymentIds : CountedFor(payment, r)[x] = 0
  BY DEF Init, CountedFor
<1>2. PaidFor(payment, r) = 0
  BY <1>1, TotalZero DEF PaidFor
<1> QED BY <1>2 DEF Init

(* A step that counts no payment anew and takes nothing from the amounts.  *)
LEMMA NothingCounted ==
    ASSUME TypeOK, TypeOK', NEW r \in RequestIds,
           PaidFor(payment, r) <= request[r].amount,
           request[r].amount <= request'[r].amount,
           \A x \in PaymentIds :
             CountedFor(payment', r)[x] <= CountedFor(payment, r)[x]
    PROVE  PaidFor(payment', r) <= request'[r].amount
<1>1. /\ CountedFor(payment, r) \in [PaymentIds -> Nat]
      /\ CountedFor(payment', r) \in [PaymentIds -> Nat]
  BY DEF CountedFor, TypeOK
<1>2. PaidFor(payment', r) <= PaidFor(payment, r)
  BY <1>1, TotalMonotonic, PaymentsAssumption DEF PaidFor
<1>3. PaidFor(payment, r) \in Nat /\ PaidFor(payment', r) \in Nat
  BY <1>1, TotalType, PaymentsAssumption DEF PaidFor
<1>4. request[r].amount \in Nat /\ request'[r].amount \in Nat
  BY DEF TypeOK
<1> QED BY <1>2, <1>3, <1>4

LEMMA RegisterCounted ==
    ASSUME TypeOK, NEW x \in PaymentIds, NEW q \in RequestIds \cup {None},
           NEW n \in Amounts, NEW a \in Allocations, Register(x, q, n, a),
           NEW r \in RequestIds
    PROVE  /\ q # r => PaidFor(payment', r) = PaidFor(payment, r)
           /\ q = r => PaidFor(payment', r) = PaidFor(payment, r) + n
<1> DEFINE old == CountedFor(payment, r)
           new == CountedFor(payment', r)
<1>1. /\ payment[x].status = "ABSENT"
      /\ payment' = [payment EXCEPT ![x] =
                       [status |-> "REGISTERED", request |-> q,
                        amount |-> n, alloc |-> a]]
  BY DEF Register
<1>2. n \in Nat
  BY PaymentsAssumption
<1>3. \A y \in PaymentIds \ {x} : new[y] = old[y]
  BY <1>1 DEF CountedFor, TypeOK
<1>4. old[x] = 0 /\ new[x] = IF q = r THEN n ELSE 0
  BY <1>1 DEF CountedFor, TypeOK
<1>5. old \in [PaymentIds -> Nat] /\ new \in [PaymentIds -> Nat]
  <2>1. old \in [PaymentIds -> Nat]
    BY DEF CountedFor, TypeOK
  <2>2. \A y \in PaymentIds : new[y] \in Nat
    BY <1>2, <1>3, <1>4, <2>1
  <2> QED BY <2>1, <2>2 DEF CountedFor
<1>6. Total(new, PaymentIds) + old[x] = Total(old, PaymentIds) + new[x]
  <2> HIDE DEF old, new
  <2> QED BY <1>3, <1>5, TotalChange, PaymentsAssumption
<1>7. Total(old, PaymentIds) \in Nat /\ Total(new, PaymentIds) \in Nat
  <2> HIDE DEF old, new
  <2> QED BY <1>5, TotalType, PaymentsAssumption
<1>8. PaidFor(payment, r) = Total(old, PaymentIds)
        /\ PaidFor(payment', r) = Total(new, PaymentIds)
  BY DEF PaidFor
<1> QED
  <2> HIDE DEF old, new
  <2> QED BY <1>2, <1>4, <1>6, <1>7, <1>8

LEMMA OverspentStep ==
    ASSUME ApprovedFirst, RequestNotOverspent, [Next]_vars
    PROVE  RequestNotOverspent'
<1> SUFFICES ASSUME NEW r \in RequestIds
             PROVE  PaidFor(payment', r) <= request'[r].amount
  BY DEF RequestNotOverspent, PaidFor
<1>1. TypeOK /\ TypeOK' /\ PaidFor(payment, r) <= request[r].amount
  BY TypeStep DEF ApprovedFirst, RequestNotOverspent
<1>2. request[r].amount \in Nat
  BY <1>1 DEF TypeOK
<1>3. CASE payment' = payment /\ request'[r].amount = request[r].amount
  BY <1>1, <1>3
<1>4. ASSUME NEW x \in PaymentIds, NEW n \in Amounts, NEW a \in Allocations,
             PayDirect(x, n, a)
      PROVE  PaidFor(payment', r) <= request'[r].amount
  <2>1. Register(x, None, n, a) /\ request' = request
    BY <1>4 DEF PayDirect
  <2>2. None # r
    BY PaymentsAssumption
  <2> QED BY <1>1, <2>1, <2>2, RegisterCounted
<1>5. ASSUME NEW x \in PaymentIds, NEW n \in Amounts, NEW a \in Allocations,
             NEW q \in RequestIds, PayRequest(x, q, n, a)
      PROVE  PaidFor(payment', r) <= request'[r].amount
  <2>1. Register(x, q, n, a)
    BY <1>5 DEF PayRequest
  <2>2. request'[r].amount = request[r].amount
    BY <1>1, <1>5, RefreshedType DEF PayRequest, TypeOK
  <2>3. q = r => PaidFor(payment, r) + n <= request[r].amount
    BY <1>5 DEF PayRequest
  <2> QED BY <1>1, <2>1, <2>2, <2>3, RegisterCounted
<1>6. ASSUME NEW s \in Sessions, CommitReversePayment(s)
      PROVE  PaidFor(payment', r) <= request'[r].amount
  <2>1. \A x \in PaymentIds :
          CountedFor(payment', r)[x] <= CountedFor(payment, r)[x]
    <3>1. payment' = [payment EXCEPT ![session[s].id].status = "REVERSED"]
      BY <1>6 DEF CommitReversePayment
    <3> QED BY <1>1, <3>1 DEF CountedFor, TypeOK
  <2>2. request'[r].amount = request[r].amount
    <3>1. PICK q \in RequestIds \cup {None} :
            request' = IF q = None THEN request
                       ELSE [request EXCEPT ![q] = Refreshed(q, payment')]
      BY <1>1, <1>6, PendingRow DEF CommitReversePayment, TypeOK
    <3> QED BY <1>1, <3>1, RefreshedType DEF TypeOK
  <2> QED BY <1>1, <1>2, <2>1, <2>2, NothingCounted
<1>7. CASE Next
  <2>1. PICK s \in Sessions :
          \/ session[s] = Idle /\ (Request \/ Pay \/ Begin(s))
          \/ Commit(s)
          \/ Abandon(s)
    BY <1>7 DEF Next
  <2>2. CASE Request
    <3>1. PICK q \in RequestIds, items \in Allocations,
               other \in Amounts \cup {0}, header \in PayableIds \cup {None},
               scoped \in BOOLEAN, status \in {"DRAFT", "SUBMITTED"} :
            CreatePaymentRequest(q, items, other, header, scoped, status)
      BY <2>2 DEF Request
    <3>2. CASE q # r
      BY <1>1, <1>3, <3>1, <3>2 DEF CreatePaymentRequest, TypeOK
    <3>3. CASE q = r
      <4>1. payment' = payment /\ request[r].status = "ABSENT"
        BY <3>1, <3>3 DEF CreatePaymentRequest
      <4>2. ~request[r].approved
        BY <4>1 DEF ApprovedFirst, StatusAgreed, RequestAgreed
      <4>3. \A x \in PaymentIds : CountedFor(payment, r)[x] = 0
        BY <1>1, <4>2
        DEF CountedFor, ApprovedFirst, NothingPaidBeforeApproval, TypeOK
      <4>4. PaidFor(payment, r) = 0
        BY <4>3, TotalZero DEF PaidFor
      <4> QED BY <1>1, <4>1, <4>4 DEF TypeOK
    <3> QED BY <3>2, <3>3
  <2>3. CASE Pay
    BY <1>4, <1>5, <2>3 DEF Pay
  <2>4. CASE Begin(s) \/ Abandon(s)
    BY <1>3, <2>4
    DEF Abandon, Begin, BeginCreatePayable, BeginConfirmPayable,
      BeginDecide, BeginCancelRequest, BeginReversePayment, BeginClosePeriod,
      BeginReopenPeriod
  <2>5. CASE Commit(s)
    <3>1. ASSUME NEW p \in PayableIds, CommitCreatePayable(s, p)
          PROVE  payment' = payment /\ request' = request
      BY <3>1 DEF CommitCreatePayable
    <3>2. CASE \/ CommitConfirmPayable(s)
               \/ CommitClosePeriod(s)
               \/ CommitReopenPeriod(s)
      BY <1>3, <3>2 DEF CommitConfirmPayable, CommitClosePeriod,
        CommitReopenPeriod
    <3>3. CASE CommitDecide(s) \/ CommitCancelRequest(s)
      <4>1. payment' = payment
        BY <3>3 DEF CommitDecide, CommitCancelRequest
      <4>2. request'[r].amount = request[r].amount
        <5>1. CASE CommitDecide(s)
          <6>1. request'[r] \in {request[r], Decided(request[r], session[s].op)}
                  /\ session[s].op \in Decisions
            BY <1>1, <5>1 DEF CommitDecide, TypeOK
          <6>2. request[r] \in RequestRow
            BY <1>1 DEF TypeOK
          <6> QED BY <6>1, <6>2, DecidedType
        <5>2. CASE CommitCancelRequest(s)
          <6>1. /\ request'[r] \in {request[r], Cancelled(request[r])}
                /\ request[r] \in RequestRow
            BY <1>1, <5>2 DEF CommitCancelRequest, TypeOK
          <6> QED BY <6>1, CancelledType
        <5> QED BY <3>3, <5>1, <5>2
      <4> QED BY <1>3, <4>1, <4>2
    <3> QED BY <1>3, <1>6, <2>5, <3>1, <3>2, <3>3 DEF Commit
  <2> QED BY <2>1, <2>2, <2>3, <2>4, <2>5
<1> QED BY <1>3, <1>7 DEF vars

(* The payments registered for a request never exceed what it asked for:    *)
(* the check and the insertion are in one Serializable transaction, and a  *)
(* request's amount never changes once payments count for it.              *)
THEOREM RequestsWithinAmount == Spec => []RequestNotOverspent
<1>1. Init => ApprovedFirst /\ RequestNotOverspent
  BY ApprovedInit, OverspentInit
<1>2. ApprovedFirst /\ RequestNotOverspent /\ [Next]_vars
        => (ApprovedFirst /\ RequestNotOverspent)'
  BY ApprovedStep, OverspentStep
<1> QED BY <1>1, <1>2, PTL DEF Spec

-----------------------------------------------------------------------------
(* However sessions overlap: stored balances and statuses agree with the    *)
(* payments, and the tables implement the ledger of PayableLedger.         *)

PaymentRow ==
    [status : PaymentStatus, request : RequestIds \cup {None},
     amount : Nat, alloc : [PayableIds -> Nat]]

LEMMA LiveType ==
    ASSUME NEW pays \in [PaymentIds -> PaymentRow], NEW p \in PayableIds
    PROVE  /\ LiveAlloc(pays, p) \in [PaymentIds -> Nat]
           /\ Total(LiveAlloc(pays, p), PaymentIds) \in Nat
<1>1. \A x \in PaymentIds : pays[x].alloc[p] \in Nat
  BY DEF PaymentRow
<1>2. LiveAlloc(pays, p) \in [PaymentIds -> Nat]
  BY <1>1 DEF LiveAlloc
<1> QED BY <1>2, TotalType, PaymentsAssumption

(* What a change of one payment does to what is allocated to a payable.    *)
LEMMA LiveChange ==
    ASSUME NEW old \in [PaymentIds -> PaymentRow],
           NEW new \in [PaymentIds -> PaymentRow],
           NEW x \in PaymentIds, \A y \in PaymentIds \ {x} : new[y] = old[y],
           NEW p \in PayableIds
    PROVE  Total(LiveAlloc(new, p), PaymentIds) + LiveAlloc(old, p)[x] =
             Total(LiveAlloc(old, p), PaymentIds) + LiveAlloc(new, p)[x]
<1>1. \A y \in PaymentIds \ {x} : LiveAlloc(new, p)[y] = LiveAlloc(old, p)[y]
  BY DEF LiveAlloc
<1>2. /\ LiveAlloc(old, p) \in [PaymentIds -> Nat]
      /\ LiveAlloc(new, p) \in [PaymentIds -> Nat]
  BY LiveType
<1> QED BY <1>1, <1>2, TotalChange, PaymentsAssumption

LEMMA RegisterLive ==
    ASSUME TypeOK, TypeOK', NEW x \in PaymentIds, NEW r, NEW n,
           NEW a \in Allocations, Register(x, r, n, a), NEW p \in PayableIds
    PROVE  Total(LiveAlloc(payment', p), PaymentIds) = Allocated(p) + a[p]
<1>1. /\ payment \in [PaymentIds -> PaymentRow]
      /\ payment' \in [PaymentIds -> PaymentRow]
  BY DEF TypeOK, PaymentRow
<1>2. /\ \A y \in PaymentIds \ {x} : payment'[y] = payment[y]
      /\ LiveAlloc(payment, p)[x] = 0
      /\ LiveAlloc(payment', p)[x] = a[p]
  BY DEF Register, LiveAlloc, TypeOK
<1>3. Total(LiveAlloc(payment', p), PaymentIds) + 0 = Allocated(p) + a[p]
  BY <1>1, <1>2, LiveChange DEF Allocated
<1>4. Total(LiveAlloc(payment', p), PaymentIds) \in Nat
  BY <1>1, LiveType
<1> QED BY <1>3, <1>4

LEMMA ReverseLive ==
    ASSUME TypeOK, TypeOK', NEW x \in PaymentIds,
           payment[x].status = "REGISTERED",
           payment' = [payment EXCEPT ![x].status = "REVERSED"],
           NEW p \in PayableIds
    PROVE  /\ payment[x].alloc[p] \in Nat
           /\ Allocated(p) \in Nat
           /\ Total(LiveAlloc(payment', p), PaymentIds) =
                Allocated(p) - payment[x].alloc[p]
<1>1. /\ payment \in [PaymentIds -> PaymentRow]
      /\ payment' \in [PaymentIds -> PaymentRow]
  BY DEF TypeOK, PaymentRow
<1>2. /\ \A y \in PaymentIds \ {x} : payment'[y] = payment[y]
      /\ LiveAlloc(payment, p)[x] = payment[x].alloc[p]
      /\ LiveAlloc(payment', p)[x] = 0
  BY DEF LiveAlloc, TypeOK
<1>3. Total(LiveAlloc(payment', p), PaymentIds) + payment[x].alloc[p] =
        Allocated(p) + 0
  <2>1. ASSUME NEW new \in [PaymentIds -> PaymentRow],
               \A y \in PaymentIds \ {x} : new[y] = payment[y]
        PROVE  Total(LiveAlloc(new, p), PaymentIds) + LiveAlloc(payment, p)[x] =
                 Allocated(p) + LiveAlloc(new, p)[x]
    BY <1>1, <2>1, LiveChange DEF Allocated
  <2>2. Total(LiveAlloc(payment', p), PaymentIds) + LiveAlloc(payment, p)[x] =
          Allocated(p) + LiveAlloc(payment', p)[x]
    BY <1>1, <1>2, <2>1
  <2> QED BY <1>2, <2>2
<1>4. /\ Total(LiveAlloc(payment', p), PaymentIds) \in Nat
      /\ Allocated(p) \in Nat
      /\ payment[x].alloc[p] \in Nat
  BY <1>1, LiveType DEF Allocated, PaymentRow
<1> QED BY <1>3, <1>4
-----------------------------------------------------------------------------
(* Handlers about to write a payable or a request have read it, and rows    *)
(* are never deleted.                                                      *)
PendingExist ==
    \A s \in Sessions :
        /\ session[s].op = "confirm" =>
             payable[session[s].id].status # "ABSENT"
        /\ session[s].op \in Decisions \cup {"cancel"} =>
             request[session[s].id].status # "ABSENT"

LEMMA PayablesStay ==
    ASSUME TypeOK, [Next]_vars, NEW p \in PayableIds,
           payable[p].status # "ABSENT"
    PROVE  payable'[p].status # "ABSENT"
<1> DEFINE Goal == payable'[p].status # "ABSENT"
<1>1. ASSUME UNCHANGED payable PROVE Goal
  BY <1>1
<1>2. ASSUME NEW s \in Sessions, Commit(s) PROVE Goal
  <2>1. ASSUME NEW q \in PayableIds, CommitCreatePayable(s, q) PROVE Goal
    BY <2>1 DEF CommitCreatePayable, TypeOK
  <2>2. CASE CommitConfirmPayable(s)
    BY <2>2 DEF CommitConfirmPayable, TypeOK, Confirmed
  <2>3. CASE CommitReversePayment(s)
    <3> DEFINE a == payment[session[s].id].alloc
               again == payment[session[s].id].status = "REVERSED"
    <3>1. /\ payable[p] \in PayableRow /\ again \in BOOLEAN
          /\ a[p] \in Nat
      BY <2>3, PendingRow DEF CommitReversePayment, TypeOK
    <3>2. CASE a[p] = 0
      BY <2>3, <3>2 DEF CommitReversePayment
    <3>3. CASE a[p] # 0
      <4>1. /\ payable'[p] = TakenOff(payable[p], a[p], again)
            /\ a[p] <= payable[p].paid
        BY <2>3, <3>1, <3>3 DEF CommitReversePayment
      <4> HIDE DEF a, again
      <4> QED BY <3>1, <4>1, TakenOffType
    <3> QED BY <3>2, <3>3
  <2>4. CASE \/ CommitDecide(s)
             \/ CommitCancelRequest(s)
             \/ CommitClosePeriod(s)
             \/ CommitReopenPeriod(s)
    BY <2>4 DEF CommitDecide, CommitCancelRequest, CommitClosePeriod,
      CommitReopenPeriod
  <2> HIDE DEF Goal
  <2> QED BY <1>2, <2>1, <2>2, <2>3, <2>4 DEF Commit
<1>3. ASSUME Pay PROVE Goal
  <2>1. PICK x \in PaymentIds, n \in Amounts, a \in Allocations :
          PayDirect(x, n, a) \/ \E r \in RequestIds : PayRequest(x, r, n, a)
    BY <1>3 DEF Pay
  <2>2. payable' = [q \in PayableIds |->
                      IF a[q] = 0 THEN payable[q]
                      ELSE Settled(payable[q], payable[q].paid + a[q])]
    BY <2>1 DEF PayDirect, PayRequest, Register
  <2>3. payable[p] \in PayableRow
    BY DEF TypeOK
  <2>4. payable'[p] = payable[p]
          \/ payable'[p] = Settled(payable[p], payable[p].paid + a[p])
    BY <2>2
  <2> QED BY <2>3, <2>4, SettledStatus
<1>4. ASSUME NEW s \in Sessions, Request \/ Begin(s) \/ Abandon(s)
      PROVE  UNCHANGED payable
  BY <1>4 DEF Request, CreatePaymentRequest, Abandon, Begin,
    BeginCreatePayable, BeginConfirmPayable, BeginDecide, BeginCancelRequest,
    BeginReversePayment, BeginClosePeriod, BeginReopenPeriod
<1> HIDE DEF Goal
<1>5. Goal
  BY <1>1, <1>2, <1>3, <1>4 DEF Next, vars
<1> QED BY <1>5 DEF Goal

LEMMA RequestsStay ==
    ASSUME TypeOK, [Next]_vars, NEW r \in RequestIds,
           request[r].status # "ABSENT"
    PROVE  request'[r].status # "ABSENT"
<1> DEFINE Goal == request'[r].status # "ABSENT"
<1>1. ASSUME UNCHANGED request PROVE Goal
  BY <1>1
<1>2. ASSUME NEW q \in RequestIds, NEW pays,
             request' = [request EXCEPT ![q] = Refreshed(q, pays)]
      PROVE  Goal
  BY <1>2, RefreshedType DEF TypeOK
<1>3. ASSUME NEW s \in Sessions, Commit(s) PROVE Goal
  <2>1. CASE CommitDecide(s)
    <3>1. /\ request[r] \in RequestRow
          /\ session[s].op \in Decisions
          /\ request'[r] \in {request[r], Decided(request[r], session[s].op)}
      BY <2>1 DEF CommitDecide, TypeOK
    <3> QED BY <3>1, DecidedType
  <2>2. CASE CommitCancelRequest(s)
    <3>1. /\ request[r] \in RequestRow
          /\ request'[r] \in {request[r], Cancelled(request[r])}
      BY <2>2 DEF CommitCancelRequest, TypeOK
    <3> QED BY <3>1, CancelledType
  <2>3. CASE CommitReversePayment(s)
    <3>1. session[s].id \in PaymentIds
      BY <2>3, PendingRow DEF CommitReversePayment
    <3>2. payment[session[s].id].request \in RequestIds \cup {None}
      BY <3>1 DEF TypeOK
    <3> QED BY <1>1, <1>2, <2>3, <3>2 DEF CommitReversePayment
  <2>4. CASE \/ \E p \in PayableIds : CommitCreatePayable(s, p)
             \/ CommitConfirmPayable(s)
             \/ CommitClosePeriod(s)
             \/ CommitReopenPeriod(s)
    BY <1>1, <2>4 DEF CommitCreatePayable, CommitConfirmPayable,
      CommitClosePeriod, CommitReopenPeriod
  <2> HIDE DEF Goal
  <2> QED BY <1>3, <2>1, <2>2, <2>3, <2>4 DEF Commit
<1>4. ASSUME Pay PROVE Goal
  BY <1>1, <1>2, <1>4 DEF Pay, PayDirect, PayRequest
<1>5. ASSUME Request PROVE Goal
  BY <1>5 DEF Request, CreatePaymentRequest, TypeOK
<1>6. ASSUME NEW s \in Sessions, Begin(s) \/ Abandon(s)
      PROVE  UNCHANGED request
  BY <1>6 DEF Abandon, Begin, BeginCreatePayable, BeginConfirmPayable,
    BeginDecide, BeginCancelRequest, BeginReversePayment, BeginClosePeriod,
    BeginReopenPeriod
<1> HIDE DEF Goal
<1>7. Goal
  BY <1>1, <1>3, <1>4, <1>5, <1>6 DEF Next, vars
<1> QED BY <1>7 DEF Goal

LEMMA PendingExistInit == Init => PendingExist
BY DEF Init, Idle, PendingExist, Decisions

LEMMA PendingExistStep ==
    ASSUME TypeOK, [Next]_vars, PendingExist
    PROVE  PendingExist'
<1> DEFINE Exists(t, pay, req) ==
             /\ t.op = "confirm" => pay[t.id].status # "ABSENT"
             /\ t.op \in Decisions \cup {"cancel"} =>
                  req[t.id].status # "ABSENT"
<1> SUFFICES ASSUME NEW s \in Sessions
             PROVE  Exists(session'[s], payable', request')
  BY DEF PendingExist
<1>1. CASE session'[s] = session[s]
  <2>1. Exists(session[s], payable, request)
    BY DEF PendingExist
  <2>2. /\ session[s].op = "confirm" => session[s].id \in PayableIds
        /\ session[s].op \in Decisions \cup {"cancel"} =>
             session[s].id \in RequestIds
    BY PendingRow
  <2> QED BY <1>1, <2>1, <2>2, PayablesStay, RequestsStay
<1>2. CASE session'[s] = Idle
  BY <1>2 DEF Idle, Decisions
<1>3. CASE Begin(s)
  <2>1. payable' = payable /\ request' = request
    BY <1>3 DEF Begin, BeginCreatePayable, BeginConfirmPayable, BeginDecide,
      BeginCancelRequest, BeginReversePayment, BeginClosePeriod,
      BeginReopenPeriod
  <2>2. Exists(session'[s], payable, request)
    BY <1>3 DEF TypeOK, Begin, BeginCreatePayable, BeginConfirmPayable,
      BeginDecide, BeginCancelRequest, BeginReversePayment, BeginClosePeriod,
      BeginReopenPeriod, Decisions, DecisionFrom
  <2> QED BY <2>1, <2>2
<1> HIDE DEF Exists
<1>4. ASSUME NEW t \in Sessions, Begin(t) \/ Commit(t) \/ Abandon(t), t # s
      PROVE  session'[s] = session[s]
  BY <1>4 DEF TypeOK, Begin, BeginCreatePayable, BeginConfirmPayable,
    BeginDecide, BeginCancelRequest, BeginReversePayment, BeginClosePeriod,
    BeginReopenPeriod, Commit, CommitCreatePayable, CommitConfirmPayable,
    CommitDecide, CommitCancelRequest, CommitReversePayment,
    CommitClosePeriod, CommitReopenPeriod, Abandon
<1>5. CASE Commit(s) \/ Abandon(s)
  <2>1. session'[s] = Idle
    BY <1>5 DEF TypeOK, Commit, CommitCreatePayable, CommitConfirmPayable,
      CommitDecide, CommitCancelRequest, CommitReversePayment,
      CommitClosePeriod, CommitReopenPeriod, Abandon
  <2> QED BY <1>2, <2>1
<1>6. CASE Request \/ Pay
  <2>1. session' = session
    BY <1>6 DEF Request, CreatePaymentRequest, Pay, PayDirect, PayRequest, Register
  <2> QED BY <1>1, <2>1
<1>7. CASE UNCHANGED vars
  BY <1>1, <1>7 DEF vars
<1> QED BY <1>1, <1>3, <1>4, <1>5, <1>6, <1>7 DEF Next

-----------------------------------------------------------------------------
(* Balances and statuses of payables.                                      *)

(* Balance and status of one payable against what stands for it.           *)
RowAgrees(row, allocated) ==
    /\ row.paid + row.twice = allocated
    /\ ~row.late =>
         /\ row.status = "PAID" <=> row.amount > 0 /\ row.paid = row.amount
         /\ row.status = "PARTIALLY_PAID" <=> row.paid \in 1 .. row.amount - 1

(* LedgerAgrees is not inductive by itself: a payable that is created has   *)
(* no payment yet because payments come after confirmation, and a payment   *)
(* fits because the balance is within the amount.                          *)
LedgerInv ==
    /\ ApprovedFirst
    /\ PaidStatusEarned
    /\ PendingExist
    /\ LedgerAgrees

LEMMA LedgerInvInit == Init => LedgerInv
<1> SUFFICES ASSUME Init PROVE LedgerAgrees
  BY ApprovedInit, EarnedInit, PendingExistInit DEF LedgerInv
<1>1. \A p \in PayableIds, x \in PaymentIds : LiveAlloc(payment, p)[x] = 0
  BY DEF Init, LiveAlloc
<1>2. \A p \in PayableIds : Allocated(p) = 0
  BY <1>1, TotalZero DEF Allocated
<1> QED BY <1>2 DEF Init, LedgerAgrees

(* A handler that writes the balance writes the status that goes with it.  *)
LEMMA SettledAgrees ==
    ASSUME NEW row \in PayableRow, NEW n \in Nat, n <= row.amount, row.amount > 0
    PROVE  RowAgrees(Settled(row, n), n + row.twice)
<1>1. row.amount \in Nat
  OBVIOUS
<1>2. /\ Settled(row, n).paid = n /\ Settled(row, n).amount = row.amount
      /\ Settled(row, n).twice = row.twice
  BY SettledType
<1>3. Settled(row, n).status = IF n >= row.amount THEN "PAID"
                               ELSE IF n = 0 THEN "CONFIRMED"
                               ELSE "PARTIALLY_PAID"
  BY DEF Settled
<1> QED BY <1>1, <1>2, <1>3 DEF RowAgrees

LEMMA TwiceOnly ==
    ASSUME NEW row \in PayableRow, NEW new, NEW k \in Nat,
           new = [row EXCEPT !.twice = k]
    PROVE  /\ new.status = row.status /\ new.paid = row.paid
           /\ new.amount = row.amount /\ new.twice = k
OBVIOUS

LEMMA TakenOffAgrees ==
    ASSUME NEW row \in PayableRow, NEW n \in Nat, n <= row.paid, n > 0,
           row.paid <= row.amount, NEW again \in BOOLEAN,
           NEW total, RowAgrees(row, total)
    PROVE  RowAgrees(TakenOff(row, n, again),
                     IF again THEN total ELSE total - n)
<1> DEFINE new == Settled(row, row.paid - n)
<1>1. row.paid - n \in Nat /\ row.paid - n <= row.amount /\ row.amount > 0
  OBVIOUS
<1>2. /\ new.status = IF row.paid - n >= row.amount THEN "PAID"
                      ELSE IF row.paid - n = 0 THEN "CONFIRMED"
                      ELSE "PARTIALLY_PAID"
      /\ new.paid = row.paid - n /\ new.amount = row.amount
      /\ new \in PayableRow
  BY <1>1, SettledType DEF Settled
<1>3. /\ TakenOff(row, n, again).status = new.status
      /\ TakenOff(row, n, again).paid = row.paid - n
      /\ TakenOff(row, n, again).amount = row.amount
      /\ TakenOff(row, n, again).twice =
           IF again THEN row.twice + n ELSE row.twice
  <2>1. new.twice = row.twice
    BY <1>1, SettledType
  <2>2. TakenOff(row, n, again) =
          [new EXCEPT !.twice = IF again THEN row.twice + n ELSE row.twice]
    BY <1>1, TakenOffType
  <2>3. (IF again THEN row.twice + n ELSE row.twice) \in Nat
    OBVIOUS
  <2> HIDE DEF new
  <2> QED BY <1>2, <2>2, <2>3, TwiceOnly
<1>4. row.paid + row.twice = total /\ row.twice \in Nat
  BY DEF RowAgrees
<1> HIDE DEF new
<1> QED BY <1>1, <1>2, <1>3, <1>4 DEF RowAgrees

(* confirmPayable leaves the balance alone; its status contradicts it only  *)
(* where payments had set the status.                                      *)
LEMMA ConfirmedAgrees ==
    ASSUME NEW row \in PayableRow, NEW total, RowAgrees(row, total)
    PROVE  RowAgrees(Confirmed(row), total)
<1>1. /\ Confirmed(row).status = "CONFIRMED"
      /\ Confirmed(row).paid = row.paid
      /\ Confirmed(row).twice = row.twice
      /\ Confirmed(row).amount = row.amount
      /\ Confirmed(row).late = (row.late \/ row.status \in {"PAID", "PARTIALLY_PAID"})
  BY DEF Confirmed, SetByPayments
<1> QED BY <1>1 DEF RowAgrees

LEMMA AgreesStep ==
    ASSUME LedgerInv, [Next]_vars
    PROVE  LedgerAgrees'
<1> DEFINE next(p) == Total(LiveAlloc(payment', p), PaymentIds)
<1> SUFFICES ASSUME NEW p \in PayableIds
             PROVE  RowAgrees(payable'[p], next(p))
  BY DEF LedgerAgrees, RowAgrees, Allocated
<1>1. /\ TypeOK /\ TypeOK'
      /\ payable[p] \in PayableRow
      /\ RowAgrees(payable[p], Allocated(p))
      /\ Earned(payable[p])
  BY TypeStep
  DEF LedgerInv, ApprovedFirst, TypeOK, LedgerAgrees, RowAgrees, Earned,
    PaidStatusEarned
<1>2. CASE payable'[p] = payable[p] /\ payment' = payment
  BY <1>1, <1>2 DEF Allocated
<1>3. ASSUME NEW x \in PaymentIds, NEW r, NEW n, NEW a \in Allocations,
             Register(x, r, n, a)
      PROVE  RowAgrees(payable'[p], next(p))
  <2>1. next(p) = Allocated(p) + a[p] /\ a[p] \in Nat
    BY <1>1, <1>3, RegisterLive, AllocationsType
  <2>2. Allocated(p) = payable[p].paid + payable[p].twice
    BY <1>1 DEF RowAgrees
  <2>3. CASE a[p] = 0
    <3>1. payable'[p] = payable[p]
      BY <1>3, <2>3 DEF Register
    <3>2. next(p) = Allocated(p)
      BY <1>1, <2>1, <2>2, <2>3
    <3> HIDE DEF next
    <3> QED BY <1>1, <3>1, <3>2
  <2>4. CASE a[p] # 0
    <3>1. /\ payable[p].paid + a[p] \in Nat
          /\ payable[p].paid + a[p] <= payable[p].amount
          /\ payable[p].amount > 0
      BY <1>1, <1>3, <2>1, <2>4 DEF Register, Payable
    <3>2. payable'[p] = Settled(payable[p], payable[p].paid + a[p])
      BY <1>3, <2>4 DEF Register
    <3>3. next(p) = (payable[p].paid + a[p]) + payable[p].twice
      BY <1>1, <2>1, <2>2
    <3> HIDE DEF next
    <3> QED BY <1>1, <3>1, <3>2, <3>3, SettledAgrees
  <2> QED BY <2>3, <2>4
<1>4. ASSUME NEW s \in Sessions, CommitReversePayment(s)
      PROVE  RowAgrees(payable'[p], next(p))
  <2> DEFINE x == session[s].id
             a == payment[x].alloc
             again == payment[x].status = "REVERSED"
  <2>1. x \in PaymentIds /\ payment[x].status \in {"REGISTERED", "REVERSED"}
    BY <1>1, <1>4, PendingRow
    DEF CommitReversePayment, LedgerInv, ApprovedFirst, ReversesPosted,
        TypeOK, PaymentStatus
  <2>2. payment' = [payment EXCEPT ![x].status = "REVERSED"]
    BY <1>4 DEF CommitReversePayment
  <2>3. a[p] \in Nat /\ Allocated(p) \in Nat
    <3>1. payable[p].paid + payable[p].twice = Allocated(p)
      BY <1>1 DEF RowAgrees
    <3> QED BY <1>1, <2>1, <3>1 DEF TypeOK
  <2>4. next(p) = IF again THEN Allocated(p) ELSE Allocated(p) - a[p]
    <3>1. CASE again
      <4> HIDE DEF next, x, a
      <4>1. payment[x] = [payment[x] EXCEPT !.status = "REVERSED"]
        BY <1>1, <2>1, <3>1 DEF TypeOK
      <4>2. payment' = payment
        BY <1>1, <2>1, <2>2, <4>1 DEF TypeOK
      <4> USE DEF next
      <4> QED BY <3>1, <4>2 DEF Allocated
    <3>2. CASE ~again
      BY <1>1, <2>1, <2>2, <3>2, ReverseLive
    <3> QED BY <3>1, <3>2
  <2>5. CASE a[p] = 0
    <3>1. payable'[p] = payable[p]
      BY <1>4, <2>5 DEF CommitReversePayment
    <3>2. next(p) = Allocated(p)
      BY <2>3, <2>4, <2>5
    <3> HIDE DEF next
    <3> QED BY <1>1, <3>1, <3>2
  <2>6. CASE a[p] # 0
    <3>1. a[p] <= payable[p].paid
      BY <1>4, <2>3, <2>6 DEF CommitReversePayment
    <3>2. payable'[p] = TakenOff(payable[p], a[p], again)
      BY <1>4, <2>6 DEF CommitReversePayment
    <3>3. payable[p].paid <= payable[p].amount /\ again \in BOOLEAN /\ a[p] > 0
      BY <1>1, <2>3, <2>6 DEF Earned
    <3> HIDE DEF a, next, again
    <3> QED BY <1>1, <2>3, <2>4, <3>1, <3>2, <3>3, TakenOffAgrees
  <2> QED BY <2>5, <2>6
<1>5. ASSUME NEW s \in Sessions, NEW q \in PayableIds, CommitCreatePayable(s, q)
      PROVE  RowAgrees(payable'[p], next(p))
  <2>1. payment' = payment
    BY <1>5 DEF CommitCreatePayable
  <2>2. CASE p # q
    BY <1>1, <1>2, <1>5, <2>1, <2>2 DEF CommitCreatePayable, TypeOK
  <2>3. CASE p = q
    <3>1. ~payable[p].confirmed
      BY <1>5, <2>3
      DEF CommitCreatePayable, LedgerInv, ApprovedFirst, StatusAgreed,
          PayableAgreed
    <3>2. \A x \in PaymentIds : LiveAlloc(payment, p)[x] = 0
      <4>1. \A x \in PaymentIds : payment[x].alloc[p] \in Nat
        BY <1>1 DEF TypeOK
      <4>2. \A x \in PaymentIds : ~ (payment[x].alloc[p] > 0)
        BY <3>1 DEF LedgerInv, ApprovedFirst, NothingPaidBeforeApproval
      <4> QED BY <4>1, <4>2 DEF LiveAlloc
    <3>3. next(p) = 0
      BY <2>1, <3>2, TotalZero
    <3>4. PICK n \in Amounts :
            payable'[p] = [status |-> "UNPAID", amount |-> n, paid |-> 0,
                           confirmed |-> FALSE, late |-> FALSE, twice |-> 0]
      BY <1>1, <1>5, <2>3, PendingRow DEF CommitCreatePayable, TypeOK
    <3>5. n \in Nat \ {0}
      BY PaymentsAssumption
    <3> HIDE DEF next
    <3> QED BY <3>3, <3>4, <3>5 DEF RowAgrees
  <2> QED BY <2>2, <2>3
<1>6. ASSUME NEW s \in Sessions, CommitConfirmPayable(s)
      PROVE  RowAgrees(payable'[p], next(p))
  <2>1. payment' = payment
    BY <1>6 DEF CommitConfirmPayable
  <2>2. CASE p # session[s].id
    BY <1>1, <1>2, <1>6, <2>1, <2>2 DEF CommitConfirmPayable, TypeOK
  <2>3. CASE p = session[s].id
    <3>1. payable'[p] = Confirmed(payable[p])
      BY <1>1, <1>6, <2>3 DEF CommitConfirmPayable, TypeOK
    <3>2. next(p) = Allocated(p)
      BY <2>1 DEF Allocated
    <3> HIDE DEF next
    <3> QED BY <1>1, <3>1, <3>2, ConfirmedAgrees
  <2> QED BY <2>2, <2>3
<1> HIDE DEF next
<1>7. CASE UNCHANGED vars
  BY <1>2, <1>7 DEF vars
<1>8. ASSUME NEW s \in Sessions, Request \/ Begin(s) \/ Abandon(s)
      PROVE  payable'[p] = payable[p] /\ payment' = payment
  BY <1>8 DEF Request, CreatePaymentRequest, Abandon, Begin,
    BeginCreatePayable, BeginConfirmPayable, BeginDecide, BeginCancelRequest,
    BeginReversePayment, BeginClosePeriod, BeginReopenPeriod
<1>9. ASSUME Pay PROVE RowAgrees(payable'[p], next(p))
  BY <1>3, <1>9 DEF Pay, PayDirect, PayRequest
<1>10. ASSUME NEW s \in Sessions, Commit(s)
       PROVE  RowAgrees(payable'[p], next(p))
  <2>1. CASE \/ CommitDecide(s)
             \/ CommitCancelRequest(s)
             \/ CommitClosePeriod(s)
             \/ CommitReopenPeriod(s)
    BY <1>2, <2>1 DEF CommitDecide, CommitCancelRequest, CommitClosePeriod,
      CommitReopenPeriod
  <2> QED BY <1>4, <1>5, <1>6, <1>10, <2>1 DEF Commit
<1> QED BY <1>2, <1>7, <1>8, <1>9, <1>10 DEF Next

LEMMA LedgerInvStep ==
    ASSUME LedgerInv, [Next]_vars
    PROVE  LedgerInv'
<1>1. TypeOK
  BY DEF LedgerInv, ApprovedFirst
<1>2. ApprovedFirst'
  BY ApprovedStep DEF LedgerInv
<1>3. PaidStatusEarned'
  BY <1>1, EarnedStep DEF LedgerInv
<1>4. PendingExist'
  BY <1>1, PendingExistStep DEF LedgerInv
<1>5. LedgerAgrees'
  BY AgreesStep
<1> QED BY <1>2, <1>3, <1>4, <1>5 DEF LedgerInv

(* However sessions overlap, paidAmount is what the payments that stand     *)
(* allocate, less exactly what reversals of already reversed payments took  *)
(* off again, and the status follows from it unless a confirmation has been *)
(* written over it from an old read.                                       *)
THEOREM StoredBalancesAgree == Spec => []LedgerAgrees
<1>1. LedgerInv /\ [Next]_vars => LedgerInv'
  BY LedgerInvStep
<1>2. LedgerInv => LedgerAgrees
  BY DEF LedgerInv
<1> QED BY LedgerInvInit, <1>1, <1>2, PTL DEF Spec

-----------------------------------------------------------------------------
(* Payment requests.                                                       *)

(* The status of one request against the payments registered for it.       *)
RequestPaid(row, paid) ==
    ~row.overtaken =>
      /\ row.status = "PAID" <=> row.amount > 0 /\ paid = row.amount
      /\ row.status = "PARTIALLY_PAID" <=> paid \in 1 .. row.amount - 1

Sized(row) == row.status # "ABSENT" => row.amount > 0

RequestSound(row, paid) == RequestPaid(row, paid) /\ Sized(row)

RequestInv ==
    /\ ApprovedFirst
    /\ RequestNotOverspent
    /\ PendingExist
    /\ \A r \in RequestIds : RequestSound(request[r], PaidFor(payment, r))

LEMMA RequestInit == Init => RequestInv
<1> SUFFICES ASSUME Init PROVE RequestInv
  OBVIOUS
<1>1. ASSUME NEW r \in RequestIds
      PROVE  RequestSound(request[r], PaidFor(payment, r))
  <2>1. \A x \in PaymentIds : CountedFor(payment, r)[x] = 0
    BY DEF Init, CountedFor
  <2>2. PaidFor(payment, r) = 0
    BY <2>1, TotalZero DEF PaidFor
  <2> QED BY <2>2 DEF Init, RequestSound, RequestPaid, Sized
<1> QED BY <1>1, ApprovedInit, OverspentInit, PendingExistInit DEF RequestInv

LEMMA PaidType ==
    ASSUME TypeOK, NEW r
    PROVE  PaidFor(payment, r) \in Nat
BY CountedType, TotalType, PaymentsAssumption DEF PaidFor

(* Refreshing writes the status that the payments call for.                *)
LEMMA RefreshedAgrees ==
    ASSUME TypeOK, NEW r \in RequestIds, NEW pays, PaidFor(pays, r) \in Nat,
           PaidFor(pays, r) <= request[r].amount, request[r].amount > 0
    PROVE  RequestSound(Refreshed(r, pays), PaidFor(pays, r))
<1> DEFINE paid == PaidFor(pays, r)
<1>1. request[r] \in RequestRow /\ request[r].amount \in Nat
  BY DEF TypeOK
<1>2. Refreshed(r, pays).amount = request[r].amount
  BY RefreshedType
<1>3. Refreshed(r, pays).status =
        IF paid >= request[r].amount THEN "PAID"
        ELSE IF paid > 0 THEN "PARTIALLY_PAID"
        ELSE IF request[r].status \in {"PAID", "PARTIALLY_PAID"} THEN "APPROVED"
        ELSE request[r].status
  BY <1>1 DEF Refreshed
<1> HIDE DEF paid
<1> QED BY <1>1, <1>2, <1>3 DEF RequestSound, RequestPaid, Sized, paid

(* A decision or a cancellation that overtakes no payment finds a request   *)
(* that is not paid at all.                                                *)
LEMMA OverwrittenSound ==
    ASSUME NEW row \in RequestRow, NEW new \in RequestRow, NEW paid \in Nat,
           RequestSound(row, paid), row.status # "ABSENT", paid <= row.amount,
           new.amount = row.amount,
           new.status \notin {"ABSENT", "PAID", "PARTIALLY_PAID"},
           ~new.overtaken =>
             ~row.overtaken /\ row.status \notin {"PAID", "PARTIALLY_PAID"}
    PROVE  RequestSound(new, paid)
<1>1. row.amount \in Nat /\ row.amount > 0
  BY DEF RequestSound, Sized
<1>2. ~new.overtaken => paid = 0
  BY <1>1 DEF RequestSound, RequestPaid
<1> QED BY <1>1, <1>2 DEF RequestSound, RequestPaid, Sized

LEMMA UnpaidSound ==
    ASSUME NEW row, row.amount \in Nat, row.amount > 0,
           row.status \notin {"PAID", "PARTIALLY_PAID"}
    PROVE  RequestSound(row, 0)
BY DEF RequestSound, RequestPaid, Sized

LEMMA SoundStep ==
    ASSUME RequestInv, [Next]_vars, NEW r \in RequestIds
    PROVE  RequestSound(request'[r], PaidFor(payment', r))
<1> DEFINE Goal == RequestSound(request'[r], PaidFor(payment', r))
<1>1. /\ TypeOK /\ TypeOK' /\ ApprovedFirst
      /\ RequestSound(request[r], PaidFor(payment, r))
      /\ PaidFor(payment, r) \in Nat /\ PaidFor(payment', r) \in Nat
      /\ PaidFor(payment, r) <= request[r].amount
      /\ PaidFor(payment', r) <= request'[r].amount
      /\ request[r].amount \in Nat
      /\ request[r] \in RequestRow /\ request'[r] \in RequestRow
  <2>1. TypeOK /\ TypeOK' /\ ApprovedFirst /\ RequestNotOverspent'
    BY TypeStep, OverspentStep DEF RequestInv, ApprovedFirst
  <2>2. PaidFor(payment, r) \in Nat
    BY <2>1, PaidType
  <2>3. PaidFor(payment', r) \in Nat
    <3>1. CountedFor(payment', r) \in [PaymentIds -> Nat]
      BY <2>1 DEF CountedFor, TypeOK
    <3> QED BY <3>1, TotalType, PaymentsAssumption DEF PaidFor
  <2> QED BY <2>1, <2>2, <2>3 DEF RequestInv, RequestNotOverspent, TypeOK
<1>2. ASSUME payment' = payment, request'[r] = request[r] PROVE Goal
  BY <1>1, <1>2
<1>3. ASSUME NEW x \in PaymentIds, NEW n \in Amounts, NEW a \in Allocations,
             PayDirect(x, n, a)
      PROVE  Goal
  <2>1. Register(x, None, n, a) /\ request' = request /\ None # r
    BY <1>3, PaymentsAssumption DEF PayDirect
  <2> QED BY <1>1, <2>1, RegisterCounted
<1>4. ASSUME NEW x \in PaymentIds, NEW n \in Amounts, NEW a \in Allocations,
             NEW q \in RequestIds, PayRequest(x, q, n, a)
      PROVE  Goal
  <2>1. Register(x, q, n, a)
    BY <1>4 DEF PayRequest
  <2>2. CASE q # r
    <3>1. request'[r] = request[r]
      BY <1>1, <1>4, <2>2 DEF PayRequest, TypeOK
    <3> QED BY <1>1, <2>1, <2>2, <3>1, RegisterCounted
  <2>3. CASE q = r
    <3>1. request'[r] = Refreshed(r, payment') /\ request[r].status # "ABSENT"
      BY <1>1, <1>4, <2>3 DEF PayRequest, TypeOK
    <3>2. request[r].amount > 0 /\ request'[r].amount = request[r].amount
      BY <1>1, <3>1, RefreshedType DEF RequestSound, Sized
    <3> QED BY <1>1, <3>1, <3>2, RefreshedAgrees
  <2> QED BY <2>2, <2>3
<1>5. ASSUME NEW s \in Sessions, CommitReversePayment(s) PROVE Goal
  <2> DEFINE x == session[s].id
             q == payment[x].request
  <2>1. /\ x \in PaymentIds /\ payment[x].status # "ABSENT"
        /\ payment' = [payment EXCEPT ![x].status = "REVERSED"]
        /\ request' = IF q = None THEN request
                      ELSE [request EXCEPT ![q] = Refreshed(q, payment')]
    BY <1>1, <1>5, PendingRow DEF CommitReversePayment, ApprovedFirst, ReversesPosted
  <2>2. CASE q # r
    <3>1. request'[r] = request[r]
      BY <1>1, <2>1, <2>2 DEF TypeOK
    <3>2. \A y \in PaymentIds : CountedFor(payment', r)[y] = CountedFor(payment, r)[y]
      BY <1>1, <2>1, <2>2 DEF CountedFor, TypeOK
    <3>3. PaidFor(payment', r) = PaidFor(payment, r)
      BY <3>2, TotalSame DEF PaidFor
    <3> QED BY <1>1, <3>1, <3>3
  <2>3. CASE q = r
    <3>1. request'[r] = Refreshed(r, payment')
      BY <1>1, <2>1, <2>3, PaymentsAssumption DEF TypeOK
    <3>2. request[r].approved
      BY <1>1, <2>1, <2>3 DEF ApprovedFirst, NothingPaidBeforeApproval
    <3>3. request[r].status # "ABSENT"
      BY <1>1, <3>2 DEF ApprovedFirst, StatusAgreed, RequestAgreed
    <3>4. request[r].amount > 0 /\ request'[r].amount = request[r].amount
      BY <1>1, <3>1, <3>3, RefreshedType DEF RequestSound, Sized
    <3> HIDE DEF q, x
    <3> QED BY <1>1, <3>1, <3>4, RefreshedAgrees
  <2> QED BY <2>2, <2>3
<1>6. ASSUME Request PROVE Goal
  <2>1. PICK q \in RequestIds, items \in Allocations,
             other \in Amounts \cup {0}, header \in PayableIds \cup {None},
             scoped \in BOOLEAN, status \in {"DRAFT", "SUBMITTED"} :
          CreatePaymentRequest(q, items, other, header, scoped, status)
    BY <1>6 DEF Request
  <2>2. CASE q # r
    BY <1>1, <1>2, <2>1, <2>2 DEF CreatePaymentRequest, TypeOK
  <2>3. CASE q = r
    <3>1. /\ payment' = payment /\ request[r].status = "ABSENT"
          /\ request'[r].amount > 0
          /\ request'[r].status \in {"DRAFT", "SUBMITTED"}
      BY <1>1, <2>1, <2>3 DEF CreatePaymentRequest, TypeOK
    <3>2. ~request[r].approved
      BY <1>1, <3>1 DEF ApprovedFirst, StatusAgreed, RequestAgreed
    <3>3. \A x \in PaymentIds : CountedFor(payment, r)[x] = 0
      BY <1>1, <3>2
      DEF CountedFor, ApprovedFirst, NothingPaidBeforeApproval, TypeOK
    <3>4. PaidFor(payment', r) = 0
      BY <3>1, <3>3, TotalZero DEF PaidFor
    <3>5. request'[r].amount \in Nat
      BY <1>1 DEF TypeOK
    <3> QED BY <3>1, <3>4, <3>5, UnpaidSound
  <2> QED BY <2>2, <2>3
<1>7. ASSUME NEW s \in Sessions, CommitDecide(s) PROVE Goal
  <2>1. CASE session[s].id # r
    BY <1>1, <1>2, <1>7, <2>1 DEF CommitDecide, TypeOK
  <2>2. CASE session[s].id = r
    <3> DEFINE new == Decided(request[r], session[s].op)
    <3>1. /\ session[s].op \in Decisions /\ payment' = payment
          /\ request'[r] = new
      BY <1>1, <1>7, <2>2 DEF CommitDecide, TypeOK
    <3>2. request[r].status # "ABSENT"
      BY <2>2, <3>1 DEF RequestInv, PendingExist
    <3>3. /\ new.amount = request[r].amount
          /\ new.status \in {"SUBMITTED", "APPROVED", "REJECTED"}
          /\ new \in RequestRow
      BY <1>1, <3>1, DecidedType
    <3>4. ~new.overtaken =>
            ~request[r].overtaken
              /\ request[r].status \notin {"PAID", "PARTIALLY_PAID"}
      BY <1>1 DEF Decided, SetByPayments
    <3> HIDE DEF new
    <3> QED BY <1>1, <3>1, <3>2, <3>3, <3>4, OverwrittenSound
  <2> QED BY <2>1, <2>2
<1>8. ASSUME NEW s \in Sessions, CommitCancelRequest(s) PROVE Goal
  <2>1. CASE session[s].id # r
    BY <1>1, <1>2, <1>8, <2>1 DEF CommitCancelRequest, TypeOK
  <2>2. CASE session[s].id = r
    <3> DEFINE new == Cancelled(request[r])
    <3>1. payment' = payment /\ request'[r] = new
      BY <1>1, <1>8, <2>2 DEF CommitCancelRequest, TypeOK
    <3>2. request[r].status # "ABSENT"
      BY <1>8, <2>2 DEF CommitCancelRequest, RequestInv, PendingExist
    <3>3. /\ new.amount = request[r].amount
          /\ new.status = "CANCELLED"
          /\ new \in RequestRow
      BY <1>1, CancelledType
    <3>4. ~new.overtaken =>
            ~request[r].overtaken
              /\ request[r].status \notin {"PAID", "PARTIALLY_PAID"}
      BY <1>1 DEF Cancelled, SetByPayments
    <3> HIDE DEF new
    <3> QED BY <1>1, <3>1, <3>2, <3>3, <3>4, OverwrittenSound
  <2> QED BY <2>1, <2>2
<1>9. ASSUME NEW s \in Sessions, Begin(s) \/ Abandon(s) PROVE Goal
  <2>1. payment' = payment /\ request' = request
    BY <1>9 DEF Abandon, Begin, BeginCreatePayable, BeginConfirmPayable,
      BeginDecide, BeginCancelRequest, BeginReversePayment, BeginClosePeriod,
      BeginReopenPeriod
  <2> QED BY <1>2, <2>1
<1>10. ASSUME NEW s \in Sessions,
              \/ \E p \in PayableIds : CommitCreatePayable(s, p)
              \/ CommitConfirmPayable(s)
              \/ CommitClosePeriod(s)
              \/ CommitReopenPeriod(s)
       PROVE  Goal
  <2>1. payment' = payment /\ request' = request
    BY <1>10 DEF CommitCreatePayable, CommitConfirmPayable, CommitClosePeriod,
      CommitReopenPeriod
  <2> QED BY <1>2, <2>1
<1>11. ASSUME UNCHANGED vars PROVE Goal
  BY <1>2, <1>11 DEF vars
<1> HIDE DEF Goal
<1>12. Goal
  BY <1>3, <1>4, <1>5, <1>6, <1>7, <1>8, <1>9, <1>10, <1>11 DEF Next, Pay, Commit
<1> QED BY <1>12 DEF Goal
(* However sessions overlap, a request is PAID or PARTIALLY_PAID just when  *)
(* the payments registered for it say so, unless a decision or a            *)
(* cancellation read before them has since been written over their status. *)
THEOREM RequestsAgree == Spec => []RequestAgrees
<1>1. RequestInv /\ [Next]_vars => RequestInv'
  <2> SUFFICES ASSUME RequestInv, [Next]_vars PROVE RequestInv'
    OBVIOUS
  <2>1. TypeOK
    BY DEF RequestInv, ApprovedFirst
  <2>2. PendingExist'
    BY <2>1, PendingExistStep DEF RequestInv
  <2>3. ApprovedFirst' /\ RequestNotOverspent'
    BY ApprovedStep, OverspentStep DEF RequestInv
  <2> QED BY <2>2, <2>3, SoundStep DEF RequestInv
<1>2. RequestInv => RequestAgrees
  BY DEF RequestInv, RequestSound, RequestPaid, RequestAgrees
<1> QED BY RequestInit, <1>1, <1>2, PTL DEF Spec
-----------------------------------------------------------------------------
(* Accounts payable implements the ledger.                                 *)

(* The mapped variables of the ledger.                                     *)
debtMap ==
    [p \in PayableIds |->
       [state |-> IF payable[p].status = "ABSENT" THEN "none"
                  ELSE IF payable[p].confirmed THEN "confirmed"
                  ELSE "entered",
        amount |-> payable[p].amount]]

entryMap ==
    [x \in PaymentIds |->
       [state |-> CASE payment[x].status = "ABSENT" -> "free"
                    [] payment[x].status = "REGISTERED" -> "posted"
                    [] payment[x].status = "REVERSED" -> "reversed",
        alloc |-> payment[x].alloc]]

takenMap == [p \in PayableIds |-> payable[p].twice]

LEMMA LedgerInit == Init => Ledger!Init
BY DEF Init, Ledger!Init, NoAllocation

(* The ledger sums as accounts payable does.                               *)
LEMMA SameTotal ==
    ASSUME NEW f, NEW S
    PROVE  Ledger!Total(f, S) = Total(f, S)
<1>1. ASSUME NEW T PROVE Ledger!Cardinality(T) = Cardinality(T)
  BY Zenon DEF Ledger!Cardinality, Cardinality
<1>2. Ledger!Units(f, S) = Units(f, S)
  BY Zenon DEF Ledger!Units, Units
<1> QED BY <1>1, <1>2 DEF Ledger!Total, Total

(* What the ledger calls posted is what stands allocated.                  *)
LEMMA PostedIsAllocated ==
    ASSUME TypeOK, NEW p \in PayableIds
    PROVE  Ledger!Posted(p) = Allocated(p)
<1>1. \A x \in PaymentIds :
        /\ entryMap[x].alloc = payment[x].alloc
        /\ entryMap[x].state = "posted" <=> payment[x].status = "REGISTERED"
  BY DEF entryMap, TypeOK, PaymentStatus
<1> DEFINE posted == [x \in PaymentIds |->
                        IF entryMap[x].state = "posted" THEN entryMap[x].alloc[p]
                        ELSE 0]
<1>2. \A x \in PaymentIds : posted[x] = LiveAlloc(payment, p)[x]
  BY <1>1 DEF LiveAlloc
<1>3. Total(posted, PaymentIds) = Allocated(p)
  <2> HIDE DEF posted
  <2> QED BY <1>2, TotalSame DEF Allocated
<1>4. Ledger!Posted(p) = Ledger!Total(posted, PaymentIds)
  BY Zenon DEF Ledger!Posted, entryMap
<1> QED BY <1>3, <1>4, SameTotal

(* The actions of the ledger in terms of the mapped variables.             *)
LEMMA EnterMaps ==
    ASSUME NEW p \in PayableIds, debtMap[p].state = "none",
           debtMap' = [debtMap EXCEPT
                         ![p] = [state |-> "entered",
                                 amount |-> debtMap'[p].amount]],
           entryMap' = entryMap, takenMap' = takenMap
    PROVE  Ledger!Next
<1>1. Ledger!Enter(p, debtMap'[p].amount)
  BY Zenon DEF Ledger!Enter, debtMap, entryMap, takenMap
<1> QED BY <1>1, Zenon DEF Ledger!Next, debtMap

LEMMA ConfirmMaps ==
    ASSUME NEW p \in PayableIds, debtMap[p].state = "entered",
           debtMap' = [debtMap EXCEPT ![p].state = "confirmed"],
           entryMap' = entryMap, takenMap' = takenMap
    PROVE  Ledger!Next
<1>1. Ledger!Confirm(p)
  BY Zenon DEF Ledger!Confirm, debtMap, entryMap, takenMap
<1> QED BY <1>1, Zenon DEF Ledger!Next

LEMMA PostMaps ==
    ASSUME NEW x \in PaymentIds, entryMap[x].state = "free",
           \A q \in PayableIds : entryMap'[x].alloc[q] > 0 =>
             /\ debtMap[q].state = "confirmed"
             /\ Ledger!Booked(q) + entryMap'[x].alloc[q] <= debtMap[q].amount,
           entryMap' = [entryMap EXCEPT
                          ![x] = [state |-> "posted",
                                  alloc |-> entryMap'[x].alloc]],
           debtMap' = debtMap, takenMap' = takenMap
    PROVE  Ledger!Next
<1>1. Ledger!Post(x, entryMap'[x].alloc)
  BY Zenon DEF Ledger!Post, debtMap, entryMap, takenMap
<1> QED BY <1>1, Zenon DEF Ledger!Next, entryMap

LEMMA ReverseMaps ==
    ASSUME NEW x \in PaymentIds, entryMap[x].state = "posted",
           \A q \in PayableIds : entryMap[x].alloc[q] <= Ledger!Booked(q),
           entryMap' = [entryMap EXCEPT ![x].state = "reversed"],
           debtMap' = debtMap, takenMap' = takenMap
    PROVE  Ledger!Next
<1>1. Ledger!Reverse(x)
  BY Zenon DEF Ledger!Reverse, Ledger!StillBooked, debtMap, entryMap, takenMap
<1> QED BY <1>1, Zenon DEF Ledger!Next

LEMMA ReverseAgainMaps ==
    ASSUME NEW x \in PaymentIds, entryMap[x].state = "reversed",
           \A q \in PayableIds : entryMap[x].alloc[q] <= Ledger!Booked(q),
           takenMap' = [q \in PayableIds |->
                          takenMap[q] + entryMap[x].alloc[q]],
           debtMap' = debtMap, entryMap' = entryMap
    PROVE  Ledger!Next
<1>1. Ledger!ReverseAgain(x)
  BY Zenon DEF Ledger!ReverseAgain, Ledger!StillBooked, debtMap, entryMap,
    takenMap
<1> QED BY <1>1, Zenon DEF Ledger!Next

(* What is booked on a payable is its paidAmount.                          *)
LEMMA BookedIsPaid ==
    ASSUME LedgerInv, NEW p \in PayableIds
    PROVE  Ledger!Booked(p) = payable[p].paid
<1>1. TypeOK /\ payable[p] \in PayableRow
  BY DEF LedgerInv, ApprovedFirst, TypeOK
<1>2. Ledger!Posted(p) = payable[p].paid + payable[p].twice
  BY <1>1, PostedIsAllocated DEF LedgerInv, LedgerAgrees
<1>3. takenMap[p] = payable[p].twice
  BY DEF takenMap
<1>4. Ledger!Booked(p) = Ledger!Posted(p) - takenMap[p]
  BY Zenon DEF Ledger!Booked, takenMap
<1> QED BY <1>1, <1>2, <1>3, <1>4

(* Writing the balance is no step of the ledger, which stores none.        *)
LEMMA DebtKept ==
    ASSUME \A p \in PayableIds :
             /\ payable'[p].status = "ABSENT" <=> payable[p].status = "ABSENT"
             /\ payable'[p].confirmed = payable[p].confirmed
             /\ payable'[p].amount = payable[p].amount
    PROVE  debtMap' = debtMap
BY DEF debtMap

LEMMA CreateIsEnter ==
    ASSUME LedgerInv, NEW s \in Sessions, NEW p \in PayableIds,
           CommitCreatePayable(s, p)
    PROVE  Ledger!Next
<1>1. TypeOK /\ payable[p].status = "ABSENT"
  BY DEF LedgerInv, ApprovedFirst, CommitCreatePayable
<1>2. debtMap[p].state = "none"
  BY <1>1 DEF debtMap
<1>3. payable' = [payable EXCEPT ![p] =
                    [status |-> "UNPAID", amount |-> session[s].amount,
                     paid |-> 0, confirmed |-> FALSE,
                     late |-> FALSE, twice |-> 0]]
  BY DEF CommitCreatePayable
<1>4. debtMap' = [debtMap EXCEPT ![p] = [state |-> "entered",
                                         amount |-> debtMap'[p].amount]]
  BY <1>1, <1>3 DEF debtMap, TypeOK
<1>5. entryMap' = entryMap
  BY DEF CommitCreatePayable, entryMap
<1>6. takenMap' = takenMap
  <2>1. ~payable[p].confirmed
    BY <1>1 DEF LedgerInv, ApprovedFirst, StatusAgreed, PayableAgreed
  <2>2. \A x \in PaymentIds : LiveAlloc(payment, p)[x] = 0
    <3>1. \A x \in PaymentIds : payment[x].alloc[p] \in Nat
      BY <1>1 DEF TypeOK
    <3>2. \A x \in PaymentIds : ~ (payment[x].alloc[p] > 0)
      BY <2>1 DEF LedgerInv, ApprovedFirst, NothingPaidBeforeApproval
    <3> QED BY <3>1, <3>2 DEF LiveAlloc
  <2>3. Allocated(p) = 0
    BY <2>2, TotalZero DEF Allocated
  <2>4. payable[p].twice = 0
    BY <1>1, <2>3 DEF LedgerInv, LedgerAgrees, TypeOK
  <2> QED BY <1>1, <1>3, <2>4 DEF takenMap, TypeOK
<1> QED BY <1>2, <1>4, <1>5, <1>6, EnterMaps

(* A confirmation of a payable that has been confirmed meanwhile changes    *)
(* nothing the ledger knows.                                               *)
LEMMA ConfirmIsConfirm ==
    ASSUME LedgerInv, NEW s \in Sessions, CommitConfirmPayable(s)
    PROVE  [Ledger!Next]_(Ledger!vars)
<1> DEFINE p == session[s].id
<1>1. TypeOK /\ p \in PayableIds /\ payable[p].status # "ABSENT"
  BY PendingRow DEF LedgerInv, ApprovedFirst, PendingExist, CommitConfirmPayable
<1>2. payable' = [payable EXCEPT ![p] = Confirmed(payable[p])]
  BY DEF CommitConfirmPayable
<1>3. entryMap' = entryMap
  BY DEF CommitConfirmPayable, entryMap
<1> HIDE DEF p
<1>4. /\ \A q \in PayableIds \ {p} : payable'[q] = payable[q]
      /\ payable'[p].status = "CONFIRMED"
      /\ payable'[p].confirmed
      /\ payable'[p].amount = payable[p].amount
      /\ payable'[p].twice = payable[p].twice
  BY <1>1, <1>2 DEF TypeOK, Confirmed
<1>5. takenMap' = takenMap
  BY <1>4 DEF takenMap
<1>6. CASE payable[p].confirmed
  <2>1. debtMap' = debtMap
    BY <1>1, <1>4, <1>6 DEF debtMap
  <2> QED BY <1>3, <1>5, <2>1, Zenon DEF Ledger!vars, debtMap, entryMap, takenMap
<1>7. CASE ~payable[p].confirmed
  <2>1. debtMap[p].state = "entered"
    BY <1>1, <1>7 DEF debtMap
  <2>2. debtMap' = [debtMap EXCEPT ![p].state = "confirmed"]
    <3>1. debtMap[p].amount = payable[p].amount
      BY <1>1 DEF debtMap
    <3>2. debtMap'[p] = [debtMap[p] EXCEPT !.state = "confirmed"]
      BY <1>1, <1>4 DEF debtMap
    <3>3. \A q \in PayableIds \ {p} : debtMap'[q] = debtMap[q]
      BY <1>4 DEF debtMap
    <3> QED BY <1>1, <3>2, <3>3 DEF debtMap
  <2> QED BY <1>1, <1>3, <1>5, <2>1, <2>2, ConfirmMaps
<1> QED BY <1>6, <1>7

LEMMA RegisterIsPost ==
    ASSUME LedgerInv, NEW x \in PaymentIds, NEW r, NEW n,
           NEW a \in Allocations, Register(x, r, n, a)
    PROVE  Ledger!Next
<1>1. TypeOK /\ StatusAgreed /\ a \in [PayableIds -> Nat]
  BY AllocationsType DEF LedgerInv, ApprovedFirst
<1>2. entryMap[x].state = "free"
  BY <1>1 DEF Register, entryMap
<1>3. entryMap' = [entryMap EXCEPT ![x] = [state |-> "posted", alloc |-> a]]
  BY <1>1 DEF Register, entryMap, TypeOK
<1>4. entryMap'[x].alloc = a
  BY <1>3 DEF entryMap
<1>5. ASSUME NEW q \in PayableIds, a[q] > 0
      PROVE  /\ debtMap[q].state = "confirmed"
             /\ Ledger!Booked(q) + a[q] <= debtMap[q].amount
  <2>1. /\ payable[q].status \notin {"ABSENT", "UNPAID"}
        /\ payable[q].paid + a[q] <= payable[q].amount
    BY <1>5 DEF Register, Payable
  <2>2. payable[q].confirmed
    BY <1>1, <2>1 DEF StatusAgreed, PayableAgreed
  <2>3. Ledger!Booked(q) = payable[q].paid
    BY BookedIsPaid
  <2> QED BY <2>1, <2>2, <2>3 DEF debtMap
<1>6. \A q \in PayableIds :
        \/ payable'[q] = payable[q]
        \/ /\ payable[q].status # "ABSENT"
           /\ payable'[q] = Settled(payable[q], payable[q].paid + a[q])
  BY <1>1 DEF Register, Payable
<1>7. ASSUME NEW q \in PayableIds
      PROVE  /\ payable'[q].status = "ABSENT" <=> payable[q].status = "ABSENT"
             /\ payable'[q].confirmed = payable[q].confirmed
             /\ payable'[q].amount = payable[q].amount
             /\ payable'[q].twice = payable[q].twice
  <2>1. payable[q] \in PayableRow /\ payable[q].paid + a[q] \in Nat
    BY <1>1 DEF TypeOK
  <2>2. CASE payable'[q] = payable[q]
    BY <2>2
  <2>3. CASE /\ payable[q].status # "ABSENT"
             /\ payable'[q] = Settled(payable[q], payable[q].paid + a[q])
    <3> DEFINE m == payable[q].paid + a[q]
    <3>1. /\ payable'[q].amount = payable[q].amount
          /\ payable'[q].twice = payable[q].twice
      <4>1. payable'[q] = Settled(payable[q], m) /\ m \in Nat
        BY <2>1, <2>3
      <4> HIDE DEF m
      <4>2. /\ Settled(payable[q], m).amount = payable[q].amount
            /\ Settled(payable[q], m).twice = payable[q].twice
        BY <2>1, <4>1, SettledType
      <4> QED BY <4>1, <4>2, Zenon
    <3>2. /\ payable'[q].status \notin {"ABSENT", "UNPAID"}
          /\ payable'[q].confirmed = payable[q].confirmed
      BY <2>1, <2>3, SettledStatus
    <3> QED BY <2>3, <3>1, <3>2
  <2> QED BY <1>6, <2>2, <2>3
<1>8. debtMap' = debtMap
  BY <1>7, DebtKept
<1>9. takenMap' = takenMap
  BY <1>7 DEF takenMap
<1> QED BY <1>2, <1>3, <1>4, <1>5, <1>8, <1>9, PostMaps

(* A reversal is the ledger's, the first of a payment or another one.      *)
LEMMA ReverseIsReverse ==
    ASSUME LedgerInv, NEW s \in Sessions, CommitReversePayment(s)
    PROVE  Ledger!Next
<1> DEFINE x == session[s].id
           a == payment[x].alloc
           again == payment[x].status = "REVERSED"
<1>1. /\ TypeOK /\ x \in PaymentIds
      /\ payment[x].status \in {"REGISTERED", "REVERSED"}
  BY PendingRow
  DEF LedgerInv, ApprovedFirst, ReversesPosted, CommitReversePayment, TypeOK,
      PaymentStatus
<1>2. payment' = [payment EXCEPT ![x].status = "REVERSED"]
  BY DEF CommitReversePayment
<1>3. \A q \in PayableIds :
        \/ a[q] = 0 /\ payable'[q] = payable[q]
        \/ /\ a[q] # 0
           /\ payable'[q] = TakenOff(payable[q], a[q], again)
  BY DEF CommitReversePayment
<1>4. ASSUME NEW q \in PayableIds
      PROVE  a[q] \in Nat /\ a[q] <= payable[q].paid
  <2>1. a[q] \in Nat /\ payable[q].paid \in Nat
    BY <1>1 DEF TypeOK
  <2>2. a[q] > 0 => a[q] <= payable[q].paid
    BY DEF CommitReversePayment
  <2> QED BY <2>1, <2>2
<1>5. entryMap[x].alloc = a
  BY <1>1 DEF entryMap
<1>6. \A q \in PayableIds : entryMap[x].alloc[q] <= Ledger!Booked(q)
  BY <1>4, <1>5, BookedIsPaid
<1>7. \A q \in PayableIds : a[q] # 0 => payable[q].status # "ABSENT"
  <2>1. \A q \in PayableIds : a[q] > 0 => payable[q].confirmed
    BY <1>1 DEF LedgerInv, ApprovedFirst, NothingPaidBeforeApproval
  <2> QED BY <1>4, <2>1 DEF LedgerInv, ApprovedFirst, StatusAgreed, PayableAgreed
<1> HIDE DEF x, again
<1>8. ASSUME NEW q \in PayableIds
      PROVE  /\ payable'[q].status = "ABSENT" <=> payable[q].status = "ABSENT"
             /\ payable'[q].confirmed = payable[q].confirmed
             /\ payable'[q].amount = payable[q].amount
             /\ payable'[q].twice =
                  IF again THEN payable[q].twice + a[q] ELSE payable[q].twice
  <2>1. payable[q] \in PayableRow /\ again \in BOOLEAN
    BY <1>1 DEF TypeOK, again
  <2>2. CASE a[q] = 0
    <3>1. payable'[q] = payable[q]
      BY <1>3, <2>2
    <3>2. payable[q].twice + 0 = payable[q].twice
      BY <2>1
    <3> QED BY <2>2, <3>1, <3>2
  <2>3. CASE a[q] # 0
    <3>1. payable'[q] = TakenOff(payable[q], a[q], again)
      BY <1>3, <2>3
    <3>2. payable'[q].twice = IF again THEN payable[q].twice + a[q]
                              ELSE payable[q].twice
      <4>1. Settled(payable[q], payable[q].paid - a[q]) \in PayableRow
        <5>1. payable[q].paid - a[q] \in Nat
          BY <1>4, <2>1
        <5> QED BY <2>1, <5>1, SettledType
      <4> HIDE DEF a
      <4> QED BY <1>4, <2>1, <3>1, <4>1, TakenOffType
    <3> HIDE DEF a
    <3> QED BY <1>4, <1>7, <2>1, <2>3, <3>1, <3>2, TakenOffType
  <2> QED BY <2>2, <2>3
<1>9. debtMap' = debtMap
  BY <1>8, DebtKept
<1>10. CASE ~again
  <2>1. entryMap[x].state = "posted"
    BY <1>1, <1>10 DEF entryMap, again
  <2>2. entryMap' = [entryMap EXCEPT ![x].state = "reversed"]
    BY <1>1, <1>2 DEF entryMap, TypeOK
  <2>3. takenMap' = takenMap
    BY <1>8, <1>10 DEF takenMap
  <2> QED BY <1>1, <1>6, <1>9, <2>1, <2>2, <2>3, ReverseMaps
<1>11. CASE again
  <2>1. entryMap[x].state = "reversed"
    BY <1>1, <1>11 DEF entryMap, again
  <2>2. entryMap' = entryMap
    <3>1. payment' = payment
      BY <1>1, <1>2, <1>11 DEF again, TypeOK
    <3> QED BY <3>1 DEF entryMap
  <2>3. takenMap' = [q \in PayableIds |-> takenMap[q] + entryMap[x].alloc[q]]
    BY <1>5, <1>8, <1>11 DEF takenMap
  <2> QED BY <1>1, <1>6, <1>9, <2>1, <2>2, <2>3, ReverseAgainMaps
<1> QED BY <1>10, <1>11

(* Every step of a handler is one of the ledger or leaves the ledger alone. *)
LEMMA LedgerStep ==
    ASSUME LedgerInv, [Next]_vars
    PROVE  [Ledger!Next]_(Ledger!vars)
<1>1. CASE payable' = payable /\ payment' = payment
  BY <1>1 DEF Ledger!vars
<1>2. CASE UNCHANGED vars
  BY <1>1, <1>2 DEF vars
<1>3. ASSUME NEW s \in Sessions, Request \/ Begin(s) \/ Abandon(s)
      PROVE  payable' = payable /\ payment' = payment
  BY <1>3 DEF Request, CreatePaymentRequest, Abandon, Begin,
    BeginCreatePayable, BeginConfirmPayable, BeginDecide, BeginCancelRequest,
    BeginReversePayment, BeginClosePeriod, BeginReopenPeriod
<1>4. ASSUME Pay PROVE Ledger!Next
  BY <1>4, RegisterIsPost DEF Pay, PayDirect, PayRequest
<1>5. ASSUME NEW s \in Sessions, Commit(s)
      PROVE  [Ledger!Next]_(Ledger!vars)
  <2>1. CASE \/ CommitDecide(s)
             \/ CommitCancelRequest(s)
             \/ CommitClosePeriod(s)
             \/ CommitReopenPeriod(s)
    BY <1>1, <2>1 DEF CommitDecide, CommitCancelRequest, CommitClosePeriod,
      CommitReopenPeriod
  <2> QED BY <1>5, <2>1, CreateIsEnter, ConfirmIsConfirm, ReverseIsReverse
          DEF Commit
<1> QED BY <1>1, <1>2, <1>3, <1>4, <1>5 DEF Next

(* However sessions overlap, accounts payable, which stores a balance and a *)
(* status in every payable, implements the ledger, which stores neither: no *)
(* payment is posted on an unconfirmed payable or beyond what the ledger    *)
(* has left of it, and nothing but a reversal takes anything off again.     *)
THEOREM PaymentsImplementLedger == Spec => ImplementsLedger
<1>1. LedgerInv /\ [Next]_vars => LedgerInv'
  BY LedgerInvStep
<1>2. LedgerInv /\ [Next]_vars => [Ledger!Next]_(Ledger!vars)
  BY LedgerStep
<1> QED BY LedgerInvInit, LedgerInit, <1>1, <1>2, PTL
        DEF Spec, ImplementsLedger, Ledger!Spec
=============================================================================
