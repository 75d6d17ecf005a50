-------------------------- MODULE ReceivablesProofs --------------------------
(***************************************************************************)
(* Theorems about Receivables, for every set of bills, documents, sessions *)
(* and amounts.                                                            *)
(***************************************************************************)
EXTENDS Receivables, FiniteSetTheorems, TLAPS

(* The units of a natural-valued function over a finite set are finitely    *)
(* many: they are a finite union of finite sets.                           *)
LEMMA UnitsFinite ==
    ASSUME NEW S, IsFiniteSet(S), NEW f \in [S -> Nat], NEW T \in SUBSET S
    PROVE  IsFiniteSet(Units(f, T))
<1> DEFINE part == [x \in T |-> {x} \X (1 .. f[x])]
           parts == {{x} \X (1 .. f[x]) : x \in T}
<1>1. part \in Surjection(T, parts)
  BY DEF Surjection
<1>2. IsFiniteSet(T)
  BY FS_Subset
<1>3. IsFiniteSet(parts)
  <2> HIDE DEF part, parts
  <2> QED BY <1>1, <1>2, FS_Surjection
<1>4. ASSUME NEW P \in parts PROVE IsFiniteSet(P)
  <2>1. PICK x \in T : P = {x} \X (1 .. f[x])
    BY <1>4
  <2>2. f[x] \in Int /\ 1 \in Int
    OBVIOUS
  <2>3. IsFiniteSet({x})
    BY FS_Singleton
  <2>4. IsFiniteSet(1 .. f[x])
    BY <2>2, FS_Interval
  <2> QED BY <2>1, <2>3, <2>4, FS_Product
<1>5. Units(f, T) = UNION parts
  BY DEF Units
<1> QED
  <2> HIDE DEF parts
  <2> QED BY <1>3, <1>4, <1>5, FS_UNION

(* What a document of a table allocates to bill b while it stands.         *)
Share(docs, b) ==
    [d \in DOMAIN docs |->
       IF docs[d].status = "STANDING" THEN docs[d].alloc[b] ELSE 0]

LEMMA ShareType ==
    ASSUME NEW D, NEW docs \in [D -> Documents], NEW b \in BillIds
    PROVE  /\ Share(docs, b) \in [D -> Nat]
           /\ Standing(docs, b) = Total(Share(docs, b), D)
<1>1. \A d \in D : docs[d].alloc[b] \in Nat
  BY DEF Documents
<1> QED BY <1>1 DEF Share, Standing

LEMMA StandingType ==
    ASSUME NEW D, IsFiniteSet(D), NEW docs \in [D -> Documents], NEW b \in BillIds
    PROVE  Standing(docs, b) \in Nat
BY ShareType, UnitsFinite, FS_CardinalityType DEF Total

(* A new document adds what it allocates.                                  *)
LEMMA WriteStanding ==
    ASSUME NEW D, IsFiniteSet(D), NEW docs \in [D -> Documents], NEW d \in D,
           docs[d].status = "ABSENT", NEW a \in [BillIds -> Nat],
           NEW split \in SUBSET BillIds, NEW b \in BillIds
    PROVE  /\ Write(docs, d, a, split) \in [D -> Documents]
           /\ Standing(Write(docs, d, a, split), b) = Standing(docs, b) + a[b]
<1> DEFINE new == Write(docs, d, a, split)
<1>1. new \in [D -> Documents]
  BY DEF Write, Documents
<1>2. /\ Share(docs, b)[d] = 0
      /\ Share(new, b)[d] = a[b]
      /\ \A e \in D \ {d} : Share(new, b)[e] = Share(docs, b)[e]
  BY DEF Share, Write
<1> HIDE DEF new
<1>3. Share(docs, b) \in [D -> Nat] /\ Share(new, b) \in [D -> Nat]
  BY <1>1, ShareType
<1> DEFINE old == Units(Share(docs, b), D)
           own == {d} \X (1 .. a[b])
<1>4. Units(Share(new, b), D) = old \cup own /\ old \cap own = {}
  BY <1>2 DEF Units
<1>5. IsFiniteSet(old)
  BY <1>3, UnitsFinite
<1>6. IsFiniteSet(own) /\ Cardinality(own) = a[b] /\ a[b] \in Nat
  <2>1. IsFiniteSet({d}) /\ Cardinality({d}) = 1
    BY FS_Singleton
  <2>2. IsFiniteSet(1 .. a[b]) /\ Cardinality(1 .. a[b]) = a[b]
    BY FS_Interval
  <2> QED
    BY <2>1, <2>2, FS_Product
<1>7. Standing(new, b) = Standing(docs, b) + a[b]
  <2> HIDE DEF old, own
  <2>1. Cardinality(old \cup own) =
          Cardinality(old) + Cardinality(own) - Cardinality(old \cap own)
    BY <1>5, <1>6, FS_Union
  <2>2. Cardinality(old) \in Nat /\ Cardinality(old \cap own) = 0
    BY <1>4, <1>5, FS_CardinalityType, FS_EmptySet
  <2>3. Cardinality(old \cup own) = Cardinality(old) + a[b]
    BY <1>6, <2>1, <2>2
  <2>4. Standing(new, b) = Total(Share(new, b), D) /\ Standing(docs, b) = Total(Share(docs, b), D)
    BY <1>1, ShareType
  <2>5. Standing(new, b) = Cardinality(old \cup own) /\ Standing(docs, b) = Cardinality(old)
    BY <1>4, <2>4 DEF Total, old
  <2> QED
    BY <2>3, <2>5
<1> QED BY <1>1, <1>7 DEF new

(* A document that is voided or reversed takes away what it allocated.     *)
LEMMA CancelStanding ==
    ASSUME NEW D, IsFiniteSet(D), NEW docs \in [D -> Documents], NEW d \in D,
           NEW b \in BillIds
    PROVE  LET new == [docs EXCEPT ![d].status = "CANCELLED"]
           IN /\ new \in [D -> Documents]
              /\ Standing(new, b) <= Standing(docs, b)
<1> DEFINE new == [docs EXCEPT ![d].status = "CANCELLED"]
<1>1. new \in [D -> Documents]
  BY DEF Documents
<1>2. \A e \in D : Share(docs, b)[e] \in Nat
  BY ShareType
<1>3. \A e \in D : Share(new, b)[e] <= Share(docs, b)[e]
  BY <1>2 DEF Share
<1> HIDE DEF new
<1>4. Share(docs, b) \in [D -> Nat] /\ Share(new, b) \in [D -> Nat]
  BY <1>1, ShareType
<1>5. Units(Share(new, b), D) \subseteq Units(Share(docs, b), D)
  BY <1>3, <1>4 DEF Units
<1>6. Standing(new, b) <= Standing(docs, b)
  BY <1>1, <1>4, <1>5, ShareType, UnitsFinite, FS_Subset DEF Total
<1> QED BY <1>1, <1>6 DEF new

-----------------------------------------------------------------------------
(* Types.                                                                  *)

LEMMA PendingRow ==
    ASSUME TypeOK, NEW s \in Sessions
    PROVE  /\ session[s].op = "create" =>
                /\ session[s].status \in {"DRAFT", "PENDING_APPROVAL"}
                /\ session[s].total \in Int
           /\ session[s].op = "move" =>
                /\ session[s].id \in BillIds
                /\ session[s].from \in BillStatus
                /\ session[s].to \in Targets
           /\ session[s].op = "adjust" =>
                /\ session[s].id \in BillIds
                /\ session[s].from \in BillStatus
                /\ session[s].by \in Int
           /\ session[s].op = "voidInvoice" => session[s].id \in InvoiceIds
           /\ session[s].op = "reverseReceipt" => session[s].id \in ReceiptIds
<1>1. Amounts \cup GeneratedTotals \subseteq Int /\ Adjustments \subseteq Int
  BY ReceivablesAssumption
<1>2. session[s] \in Pending
  BY DEF TypeOK
<1>3. ASSUME session[s].op = "create"
      PROVE  session[s] \in [op : {"create"},
                             status : {"DRAFT", "PENDING_APPROVAL"},
                             total : Amounts \cup GeneratedTotals]
  BY <1>2, <1>3 DEF Pending, Idle
<1>4. ASSUME session[s].op = "move"
      PROVE  session[s] \in [op : {"move"}, id : BillIds, from : BillStatus,
                             to : Targets]
  BY <1>2, <1>4 DEF Pending, Idle
<1>5. ASSUME session[s].op = "adjust"
      PROVE  session[s] \in [op : {"adjust"}, id : BillIds, from : BillStatus,
                             by : Adjustments]
  BY <1>2, <1>5 DEF Pending, Idle
<1>6. ASSUME session[s].op = "voidInvoice" PROVE session[s].id \in InvoiceIds
  BY <1>2, <1>6 DEF Pending, Idle
<1>7. ASSUME session[s].op = "reverseReceipt" PROVE session[s].id \in ReceiptIds
  BY <1>2, <1>7 DEF Pending, Idle
<1> QED BY <1>1, <1>3, <1>4, <1>5, <1>6, <1>7

LEMMA InvoicedType ==
    ASSUME TypeOK, NEW b \in BillIds
    PROVE  /\ Invoiced(b) \in Nat
           /\ Received(b) \in Nat
           /\ bill[b].total \in Int
BY StandingType, ReceivablesAssumption DEF TypeOK, Bills, Invoiced, Received

LEMMA LinesType ==
    ASSUME NEW l \in Lines, NEW b \in BillIds
    PROVE  /\ LineSum(l) \in [BillIds -> Nat]
           /\ l[1][b] \in Nat
           /\ l[2][b] \in Nat
           /\ LineSum(l)[b] = l[1][b] + l[2][b]
           /\ l[1][b] = 0 => LineSum(l)[b] = 0
           /\ b \notin SplitOver(l) => LineSum(l)[b] = l[1][b]
<1>1. Amounts \cup {0} \subseteq Nat
  BY ReceivablesAssumption
<1>2. \A c \in BillIds :
        /\ l[1][c] \in Nat
        /\ l[2][c] \in Nat
        /\ l[2][c] > 0 => l[1][c] > 0
  BY <1>1 DEF Lines
<1> QED BY <1>2 DEF LineSum, SplitOver

LEMMA RewrittenType ==
    ASSUME NEW row \in Bills, NEW from, NEW to \in BillStatus, NEW n \in Int
    PROVE  /\ Rewritten(row, from, to, n) \in Bills
           /\ Rewritten(row, from, to, n).status = to
           /\ Rewritten(row, from, to, n).overtaken <=>
                row.overtaken \/ row.status # from
<1> DEFINE over == row.overtaken \/ row.status # from
<1>1. over \in BOOLEAN /\ row.total + n \in Int
  BY DEF Bills
<1>2. Rewritten(row, from, to, n) =
        [status |-> to, total |-> row.total + n, overtaken |-> over]
  BY DEF Rewritten
<1> HIDE DEF over
<1>3. Rewritten(row, from, to, n) \in Bills
  BY <1>1, <1>2 DEF Bills
<1>4. Rewritten(row, from, to, n).status = to
        /\ Rewritten(row, from, to, n).overtaken = over
  BY <1>2
<1> QED BY <1>3, <1>4 DEF over

LEMMA NewBillType ==
    ASSUME NEW status \in BillStatus, NEW n \in Int
    PROVE  NewBill(status, n) \in Bills /\ NewBill(status, n).status = status
BY DEF NewBill, Bills

LEMMA TypeInit == Init => TypeOK
<1> SUFFICES ASSUME Init PROVE TypeOK
  OBVIOUS
<1>1. NoDocument \in Documents
  BY DEF NoDocument, Documents
<1>2. session \in [Sessions -> Pending]
  BY DEF Init, Pending
<1>3. bill \in [BillIds -> Bills]
  BY NewBillType DEF Init, BillStatus
<1>4. /\ invoice \in [InvoiceIds -> Documents]
      /\ receipt \in [ReceiptIds -> Documents]
      /\ closed \in BOOLEAN
      /\ late \subseteq Sessions
  BY <1>1 DEF Init
<1> QED BY <1>2, <1>3, <1>4 DEF TypeOK

(* Each table keeps its shape under every handler that writes it.          *)
LEMMA BillTypeStep ==
    ASSUME TypeOK, [Next]_vars
    PROVE  bill' \in [BillIds -> Bills]
<1>1. bill \in [BillIds -> Bills]
  BY DEF TypeOK
<1>2. CASE UNCHANGED bill
  BY <1>1, <1>2
<1>3. ASSUME NEW s \in Sessions, Commit(s)
      PROVE  bill' \in [BillIds -> Bills]
  <2>1. ASSUME NEW b \in BillIds, CommitCreateBill(s, b)
        PROVE  bill' \in [BillIds -> Bills]
    <3>1. NewBill(session[s].status, session[s].total) \in Bills
      BY <2>1, PendingRow, NewBillType DEF CommitCreateBill, BillStatus
    <3> QED BY <1>1, <2>1, <3>1 DEF CommitCreateBill
  <2>2. CASE CommitMove(s)
    <3>1. session[s].id \in BillIds /\ session[s].to \in BillStatus
      BY <2>2, PendingRow DEF CommitMove, Targets, BillStatus
    <3>2. Rewritten(bill[session[s].id], session[s].from, session[s].to, 0) \in Bills
      BY <1>1, <3>1, RewrittenType
    <3> QED BY <1>1, <2>2, <3>1, <3>2 DEF CommitMove
  <2>3. CASE CommitAdjust(s)
    <3>1. session[s].id \in BillIds /\ session[s].by \in Int
      BY <2>3, PendingRow DEF CommitAdjust
    <3>2. bill[session[s].id] \in Bills
      BY <1>1, <3>1
    <3>3. Rewritten(bill[session[s].id], session[s].from, "ADJUSTED", session[s].by)
            \in Bills
      <4>1. "ADJUSTED" \in BillStatus
        BY DEF BillStatus
      <4> QED BY <3>1, <3>2, <4>1, RewrittenType
    <3> QED BY <1>1, <2>3, <3>1, <3>3 DEF CommitAdjust
  <2> QED BY <1>2, <1>3, <2>1, <2>2, <2>3
          DEF Commit, CommitVoidInvoice, CommitReverseReceipt,
            CommitClosePeriod, CommitReopenPeriod
<1>4. ASSUME NEW s \in Sessions, Transaction(s)
      PROVE  bill' \in [BillIds -> Bills]
  BY <1>1, <1>2, <1>4 DEF Transaction, MarkInvoiced, MarkReceived, CreateInvoice,
    CreateReceipt, Bills, BillStatus
<1>5. ASSUME NEW s \in Sessions, Begin(s) \/ Abandon(s)
      PROVE  UNCHANGED bill
  BY <1>5 DEF Begin, BeginTransaction, BeginCreateBill, BeginMove, BeginAdjust, BeginVoidInvoice,
    BeginReverseReceipt, BeginClosePeriod, BeginReopenPeriod, Abandon
<1> QED BY <1>2, <1>3, <1>4, <1>5 DEF Next, Step, vars

(* What one step may do to the documents of one table: nothing, write one   *)
(* that was absent, or cancel one.                                         *)
DocumentsStep(D, docs, next) ==
    \/ next = docs
    \/ \E d \in D, a \in [BillIds -> Nat], split \in SUBSET BillIds :
         docs[d].status = "ABSENT" /\ next = Write(docs, d, a, split)
    \/ \E d \in D : next = [docs EXCEPT ![d].status = "CANCELLED"]

LEMMA MarkedAmount ==
    ASSUME TypeOK, NEW b \in BillIds
    PROVE  /\ Invoiced(b) < bill[b].total =>
                Only(b, bill[b].total - Invoiced(b)) \in [BillIds -> Nat]
           /\ Received(b) < bill[b].total =>
                Only(b, bill[b].total - Received(b)) \in [BillIds -> Nat]
BY InvoicedType DEF Only

LEMMA InvoiceStep ==
    ASSUME TypeOK, [Next]_vars
    PROVE  DocumentsStep(InvoiceIds, invoice, invoice')
<1>1. ASSUME UNCHANGED invoice PROVE DocumentsStep(InvoiceIds, invoice, invoice')
  BY <1>1 DEF DocumentsStep
<1>2. ASSUME NEW s \in Sessions, NEW b \in BillIds, NEW i \in InvoiceIds,
             MarkInvoiced(s, b, i)
      PROVE  DocumentsStep(InvoiceIds, invoice, invoice')
  BY <1>2, MarkedAmount DEF MarkInvoiced, DocumentsStep
<1>3. ASSUME NEW s \in Sessions, NEW i \in InvoiceIds, NEW l \in Lines,
             CreateInvoice(s, i, l)
      PROVE  DocumentsStep(InvoiceIds, invoice, invoice')
  <2>1. LineSum(l) \in [BillIds -> Nat] /\ SplitOver(l) \in SUBSET BillIds
    BY LinesType DEF LineSum, SplitOver
  <2> QED BY <1>3, <2>1 DEF CreateInvoice, DocumentsStep
<1>4. ASSUME NEW s \in Sessions, CommitVoidInvoice(s)
      PROVE  DocumentsStep(InvoiceIds, invoice, invoice')
  BY <1>4, PendingRow DEF CommitVoidInvoice, DocumentsStep
<1>5. ASSUME NEW s \in Sessions, Begin(s) \/ Abandon(s) PROVE UNCHANGED invoice
  BY <1>5 DEF Begin, BeginTransaction, BeginCreateBill, BeginMove, BeginAdjust, BeginVoidInvoice,
    BeginReverseReceipt, BeginClosePeriod, BeginReopenPeriod, Abandon
<1>6. ASSUME NEW s \in Sessions, Transaction(s) PROVE DocumentsStep(InvoiceIds, invoice, invoice')
  BY <1>1, <1>2, <1>3, <1>6 DEF Transaction, MarkReceived, CreateReceipt
<1>7. ASSUME NEW s \in Sessions, Commit(s)
      PROVE  DocumentsStep(InvoiceIds, invoice, invoice')
  BY <1>1, <1>4, <1>7 DEF Commit, CommitCreateBill, CommitMove, CommitAdjust,
    CommitReverseReceipt, CommitClosePeriod, CommitReopenPeriod
<1> QED BY <1>1, <1>5, <1>6, <1>7 DEF Next, Step, vars

LEMMA ReceiptStep ==
    ASSUME TypeOK, [Next]_vars
    PROVE  DocumentsStep(ReceiptIds, receipt, receipt')
<1>1. ASSUME UNCHANGED receipt PROVE DocumentsStep(ReceiptIds, receipt, receipt')
  BY <1>1 DEF DocumentsStep
<1>2. ASSUME NEW s \in Sessions, NEW b \in BillIds, NEW k \in ReceiptIds,
             MarkReceived(s, b, k)
      PROVE  DocumentsStep(ReceiptIds, receipt, receipt')
  BY <1>2, MarkedAmount DEF MarkReceived, DocumentsStep
<1>3. ASSUME NEW s \in Sessions, NEW k \in ReceiptIds, NEW l \in Lines,
             CreateReceipt(s, k, l)
      PROVE  DocumentsStep(ReceiptIds, receipt, receipt')
  <2>1. LineSum(l) \in [BillIds -> Nat] /\ SplitOver(l) \in SUBSET BillIds
    BY LinesType DEF LineSum, SplitOver
  <2> QED BY <1>3, <2>1 DEF CreateReceipt, DocumentsStep
<1>4. ASSUME NEW s \in Sessions, CommitReverseReceipt(s)
      PROVE  DocumentsStep(ReceiptIds, receipt, receipt')
  BY <1>4, PendingRow DEF CommitReverseReceipt, DocumentsStep
<1>5. ASSUME NEW s \in Sessions, Begin(s) \/ Abandon(s) PROVE UNCHANGED receipt
  BY <1>5 DEF Begin, BeginTransaction, BeginCreateBill, BeginMove, BeginAdjust, BeginVoidInvoice,
    BeginReverseReceipt, BeginClosePeriod, BeginReopenPeriod, Abandon
<1>6. ASSUME NEW s \in Sessions, Transaction(s) PROVE DocumentsStep(ReceiptIds, receipt, receipt')
  BY <1>1, <1>2, <1>3, <1>6 DEF Transaction, MarkInvoiced, CreateInvoice
<1>7. ASSUME NEW s \in Sessions, Commit(s)
      PROVE  DocumentsStep(ReceiptIds, receipt, receipt')
  BY <1>1, <1>4, <1>7 DEF Commit, CommitCreateBill, CommitMove, CommitAdjust,
    CommitVoidInvoice, CommitClosePeriod, CommitReopenPeriod
<1> QED BY <1>1, <1>5, <1>6, <1>7 DEF Next, Step, vars

LEMMA DocumentsKeepType ==
    ASSUME NEW D, NEW docs \in [D -> Documents], NEW next,
           DocumentsStep(D, docs, next)
    PROVE  next \in [D -> Documents]
BY DEF DocumentsStep, Write, Documents

LEMMA TypeStep ==
    ASSUME TypeOK, [Next]_vars
    PROVE  TypeOK'
<1>1. bill' \in [BillIds -> Bills]
  BY BillTypeStep
<1>2. invoice' \in [InvoiceIds -> Documents]
  BY InvoiceStep, DocumentsKeepType DEF TypeOK
<1>3. receipt' \in [ReceiptIds -> Documents]
  BY ReceiptStep, DocumentsKeepType DEF TypeOK
<1>4. closed' \in BOOLEAN /\ session' \in [Sessions -> Pending]
  <2>1. closed \in BOOLEAN /\ session \in [Sessions -> Pending]
    BY DEF TypeOK
  <2>2. CASE UNCHANGED <<closed, session>>
    BY <2>1, <2>2
  <2>3. ASSUME NEW s \in Sessions, Begin(s)
        PROVE  closed' = closed
                 /\ \E next \in Pending : session' = [session EXCEPT ![s] = next]
    BY <2>3 DEF Begin, BeginTransaction, BeginCreateBill, BeginMove, BeginAdjust,
      BeginVoidInvoice, BeginReverseReceipt, BeginClosePeriod,
      BeginReopenPeriod, Pending, TypeOK, Bills
  <2>4. ASSUME NEW s \in Sessions, Commit(s) \/ Abandon(s)
        PROVE  closed' \in {closed, TRUE, FALSE}
                 /\ Ends(s)
    BY <2>4 DEF Commit, CommitCreateBill, CommitMove, CommitAdjust,
      CommitVoidInvoice, CommitReverseReceipt, CommitClosePeriod,
      CommitReopenPeriod, Abandon
  <2>5. Idle \in Pending
    BY DEF Pending
  <2>6. ASSUME NEW s \in Sessions, Transaction(s) PROVE closed' = closed /\ Ends(s)
    BY <2>6 DEF Transaction, MarkInvoiced, MarkReceived, CreateInvoice, CreateReceipt
  <2> QED BY <2>1, <2>2, <2>3, <2>4, <2>5, <2>6 DEF Next, Step, Ends, vars
<1>5. late' \subseteq Sessions
  BY DEF TypeOK, Next, LateAfter, Busy, vars
<1> QED BY <1>1, <1>2, <1>3, <1>4, <1>5 DEF TypeOK

(* Every table keeps its shape, and no document allocates a negative        *)
(* amount although bills may have negative totals.                         *)
THEOREM ReceivablesTypes == Spec => []TypeOK
BY TypeInit, TypeStep, PTL DEF Spec
-----------------------------------------------------------------------------
(* Bills that nobody has taken out of their first status.                  *)

First == {"ABSENT", "DRAFT", "PENDING_APPROVAL"}

(* Nobody is invoiced for a bill that is still to be reviewed or confirmed. *)
Early == {"ABSENT", "DRAFT", "PENDING_APPROVAL", "INTERNAL_REVIEW",
          "FINANCE_REVIEW", "CUSTOMER_PENDING"}

(* A bill in one of the first statuses was in one of them before, and if it  *)
(* was then created it was ABSENT.                                         *)
LEMMA FirstBefore ==
    ASSUME TypeOK, [Next]_vars, NEW b \in BillIds, bill'[b].status \in First
    PROVE  bill[b].status \in First
<1>1. CASE UNCHANGED bill
  BY <1>1
<1>2. ASSUME NEW s \in Sessions, Commit(s) PROVE bill[b].status \in First
  <2>1. ASSUME NEW c \in BillIds, CommitCreateBill(s, c)
        PROVE  bill[b].status \in First
    BY <2>1, PendingRow, NewBillType DEF CommitCreateBill, TypeOK, First, BillStatus
  <2>2. ASSUME NEW to \in BillStatus \ First, NEW n \in Int, NEW c \in BillIds,
               bill' = [bill EXCEPT ![c] = Rewritten(@, session[s].from, to, n)]
        PROVE  bill[b].status \in First
    <3>1. bill[c] \in Bills /\ bill'[c] = Rewritten(bill[c], session[s].from, to, n)
      BY <2>2 DEF TypeOK
    <3>2. b # c
      BY <3>1, <2>2, RewrittenType
    <3> QED BY <2>2, <3>2 DEF TypeOK
  <2>3. CASE CommitMove(s)
    <3>1. session[s].id \in BillIds /\ session[s].to \in BillStatus \ First
      BY <2>3, PendingRow DEF CommitMove, Targets, First, BillStatus
    <3>2. /\ 0 \in Int
          /\ bill' = [bill EXCEPT ![session[s].id] =
                        Rewritten(@, session[s].from, session[s].to, 0)]
      BY <2>3 DEF CommitMove
    <3> QED BY <2>2, <3>1, <3>2
  <2>4. CASE CommitAdjust(s)
    <3>1. session[s].id \in BillIds /\ session[s].by \in Int
            /\ "ADJUSTED" \in BillStatus \ First
      BY <2>4, PendingRow DEF CommitAdjust, First, BillStatus
    <3> QED BY <2>2, <2>4, <3>1 DEF CommitAdjust
  <2> QED BY <1>1, <1>2, <2>1, <2>3, <2>4
          DEF Commit, CommitVoidInvoice, CommitReverseReceipt,
            CommitClosePeriod, CommitReopenPeriod
<1>3. ASSUME NEW s \in Sessions, Transaction(s) PROVE bill[b].status \in First
  BY <1>1, <1>3 DEF Transaction, MarkInvoiced, MarkReceived, CreateInvoice,
    CreateReceipt, TypeOK, Bills, First
<1>4. ASSUME NEW s \in Sessions, Begin(s) \/ Abandon(s)
      PROVE  UNCHANGED bill
  BY <1>4 DEF Begin, BeginTransaction, BeginCreateBill, BeginMove, BeginAdjust, BeginVoidInvoice,
    BeginReverseReceipt, BeginClosePeriod, BeginReopenPeriod, Abandon
<1> QED BY <1>1, <1>2, <1>3, <1>4 DEF Next, Step, vars

(* No document gets a line for a bill in one of these statuses: documents   *)
(* and markings ask for a later one in the transaction that writes them.   *)
LEMMA NoLineForEarly ==
    ASSUME TypeOK, [Next]_vars, NEW b \in BillIds, bill[b].status \in Early
    PROVE  /\ \A i \in InvoiceIds : invoice[i].alloc[b] = 0 =>
                invoice'[i].alloc[b] = 0
           /\ \A k \in ReceiptIds : receipt[k].alloc[b] = 0 =>
                receipt'[k].alloc[b] = 0
<1> DEFINE Untouched ==
             /\ \A i \in InvoiceIds : invoice[i].alloc[b] = 0 =>
                  invoice'[i].alloc[b] = 0
             /\ \A k \in ReceiptIds : receipt[k].alloc[b] = 0 =>
                  receipt'[k].alloc[b] = 0
<1> SUFFICES Untouched
  OBVIOUS
<1>1. CASE UNCHANGED <<invoice, receipt>>
  BY <1>1
<1>2. ASSUME NEW s \in Sessions, NEW c \in BillIds, NEW i \in InvoiceIds,
             MarkInvoiced(s, c, i)
      PROVE  Untouched
  <2>1. c # b
    BY <1>2 DEF MarkInvoiced, Allowed, Early
  <2> QED BY <1>2, <2>1 DEF MarkInvoiced, Write, Only, TypeOK
<1>3. ASSUME NEW s \in Sessions, NEW c \in BillIds, NEW k \in ReceiptIds,
             MarkReceived(s, c, k)
      PROVE  Untouched
  <2>1. c # b
    BY <1>3 DEF MarkReceived, Allowed, Early
  <2> QED BY <1>3, <2>1 DEF MarkReceived, Write, Only, TypeOK
<1>4. ASSUME NEW s \in Sessions, NEW i \in InvoiceIds, NEW l \in Lines,
             CreateInvoice(s, i, l)
      PROVE  Untouched
  <2>1. LineSum(l)[b] = 0
    <3>1. ~ (l[1][b] > 0)
      BY <1>4 DEF CreateInvoice, Fits, Early
    <3> QED BY <3>1, LinesType
  <2> QED BY <1>4, <2>1 DEF CreateInvoice, Write, TypeOK
<1>5. ASSUME NEW s \in Sessions, NEW k \in ReceiptIds, NEW l \in Lines,
             CreateReceipt(s, k, l)
      PROVE  Untouched
  <2>1. LineSum(l)[b] = 0
    <3>1. ~ (l[1][b] > 0)
      BY <1>5 DEF CreateReceipt, Fits, Early
    <3> QED BY <3>1, LinesType
  <2> QED BY <1>5, <2>1 DEF CreateReceipt, Write, TypeOK
<1>6. ASSUME NEW s \in Sessions, Commit(s) PROVE Untouched
  <2>1. CASE CommitVoidInvoice(s)
    BY <2>1 DEF CommitVoidInvoice, TypeOK, Documents
  <2>2. CASE CommitReverseReceipt(s)
    BY <2>2 DEF CommitReverseReceipt, TypeOK, Documents
  <2> QED BY <1>1, <1>6, <2>1, <2>2 DEF Commit, CommitCreateBill, CommitMove,
    CommitAdjust, CommitClosePeriod, CommitReopenPeriod
<1>7. ASSUME NEW s \in Sessions, Begin(s) \/ Abandon(s)
      PROVE  UNCHANGED <<invoice, receipt>>
  BY <1>7 DEF Begin, BeginTransaction, BeginCreateBill, BeginMove, BeginAdjust, BeginVoidInvoice,
    BeginReverseReceipt, BeginClosePeriod, BeginReopenPeriod, Abandon
<1>8. ASSUME NEW s \in Sessions, Transaction(s) PROVE Untouched
  BY <1>2, <1>3, <1>4, <1>5, <1>8 DEF Transaction
<1> HIDE DEF Untouched
<1> QED BY <1>1, <1>6, <1>7, <1>8 DEF Next, Step, vars

LEMMA FirstInit == Init => FirstStatusUnallocated
BY DEF Init, NoDocument, FirstStatusUnallocated

LEMMA FirstStep ==
    ASSUME TypeOK, FirstStatusUnallocated, [Next]_vars
    PROVE  FirstStatusUnallocated'
<1> SUFFICES ASSUME NEW b \in BillIds, bill'[b].status \in First
             PROVE  /\ \A i \in InvoiceIds : invoice'[i].alloc[b] = 0
                    /\ \A k \in ReceiptIds : receipt'[k].alloc[b] = 0
  BY DEF FirstStatusUnallocated, First
<1>1. bill[b].status \in First
  BY FirstBefore
<1>2. /\ \A i \in InvoiceIds : invoice[i].alloc[b] = 0
      /\ \A k \in ReceiptIds : receipt[k].alloc[b] = 0
  BY <1>1 DEF FirstStatusUnallocated, First
<1> QED BY <1>1, <1>2, NoLineForEarly DEF First, Early

(* Whatever sessions interleave, a bill that nobody has taken out of its    *)
(* first status has never been on an invoice or a receipt.                 *)
THEOREM FirstStatusIsUnallocated == Spec => []FirstStatusUnallocated
<1>1. Init => TypeOK /\ FirstStatusUnallocated
  BY TypeInit, FirstInit
<1>2. TypeOK /\ FirstStatusUnallocated /\ [Next]_vars
        => (TypeOK /\ FirstStatusUnallocated)'
  BY TypeStep, FirstStep
<1> QED BY <1>1, <1>2, PTL DEF Spec
-----------------------------------------------------------------------------
(* What a step allocates fits the bill.                                    *)

Fit(b) ==
    /\ Standing(invoice', b) > Invoiced(b) =>
         \/ Standing(invoice', b) <= bill'[b].total
         \/ \E i \in InvoiceIds : invoice[i].status = "ABSENT" /\ b \in invoice'[i].split
    /\ Standing(receipt', b) > Received(b) =>
         \/ Standing(receipt', b) <= bill'[b].total
         \/ \E k \in ReceiptIds : receipt[k].status = "ABSENT" /\ b \in receipt'[k].split

(* A table of documents that only loses documents allocates nothing more.  *)
LEMMA NothingAdded ==
    ASSUME TypeOK, NEW b \in BillIds,
           \/ invoice' = invoice
           \/ \E i \in InvoiceIds :
                invoice' = [invoice EXCEPT ![i].status = "CANCELLED"],
           \/ receipt' = receipt
           \/ \E k \in ReceiptIds :
                receipt' = [receipt EXCEPT ![k].status = "CANCELLED"]
    PROVE  /\ ~ (Standing(invoice', b) > Invoiced(b))
           /\ ~ (Standing(receipt', b) > Received(b))
           /\ Fit(b)
<1>1. /\ invoice \in [InvoiceIds -> Documents] /\ IsFiniteSet(InvoiceIds)
      /\ receipt \in [ReceiptIds -> Documents] /\ IsFiniteSet(ReceiptIds)
  BY ReceivablesAssumption DEF TypeOK
<1>2. Standing(invoice', b) <= Invoiced(b) /\ Standing(invoice', b) \in Nat
  BY <1>1, CancelStanding, StandingType DEF Invoiced
<1>3. Standing(receipt', b) <= Received(b) /\ Standing(receipt', b) \in Nat
  BY <1>1, CancelStanding, StandingType DEF Received
<1> QED BY <1>2, <1>3, InvoicedType DEF Fit

(* A document that is written adds exactly its own lines.                  *)
LEMMA InvoiceAdded ==
    ASSUME TypeOK, NEW b \in BillIds, NEW i \in InvoiceIds,
           NEW a \in [BillIds -> Nat], NEW split \in SUBSET BillIds,
           invoice[i].status = "ABSENT", invoice' = Write(invoice, i, a, split)
    PROVE  Standing(invoice', b) = Invoiced(b) + a[b]
BY WriteStanding, ReceivablesAssumption DEF TypeOK, Invoiced

LEMMA ReceiptAdded ==
    ASSUME TypeOK, NEW b \in BillIds, NEW k \in ReceiptIds,
           NEW a \in [BillIds -> Nat], NEW split \in SUBSET BillIds,
           receipt[k].status = "ABSENT", receipt' = Write(receipt, k, a, split)
    PROVE  Standing(receipt', b) = Received(b) + a[b]
BY WriteStanding, ReceivablesAssumption DEF TypeOK, Received

LEMMA FitStep ==
    ASSUME TypeOK, [Next]_vars, NEW b \in BillIds
    PROVE  Fit(b)
<1>1. /\ Invoiced(b) \in Nat
      /\ Received(b) \in Nat
      /\ bill[b].total \in Int
  BY InvoicedType
<1>2. CASE UNCHANGED <<invoice, receipt>>
  BY <1>2, NothingAdded
<1>3. ASSUME NEW s \in Sessions, NEW c \in BillIds, NEW i \in InvoiceIds,
             MarkInvoiced(s, c, i)
      PROVE  Fit(b)
  <2> DEFINE a == Only(c, bill[c].total - Invoiced(c))
  <2>1. a \in [BillIds -> Nat]
    BY <1>3, MarkedAmount DEF MarkInvoiced
  <2>2. Standing(invoice', b) = Invoiced(b) + a[b]
    <3> HIDE DEF a
    <3>1. /\ invoice[i].status = "ABSENT"
          /\ invoice' = Write(invoice, i, a, {}) /\ {} \in SUBSET BillIds
      BY <1>3 DEF MarkInvoiced, a
    <3> QED BY <2>1, <3>1, InvoiceAdded
  <2>3. a[b] = IF b = c THEN bill[c].total - Invoiced(c) ELSE 0
    BY DEF Only
  <2>4. bill'[b].total = bill[b].total
    BY <1>3 DEF MarkInvoiced, TypeOK
  <2>5. Standing(receipt', b) = Received(b)
    BY <1>3 DEF MarkInvoiced, Received
  <2> HIDE DEF a
  <2> QED BY <1>1, <2>2, <2>3, <2>4, <2>5 DEF Fit
<1>4. ASSUME NEW s \in Sessions, NEW c \in BillIds, NEW k \in ReceiptIds,
             MarkReceived(s, c, k)
      PROVE  Fit(b)
  <2> DEFINE a == Only(c, bill[c].total - Received(c))
  <2>1. a \in [BillIds -> Nat]
    BY <1>4, MarkedAmount DEF MarkReceived
  <2>2. Standing(receipt', b) = Received(b) + a[b]
    <3> HIDE DEF a
    <3>1. /\ receipt[k].status = "ABSENT"
          /\ receipt' = Write(receipt, k, a, {}) /\ {} \in SUBSET BillIds
      BY <1>4 DEF MarkReceived, a
    <3> QED BY <2>1, <3>1, ReceiptAdded
  <2>3. a[b] = IF b = c THEN bill[c].total - Received(c) ELSE 0
    BY DEF Only
  <2>4. bill'[b].total = bill[b].total
    BY <1>4 DEF MarkReceived, TypeOK
  <2>5. Standing(invoice', b) = Invoiced(b)
    BY <1>4 DEF MarkReceived, Invoiced
  <2> HIDE DEF a
  <2> QED BY <1>1, <2>2, <2>3, <2>4, <2>5 DEF Fit
<1>5. ASSUME NEW s \in Sessions, NEW i \in InvoiceIds, NEW l \in Lines,
             CreateInvoice(s, i, l)
      PROVE  Fit(b)
  <2>1. /\ LineSum(l) \in [BillIds -> Nat]
        /\ SplitOver(l) \in SUBSET BillIds
        /\ l[1][b] \in Nat
        /\ l[1][b] = 0 => LineSum(l)[b] = 0
        /\ b \notin SplitOver(l) => LineSum(l)[b] = l[1][b]
    BY LinesType DEF SplitOver
  <2>2. Standing(invoice', b) = Invoiced(b) + LineSum(l)[b]
    <3>1. /\ invoice[i].status = "ABSENT"
          /\ invoice' = Write(invoice, i, LineSum(l), SplitOver(l))
      BY <1>5 DEF CreateInvoice
    <3> QED BY <2>1, <3>1, InvoiceAdded
  <2>3. l[1][b] > 0 => Invoiced(b) + l[1][b] <= bill[b].total
    BY <1>5 DEF CreateInvoice, Fits, Invoiced
  <2>4. bill' = bill /\ Standing(receipt', b) = Received(b)
    BY <1>5 DEF CreateInvoice, Received
  <2>5. b \in SplitOver(l) => invoice[i].status = "ABSENT" /\ b \in invoice'[i].split
    BY <1>5 DEF CreateInvoice, Write, TypeOK
  <2> QED BY <1>1, <2>1, <2>2, <2>3, <2>4, <2>5 DEF Fit
<1>6. ASSUME NEW s \in Sessions, NEW k \in ReceiptIds, NEW l \in Lines,
             CreateReceipt(s, k, l)
      PROVE  Fit(b)
  <2>1. /\ LineSum(l) \in [BillIds -> Nat]
        /\ SplitOver(l) \in SUBSET BillIds
        /\ l[1][b] \in Nat
        /\ l[1][b] = 0 => LineSum(l)[b] = 0
        /\ b \notin SplitOver(l) => LineSum(l)[b] = l[1][b]
    BY LinesType DEF SplitOver
  <2>2. Standing(receipt', b) = Received(b) + LineSum(l)[b]
    <3>1. /\ receipt[k].status = "ABSENT"
          /\ receipt' = Write(receipt, k, LineSum(l), SplitOver(l))
      BY <1>6 DEF CreateReceipt
    <3> QED BY <2>1, <3>1, ReceiptAdded
  <2>3. l[1][b] > 0 => Received(b) + l[1][b] <= bill[b].total
    BY <1>6 DEF CreateReceipt, Fits, Received
  <2>4. bill' = bill /\ Standing(invoice', b) = Invoiced(b)
    BY <1>6 DEF CreateReceipt, Invoiced
  <2>5. b \in SplitOver(l) => receipt[k].status = "ABSENT" /\ b \in receipt'[k].split
    BY <1>6 DEF CreateReceipt, Write, TypeOK
  <2> QED BY <1>1, <2>1, <2>2, <2>3, <2>4, <2>5 DEF Fit
<1>7. ASSUME NEW s \in Sessions, Commit(s) PROVE Fit(b)
  <2>1. CASE CommitVoidInvoice(s)
    BY <2>1, PendingRow, NothingAdded DEF CommitVoidInvoice
  <2>2. CASE CommitReverseReceipt(s)
    BY <2>2, PendingRow, NothingAdded DEF CommitReverseReceipt
  <2> QED BY <1>2, <1>7, <2>1, <2>2 DEF Commit, CommitCreateBill, CommitMove,
    CommitAdjust, CommitClosePeriod, CommitReopenPeriod
<1>8. ASSUME NEW s \in Sessions, Begin(s) \/ Abandon(s)
      PROVE  UNCHANGED <<invoice, receipt>>
  BY <1>8 DEF Begin, BeginTransaction, BeginCreateBill, BeginMove, BeginAdjust, BeginVoidInvoice,
    BeginReverseReceipt, BeginClosePeriod, BeginReopenPeriod, Abandon
<1>9. ASSUME NEW s \in Sessions, Transaction(s) PROVE Fit(b)
  BY <1>3, <1>4, <1>5, <1>6, <1>9 DEF Transaction
<1> QED BY <1>2, <1>7, <1>8, <1>9 DEF Next, Step, vars

(* No step of any session raises what is invoiced or received of a bill     *)
(* beyond the bill's total: the sum and the insertion are in one            *)
(* Serializable transaction.  The one way to it is a new document that      *)
(* names the bill on two lines.                                            *)
THEOREM StepsFit == Spec => AllocationsFit
<1>1. TypeOK /\ [Next]_vars =>
        [\A b \in BillIds :
           /\ Invoiced(b)' > Invoiced(b) =>
                \/ Invoiced(b)' <= bill'[b].total
                \/ \E i \in InvoiceIds :
                     invoice[i].status = "ABSENT" /\ b \in invoice'[i].split
           /\ Received(b)' > Received(b) =>
                \/ Received(b)' <= bill'[b].total
                \/ \E k \in ReceiptIds :
                     receipt[k].status = "ABSENT" /\ b \in receipt'[k].split]_vars
  BY FitStep DEF Fit, Invoiced, Received
<1> QED BY <1>1, ReceivablesTypes, PTL DEF Spec, AllocationsFit
-----------------------------------------------------------------------------
(* The closed period.                                                      *)

(* Who is at work in a closed period began before it was closed, or is to   *)
(* open it again.                                                          *)
BusyAreLate ==
    closed => \A s \in Sessions :
        session[s].op \in {"idle", "reopen"} \/ s \in late

LEMMA LateStep ==
    ASSUME TypeOK, BusyAreLate, [Next]_vars
    PROVE  BusyAreLate'
<1>1. CASE UNCHANGED vars
  BY <1>1 DEF BusyAreLate, vars
<1>2. CASE Next
  <2> SUFFICES ASSUME closed', NEW t \in Sessions,
                      session'[t].op \notin {"idle", "reopen"}
               PROVE  t \in late'
    BY DEF BusyAreLate
  <2>1. t \in Busy'
    BY DEF Busy, Idle
  <2>2. late' = LateAfter
    BY <1>2 DEF Next
  <2>3. CASE ~closed
    BY <2>1, <2>2, <2>3 DEF LateAfter
  <2>4. CASE closed
    <3>1. PICK s \in Sessions : Step(s)
      BY <1>2 DEF Next
    <3>2. ASSUME Begin(s)
          PROVE  session' = [session EXCEPT ![s] = [op |-> "reopen"]]
      BY <2>4, <3>2 DEF Begin, BeginTransaction, BeginCreateBill, BeginMove,
        BeginAdjust, BeginVoidInvoice, BeginReverseReceipt, BeginClosePeriod,
        BeginReopenPeriod
    <3>3. ASSUME Transaction(s) \/ Commit(s) \/ Abandon(s) PROVE Ends(s)
      BY <3>3 DEF Transaction, MarkInvoiced, MarkReceived, CreateInvoice,
        CreateReceipt, Commit, CommitCreateBill, CommitMove, CommitAdjust,
        CommitVoidInvoice, CommitReverseReceipt, CommitClosePeriod,
        CommitReopenPeriod, Abandon
    <3>4. t # s /\ session'[t] = session[t]
      BY <3>1, <3>2, <3>3 DEF Step, Ends, Idle, TypeOK
    <3> QED BY <2>1, <2>2, <2>4, <3>4 DEF BusyAreLate, LateAfter
  <2> QED BY <2>3, <2>4 DEF TypeOK
<1> QED BY <1>1, <1>2

(* A step that starts in a closed period and writes a bill or a document is *)
(* the end of a handler that is late.                                      *)
LEMMA FrozenStep ==
    ASSUME TypeOK, BusyAreLate, [Next]_vars, closed
    PROVE  \/ UNCHANGED <<bill, invoice, receipt>>
           \/ \E s \in late : session'[s] # session[s]
<1> DEFINE Frozen == \/ UNCHANGED <<bill, invoice, receipt>>
                     \/ \E s \in late : session'[s] # session[s]
<1> SUFFICES Frozen
  OBVIOUS
<1>1. CASE UNCHANGED vars
  BY <1>1 DEF vars
<1>2. ASSUME NEW s \in Sessions, Ends(s), session[s].op \notin {"idle", "reopen"}
      PROVE  Frozen
  <2>1. s \in late
    BY <1>2 DEF BusyAreLate
  <2>2. session'[s] # session[s]
    BY <1>2 DEF Ends, Idle, TypeOK
  <2> QED BY <2>1, <2>2
<1>3. ASSUME NEW s \in Sessions, Commit(s) PROVE Frozen
  <2>1. CASE CommitReopenPeriod(s)
    BY <2>1 DEF CommitReopenPeriod
  <2>2. ASSUME ~CommitReopenPeriod(s)
        PROVE  Ends(s) /\ session[s].op \notin {"idle", "reopen"}
    BY <1>3, <2>2 DEF Commit, CommitCreateBill, CommitMove, CommitAdjust,
      CommitVoidInvoice, CommitReverseReceipt, CommitClosePeriod
  <2> QED BY <1>2, <2>1, <2>2
<1>4. ASSUME NEW s \in Sessions, Transaction(s) PROVE Frozen
  <2>1. Ends(s) /\ session[s].op \notin {"idle", "reopen"}
    BY <1>4 DEF Transaction, MarkInvoiced, MarkReceived, CreateInvoice,
      CreateReceipt
  <2> QED BY <1>2, <2>1
<1>5. ASSUME NEW s \in Sessions, Begin(s) \/ Abandon(s)
      PROVE  UNCHANGED <<bill, invoice, receipt>>
  BY <1>5 DEF Begin, BeginTransaction, BeginCreateBill, BeginMove, BeginAdjust,
    BeginVoidInvoice, BeginReverseReceipt, BeginClosePeriod, BeginReopenPeriod,
    Abandon
<1> QED BY <1>1, <1>3, <1>4, <1>5 DEF Next, Step

(* While the period is closed none of its bills and of their documents      *)
(* changes, but by a handler that had asked the lock before it closed.      *)
THEOREM ClosedStaysFrozen == Spec => ClosedFrozen
<1>1. Init => BusyAreLate
  BY DEF Init, BusyAreLate
<1>2. TypeOK /\ BusyAreLate /\ [Next]_vars => BusyAreLate'
  BY LateStep
<1>3. TypeOK /\ BusyAreLate /\ [Next]_vars =>
        [closed /\ closed' =>
           \/ UNCHANGED <<bill, invoice, receipt>>
           \/ \E s \in late : session'[s] # session[s]]_vars
  BY FrozenStep
<1> QED BY <1>1, <1>2, <1>3, ReceivablesTypes, PTL DEF Spec, ClosedFrozen
-----------------------------------------------------------------------------
(* Bills that are still to be reviewed or confirmed.                       *)

(* What a handler is to write follows the table from the status it read.    *)
Decided(s) ==
    /\ session[s].op = "move" => session[s].to \in Allowed(session[s].from)
    /\ session[s].op = "adjust" =>
         session[s].from \in {"CUSTOMER_CONFIRMED", "ADJUSTED"}

SessionsDecided == \A s \in Sessions : Decided(s)

LEMMA DecidedStep ==
    ASSUME TypeOK, SessionsDecided, [Next]_vars
    PROVE  SessionsDecided'
<1> SUFFICES ASSUME NEW t \in Sessions PROVE Decided(t)'
  BY DEF SessionsDecided
<1>1. ASSUME session'[t] = session[t] PROVE Decided(t)'
  BY <1>1 DEF Decided, SessionsDecided
<1>2. ASSUME NEW s \in Sessions, Ends(s) PROVE Decided(t)'
  BY <1>1, <1>2 DEF Ends, Idle, Decided, TypeOK
<1>3. ASSUME NEW s \in Sessions, Commit(s) \/ Abandon(s) \/ Transaction(s)
      PROVE  Decided(t)'
  BY <1>2, <1>3 DEF Commit, CommitCreateBill, CommitMove, CommitAdjust,
    CommitVoidInvoice, CommitReverseReceipt, CommitClosePeriod,
    CommitReopenPeriod, Abandon, Transaction, MarkInvoiced, MarkReceived,
    CreateInvoice, CreateReceipt
<1>4. ASSUME NEW s \in Sessions, Begin(s) PROVE Decided(t)'
  <2>1. CASE t # s
    <3>1. session'[t] = session[t]
      BY <1>4, <2>1 DEF Begin, BeginTransaction, BeginCreateBill, BeginMove,
        BeginAdjust, BeginVoidInvoice, BeginReverseReceipt, BeginClosePeriod,
        BeginReopenPeriod, TypeOK
    <3> QED BY <1>1, <3>1
  <2>2. CASE t = s
    <3>1. ASSUME NEW b \in BillIds, NEW to \in Targets, BeginMove(s, b, to)
          PROVE  Decided(t)'
      BY <2>2, <3>1 DEF BeginMove, Decided, TypeOK
    <3>2. ASSUME NEW b \in BillIds, NEW n \in Adjustments, BeginAdjust(s, b, n)
          PROVE  Decided(t)'
      BY <2>2, <3>2 DEF BeginAdjust, Decided, TypeOK
    <3>3. ASSUME session'[t].op \notin {"move", "adjust"} PROVE Decided(t)'
      BY <3>3 DEF Decided
    <3>4. \/ session'[t].op \notin {"move", "adjust"}
          \/ \E b \in BillIds, to \in Targets : BeginMove(s, b, to)
          \/ \E b \in BillIds, n \in Adjustments : BeginAdjust(s, b, n)
      BY <1>4, <2>2 DEF Begin, BeginTransaction, BeginCreateBill,
        BeginVoidInvoice, BeginReverseReceipt, BeginClosePeriod,
        BeginReopenPeriod, TypeOK
    <3> QED BY <3>1, <3>2, <3>3, <3>4
  <2> QED BY <2>1, <2>2
<1> QED BY <1>1, <1>3, <1>4 DEF Next, Step, vars

(* A bill whose status is written over the one that the writer had read     *)
(* moves along the table.                                                  *)
LEMMA FollowsTable ==
    ASSUME TypeOK, SessionsDecided, [Next]_vars, NEW b \in BillIds,
           ~bill'[b].overtaken
    PROVE  /\ ~bill[b].overtaken \/ bill[b].status = "ABSENT"
           /\ \/ bill'[b].status = bill[b].status
              \/ bill[b].status = "ABSENT"
              \/ bill'[b].status \in Allowed(bill[b].status)
<1> DEFINE Moves ==
             /\ ~bill[b].overtaken \/ bill[b].status = "ABSENT"
             /\ \/ bill'[b].status = bill[b].status
                \/ bill[b].status = "ABSENT"
                \/ bill'[b].status \in Allowed(bill[b].status)
<1> SUFFICES Moves
  OBVIOUS
<1>1. ASSUME bill'[b] = bill[b] PROVE Moves
  BY <1>1
<1>2. ASSUME NEW s \in Sessions, NEW to \in BillStatus, NEW n \in Int,
             NEW c \in BillIds,
             bill' = [bill EXCEPT ![c] = Rewritten(@, session[s].from, to, n)],
             to \in Allowed(session[s].from) \/ to = session[s].from
      PROVE  Moves
  <2>1. CASE b # c
    BY <1>1, <1>2, <2>1 DEF TypeOK
  <2>2. CASE b = c
    <3>1. bill[b] \in Bills
            /\ bill'[b] = Rewritten(bill[b], session[s].from, to, n)
      BY <1>2, <2>2 DEF TypeOK
    <3>2. ~bill[b].overtaken /\ bill[b].status = session[s].from
            /\ bill'[b].status = to
      BY <3>1, RewrittenType
    <3> QED BY <1>2, <3>2
  <2> QED BY <2>1, <2>2
<1>3. ASSUME NEW s \in Sessions, Commit(s) PROVE Moves
  <2>1. Decided(s)
    BY DEF SessionsDecided
  <2>2. ASSUME NEW c \in BillIds, CommitCreateBill(s, c) PROVE Moves
    <3>1. bill'[b] = bill[b] \/ bill[b].status = "ABSENT"
      BY <2>2 DEF CommitCreateBill, TypeOK
    <3> QED BY <1>1, <3>1
  <2>3. CASE CommitMove(s)
    <3>1. /\ session[s].id \in BillIds
          /\ session[s].to \in BillStatus
          /\ session[s].to \in Allowed(session[s].from)
      BY <2>1, <2>3, PendingRow DEF CommitMove, Decided, Targets, BillStatus
    <3>2. /\ 0 \in Int
          /\ bill' = [bill EXCEPT ![session[s].id] =
                        Rewritten(@, session[s].from, session[s].to, 0)]
      BY <2>3 DEF CommitMove
    <3> QED BY <1>2, <3>1, <3>2
  <2>4. CASE CommitAdjust(s)
    <3>1. /\ session[s].id \in BillIds
          /\ session[s].by \in Int
          /\ "ADJUSTED" \in BillStatus
          /\ "ADJUSTED" \in Allowed(session[s].from) \/ "ADJUSTED" = session[s].from
      BY <2>1, <2>4, PendingRow DEF CommitAdjust, Decided, Allowed, BillStatus
    <3> QED BY <1>2, <2>4, <3>1 DEF CommitAdjust
  <2> QED BY <1>1, <1>3, <2>2, <2>3, <2>4
          DEF Commit, CommitVoidInvoice, CommitReverseReceipt,
            CommitClosePeriod, CommitReopenPeriod
<1>4. ASSUME NEW s \in Sessions, Transaction(s) PROVE Moves
  <2>1. ASSUME NEW c \in BillIds, NEW to, to \in Allowed(bill[c].status),
               bill' = [bill EXCEPT ![c].status = to]
        PROVE  Moves
    BY <2>1 DEF TypeOK, Bills
  <2> QED BY <1>1, <1>4, <2>1 DEF Transaction, MarkInvoiced, MarkReceived,
    CreateInvoice, CreateReceipt
<1>5. ASSUME NEW s \in Sessions, Begin(s) \/ Abandon(s)
      PROVE  UNCHANGED bill
  BY <1>5 DEF Begin, BeginTransaction, BeginCreateBill, BeginMove, BeginAdjust,
    BeginVoidInvoice, BeginReverseReceipt, BeginClosePeriod, BeginReopenPeriod,
    Abandon
<1> HIDE DEF Moves
<1> QED BY <1>1, <1>3, <1>4, <1>5 DEF Next, Step, vars

(* No document names such a bill, whether it still stands or not.          *)
EarlyUnallocated ==
    \A b \in BillIds : bill[b].status \in Early =>
        \/ bill[b].overtaken
        \/ /\ \A i \in InvoiceIds : invoice[i].alloc[b] = 0
           /\ \A k \in ReceiptIds : receipt[k].alloc[b] = 0

LEMMA EarlyStep ==
    ASSUME TypeOK, FirstStatusUnallocated, SessionsDecided, EarlyUnallocated,
           [Next]_vars
    PROVE  EarlyUnallocated'
<1> SUFFICES ASSUME NEW b \in BillIds, bill'[b].status \in Early,
                    ~bill'[b].overtaken
             PROVE  /\ \A i \in InvoiceIds : invoice'[i].alloc[b] = 0
                    /\ \A k \in ReceiptIds : receipt'[k].alloc[b] = 0
  BY DEF EarlyUnallocated
<1>1. bill[b].status \in BillStatus
  BY DEF TypeOK, Bills
<1>2. bill[b].status \in Early
  BY <1>1, FollowsTable DEF Allowed, BillStatus, Early
<1>3. /\ \A i \in InvoiceIds : invoice[i].alloc[b] = 0
      /\ \A k \in ReceiptIds : receipt[k].alloc[b] = 0
  BY <1>2, FollowsTable DEF EarlyUnallocated, FirstStatusUnallocated
<1> QED BY <1>2, <1>3, NoLineForEarly

(* Documents that give a bill nothing have no units for it.                *)
LEMMA NothingStands ==
    ASSUME NEW D, NEW docs \in [D -> Documents], NEW b \in BillIds,
           \A d \in D : docs[d].alloc[b] = 0
    PROVE  Standing(docs, b) = 0
<1>1. \A d \in D : Share(docs, b)[d] = 0
  BY DEF Share
<1>2. Units(Share(docs, b), D) = {}
  BY <1>1 DEF Units
<1>3. Standing(docs, b) = Total(Share(docs, b), D)
  BY ShareType
<1>4. Total(Share(docs, b), D) = Cardinality({})
  BY <1>2 DEF Total
<1> QED BY <1>3, <1>4, FS_EmptySet

(* However requests overlap, no invoice and no receipt stands against a     *)
(* bill that is still to be reviewed or confirmed, unless its status was    *)
(* written over one that the writer had not seen: the way to a status where *)
(* documents may name the bill goes through its confirmation, and no way    *)
(* leads back.                                                             *)
THEOREM UnconfirmedStayUnallocated == Spec => []UnconfirmedUnallocated
<1>1. Init => SessionsDecided /\ EarlyUnallocated
  <2>1. Init => SessionsDecided
    BY DEF Init, Idle, SessionsDecided, Decided
  <2>2. Init => EarlyUnallocated
    BY DEF Init, NoDocument, EarlyUnallocated
  <2> QED BY <2>1, <2>2
<1>2. TypeOK /\ FirstStatusUnallocated /\ SessionsDecided /\ EarlyUnallocated
        /\ [Next]_vars => SessionsDecided' /\ EarlyUnallocated'
  BY DecidedStep, EarlyStep
<1>3. TypeOK /\ EarlyUnallocated => UnconfirmedUnallocated
  BY NothingStands
     DEF TypeOK, EarlyUnallocated, Early, UnconfirmedUnallocated,
       Invoiced, Received
<1> QED BY <1>1, <1>2, <1>3, ReceivablesTypes, FirstStatusIsUnallocated, PTL DEF Spec
=============================================================================
