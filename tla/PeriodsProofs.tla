--------------------------- MODULE PeriodsProofs ---------------------------
(***************************************************************************)
(* Proofs about Periods, for any bills, costs, payables and number of      *)
(* sessions: the type invariant, that a month which was closed while       *)
(* nothing else was under way is as its history says (ClosedAsReported),   *)
(* and that the reports agree (ReportsAgree).                              *)
(*                                                                         *)
(* closePeriod asks, counts and writes in five steps.  ClosedAsReported is  *)
(* about the month after the last one, so that Inv follows a closing        *)
(* through its steps: what it has found so far still holds (Closing),      *)
(* because nobody else is at work on the month (Alone), and nobody who     *)
(* passed the lock before is left when it is over (Locked, Reopening).     *)
(***************************************************************************)
EXTENDS Periods, FiniteSetTheorems, FunctionTheorems, TLAPS

Alone ==
    \A s, t \in Sessions :
      s # t /\ session[s] # Idle /\ session[t] # Idle =>
        session[s].op = "change" /\ session[t].op = "change"

Locked == period = "CLOSED" => \A s \in Sessions : session[s].op # "change"

Reopening ==
    \A s \in Sessions :
      session[s].op = "reopen" /\ session[s].at = "row" => period # "CLOSED"

AllReceived == Standing # {} /\ \A b \in Standing : bill[b].state = "RECEIVED"
Settled == Unpaid = {} /\ ~charges

ClosingSession(s) ==
    session[s].op = "close" =>
      /\ session[s].at # "bills" => AllReceived
      /\ session[s].at \in {"snapshot", "commit"} => Settled
      /\ session[s].at = "commit" => session[s].read = PeriodSnapshot

Closing == \A s \in Sessions : ClosingSession(s)

Report ==
    period = "CLOSED" =>
      /\ history # <<>>
      /\ history[Len(history)] = [status |-> "CLOSED", snapshot |-> PeriodSnapshot]
      /\ Settled /\ AllReceived

Inv ==
    /\ TypeOK
    /\ orderly => Alone /\ Locked /\ Reopening /\ Closing /\ Report

Rows == [status : {"CLOSED"}, snapshot : Snapshots] \cup [status : {"REOPENED"}]
-----------------------------------------------------------------------------
(* Laws of sums: the parts of a sum, told apart by a key or by two         *)
(* functions, add up to it.                                                *)

(* The units of a natural-valued function over a finite set are finitely    *)
(* many: they are a finite union of finite sets.                           *)
LEMMA UnitsFinite ==
    ASSUME NEW S, IsFiniteSet(S), NEW f \in [S -> Nat], NEW T \in SUBSET S
    PROVE  IsFiniteSet(Units(f, T))
<1> DEFINE part == [x \in T |-> {x} \X (1 .. f[x])]
           parts == {{x} \X (1 .. f[x]) : x \in T}
<1>1. part \in Surjection(T, parts)
  BY DEF Surjection
<1>2. IsFiniteSet(T)
  BY FS_Subset
<1>3. IsFiniteSet(parts)
  <2> HIDE DEF part, parts
  <2> QED BY <1>1, <1>2, FS_Surjection
<1>4. ASSUME NEW P \in parts PROVE IsFiniteSet(P)
  <2>1. PICK x \in T : P = {x} \X (1 .. f[x])
    BY <1>4
  <2>2. f[x] \in Int /\ 1 \in Int
    OBVIOUS
  <2>3. IsFiniteSet({x})
    BY FS_Singleton
  <2>4. IsFiniteSet(1 .. f[x])
    BY <2>2, FS_Interval
  <2> QED BY <2>1, <2>3, <2>4, FS_Product
<1>5. Units(f, T) = UNION parts
  BY DEF Units
<1> QED
  <2> HIDE DEF parts
  <2> QED BY <1>3, <1>4, <1>5, FS_UNION

LEMMA UnitOf ==
    ASSUME NEW S, NEW f, NEW v
    PROVE  v \in Units(f, S) <=> \E x \in S : \E i \in 1 .. f[x] : v = <<x, i>>
BY DEF Units

(* Sets that can be told apart by one of their elements' parts are counted  *)
(* one by one: the values that k tells apart in T add up to the sum over T. *)
LEMMA TotalByKey ==
    ASSUME NEW S, IsFiniteSet(S), NEW f \in [S -> Nat], NEW T \in SUBSET S,
           NEW C, NEW k \in [T -> C]
    PROVE  Total([c \in C |-> Total(f, {x \in T : k[x] = c})], C) = Total(f, T)
<1> DEFINE Part(c) == Units(f, {x \in T : k[x] = c})
           sums == [c \in C |-> Total(f, {x \in T : k[x] = c})]
           count(c) == CHOOSE b : b \in Bijection(1 .. Cardinality(Part(c)), Part(c))
           H == [v \in Units(sums, C) |-> count(v[1])[v[2]]]
<1>1. ASSUME NEW c \in C
      PROVE  /\ sums[c] = Cardinality(Part(c))
             /\ count(c) \in Bijection(1 .. Cardinality(Part(c)), Part(c))
  <2>1. {x \in T : k[x] = c} \in SUBSET S
    OBVIOUS
  <2>2. IsFiniteSet(Part(c))
    BY <2>1, UnitsFinite
  <2>3. ExistsBijection(1 .. Cardinality(Part(c)), Part(c))
    BY <2>2, FS_CardinalityType
  <2> QED
    BY <2>3 DEF ExistsBijection, Total
<1>2. ASSUME NEW c, NEW u
      PROVE  u \in Part(c) <=>
               u \in Units(f, T) /\ u[1] \in T /\ k[u[1]] = c
  BY DEF Units
<1>3. ASSUME NEW v
      PROVE  v \in Units(sums, C) <=>
               \E c \in C : \E i \in 1 .. sums[c] : v = <<c, i>>
  <2> HIDE DEF sums
  <2> QED
    BY UnitOf
<1> HIDE DEF Part, sums, count
<1>4. ASSUME NEW v \in Units(sums, C)
      PROVE  /\ v[1] \in C /\ v[2] \in 1 .. Cardinality(Part(v[1]))
             /\ v = <<v[1], v[2]>>
             /\ H[v] \in Part(v[1])
  <2>0. PICK c \in C : \E i \in 1 .. sums[c] : v = <<c, i>>
    BY <1>3
  <2>1. PICK i \in 1 .. sums[c] : v = <<c, i>>
    BY <2>0
  <2>2. count(c) \in [1 .. Cardinality(Part(c)) -> Part(c)] /\ i \in 1 .. Cardinality(Part(c))
    BY <1>1, <2>1 DEF Bijection, Injection
  <2> QED
    BY <2>1, <2>2
<1>5. H \in Bijection(Units(sums, C), Units(f, T))
  <2>1. H \in [Units(sums, C) -> Units(f, T)]
    BY <1>2, <1>4
  <2>2. ASSUME NEW v \in Units(sums, C), NEW w \in Units(sums, C), H[v] = H[w]
        PROVE  v = w
    <3>1. v[1] = w[1]
      BY <1>2, <1>4, <2>2
    <3>2. count(v[1])[v[2]] = count(v[1])[w[2]]
      BY <2>2, <3>1
    <3>3. v[2] = w[2]
      <4> DEFINE b == count(v[1])
                 N == 1 .. Cardinality(Part(v[1]))
                 P == Part(v[1])
      <4>1. b \in Bijection(N, P)
        BY <1>1, <1>4
      <4>2. v[2] \in N /\ w[2] \in N /\ b[v[2]] = b[w[2]]
        BY <1>4, <3>1, <3>2
      <4> HIDE DEF b, N, P, H
      <4> QED
        BY <4>1, <4>2 DEF Bijection, Injection, IsInjective
    <3> QED
      BY <1>4, <3>1, <3>3
  <2>3. ASSUME NEW u \in Units(f, T) PROVE \E v \in Units(sums, C) : H[v] = u
    <3>1. u[1] \in T
      BY DEF Units
    <3>2. k[u[1]] \in C /\ u \in Part(k[u[1]])
      BY <1>2, <3>1
    <3>3. PICK i \in 1 .. Cardinality(Part(k[u[1]])) : count(k[u[1]])[i] = u
      BY <1>1, <3>2 DEF Bijection, Surjection
    <3>4. <<k[u[1]], i>> \in Units(sums, C)
      BY <1>1, <1>3, <3>2
    <3>5. H[<<k[u[1]], i>>] = u
      BY <3>3, <3>4
    <3> QED
      BY <3>4, <3>5
  <2> HIDE DEF H
  <2> QED
    BY <2>1, <2>2, <2>3 DEF Bijection, Injection, Surjection, IsInjective
<1>6. IsFiniteSet(Units(f, T))
  BY UnitsFinite
<1>7. ExistsBijection(Units(f, T), Units(sums, C))
  BY <1>5, Fun_ExistsBijSymmetric DEF ExistsBijection
<1>8. Cardinality(Units(sums, C)) = Cardinality(Units(f, T))
  BY <1>6, <1>7, FS_Bijection
<1> QED
  BY <1>8 DEF Total, sums

(* The sum of the sums of two functions is the sum of their values' sums.   *)
LEMMA TotalOfSum ==
    ASSUME NEW S, IsFiniteSet(S), NEW f \in [S -> Nat], NEW g \in [S -> Nat]
    PROVE  Total([x \in S |-> f[x] + g[x]], S) = Total(f, S) + Total(g, S)
<1> DEFINE h == [x \in S |-> f[x] + g[x]]
           high == Units(h, S) \ Units(f, S)
           lift == [v \in Units(g, S) |-> <<v[1], f[v[1]] + v[2]>>]
<1>2. f \in [S -> Nat] /\ g \in [S -> Nat] /\ h \in [S -> Nat]
  OBVIOUS
<1>3. Units(f, S) \subseteq Units(h, S)
  <2> SUFFICES ASSUME NEW v \in Units(f, S) PROVE v \in Units(h, S)
    OBVIOUS
  <2>0. PICK x \in S : \E i \in 1 .. f[x] : v = <<x, i>>
    BY UnitOf, <1>2
  <2>1. PICK i \in 1 .. f[x] : v = <<x, i>>
    BY <2>0
  <2>2. i \in 1 .. h[x]
    BY <1>2
  <2> HIDE DEF h
  <2> QED
    BY UnitOf, <1>2, <2>1, <2>2
<1>4. ASSUME NEW v PROVE v \in high <=> \E x \in S : \E i \in 1 .. g[x] : v = <<x, f[x] + i>>
  <2>1. ASSUME NEW x \in S, NEW i \in 1 .. g[x], v = <<x, f[x] + i>> PROVE v \in high
    <3>1. f[x] + i \in 1 .. h[x] /\ f[x] + i \notin 1 .. f[x]
      BY <1>2
    <3>2. v \in Units(h, S)
      <4> HIDE DEF h
      <4> QED BY UnitOf, <1>2, <2>1, <3>1
    <3>3. v \notin Units(f, S)
      BY UnitOf, <1>2, <2>1, <3>1
    <3> QED
      BY <3>2, <3>3
  <2>2. ASSUME v \in high PROVE \E x \in S : \E i \in 1 .. g[x] : v = <<x, f[x] + i>>
    <3>0. PICK x \in S : \E j \in 1 .. h[x] : v = <<x, j>>
      <4> HIDE DEF h
      <4> QED BY UnitOf, <1>2, <2>2 DEF high
    <3>1. PICK j \in 1 .. h[x] : v = <<x, j>>
      BY <3>0
    <3>2. j \notin 1 .. f[x]
      BY UnitOf, <1>2, <2>2, <3>1
    <3>3. j - f[x] \in 1 .. g[x] /\ j = f[x] + (j - f[x])
      BY <1>2, <3>1, <3>2
    <3> QED
      BY <3>1, <3>3
  <2> QED
    BY <2>1, <2>2
<1> HIDE DEF h, high
<1>5. lift \in Bijection(Units(g, S), high)
  <2>1. ASSUME NEW v \in Units(g, S)
        PROVE  /\ v[1] \in S /\ v[2] \in 1 .. g[v[1]] /\ v = <<v[1], v[2]>>
               /\ lift[v] = <<v[1], f[v[1]] + v[2]>> /\ lift[v] \in high
    <3>0. PICK x \in S : \E i \in 1 .. g[x] : v = <<x, i>>
      BY UnitOf, <1>2
    <3>1. PICK i \in 1 .. g[x] : v = <<x, i>>
      BY <3>0
    <3> QED
      BY <1>4, <3>1
  <2>2. lift \in [Units(g, S) -> high]
    BY <2>1
  <2>3. ASSUME NEW v \in Units(g, S), NEW w \in Units(g, S), lift[v] = lift[w]
        PROVE  v = w
    <3>1. v[1] = w[1] /\ f[v[1]] + v[2] = f[w[1]] + w[2]
      BY <2>1, <2>3
    <3>2. f[v[1]] \in Nat /\ v[2] \in Int /\ w[2] \in Int
      <4>1. /\ v[1] \in S /\ v[2] \in 1 .. g[v[1]]
            /\ w[1] \in S /\ w[2] \in 1 .. g[w[1]]
        BY <2>1
      <4> HIDE DEF lift
      <4>2. f[v[1]] \in Nat /\ g[v[1]] \in Nat /\ g[w[1]] \in Nat
        BY <1>2, <4>1
      <4> QED
        BY <4>1, <4>2
    <3>3. v[2] = w[2]
      BY <3>1, <3>2
    <3> QED
      BY <2>1, <3>1, <3>3
  <2>4. ASSUME NEW u \in high PROVE \E v \in Units(g, S) : lift[v] = u
    <3>0. PICK x \in S : \E i \in 1 .. g[x] : u = <<x, f[x] + i>>
      BY <1>4
    <3>1. PICK i \in 1 .. g[x] : u = <<x, f[x] + i>>
      BY <3>0
    <3>2. <<x, i>> \in Units(g, S)
      BY UnitOf, <1>2, <3>1
    <3> QED
      BY <3>1, <3>2
  <2> HIDE DEF lift
  <2> QED
    BY <2>2, <2>3, <2>4 DEF Bijection, Injection, Surjection, IsInjective
<1>6. /\ IsFiniteSet(Units(f, S)) /\ IsFiniteSet(Units(g, S)) /\ IsFiniteSet(high)
  <2>1. IsFiniteSet(Units(h, S))
    BY <1>2, UnitsFinite
  <2> QED
    BY <1>2, <2>1, UnitsFinite, FS_Subset DEF high
<1>7. Cardinality(high) = Cardinality(Units(g, S))
  BY <1>5, <1>6, FS_Bijection DEF ExistsBijection
<1>8. /\ Units(h, S) = Units(f, S) \cup high
      /\ Cardinality(Units(f, S) \cap high) = 0
  <2>1. Units(f, S) \cap high = {}
    BY DEF high
  <2> QED
    BY <1>3, <2>1, FS_EmptySet DEF high
<1>9. Cardinality(Units(h, S)) = Cardinality(Units(f, S)) + Cardinality(high)
  <2>1. Cardinality(Units(f, S) \cup high) =
          Cardinality(Units(f, S)) + Cardinality(high) - Cardinality(Units(f, S) \cap high)
    BY <1>6, FS_Union
  <2>2. Cardinality(Units(f, S)) \in Nat /\ Cardinality(high) \in Nat
    BY <1>6, FS_CardinalityType
  <2> QED
    BY <1>8, <2>1, <2>2
<1> QED
  BY <1>7, <1>9 DEF Total, h

-----------------------------------------------------------------------------
(* What the reports are made of.                                           *)

LEMMA TotalOfPart ==
    ASSUME NEW S, IsFiniteSet(S), NEW f \in [S -> Nat], NEW T \in SUBSET S
    PROVE  Total(f, T) \in Nat
BY UnitsFinite, FS_CardinalityType DEF Total

LEMMA CountOfPart ==
    ASSUME NEW S, IsFiniteSet(S), NEW T \in SUBSET S
    PROVE  Cardinality(T) \in Nat
BY FS_Subset, FS_CardinalityType

LEMMA KeptTypes ==
    ASSUME TypeOK
    PROVE  Received \in [Receipts -> Nat] /\ Kept \in SUBSET Receipts
BY DEF TypeOK, Received, Kept

LEMMA SnapshotType ==
    ASSUME TypeOK
    PROVE  PeriodSnapshot \in Snapshots
<1>1. Amounts \cup {0} \subseteq Nat
  BY PeriodsAssumption
<1>2. IsFiniteSet(Payables)
  BY PeriodsAssumption, FS_Union DEF Payables
<1>3. /\ Cardinality(Standing) \in Nat /\ Cardinality(Entered) \in Nat
      /\ Cardinality(Direct) \in Nat /\ Cardinality(Unpaid) \in Nat
  BY <1>2, CountOfPart, PeriodsAssumption DEF Standing, Entered, Direct, Owed, Unpaid
<1>4. Total(Billed, Standing) \in Nat
  <2>1. Billed \in [Bills -> Nat] /\ Standing \in SUBSET Bills
    BY <1>1 DEF TypeOK, Billed, Standing
  <2> QED BY <2>1, TotalOfPart, PeriodsAssumption
<1>5. Total(entry, Entered) \in Nat
  <2>1. entry \in [Entries -> Nat] /\ Entered \in SUBSET Entries
    BY <1>1 DEF TypeOK, Entered
  <2> QED BY <2>1, TotalOfPart, PeriodsAssumption
<1>6. Total(Due, Direct) \in Nat
  <2>1. Due \in [Payables -> Nat] /\ Direct \in SUBSET Payables
    BY <1>1 DEF TypeOK, Due, Direct, Owed
  <2> QED BY <1>2, <2>1, TotalOfPart
<1>7. Total(Received, Kept) \in Nat
  BY KeptTypes, TotalOfPart, PeriodsAssumption
<1> QED
  BY <1>3, <1>4, <1>5, <1>6, <1>7 DEF PeriodSnapshot, Snapshots

(* What the books determine.                                               *)
LEMMA BooksDetermine ==
    ASSUME UNCHANGED books
    PROVE  /\ PeriodSnapshot' = PeriodSnapshot
           /\ AllReceived' = AllReceived
           /\ Settled' = Settled
<1>1. Standing' = Standing /\ Entered' = Entered /\ Owed' = Owed
  BY DEF books, Standing, Entered, Owed
<1>2. Direct' = Direct /\ Unpaid' = Unpaid
  BY <1>1 DEF books, Direct, Unpaid
<1>3. Billed' = Billed /\ Due' = Due /\ Received' = Received /\ Kept' = Kept
  BY DEF books, Billed, Due, Received, Kept
<1> QED
  BY <1>1, <1>2, <1>3 DEF books, PeriodSnapshot, AllReceived, Settled

-----------------------------------------------------------------------------
(* Types.                                                                  *)

(* What a session may be.                                                  *)
LEMMA RequestTypes ==
    /\ Idle \in Request
    /\ \A w \in Changes : [op |-> "change", at |-> "write", w |-> w] \in Request
    /\ \A a \in {"bills", "counts", "snapshot"} :
         [op |-> "close", at |-> a] \in Request
    /\ \A n \in Snapshots : [op |-> "close", at |-> "commit", read |-> n] \in Request
    /\ \A a \in {"set", "row"} : [op |-> "reopen", at |-> a] \in Request
BY DEF Request

LEMMA SessionTypes ==
    ASSUME TypeOK, NEW s \in Sessions
    PROVE  /\ session[s].op = "change" => session[s].w \in Changes
           /\ session[s].op = "close" =>
                /\ session[s].at # "commit" =>
                     session[s] \in [op : {"close"}, at : {"bills", "counts", "snapshot"}]
                /\ session[s].at = "commit" => session[s].read \in Snapshots
           /\ session[s].op = "reopen" => session[s] \in [op : {"reopen"}, at : {"set", "row"}]
           /\ session[s].op = "idle" <=> session[s] = Idle
<1>1. session[s] \in Request
  BY DEF TypeOK
<1> QED
  BY <1>1 DEF Request, Idle

LEMMA ChangeTypes ==
    ASSUME NEW w \in Changes
    PROVE  /\ w.do = "issue" => w.b \in Bills /\ w.n \in Amounts
           /\ w.do \in {"move", "void"} => w.b \in Bills
           /\ w.do = "adjust" =>
                w.b \in Bills /\ w.n \in Amounts /\ w.up \in BOOLEAN
           /\ w.do = "receive" => w.b \in Bills /\ w.k \in Receipts
           /\ w.do = "allocate" => w.b \in Bills /\ w.k \in Receipts /\ w.n \in Amounts
           /\ w.do = "reverse" => w.k \in Receipts
           /\ w.do = "enter" =>
                w.e \in Entries /\ w.n \in Amounts /\ w.owed \in BOOLEAN
           /\ w.do = "owe" => w.p \in Debts /\ w.b \in Bills /\ w.n \in Amounts
           /\ w.do \in {"pay", "unpay"} => w.p \in Payables
           /\ w.do \in {"issue", "move", "void", "adjust", "receive", "allocate",
                        "reverse", "enter", "owe", "pay", "unpay", "charge", "use"}
BY DEF Changes

(* The part of TypeOK that is about the books.                             *)
BooksTypes ==
    /\ bill \in [Bills -> [state : {"none", "waiting", "RECEIVED", "VOIDED"},
                           amount : Nat]]
    /\ receipt \in [Receipts -> [state : {"none", "standing", "reversed"},
                                 bill : Bills \cup {None}, amount : Nat]]
    /\ entry \in [Entries -> Amounts \cup {0}]
    /\ payable \in [Payables -> [state : {"none", "open", "paid"},
                                 amount : Amounts \cup {0}, bill : Bills \cup {None}]]
    /\ \A p \in Direct : payable[p].bill \in Bills
    /\ charges \in BOOLEAN

LEMMA WrittenTypes ==
    ASSUME BooksTypes, NEW w \in Changes, Lands(w), Written(w)
    PROVE  BooksTypes'
<1> USE ChangeTypes
<1>0. Amounts \subseteq Nat
  BY PeriodsAssumption
<1>1. bill' \in [Bills -> [state : {"none", "waiting", "RECEIVED", "VOIDED"},
                           amount : Nat]]
  <2>1. CASE w.do = "adjust"
    <3> DEFINE n == Adjusted(w)
    <3>1. n \in Nat
      BY <2>1, PeriodsAssumption DEF Lands
    <3>2. bill' = [bill EXCEPT ![w.b] = [state |-> "waiting", amount |-> n]]
      BY <2>1 DEF Written
    <3> HIDE DEF n
    <3> QED BY <3>1, <3>2 DEF BooksTypes
  <2>2. CASE w.do # "adjust"
    BY <1>0, <2>2 DEF BooksTypes, Written
  <2> QED BY <2>1, <2>2
<1>2. receipt' \in [Receipts -> [state : {"none", "standing", "reversed"},
                                bill : Bills \cup {None}, amount : Nat]]
  <2>1. CASE w.do = "receive"
    <3> DEFINE n == LeftOf(w.b)
               T == {k \in Kept : receipt[k].bill = w.b}
    <3>1. Total(Received, T) \in Nat
      <4>1. Received \in [Receipts -> Nat] /\ T \in SUBSET Receipts
        BY DEF BooksTypes, Received, Kept
      <4> QED BY <4>1, TotalOfPart, PeriodsAssumption
    <3>2. bill[w.b].amount \in Nat
      BY <2>1 DEF BooksTypes
    <3>3. n \in Nat
      <4>1. n > 0 /\ n = bill[w.b].amount - Total(Received, T)
        BY <2>1 DEF Lands, Possible, LeftOf
      <4> HIDE DEF n, T
      <4> QED BY <3>1, <3>2, <4>1
    <3>4. receipt' = [receipt EXCEPT ![w.k] = [state |-> "standing", bill |-> w.b, amount |-> n]]
      BY <2>1 DEF Written, Allocated
    <3> HIDE DEF n
    <3> QED BY <2>1, <3>3, <3>4 DEF BooksTypes
  <2>2. CASE w.do # "receive"
    BY <1>0, <2>2 DEF BooksTypes, Written, Allocated
  <2> QED BY <2>1, <2>2
<1>3. entry' \in [Entries -> Amounts \cup {0}]
  BY DEF BooksTypes, Written
<1>4. payable' \in [Payables -> [state : {"none", "open", "paid"},
                                 amount : Amounts \cup {0}, bill : Bills \cup {None}]]
  BY DEF BooksTypes, Written, Payables, OpenPayable
<1>5. \A p \in Direct' : payable'[p].bill \in Bills
  <2> SUFFICES ASSUME NEW p \in Direct'
               PROVE  payable'[p].bill \in Bills
    OBVIOUS
  <2>1. p \in Debts /\ p \in Payables /\ p \notin Entries /\ payable'[p].state # "none"
    BY PeriodsAssumption DEF Direct, Owed, Payables
  <2>2. CASE w.do = "owe"
    BY <2>1, <2>2 DEF BooksTypes, Written, OpenPayable, Direct, Owed
  <2>3. CASE w.do = "enter"
    BY <2>1, <2>3 DEF BooksTypes, Written, OpenPayable, Direct, Owed
  <2>4. CASE w.do \in {"pay", "unpay"}
    <3>1. payable[w.p].state # "none"
      BY <2>4 DEF Lands, Possible
    <3>2. payable'[p].bill = payable[p].bill /\ payable[p].state # "none"
      BY <2>1, <2>4, <3>1 DEF BooksTypes, Written
    <3> QED BY <2>1, <3>2 DEF BooksTypes, Direct, Owed
  <2>5. CASE w.do \notin {"owe", "enter", "pay", "unpay"}
    BY <2>1, <2>5 DEF BooksTypes, Written, Direct, Owed
  <2> QED BY <2>2, <2>3, <2>4, <2>5
<1>6. charges' \in BOOLEAN
  BY DEF BooksTypes, Written
<1> QED
  BY <1>1, <1>2, <1>3, <1>4, <1>5, <1>6 DEF BooksTypes

LEMMA InitTypes == Init => TypeOK
<1> SUFFICES ASSUME Init PROVE TypeOK
  OBVIOUS
<1>1. Direct = {}
  BY DEF Init, Direct, Owed, NoPayable
<1>2. history \in Seq(Rows)
  BY DEF Init
<1>3. /\ bill \in [Bills -> [state : {"none", "waiting", "RECEIVED", "VOIDED"},
                            amount : Nat]]
      /\ receipt \in [Receipts -> [state : {"none", "standing", "reversed"},
                                  bill : Bills \cup {None}, amount : Nat]]
  BY DEF Init, NoReceipt
<1>4. payable \in [Payables -> [state : {"none", "open", "paid"},
                               amount : Amounts \cup {0}, bill : Bills \cup {None}]]
  BY DEF Init, NoPayable
<1>5. session \in [Sessions -> Request]
  BY RequestTypes DEF Init
<1> QED
  BY <1>1, <1>2, <1>3, <1>4, <1>5 DEF Init, TypeOK, Rows

(* The steps that only move a session.                                     *)
LEMMA MovedTypes ==
    ASSUME TypeOK, NEW s \in Sessions, NEW next \in Request,
           session' = [session EXCEPT ![s] = next], orderly' \in BOOLEAN,
           period' \in {"OPEN", "CLOSED", "REOPENED"}, history' \in Seq(Rows),
           UNCHANGED <<books, recipient, asked>>
    PROVE  TypeOK'
<1>1. \A p \in Direct' : payable'[p].bill \in Bills
  BY DEF TypeOK, Direct, Owed, books
<1> QED
  BY <1>1 DEF TypeOK, Rows, books

LEMMA StepTypes == TypeOK /\ [Next]_vars => TypeOK'
<1> SUFFICES ASSUME TypeOK, [Next]_vars PROVE TypeOK'
  OBVIOUS
<1> USE RequestTypes
<1>0. /\ period \in {"OPEN", "CLOSED", "REOPENED"} /\ history \in Seq(Rows)
      /\ orderly \in BOOLEAN
  BY DEF TypeOK, Rows
<1>1. ASSUME NEW s \in Sessions, NEW w \in Changes, BeginChange(s, w)
      PROVE  TypeOK'
  BY <1>0, <1>1, MovedTypes DEF BeginChange, Begin
<1>2. ASSUME NEW s \in Sessions, Write(s)
      PROVE  TypeOK'
  <2> DEFINE w == session[s].w
  <2>1. w \in Changes
    BY <1>2, SessionTypes DEF Write, At
  <2>2. CASE UNCHANGED books
    BY <1>0, <1>2, <2>2, MovedTypes DEF Write, Goes
  <2>3. CASE Lands(w) /\ Written(w)
    <3>1. BooksTypes'
      <4>1. BooksTypes
        BY DEF TypeOK, BooksTypes
      <4> HIDE DEF w
      <4> QED BY <2>1, <2>3, <4>1, WrittenTypes
    <3>2. session' \in [Sessions -> Request] /\ orderly' = orderly
      BY <1>2 DEF Write, Goes, TypeOK
    <3> QED BY <1>2, <3>1, <3>2 DEF Write, TypeOK, BooksTypes
  <2> QED BY <1>2, <2>2, <2>3 DEF Write
<1>3. ASSUME NEW s \in Sessions, BeginClose(s)
      PROVE  TypeOK'
  BY <1>0, <1>3, MovedTypes DEF BeginClose, Begin
<1>4. ASSUME NEW s \in Sessions, CloseBills(s)
      PROVE  TypeOK'
  <2>1. [session[s] EXCEPT !.at = "counts"] \in Request
    <3>1. session[s] \in [op : {"close"}, at : {"bills", "counts", "snapshot"}]
      BY <1>4, SessionTypes DEF CloseBills, At
    <3> QED BY <3>1 DEF Request
  <2> QED BY <1>0, <1>4, <2>1, MovedTypes DEF CloseBills, Goes
<1>5. ASSUME NEW s \in Sessions, CloseCounts(s)
      PROVE  TypeOK'
  <2>1. [session[s] EXCEPT !.at = "snapshot"] \in Request
    <3>1. session[s] \in [op : {"close"}, at : {"bills", "counts", "snapshot"}]
      BY <1>5, SessionTypes DEF CloseCounts, At
    <3> QED BY <3>1 DEF Request
  <2> QED BY <1>0, <1>5, <2>1, MovedTypes DEF CloseCounts, Goes
<1>6. ASSUME NEW s \in Sessions, CloseSnapshot(s)
      PROVE  TypeOK'
  BY <1>0, <1>6, SnapshotType, MovedTypes DEF CloseSnapshot, Goes
<1>7. ASSUME NEW s \in Sessions, CloseCommit(s)
      PROVE  TypeOK'
  <2>1. [status |-> "CLOSED", snapshot |-> session[s].read] \in Rows
    BY <1>7, SessionTypes DEF CloseCommit, At, Rows
  <2>2. history' \in Seq(Rows)
    BY <1>0, <1>7, <2>1 DEF CloseCommit
  <2> QED BY <1>0, <1>7, <2>2, MovedTypes DEF CloseCommit, Goes
<1>8. ASSUME NEW s \in Sessions, BeginReopen(s)
      PROVE  TypeOK'
  BY <1>0, <1>8, MovedTypes DEF BeginReopen, Begin
<1>9. ASSUME NEW s \in Sessions, ReopenSet(s)
      PROVE  TypeOK'
  <2>1. [session[s] EXCEPT !.at = "row"] \in Request
    <3>1. session[s] \in [op : {"reopen"}, at : {"set", "row"}]
      BY <1>9, SessionTypes DEF ReopenSet, At
    <3> QED BY <3>1 DEF Request
  <2> QED BY <1>0, <1>9, <2>1, MovedTypes DEF ReopenSet, Goes
<1>10. ASSUME NEW s \in Sessions, ReopenRow(s)
       PROVE  TypeOK'
  <2>1. [status |-> "REOPENED"] \in Rows
    BY DEF Rows
  <2>2. history' \in Seq(Rows)
    BY <1>0, <1>10, <2>1 DEF ReopenRow
  <2> QED BY <1>0, <1>10, <2>2, MovedTypes DEF ReopenRow, Goes
<1>11. CASE \E r \in Recipients : CreatePaymentRecipient(r) \/ RemovePaymentRecipient(r)
  BY <1>11 DEF CreatePaymentRecipient, RemovePaymentRecipient, TypeOK, Direct, Owed, books
<1>12. CASE Ask \/ Pay \/ ReversePayment
  BY <1>12 DEF Ask, Pay, ReversePayment, TypeOK, Direct, Owed, books
<1>13. CASE Crash
  BY <1>13 DEF Crash, TypeOK, Direct, Owed, books
<1>14. CASE UNCHANGED vars
  BY <1>14 DEF vars, TypeOK, Direct, Owed, books
<1> QED
  BY <1>1, <1>2, <1>3, <1>4, <1>5, <1>6, <1>7, <1>8, <1>9, <1>10, <1>11, <1>12,
     <1>13, <1>14 DEF Next

(* Every reachable state is of its type: what a closing writes into the     *)
(* history are natural numbers, and a payable that is of no cost entry      *)
(* names the bill it was entered for.                                      *)
THEOREM PeriodsTypes == Spec => []TypeOK
<1>1. Init => TypeOK
  BY InitTypes
<1>2. TypeOK /\ [Next]_vars => TypeOK'
  BY StepTypes
<1> QED BY <1>1, <1>2, PTL DEF Spec
-----------------------------------------------------------------------------
(* ClosedAsReported.                                                       *)

(* A request that begins while the month stays orderly is the only one, or  *)
(* a change among changes.                                                 *)
LEMMA BegunAlone ==
    ASSUME Inv, NEW s \in Sessions, NEW next, next.op # "idle", next # Idle,
           Begin(s, next), orderly'
    PROVE  /\ orderly
           /\ Alone'
           /\ \A t \in Sessions : t # s /\ session[t] # Idle =>
                next.op = "change" /\ session[t].op = "change"
<1>1. orderly /\ session \in [Sessions -> Request]
  BY DEF Begin, Inv, TypeOK
<1>2. \A t \in Sessions : t # s /\ session[t] # Idle =>
        next.op = "change" /\ session[t].op = "change"
  BY DEF Begin
<1>3. Alone
  BY <1>1 DEF Inv
<1> QED
  BY <1>1, <1>2, <1>3 DEF Begin, Alone

(* A step of a session that is no change leaves it alone.                  *)
LEMMA GoneAlone ==
    ASSUME Inv, orderly, NEW s \in Sessions, session[s].op \in {"close", "reopen"},
           NEW next, Goes(s, next)
    PROVE  /\ Alone'
           /\ session'[s] = next
           /\ \A t \in Sessions : t # s => session[t] = Idle /\ session'[t] = Idle
<1>1. session \in [Sessions -> Request] /\ Alone
  BY DEF Inv, TypeOK
<1>2. session[s] # Idle
  BY DEF Idle
<1>3. \A t \in Sessions : t # s => session[t] = Idle
  BY <1>1, <1>2 DEF Alone
<1> QED
  BY <1>1, <1>3 DEF Goes, Alone

LEMMA IdleIsNothing == Idle.op = "idle"
BY DEF Idle

LEMMA InitInv == Init => Inv
<1> SUFFICES ASSUME Init PROVE Inv
  OBVIOUS
<1>1. TypeOK
  BY InitTypes
<1>2. \A s \in Sessions : session[s] = Idle
  BY DEF Init
<1> QED
  BY <1>1, <1>2, IdleIsNothing
     DEF Init, Inv, Alone, Locked, Reopening, Closing, ClosingSession, Report

(* A session alone in the month, which is left as it is.                   *)
LEMMA AloneInv ==
    ASSUME Inv, orderly, TypeOK', NEW s \in Sessions,
           session[s].op \in {"close", "reopen"}, NEW next, Goes(s, next),
           UNCHANGED <<period, history, books>>,
           next.op \in {"idle", "close"}, ClosingSession(s)'
    PROVE  Inv'
<1>1. /\ Alone' /\ session'[s] = next
      /\ \A t \in Sessions : t # s => session'[t] = Idle
  BY GoneAlone
<1>2. Locked' /\ Reopening'
  BY <1>1, IdleIsNothing DEF Locked, Reopening
<1>3. Closing'
  BY <1>1, IdleIsNothing DEF Closing, ClosingSession
<1>4. Report'
  BY BooksDetermine DEF Inv, Report
<1> QED BY <1>1, <1>2, <1>3, <1>4 DEF Inv

(* A request begins, and the month is left as it is.                       *)
LEMMA BegunInv ==
    ASSUME Inv, TypeOK', NEW s \in Sessions, NEW next, next.op # "idle",
           next # Idle, Begin(s, next),
           UNCHANGED <<period, history, books>>,
           next.op = "change" => period # "CLOSED",
           next.op = "close" => next.at = "bills",
           next.op = "reopen" => next.at = "set"
    PROVE  Inv'
<1> SUFFICES ASSUME orderly' PROVE Inv'
  BY DEF Inv
<1>1. orderly /\ Alone'
  BY BegunAlone
<1>2. \A t \in Sessions : session'[t] = IF t = s THEN next ELSE session[t]
  BY DEF Inv, TypeOK, Begin
<1>3. Locked'
  BY <1>1, <1>2 DEF Inv, Locked
<1>4. Reopening'
  BY <1>1, <1>2 DEF Inv, Reopening
<1>5. Closing'
  <2> SUFFICES ASSUME NEW t \in Sessions PROVE ClosingSession(t)'
    BY DEF Closing
  <2>1. ClosingSession(t)
    BY <1>1 DEF Inv, Closing
  <2> QED BY <1>2, <2>1, BooksDetermine DEF ClosingSession
<1>6. Report'
  BY <1>1, BooksDetermine DEF Inv, Report
<1> QED BY <1>1, <1>3, <1>4, <1>5, <1>6 DEF Inv

(* A change is written: no closing is under way that could miss it, and the *)
(* month is not closed.                                                    *)
LEMMA WriteInv ==
    ASSUME Inv, TypeOK', NEW s \in Sessions, Write(s)
    PROVE  Inv'
<1> SUFFICES ASSUME orderly' PROVE Inv'
  BY DEF Inv
<1>1. /\ orderly /\ session[s].op = "change" /\ session[s] # Idle
      /\ session \in [Sessions -> Request] /\ UNCHANGED <<period, history>>
  BY DEF Inv, TypeOK, Write, Goes, At, Idle
<1>2. \A t \in Sessions : session'[t] = IF t = s THEN Idle ELSE session[t]
  BY <1>1 DEF Write, Goes
<1>3. \A t \in Sessions : session[t] = Idle \/ session[t].op = "change"
  BY <1>1 DEF Inv, Alone
<1>4. period # "CLOSED"
  BY <1>1 DEF Inv, Locked
<1>5. Alone'
  BY <1>1, <1>2 DEF Inv, Alone
<1>6. Locked' /\ Report'
  BY <1>1, <1>4 DEF Locked, Report
<1>7. Reopening' /\ Closing'
  BY <1>2, <1>3, IdleIsNothing DEF Reopening, Closing, ClosingSession
<1> QED BY <1>5, <1>6, <1>7 DEF Inv

(* The closing writes the snapshot it has taken, of a month that has not    *)
(* changed since.                                                          *)
LEMMA CommitInv ==
    ASSUME Inv, TypeOK', NEW s \in Sessions, CloseCommit(s)
    PROVE  Inv'
<1> SUFFICES ASSUME orderly' PROVE Inv'
  BY DEF Inv
<1>1. /\ orderly /\ session[s].op = "close" /\ session[s].at = "commit"
      /\ Goes(s, Idle) /\ UNCHANGED books
  BY DEF CloseCommit, Goes, At
<1>2. Alone' /\ \A t \in Sessions : session'[t] = Idle
  BY <1>1, GoneAlone
<1>3. Locked' /\ Reopening' /\ Closing'
  BY <1>2, IdleIsNothing DEF Locked, Reopening, Closing, ClosingSession
<1>4. session[s].read = PeriodSnapshot /\ Settled /\ AllReceived
  BY <1>1 DEF Inv, Closing, ClosingSession
<1>5. /\ history' # <<>>
      /\ history'[Len(history')] = [status |-> "CLOSED", snapshot |-> PeriodSnapshot]
  <2>1. history \in Seq(Rows)
    BY DEF Inv, TypeOK, Rows
  <2> QED BY <1>4, <2>1 DEF CloseCommit
<1>6. Report'
  BY <1>1, <1>4, <1>5, BooksDetermine DEF Report
<1> QED BY <1>2, <1>3, <1>6 DEF Inv

(* The two steps of reopening leave a month that is not closed.            *)
LEMMA ReopenInv ==
    ASSUME Inv, TypeOK', NEW s \in Sessions, ReopenSet(s) \/ ReopenRow(s)
    PROVE  Inv'
<1> SUFFICES ASSUME orderly' PROVE Inv'
  BY DEF Inv
<1>1. orderly /\ session[s].op = "reopen"
  BY DEF ReopenSet, ReopenRow, Goes, At
<1>2. period' # "CLOSED"
  BY <1>1 DEF Inv, Reopening, ReopenSet, ReopenRow, At
<1>3. PICK next : Goes(s, next) /\ next.op \in {"idle", "reopen"}
  BY <1>1, IdleIsNothing, SessionTypes DEF Inv, ReopenSet, ReopenRow
<1>4. Alone' /\ \A t \in Sessions : session'[t].op \in {"idle", "reopen"}
  BY <1>1, <1>3, GoneAlone, IdleIsNothing
<1> QED
  BY <1>2, <1>4 DEF Inv, Locked, Reopening, Closing, ClosingSession, Report

LEMMA StepInv == Inv /\ [Next]_vars => Inv'
<1> SUFFICES ASSUME Inv, [Next]_vars PROVE Inv'
  OBVIOUS
<1>0. TypeOK /\ TypeOK'
  BY StepTypes DEF Inv
<1>1. ASSUME NEW s \in Sessions, NEW w \in Changes, BeginChange(s, w)
      PROVE  Inv'
  BY <1>0, <1>1, BegunInv DEF BeginChange, EnsureOpen, Idle
<1>2. ASSUME NEW s \in Sessions, Write(s)
      PROVE  Inv'
  BY <1>0, <1>2, WriteInv
<1>3. ASSUME NEW s \in Sessions, BeginClose(s)
      PROVE  Inv'
  BY <1>0, <1>3, BegunInv DEF BeginClose, Idle
<1>4. ASSUME NEW s \in Sessions, CloseBills(s) \/ CloseCounts(s) \/ CloseSnapshot(s)
      PROVE  Inv'
  <2> SUFFICES ASSUME orderly' PROVE Inv'
    BY <1>0 DEF Inv
  <2>1. /\ orderly /\ session[s].op = "close" /\ ClosingSession(s)
        /\ UNCHANGED <<period, history, books>>
        /\ session \in [Sessions -> Request]
    BY <1>0, <1>4 DEF CloseBills, CloseCounts, CloseSnapshot, Goes, At, Inv, Closing,
                    TypeOK
  <2>2. AllReceived' = AllReceived /\ Settled' = Settled
        /\ PeriodSnapshot' = PeriodSnapshot
    BY <2>1, BooksDetermine
  <2>3. session[s].at # "commit" =>
          session[s] \in [op : {"close"}, at : {"bills", "counts", "snapshot"}]
    BY <1>0, <2>1, SessionTypes
  <2>4. CASE CloseBills(s)
    <3>1. PICK next : /\ Goes(s, next)
                      /\ \/ next = Idle
                         \/ next.op = "close" /\ next.at = "counts" /\ AllReceived
      BY <2>3, <2>4 DEF CloseBills, At, AllReceived
    <3>2. session'[s] = next
      BY <2>1, <3>1 DEF Goes
    <3>3. ClosingSession(s)'
      BY <2>2, <3>1, <3>2, IdleIsNothing DEF ClosingSession
    <3> QED BY <1>0, <2>1, <3>1, <3>3, AloneInv, IdleIsNothing
  <2>5. CASE CloseCounts(s)
    <3>1. PICK next : /\ Goes(s, next)
                      /\ \/ next = Idle
                         \/ next.op = "close" /\ next.at = "snapshot" /\ Settled
      BY <2>3, <2>5 DEF CloseCounts, At, Settled
    <3>2. session'[s] = next /\ AllReceived
      BY <2>1, <2>5, <3>1 DEF Goes, CloseCounts, At, ClosingSession
    <3>3. ClosingSession(s)'
      BY <2>2, <3>1, <3>2, IdleIsNothing DEF ClosingSession
    <3> QED BY <1>0, <2>1, <3>1, <3>3, AloneInv, IdleIsNothing
  <2>6. CASE CloseSnapshot(s)
    <3> DEFINE next == [op |-> "close", at |-> "commit", read |-> PeriodSnapshot]
    <3>1. Goes(s, next) /\ session'[s] = next /\ AllReceived /\ Settled
      BY <2>1, <2>6 DEF Goes, CloseSnapshot, At, ClosingSession
    <3>2. next.op = "close" /\ next.at = "commit" /\ next.read = PeriodSnapshot
      OBVIOUS
    <3>3. ClosingSession(s)'
      <4> HIDE DEF next
      <4> QED BY <2>2, <3>1, <3>2 DEF ClosingSession
    <3> HIDE DEF next
    <3> QED BY <1>0, <2>1, <3>1, <3>2, <3>3, AloneInv
  <2> QED BY <1>4, <2>4, <2>5, <2>6
<1>5. ASSUME NEW s \in Sessions, CloseCommit(s)
      PROVE  Inv'
  BY <1>0, <1>5, CommitInv
<1>6. ASSUME NEW s \in Sessions, BeginReopen(s)
      PROVE  Inv'
  BY <1>0, <1>6, BegunInv DEF BeginReopen, Idle
<1>7. ASSUME NEW s \in Sessions, ReopenSet(s) \/ ReopenRow(s)
      PROVE  Inv'
  BY <1>0, <1>7, ReopenInv
<1>8. CASE UNCHANGED <<period, history, books, session, orderly>>
  BY <1>0, <1>8, BooksDetermine
     DEF Inv, Alone, Locked, Reopening, Closing, ClosingSession, Report
<1>9. CASE Crash
  <2>1. \A t \in Sessions : session'[t] = Idle
    BY <1>9 DEF Crash
  <2> QED
    BY <1>0, <1>9, <2>1, BooksDetermine, IdleIsNothing
       DEF Crash, Inv, Alone, Locked, Reopening, Closing, ClosingSession, Report
<1>10. CASE \/ \E r \in Recipients : CreatePaymentRecipient(r) \/ RemovePaymentRecipient(r)
            \/ Ask \/ Pay \/ ReversePayment \/ UNCHANGED vars
  BY <1>8, <1>10 DEF CreatePaymentRecipient, RemovePaymentRecipient, Ask, Pay,
                     ReversePayment, vars
<1> QED
  BY <1>1, <1>2, <1>3, <1>4, <1>5, <1>6, <1>7, <1>9, <1>10 DEF Next

(* A month that was closed and reopened while nothing else was under way is *)
(* as the last row of its history says, with nothing left to pay or to bill *)
(* and every bill received, whatever changes met each other before.        *)
THEOREM ClosedIsAsReported == Spec => []ClosedAsReported
<1>1. Init => Inv
  BY InitInv
<1>2. Inv /\ [Next]_vars => Inv'
  BY StepInv
<1>3. Inv => ClosedAsReported
  BY DEF Inv, ClosedAsReported, Report, Settled, AllReceived
<1> QED BY <1>1, <1>2, <1>3, PTL DEF Spec

-----------------------------------------------------------------------------
(* The reports.                                                            *)

LEMMA TypesAgree ==
    ASSUME TypeOK
    PROVE  ReportsAgree
<1> DEFINE incomeOf == [c \in Customers |-> Total(Billed, {b \in Standing : CustomerOf[b] = c})]
           enteredOf == [c \in Customers |-> Total(entry, {e \in Entered : CustomerOf[e] = c})]
           directOf == [c \in Customers |-> Total(Due, {p \in Direct : CustomerOfPayable(p) = c})]
<1>1. Amounts \cup {0} \subseteq Nat
  BY PeriodsAssumption
<1>2. IsFiniteSet(Payables)
  BY PeriodsAssumption, FS_Union DEF Payables
<1>3. /\ Billed \in [Bills -> Nat] /\ Standing \in SUBSET Bills
      /\ entry \in [Entries -> Nat] /\ Entered \in SUBSET Entries
      /\ Due \in [Payables -> Nat] /\ Direct \in SUBSET Payables
  BY <1>1 DEF TypeOK, Billed, Standing, Entered, Due, Direct, Owed
<1>4. Total(incomeOf, Customers) = Total(Billed, Standing)
  <2> DEFINE k == [b \in Standing |-> CustomerOf[b]]
  <2>1. k \in [Standing -> Customers]
    BY <1>3, PeriodsAssumption
  <2>2. incomeOf = [c \in Customers |-> Total(Billed, {b \in Standing : k[b] = c})]
    <3>1. \A c \in Customers : {b \in Standing : CustomerOf[b] = c} = {b \in Standing : k[b] = c}
      OBVIOUS
    <3> HIDE DEF k
    <3> QED BY <3>1
  <2> HIDE DEF k, incomeOf
  <2>3. Total([c \in Customers |-> Total(Billed, {b \in Standing : k[b] = c})], Customers)
          = Total(Billed, Standing)
    BY <1>3, <2>1, TotalByKey, PeriodsAssumption
  <2> QED BY <2>2, <2>3
<1>5. Total(enteredOf, Customers) = Total(entry, Entered)
  <2> DEFINE k == [e \in Entered |-> CustomerOf[e]]
  <2>1. k \in [Entered -> Customers]
    BY <1>3, PeriodsAssumption
  <2>2. enteredOf = [c \in Customers |-> Total(entry, {e \in Entered : k[e] = c})]
    <3>1. \A c \in Customers : {e \in Entered : CustomerOf[e] = c} = {e \in Entered : k[e] = c}
      OBVIOUS
    <3> HIDE DEF k
    <3> QED BY <3>1
  <2> HIDE DEF k, enteredOf
  <2>3. Total([c \in Customers |-> Total(entry, {e \in Entered : k[e] = c})], Customers)
          = Total(entry, Entered)
    BY <1>3, <2>1, TotalByKey, PeriodsAssumption
  <2> QED BY <2>2, <2>3
(* A payable of no cost entry was entered for a bill, whose customer it has. *)
<1>6. Total(directOf, Customers) = Total(Due, Direct)
  <2> DEFINE k == [p \in Direct |-> CustomerOfPayable(p)]
  <2>1. k \in [Direct -> Customers]
    <3>1. ASSUME NEW p \in Direct PROVE CustomerOfPayable(p) \in Customers
      <4>1. p \notin Entries /\ payable[p].bill \in Bills
        BY PeriodsAssumption DEF TypeOK, Direct
      <4> QED BY <4>1, PeriodsAssumption DEF CustomerOfPayable
    <3> QED BY <3>1
  <2>2. directOf = [c \in Customers |-> Total(Due, {p \in Direct : k[p] = c})]
    <3>1. \A c \in Customers : {p \in Direct : CustomerOfPayable(p) = c} = {p \in Direct : k[p] = c}
      OBVIOUS
    <3> HIDE DEF k
    <3> QED BY <3>1
  <2> HIDE DEF k, directOf
  <2>3. Total([c \in Customers |-> Total(Due, {p \in Direct : k[p] = c})], Customers)
          = Total(Due, Direct)
    BY <1>2, <1>3, <2>1, TotalByKey
  <2> QED BY <2>2, <2>3
<1>7. /\ CustomerProfit.income = incomeOf
      /\ CustomerProfit.cost = [c \in Customers |-> enteredOf[c] + directOf[c]]
  BY DEF CustomerProfit
<1>8. enteredOf \in [Customers -> Nat] /\ directOf \in [Customers -> Nat]
  <2>1. ASSUME NEW c \in Customers
        PROVE  /\ Total(entry, {e \in Entered : CustomerOf[e] = c}) \in Nat
               /\ Total(Due, {p \in Direct : CustomerOfPayable(p) = c}) \in Nat
    <3>1. /\ {e \in Entered : CustomerOf[e] = c} \in SUBSET Entries
          /\ {p \in Direct : CustomerOfPayable(p) = c} \in SUBSET Payables
      BY <1>3
    <3> QED BY <1>2, <1>3, <3>1, TotalOfPart, PeriodsAssumption
  <2> QED BY <2>1
<1> HIDE DEF incomeOf, enteredOf, directOf
<1>9. Total([c \in Customers |-> enteredOf[c] + directOf[c]], Customers)
         = Total(entry, Entered) + Total(Due, Direct)
  BY <1>5, <1>6, <1>8, TotalOfSum, PeriodsAssumption
<1>10. /\ PeriodSnapshot.billAmount = Total(Billed, Standing)
       /\ PeriodSnapshot.costAmount = Total(entry, Entered) + Total(Due, Direct)
  BY DEF PeriodSnapshot
<1> QED
  BY <1>4, <1>7, <1>9, <1>10 DEF ReportsAgree

(* What customerProfit gives to the customers adds up to the totals that    *)
(* closePeriod writes into the history, for any bills, costs and payables,  *)
(* whatever requests interleave: no row counts twice and none is left out. *)
THEOREM ReportsAlwaysAgree == Spec => []ReportsAgree
<1>1. Spec => []TypeOK
  BY PeriodsTypes
<1>2. TypeOK => ReportsAgree
  BY TypesAgree
<1> QED BY <1>1, <1>2, PTL
=============================================================================
