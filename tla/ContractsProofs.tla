-------------------------- MODULE ContractsProofs --------------------------
(***************************************************************************)
(* Theorems about Contracts, for every set of contracts, years, files and  *)
(* requests.                                                               *)
(***************************************************************************)
EXTENDS Contracts, FiniteSetTheorems, SequenceTheorems, TLAPS

USE DEF Go

-----------------------------------------------------------------------------
(* The last code.                                                          *)

(* One of the subsets of S that a family T holds has no other below it.    *)
LEMMA SmallestSubset ==
    ASSUME NEW S, IsFiniteSet(S), NEW T, T \subseteq SUBSET S, T # {}
    PROVE  \E U \in T : \A V \in T : V \subseteq U => V = U
<1>1. IsWellFoundedOn(StrictSubsetOrdering(S), SUBSET S)
  BY FS_StrictSubsetOrderingWellFounded, FS_FiniteSubsetsOfFinite
<1>2. PICK U \in T : \A V \in T : <<V, U>> \notin StrictSubsetOrdering(S)
  BY <1>1, WFMin
<1>3. ASSUME NEW V \in T, V \subseteq U, V # U PROVE FALSE
  <2>1. V \in SUBSET S /\ U \in SUBSET S
    OBVIOUS
  <2>2. <<V, U>> \in StrictSubsetOrdering(S)
    BY <2>1, <1>3 DEF StrictSubsetOrdering
  <2> QED BY <1>2, <2>2
<1> QED BY <1>3

(* A finite set of natural numbers that is not empty has a largest one.    *)
LEMMA HasLargest ==
    ASSUME NEW S, IsFiniteSet(S), S # {}, \A n \in S : n \in Nat
    PROVE  \E n \in S : \A m \in S : m <= n
<1> DEFINE Bad == {U \in SUBSET S : U # {} /\ ~\E n \in U : \A m \in U : m <= n}
<1> SUFFICES ASSUME Bad # {} PROVE FALSE
  OBVIOUS
<1>1. Bad \subseteq SUBSET S
  OBVIOUS
<1>2. PICK U \in Bad : \A V \in Bad : V \subseteq U => V = U
  <2> HIDE DEF Bad
  <2> QED BY <1>1, SmallestSubset
<1>3. PICK x \in U : TRUE
  BY <1>2
<1>4. U \ {x} \notin Bad
  <2>1. U \ {x} \subseteq U /\ U \ {x} # U
    BY <1>3
  <2> HIDE DEF Bad
  <2> QED BY <1>2, <2>1
<1>5. U \in SUBSET S /\ U # {} /\ ~\E n \in U : \A m \in U : m <= n
  BY <1>2
<1>6. U \ {x} # {}
  <2> SUFFICES ASSUME U \ {x} = {} PROVE FALSE
    OBVIOUS
  <2>1. U = {x} /\ x <= x
    BY <1>3, <1>5
  <2> QED BY <2>1, <1>5
<1>7. PICK n \in U \ {x} : \A m \in U \ {x} : m <= n
  BY <1>4, <1>5, <1>6
<1>8. CASE x <= n
  BY <1>8, <1>7, <1>5
<1>9. CASE ~(x <= n)
  <2>1. x \in Nat /\ \A m \in U : m \in Nat
    BY <1>3, <1>5
  <2>2. \A m \in U : m <= x
    BY <1>9, <1>7, <2>1
  <2> QED BY <2>2, <1>3, <1>5
<1> QED BY <1>8, <1>9
-----------------------------------------------------------------------------
(* Types.                                                                  *)

Creation == [op : {"create"}, at : {"lock", "write"}, by : Users, id : Ids,
             customer : Customers, year : Years, code : Nat, files : SUBSET Files,
             list : Seq(Data)]

Change == [op : {"update"}, at : {"lock", "read", "write"}, by : Users, id : Ids,
           customer : Customers, fee : Fees \cup {NoFee}, files : SUBSET Files,
           item : 0 .. MaxItems, used : BOOLEAN]

Removal == [op : {"remove"}, at : {"write"}, by : Users, id : Ids]

ItemChange == [op : {"item"}, at : {"write"}, by : Users, id : Ids,
               item : 1 .. MaxItems, to : Data]

(* What BeginUpdate and Charge take from a contract that exists.            *)
LiveHaveCustomers == \A k \in Ids : Live(k) => contract[k].customer \in Customers

LEMMA PendingIs == Pending = {Idle} \cup Creation \cup Change \cup Removal \cup ItemChange
BY DEF Pending, Creation, Change, Removal, ItemChange

LEMMA JobTypes ==
    ASSUME TypeOK, NEW r \in Requests
    PROVE  /\ request[r] \in Pending
           /\ request[r].op = "create" => request[r] \in Creation
           /\ request[r].op = "update" => request[r] \in Change
           /\ request[r].op = "remove" => request[r] \in Removal
           /\ request[r].op = "item" => request[r] \in ItemChange
           /\ request[r] # Idle => request[r].id \in Ids
<1>1. request[r] \in Pending
  BY DEF TypeOK
<1> QED
  BY <1>1, PendingIs DEF Idle, Creation, Change, Removal, ItemChange

(* Sequences of charge items that the steps write.                         *)
LEMMA ItemTypes ==
    ASSUME TypeOK
    PROVE  /\ Len(items) \in Nat
           /\ DOMAIN items = 1 .. Len(items)
           /\ \A n \in DOMAIN items : items[n] \in Item
BY LenProperties DEF TypeOK

LEMMA Mapped ==
    ASSUME TypeOK, NEW new \in [DOMAIN items -> Item]
    PROVE  new \in Seq(Item) /\ Len(new) = Len(items) /\ DOMAIN new = DOMAIN items
<1>1. Len(items) \in Nat /\ DOMAIN items = 1 .. Len(items)
  BY ItemTypes
<1>2. new \in Seq(Item)
  BY <1>1, SeqDef
<1>3. DOMAIN new = 1 .. Len(new) /\ Len(new) \in Nat
  BY <1>2, LenProperties
<1>4. DOMAIN new = 1 .. Len(items)
  BY <1>1
<1>5. Len(new) = Len(items)
  BY <1>1, <1>3, <1>4
<1> QED BY <1>2, <1>5, <1>1, <1>4

LEMMA Appended ==
    ASSUME TypeOK, NEW x \in Item
    PROVE  LET new == Append(items, x)
           IN /\ new \in Seq(Item)
              /\ Len(new) = Len(items) + 1
              /\ DOMAIN new = DOMAIN items \cup {Len(items) + 1}
              /\ Len(items) + 1 \notin DOMAIN items
              /\ \A n \in DOMAIN items : new[n] = items[n]
              /\ new[Len(items) + 1] = x
<1> DEFINE new == Append(items, x)
<1>1. items \in Seq(Item)
  BY DEF TypeOK
<1>2. Len(items) \in Nat /\ DOMAIN items = 1 .. Len(items)
  BY ItemTypes
<1>3. /\ new \in Seq(Item)
      /\ Len(new) = Len(items) + 1
      /\ \A n \in 1 .. Len(items) : new[n] = items[n]
      /\ new[Len(items) + 1] = x
  BY <1>1, AppendProperties
<1>4. DOMAIN new = 1 .. Len(new)
  BY <1>3, LenProperties
<1> HIDE DEF new
<1>5. 1 .. (Len(items) + 1) = 1 .. Len(items) \cup {Len(items) + 1}
  BY <1>2
<1> QED BY <1>2, <1>3, <1>4, <1>5 DEF new

(* What [items EXCEPT ...] leaves, for one item that there is.             *)
LEMMA Changed ==
    ASSUME TypeOK, NEW n \in DOMAIN items, NEW x \in Item
    PROVE  [items EXCEPT ![n] = x] \in [DOMAIN items -> Item]
BY ItemTypes

LEMMA RowType ==
    ASSUME NEW k \in Ids, NEW initial \in BOOLEAN, NEW data \in Data
    PROVE  Row(k, initial, data) \in Item
BY DEF Row, Item, Data

LEMMA BaseItemType == \A k \in Ids, fee \in Fees : BaseItem(k, fee) \in Item
BY RowType DEF BaseItem, BaseFee, Data

LEMMA EditedType ==
    ASSUME NEW item \in Item, NEW to \in Data
    PROVE  /\ Edited(item, to) \in Item
           /\ Edited(item, to).contract = item.contract
           /\ Edited(item, to).used = item.used
           /\ Carries(Edited(item, to)) <=> Carries(to)
BY DEF Edited, Item, Data, Carries

(* What contractChargeItems makes of a request.                            *)
LEMMA RequestedType ==
    ASSUME NEW fee \in Fees \cup {NoFee}, NEW own \in OwnLists
    PROVE  Requested(fee, own) \in Seq(Data)
<1>1. own \in Seq(Data) /\ <<>> \in Seq(Data)
  BY ContractsAssumption, EmptySeq
<1>2. fee # NoFee => <<BaseFee(fee)>> \in Seq(Data)
  BY DEF BaseFee, Data
<1> QED BY <1>1, <1>2 DEF Requested

(* The rows of the items that a creation brings.                           *)
LEMMA RowsType ==
    ASSUME TypeOK, NEW list \in Seq(Data), NEW rows \in [DOMAIN list -> Item]
    PROVE  LET new == items \o rows
           IN /\ new \in Seq(Item)
              /\ Len(new) = Len(items) + Len(list)
              /\ DOMAIN new \subseteq Int
              /\ \A n \in DOMAIN items : n \in DOMAIN new /\ new[n] = items[n]
              /\ \A n \in DOMAIN new : n \notin DOMAIN items =>
                   /\ n - Len(items) \in DOMAIN list
                   /\ new[n] = rows[n - Len(items)]
<1> DEFINE new == items \o rows
<1>1. /\ items \in Seq(Item)
      /\ Len(items) \in Nat
      /\ DOMAIN items = 1 .. Len(items)
  BY ItemTypes DEF TypeOK
<1>2. Len(list) \in Nat /\ DOMAIN list = 1 .. Len(list)
  BY LenProperties
<1>3. rows \in [1 .. Len(list) -> Item]
  BY <1>2
<1>4. rows \in Seq(Item)
  BY <1>2, <1>3, SeqDef
<1>5. Len(rows) = Len(list)
  BY <1>2, <1>3, <1>4, LenProperties
<1>6. /\ new \in Seq(Item)
      /\ Len(new) = Len(items) + Len(list)
      /\ \A n \in 1 .. (Len(items) + Len(list)) :
           new[n] = IF n <= Len(items) THEN items[n] ELSE rows[n - Len(items)]
  <2>1. /\ items \o rows \in Seq(Item)
        /\ Len(items \o rows) = Len(items) + Len(rows)
        /\ \A n \in 1 .. Len(items) + Len(rows) :
             (items \o rows)[n] = IF n <= Len(items) THEN items[n]
                                  ELSE rows[n - Len(items)]
    BY <1>1, <1>4, ConcatProperties
  <2> QED BY <2>1, <1>5
<1> HIDE DEF new
<1>7. DOMAIN new = 1 .. (Len(items) + Len(list)) /\ DOMAIN new \subseteq Int
  BY <1>1, <1>2, <1>6, LenProperties
<1>8. \A n \in DOMAIN items : n \in DOMAIN new /\ new[n] = items[n]
  BY <1>1, <1>2, <1>6, <1>7
<1>9. ASSUME NEW n \in DOMAIN new, n \notin DOMAIN items
      PROVE  n - Len(items) \in DOMAIN list /\ new[n] = rows[n - Len(items)]
  <2>1. n \in 1 .. (Len(items) + Len(list))
    BY <1>9, <1>7
  <2>2. n \notin 1 .. Len(items)
    BY <1>9, <1>1
  <2>3. n > Len(items) /\ n - Len(items) \in 1 .. Len(list)
    BY <2>1, <2>2, <1>1, <1>2
  <2>4. new[n] = IF n <= Len(items) THEN items[n] ELSE rows[n - Len(items)]
    BY <2>1, <1>6
  <2>5. ~(n <= Len(items))
    BY <2>1, <2>3, <1>1, <1>2
  <2> QED BY <2>3, <2>4, <2>5, <1>2
<1> QED BY <1>6, <1>7, <1>8, <1>9 DEF new

(* An item that an update may find: zero for none, or an active one of a    *)
(* fixed amount, which carries the base fee if one does.                   *)
LEMMA BaseOfType ==
    ASSUME TypeOK, NEW k \in Ids, NEW n \in BaseOf(k)
    PROVE  /\ n \in {0} \cup ItemsOf(k)
           /\ n # 0 => n \in ItemsOf(k) /\ items[n].active /\ items[n].fixed
           /\ n \in 0 .. MaxItems
           /\ (\E m \in ItemsOf(k) : Carries(items[m])) => n # 0 /\ Carries(items[n])
<1> DEFINE fixed == {m \in ItemsOf(k) : items[m].fixed /\ items[m].active}
           base == {m \in fixed : items[m].base}
<1>1. 0 \notin ItemsOf(k) /\ ItemsOf(k) \subseteq 1 .. MaxItems
  BY ItemTypes, ContractsAssumption DEF ItemsOf, TypeOK
<1>2. \A S : Earliest(S) \subseteq S
  BY DEF Earliest
<1>3. BaseOf(k) = IF fixed = {} THEN {0}
                  ELSE IF base = {} THEN Earliest(fixed) ELSE Earliest(base)
  BY DEF BaseOf
<1>4. n = 0 \/ n \in fixed
  BY <1>2, <1>3
<1>5. base # {} => n \in base
  BY <1>2, <1>3
<1>6. (\E m \in ItemsOf(k) : Carries(items[m])) => base # {}
  BY DEF Carries
<1> QED BY <1>1, <1>4, <1>5, <1>6, ContractsAssumption DEF Carries

LEMMA CreatedItems ==
    ASSUME TypeOK, NEW r \in Requests, Create(r), request[r] \in Creation
    PROVE  LET list == request[r].list
           IN /\ items' \in Seq(Item)
              /\ Len(items') <= MaxItems
              /\ DOMAIN items' \subseteq Int
              /\ \A n \in DOMAIN items : n \in DOMAIN items' /\ items'[n] = items[n]
              /\ \A n \in DOMAIN items' : n \notin DOMAIN items =>
                   /\ n - Len(items) \in DOMAIN list
                   /\ items'[n] = Row(request[r].id, TRUE, list[n - Len(items)])
<1> DEFINE list == request[r].list
           rows == [i \in DOMAIN list |-> Row(request[r].id, TRUE, list[i])]
<1>1. list \in Seq(Data) /\ request[r].id \in Ids
  BY DEF Creation
<1>2. \A i \in DOMAIN list : rows[i] = Row(request[r].id, TRUE, list[i])
  OBVIOUS
<1>3. \A i \in DOMAIN list : list[i] \in Data
  <2> HIDE DEF list
  <2> QED BY <1>1, ElementOfSeq
<1>4. rows \in [DOMAIN list -> Item]
  BY <1>1, <1>3, RowType
<1>5. items' = items \o rows /\ Len(items) + Len(list) <= MaxItems
  BY DEF Create
<1> HIDE DEF list, rows
<1>6. /\ items' \in Seq(Item)
      /\ Len(items') = Len(items) + Len(list)
      /\ DOMAIN items' \subseteq Int
      /\ \A n \in DOMAIN items : n \in DOMAIN items' /\ items'[n] = items[n]
      /\ \A n \in DOMAIN items' : n \notin DOMAIN items =>
           /\ n - Len(items) \in DOMAIN list
           /\ items'[n] = rows[n - Len(items)]
  BY <1>1, <1>4, <1>5, RowsType
<1> QED BY <1>2, <1>5, <1>6 DEF list

LEMMA CodesFinite ==
    ASSUME TypeOK, NEW y
    PROVE  IsFiniteSet(Codes(y)) /\ \A n \in Codes(y) : n \in Nat
<1> DEFINE K == {k \in Ids : Live(k) /\ contract[k].year = y}
           f == [k \in K |-> contract[k].code]
<1>1. IsFiniteSet(K)
  BY FS_Subset, ContractsAssumption
<1>2. f \in Surjection(K, Codes(y))
  BY DEF Surjection, Codes
<1>3. IsFiniteSet(Codes(y))
  <2> HIDE DEF K, f
  <2> QED BY <1>1, <1>2, FS_Surjection
<1>4. \A n \in Codes(y) : n \in Nat
  BY DEF Codes, TypeOK, Contract
<1> QED BY <1>3, <1>4

(* The next code is no contract's yet.                                     *)
LEMMA NextCodeFree ==
    ASSUME TypeOK, NEW y
    PROVE  NextCode(y) \in Nat /\ NextCode(y) \notin Codes(y)
<1>1. CASE Codes(y) = {}
  BY <1>1 DEF NextCode
<1>2. CASE Codes(y) # {}
  <2>1. /\ IsFiniteSet(Codes(y))
        /\ \A n \in Codes(y) : n \in Nat
    BY CodesFinite
  <2>2. \E n \in Codes(y) : \A m \in Codes(y) : m <= n
    BY <2>1, <1>2, HasLargest
  <2> DEFINE last == CHOOSE n \in Codes(y) : \A m \in Codes(y) : m <= n
  <2>3. last \in Codes(y) /\ \A m \in Codes(y) : m <= last
    BY <2>2
  <2>4. NextCode(y) = 1 + last
    BY <1>2 DEF NextCode
  <2> HIDE DEF last
  <2>5. last \in Nat
    BY <2>1, <2>3
  <2>6. 1 + last \notin Codes(y)
    <3> SUFFICES ASSUME 1 + last \in Codes(y) PROVE FALSE
      OBVIOUS
    <3>1. 1 + last <= last
      BY <2>3
    <3> QED BY <3>1, <2>5
  <2> QED BY <2>4, <2>5, <2>6
<1> QED BY <1>1, <1>2

LEMMA SyncedType ==
    ASSUME TypeOK, NEW k \in Ids, NEW n, NEW used \in BOOLEAN,
           NEW fee \in Fees \cup {NoFee}
    PROVE  Synced(k, n, used, fee) \in Seq(Item)
<1>1. CASE fee = NoFee
  BY <1>1 DEF Synced, TypeOK
<1>2. CASE fee # NoFee /\ n = 0
  <2>1. BaseItem(k, fee) \in Item
    BY <1>2, BaseItemType
  <2>2. Synced(k, n, used, fee) = Append(items, BaseItem(k, fee))
    BY <1>2 DEF Synced
  <2> QED BY <2>1, <2>2, Appended
<1>3. CASE fee # NoFee /\ n # 0 /\ used
  <2>1. BaseItem(k, fee) \in Item
    BY <1>3, BaseItemType
  <2>2. [items EXCEPT ![n].active = FALSE] \in [DOMAIN items -> Item]
    BY ItemTypes DEF Item
  <2>3. [items EXCEPT ![n].active = FALSE] \in Seq(Item)
    BY <2>2, Mapped
  <2>4. Synced(k, n, used, fee) =
          Append([items EXCEPT ![n].active = FALSE], BaseItem(k, fee))
    BY <1>3 DEF Synced
  <2> QED BY <2>1, <2>3, <2>4, AppendProperties
<1>4. CASE fee # NoFee /\ n # 0 /\ ~used
  <2>1. Synced(k, n, used, fee) =
          [items EXCEPT ![n].amount = fee, ![n].base = TRUE]
    BY <1>4 DEF Synced
  <2>2. [items EXCEPT ![n].amount = fee, ![n].base = TRUE] \in [DOMAIN items -> Item]
    BY <1>4, ItemTypes DEF Item
  <2> QED BY <2>1, <2>2, Mapped
<1> QED BY <1>1, <1>2, <1>3, <1>4

(* Steps that only read, and the ends of transactions.                     *)
LEMMA ReadTypes ==
    ASSUME TypeOK, NEW r \in Requests, NEW p \in Pending,
           request' = [request EXCEPT ![r] = p], named' = named, met' = met,
           codeLock' \in [Years -> Requests \cup {None}],
           rowLock' \in [Ids -> Requests \cup {None}],
           UNCHANGED <<contract, items, file, charges, billed>>
    PROVE  TypeOK'
BY DEF TypeOK

LEMMA FreedType ==
    ASSUME TypeOK, NEW r
    PROVE  /\ Freed(codeLock, r) \in [Years -> Requests \cup {None}]
           /\ Freed(rowLock, r) \in [Ids -> Requests \cup {None}]
BY DEF Freed, TypeOK

LEMMA CommitTypes ==
    ASSUME TypeOK, NEW r \in Requests, Commit(r),
           contract' \in [Ids -> Contract],
           items' \in Seq(Item), Len(items') <= MaxItems,
           file' \in [Files -> [by : Users \cup {None}, contract : Ids \cup {None}]],
           charges' \in [Ids -> SUBSET Customers],
           billed' \in SUBSET Ids, named' \in SUBSET Ids, met' \in SUBSET Ids
    PROVE  TypeOK'
<1>1. Idle \in Pending
  BY DEF Pending
<1> QED BY <1>1, FreedType DEF Commit, TypeOK

LEMMA AttachedType ==
    ASSUME TypeOK, NEW k \in Ids, NEW fs
    PROVE  Attached(k, fs) \in
             [Files -> [by : Users \cup {None}, contract : Ids \cup {None}]]
BY DEF Attached, TypeOK

LEMMA ArriveTypes ==
    ASSUME TypeOK, NEW r \in Requests, NEW p \in Pending, Arrive(r, p)
    PROVE  TypeOK'
BY ReadTypes DEF Arrive, TypeOK

LEMMA MeetsType == ASSUME TypeOK, NEW r, NEW k \in Ids, Meets(r, k) PROVE met' \in SUBSET Ids
BY DEF Meets, TypeOK

LEMMA BeginTypes ==
    ASSUME TypeOK, LiveHaveCustomers, NEW r \in Requests, NEW u \in Users, Begin(r, u)
    PROVE  TypeOK' /\ UNCHANGED contract
<1> USE ContractsAssumption
<1>1. ASSUME NEW k \in Ids, NEW c \in Customers, NEW y \in Years,
             NEW fee \in Fees \cup {NoFee}, NEW fs \in RequestedFiles,
             NEW own \in OwnLists, BeginCreate(r, u, k, c, y, fee, fs, own)
      PROVE  TypeOK' /\ UNCHANGED contract
  <2> DEFINE list == Requested(fee, own)
             p == [op |-> "create", at |-> "lock", by |-> u, id |-> k, customer |-> c,
                   year |-> y, code |-> 0, files |-> fs, list |-> list]
  <2>1. p \in Pending
    <3>1. list \in Seq(Data)
      BY RequestedType
    <3> HIDE DEF list
    <3> QED BY <3>1, PendingIs DEF Creation
  <2> QED BY <1>1, <2>1, ArriveTypes DEF BeginCreate, Arrive
<1>2. ASSUME NEW k \in Ids, NEW c \in Customers \cup {None},
             NEW fee \in Fees \cup {NoFee}, NEW fs \in RequestedFiles,
             BeginUpdate(r, u, k, c, fee, fs)
      PROVE  TypeOK' /\ UNCHANGED contract
  <2> DEFINE who == IF c = None THEN contract[k].customer ELSE c
             p == [op |-> "update", at |-> "lock", by |-> u, id |-> k, customer |-> who,
                   fee |-> fee, files |-> fs, item |-> 0, used |-> FALSE]
  <2>1. who \in Customers
    BY <1>2 DEF BeginUpdate, LiveHaveCustomers
  <2>2. p \in Pending
    <3> HIDE DEF who
    <3> QED BY <2>1, PendingIs DEF Change
  <2> QED BY <1>2, <2>2, ArriveTypes DEF BeginUpdate, Arrive
<1>3. ASSUME NEW k \in Ids, BeginRemove(r, u, k) PROVE TypeOK' /\ UNCHANGED contract
  <2> DEFINE p == [op |-> "remove", at |-> "write", by |-> u, id |-> k]
  <2>1. p \in Pending
    BY PendingIs DEF Removal
  <2> QED BY <1>3, <2>1, ArriveTypes DEF BeginRemove, Arrive
<1>4. ASSUME NEW n \in DOMAIN items, NEW data \in Given,
             BeginUpdateItem(r, u, n, data)
      PROVE  TypeOK' /\ UNCHANGED contract
  <2>1. items[n].contract \in Ids /\ n \in 1 .. MaxItems
    BY ItemTypes DEF Item, TypeOK
  <2>2. PICK to \in Asked(n, data) :
          Arrive(r, [op |-> "item", at |-> "write", by |-> u, id |-> items[n].contract,
                     item |-> n, to |-> to])
    BY <1>4 DEF BeginUpdateItem
  <2>3. to \in Data
    BY ItemTypes DEF Asked, Item, Data
  <2> DEFINE p == [op |-> "item", at |-> "write", by |-> u, id |-> items[n].contract,
                   item |-> n, to |-> to]
  <2>4. p \in Pending
    BY <2>1, <2>3, PendingIs DEF ItemChange
  <2> QED BY <2>2, <2>4, ArriveTypes DEF Arrive
<1> QED BY <1>1, <1>2, <1>3, <1>4 DEF Begin

LEMMA StepTypes ==
    ASSUME TypeOK, LiveHaveCustomers, NEW r \in Requests, Step(r)
    PROVE  TypeOK' /\ LiveHaveCustomers'
<1> DEFINE job == request[r]
<1>1. CASE TakeCode(r)
  <2>1. job \in Creation /\ NextCode(job.year) \in Nat
    BY <1>1, JobTypes, NextCodeFree DEF TakeCode
  <2> DEFINE p == [job EXCEPT !.at = "write", !.code = NextCode(job.year)]
  <2>2. p \in Pending
    <3>1. p \in Creation
      BY <2>1 DEF Creation
    <3> QED BY <3>1, PendingIs
  <2>3. codeLock' \in [Years -> Requests \cup {None}]
    BY <1>1 DEF TakeCode, TypeOK
  <2>4. TypeOK'
    BY <1>1, <2>2, <2>3, ReadTypes DEF TakeCode, TypeOK
  <2> QED BY <2>4, <1>1 DEF TakeCode, LiveHaveCustomers, Live
<1>2. CASE Create(r)
  <2>1. job \in Creation
    BY <1>2, JobTypes DEF Create
  <2>2. /\ job.id \in Ids
        /\ job.customer \in Customers
        /\ job.year \in Years
        /\ job.code \in Nat
        /\ job.list \in Seq(Data)
    BY <2>1 DEF Creation
  <2>3. contract' \in [Ids -> Contract]
    BY <1>2, <2>2 DEF Create, TypeOK, Contract
  <2>4. items' \in Seq(Item) /\ Len(items') <= MaxItems
    BY <1>2, <2>1, CreatedItems
  <2>5. file' \in [Files -> [by : Users \cup {None}, contract : Ids \cup {None}]]
    BY <1>2, <2>2, AttachedType DEF Create
  <2>6. TypeOK'
    BY <1>2, <2>2, <2>3, <2>4, <2>5, CommitTypes DEF Create, TypeOK
  <2> QED BY <2>6, <1>2, <2>2 DEF Create, LiveHaveCustomers, Live, TypeOK
<1>3. CASE LockRow(r)
  <2>1. job \in Change
    BY <1>3, JobTypes DEF LockRow
  <2> DEFINE p == [job EXCEPT !.at = IF job.fee = NoFee THEN "write" ELSE "read"]
  <2>2. p \in Pending
    <3>1. p \in Change
      BY <2>1 DEF Change
    <3> QED BY <3>1, PendingIs
  <2>3. rowLock' \in [Ids -> Requests \cup {None}]
    BY <1>3 DEF LockRow, TypeOK
  <2>4. TypeOK'
    BY <1>3, <2>2, <2>3, ReadTypes DEF LockRow, TypeOK
  <2> QED BY <2>4, <1>3 DEF LockRow, LiveHaveCustomers, Live
<1>4. CASE ReadItem(r)
  <2>1. job \in Change
    BY <1>4, JobTypes DEF ReadItem
  <2>2. job.id \in Ids
    BY <2>1 DEF Change
  <2>3. PICK n \in BaseOf(job.id) :
          Go(r, [job EXCEPT !.at = "write", !.item = n, !.used = n # 0 /\ items[n].used])
    BY <1>4 DEF ReadItem
  <2> DEFINE used == n # 0 /\ items[n].used
             p == [job EXCEPT !.at = "write", !.item = n, !.used = used]
  <2>4. n \in 0 .. MaxItems
    BY <2>2, BaseOfType
  <2>5. used \in BOOLEAN
    BY <2>2, BaseOfType, ItemTypes DEF ItemsOf, Item
  <2>6. p \in Pending
    <3> HIDE DEF used
    <3>1. p \in Change
      BY <2>1, <2>4, <2>5 DEF Change
    <3> QED BY <3>1, PendingIs
  <2>7. TypeOK'
    BY <1>4, <2>3, <2>6, ReadTypes DEF ReadItem, TypeOK
  <2> QED BY <2>7, <2>3 DEF LiveHaveCustomers, Live
<1>5. CASE Update(r)
  <2>1. job \in Change
    BY <1>5, JobTypes DEF Update
  <2>2. /\ job.id \in Ids
        /\ job.customer \in Customers
        /\ job.fee \in Fees \cup {NoFee}
        /\ job.used \in BOOLEAN
    BY <2>1 DEF Change
  <2>3. contract' \in [Ids -> Contract]
    BY <1>5, <2>2 DEF Update, TypeOK, Contract
  <2>4. items' \in Seq(Item)
    BY <1>5, <2>2, SyncedType DEF Update
  <2>5. file' \in [Files -> [by : Users \cup {None}, contract : Ids \cup {None}]]
    BY <1>5, <2>2, AttachedType DEF Update
  <2>6. TypeOK'
    BY <1>5, <2>2, <2>3, <2>4, <2>5, CommitTypes, MeetsType DEF Update, TypeOK
  <2> QED BY <2>6, <1>5, <2>2 DEF Update, LiveHaveCustomers, Live, TypeOK, Contract
<1>6. CASE Remove(r)
  <2>1. request[r].id \in Ids
    BY <1>6, JobTypes DEF Remove, Idle
  <2>2. contract' \in [Ids -> Contract]
    BY <1>6, <2>1 DEF Remove, TypeOK, Contract, Absent
  <2>3. items' \in [DOMAIN items -> Item]
    BY <1>6, ItemTypes DEF Remove, Item, Gone
  <2>4. items' \in Seq(Item) /\ Len(items') = Len(items)
    BY <2>3, Mapped
  <2>5. file' \in [Files -> [by : Users \cup {None}, contract : Ids \cup {None}]]
    BY <1>6 DEF Remove, TypeOK
  <2>6. /\ charges' \in [Ids -> SUBSET Customers]
        /\ billed' \in SUBSET Ids
        /\ named' \in SUBSET Ids
        /\ met' \in SUBSET Ids
    BY <1>6 DEF Remove, Forget, TypeOK
  <2>7. TypeOK'
    BY <1>6, <2>2, <2>4, <2>5, <2>6, CommitTypes DEF Remove, TypeOK
  <2> QED BY <2>7, <1>6, <2>1 DEF Remove, LiveHaveCustomers, Live, Absent, TypeOK
<1>7. CASE UpdateItem(r)
  <2>1. job \in ItemChange
    BY <1>7, JobTypes DEF UpdateItem
  <2>2. job.to \in Data /\ job.id \in Ids
    BY <2>1 DEF ItemChange
  <2>3. items' \in [DOMAIN items -> Item]
    BY <1>7, <2>2, ItemTypes, EditedType DEF UpdateItem
  <2>4. items' \in Seq(Item) /\ Len(items') = Len(items)
    BY <2>3, Mapped
  <2>5. named' \in SUBSET Ids /\ met' \in SUBSET Ids
    BY <1>7, <2>2, MeetsType DEF UpdateItem, Names, TypeOK
  <2>6. TypeOK'
    BY <1>7, <2>4, <2>5, CommitTypes DEF UpdateItem, TypeOK
  <2> QED BY <2>6, <1>7 DEF UpdateItem, LiveHaveCustomers, Live
<1>8. CASE Abandon(r)
  <2>1. TypeOK'
    BY <1>8, CommitTypes DEF Abandon, TypeOK
  <2> QED BY <2>1, <1>8 DEF Abandon, LiveHaveCustomers, Live
<1> QED BY <1>1, <1>2, <1>3, <1>4, <1>5, <1>6, <1>7, <1>8 DEF Step

(* What the other requests do, which are one transaction.                  *)
LEMMA OnceTypes ==
    ASSUME TypeOK, LiveHaveCustomers, NEW u,
           \/ u \in Users /\ \E f \in Files, k \in Ids \cup {None} : Upload(u, f, k)
           \/ \E k \in Ids, data \in Given : AddItem(k, data)
           \/ \E n \in DOMAIN items : DeactivateItem(n)
           \/ \E k \in Ids : Bill(k) \/ Charge(k)
    PROVE  TypeOK' /\ LiveHaveCustomers'
<1>1. ASSUME NEW f \in Files, NEW k \in Ids \cup {None}, u \in Users, Upload(u, f, k)
      PROVE  TypeOK' /\ UNCHANGED contract
  BY <1>1 DEF Upload, TypeOK
<1>2. ASSUME NEW k \in Ids, NEW data \in Given, AddItem(k, data)
      PROVE  TypeOK' /\ UNCHANGED contract
  <2>1. Row(k, FALSE, data) \in Item
    BY RowType, ContractsAssumption
  <2>2. PICK x \in Item : x = Row(k, FALSE, data)
    BY <2>1
  <2>3. items' = Append(items, x) /\ Len(items) < MaxItems
    BY <1>2, <2>2 DEF AddItem
  <2>4. items' \in Seq(Item) /\ Len(items') <= MaxItems
    BY <2>3, Appended, ItemTypes, ContractsAssumption
  <2> QED BY <1>2, <2>4, MeetsType DEF AddItem, Names, Elsewhere, TypeOK
<1>3. ASSUME NEW n \in DOMAIN items, DeactivateItem(n) PROVE TypeOK' /\ UNCHANGED contract
  <2>1. items' \in [DOMAIN items -> Item]
    BY <1>3, ItemTypes DEF DeactivateItem, Item
  <2>2. items' \in Seq(Item) /\ Len(items') <= MaxItems
    BY <2>1, Mapped DEF TypeOK
  <2>3. met' \in SUBSET Ids
    BY <1>3, ItemTypes, MeetsType DEF DeactivateItem, Elsewhere, Item
  <2> QED BY <1>3, <2>2, <2>3 DEF DeactivateItem, Elsewhere, TypeOK
<1>4. ASSUME NEW k \in Ids, Bill(k) PROVE TypeOK' /\ UNCHANGED contract
  <2>1. items' \in [DOMAIN items -> Item]
    BY <1>4, ItemTypes DEF Bill, Item
  <2>2. items' \in Seq(Item) /\ Len(items') <= MaxItems
    BY <2>1, Mapped DEF TypeOK
  <2> QED BY <1>4, <2>2, MeetsType DEF Bill, Elsewhere, TypeOK
<1>5. ASSUME NEW k \in Ids, Charge(k) PROVE TypeOK' /\ UNCHANGED contract
  <2>1. contract[k].customer \in Customers
    BY <1>5 DEF Charge, LiveHaveCustomers
  <2>2. charges' \in [Ids -> SUBSET Customers]
    BY <1>5, <2>1 DEF Charge, TypeOK
  <2> QED BY <1>5, <2>2, MeetsType DEF Charge, Elsewhere, TypeOK
<1>6. TypeOK' /\ UNCHANGED contract
  BY <1>1, <1>2, <1>3, <1>4, <1>5
<1> QED BY <1>6 DEF LiveHaveCustomers, Live

LEMMA TypeStep ==
    TypeOK /\ LiveHaveCustomers /\ [Next]_vars => TypeOK' /\ LiveHaveCustomers'
<1> SUFFICES ASSUME TypeOK, LiveHaveCustomers, [Next]_vars
             PROVE  TypeOK' /\ LiveHaveCustomers'
  OBVIOUS
<1>1. ASSUME NEW r \in Requests, Step(r) PROVE TypeOK' /\ LiveHaveCustomers'
  BY <1>1, StepTypes
<1>2. ASSUME NEW r \in Requests, NEW u \in Users, Begin(r, u)
      PROVE  TypeOK' /\ LiveHaveCustomers'
  BY <1>2, BeginTypes DEF LiveHaveCustomers, Live
<1>3. ASSUME NEW u \in Users, NEW f \in Files, NEW k \in Ids \cup {None}, Upload(u, f, k)
      PROVE  TypeOK' /\ LiveHaveCustomers'
  BY <1>3, OnceTypes
<1>4. ASSUME \/ \E k \in Ids, data \in Given : AddItem(k, data)
             \/ \E n \in DOMAIN items : DeactivateItem(n)
             \/ \E k \in Ids : Bill(k) \/ Charge(k)
      PROVE  TypeOK' /\ LiveHaveCustomers'
  BY <1>4, OnceTypes
<1>5. CASE UNCHANGED vars
  BY <1>5 DEF vars, TypeOK, LiveHaveCustomers, Live
<1> QED BY <1>1, <1>2, <1>3, <1>4, <1>5 DEF Next

LEMMA TypeInit == Init => TypeOK /\ LiveHaveCustomers
<1> SUFFICES ASSUME Init PROVE TypeOK /\ LiveHaveCustomers
  OBVIOUS
<1>1. items \in Seq(Item) /\ Len(items) <= MaxItems
  BY EmptySeq, ContractsAssumption DEF Init
<1>2. contract \in [Ids -> Contract] /\ \A k \in Ids : contract[k].status = "ABSENT"
  BY DEF Init, Absent, Contract
<1>3. Idle \in Pending
  BY DEF Pending
<1> QED
  BY <1>1, <1>2, <1>3 DEF Init, TypeOK, LiveHaveCustomers, Live

(* Contracts, items, files, locks and what requests hold keep their types.  *)
THEOREM ContractsTypes == Spec => []TypeOK
<1>1. Spec => [](TypeOK /\ LiveHaveCustomers)
  BY TypeInit, TypeStep, PTL DEF Spec
<1> QED BY <1>1, PTL
-----------------------------------------------------------------------------
(* What the locks promise.                                                 *)

(* A creation holds the lock of its year from the moment it has a code, an  *)
(* update that of its contract's row, which nobody can then remove.         *)
HoldsLocks(r) ==
    /\ request[r].op = "create" /\ request[r].at = "write" =>
         codeLock[request[r].year] = r
    /\ request[r].op = "update" /\ request[r].at # "lock" =>
         rowLock[request[r].id] = r /\ Live(request[r].id)

LocksHeld == \A r \in Requests : HoldsLocks(r)

(* The id of a contract in creation is no other's.                         *)
IdsNew ==
    \A r \in Requests : request[r].op = "create" =>
      /\ contract[request[r].id].status = "ABSENT"
      /\ \A q \in Requests :
           request[q].op = "create" /\ request[q].id = request[r].id => q = r

(* An active item, and a file that has a contract, has one that exists.     *)
ActiveItemsLive == \A n \in DOMAIN items : items[n].active => Live(items[n].contract)

Base(n) == Carries(items[n])

OneBase ==
    \A n, m \in DOMAIN items :
      (/\ Base(n)
       /\ Base(m)
       /\ items[n].contract = items[m].contract
       /\ items[n].contract \notin named) => n = m

(* Whatever happens between an update's read and its write, no other item   *)
(* comes to carry the base fee.                                            *)
ItemReadBy(r) ==
    (request[r].op = "update" /\ request[r].at = "write" /\ request[r].fee # NoFee) =>
      /\ request[r].item # 0 => request[r].item \in ItemsOf(request[r].id)
      /\ request[r].id \notin named =>
           \A n \in ItemsOf(request[r].id) : Base(n) => n = request[r].item

ItemRead == \A r \in Requests : ItemReadBy(r)

UsedIsBilled == \A n \in DOMAIN items : items[n].used => items[n].contract \in billed

(* What a request other than a creation is about.                          *)
About(r) ==
    request[r].op \in {"update", "remove", "item"} =>
      /\ contract[request[r].id].status # "ABSENT"
      /\ request[r].op = "item" => request[r].item \in ItemsOf(request[r].id)

Abouts == \A r \in Requests : About(r)

(* What a request has read is still so if nobody has met it there.          *)
ReadStill(r) ==
    (Live(request[r].id) /\ request[r].id \notin met) =>
      /\ request[r].op = "remove" =>
           request[r].id \notin billed /\ charges[request[r].id] = {}
      /\ request[r].op = "item" => ~items[request[r].item].used
      /\ (/\ request[r].op = "update"
          /\ request[r].at = "write"
          /\ request[r].fee # NoFee
          /\ request[r].item # 0) =>
           /\ items[request[r].item].active
           /\ items[request[r].item].fixed
           /\ request[r].used = items[request[r].item].used

Undisturbed == \A r \in Requests : ReadStill(r)

Inv ==
    /\ TypeOK
    /\ LiveHaveCustomers
    /\ LocksHeld
    /\ IdsNew
    /\ CodesFree
    /\ ActiveItemsLive
    /\ FilesHaveContracts
    /\ OneBase
    /\ ItemRead
    /\ UsedIsBilled
    /\ Abouts
    /\ Undisturbed

(* A step of one request leaves the others and their locks alone.           *)
LEMMA OthersKeep ==
    ASSUME TypeOK, NEW r \in Requests, Step(r), NEW q \in Requests, q # r
    PROVE  /\ request'[q] = request[q]
           /\ \A y \in Years : codeLock[y] = q => codeLock'[y] = q
           /\ \A k \in Ids : rowLock[k] = q => rowLock'[k] = q
<1> USE ContractsAssumption
<1>1. CASE TakeCode(r)
  BY <1>1 DEF TakeCode, TypeOK
<1>2. CASE LockRow(r)
  BY <1>2 DEF LockRow, TypeOK
<1>3. CASE ReadItem(r)
  BY <1>3 DEF ReadItem, TypeOK
<1>4. CASE Commit(r)
  BY <1>4 DEF Commit, Freed, TypeOK
<1> QED
  BY <1>1, <1>2, <1>3, <1>4 DEF Step, Create, Update, Remove, UpdateItem, Abandon

(* A request that has not ended is still the same.                         *)
LEMMA StillOpen ==
    ASSUME TypeOK, NEW r \in Requests, Step(r), request'[r].op # "idle"
    PROVE  /\ request'[r].op = request[r].op
           /\ request'[r].id = request[r].id
           /\ request[r].op = "create" => TakeCode(r)
           /\ request[r].op # "create" =>
                /\ request[r] \in Change
                /\ request'[r] \in Change
                /\ LockRow(r) \/ ReadItem(r)
                /\ request'[r].fee = request[r].fee
<1>1. CASE TakeCode(r)
  <2>1. request[r] \in Creation
    BY <1>1, JobTypes DEF TakeCode
  <2> QED BY <1>1, <2>1 DEF TakeCode, Creation, TypeOK
<1>2. CASE LockRow(r)
  <2>1. request[r] \in Change
    BY <1>2, JobTypes DEF LockRow
  <2>2. request'[r] = [request[r] EXCEPT !.at = IF request[r].fee = NoFee
                                                THEN "write" ELSE "read"]
    BY <1>2 DEF LockRow, TypeOK
  <2> QED BY <1>2, <2>1, <2>2 DEF Change
<1>3. CASE ReadItem(r)
  <2>1. request[r] \in Change
    BY <1>3, JobTypes DEF ReadItem
  <2>2. PICK n \in BaseOf(request[r].id) :
          request' = [request EXCEPT ![r] =
            [request[r] EXCEPT !.at = "write", !.item = n,
                               !.used = n # 0 /\ items[n].used]]
    BY <1>3 DEF ReadItem
  <2> DEFINE used == n # 0 /\ items[n].used
  <2>3. n \in 0 .. MaxItems
    BY <2>1, BaseOfType DEF Change
  <2>4. used \in BOOLEAN
    BY <2>1, BaseOfType, ItemTypes DEF Change, ItemsOf, Item
  <2>5. request'[r] = [request[r] EXCEPT !.at = "write", !.item = n, !.used = used]
    BY <2>2 DEF TypeOK
  <2> HIDE DEF used
  <2> QED BY <1>3, <2>1, <2>3, <2>4, <2>5 DEF Change
<1>4. ~Commit(r)
  BY DEF Commit, Idle, TypeOK
<1> QED
  BY <1>1, <1>2, <1>3, <1>4 DEF Step, Create, Update, Remove, UpdateItem, Abandon

(* Requests that arrive, and those that are one transaction, hold no lock.  *)
LEMMA LocksStay ==
    ASSUME TypeOK, Next
    PROVE  \/ \E r \in Requests : Step(r)
           \/ /\ UNCHANGED <<codeLock, rowLock>>
              /\ \/ UNCHANGED <<contract, request>>
                 \/ \E r \in Requests, u \in Users : Begin(r, u)
<1>1. ASSUME NEW r \in Requests, NEW u \in Users, Begin(r, u)
      PROVE  UNCHANGED <<codeLock, rowLock>>
  BY <1>1 DEF Begin, BeginCreate, BeginUpdate, BeginRemove, BeginUpdateItem, Arrive
<1>2. ASSUME NEW u \in Users, NEW f \in Files, NEW k \in Ids \cup {None}, Upload(u, f, k)
      PROVE  UNCHANGED <<codeLock, rowLock, contract, request>>
  BY <1>2 DEF Upload
<1>3. ASSUME \/ \E k \in Ids, data \in Given : AddItem(k, data)
             \/ \E n \in DOMAIN items : DeactivateItem(n)
             \/ \E k \in Ids : Bill(k) \/ Charge(k)
      PROVE  UNCHANGED <<codeLock, rowLock, contract, request>>
  BY <1>3 DEF AddItem, DeactivateItem, Bill, Charge, Elsewhere
<1> QED BY <1>1, <1>2, <1>3 DEF Next

(* What a request that arrives asks for.                                   *)
LEMMA Arrivals ==
    ASSUME TypeOK, NEW r \in Requests, NEW u \in Users, Begin(r, u)
    PROVE  /\ UNCHANGED <<contract, items, file, charges, billed, named, met>>
           /\ request[r] = Idle
           /\ \A q \in Requests : q # r => request'[q] = request[q]
           /\ request'[r] # Idle
           /\ request'[r].op \in {"create", "update"} => request'[r].at = "lock"
           /\ request'[r].op = "create" =>
                /\ contract[request'[r].id].status = "ABSENT"
                /\ \A q \in Requests :
                     request[q].op = "create" => request[q].id # request'[r].id
           /\ request'[r].op # "create" => Live(request'[r].id)
           /\ request'[r].op = "remove" =>
                request'[r].id \notin billed /\ charges[request'[r].id] = {}
           /\ request'[r].op = "item" =>
                /\ request'[r].item \in ItemsOf(request'[r].id)
                /\ ~items[request'[r].item].used
<1> USE DEF Arrive, Idle
<1>1. ASSUME NEW k, NEW c, NEW y, NEW fee, NEW fs, NEW own,
             BeginCreate(r, u, k, c, y, fee, fs, own)
      PROVE  /\ request'[r].op = "create" /\ request'[r].at = "lock" /\ request'[r].id = k
             /\ contract[k].status = "ABSENT"
             /\ \A q \in Requests : request[q].op = "create" => request[q].id # k
  <2> DEFINE list == Requested(fee, own)
  <2>1. request' = [request EXCEPT ![r] =
          [op |-> "create", at |-> "lock", by |-> u, id |-> k, customer |-> c,
           year |-> y, code |-> 0, files |-> fs, list |-> list]]
    BY <1>1 DEF BeginCreate
  <2> HIDE DEF list
  <2> QED BY <1>1, <2>1 DEF BeginCreate, TypeOK
<1>2. ASSUME NEW k, NEW c, NEW fee, NEW fs, BeginUpdate(r, u, k, c, fee, fs)
      PROVE  /\ request'[r].op = "update" /\ request'[r].at = "lock"
             /\ request'[r].id = k /\ Live(k)
  BY <1>2 DEF BeginUpdate, TypeOK
<1>3. ASSUME NEW k, BeginRemove(r, u, k)
      PROVE  /\ request'[r].op = "remove" /\ request'[r].id = k /\ Live(k)
             /\ k \notin billed /\ charges[k] = {}
  BY <1>3 DEF BeginRemove, TypeOK
<1>4. ASSUME NEW n \in DOMAIN items, NEW data, BeginUpdateItem(r, u, n, data)
      PROVE  /\ request'[r].op = "item" /\ request'[r].item = n
             /\ request'[r].id = items[n].contract /\ Live(items[n].contract)
             /\ ~items[n].used
  BY <1>4 DEF BeginUpdateItem, TypeOK
<1>5. /\ UNCHANGED <<contract, items, file, charges, billed, named, met>>
      /\ request[r] = Idle
      /\ \A q \in Requests : q # r => request'[q] = request[q]
  BY DEF Begin, BeginCreate, BeginUpdate, BeginRemove, BeginUpdateItem, TypeOK
<1> HIDE DEF Arrive
<1>6. ASSUME NEW k, NEW c, NEW y, NEW fee, NEW fs, NEW own,
             BeginCreate(r, u, k, c, y, fee, fs, own)
      PROVE  /\ request'[r] # Idle
             /\ request'[r].op = "create" /\ request'[r].at = "lock"
             /\ contract[request'[r].id].status = "ABSENT"
             /\ \A q \in Requests :
                  request[q].op = "create" => request[q].id # request'[r].id
  BY <1>6, <1>1
<1>7. ASSUME NEW k, NEW c, NEW fee, NEW fs, BeginUpdate(r, u, k, c, fee, fs)
      PROVE  /\ request'[r] # Idle
             /\ request'[r].op = "update" /\ request'[r].at = "lock"
             /\ Live(request'[r].id)
  BY <1>7, <1>2
<1>8. ASSUME NEW k, BeginRemove(r, u, k)
      PROVE  /\ request'[r] # Idle
             /\ request'[r].op = "remove" /\ Live(request'[r].id)
             /\ request'[r].id \notin billed /\ charges[request'[r].id] = {}
  BY <1>8, <1>3
<1>9. ASSUME NEW n \in DOMAIN items, NEW data, BeginUpdateItem(r, u, n, data)
      PROVE  /\ request'[r] # Idle
             /\ request'[r].op = "item" /\ Live(request'[r].id)
             /\ request'[r].item \in ItemsOf(request'[r].id)
             /\ ~items[request'[r].item].used
  BY <1>9, <1>4 DEF ItemsOf
<1> QED BY <1>5, <1>6, <1>7, <1>8, <1>9 DEF Begin

(* What a step makes of a contract.                                        *)
LEMMA ContractSteps ==
    ASSUME TypeOK, NEW r \in Requests, Step(r), NEW k \in Ids
    PROVE  \/ contract'[k] = contract[k]
           \/ /\ Create(r)
              /\ k = request[r].id
              /\ contract'[k].status = "LIVE"
              /\ contract'[k].year = request[r].year
              /\ contract'[k].code = request[r].code
           \/ /\ Update(r)
              /\ k = request[r].id
              /\ contract'[k].status = contract[k].status
              /\ contract'[k].year = contract[k].year
              /\ contract'[k].code = contract[k].code
           \/ /\ Remove(r)
              /\ k = request[r].id
              /\ rowLock[k] = None
              /\ contract'[k].status = "DELETED"
<1>1. CASE Create(r)
  BY <1>1 DEF Create, TypeOK
<1>2. CASE Update(r)
  BY <1>2 DEF Update, TypeOK, Contract
<1>3. CASE Remove(r)
  BY <1>3 DEF Remove, TypeOK, Absent
<1>4. CASE UNCHANGED contract
  BY <1>4
<1> QED
  BY <1>1, <1>2, <1>3, <1>4 DEF Step, TakeCode, LockRow, ReadItem, UpdateItem, Abandon

LEMMA LocksStep ==
    ASSUME Inv, Next
    PROVE  LocksHeld'
<1> USE ContractsAssumption
<1>t. TypeOK /\ TypeOK'
  BY TypeStep DEF Inv
<1> SUFFICES ASSUME NEW q \in Requests
             PROVE  HoldsLocks(q)'
  BY DEF LocksHeld
<1>1. ASSUME NEW r \in Requests, Step(r), q # r
      PROVE  HoldsLocks(q)'
  <2>1. request'[q] = request[q]
    BY <1>1, <1>t, OthersKeep
  <2>2. CASE request[q].op = "create" /\ request[q].at = "write"
    <3>1. request[q].year \in Years
      BY <2>2, <1>t, JobTypes DEF Creation
    <3> QED BY <2>1, <2>2, <3>1, <1>1, <1>t, OthersKeep DEF Inv, LocksHeld, HoldsLocks
  <2>3. CASE request[q].op = "update" /\ request[q].at # "lock"
    <3> DEFINE k == request[q].id
    <3>1. k \in Ids
      BY <2>3, <1>t, JobTypes DEF Change
    <3>2. rowLock[k] = q /\ Live(k)
      BY <2>3 DEF Inv, LocksHeld, HoldsLocks
    <3>3. rowLock'[k] = q
      BY <3>1, <3>2, <1>1, <1>t, OthersKeep
    <3>4. contract'[k].status = "LIVE"
      <4>1. q # None
        OBVIOUS
      <4> QED BY <3>1, <3>2, <4>1, <1>1, <1>t, ContractSteps DEF Live
    <3> QED BY <2>1, <2>3, <3>3, <3>4 DEF HoldsLocks, Live
  <2> QED BY <2>1, <2>2, <2>3 DEF HoldsLocks
<1>2. ASSUME Step(q)
      PROVE  HoldsLocks(q)'
  <2>1. CASE TakeCode(q)
    <3>1. request[q] \in Creation
      BY <2>1, <1>t, JobTypes DEF TakeCode
    <3> QED BY <2>1, <3>1, <1>t DEF TakeCode, Creation, TypeOK, HoldsLocks
  <2>2. CASE LockRow(q)
    <3>1. request[q] \in Change
      BY <2>2, <1>t, JobTypes DEF LockRow
    <3> QED BY <2>2, <3>1, <1>t DEF LockRow, Change, TypeOK, HoldsLocks, Live
  <2>3. CASE ReadItem(q)
    <3>1. request[q] \in Change
      BY <2>3, <1>t, JobTypes DEF ReadItem
    <3>2. rowLock[request[q].id] = q /\ Live(request[q].id)
      BY <2>3 DEF Inv, LocksHeld, HoldsLocks, ReadItem
    <3>3. request'[q].op = "update" /\ request'[q].id = request[q].id
      BY <2>3, <3>1, <1>t DEF ReadItem, Change, TypeOK
    <3> QED BY <2>3, <3>2, <3>3 DEF ReadItem, HoldsLocks, Live
  <2>4. CASE Commit(q)
    BY <2>4, <1>t DEF Commit, TypeOK, Idle, HoldsLocks
  <2> QED
    BY <1>2, <2>1, <2>2, <2>3, <2>4 DEF Step, Create, Update, Remove, UpdateItem, Abandon
<1>3. ASSUME NEW r \in Requests, NEW u \in Users, Begin(r, u),
             UNCHANGED <<codeLock, rowLock>>
      PROVE  HoldsLocks(q)'
  <2>1. CASE q = r
    BY <2>1, <1>3, <1>t, Arrivals DEF HoldsLocks
  <2>2. CASE q # r
    <3>1. request'[q] = request[q] /\ contract' = contract
      BY <2>2, <1>3, <1>t, Arrivals
    <3> QED BY <3>1, <1>3 DEF Inv, LocksHeld, HoldsLocks, Live
  <2> QED BY <2>1, <2>2
<1>4. ASSUME UNCHANGED <<codeLock, rowLock, contract, request>>
      PROVE  HoldsLocks(q)'
  BY <1>4 DEF Inv, LocksHeld, HoldsLocks, Live
<1> QED BY <1>1, <1>2, <1>3, <1>4, <1>t, LocksStay

-----------------------------------------------------------------------------
(* Codes.                                                                  *)

CodeIsFree(r) ==
    request[r].op = "create" /\ request[r].at = "write" =>
      request[r].code \notin Codes(request[r].year)

LEMMA CodesWritten ==
    ASSUME TypeOK, NEW r \in Requests, Step(r), NEW y, NEW n \in Codes(y)', n \notin Codes(y)
    PROVE  Create(r) /\ request[r].year = y /\ request[r].code = n
<1>1. PICK k \in Ids : /\ contract'[k].status = "LIVE"
                       /\ contract'[k].year = y
                       /\ contract'[k].code = n
  BY DEF Codes, Live
<1>2. ~(/\ contract[k].status = "LIVE"
        /\ contract[k].year = y
        /\ contract[k].code = n)
  BY DEF Codes, Live
<1> QED BY <1>1, <1>2, ContractSteps

LEMMA CodesStep ==
    ASSUME Inv, Next
    PROVE  CodesFree'
<1> USE ContractsAssumption
<1>t. TypeOK /\ LocksHeld /\ CodesFree
  BY DEF Inv
<1>1. ASSUME NEW r \in Requests, Step(r) PROVE CodesFree'
  <2>1. ASSUME NEW q \in Requests, request'[q].op = "create", request'[q].at = "write"
        PROVE  CodeIsFree(q)'
    <3>1. CASE q = r
      <4>1. TakeCode(r)
        BY <3>1, <2>1, <1>1, <1>t, StillOpen
      <4>2. request[r] \in Creation
        BY <4>1, <1>t, JobTypes DEF TakeCode
      <4>3. /\ request'[r].code = NextCode(request[r].year)
            /\ request'[r].year = request[r].year
            /\ contract' = contract
        BY <4>1, <4>2, <1>t DEF TakeCode, Creation, TypeOK
      <4>4. Codes(request[r].year)' = Codes(request[r].year)
        BY <4>1 DEF TakeCode, Codes, Live
      <4>5. NextCode(request[r].year) \notin Codes(request[r].year)
        BY <1>t, NextCodeFree
      <4> QED BY <3>1, <4>3, <4>4, <4>5 DEF CodeIsFree
    <3>2. CASE q # r
      <4> DEFINE job == request[q]
      <4>1. request'[q] = job
        BY <3>2, <1>1, <1>t, OthersKeep
      <4>2. job.code \notin Codes(job.year) /\ codeLock[job.year] = q
        BY <4>1, <2>1, <1>t DEF CodesFree, LocksHeld, HoldsLocks
      <4>3. PICK y, n : y = job.year /\ n = job.code
        OBVIOUS
      <4>4. ASSUME n \in Codes(y)' PROVE FALSE
        <5>1. n \notin Codes(y)
          BY <4>2, <4>3
        <5>2. Create(r) /\ request[r].year = y
          BY <5>1, <4>4, <1>1, <1>t, CodesWritten
        <5>3. codeLock[request[r].year] = r
          BY <5>2, <1>t DEF Create, LocksHeld, HoldsLocks
        <5> QED BY <5>2, <5>3, <4>2, <4>3, <3>2
      <4> QED BY <4>1, <4>3, <4>4 DEF CodeIsFree
    <3> QED BY <3>1, <3>2
  <2>2. ASSUME NEW k \in Ids, NEW l \in Ids, k # l,
               contract'[k].status = "LIVE", contract'[l].status = "LIVE",
               contract'[k].year = contract'[l].year,
               contract'[k].code = contract'[l].code
        PROVE  FALSE
    <3>1. \A i, j \in Ids :
            /\ i # j
            /\ Create(r)
            /\ i = request[r].id
            /\ contract'[j].status = "LIVE"
            => \/ contract'[j].year # contract'[i].year
               \/ contract'[j].code # contract'[i].code
      <4> SUFFICES ASSUME NEW i \in Ids, NEW j \in Ids, i # j, Create(r),
                          i = request[r].id, contract'[j].status = "LIVE"
                   PROVE  \/ contract'[j].year # contract'[i].year
                          \/ contract'[j].code # contract'[i].code
        OBVIOUS
      <4>1. contract'[j] = contract[j]
        BY <1>t DEF Create, TypeOK
      <4>2. contract'[i].year = request[r].year /\ contract'[i].code = request[r].code
        BY <1>t DEF Create, TypeOK
      <4>3. request[r].code \notin Codes(request[r].year)
        BY DEF Create
      <4> QED BY <4>1, <4>2, <4>3 DEF Codes, Live
    <3>2. CASE Create(r) /\ (k = request[r].id \/ l = request[r].id)
      BY <3>1, <3>2, <2>2
    <3>3. CASE ~(Create(r) /\ (k = request[r].id \/ l = request[r].id))
      <4>1. \A i \in {k, l} :
              contract'[i].status = "LIVE" =>
                /\ contract[i].status = "LIVE"
                /\ contract[i].year = contract'[i].year
                /\ contract[i].code = contract'[i].code
        BY <3>3, <1>1, <1>t, ContractSteps
      <4> QED BY <4>1, <2>2, <1>t DEF CodesFree, Live
    <3> QED BY <3>2, <3>3
  <2> QED BY <2>1, <2>2 DEF CodesFree, CodeIsFree, Live
<1>2. ASSUME NEW r \in Requests, NEW u \in Users, Begin(r, u) PROVE CodesFree'
  <2>1. contract' = contract
    BY <1>2, <1>t, Arrivals
  <2>2. ASSUME NEW q \in Requests, request'[q].op = "create", request'[q].at = "write"
        PROVE  request'[q] = request[q]
    BY <2>2, <1>2, <1>t, Arrivals
  <2> QED BY <2>1, <2>2, <1>t DEF CodesFree, Codes, Live
<1>3. ASSUME UNCHANGED <<contract, request>> PROVE CodesFree'
  BY <1>3, <1>t DEF CodesFree, Codes, Live
<1> QED BY <1>1, <1>2, <1>3, <1>t, LocksStay

LEMMA IdsStep ==
    ASSUME Inv, Next
    PROVE  IdsNew'
<1>t. TypeOK /\ IdsNew
  BY DEF Inv
<1>1. ASSUME NEW r \in Requests, Step(r) PROVE IdsNew'
  <2>1. ASSUME NEW q \in Requests, request'[q].op = "create"
        PROVE  /\ request[q].op = "create"
               /\ request'[q].id = request[q].id
    <3>1. CASE q # r
      BY <3>1, <2>1, <1>1, <1>t, OthersKeep
    <3>2. CASE q = r
      BY <3>2, <2>1, <1>1, <1>t, StillOpen
    <3> QED BY <3>1, <3>2
  <2>2. ASSUME NEW q \in Requests, request'[q].op = "create"
        PROVE  contract'[request[q].id].status = "ABSENT"
    <3>1. request[q].op = "create" /\ contract[request[q].id].status = "ABSENT"
      BY <2>1, <2>2, <1>t DEF IdsNew
    <3>2. request[q].id \in Ids
      BY <3>1, <1>t, JobTypes DEF Creation
    <3>3. Create(r) => request[r].id # request[q].id
      <4>1. ASSUME Create(r), request[r].id = request[q].id PROVE FALSE
        <5>1. q = r
          BY <4>1, <3>1, <1>t DEF Create, IdsNew
        <5> QED BY <5>1, <4>1, <2>2, <1>t DEF Create, Commit, Idle, TypeOK
      <4> QED BY <4>1
    <3>4. Remove(r) => request[r].id # request[q].id
      BY <3>1 DEF Remove, Live
    <3> QED BY <3>1, <3>2, <3>3, <3>4, <1>1, <1>t, ContractSteps
  <2> QED BY <2>1, <2>2, <1>t DEF IdsNew
<1>2. ASSUME NEW r \in Requests, NEW u \in Users, Begin(r, u) PROVE IdsNew'
  <2>1. /\ contract' = contract
        /\ \A q \in Requests : q # r => request'[q] = request[q]
        /\ request'[r].op = "create" =>
             /\ contract[request'[r].id].status = "ABSENT"
             /\ \A q \in Requests :
                  request[q].op = "create" => request[q].id # request'[r].id
    BY <1>2, <1>t, Arrivals
  <2> QED BY <2>1, <1>t DEF IdsNew
<1>3. ASSUME UNCHANGED <<contract, request>> PROVE IdsNew'
  BY <1>3, <1>t DEF IdsNew
<1> QED BY <1>1, <1>2, <1>3, <1>t, LocksStay
-----------------------------------------------------------------------------
(* Charge items.                                                           *)

(* What an update that sets the base fee writes: it ends or changes the     *)
(* item it has read, and appends one unless it has changed it.             *)
LEMMA SyncedItems ==
    ASSUME TypeOK, ItemRead, NEW r \in Requests, Update(r), request[r].fee # NoFee
    PROVE  LET job == request[r]
               new == Len(items) + 1
           IN /\ job.id \in Ids
              /\ new \notin DOMAIN items
              /\ job.item # 0 => job.item \in ItemsOf(job.id)
              /\ DOMAIN items' = IF job.item # 0 /\ ~job.used THEN DOMAIN items
                                 ELSE DOMAIN items \cup {new}
              /\ \A n \in DOMAIN items : n # job.item => items'[n] = items[n]
              /\ job.item # 0 =>
                   items'[job.item] =
                     IF job.used THEN [items[job.item] EXCEPT !.active = FALSE]
                     ELSE [items[job.item] EXCEPT !.amount = job.fee, !.base = TRUE]
              /\ job.item = 0 \/ job.used => items'[new] = BaseItem(job.id, job.fee)
<1> DEFINE job == request[r]
           new == Len(items) + 1
<1>1. /\ job \in Change
      /\ job.id \in Ids /\ job.fee \in Fees /\ job.item \in Nat /\ job.used \in BOOLEAN
  BY JobTypes, ContractsAssumption DEF Update, Change
<1>2. job.item # 0 => job.item \in ItemsOf(job.id) /\ job.item \in DOMAIN items
  BY DEF ItemRead, ItemReadBy, Update, ItemsOf
<1>3. BaseItem(job.id, job.fee) \in Item
  BY <1>1, BaseItemType
<1>4. items' = Synced(job.id, job.item, job.used, job.fee)
  BY DEF Update
<1>5. Len(items) \in Nat /\ DOMAIN items = 1 .. Len(items) /\ new \notin DOMAIN items
  BY ItemTypes
<1>6. CASE job.item = 0
  <2>1. items' = Append(items, BaseItem(job.id, job.fee))
    BY <1>4, <1>6 DEF Synced
  <2>2. /\ DOMAIN items' = DOMAIN items \cup {new}
        /\ \A n \in DOMAIN items : items'[n] = items[n]
        /\ items'[new] = BaseItem(job.id, job.fee)
    BY <2>1, <1>3, Appended
  <2> QED BY <2>2, <1>1, <1>2, <1>5, <1>6
<1>7. CASE job.item # 0 /\ job.used
  <2> DEFINE ended == [items EXCEPT ![job.item].active = FALSE]
  <2>1. items' = Append(ended, BaseItem(job.id, job.fee))
    BY <1>4, <1>7 DEF Synced
  <2>2. ended \in [DOMAIN items -> Item]
    BY ItemTypes DEF Item
  <2>3. ended \in Seq(Item) /\ Len(ended) = Len(items)
    BY <2>2, Mapped
  <2>4. /\ items' \in Seq(Item)
        /\ Len(items') = new
        /\ \A n \in DOMAIN items : items'[n] = ended[n]
        /\ items'[new] = BaseItem(job.id, job.fee)
    <3> HIDE DEF ended
    <3> QED BY <2>1, <2>3, <1>3, <1>5, AppendProperties
  <2>5. DOMAIN items' = 1 .. new
    BY <2>4, LenProperties
  <2>6. 1 .. new = DOMAIN items \cup {new}
    BY <1>5
  <2>7. /\ \A n \in DOMAIN items : n # job.item => ended[n] = items[n]
        /\ ended[job.item] = [items[job.item] EXCEPT !.active = FALSE]
    BY <1>2, <1>7
  <2> HIDE DEF ended
  <2> QED BY <2>4, <2>5, <2>6, <2>7, <1>1, <1>2, <1>5, <1>7
<1>8. CASE job.item # 0 /\ ~job.used
  <2>1. items' = [items EXCEPT ![job.item].amount = job.fee, ![job.item].base = TRUE]
    BY <1>4, <1>8, ContractsAssumption DEF Synced
  <2>2. items' = [items EXCEPT ![job.item] =
                    [items[job.item] EXCEPT !.amount = job.fee, !.base = TRUE]]
    BY <2>1, <1>2, <1>8
  <2> QED BY <2>2, <1>1, <1>2, <1>5, <1>8
<1> QED BY <1>1, <1>6, <1>7, <1>8

(* The item that an update changes or ends.                                *)
Resynced(n) ==
    \E r \in Requests :
      /\ Update(r)
      /\ request[r].fee # NoFee
      /\ request[r].item = n
      /\ items[n].contract = request[r].id
      /\ items'[n] = IF request[r].used THEN [items[n] EXCEPT !.active = FALSE]
                     ELSE [items[n] EXCEPT !.amount = request[r].fee, !.base = TRUE]

Rewritten(n) ==
    \E r \in Requests :
      /\ UpdateItem(r)
      /\ request[r].item = n
      /\ items[n].contract = request[r].id
      /\ request[r].to \in Data
      /\ items'[n] = Edited(items[n], request[r].to)

Deleted(n) ==
    \E r \in Requests :
      /\ Remove(r)
      /\ items[n].contract = request[r].id
      /\ items'[n] = Gone(items[n])

Ended(n) == DeactivateItem(n) /\ items'[n] = [items[n] EXCEPT !.active = FALSE]

Charged(n) == Bill(items[n].contract) /\ items'[n] = [items[n] EXCEPT !.used = TRUE]

(* No item is ever lost or changes its contract; these are its changes.     *)
LEMMA OldItems ==
    ASSUME TypeOK, ItemRead, Abouts, Next, NEW n \in DOMAIN items
    PROVE  /\ n \in DOMAIN items'
           /\ items'[n].contract = items[n].contract
           /\ items'[n] # items[n] =>
                Resynced(n) \/ Rewritten(n) \/ Deleted(n) \/ Ended(n) \/ Charged(n)
           /\ \A r \in Requests :
                Remove(r) /\ request[r].id = items[n].contract => Deleted(n)
<1> DEFINE Kept == n \in DOMAIN items' /\ items'[n].contract = items[n].contract
           Same == n \in DOMAIN items' /\ items'[n] = items[n]
<1>t. items[n] \in Item /\ n # 0
  BY ItemTypes
<1>1. ASSUME NEW r \in Requests, Create(r) PROVE Same
  <2>1. request[r] \in Creation
    BY <1>1, JobTypes DEF Create
  <2> QED BY <1>1, <2>1, CreatedItems
<1>2. ASSUME NEW r \in Requests, Update(r) PROVE Same \/ (Kept /\ Resynced(n))
  <2>1. CASE request[r].fee = NoFee
    BY <2>1, <1>2 DEF Update, Synced
  <2>2. CASE request[r].fee # NoFee
    <3>1. n \in DOMAIN items' /\ (n # request[r].item => items'[n] = items[n])
      BY <2>2, <1>2, SyncedItems
    <3>2. CASE n = request[r].item
      <4>1. /\ items'[n] = IF request[r].used THEN [items[n] EXCEPT !.active = FALSE]
                           ELSE [items[n] EXCEPT !.amount = request[r].fee, !.base = TRUE]
            /\ items[n].contract = request[r].id
        BY <1>t, <3>2, <2>2, <1>2, SyncedItems DEF ItemsOf
      <4>2. items'[n].contract = items[n].contract
        BY <4>1, <1>t DEF Item
      <4> QED BY <3>1, <3>2, <4>1, <4>2, <1>2, <2>2 DEF Resynced
    <3> QED BY <3>1, <3>2
  <2> QED BY <2>1, <2>2
<1>3. ASSUME NEW r \in Requests, Remove(r)
      PROVE  \/ Same /\ request[r].id # items[n].contract
             \/ Kept /\ Deleted(n)
  BY <1>3, <1>t DEF Remove, Gone, Item, Deleted
<1>4. ASSUME NEW r \in Requests, UpdateItem(r) PROVE Same \/ (Kept /\ Rewritten(n))
  <2>1. request[r] \in ItemChange /\ items[request[r].item].contract = request[r].id
    BY <1>4, JobTypes DEF UpdateItem, Abouts, About, ItemsOf
  <2>2. CASE request[r].item = n
    <3>1. items'[n] = Edited(items[n], request[r].to) /\ n \in DOMAIN items'
      BY <1>4, <2>2 DEF UpdateItem
    <3> QED BY <1>4, <1>t, <2>1, <2>2, <3>1, EditedType DEF Rewritten, ItemChange
  <2>3. CASE request[r].item # n
    BY <1>4, <2>3 DEF UpdateItem
  <2> QED BY <2>2, <2>3
<1>5. ASSUME NEW k \in Ids, NEW data \in Given, AddItem(k, data) PROVE Same
  <2>1. Row(k, FALSE, data) \in Item
    BY RowType, ContractsAssumption
  <2> QED BY <1>5, <2>1, Appended DEF AddItem
<1>6. ASSUME NEW m \in DOMAIN items, DeactivateItem(m) PROVE Same \/ (Kept /\ Ended(n))
  BY <1>6, <1>t DEF DeactivateItem, Item, Ended
<1>7. ASSUME NEW k \in Ids, Bill(k) PROVE Same \/ (Kept /\ Charged(n))
  <2>1. CASE items[n].contract = k /\ items[n].active
    BY <2>1, <1>7, <1>t DEF Bill, Item, Charged
  <2>2. CASE ~(items[n].contract = k /\ items[n].active)
    BY <2>2, <1>7 DEF Bill
  <2> QED BY <2>1, <2>2
<1>8. ASSUME UNCHANGED items PROVE Same
  BY <1>8
<1>9. ASSUME NEW r \in Requests, NEW u \in Users, Begin(r, u) PROVE UNCHANGED items
  BY <1>9, Arrivals
<1>10. \/ Same
       \/ Kept /\ (Resynced(n) \/ Rewritten(n) \/ Deleted(n) \/ Ended(n) \/ Charged(n))
  BY <1>1, <1>2, <1>3, <1>4, <1>5, <1>6, <1>7, <1>8, <1>9 DEF Next, Step, TakeCode,
     LockRow, ReadItem, Abandon, Upload, Charge
<1> QED BY <1>10, <1>3

(* Where new items come from.                                              *)
Brought(n) ==
    \E r \in Requests :
      /\ Create(r)
      /\ n - Len(items) \in DOMAIN request[r].list
      /\ items'[n] = Row(request[r].id, TRUE, request[r].list[n - Len(items)])

Replaced(n) ==
    \E r \in Requests :
      /\ Update(r)
      /\ request[r].fee # NoFee
      /\ n = Len(items) + 1
      /\ request[r].item = 0 \/ request[r].used
      /\ items'[n] = BaseItem(request[r].id, request[r].fee)

Added(n) ==
    \E k \in Ids, data \in Given :
      AddItem(k, data) /\ n = Len(items) + 1 /\ items'[n] = Row(k, FALSE, data)

LEMMA NewItems ==
    ASSUME TypeOK, ItemRead, Next, NEW n \in DOMAIN items', n \notin DOMAIN items
    PROVE  ~items'[n].used /\ (Brought(n) \/ Replaced(n) \/ Added(n))
<1>1. ASSUME NEW r \in Requests, Create(r) PROVE Brought(n)
  <2>1. request[r] \in Creation
    BY <1>1, JobTypes DEF Create
  <2>2. /\ n - Len(items) \in DOMAIN request[r].list
        /\ items'[n] = Row(request[r].id, TRUE, request[r].list[n - Len(items)])
    BY <1>1, <2>1, CreatedItems
  <2> QED BY <1>1, <2>2 DEF Brought
<1>2. ASSUME NEW r \in Requests, Update(r) PROVE Replaced(n)
  <2>1. request[r].fee # NoFee
    BY <1>2 DEF Update, Synced
  <2>2. /\ n = Len(items) + 1
        /\ request[r].item = 0 \/ request[r].used
        /\ items'[n] = BaseItem(request[r].id, request[r].fee)
    BY <2>1, <1>2, SyncedItems
  <2> QED BY <1>2, <2>1, <2>2 DEF Replaced
<1>3. ASSUME NEW k \in Ids, NEW data \in Given, AddItem(k, data) PROVE Added(n)
  <2>1. Row(k, FALSE, data) \in Item
    BY RowType, ContractsAssumption
  <2>2. PICK x \in Item : x = Row(k, FALSE, data)
    BY <2>1
  <2>3. items' = Append(items, x)
    BY <1>3, <2>2 DEF AddItem
  <2>4. n = Len(items) + 1 /\ items'[n] = x
    BY <2>3, Appended
  <2> QED BY <1>3, <2>2, <2>4 DEF Added
<1>4. ASSUME \/ UNCHANGED items
             \/ \E r \in Requests : Remove(r) \/ UpdateItem(r)
             \/ \E m \in DOMAIN items : DeactivateItem(m)
             \/ \E k \in Ids : Bill(k)
      PROVE  FALSE
  BY <1>4 DEF Remove, UpdateItem, DeactivateItem, Bill
<1>5. ASSUME NEW r \in Requests, NEW u \in Users, Begin(r, u) PROVE UNCHANGED items
  BY <1>5, Arrivals
<1>6. Brought(n) \/ Replaced(n) \/ Added(n)
  BY <1>1, <1>2, <1>3, <1>4, <1>5 DEF Next, Step, TakeCode, LockRow, ReadItem, Abandon,
     Upload, Charge
<1> QED BY <1>6 DEF Brought, Replaced, Added, Row, BaseItem

(* A contract that exists goes only when it is removed.                    *)
LEMMA LiveStays ==
    ASSUME TypeOK, Next, NEW k \in Ids, Live(k)
    PROVE  \/ Live(k)'
           \/ \E r \in Requests : Remove(r) /\ request[r].id = k
<1>1. ASSUME NEW r \in Requests, Step(r)
      PROVE  Live(k)' \/ (Remove(r) /\ request[r].id = k)
  BY <1>1, ContractSteps DEF Live
<1>2. ASSUME NEW r \in Requests, NEW u \in Users, Begin(r, u) PROVE Live(k)'
  BY <1>2, Arrivals DEF Live
<1>3. ASSUME UNCHANGED contract PROVE Live(k)'
  BY <1>3 DEF Live
<1> QED BY <1>1, <1>2, <1>3, LocksStay

(* The contract for which a request writes exists afterwards.              *)
LEMMA WritersLive ==
    ASSUME Inv, NEW r \in Requests, Create(r) \/ Update(r) \/ UpdateItem(r)
    PROVE  request[r].id \in Ids /\ contract'[request[r].id].status = "LIVE"
<1>1. request[r].id \in Ids
  BY JobTypes DEF Inv, Create, Update, UpdateItem, Creation, Change, ItemChange
<1>2. CASE Create(r)
  BY <1>1, <1>2 DEF Create, Inv, TypeOK
<1>3. CASE Update(r)
  <2>1. Live(request[r].id)
    BY <1>3 DEF Update, Inv, LocksHeld, HoldsLocks
  <2> QED BY <1>1, <1>3, <2>1 DEF Update, Live, Inv, TypeOK, Contract
<1>4. CASE UpdateItem(r)
  BY <1>1, <1>4 DEF UpdateItem, Live
<1> QED BY <1>1, <1>2, <1>3, <1>4

LEMMA ActiveStep ==
    ASSUME Inv, Next
    PROVE  ActiveItemsLive'
<1>t. TypeOK /\ ItemRead /\ Abouts /\ ActiveItemsLive
  BY DEF Inv
<1> SUFFICES ASSUME NEW n \in DOMAIN items', items'[n].active
             PROVE  contract'[items'[n].contract].status = "LIVE"
  BY DEF ActiveItemsLive, Live
<1>1. CASE n \in DOMAIN items
  <2>1. items'[n].contract = items[n].contract /\ items[n].contract \in Ids /\ items[n] \in Item
    BY <1>1, <1>t, OldItems, ItemTypes DEF Item
  <2>2. \A r \in Requests : ~(Remove(r) /\ request[r].id = items[n].contract)
    <3>1. Deleted(n) => ~items'[n].active
      BY <2>1 DEF Deleted, Gone, Item
    <3> QED BY <3>1, <1>1, <1>t, OldItems
  <2>3. CASE items[n].active
    <3>1. Live(items[n].contract)
      BY <1>1, <2>3, <1>t DEF ActiveItemsLive
    <3> QED BY <2>1, <2>2, <3>1, <1>t, LiveStays DEF Live
  <2>4. CASE ~items[n].active
    <3>1. Rewritten(n)
      <4>1. Resynced(n) \/ Rewritten(n) \/ Deleted(n) \/ Ended(n) \/ Charged(n)
        BY <1>1, <1>t, <2>4, OldItems
      <4>2. ~Resynced(n) /\ ~Deleted(n) /\ ~Ended(n) /\ ~Charged(n)
        BY <2>1, <2>4 DEF Resynced, Deleted, Ended, Charged, Gone, Item
      <4> QED BY <4>1, <4>2
    <3> QED BY <2>1, <3>1, WritersLive DEF Rewritten
  <2> QED BY <2>3, <2>4
<1>2. CASE n \notin DOMAIN items
  <2>1. CASE \E r \in Requests : /\ Create(r) \/ Update(r)
                                 /\ items'[n].contract = request[r].id
    BY <2>1, WritersLive
  <2>2. CASE \E k \in Ids, data \in Given :
               AddItem(k, data) /\ items'[n].contract = k
    BY <2>2 DEF AddItem, Elsewhere, Live
  <2>3. Brought(n) \/ Replaced(n) \/ Added(n)
    BY <1>2, <1>t, NewItems
  <2> QED BY <2>1, <2>2, <2>3 DEF Brought, Replaced, Added, BaseItem, Row
<1> QED BY <1>1, <1>2

LEMMA FilesStep ==
    ASSUME Inv, Next
    PROVE  FilesHaveContracts'
<1>t. TypeOK /\ FilesHaveContracts
  BY DEF Inv
<1> SUFFICES ASSUME NEW f \in Files, file'[f].contract # None
             PROVE  contract'[file'[f].contract].status = "LIVE"
  BY DEF FilesHaveContracts, Live
<1>f. /\ file[f].contract # None => file[f].contract \in Ids /\ Live(file[f].contract)
      /\ file[f] \in [by : Users \cup {None}, contract : Ids \cup {None}]
  BY <1>t DEF TypeOK, FilesHaveContracts
<1>1. ASSUME NEW r \in Requests, Create(r) \/ Update(r)
      PROVE  contract'[file'[f].contract].status = "LIVE"
  <2> DEFINE k == request[r].id
  <2>1. k \in Ids /\ contract'[k].status = "LIVE"
    BY <1>1, WritersLive
  <2>2. file' = Attached(k, request[r].files)
    BY <1>1 DEF Create, Update
  <2>3. file'[f].contract = k \/ file'[f].contract = file[f].contract
    BY <2>2, <1>f DEF Attached
  <2>4. \A l \in Ids : l # k => contract'[l] = contract[l]
    BY <1>1, <1>t DEF Create, Update, TypeOK
  <2> HIDE DEF k
  <2> QED BY <2>1, <2>3, <2>4, <1>f DEF Live
<1>2. ASSUME NEW r \in Requests, Remove(r)
      PROVE  contract'[file'[f].contract].status = "LIVE"
  <2>1. file[f].contract # request[r].id /\ file'[f].contract = file[f].contract
    BY <1>2 DEF Remove
  <2> QED BY <2>1, <1>2, <1>f, <1>t DEF Remove, Live, TypeOK
<1>3. ASSUME NEW u \in Users, NEW g \in Files, NEW k \in Ids \cup {None}, Upload(u, g, k)
      PROVE  contract'[file'[f].contract].status = "LIVE"
  BY <1>3, <1>f, <1>t DEF Upload, Live, TypeOK
<1>4. ASSUME UNCHANGED <<contract, file>>
      PROVE  contract'[file'[f].contract].status = "LIVE"
  BY <1>4, <1>f DEF Live
<1>5. ASSUME NEW r \in Requests, NEW u \in Users, Begin(r, u)
      PROVE  UNCHANGED <<contract, file>>
  BY <1>5, <1>t, Arrivals
<1> QED
  BY <1>1, <1>2, <1>3, <1>4, <1>5 DEF Next, Step, TakeCode, LockRow, ReadItem, Abandon,
     UpdateItem, AddItem, DeactivateItem, Bill, Charge, Elsewhere


(* A step that takes a name back has removed the contract.                 *)
LEMMA NamedStays ==
    ASSUME TypeOK, Next, NEW k \in named, k \notin named'
    PROVE  \E r \in Requests : Remove(r) /\ request[r].id = k
<1>1. ASSUME NEW r \in Requests, Step(r), ~Remove(r) PROVE FALSE
  BY <1>1 DEF Step, TakeCode, Create, LockRow, ReadItem, Update, UpdateItem, Abandon, Names
<1>2. ASSUME NEW r \in Requests, NEW u \in Users, Begin(r, u) PROVE FALSE
  BY <1>2, Arrivals
<1>3. ASSUME NEW r \in Requests, Remove(r) PROVE request[r].id = k
  BY <1>3 DEF Remove, Forget
<1>4. \E r \in Requests : Step(r)
  BY <1>2 DEF Next, Upload, AddItem, DeactivateItem, Bill, Charge, Names
<1> QED BY <1>1, <1>3, <1>4

(* Only the requests that set a base fee make items that carry one, unless   *)
(* the contract is named.                                                  *)
LEMMA BaseSteps ==
    ASSUME TypeOK, ItemRead, Abouts, Next, NEW n \in DOMAIN items',
           Carries(items'[n]), items'[n].contract \notin named'
    PROVE  \/ n \in DOMAIN items /\ Base(n) /\ items'[n].contract = items[n].contract
           \/ \E r \in Requests : /\ Create(r) \/ (Update(r) /\ request[r].fee # NoFee)
                                  /\ items'[n].contract = request[r].id
<1>1. CASE n \in DOMAIN items
  <2>1. items[n] \in Item /\ items'[n].contract = items[n].contract
    BY <1>1, ItemTypes, OldItems
  <2>2. CASE items'[n] = items[n]
    BY <1>1, <2>2 DEF Base
  <2>3. CASE Resynced(n)
    BY <2>1, <2>3 DEF Resynced
  <2>4. CASE Rewritten(n)
    <3>1. PICK r \in Requests :
            /\ UpdateItem(r)
            /\ request[r].item = n
            /\ items[n].contract = request[r].id
            /\ request[r].to \in Data
            /\ items'[n] = Edited(items[n], request[r].to)
      BY <2>4 DEF Rewritten
    <3>2. Carries(request[r].to)
      BY <3>1, <2>1, EditedType
    <3>3. Carries(items[n])
      BY <3>1, <3>2, <2>1 DEF UpdateItem, Names
    <3> QED BY <1>1, <2>1, <3>3 DEF Base
  <2>5. CASE Deleted(n)
    BY <2>1, <2>5 DEF Deleted, Gone, Item, Carries
  <2>6. CASE Ended(n)
    BY <2>1, <2>6 DEF Ended, Item, Carries
  <2>7. CASE Charged(n)
    BY <1>1, <2>1, <2>7 DEF Charged, Item, Carries, Base
  <2> QED BY <1>1, <2>2, <2>3, <2>4, <2>5, <2>6, <2>7, OldItems
<1>2. CASE n \notin DOMAIN items
  <2>1. Brought(n) \/ Replaced(n) \/ Added(n)
    BY <1>2, NewItems
  <2>2. ~Added(n)
    <3>1. ASSUME NEW k \in Ids, NEW data \in Given, AddItem(k, data),
                 items'[n] = Row(k, FALSE, data)
          PROVE  FALSE
      BY <3>1 DEF AddItem, Names, Row, Carries
    <3> QED BY <3>1 DEF Added
  <2> QED BY <2>1, <2>2 DEF Brought, Replaced, BaseItem, Row
<1> QED BY <1>1, <1>2

LEMMA OneBaseStep ==
    ASSUME Inv, Next
    PROVE  OneBase'
<1>t. TypeOK /\ ItemRead /\ Abouts /\ OneBase /\ ActiveItemsLive /\ IdsNew /\ LocksHeld
  BY DEF Inv
<1> DEFINE Carrier(n) == n \in DOMAIN items' /\ Carries(items'[n])
           OldOne(n) == n \in DOMAIN items /\ Base(n)
                          /\ items'[n].contract = items[n].contract
<1>1. ASSUME NEW r \in Requests, Create(r) \/ (Update(r) /\ request[r].fee # NoFee),
             NEW n, NEW m, Carrier(n), Carrier(m), request[r].id \notin named',
             items'[n].contract = request[r].id, items'[m].contract = request[r].id
      PROVE  n = m
  <2>1. CASE Create(r)
    <3>1. contract[request[r].id].status = "ABSENT"
      BY <2>1, <1>t DEF Create, IdsNew
    <3>2. \A l \in DOMAIN items : ~(items[l].active /\ items[l].contract = request[r].id)
      BY <3>1, <1>t DEF ActiveItemsLive, Live
    <3>3. request[r] \in Creation
      BY <2>1, <1>t, JobTypes DEF Create
    <3> DEFINE list == request[r].list
               k == request[r].id
    <3>5. /\ DOMAIN items' \subseteq Int
          /\ \A l \in DOMAIN items : l \in DOMAIN items' /\ items'[l] = items[l]
          /\ \A l \in DOMAIN items' : l \notin DOMAIN items =>
               /\ l - Len(items) \in DOMAIN list
               /\ items'[l] = Row(k, TRUE, list[l - Len(items)])
      BY <2>1, <3>3, <1>t, CreatedItems
    <3>6. ASSUME NEW l, Carrier(l), items'[l].contract = k
          PROVE  /\ l \in Int
                 /\ l - Len(items) \in DOMAIN list
                 /\ Carries(list[l - Len(items)])
      <4>1. l \notin DOMAIN items
        BY <3>2, <3>5, <3>6 DEF Carries
      <4>2. /\ l - Len(items) \in DOMAIN list
            /\ items'[l] = Row(k, TRUE, list[l - Len(items)])
        BY <4>1, <3>5, <3>6
      <4>3. l \in Int
        BY <3>5, <3>6
      <4> QED BY <4>2, <4>3, <3>6 DEF Row, Carries
    <3>7. ~Several(list)
      BY <2>1, <1>1 DEF Create
    <3>8. n - Len(items) = m - Len(items) /\ n \in Int /\ m \in Int
      BY <3>6, <3>7, <1>1 DEF Several
    <3> QED BY <3>8, <1>t, ItemTypes
  <2>2. CASE Update(r) /\ request[r].fee # NoFee
    <3> DEFINE job == request[r]
               new == Len(items) + 1
    <3>1. /\ DOMAIN items' = IF job.item # 0 /\ ~job.used THEN DOMAIN items
                             ELSE DOMAIN items \cup {new}
          /\ \A l \in DOMAIN items : l # job.item => items'[l] = items[l]
          /\ job.item # 0 =>
               items'[job.item] =
                 IF job.used THEN [items[job.item] EXCEPT !.active = FALSE]
                 ELSE [items[job.item] EXCEPT !.amount = job.fee, !.base = TRUE]
      BY <2>2, <1>1, <1>t, SyncedItems
    <3>2. /\ job.item # 0 => job.item \in ItemsOf(job.id)
          /\ \A l \in ItemsOf(job.id) : Base(l) => l = job.item
      BY <2>2, <1>1, <1>t DEF ItemRead, ItemReadBy, Update
    <3>3. ASSUME NEW l \in DOMAIN items, Carrier(l), items'[l].contract = job.id
          PROVE  l = job.item /\ job.item # 0 /\ ~job.used
      <4>1. l = job.item
        <5> SUFFICES ASSUME l # job.item PROVE FALSE
          OBVIOUS
        <5>1. items'[l] = items[l]
          BY <3>1
        <5>2. l \in ItemsOf(job.id) /\ Base(l)
          BY <5>1, <3>3 DEF ItemsOf, Base
        <5> QED BY <5>2, <3>2
      <4>2. l # 0 /\ items[l] \in Item
        BY <1>t, ItemTypes
      <4>3. ~job.used
        <5> SUFFICES ASSUME job.used PROVE FALSE
          OBVIOUS
        <5>1. items'[l] = [items[l] EXCEPT !.active = FALSE]
          BY <3>1, <4>1, <4>2
        <5> QED BY <5>1, <3>3, <4>2 DEF Item, Carries
      <4> QED BY <4>1, <4>2, <4>3
    <3>4. CASE n \in DOMAIN items
      <4>1. n = job.item /\ job.item # 0 /\ ~job.used
        BY <3>3, <3>4, <1>1
      <4>2. m \in DOMAIN items
        BY <4>1, <3>1, <1>1
      <4> QED BY <4>1, <4>2, <3>3, <1>1
    <3>5. CASE n \notin DOMAIN items
      <4>1. n = new /\ ~(job.item # 0 /\ ~job.used)
        BY <3>5, <3>1, <1>1
      <4>2. m \notin DOMAIN items
        BY <4>1, <3>3, <1>1
      <4> QED BY <4>1, <4>2, <3>1, <1>1
    <3> QED BY <3>4, <3>5
  <2> QED BY <2>1, <2>2, <1>1
<1>2. ASSUME NEW n, NEW m, Carrier(n), Carrier(m), items'[n].contract = items'[m].contract,
             items'[n].contract \notin named'
      PROVE  n = m
  <2>1. CASE OldOne(n) /\ OldOne(m)
    <3>1. \A r \in Requests : ~(Remove(r) /\ request[r].id = items[n].contract)
      <4>1. items[n] \in Item
        BY <2>1, <1>t, ItemTypes
      <4>2. ~Deleted(n)
        BY <4>1, <1>2 DEF Deleted, Gone, Item, Carries
      <4> QED BY <4>2, <2>1, <1>t, OldItems
    <3>2. items[n].contract \notin named
      BY <3>1, <2>1, <1>2, <1>t, NamedStays
    <3> QED BY <3>2, <2>1, <1>2, <1>t DEF OneBase
  <2>2. CASE ~OldOne(n) \/ ~OldOne(m)
    <3>1. \E r \in Requests : /\ Create(r) \/ (Update(r) /\ request[r].fee # NoFee)
                              /\ items'[n].contract = request[r].id
      BY <2>2, <1>2, <1>t, BaseSteps
    <3> QED BY <3>1, <1>1, <1>2
  <2> QED BY <2>1, <2>2
<1> QED BY <1>2 DEF OneBase, Base

(* An update finds the item that it read, because the row is locked.        *)
LEMMA ReadFinds ==
    ASSUME Inv, Next, NEW q \in Requests, ReadItem(q)
    PROVE  ItemReadBy(q)'
<1>1. request[q] \in Change /\ TypeOK /\ OneBase
  BY JobTypes DEF Inv, ReadItem
<1>2. PICK k \in Ids : k = request[q].id
  BY <1>1 DEF Change
<1>3. PICK b \in BaseOf(k) :
        request' = [request EXCEPT ![q] =
          [request[q] EXCEPT !.at = "write", !.item = b, !.used = b # 0 /\ items[b].used]]
  BY <1>2 DEF ReadItem
<1>4. request'[q].id = k /\ request'[q].item = b /\ items' = items /\ named' = named
  BY <1>1, <1>2, <1>3 DEF ReadItem, TypeOK, Change
<1>5. /\ b \in {0} \cup ItemsOf(k)
      /\ (\E n \in ItemsOf(k) : Base(n)) => b # 0 /\ Base(b)
  BY <1>1, BaseOfType DEF Base
<1>6. ASSUME NEW n \in ItemsOf(k), Base(n), k \notin named PROVE n = b
  <2>1. b \in ItemsOf(k) /\ Base(b)
    BY <1>5, <1>6
  <2> QED BY <2>1, <1>1, <1>6 DEF OneBase, ItemsOf
<1>7. ItemsOf(k)' = ItemsOf(k) /\ \A n : Base(n)' <=> Base(n)
  BY <1>4 DEF ItemsOf, Base
<1> QED BY <1>4, <1>5, <1>6, <1>7 DEF ItemReadBy

LEMMA ItemReadStep ==
    ASSUME Inv, Next
    PROVE  ItemRead'
<1> USE ContractsAssumption
<1>t. TypeOK /\ TypeOK' /\ LiveHaveCustomers /\ ItemRead /\ Abouts /\ LocksHeld /\ IdsNew
  BY TypeStep DEF Inv
<1> SUFFICES ASSUME NEW q \in Requests, request'[q].op = "update",
                    request'[q].at = "write", request'[q].fee # NoFee
             PROVE  ItemReadBy(q)'
  BY DEF ItemRead, ItemReadBy
<1>1. CASE ReadItem(q)
  BY <1>1, ReadFinds
<1>2. CASE request'[q] = request[q]
  <2> DEFINE job == request[q]
  <2>1. /\ job.item # 0 => job.item \in ItemsOf(job.id)
        /\ job.id \notin named => \A n \in ItemsOf(job.id) : Base(n) => n = job.item
    BY <1>2, <1>t DEF ItemRead, ItemReadBy
  <2>2. rowLock[job.id] = q /\ contract[job.id].status = "LIVE"
    BY <1>2, <1>t DEF LocksHeld, HoldsLocks, Live
  <2>3. ASSUME NEW r \in Requests, Create(r) \/ Update(r), request[r].id = job.id
        PROVE  FALSE
    <3>1. CASE Create(r)
      BY <3>1, <2>2, <2>3, <1>t DEF Create, IdsNew
    <3>2. CASE Update(r)
      <4>1. r = q
        BY <3>2, <2>2, <2>3, <1>t DEF Update, LocksHeld, HoldsLocks
      <4>2. request'[r] = Idle
        BY <3>2, <1>t DEF Update, Commit, TypeOK
      <4> QED BY <4>1, <4>2 DEF Idle
    <3> QED BY <3>1, <3>2, <2>3
  <2>4. ASSUME job.id \notin named', NEW n \in DOMAIN items', items'[n].contract = job.id,
               Carries(items'[n])
        PROVE  n = job.item
    <3>1. n \in DOMAIN items /\ Base(n) /\ items'[n].contract = items[n].contract
      BY <2>3, <2>4, <1>t, BaseSteps
    <3>2. job.id \notin named
      <4>1. ASSUME NEW r \in Requests, Remove(r), request[r].id = job.id PROVE FALSE
        <5>1. q # None
          OBVIOUS
        <5> QED BY <4>1, <5>1, <2>2 DEF Remove
      <4> QED BY <4>1, <2>4, <1>t, NamedStays
    <3> QED BY <3>1, <3>2, <2>1, <2>4 DEF ItemsOf
  <2>5. job.item # 0 => job.item \in DOMAIN items' /\ items'[job.item].contract = job.id
    BY <2>1, <1>t, OldItems DEF ItemsOf
  <2>6. PICK k, i : k = job.id /\ i = job.item
    OBVIOUS
  <2> QED BY <2>4, <2>5, <2>6, <1>2 DEF ItemReadBy, ItemsOf, Base
<1>3. CASE Step(q) /\ ~ReadItem(q)
  <2>1. LockRow(q) /\ request[q] \in Change
    <3>1. request[q].op = "update"
      BY <1>3, <1>t, StillOpen
    <3> QED BY <3>1, <1>3, <1>t, StillOpen
  <2>2. request'[q] = [request[q] EXCEPT !.at = IF request[q].fee = NoFee
                                                THEN "write" ELSE "read"]
    BY <2>1, <1>t DEF LockRow, TypeOK
  <2> QED BY <2>1, <2>2 DEF Change
<1>4. CASE \E r \in Requests : Step(r) /\ r # q
  BY <1>4, <1>2, <1>t, OthersKeep
<1>5. CASE \E r \in Requests, u \in Users : Begin(r, u)
  BY <1>5, <1>2, <1>t, Arrivals
<1>6. CASE UNCHANGED request
  BY <1>6, <1>2
<1> QED BY <1>1, <1>3, <1>4, <1>5, <1>6, <1>t, LocksStay

LEMMA UsedStep ==
    ASSUME Inv, Next
    PROVE  UsedIsBilled'
<1>t. TypeOK /\ ItemRead /\ Abouts /\ UsedIsBilled
  BY DEF Inv
<1> SUFFICES ASSUME NEW n \in DOMAIN items', items'[n].used
             PROVE  items'[n].contract \in billed'
  BY DEF UsedIsBilled
<1>1. n \in DOMAIN items /\ items'[n].contract = items[n].contract
  BY <1>t, OldItems, NewItems
<1>2. items[n] \in Item /\ items[n].contract \in Ids
  BY <1>1, <1>t, ItemTypes DEF Item
<1>3. ~Deleted(n)
  BY <1>2 DEF Deleted, Gone, Item
<1>4. \A r \in Requests : ~(Remove(r) /\ request[r].id = items[n].contract)
  BY <1>3, <1>1, <1>t, OldItems
<1>5. CASE Charged(n)
  BY <1>1, <1>5 DEF Charged, Bill
<1>6. CASE ~Charged(n)
  <2>1. items[n].used
    <3>1. \/ items'[n] = items[n]
          \/ Resynced(n) \/ Rewritten(n) \/ Ended(n)
      BY <1>1, <1>3, <1>6, <1>t, OldItems
    <3>2. Resynced(n) => items'[n].used = items[n].used
      BY <1>2 DEF Resynced, Item
    <3>3. Rewritten(n) => items'[n].used = items[n].used
      BY <1>2, EditedType DEF Rewritten
    <3>4. Ended(n) => items'[n].used = items[n].used
      BY <1>2 DEF Ended, Item
    <3> QED BY <3>1, <3>2, <3>3, <3>4
  <2>2. items[n].contract \in billed
    BY <2>1, <1>1, <1>t DEF UsedIsBilled
  <2>3. \A k \in billed : k \in billed' \/ \E r \in Requests : Remove(r) /\ request[r].id = k
    <3>1. ASSUME NEW r \in Requests, NEW u \in Users, Begin(r, u) PROVE UNCHANGED billed
      BY <3>1, <1>t, Arrivals
    <3>2. \/ UNCHANGED billed
          \/ \E k \in Ids : Bill(k)
          \/ \E r \in Requests : Remove(r)
      BY <3>1 DEF Next, Step, TakeCode, Create, LockRow, ReadItem, Update, UpdateItem,
         Abandon, Upload, AddItem, DeactivateItem, Charge
    <3> QED BY <3>2 DEF Bill, Remove
  <2> QED BY <2>2, <2>3, <1>1, <1>4
<1> QED BY <1>5, <1>6

(* A contract that was created is never absent again, and one that was      *)
(* removed is not there again.                                             *)
LEMMA GoneStays ==
    ASSUME Inv, Next, NEW k \in Ids, contract[k].status # "ABSENT"
    PROVE  contract'[k].status # "ABSENT" /\ (Live(k)' => Live(k))
<1>t. TypeOK /\ IdsNew
  BY DEF Inv
<1>1. ASSUME NEW r \in Requests, Step(r)
      PROVE  contract'[k].status # "ABSENT" /\ (Live(k)' => Live(k))
  <2>1. ~(Create(r) /\ k = request[r].id)
    BY <1>t DEF IdsNew, Create
  <2> QED BY <2>1, <1>1, <1>t, ContractSteps DEF Live
<1>2. ASSUME NEW r \in Requests, NEW u \in Users, Begin(r, u) PROVE UNCHANGED contract
  BY <1>2, <1>t, Arrivals
<1>3. ASSUME UNCHANGED contract
      PROVE  contract'[k].status # "ABSENT" /\ (Live(k)' => Live(k))
  BY <1>3 DEF Live
<1> QED BY <1>1, <1>2, <1>3, <1>t, LocksStay

(* A step begins a request, is one of its own, or leaves it as it is.       *)
LEMMA OwnSteps ==
    ASSUME TypeOK, Next, NEW q \in Requests
    PROVE  \/ \E u \in Users : Begin(q, u)
           \/ Step(q)
           \/ request'[q] = request[q]
<1>1. ASSUME NEW r \in Requests, Step(r), r # q PROVE request'[q] = request[q]
  BY <1>1, OthersKeep
<1>2. ASSUME NEW r \in Requests, NEW u \in Users, Begin(r, u), r # q
      PROVE  request'[q] = request[q]
  BY <1>2, Arrivals
<1> QED BY <1>1, <1>2, LocksStay

LEMMA AboutStep ==
    ASSUME Inv, Next
    PROVE  Abouts'
<1>t. TypeOK /\ TypeOK' /\ ItemRead /\ Abouts
  BY TypeStep DEF Inv
<1> SUFFICES ASSUME NEW q \in Requests, request'[q].op \in {"update", "remove", "item"}
             PROVE  /\ contract'[request'[q].id].status # "ABSENT"
                    /\ request'[q].op = "item" =>
                         /\ request'[q].item \in DOMAIN items'
                         /\ items'[request'[q].item].contract = request'[q].id
  BY DEF Abouts, About, ItemsOf
<1>1. ASSUME NEW u \in Users, Begin(q, u)
      PROVE  /\ contract'[request'[q].id].status # "ABSENT"
             /\ request'[q].op = "item" =>
                  /\ request'[q].item \in DOMAIN items'
                  /\ items'[request'[q].item].contract = request'[q].id
  BY <1>1, <1>t, Arrivals DEF ItemsOf, Live
<1>2. CASE request'[q].op = request[q].op /\ request'[q].id = request[q].id
  <2>1. PICK k : k = request[q].id
    OBVIOUS
  <2>2. contract[k].status # "ABSENT"
    BY <2>1, <1>2, <1>t DEF Abouts, About
  <2>3. k \in Ids
    <3>1. request[q] # Idle
      BY <1>2 DEF Idle
    <3> QED BY <3>1, <2>1, <1>t, JobTypes
  <2>4. contract'[k].status # "ABSENT"
    BY <2>2, <2>3, GoneStays
  <2>5. ASSUME request'[q].op = "item", request'[q] = request[q]
        PROVE  /\ request'[q].item \in DOMAIN items'
               /\ items'[request'[q].item].contract = request'[q].id
    <3>1. PICK n \in DOMAIN items : n = request[q].item /\ items[n].contract = k
      BY <2>1, <2>5, <1>2, <1>t DEF Abouts, About, ItemsOf
    <3>2. n \in DOMAIN items' /\ items'[n].contract = items[n].contract
      BY <1>t, OldItems
    <3> QED BY <3>1, <3>2, <2>1, <2>5
  <2>6. request'[q].op = "item" => request'[q] = request[q]
    <3>1. ASSUME Step(q), request'[q].op = "item" PROVE FALSE
      BY <3>1, <1>t, StillOpen DEF Change
    <3>2. ASSUME NEW u \in Users, Begin(q, u) PROVE request[q].op # "item"
      BY <3>2, <1>t, Arrivals DEF Idle
    <3> QED BY <3>1, <3>2, <1>2, <1>t, OwnSteps
  <2> QED BY <2>1, <2>4, <2>5, <2>6, <1>2
<1>3. ASSUME Step(q) PROVE request'[q].op = request[q].op /\ request'[q].id = request[q].id
  BY <1>3, <1>t, StillOpen
<1> QED BY <1>1, <1>2, <1>3, <1>t, OwnSteps

-----------------------------------------------------------------------------
(* Requests that nobody has met.                                           *)

(* Who writes at a contract for which another request is under way leaves   *)
(* its mark.                                                               *)
LEMMA MetThere ==
    ASSUME NEW q \in Requests, request[q] # Idle, NEW r, r # q, NEW k,
           request[q].id = k, Meets(r, k)
    PROVE  k \in met'
<1>1. q \in Others(r, k)
  BY DEF Others
<1> QED BY <1>1 DEF Meets

(* A request that ends is Idle, and it is not the one that stays.           *)
LEMMA Ending ==
    ASSUME TypeOK, NEW r \in Requests, Commit(r), NEW q \in Requests,
           request[q] # Idle, request'[q] = request[q]
    PROVE  r # q
BY DEF Commit, TypeOK

(* As long as nobody has met a request that is under way, the items, the    *)
(* bills and the extra charges of its contract are as they were.           *)
LEMMA Unmet ==
    ASSUME Inv, Next, NEW q \in Requests, NEW k \in Ids, request[q] # Idle,
           request[q].id = k, request'[q] = request[q], Live(k), Live(k)', k \notin met'
    PROVE  /\ k \notin met
           /\ charges'[k] = charges[k]
           /\ k \in billed' => k \in billed
           /\ \A n \in DOMAIN items : items[n].contract = k => items'[n] = items[n]
<1> USE ContractsAssumption
<1>t. TypeOK /\ ItemRead /\ Abouts /\ IdsNew /\ q # None
  BY DEF Inv
<1>1. ASSUME NEW r \in Requests, Update(r) \/ UpdateItem(r) PROVE request[r].id # k
  <2>1. Commit(r) /\ Meets(r, request[r].id)
    BY <1>1 DEF Update, UpdateItem
  <2>2. r # q
    BY <2>1, <1>t, Ending
  <2> QED BY <2>1, <2>2, MetThere
<1>2. ASSUME NEW r \in Requests, Remove(r) PROVE request[r].id # k
  BY <1>2, <1>t DEF Remove, Live, TypeOK
<1>3. ASSUME NEW l, Elsewhere(l) PROVE l # k
  BY <1>3, <1>t, MetThere DEF Elsewhere
<1>4. k \notin met
  <2>1. ASSUME NEW r, NEW l, Meets(r, l) PROVE met \subseteq met'
    BY <2>1 DEF Meets
  <2>2. ASSUME NEW r \in Requests, Remove(r) PROVE k \in met => k \in met'
    BY <2>2, <1>2 DEF Remove, Forget
  <2>3. ASSUME NEW r \in Requests, NEW u \in Users, Begin(r, u) PROVE UNCHANGED met
    BY <2>3, <1>t, Arrivals
  <2> QED
    BY <2>1, <2>2, <2>3 DEF Next, Step, TakeCode, Create, LockRow, ReadItem, Update,
       UpdateItem, Abandon, Upload, AddItem, DeactivateItem, Bill, Charge, Elsewhere
<1>5. charges'[k] = charges[k] /\ (k \in billed' => k \in billed)
  <2>1. ASSUME NEW r \in Requests, Remove(r)
        PROVE  charges'[k] = charges[k] /\ (k \in billed' => k \in billed)
    BY <2>1, <1>2, <1>t DEF Remove, TypeOK
  <2>2. ASSUME NEW l \in Ids, Bill(l) \/ Charge(l)
        PROVE  charges'[k] = charges[k] /\ (k \in billed' => k \in billed)
    BY <2>2, <1>3, <1>t DEF Bill, Charge, TypeOK
  <2>3. ASSUME NEW r \in Requests, NEW u \in Users, Begin(r, u)
        PROVE  UNCHANGED <<charges, billed>>
    BY <2>3, <1>t, Arrivals
  <2>4. \/ UNCHANGED <<charges, billed>>
        \/ \E r \in Requests : Remove(r)
        \/ \E l \in Ids : Bill(l) \/ Charge(l)
    BY <2>3 DEF Next, Step, TakeCode, Create, LockRow, ReadItem, Update, UpdateItem,
       Abandon, Upload, AddItem, DeactivateItem
  <2> QED BY <2>1, <2>2, <2>4
<1>6. ASSUME NEW n \in DOMAIN items, items[n].contract = k
      PROVE  items'[n] = items[n]
  BY <1>1, <1>2, <1>3, <1>6, <1>t, OldItems
     DEF Resynced, Rewritten, Deleted, Ended, Charged, DeactivateItem, Bill
<1> QED BY <1>4, <1>5, <1>6

LEMMA UndisturbedStep ==
    ASSUME Inv, Next
    PROVE  Undisturbed'
<1>t. TypeOK /\ TypeOK' /\ ItemRead /\ Abouts /\ Undisturbed
  BY TypeStep DEF Inv
<1> SUFFICES ASSUME NEW q \in Requests, contract'[request'[q].id].status = "LIVE",
                    request'[q].id \notin met'
             PROVE  ReadStill(q)'
  BY DEF Undisturbed, ReadStill, Live
<1>1. ASSUME NEW u \in Users, Begin(q, u) PROVE ReadStill(q)'
  BY <1>1, <1>t, Arrivals DEF ReadStill
<1>2. ASSUME Step(q), request'[q].op # "idle" PROVE ReadStill(q)'
  <2>1. CASE request[q].op = "create"
    BY <2>1, <1>2, <1>t, StillOpen DEF ReadStill
  <2>2. CASE LockRow(q)
    <3>1. request[q] \in Change
      BY <2>2, <1>t, JobTypes DEF LockRow
    <3>2. request'[q] = [request[q] EXCEPT !.at = IF request[q].fee = NoFee
                                                  THEN "write" ELSE "read"]
      BY <2>2, <1>t DEF LockRow, TypeOK
    <3>3. request'[q].op = "update" /\ (request'[q].at = "write" => request'[q].fee = NoFee)
      BY <3>1, <3>2 DEF Change
    <3> QED BY <3>3 DEF ReadStill
  <2>3. CASE ReadItem(q)
    <3>1. request[q] \in Change
      BY <2>3, <1>t, JobTypes DEF ReadItem
    <3>2. PICK n \in BaseOf(request[q].id) :
            request' = [request EXCEPT ![q] =
              [request[q] EXCEPT !.at = "write", !.item = n,
                                 !.used = n # 0 /\ items[n].used]]
      BY <2>3 DEF ReadItem
    <3> DEFINE used == n # 0 /\ items[n].used
    <3>3. request'[q] = [request[q] EXCEPT !.at = "write", !.item = n, !.used = used]
      BY <3>2, <1>t DEF TypeOK
    <3>4. n # 0 => n \in ItemsOf(request[q].id) /\ items[n].active /\ items[n].fixed
      BY <3>1, <1>t, BaseOfType DEF Change
    <3>5. n # 0 => items[n] \in Item
      BY <3>4, <1>t, ItemTypes DEF ItemsOf
    <3>6. n # 0 => used = items[n].used
      BY <3>5 DEF Item
    <3> HIDE DEF used
    <3>7. request'[q].op = "update" /\ request'[q].item = n /\ request'[q].used = used
      BY <3>1, <3>3 DEF Change
    <3>8. items' = items
      BY <2>3 DEF ReadItem
    <3> QED BY <3>4, <3>6, <3>7, <3>8 DEF ReadStill
  <2> QED BY <2>1, <2>2, <2>3, <1>2, <1>t, StillOpen
<1>3. CASE request'[q].op = "idle"
  BY <1>3 DEF ReadStill
<1>4. CASE request'[q] = request[q] /\ request[q].op \in {"update", "remove", "item"}
  <2>1. PICK k : k = request[q].id
    OBVIOUS
  <2>2. request[q] # Idle /\ k \in Ids
    BY <2>1, <1>4, <1>t, JobTypes DEF Idle
  <2>3. Live(k)' /\ k \notin met'
    BY <2>1, <1>4 DEF Live
  <2>4. Live(k)
    BY <2>1, <2>2, <2>3, <1>4, <1>t, GoneStays DEF Abouts, About
  <2>5. /\ k \notin met
        /\ charges'[k] = charges[k]
        /\ k \in billed' => k \in billed
        /\ \A n \in DOMAIN items : items[n].contract = k => items'[n] = items[n]
    BY <2>1, <2>2, <2>3, <2>4, <1>4, Unmet
  <2>6. request[q].op = "remove" => k \notin billed' /\ charges'[k] = {}
    BY <2>1, <2>4, <2>5, <1>t DEF Undisturbed, ReadStill
  <2>7. ASSUME request[q].op = "item" PROVE ~items'[request[q].item].used
    BY <2>1, <2>4, <2>5, <2>7, <1>t DEF Undisturbed, ReadStill, Abouts, About, ItemsOf
  <2>8. ASSUME request[q].op = "update", request[q].at = "write", request[q].fee # NoFee,
               request[q].item # 0
        PROVE  /\ items'[request[q].item].active
               /\ items'[request[q].item].fixed
               /\ request[q].used = items'[request[q].item].used
    BY <2>1, <2>4, <2>5, <2>8, <1>t DEF Undisturbed, ReadStill, ItemRead, ItemReadBy, ItemsOf
  <2> QED BY <2>1, <2>6, <2>7, <2>8, <1>4 DEF ReadStill
<1>5. CASE request'[q] = request[q] /\ request[q].op = "create"
  BY <1>5 DEF ReadStill
<1>6. request[q].op \in {"idle", "create", "update", "remove", "item"}
  BY <1>t, JobTypes, PendingIs DEF Idle, Creation, Change, Removal, ItemChange
<1> QED BY <1>1, <1>2, <1>3, <1>4, <1>5, <1>6, <1>t, OwnSteps

LEMMA InvInit == Init => Inv
<1> SUFFICES ASSUME Init PROVE Inv
  OBVIOUS
<1>1. TypeOK /\ LiveHaveCustomers
  BY TypeInit
<1>2. /\ \A r \in Requests : request[r] = Idle /\ request[r].op = "idle"
      /\ \A k \in Ids : contract[k].status = "ABSENT"
      /\ DOMAIN items = {}
      /\ \A f \in Files : file[f].contract = None
  BY DEF Init, Idle, Absent
<1>3. LocksHeld /\ IdsNew /\ ItemRead /\ Abouts /\ Undisturbed
  BY <1>2 DEF LocksHeld, HoldsLocks, IdsNew, ItemRead, ItemReadBy, Abouts, About,
     Undisturbed, ReadStill
<1>4. CodesFree /\ ActiveItemsLive /\ FilesHaveContracts /\ OneBase /\ UsedIsBilled
  BY <1>2 DEF CodesFree, ActiveItemsLive, FilesHaveContracts, OneBase, UsedIsBilled, Live
<1> QED BY <1>1, <1>3, <1>4 DEF Inv

LEMMA InvStep == Inv /\ [Next]_vars => Inv'
<1>1. ASSUME Inv, Next PROVE Inv'
  <2>1. TypeOK' /\ LiveHaveCustomers'
    BY <1>1, TypeStep DEF Inv
  <2> QED
    BY <1>1, <2>1, LocksStep, IdsStep, CodesStep, ActiveStep, FilesStep, OneBaseStep,
       ItemReadStep, UsedStep, AboutStep, UndisturbedStep DEF Inv
<1>2. ASSUME Inv, UNCHANGED vars PROVE Inv'
  BY <1>2 DEF Inv, vars, TypeOK, LiveHaveCustomers, LocksHeld, HoldsLocks, IdsNew,
     CodesFree, Codes, ActiveItemsLive, FilesHaveContracts, OneBase, Base, ItemRead,
     ItemReadBy, ItemsOf, UsedIsBilled, Abouts, About, Undisturbed, ReadStill, Live
<1> QED BY <1>1, <1>2

LEMMA InvHolds == Spec => []Inv
BY InvInit, InvStep, PTL DEF Spec

(* A creation writes the code that it found free in its year, since nobody  *)
(* else has written there since: no two contracts of a year share one.      *)
THEOREM CodesStayFree == Spec => []CodesFree
<1>1. Inv => CodesFree
  BY DEF Inv
<1> QED BY <1>1, InvHolds, PTL

(* Whatever updates of the fee, bills and changes of items overlap, only a   *)
(* request that names an item after the base fee itself, or a creation that *)
(* lists two, ever gives a contract a second item that charges it.         *)
THEOREM OneBaseFeeAtATime == Spec => []OneBaseFee
<1>1. ASSUME Inv PROVE OneBaseFee
  <2> SUFFICES ASSUME NEW k \in Ids \ named
               PROVE  Cardinality({n \in ItemsOf(k) : Carries(items[n])}) <= 1
    BY DEF OneBaseFee
  <2> DEFINE S == {n \in ItemsOf(k) : Carries(items[n])}
  <2>1. \A n, m \in S : n = m
    BY <1>1 DEF Inv, OneBase, Base, ItemsOf
  <2>2. CASE S = {}
    <3>1. Cardinality({}) = 0
      BY FS_EmptySet
    <3> HIDE DEF S
    <3>2. Cardinality(S) <= 1
      BY <2>2, <3>1
    <3> QED BY <3>2 DEF S
  <2>3. CASE S # {}
    <3>1. PICK n \in S : TRUE
      BY <2>3
    <3>2. S = {n}
      <4> HIDE DEF S
      <4> QED BY <2>1, <3>1
    <3>3. Cardinality({n}) = 1
      BY FS_Singleton
    <3> QED BY <3>2, <3>3
  <2> QED BY <2>2, <2>3
<1> QED BY <1>1, InvHolds, PTL

(* Every file that is attached is attached to a contract that exists.       *)
THEOREM FilesStayWithContracts == Spec => []FilesHaveContracts
<1>1. Inv => FilesHaveContracts
  BY DEF Inv
<1> QED BY <1>1, InvHolds, PTL

(* Only a bill or an extra charge that is made between the count and the     *)
(* removal, or another change of the contract then, lets a contract go that *)
(* bills or extra charges refer to.                                        *)
THEOREM RecordsStayWithContract == Spec => RecordsKeepContract
<1> DEFINE Keep == \A k \in Ids \ met :
                     Live(k) /\ (k \in billed \/ charges[k] # {}) => Live(k)'
<1>1. ASSUME Inv, Next PROVE Keep
  <2> SUFFICES ASSUME NEW k \in Ids, k \notin met, Live(k),
                      k \in billed \/ charges[k] # {}, ~Live(k)'
               PROVE  FALSE
    OBVIOUS
  <2>1. PICK r \in Requests : Remove(r) /\ request[r].id = k
    BY <1>1, LiveStays DEF Inv
  <2> QED BY <1>1, <2>1 DEF Inv, Undisturbed, ReadStill, Remove
<1>2. Inv /\ [Next]_vars => [Keep]_vars
  BY <1>1
<1>3. Spec => [][Keep]_vars
  <2> HIDE DEF Keep
  <2> QED BY <1>2, InvHolds, PTL DEF Spec
<1> QED BY <1>3 DEF RecordsKeepContract

LEMMA BilledStep ==
    ASSUME Inv, Next, NEW n \in DOMAIN items, items[n].used, items[n].contract \notin met
    PROVE  /\ items'[n].amount = items[n].amount
           /\ items'[n].base = items[n].base
           /\ items'[n].fixed = items[n].fixed
           /\ items'[n].active => items[n].active
<1>t. /\ TypeOK /\ ItemRead /\ Abouts /\ Undisturbed /\ UsedIsBilled
      /\ items[n] \in Item
  BY ItemTypes DEF Inv
<1> DEFINE Same == /\ items'[n].amount = items[n].amount
                   /\ items'[n].base = items[n].base
                   /\ items'[n].fixed = items[n].fixed
                   /\ items'[n].active => items[n].active
<1>1. CASE Resynced(n)
  <2>1. PICK r \in Requests :
          /\ Update(r)
          /\ request[r].fee # NoFee
          /\ request[r].item = n
          /\ items[n].contract = request[r].id
          /\ items'[n] = IF request[r].used THEN [items[n] EXCEPT !.active = FALSE]
                         ELSE [items[n] EXCEPT !.amount = request[r].fee, !.base = TRUE]
    BY <1>1 DEF Resynced
  <2>2. Live(request[r].id) /\ n # 0
    BY <2>1, <1>t, ItemTypes DEF Inv, LocksHeld, HoldsLocks, Update
  <2>3. request[r].used = items[n].used
    BY <2>1, <2>2, <1>t DEF Undisturbed, ReadStill, Update
  <2> QED BY <2>1, <2>3, <1>t DEF Item
<1>2. CASE Rewritten(n)
  <2>1. PICK r \in Requests :
          UpdateItem(r) /\ request[r].item = n /\ items[n].contract = request[r].id
    BY <1>2 DEF Rewritten
  <2> QED BY <2>1, <1>t DEF Undisturbed, ReadStill, UpdateItem
<1>3. CASE Deleted(n)
  <2>1. PICK r \in Requests : Remove(r) /\ items[n].contract = request[r].id
    BY <1>3 DEF Deleted
  <2> QED BY <2>1, <1>t DEF Undisturbed, ReadStill, Remove, UsedIsBilled
<1>4. CASE Ended(n)
  BY <1>4, <1>t DEF Ended, Item
<1>5. CASE Charged(n)
  BY <1>5, <1>t DEF Charged, Item
<1>6. CASE items'[n] = items[n]
  BY <1>6
<1> QED BY <1>1, <1>2, <1>3, <1>4, <1>5, <1>6, <1>t, OldItems

(* Only what is done for a contract between the count of its bills and a    *)
(* change lets an item that a bill has used change its amount, its name or  *)
(* its kind, or become active again.                                       *)
THEOREM BilledItemsStay == Spec => BilledItemsKept
<1> DEFINE Keep == \A n \in DOMAIN items :
             items[n].used /\ items[n].contract \notin met =>
               /\ items'[n].amount = items[n].amount
               /\ items'[n].base = items[n].base
               /\ items'[n].fixed = items[n].fixed
               /\ items'[n].active => items[n].active
<1>1. Inv /\ [Next]_vars => [Keep]_vars
  BY BilledStep
<1>2. Spec => [][Keep]_vars
  <2> HIDE DEF Keep
  <2> QED BY <1>1, InvHolds, PTL DEF Spec
<1> QED BY <1>2 DEF BilledItemsKept

LEMMA FeeStep ==
    ASSUME Inv, Next, NEW r \in Requests,
           request[r].op = "update", request[r].at = "write", request[r].fee # NoFee,
           request[r].id \notin met, request'[r] = Idle, items' # items
    PROVE  \E n \in DOMAIN items' :
             /\ items'[n].contract = request[r].id
             /\ Carries(items'[n])
             /\ items'[n].amount = request[r].fee
<1>t. TypeOK /\ ItemRead /\ Undisturbed /\ Idle.op = "idle"
  BY DEF Inv, Idle
<1>1. Update(r)
  <2>1. ~\E u \in Users : Begin(r, u)
    BY <1>t, Arrivals
  <2>2. Step(r)
    BY <2>1, <1>t, OwnSteps
  <2> QED BY <2>2 DEF Step, TakeCode, Create, LockRow, ReadItem, Remove, UpdateItem, Abandon
<1> DEFINE job == request[r]
           new == Len(items) + 1
<1>2. CASE job.item = 0 \/ job.used
  <2>1. /\ DOMAIN items' = IF job.item # 0 /\ ~job.used THEN DOMAIN items
                           ELSE DOMAIN items \cup {new}
        /\ items'[new] = BaseItem(job.id, job.fee)
    BY <1>1, <1>2, <1>t, SyncedItems
  <2>2. new \in DOMAIN items'
    BY <2>1, <1>2
  <2> QED BY <2>1, <2>2 DEF BaseItem, BaseFee, Row, Carries
<1>3. CASE job.item # 0 /\ ~job.used
  <2>1. /\ job.item \in DOMAIN items'
        /\ items'[job.item] = [items[job.item] EXCEPT !.amount = job.fee, !.base = TRUE]
        /\ items[job.item].contract = job.id
        /\ items[job.item] \in Item
    BY <1>1, <1>3, <1>t, SyncedItems, ItemTypes DEF ItemsOf
  <2>2. items[job.item].active /\ items[job.item].fixed
    <3>1. Live(job.id)
      BY DEF Inv, LocksHeld, HoldsLocks
    <3> QED BY <3>1, <1>3, <1>t DEF Undisturbed, ReadStill
  <2> QED BY <2>1, <2>2 DEF Item, Carries
<1> QED BY <1>2, <1>3

(* Only what is done for a contract between an update's read and its write   *)
(* keeps the update from leaving an active item that charges its base fee.  *)
THEOREM FeeStaysCharged == Spec => FeeIsCharged
<1> DEFINE Charges ==
             \A r \in Requests :
               (/\ request[r].op = "update"
                /\ request[r].at = "write"
                /\ request[r].fee # NoFee
                /\ request[r].id \notin met
                /\ request'[r] = Idle
                /\ items' # items) =>
                 \E n \in DOMAIN items' :
                   /\ items'[n].contract = request[r].id
                   /\ Carries(items'[n])
                   /\ items'[n].amount = request[r].fee
<1>1. Inv /\ [Next]_vars => [Charges]_vars
  BY FeeStep
<1>2. Spec => [][Charges]_vars
  <2> HIDE DEF Charges
  <2> QED BY <1>1, InvHolds, PTL DEF Spec
<1> QED BY <1>2 DEF FeeIsCharged
=============================================================================
