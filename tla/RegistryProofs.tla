--------------------------- MODULE RegistryProofs ---------------------------
(***************************************************************************)
(* Theorems about Registry, for every set of rows, names, users and        *)
(* requests, and for sequences of rows and owners of any length.           *)
(***************************************************************************)
EXTENDS Registry, FiniteSetTheorems, SequenceTheorems, TLAPS

USE DEF Go, others

-----------------------------------------------------------------------------
(* The last code.                                                          *)

(* Of a finite set of natural numbers that is not empty, one is largest: a  *)
(* smallest subset that had none would lose any of its elements and have    *)
(* one, which that element cannot be above or below.                       *)
LEMMA LastOf ==
    ASSUME NEW S, IsFiniteSet(S), S # {}, \A n \in S : n \in Nat
    PROVE  \E n \in S : \A m \in S : m <= n
<1> DEFINE Bad == {U \in SUBSET S : U # {} /\ ~\E n \in U : \A m \in U : m <= n}
<1> SUFFICES ASSUME Bad # {} PROVE FALSE
  OBVIOUS
<1>1. IsWellFoundedOn(StrictSubsetOrdering(S), SUBSET S)
  BY FS_StrictSubsetOrderingWellFounded, FS_FiniteSubsetsOfFinite
<1>2. PICK U \in Bad : \A V \in Bad : <<V, U>> \notin StrictSubsetOrdering(S)
  <2>1. Bad \subseteq SUBSET S
    OBVIOUS
  <2> HIDE DEF Bad
  <2> QED BY <1>1, <2>1, WFMin
<1>3. U \in SUBSET S /\ U # {} /\ ~\E n \in U : \A m \in U : m <= n
  BY <1>2
<1>4. PICK x \in U : TRUE
  BY <1>3
<1>5. U \ {x} \notin Bad
  <2>1. U \ {x} \in SUBSET S /\ U \ {x} \subseteq U /\ U \ {x} # U
    BY <1>3, <1>4
  <2>2. <<U \ {x}, U>> \in StrictSubsetOrdering(S)
    BY <1>3, <2>1 DEF StrictSubsetOrdering
  <2> HIDE DEF Bad
  <2> QED BY <1>2, <2>2
<1>6. U \ {x} # {}
  <2> SUFFICES ASSUME U \ {x} = {} PROVE FALSE
    OBVIOUS
  <2>1. U = {x} /\ x <= x
    BY <1>3, <1>4
  <2> QED BY <2>1, <1>3
<1>7. PICK n \in U \ {x} : \A m \in U \ {x} : m <= n
  BY <1>3, <1>5, <1>6
<1>8. CASE x <= n
  BY <1>3, <1>7, <1>8
<1>9. CASE ~(x <= n)
  <2>1. x \in Nat /\ \A m \in U : m \in Nat
    BY <1>3, <1>4
  <2>2. \A m \in U : m <= x
    BY <1>7, <1>9, <2>1
  <2> QED BY <1>3, <1>4, <2>2
<1> QED BY <1>8, <1>9

LEMMA CodesFinite ==
    ASSUME TypeOK
    PROVE  IsFiniteSet(Codes) /\ \A n \in Codes : n \in Nat
<1> DEFINE L == {i \in Ids : Live(i)}
           f == [i \in L |-> row[i].code]
<1>1. IsFiniteSet(L)
  BY FS_Subset, RegistryAssumption
<1>2. f \in Surjection(L, Codes)
  BY DEF Surjection, Codes
<1>3. IsFiniteSet(Codes)
  <2> HIDE DEF L, f
  <2> QED BY <1>1, <1>2, FS_Surjection
<1> QED BY <1>3 DEF Codes, TypeOK, Row

(* The next code is no row's yet.                                          *)
LEMMA NextCodeFree ==
    ASSUME TypeOK
    PROVE  NextCode \in Nat /\ NextCode \notin Codes
<1>1. CASE Codes = {}
  BY <1>1 DEF NextCode
<1>2. CASE Codes # {}
  <2> DEFINE last == CHOOSE n \in Codes : \A m \in Codes : m <= n
  <2>1. last \in Codes /\ \A m \in Codes : m <= last
    BY <1>2, CodesFinite, LastOf
  <2>2. NextCode = 1 + last
    BY <1>2 DEF NextCode
  <2> HIDE DEF last
  <2>3. last \in Nat
    BY <2>1, CodesFinite
  <2>4. 1 + last \notin Codes
    <3> SUFFICES ASSUME 1 + last \in Codes PROVE FALSE
      OBVIOUS
    <3> QED BY <2>1, <2>3
  <2> QED BY <2>2, <2>3, <2>4
<1> QED BY <1>1, <1>2

-----------------------------------------------------------------------------
(* Types.                                                                  *)

Creation == [op : {"create"}, at : {"row", "lock", "check", "write"}, by : Users,
             id : Ids \cup {None}, code : Nat,
             rows : Seq(NamePair), owners : Seq(Users), made : SUBSET Ids]

Renaming == [op : {"update"}, at : {"lock", "check", "write"}, by : Users, id : Ids,
             name : Names, full : Names,
             asked : [name : Names \cup {None}, full : Names \cup {None}]]

Removal == [op : {"remove"}, at : {"write"}, by : Users, id : Ids]

Reassignment == [op : {"owners"}, at : {"write"}, by : Users, id : Ids,
                 owners : Seq(Users), seen : SUBSET Users]

LEMMA PendingIs ==
    Pending = {Idle} \cup Creation \cup Renaming \cup Removal \cup Reassignment
BY DEF Pending, Creation, Renaming, Removal, Reassignment

LEMMA JobTypes ==
    ASSUME TypeOK, NEW r \in Requests
    PROVE  /\ request[r] \in Pending
           /\ request[r].op = "create" => request[r] \in Creation
           /\ request[r].op = "update" => request[r] \in Renaming
           /\ request[r].op = "remove" => request[r] \in Removal
           /\ request[r].op = "owners" => request[r] \in Reassignment
           /\ request[r].op \in {"idle", "create", "update", "remove", "owners"}
           /\ request[r] = Idle <=> request[r].op = "idle"
<1>1. request[r] \in Pending
  BY DEF TypeOK
<1> QED
  BY <1>1, PendingIs DEF Idle, Creation, Renaming, Removal, Reassignment

(* A creation that is past the choice of an id has a row to create, and an  *)
(* id that is no row's yet; what it has made is there or has been.         *)
CreateJob(r) ==
    request[r].op = "create" =>
      /\ request[r].at = "row" <=> request[r].id = None
      /\ request[r].at # "row" =>
           request[r].rows # <<>> /\ row[request[r].id].status = "ABSENT"
      /\ \A i \in request[r].made : row[i].status # "ABSENT"

CreateJobs == \A r \in Requests : CreateJob(r)

(* update falls back on the names of a row that is there.                  *)
LiveNamed == \A i \in Ids : Live(i) => row[i].name \in Names /\ row[i].full \in Names

(* What a step may do to a row.                                            *)
LEMMA RowToCreate ==
    ASSUME TypeOK, CreateJobs, NEW r \in Requests,
           request[r].op = "create", request[r].at # "row"
    PROVE  /\ request[r] \in Creation
           /\ request[r].id \in Ids
           /\ Head(request[r].rows) \in NamePair
           /\ Tail(request[r].rows) \in Seq(NamePair)
           /\ row[request[r].id].status = "ABSENT"
<1>1. request[r] \in Creation
  BY JobTypes
<1>2. /\ request[r].id \in Ids
      /\ request[r].rows \in Seq(NamePair) /\ request[r].rows # <<>>
      /\ row[request[r].id].status = "ABSENT"
  BY <1>1 DEF CreateJobs, CreateJob, Creation
<1> QED BY <1>1, <1>2, HeadTailProperties

(* The next row of an import, or the answer.                               *)
LEMMA RowDoneIs ==
    ASSUME TypeOK, CreateJobs, NEW r \in Requests,
           request[r].op = "create", request[r].at # "row",
           NEW made \in SUBSET Ids, RowDone(r, made)
    PROVE  /\ request'[r] \in Creation
           /\ request'[r].at = "row" /\ request'[r].id = None
           /\ request'[r].made = made
           /\ request'[r].by = request[r].by
           /\ request'[r].owners = request[r].owners
           /\ request' = [request EXCEPT ![r] = request'[r]]
           /\ UNCHANGED quiet
<1> DEFINE p == [request[r] EXCEPT !.at = "row", !.id = None, !.code = 0,
                                   !.rows = Tail(@), !.made = made]
<1>1. request[r] \in Creation /\ Tail(request[r].rows) \in Seq(NamePair)
  BY RowToCreate
<1>2. p \in Creation /\ p.at = "row" /\ p.id = None /\ p.made = made
      /\ p.by = request[r].by /\ p.owners = request[r].owners
  BY <1>1 DEF Creation
<1>3. request' = [request EXCEPT ![r] = p] /\ UNCHANGED quiet
  BY DEF RowDone
<1> HIDE DEF p
<1>4. request'[r] = p
  BY <1>3 DEF TypeOK
<1> QED BY <1>2, <1>3, <1>4

LEMMA UnlockType ==
    ASSUME TypeOK, NEW r, Unlock(r)
    PROVE  lock' \in Requests \cup {None}
BY DEF Unlock, TypeOK

(* Steps that leave the rows alone.                                        *)
LEMMA ReadTypes ==
    ASSUME TypeOK, LiveNamed, NEW r \in Requests, NEW p \in Pending,
           request' = [request EXCEPT ![r] = p], quiet' \in BOOLEAN,
           lock' \in Requests \cup {None}, UNCHANGED <<row, others>>
    PROVE  TypeOK' /\ LiveNamed'
BY DEF TypeOK, LiveNamed, Live

(* Steps that write one row.                                               *)
LEMMA WriteTypes ==
    ASSUME TypeOK, LiveNamed, NEW r \in Requests, NEW p \in Pending,
           request' = [request EXCEPT ![r] = p], UNCHANGED <<quiet, kind, used, gone>>,
           lock' \in Requests \cup {None}, referred' \in SUBSET Ids,
           orphaned' \in BOOLEAN, NEW i \in Ids, NEW new \in Row,
           row' = [row EXCEPT ![i] = new],
           new.status = "LIVE" => new.name \in Names /\ new.full \in Names
    PROVE  TypeOK' /\ LiveNamed'
BY DEF TypeOK, LiveNamed, Live

LEMMA IdlePending == Idle \in Pending
BY DEF Pending

LEMMA StepTypes ==
    ASSUME TypeOK, LiveNamed, CreateJobs, NEW r \in Requests, Step(r)
    PROVE  TypeOK' /\ LiveNamed'
<1> DEFINE job == request[r]
<1>0. request[r] \in Pending /\ quiet \in BOOLEAN /\ lock \in Requests \cup {None}
  BY DEF TypeOK
<1>1. ASSUME NEW i \in Ids, TakeRow(r, i) PROVE TypeOK' /\ LiveNamed'
  <2> DEFINE p == [job EXCEPT !.at = "lock", !.id = i]
  <2>1. job \in Creation
    BY <1>1, JobTypes DEF TakeRow
  <2>2. p \in Pending
    BY <2>1, PendingIs DEF Creation
  <2>3. request' = [request EXCEPT ![r] = p] /\ UNCHANGED <<quiet, lock, row, others>>
    BY <1>1 DEF TakeRow
  <2> HIDE DEF p
  <2> QED BY <1>0, <2>2, <2>3, ReadTypes
<1>2. CASE TakeLock(r)
  <2> DEFINE p == [job EXCEPT !.at = "check"]
  <2>1. job \in Creation \/ job \in Renaming
    BY <1>2, JobTypes DEF TakeLock, Removal, Reassignment
  <2>2. p \in Pending
    BY <2>1, PendingIs DEF Creation, Renaming
  <2>3. request' = [request EXCEPT ![r] = p] /\ lock' = r /\ UNCHANGED <<quiet, row, others>>
    BY <1>2 DEF TakeLock
  <2> HIDE DEF p
  <2> QED BY <1>0, <2>2, <2>3, ReadTypes
<1>3. CASE CheckCreate(r)
  <2> DEFINE p == [job EXCEPT !.at = "write", !.code = NextCode]
  <2>1. job \in Creation /\ NextCode \in Nat
    BY <1>3, JobTypes, NextCodeFree DEF CheckCreate
  <2>2. p \in Pending
    BY <2>1, PendingIs DEF Creation
  <2>3. request' = [request EXCEPT ![r] = p] /\ UNCHANGED <<quiet, lock, row, others>>
    BY <1>3 DEF CheckCreate
  <2> HIDE DEF p
  <2> QED BY <1>0, <2>2, <2>3, ReadTypes
<1>4. CASE FailCreate(r) \/ FailInsert(r)
  <2>1. /\ job.op = "create" /\ job.at # "row" /\ RowDone(r, job.made)
        /\ Unlock(r) /\ UNCHANGED <<row, others>>
    BY <1>4 DEF FailCreate, FailInsert
  <2>2. job.made \in SUBSET Ids
    BY <2>1, JobTypes DEF Creation
  <2>3. /\ request'[r] \in Creation
        /\ request' = [request EXCEPT ![r] = request'[r]]
        /\ UNCHANGED quiet
    BY <2>1, <2>2, RowDoneIs
  <2>4. request'[r] \in Pending
    BY <2>3, PendingIs
  <2> QED BY <1>0, <2>1, <2>3, <2>4, ReadTypes, UnlockType
<1>5. CASE Insert(r)
  <2> DEFINE new == [status |-> "LIVE", name |-> Head(job.rows).name,
                     full |-> Head(job.rows).full, code |-> job.code,
                     owners |-> Named(job.owners), primary |-> First(job.owners)]
  <2>1. /\ job.op = "create" /\ job.at # "row" /\ RowDone(r, job.made \cup {job.id})
        /\ Unlock(r) /\ row' = [row EXCEPT ![job.id] = new] /\ UNCHANGED others
    BY <1>5 DEF Insert
  <2>2. /\ job \in Creation /\ job.id \in Ids /\ Head(job.rows) \in NamePair
        /\ job.made \cup {job.id} \in SUBSET Ids
    BY <2>1, RowToCreate DEF Creation
  <2>3. Named(job.owners) \in SUBSET Users /\ First(job.owners) \in SUBSET Users
    <3>1. job.owners \in Seq(Users)
      BY <2>2 DEF Creation
    <3>2. Named(job.owners) \in SUBSET Users
      BY <3>1, ElementOfSeq, LenProperties DEF Named
    <3>3. First(job.owners) \in SUBSET Users
      BY <3>1, HeadTailProperties DEF First
    <3> QED BY <3>2, <3>3
  <2>4. new \in Row /\ new.name \in Names /\ new.full \in Names
    BY <2>2, <2>3 DEF Row, NamePair, Creation
  <2>5. /\ request'[r] \in Creation
        /\ request' = [request EXCEPT ![r] = request'[r]]
        /\ UNCHANGED quiet
    BY <2>1, <2>2, RowDoneIs
  <2>6. request'[r] \in Pending
    BY <2>5, PendingIs
  <2>7. referred' \in SUBSET Ids /\ orphaned' \in BOOLEAN /\ UNCHANGED <<kind, used, gone>>
    BY <2>1 DEF TypeOK
  <2>8. lock' \in Requests \cup {None}
    BY <2>1, UnlockType
  <2>9. row' = [row EXCEPT ![job.id] = new]
    BY <2>1
  <2> HIDE DEF new
  <2> QED BY <2>2, <2>4, <2>5, <2>6, <2>7, <2>8, <2>9, WriteTypes
<1>6. CASE Respond(r) \/ Abandon(r)
  <2>1. /\ request' = [request EXCEPT ![r] = Idle] /\ UNCHANGED <<quiet, row, others>>
        /\ lock' \in Requests \cup {None}
    BY <1>0, <1>6, UnlockType DEF Respond, Abandon
  <2> QED BY <1>0, <2>1, IdlePending, ReadTypes
<1>7. CASE CheckUpdate(r)
  <2> DEFINE p == [job EXCEPT !.at = "write"]
  <2>1. job \in Renaming
    BY <1>7, JobTypes DEF CheckUpdate
  <2>2. p \in Pending
    BY <2>1, PendingIs DEF Renaming
  <2>3. request' = [request EXCEPT ![r] = p] /\ UNCHANGED <<quiet, lock, row, others>>
    BY <1>7 DEF CheckUpdate
  <2> HIDE DEF p
  <2> QED BY <1>0, <2>2, <2>3, ReadTypes
<1>8. CASE WriteUpdate(r)
  <2> DEFINE new == [row[job.id] EXCEPT !.name = job.name, !.full = job.full]
  <2>1. job \in Renaming
    BY <1>8, JobTypes DEF WriteUpdate
  <2>2. job.id \in Ids /\ job.name \in Names /\ job.full \in Names
    BY <2>1 DEF Renaming
  <2>3. new \in Row /\ new.name \in Names /\ new.full \in Names
    BY <2>2 DEF TypeOK, Row
  <2>4. row' = [row EXCEPT ![job.id] = new]
    BY <1>8, <2>2 DEF WriteUpdate, TypeOK, Row
  <2>5. /\ request' = [request EXCEPT ![r] = Idle]
        /\ UNCHANGED <<quiet, kind, used, gone>>
        /\ referred' \in SUBSET Ids /\ orphaned' \in BOOLEAN
    BY <1>8 DEF WriteUpdate, TypeOK
  <2>6. lock' \in Requests \cup {None}
    BY <1>8, UnlockType DEF WriteUpdate
  <2> HIDE DEF new
  <2> QED BY <2>2, <2>3, <2>4, <2>5, <2>6, IdlePending, WriteTypes
<1>9. CASE WriteOwners(r)
  <2> DEFINE rest == row[job.id].owners \ job.seen
             new == [row[job.id] EXCEPT
                       !.owners = rest \cup Named(job.owners),
                       !.primary = (@ \cap rest) \cup First(job.owners)]
  <2>1. job \in Reassignment
    BY <1>9, JobTypes DEF WriteOwners
  <2>2. job.id \in Ids /\ job.owners \in Seq(Users)
    BY <2>1 DEF Reassignment
  <2>3. Named(job.owners) \in SUBSET Users
    BY <2>2, ElementOfSeq, LenProperties DEF Named
  <2>4. First(job.owners) \in SUBSET Users
    BY <2>2, HeadTailProperties DEF First
  <2>5. row[job.id] \in Row
    BY <2>2 DEF TypeOK
  <2>6. new \in Row /\ new.status = row[job.id].status
        /\ new.name = row[job.id].name /\ new.full = row[job.id].full
    BY <2>3, <2>4, <2>5 DEF Row
  <2>7. row' = [row EXCEPT ![job.id] = new]
    BY <1>9, <2>2, <2>5 DEF WriteOwners, TypeOK, Row
  <2>8. /\ request' = [request EXCEPT ![r] = Idle]
        /\ UNCHANGED <<quiet, kind, used, gone>>
        /\ referred' \in SUBSET Ids /\ orphaned' \in BOOLEAN
        /\ lock' \in Requests \cup {None}
    BY <1>9 DEF WriteOwners, TypeOK
  <2> HIDE DEF new
  <2>9. new.status = "LIVE" => new.name \in Names /\ new.full \in Names
    BY <2>2, <2>6 DEF LiveNamed, Live
  <2> QED BY <2>2, <2>6, <2>7, <2>8, <2>9, IdlePending, WriteTypes
<1>10. CASE WriteRemove(r)
  <2> DEFINE new == [Absent EXCEPT !.status = "DELETED"]
  <2>1. job.id \in Ids
    BY <1>10, JobTypes DEF WriteRemove, Removal
  <2>2. new \in Row /\ new.status # "LIVE"
    BY DEF Row, Absent
  <2>3. row' = [row EXCEPT ![job.id] = new]
    BY <1>10 DEF WriteRemove
  <2>4. /\ request' = [request EXCEPT ![r] = Idle]
        /\ UNCHANGED <<quiet, kind, used, gone>>
        /\ referred' \in SUBSET Ids
        /\ lock' \in Requests \cup {None}
    BY <1>10 DEF WriteRemove, TypeOK
  <2>5. orphaned' \in BOOLEAN
    BY <1>10 DEF WriteRemove, TypeOK
  <2> HIDE DEF new
  <2> QED BY <2>1, <2>2, <2>3, <2>4, <2>5, IdlePending, WriteTypes
<1> QED
  BY <1>1, <1>2, <1>3, <1>4, <1>5, <1>6, <1>7, <1>8, <1>9, <1>10 DEF Step

-----------------------------------------------------------------------------
(* The courses of requests.                                                *)

PrimaryOf(c) ==
    /\ row[c].primary \subseteq row[c].owners
    /\ row[c].primary = {} \/ \E u \in Users : row[c].primary = {u}
    /\ gone = {} => row[c].primary # {}

(* What a request has read of its row is still so, and whoever sent it may  *)
(* touch the row.                                                          *)
SoundJob(job) ==
    /\ job.op \in {"update", "owners", "remove"} => Accessible(job.by, job.id)
    /\ job.op = "update" =>
         /\ job.name = IF job.asked.name = None THEN row[job.id].name ELSE job.asked.name
         /\ job.full = IF job.asked.full = None THEN row[job.id].full ELSE job.asked.full
    /\ job.op = "owners" =>
         kind = "customer" /\ job.owners # <<>> /\ job.seen = row[job.id].owners
    /\ job.op = "remove" => job.id \notin Counted
    /\ job.op = "create" =>
         /\ kind = "customer" => job.owners # <<>>
         /\ \A i \in job.made : Live(i)

(* A request that has just come.                                           *)
LEMMA Arrivals ==
    ASSUME TypeOK, LiveNamed, NEW r \in Requests, NEW u \in Users, Begin(r, u)
    PROVE  /\ request[r] = Idle
           /\ UNCHANGED <<row, lock, others>>
           /\ quiet' = (quiet /\ \A q \in Requests : request[q] = Idle)
           /\ \E p \in Pending :
                /\ request' = [request EXCEPT ![r] = p]
                /\ SoundJob(p)
                /\ p.op = "create" => p.at = "row" /\ p.id = None /\ p.made = {}
                /\ p.op = "update" => p.at = "lock"
<1> USE RegistryAssumption
<1>1. ASSUME NEW p \in Pending, Arrive(r, p), UNCHANGED <<row, lock, others>>,
             SoundJob(p),
             p.op = "create" => p.at = "row" /\ p.id = None /\ p.made = {},
             p.op = "update" => p.at = "lock"
      PROVE  /\ request[r] = Idle
             /\ UNCHANGED <<row, lock, others>>
             /\ quiet' = (quiet /\ \A q \in Requests : request[q] = Idle)
             /\ \E x \in Pending :
                  /\ request' = [request EXCEPT ![r] = x]
                  /\ SoundJob(x)
                  /\ x.op = "create" => x.at = "row" /\ x.id = None /\ x.made = {}
                  /\ x.op = "update" => x.at = "lock"
  BY <1>1, Zenon DEF Arrive
<1>2. ASSUME NEW rows \in RequestedRows, NEW owners \in RequestedOwners,
             BeginCreateCustomers(r, u, rows, owners)
      PROVE  \E p \in Pending :
               /\ Arrive(r, p) /\ UNCHANGED <<row, lock, others>> /\ SoundJob(p)
               /\ p.op = "create" => p.at = "row" /\ p.id = None /\ p.made = {}
               /\ p.op = "update" => p.at = "lock"
  <2> DEFINE p == [op |-> "create", at |-> "row", by |-> u, id |-> None,
                   code |-> 0, rows |-> rows, owners |-> owners, made |-> {}]
  <2>1. rows \in Seq(NamePair) /\ owners \in Seq(Users) /\ owners # <<>>
    OBVIOUS
  <2>2. p \in Pending
    BY <2>1, PendingIs DEF Creation
  <2>3. SoundJob(p)
    BY <2>1 DEF SoundJob
  <2>4. p.op = "create" /\ p.at = "row" /\ p.id = None /\ p.made = {}
    OBVIOUS
  <2>5. Arrive(r, p) /\ UNCHANGED <<row, lock, others>>
    BY <1>2 DEF BeginCreateCustomers
  <2> HIDE DEF p
  <2> QED BY <2>2, <2>3, <2>4, <2>5
<1>3. ASSUME NEW rows \in RequestedRows, BeginCreateEntity(r, u, rows)
      PROVE  \E p \in Pending :
               /\ Arrive(r, p) /\ UNCHANGED <<row, lock, others>> /\ SoundJob(p)
               /\ p.op = "create" => p.at = "row" /\ p.id = None /\ p.made = {}
               /\ p.op = "update" => p.at = "lock"
  <2> DEFINE p == [op |-> "create", at |-> "row", by |-> u, id |-> None,
                   code |-> 0, rows |-> rows, owners |-> <<>>, made |-> {}]
  <2>1. rows \in Seq(NamePair) /\ <<>> \in Seq(Users) /\ kind = "entity"
    BY <1>3, EmptySeq DEF BeginCreateEntity
  <2>2. p \in Pending
    BY <2>1, PendingIs DEF Creation
  <2>3. SoundJob(p)
    BY <2>1 DEF SoundJob
  <2>4. p.op = "create" /\ p.at = "row" /\ p.id = None /\ p.made = {}
    OBVIOUS
  <2>5. Arrive(r, p) /\ UNCHANGED <<row, lock, others>>
    BY <1>3 DEF BeginCreateEntity
  <2> HIDE DEF p
  <2> QED BY <2>2, <2>3, <2>4, <2>5
<1>4. ASSUME NEW i \in Ids, NEW name \in Names \cup {None}, NEW full \in Names \cup {None},
             BeginUpdate(r, u, i, name, full)
      PROVE  \E p \in Pending :
               /\ Arrive(r, p) /\ UNCHANGED <<row, lock, others>> /\ SoundJob(p)
               /\ p.op = "create" => p.at = "row" /\ p.id = None /\ p.made = {}
               /\ p.op = "update" => p.at = "lock"
  <2> DEFINE newName == IF name = None THEN row[i].name ELSE name
             newFull == IF full = None THEN row[i].full ELSE full
             p == [op |-> "update", at |-> "lock", by |-> u, id |-> i,
                   name |-> newName, full |-> newFull,
                   asked |-> [name |-> name, full |-> full]]
  <2>1. newName \in Names /\ newFull \in Names /\ Accessible(u, i)
    BY <1>4 DEF BeginUpdate, Accessible, LiveNamed
  <2>2. SoundJob(p)
    BY <2>1 DEF SoundJob
  <2>3. Arrive(r, p) /\ UNCHANGED <<row, lock, others>>
    BY <1>4 DEF BeginUpdate
  <2> HIDE DEF newName, newFull
  <2>4. p \in Pending
    BY <2>1, PendingIs DEF Renaming
  <2>5. p.op = "update" /\ p.at = "lock"
    OBVIOUS
  <2> HIDE DEF p
  <2> QED BY <2>2, <2>3, <2>4, <2>5
<1>5. ASSUME NEW c \in Ids, NEW owners \in RequestedOwners, BeginSetOwners(r, u, c, owners)
      PROVE  \E p \in Pending :
               /\ Arrive(r, p) /\ UNCHANGED <<row, lock, others>> /\ SoundJob(p)
               /\ p.op = "create" => p.at = "row" /\ p.id = None /\ p.made = {}
               /\ p.op = "update" => p.at = "lock"
  <2> DEFINE p == [op |-> "owners", at |-> "write", by |-> u, id |-> c,
                   owners |-> owners, seen |-> row[c].owners]
  <2>1. owners \in Seq(Users) /\ owners # <<>> /\ row[c].owners \in SUBSET Users
    BY DEF TypeOK, Row
  <2>2. p \in Pending
    BY <2>1, PendingIs DEF Reassignment
  <2>3. SoundJob(p)
    BY <1>5, <2>1 DEF SoundJob, BeginSetOwners
  <2>4. Arrive(r, p) /\ UNCHANGED <<row, lock, others>>
    BY <1>5 DEF BeginSetOwners
  <2>5. p.op = "owners"
    OBVIOUS
  <2> HIDE DEF p
  <2> QED BY <2>2, <2>3, <2>4, <2>5
<1>6. ASSUME NEW i \in Ids, BeginRemove(r, u, i)
      PROVE  \E p \in Pending :
               /\ Arrive(r, p) /\ UNCHANGED <<row, lock, others>> /\ SoundJob(p)
               /\ p.op = "create" => p.at = "row" /\ p.id = None /\ p.made = {}
               /\ p.op = "update" => p.at = "lock"
  <2> DEFINE p == [op |-> "remove", at |-> "write", by |-> u, id |-> i]
  <2>1. p \in Pending
    BY PendingIs DEF Removal
  <2>2. SoundJob(p)
    BY <1>6 DEF SoundJob, BeginRemove
  <2>3. Arrive(r, p) /\ UNCHANGED <<row, lock, others>>
    BY <1>6 DEF BeginRemove
  <2>4. p.op = "remove"
    OBVIOUS
  <2> HIDE DEF p
  <2> QED BY <2>1, <2>2, <2>3, <2>4
<1>7. \E p \in Pending :
        /\ Arrive(r, p) /\ UNCHANGED <<row, lock, others>> /\ SoundJob(p)
        /\ p.op = "create" => p.at = "row" /\ p.id = None /\ p.made = {}
        /\ p.op = "update" => p.at = "lock"
  BY <1>2, <1>3, <1>4, <1>5, <1>6, Zenon DEF Begin
<1> QED BY <1>1, <1>7

(* What is left of a request after one of its steps.                       *)
LEMMA Course ==
    ASSUME TypeOK, CreateJobs, NEW r \in Requests, Step(r)
    PROVE  /\ request[r] # Idle
           /\ UNCHANGED quiet
           /\ \A q \in Requests : q # r => request'[q] = request[q]
           /\ \/ request'[r] = Idle
              \/ /\ request[r] \in Creation /\ request'[r] \in Creation
                 /\ request'[r].owners = request[r].owners
                 /\ \/ /\ request'[r].at = "row" /\ request'[r].id = None
                       /\ \/ request'[r].made = request[r].made
                          \/ /\ Insert(r)
                             /\ request'[r].made = request[r].made \cup {request[r].id}
                    \/ /\ request'[r].at = "lock" /\ TakeRow(r, request'[r].id)
                       /\ request'[r].id \in Ids
                       /\ request'[r].rows = request[r].rows
                       /\ request'[r].made = request[r].made
                    \/ /\ request'[r].at \in {"check", "write"} /\ request[r].at # "row"
                       /\ request'[r].at = "check" => TakeLock(r)
                       /\ request'[r].at = "write" =>
                            CheckCreate(r) /\ request'[r].code = NextCode
                       /\ request'[r].id = request[r].id
                       /\ request'[r].rows = request[r].rows
                       /\ request'[r].made = request[r].made
              \/ /\ request[r] \in Renaming /\ request'[r] \in Renaming
                 /\ request'[r].at = "check" => TakeLock(r)
                 /\ request'[r].at = "write" => CheckUpdate(r)
                 /\ request'[r].at # "lock"
                 /\ request'[r].by = request[r].by
                 /\ request'[r].id = request[r].id
                 /\ request'[r].name = request[r].name
                 /\ request'[r].full = request[r].full
                 /\ request'[r].asked = request[r].asked
<1> DEFINE job == request[r]
<1>0. /\ \A p : request' = [request EXCEPT ![r] = p] =>
             request'[r] = p /\ \A q \in Requests : q # r => request'[q] = request[q]
      /\ Idle.op = "idle"
  BY DEF TypeOK, Idle
<1>1. ASSUME NEW i \in Ids, TakeRow(r, i)
      PROVE  /\ request[r] \in Creation
             /\ request' = [request EXCEPT ![r] = [job EXCEPT !.at = "lock", !.id = i]]
             /\ UNCHANGED quiet
  BY <1>1, JobTypes DEF TakeRow
<1>2. ASSUME TakeLock(r)
      PROVE  /\ request[r] \in Creation \/ request[r] \in Renaming
             /\ request[r].at = "lock"
             /\ request' = [request EXCEPT ![r] = [job EXCEPT !.at = "check"]]
             /\ UNCHANGED quiet
  BY <1>2, JobTypes DEF TakeLock, Removal, Reassignment
<1>3. ASSUME CheckCreate(r)
      PROVE  /\ request[r] \in Creation
             /\ request[r].at = "check" /\ NextCode \in Nat
             /\ request' = [request EXCEPT ![r] =
                              [job EXCEPT !.at = "write", !.code = NextCode]]
             /\ UNCHANGED quiet
  BY <1>3, JobTypes, NextCodeFree DEF CheckCreate
<1>4. ASSUME CheckUpdate(r)
      PROVE  /\ request[r] \in Renaming
             /\ request' = [request EXCEPT ![r] = [job EXCEPT !.at = "write"]]
             /\ UNCHANGED quiet
  BY <1>4, JobTypes DEF CheckUpdate
<1>5. CASE \E i \in Ids : TakeRow(r, i)
  <2>1. PICK i \in Ids : TakeRow(r, i)
    BY <1>5
  <2>2. request'[r] = [job EXCEPT !.at = "lock", !.id = i]
    BY <1>0, <1>1, <2>1
  <2>3. /\ request'[r] \in Creation /\ request'[r].at = "lock" /\ request'[r].id = i
        /\ request'[r].owners = job.owners /\ request'[r].rows = job.rows
        /\ request'[r].made = job.made /\ job # Idle
    BY <1>1, <2>1, <2>2 DEF Creation, Idle
  <2> QED BY <1>0, <1>1, <2>1, <2>3
<1>6. CASE TakeLock(r)
  <2>1. request'[r] = [job EXCEPT !.at = "check"]
    BY <1>0, <1>2, <1>6
  <2>2. CASE job \in Creation
    <3>1. /\ request'[r] \in Creation /\ request'[r].at = "check" /\ job.at # "row"
          /\ request'[r].id = job.id /\ request'[r].owners = job.owners
          /\ request'[r].rows = job.rows /\ request'[r].made = job.made /\ job # Idle
      BY <1>2, <1>6, <2>1, <2>2 DEF Creation, Idle
    <3> QED BY <1>0, <1>2, <1>6, <2>2, <3>1
  <2>3. CASE job \in Renaming
    <3>1. /\ request'[r] \in Renaming /\ request'[r].at = "check"
          /\ request'[r].by = job.by /\ request'[r].id = job.id
          /\ request'[r].name = job.name /\ request'[r].full = job.full
          /\ request'[r].asked = job.asked /\ job # Idle
      BY <1>2, <1>6, <2>1, <2>3 DEF Renaming, Idle
    <3> QED BY <1>0, <1>2, <1>6, <2>3, <3>1
  <2> QED BY <1>2, <1>6, <2>2, <2>3
<1>7. CASE CheckCreate(r)
  <2>1. request'[r] = [job EXCEPT !.at = "write", !.code = NextCode]
    BY <1>0, <1>3, <1>7
  <2>2. job \in Creation /\ job.at = "check" /\ NextCode \in Nat
    BY <1>3, <1>7
  <2>3. /\ request'[r] \in Creation /\ request'[r].at = "write"
        /\ request'[r].code = NextCode
        /\ request'[r].id = job.id /\ request'[r].owners = job.owners
        /\ request'[r].rows = job.rows /\ request'[r].made = job.made
    <3> DEFINE n == NextCode
    <3>1. request'[r] = [job EXCEPT !.at = "write", !.code = n] /\ n \in Nat
      BY <2>1, <2>2
    <3> HIDE DEF n
    <3>2. /\ request'[r] \in Creation /\ request'[r].at = "write"
          /\ request'[r].code = n
          /\ request'[r].id = job.id /\ request'[r].owners = job.owners
          /\ request'[r].rows = job.rows /\ request'[r].made = job.made
      BY <2>2, <3>1 DEF Creation
    <3> QED BY <3>2 DEF n
  <2>4. job # Idle /\ job.at # "row"
    BY <2>2 DEF Creation, Idle
  <2> QED BY <1>0, <1>3, <1>7, <2>2, <2>3, <2>4
<1>8. CASE CheckUpdate(r)
  <2>1. request'[r] = [job EXCEPT !.at = "write"]
    BY <1>0, <1>4, <1>8
  <2>2. /\ request'[r] \in Renaming /\ request'[r].at = "write"
        /\ request'[r].by = job.by /\ request'[r].id = job.id
        /\ request'[r].name = job.name /\ request'[r].full = job.full
        /\ request'[r].asked = job.asked /\ job # Idle
    BY <1>4, <1>8, <2>1 DEF Renaming, Idle
  <2> QED BY <1>0, <1>4, <1>8, <2>2
<1>9. ASSUME NEW made \in SUBSET Ids, job.op = "create", job.at # "row", RowDone(r, made)
      PROVE  /\ request[r] # Idle /\ UNCHANGED quiet
             /\ \A q \in Requests : q # r => request'[q] = request[q]
             /\ request[r] \in Creation /\ request'[r] \in Creation
             /\ request'[r].owners = request[r].owners
             /\ request'[r].at = "row" /\ request'[r].id = None
             /\ request'[r].made = made
  BY <1>0, <1>9, RowDoneIs, JobTypes
<1>10. CASE FailCreate(r) \/ FailInsert(r)
  <2>1. job.made \in SUBSET Ids /\ job.op = "create" /\ job.at # "row" /\ RowDone(r, job.made)
    BY <1>10, JobTypes DEF FailCreate, FailInsert, Creation
  <2> QED BY <1>9, <2>1
<1>11. CASE Insert(r)
  <2>1. job.op = "create" /\ job.at # "row" /\ RowDone(r, job.made \cup {job.id})
    BY <1>11 DEF Insert
  <2>2. job.made \cup {job.id} \in SUBSET Ids
    BY <2>1, RowToCreate DEF Creation
  <2> QED BY <1>9, <1>11, <2>1, <2>2
<1>12. CASE Respond(r) \/ WriteUpdate(r) \/ WriteOwners(r) \/ WriteRemove(r) \/ Abandon(r)
  <2>1. /\ request' = [request EXCEPT ![r] = Idle] /\ UNCHANGED quiet
        /\ request[r] # Idle
    BY <1>0, <1>12 DEF Respond, WriteUpdate, WriteOwners, WriteRemove, Abandon
  <2> QED BY <1>0, <2>1
<1> QED
  BY <1>5, <1>6, <1>7, <1>8, <1>10, <1>11, <1>12 DEF Step

(* What a step makes of a row.                                             *)
LEMMA RowStep ==
    ASSUME TypeOK, CreateJobs, NEW r \in Requests, Step(r), NEW i \in Ids
    PROVE  \/ row'[i] = row[i]
           \/ /\ Insert(r) /\ i = request[r].id /\ row[i].status = "ABSENT"
              /\ row'[i].status = "LIVE" /\ row'[i].code = request[r].code
              /\ row'[i].name = Head(request[r].rows).name
              /\ row'[i].full = Head(request[r].rows).full
              /\ row'[i].owners = Named(request[r].owners)
              /\ row'[i].primary = First(request[r].owners)
           \/ /\ WriteUpdate(r) /\ i = request[r].id /\ Live(i)
              /\ row'[i].status = row[i].status /\ row'[i].code = row[i].code
              /\ row'[i].name = request[r].name /\ row'[i].full = request[r].full
              /\ row'[i].owners = row[i].owners /\ row'[i].primary = row[i].primary
           \/ /\ WriteOwners(r) /\ i = request[r].id /\ Live(i)
              /\ row'[i].status = row[i].status /\ row'[i].code = row[i].code
              /\ row'[i].name = row[i].name /\ row'[i].full = row[i].full
              /\ row'[i].owners =
                   (row[i].owners \ request[r].seen) \cup Named(request[r].owners)
              /\ row'[i].primary =
                   (row[i].primary \cap (row[i].owners \ request[r].seen))
                     \cup First(request[r].owners)
           \/ /\ WriteRemove(r) /\ i = request[r].id /\ Live(i)
              /\ row'[i].status = "DELETED"
<1> DEFINE job == request[r]
<1>0. row[i] \in Row /\ row \in [Ids -> Row]
  BY DEF TypeOK
<1>1. CASE Insert(r)
  <2>1. job.op = "create" /\ job.at # "row"
    BY <1>1 DEF Insert
  <2>2. job.id \in Ids /\ row[job.id].status = "ABSENT"
    BY <2>1, RowToCreate
  <2> QED BY <1>0, <1>1, <2>2 DEF Insert
<1>2. CASE WriteUpdate(r)
  BY <1>0, <1>2 DEF WriteUpdate, Row
<1>3. CASE WriteOwners(r)
  BY <1>0, <1>3 DEF WriteOwners, Row
<1>4. CASE WriteRemove(r)
  BY <1>0, <1>4 DEF WriteRemove, Absent
<1>5. CASE UNCHANGED row
  BY <1>5
<1> QED
  BY <1>1, <1>2, <1>3, <1>4, <1>5
     DEF Step, TakeRow, TakeLock, CheckCreate, FailCreate, FailInsert, Respond,
         CheckUpdate, Abandon

Around ==
    \/ \E i \in Ids : Use(i) \/ Release(i) \/ Refer(i)
    \/ \E u \in Users : UserLeaves(u)

(* The rest of the system leaves names, codes and requests alone.          *)
LEMMA AroundStep ==
    ASSUME TypeOK, LiveNamed, Around
    PROVE  /\ TypeOK' /\ LiveNamed'
           /\ UNCHANGED <<kind, lock, request, orphaned>>
           /\ quiet' = (quiet /\ \A q \in Requests : request[q] = Idle)
           /\ \A i \in Ids :
                /\ row'[i].status = row[i].status /\ row'[i].code = row[i].code
                /\ row'[i].name = row[i].name /\ row'[i].full = row[i].full
           /\ \/ UNCHANGED <<row, gone>>
              \/ \E u \in Users :
                   /\ u \notin gone /\ gone' = gone \cup {u}
                   /\ row' = [i \in Ids |-> [row[i] EXCEPT !.owners = @ \ {u},
                                                           !.primary = @ \ {u}]]
<1>0. (quiet /\ \A q \in Requests : request[q] = Idle) \in BOOLEAN
  BY Zenon DEF TypeOK
<1>1. ASSUME NEW i \in Ids, Use(i) \/ Release(i) \/ Refer(i)
      PROVE  /\ UNCHANGED <<kind, lock, request, orphaned, row, gone>>
             /\ used' \in SUBSET Ids /\ referred' \in SUBSET Ids
             /\ quiet' = (quiet /\ \A q \in Requests : request[q] = Idle)
  BY <1>1 DEF Use, Release, Refer, Elsewhere, TypeOK
<1>2. ASSUME NEW u \in Users, UserLeaves(u)
      PROVE  /\ UNCHANGED <<kind, lock, request, orphaned, used, referred>>
             /\ quiet' = (quiet /\ \A q \in Requests : request[q] = Idle)
             /\ u \notin gone /\ gone' = gone \cup {u}
             /\ row' = [i \in Ids |-> [row[i] EXCEPT !.owners = @ \ {u},
                                                     !.primary = @ \ {u}]]
  BY <1>2 DEF UserLeaves, Elsewhere
<1>3. CASE \E i \in Ids : Use(i) \/ Release(i) \/ Refer(i)
  <2>1. /\ UNCHANGED <<kind, lock, request, orphaned, row, gone>>
        /\ used' \in SUBSET Ids /\ referred' \in SUBSET Ids
        /\ quiet' = (quiet /\ \A q \in Requests : request[q] = Idle)
    BY <1>1, <1>3
  <2>2. quiet' \in BOOLEAN
    BY <1>0, <2>1
  <2>3. TypeOK' /\ LiveNamed'
    BY <2>1, <2>2 DEF TypeOK, LiveNamed, Live
  <2> QED BY <2>1, <2>3
<1>4. CASE \E u \in Users : UserLeaves(u)
  <2>1. PICK u \in Users : UserLeaves(u)
    BY <1>4
  <2>2. /\ UNCHANGED <<kind, lock, request, orphaned, used, referred>>
        /\ quiet' = (quiet /\ \A q \in Requests : request[q] = Idle)
        /\ u \notin gone /\ gone' = gone \cup {u}
        /\ row' = [i \in Ids |-> [row[i] EXCEPT !.owners = @ \ {u},
                                                !.primary = @ \ {u}]]
    BY <1>2, <2>1
  <2>3. quiet' \in BOOLEAN
    BY <1>0, <2>2
  <2>4. ASSUME NEW i \in Ids
        PROVE  /\ row'[i] \in Row
               /\ row'[i].status = row[i].status /\ row'[i].code = row[i].code
               /\ row'[i].name = row[i].name /\ row'[i].full = row[i].full
    <3>1. row[i] \in Row
      BY DEF TypeOK
    <3>2. row'[i] = [row[i] EXCEPT !.owners = @ \ {u}, !.primary = @ \ {u}]
      BY <2>2
    <3> QED BY <3>1, <3>2 DEF Row
  <2>5. row' \in [Ids -> Row]
    <3>1. row' = [i \in Ids |-> row'[i]]
      BY <2>2
    <3> QED BY <2>4, <3>1
  <2>6. TypeOK'
    BY <2>2, <2>3, <2>5 DEF TypeOK
  <2>7. LiveNamed'
    BY <2>4 DEF LiveNamed, Live
  <2> QED BY <2>2, <2>4, <2>6, <2>7
<1> QED BY <1>3, <1>4 DEF Around

LEMMA BeginTypes ==
    ASSUME TypeOK, LiveNamed, NEW r \in Requests, NEW u \in Users, Begin(r, u)
    PROVE  TypeOK' /\ LiveNamed'
<1>1. /\ UNCHANGED <<row, lock, others>>
      /\ quiet' = (quiet /\ \A q \in Requests : request[q] = Idle)
      /\ \E p \in Pending : request' = [request EXCEPT ![r] = p]
  BY Arrivals
<1>2. quiet' \in BOOLEAN /\ lock' \in Requests \cup {None}
  <2>1. (quiet /\ \A q \in Requests : request[q] = Idle) \in BOOLEAN
    BY Zenon DEF TypeOK
  <2> QED BY <1>1, <2>1 DEF TypeOK
<1>3. PICK p \in Pending : request' = [request EXCEPT ![r] = p]
  BY <1>1
<1> QED BY <1>1, <1>2, <1>3, ReadTypes

LEMMA TypeStep ==
    ASSUME TypeOK, LiveNamed, CreateJobs, Next
    PROVE  TypeOK' /\ LiveNamed'
BY StepTypes, BeginTypes, AroundStep DEF Next, Around

-----------------------------------------------------------------------------
(* The lock, the rows being created and their names.                       *)

Apart ==
    \A r \in Requests : \A q \in Requests \ {r} :
      request[r].op = "create" /\ request[q].op = "create" /\ request[r].id # None =>
        request[q].id # request[r].id

(* Who has looked for duplicates, or is about to, holds the lock.           *)
Holding(r) ==
    request[r].op \in {"create", "update"} /\ request[r].at \in {"check", "write"}

Locked == \A r \in Requests : Holding(r) => lock = r

(* What the check has found still holds when the transaction writes.        *)
Checked(r) ==
    /\ request[r].op = "create" /\ request[r].at = "write" =>
         /\ ~Clash(request[r].id, Head(request[r].rows).name, Head(request[r].rows).full)
         /\ request[r].code \notin Codes
    /\ request[r].op = "update" /\ request[r].at = "write" =>
         ~Clash(request[r].id, request[r].name, request[r].full)

CodesApart ==
    \A i \in Ids : \A j \in Ids \ {i} :
      Live(i) /\ Live(j) => row[i].code # row[j].code

RegInv ==
    /\ TypeOK
    /\ LiveNamed
    /\ CreateJobs
    /\ Apart
    /\ Locked
    /\ \A r \in Requests : Checked(r)
    /\ NamesUnique
    /\ CodesApart

(* An id that has been given to a row stays given.                         *)
LEMMA StaysGiven ==
    ASSUME TypeOK, CreateJobs, NEW r \in Requests, Step(r), NEW i \in Ids
    PROVE  /\ row[i].status # "ABSENT" => row'[i].status # "ABSENT"
           /\ row[i].status = "ABSENT" /\ row'[i].status # "ABSENT" =>
                Insert(r) /\ i = request[r].id /\ row'[i].status = "LIVE"
BY RowStep, Zenon DEF Live

LEMMA CreateJobsStep ==
    ASSUME RegInv, Next
    PROVE  CreateJobs'
<1>t. TypeOK /\ TypeOK' /\ CreateJobs /\ LiveNamed /\ Apart /\ Idle.op = "idle"
  BY TypeStep DEF RegInv, Idle
<1> SUFFICES ASSUME NEW q \in Requests
             PROVE  CreateJob(q)'
  BY DEF CreateJobs
<1>1. ASSUME NEW r \in Requests, Step(r), r # q
      PROVE  CreateJob(q)'
  <2>1. request'[q] = request[q]
    BY <1>t, <1>1, Course
  <2>2. CASE request[q].op = "create"
    <3>1. request[q] \in Creation
      BY <1>t, <2>2, JobTypes
    <3>2. \A i \in request[q].made : row'[i].status # "ABSENT"
      BY <1>t, <1>1, <2>2, <3>1, StaysGiven DEF CreateJobs, CreateJob, Creation
    <3>3. ASSUME request[q].at # "row"
          PROVE  row'[request[q].id].status = "ABSENT"
      <4>1. request[q].id \in Ids /\ row[request[q].id].status = "ABSENT"
        BY <1>t, <2>2, <3>3, RowToCreate
      <4>2. ~(Insert(r) /\ request[q].id = request[r].id)
        <5>1. request[q].id # None
          BY <4>1, RegistryAssumption
        <5> QED BY <1>t, <1>1, <2>2, <5>1 DEF Insert, Apart
      <4> QED BY <1>t, <1>1, <4>1, <4>2, StaysGiven
    <3> QED BY <1>t, <2>1, <2>2, <3>2, <3>3 DEF CreateJobs, CreateJob
  <2> QED BY <2>1, <2>2 DEF CreateJob
<1>2. ASSUME Step(q)
      PROVE  CreateJob(q)'
  <2>1. CASE request'[q] = Idle
    BY <1>t, <2>1 DEF CreateJob
  <2>2. CASE request'[q] \in Renaming
    BY <2>2 DEF CreateJob, Renaming
  <2>3. ASSUME request[q] \in Creation, request'[q] \in Creation
        PROVE  CreateJob(q)'
    <3>1. \A i \in request[q].made : row'[i].status # "ABSENT"
      BY <1>t, <1>2, <2>3, StaysGiven DEF CreateJobs, CreateJob, Creation
    <3>2. Insert(q) => row'[request[q].id].status # "ABSENT"
      <4> SUFFICES ASSUME Insert(q) PROVE row'[request[q].id].status # "ABSENT"
        OBVIOUS
      <4>1. request[q].op = "create" /\ request[q].at # "row"
        BY DEF Insert
      <4>2. request[q].id \in Ids
        BY <1>t, <4>1, RowToCreate
      <4> QED BY <1>t, <4>2 DEF Insert, TypeOK
    <3>3. CASE request'[q].at = "row"
      <4>1. /\ request'[q].id = None
            /\ \/ request'[q].made = request[q].made
               \/ Insert(q) /\ request'[q].made = request[q].made \cup {request[q].id}
        BY <1>t, <1>2, <2>3, <3>3, Course DEF Idle, Creation, Renaming
      <4>2. \A i \in request'[q].made : row'[i].status # "ABSENT"
        BY <3>1, <3>2, <4>1
      <4> QED BY <3>3, <4>1, <4>2 DEF CreateJob
    <3>4. CASE request'[q].at = "lock" /\ TakeRow(q, request'[q].id)
               /\ request'[q].id \in Ids
      <4>1. /\ request'[q].rows = request[q].rows /\ request'[q].made = request[q].made
        BY <1>t, <1>2, <2>3, <3>4, Course DEF Idle, Creation, Renaming
      <4>2. /\ row[request'[q].id].status = "ABSENT" /\ request[q].rows # <<>>
            /\ UNCHANGED row
        BY <3>4 DEF TakeRow
      <4>3. request'[q].id # None
        BY <3>4, RegistryAssumption
      <4> QED BY <3>1, <3>4, <4>1, <4>2, <4>3 DEF CreateJob
    <3>5. CASE request'[q].at \in {"check", "write"}
      <4>1. /\ request[q].at # "row" /\ request'[q].id = request[q].id
            /\ request'[q].rows = request[q].rows /\ request'[q].made = request[q].made
            /\ UNCHANGED row
        BY <1>t, <1>2, <2>3, <3>5, Course
           DEF Idle, Creation, Renaming, TakeLock, CheckCreate
      <4>2. request[q].op = "create"
        BY <2>3 DEF Creation
      <4> QED BY <1>t, <3>1, <3>5, <4>1, <4>2 DEF CreateJobs, CreateJob
    <3> QED
      <4>1. request'[q] # Idle /\ ~(request'[q] \in Renaming)
        BY <2>3 DEF Creation, Renaming, Idle
      <4> QED BY <1>t, <1>2, <4>1, <3>3, <3>4, <3>5, Course, Zenon
  <2> QED BY <1>t, <1>2, <2>1, <2>2, <2>3, Course
<1>3. ASSUME NEW r \in Requests, NEW u \in Users, Begin(r, u)
      PROVE  CreateJob(q)'
  <2>1. PICK p \in Pending :
          /\ request' = [request EXCEPT ![r] = p]
          /\ p.op = "create" => p.at = "row" /\ p.id = None /\ p.made = {}
    BY <1>t, <1>3, Arrivals
  <2>2. UNCHANGED row
    BY <1>t, <1>3, Arrivals
  <2>3. CASE q = r
    BY <1>t, <2>1, <2>3 DEF CreateJob, TypeOK
  <2>4. CASE q # r
    <3>1. request'[q] = request[q]
      BY <1>t, <2>1, <2>4 DEF TypeOK
    <3> QED BY <1>t, <2>2, <3>1 DEF CreateJobs, CreateJob
  <2> QED BY <2>3, <2>4
<1>4. CASE Around
  <2>1. UNCHANGED request /\ \A i \in Ids : row'[i].status = row[i].status
    BY <1>t, <1>4, AroundStep
  <2>2. CASE request[q].op = "create"
    <3>1. request[q] \in Creation
      BY <1>t, <2>2, JobTypes
    <3>2. request[q].at # "row" => request[q].id \in Ids
      BY <1>t, <2>2, RowToCreate
    <3> QED BY <1>t, <2>1, <2>2, <3>1, <3>2 DEF CreateJobs, CreateJob, Creation
  <2> QED BY <2>1, <2>2 DEF CreateJob
<1> QED BY <1>1, <1>2, <1>3, <1>4 DEF Next, Around

(* The id of a row to create is none, or the one it was, or one that no     *)
(* row has and no other creation has chosen.                               *)
LEMMA NextId ==
    ASSUME RegInv, Next, NEW q \in Requests, request'[q].op = "create"
    PROVE  \/ request'[q].id = None
           \/ request[q].op = "create" /\ request'[q].id = request[q].id
           \/ /\ TakeRow(q, request'[q].id)
              /\ \A p \in Requests : p # q => request'[p] = request[p]
<1>t. TypeOK /\ CreateJobs /\ LiveNamed /\ Idle.op = "idle"
  BY DEF RegInv, Idle
<1>1. ASSUME NEW r \in Requests, Step(r), r # q
      PROVE  request'[q] = request[q]
  BY <1>t, <1>1, Course
<1>2. ASSUME Step(q)
      PROVE  \/ request'[q].id = None
             \/ request[q].op = "create" /\ request'[q].id = request[q].id
             \/ /\ TakeRow(q, request'[q].id)
                /\ \A p \in Requests : p # q => request'[p] = request[p]
  <2>1. request'[q] # Idle /\ ~(request'[q] \in Renaming)
    BY <1>t DEF Renaming
  <2>2. request[q] \in Creation => request[q].op = "create"
    BY DEF Creation
  <2> QED BY <1>t, <1>2, <2>1, <2>2, Course, Zenon
<1>3. ASSUME NEW r \in Requests, NEW u \in Users, Begin(r, u)
      PROVE  request'[q] = request[q] \/ request'[q].id = None
  <2>1. PICK p \in Pending :
          /\ request' = [request EXCEPT ![r] = p]
          /\ p.op = "create" => p.at = "row" /\ p.id = None /\ p.made = {}
    BY <1>t, <1>3, Arrivals
  <2> QED BY <1>t, <2>1 DEF TypeOK
<1>4. Around => request'[q] = request[q]
  BY <1>t, AroundStep
<1> QED BY <1>1, <1>2, <1>3, <1>4 DEF Next, Around

LEMMA ApartStep ==
    ASSUME RegInv, Next
    PROVE  Apart'
<1> SUFFICES ASSUME NEW r \in Requests, NEW q \in Requests \ {r},
                    request'[r].op = "create", request'[q].op = "create",
                    request'[r].id # None
             PROVE  request'[q].id # request'[r].id
  BY DEF Apart
<1>1. ASSUME TakeRow(r, request'[r].id), \A p \in Requests : p # r => request'[p] = request[p]
      PROVE  request'[q].id # request'[r].id
  BY <1>1 DEF TakeRow
<1>2. ASSUME TakeRow(q, request'[q].id), \A p \in Requests : p # q => request'[p] = request[p]
      PROVE  request'[q].id # request'[r].id
  BY <1>2 DEF TakeRow
<1>3. ASSUME request[r].op = "create" /\ request'[r].id = request[r].id,
             request[q].op = "create" /\ request'[q].id = request[q].id
      PROVE  request'[q].id # request'[r].id
  BY <1>3 DEF RegInv, Apart
<1> QED BY <1>1, <1>2, <1>3, NextId

LEMMA LockedStep ==
    ASSUME RegInv, Next
    PROVE  Locked'
<1> USE RegistryAssumption
<1>t. TypeOK /\ CreateJobs /\ LiveNamed /\ Locked /\ Idle.op = "idle"
  BY DEF RegInv, Idle
<1> SUFFICES ASSUME NEW q \in Requests, Holding(q)' PROVE lock' = q
  BY DEF Locked
<1>1. ASSUME NEW r \in Requests, Step(r), r # q
      PROVE  lock' = q
  <2>1. request'[q] = request[q]
    BY <1>t, <1>1, Course
  <2>2. lock = q
    BY <1>t, <2>1 DEF Locked, Holding
  <2> QED
    BY <1>1, <2>2
       DEF Step, TakeRow, TakeLock, CheckCreate, FailCreate, Insert, FailInsert, Respond,
           CheckUpdate, WriteUpdate, WriteOwners, WriteRemove, Abandon, Unlock
<1>2. ASSUME Step(q)
      PROVE  lock' = q
  <2>1. request'[q].op \in {"create", "update"} /\ request'[q].at \in {"check", "write"}
    BY DEF Holding
  <2>2. TakeLock(q) \/ CheckCreate(q) \/ CheckUpdate(q)
    <3>1. request'[q] # Idle
      BY <1>t, <2>1
    <3> QED BY <1>t, <1>2, <2>1, <3>1, Course
  <2>3. CASE CheckCreate(q) \/ CheckUpdate(q)
    <3>1. Holding(q) /\ UNCHANGED lock
      BY <2>3 DEF Holding, CheckCreate, CheckUpdate
    <3> QED BY <1>t, <3>1 DEF Locked
  <2>4. CASE TakeLock(q)
    BY <2>4 DEF TakeLock
  <2> QED BY <2>2, <2>3, <2>4
<1>3. ASSUME NEW r \in Requests, NEW u \in Users, Begin(r, u)
      PROVE  lock' = q
  <2>1. PICK p \in Pending :
          /\ request' = [request EXCEPT ![r] = p]
          /\ p.op = "create" => p.at = "row" /\ p.id = None /\ p.made = {}
          /\ p.op = "update" => p.at = "lock"
    BY <1>t, <1>3, Arrivals
  <2>2. UNCHANGED lock
    BY <1>t, <1>3, Arrivals
  <2>3. q # r
    BY <1>t, <2>1 DEF TypeOK, Holding
  <2>4. request'[q] = request[q]
    BY <1>t, <2>1, <2>3 DEF TypeOK
  <2> QED BY <1>t, <2>2, <2>4 DEF Locked, Holding
<1>4. CASE Around
  BY <1>t, <1>4, AroundStep DEF Locked, Holding
<1> QED BY <1>1, <1>2, <1>3, <1>4 DEF Next, Around

(* A live row was there before, under the same names and code.             *)
NothingNew ==
    \A i \in Ids : row'[i].status = "LIVE" =>
      /\ row[i].status = "LIVE" /\ row'[i].code = row[i].code
      /\ row'[i].name = row[i].name /\ row'[i].full = row[i].full

LEMMA Writers ==
    ASSUME RegInv, Next
    PROVE  NothingNew \/ \E r \in Requests : Step(r) /\ (Insert(r) \/ WriteUpdate(r))
<1>t. TypeOK /\ CreateJobs /\ LiveNamed
  BY DEF RegInv
<1>1. ASSUME NEW r \in Requests, Step(r), ~Insert(r), ~WriteUpdate(r)
      PROVE  NothingNew
  BY <1>t, <1>1, RowStep DEF NothingNew, Live
<1>2. ASSUME NEW r \in Requests, NEW u \in Users, Begin(r, u)
      PROVE  NothingNew
  BY <1>t, <1>2, Arrivals DEF NothingNew
<1>3. CASE Around
  BY <1>t, <1>3, AroundStep DEF NothingNew
<1> QED BY <1>1, <1>2, <1>3 DEF Next, Around

LEMMA NothingNewClash ==
    ASSUME NothingNew
    PROVE  /\ \A i, name, full : ~Clash(i, name, full) => ~Clash(i, name, full)'
           /\ Codes' \subseteq Codes
BY DEF NothingNew, Clash, Codes, Live

(* Whoever writes a name or a code holds the lock, which nobody else has    *)
(* looked under.                                                           *)
LEMMA WriterAlone ==
    ASSUME RegInv, NEW r \in Requests, Step(r), Insert(r) \/ WriteUpdate(r)
    PROVE  /\ ~Holding(r)'
           /\ \A q \in Requests : q # r => ~Holding(q)'
<1>t. TypeOK /\ CreateJobs /\ Locked /\ Idle.op = "idle"
  BY DEF RegInv, Idle
<1>1. Holding(r)
  BY DEF Holding, Insert, WriteUpdate
<1>2. ASSUME NEW q \in Requests, q # r PROVE ~Holding(q)'
  <2>1. request'[q] = request[q]
    BY <1>t, <1>2, Course
  <2>2. ~Holding(q)
    BY <1>t, <1>1, <1>2 DEF Locked
  <2> QED BY <2>1, <2>2 DEF Holding
<1>3. ~Holding(r)'
  <2>1. CASE Insert(r)
    <3>1. /\ request[r].op = "create" /\ request[r].at # "row"
          /\ RowDone(r, request[r].made \cup {request[r].id})
      BY <2>1 DEF Insert
    <3>2. request[r].made \cup {request[r].id} \in SUBSET Ids
      BY <1>t, <3>1, RowToCreate DEF Creation
    <3>3. request'[r].at = "row"
      BY <1>t, <3>1, <3>2, RowDoneIs
    <3> QED BY <3>3 DEF Holding
  <2>2. CASE WriteUpdate(r)
    BY <1>t, <2>2 DEF WriteUpdate, TypeOK, Holding
  <2> QED BY <2>1, <2>2
<1> QED BY <1>2, <1>3

LEMMA CheckedStep ==
    ASSUME RegInv, Next, NEW q \in Requests
    PROVE  Checked(q)'
<1>t. TypeOK /\ CreateJobs /\ LiveNamed /\ Checked(q) /\ Idle.op = "idle"
  BY DEF RegInv, Idle
<1>1. ASSUME NEW r \in Requests, Step(r), Insert(r) \/ WriteUpdate(r)
      PROVE  Checked(q)'
  BY <1>1, WriterAlone DEF Checked, Holding
<1>2. ASSUME NothingNew, request'[q] = request[q]
      PROVE  Checked(q)'
  BY <1>t, <1>2, NothingNewClash DEF Checked
<1>3. ASSUME NothingNew, Step(q)
      PROVE  Checked(q)'
  <2>1. CASE request'[q].op = "create" /\ request'[q].at = "write"
    <3>1. /\ CheckCreate(q) /\ request'[q].code = NextCode
          /\ request'[q].id = request[q].id /\ request'[q].rows = request[q].rows
      <4>1. request'[q] # Idle /\ ~(request'[q] \in Renaming)
        BY <1>t, <2>1 DEF Renaming
      <4> QED BY <1>t, <1>3, <2>1, <4>1, Course
    <3>2. NextCode \notin Codes
      BY <1>t, NextCodeFree
    <3>3. ~Clash(request[q].id, Head(request[q].rows).name, Head(request[q].rows).full)
      BY <3>1 DEF CheckCreate
    <3> QED BY <1>3, <2>1, <3>1, <3>2, <3>3, NothingNewClash DEF Checked
  <2>2. CASE request'[q].op = "update" /\ request'[q].at = "write"
    <3>1. /\ CheckUpdate(q)
          /\ request'[q].id = request[q].id
          /\ request'[q].name = request[q].name /\ request'[q].full = request[q].full
      <4>1. request'[q] # Idle /\ ~(request'[q] \in Creation)
        BY <1>t, <2>2 DEF Creation
      <4> QED BY <1>t, <1>3, <2>2, <4>1, Course
    <3>2. ~Clash(request[q].id, request[q].name, request[q].full)
      BY <3>1 DEF CheckUpdate
    <3> QED BY <1>3, <2>2, <3>1, <3>2, NothingNewClash DEF Checked
  <2> QED BY <2>1, <2>2 DEF Checked
<1>4. ASSUME NEW r \in Requests, Step(r), r # q
      PROVE  request'[q] = request[q]
  BY <1>t, <1>4, Course
<1>5. ASSUME NEW r \in Requests, NEW u \in Users, Begin(r, u)
      PROVE  Checked(q)'
  <2>1. PICK p \in Pending :
          /\ request' = [request EXCEPT ![r] = p]
          /\ p.op = "create" => p.at = "row" /\ p.id = None /\ p.made = {}
          /\ p.op = "update" => p.at = "lock"
    BY <1>t, <1>5, Arrivals
  <2>2. CASE q = r
    BY <1>t, <2>1, <2>2 DEF TypeOK, Checked
  <2>3. CASE q # r
    <3>1. request'[q] = request[q] /\ NothingNew
      BY <1>t, <1>5, <2>1, <2>3, Arrivals DEF TypeOK, NothingNew
    <3> QED BY <1>2, <3>1
  <2> QED BY <2>2, <2>3
<1>6. Around => NothingNew /\ request'[q] = request[q]
  BY <1>t, AroundStep DEF NothingNew
<1> QED BY <1>1, <1>2, <1>3, <1>4, <1>5, <1>6, Writers DEF Next, Around

LEMMA UniqueStep ==
    ASSUME RegInv, Next
    PROVE  NamesUnique' /\ CodesApart'
<1>t. TypeOK /\ CreateJobs /\ NamesUnique /\ CodesApart /\ \A q \in Requests : Checked(q)
  BY DEF RegInv
<1>1. CASE NothingNew
  BY <1>t, <1>1 DEF NothingNew, NamesUnique, CodesApart, Live
<1>2. ASSUME NEW r \in Requests, Step(r), Insert(r)
      PROVE  NamesUnique' /\ CodesApart'
  <2> DEFINE k == request[r].id
             name == Head(request[r].rows).name
             full == Head(request[r].rows).full
  <2>1. /\ ~Clash(k, name, full)
        /\ request[r].code \notin Codes
    BY <1>t, <1>2 DEF Checked, Insert
  <2>2. ASSUME NEW i \in Ids
        PROVE  \/ row'[i] = row[i]
               \/ /\ i = k /\ row'[i].name = name /\ row'[i].full = full
                  /\ row'[i].code = request[r].code
    BY <1>t, <1>2, RowStep DEF Insert, WriteUpdate, WriteOwners, WriteRemove
  <2>3. ASSUME NEW j \in Ids, j # k, Live(j)
        PROVE  /\ {row[j].name, row[j].full} \cap {name, full} = {}
               /\ row[j].code # request[r].code
    BY <2>1, <2>3 DEF Clash, Codes
  <2> HIDE DEF k, name, full
  <2> QED BY <1>t, <2>2, <2>3 DEF NamesUnique, CodesApart, Live
<1>3. ASSUME NEW r \in Requests, Step(r), WriteUpdate(r)
      PROVE  NamesUnique' /\ CodesApart'
  <2> DEFINE k == request[r].id
             name == request[r].name
             full == request[r].full
  <2>1. ~Clash(k, name, full)
    BY <1>t, <1>3 DEF Checked, WriteUpdate
  <2>2. ASSUME NEW i \in Ids
        PROVE  /\ row'[i].status = row[i].status /\ row'[i].code = row[i].code
               /\ \/ row'[i] = row[i]
                  \/ i = k /\ row'[i].name = name /\ row'[i].full = full
    BY <1>t, <1>3, RowStep DEF Insert, WriteUpdate, WriteOwners, WriteRemove
  <2>3. ASSUME NEW j \in Ids, j # k, Live(j)
        PROVE  {row[j].name, row[j].full} \cap {name, full} = {}
    BY <2>1, <2>3 DEF Clash
  <2> HIDE DEF k, name, full
  <2> QED BY <1>t, <2>2, <2>3 DEF NamesUnique, CodesApart, Live
<1> QED BY <1>1, <1>2, <1>3, Writers

-----------------------------------------------------------------------------
(* One request at a time.                                                  *)

OneBusy ==
    \A r \in Requests : \A q \in Requests \ {r} : request[r] = Idle \/ request[q] = Idle

Quiet ==
    quiet =>
      /\ OneBusy
      /\ \A r \in Requests : SoundJob(request[r])
      /\ kind = "customer" => \A c \in Ids : Live(c) => PrimaryOf(c)

Inv == RegInv /\ Quiet /\ PaymentRequestsKeepCustomer

LEMMA KindStays ==
    ASSUME NEW r \in Requests, Step(r)
    PROVE  UNCHANGED <<kind, gone>>
BY DEF Step, TakeRow, TakeLock, CheckCreate, FailCreate, Insert, FailInsert, Respond,
       CheckUpdate, WriteUpdate, WriteOwners, WriteRemove, Abandon

(* While it is quiet, the requests beside the one that moves are idle.      *)
LEMMA QuietSteps ==
    ASSUME RegInv, Quiet, Next, quiet'
    PROVE  /\ quiet
           /\ \/ \E r \in Requests :
                   /\ Step(r)
                   /\ \A q \in Requests : q # r => request'[q] = Idle
              \/ \E r \in Requests, u \in Users :
                   /\ Begin(r, u)
                   /\ \A q \in Requests : q # r => request'[q] = Idle
              \/ Around /\ UNCHANGED request
<1>t. TypeOK /\ CreateJobs /\ LiveNamed
  BY DEF RegInv
<1>1. ASSUME NEW r \in Requests, Step(r)
      PROVE  quiet /\ \A q \in Requests : q # r => request'[q] = Idle
  BY <1>t, <1>1, Course DEF Quiet, OneBusy
<1>2. ASSUME NEW r \in Requests, NEW u \in Users, Begin(r, u)
      PROVE  quiet /\ \A q \in Requests : q # r => request'[q] = Idle
  <2>1. quiet' = (quiet /\ \A q \in Requests : request[q] = Idle)
    BY <1>t, <1>2, Arrivals
  <2>2. quiet /\ \A q \in Requests : request[q] = Idle
    BY <2>1
  <2>3. \E p \in Pending : request' = [request EXCEPT ![r] = p]
    BY <1>t, <1>2, Arrivals
  <2> QED BY <1>t, <2>2, <2>3 DEF TypeOK
<1>3. Around => quiet /\ UNCHANGED request
  <2> SUFFICES ASSUME Around PROVE quiet /\ UNCHANGED request
    OBVIOUS
  <2>1. /\ quiet' = (quiet /\ \A q \in Requests : request[q] = Idle)
        /\ UNCHANGED request
    BY <1>t, AroundStep
  <2> QED BY <2>1
<1> QED BY <1>1, <1>2, <1>3 DEF Next, Around

LEMMA IdleSound == SoundJob(Idle) /\ SoundJob(Idle)'
BY DEF SoundJob, Idle

LEMMA SoundStep ==
    ASSUME RegInv, Quiet, Next, quiet', NEW q \in Requests
    PROVE  SoundJob(request[q])'
<1>t. /\ TypeOK /\ CreateJobs /\ LiveNamed /\ quiet
      /\ \A r \in Requests : SoundJob(request[r])
  BY QuietSteps DEF RegInv, Quiet
<1>1. CASE request'[q] = Idle
  BY <1>1, IdleSound
<1>2. ASSUME Step(q), request'[q] # Idle
      PROVE  SoundJob(request[q])'
  <2>1. UNCHANGED kind
    BY <1>2, KindStays
  <2>2. ASSUME request[q] \in Creation, request'[q] \in Creation
        PROVE  SoundJob(request[q])'
    <3>1. /\ request'[q].owners = request[q].owners
          /\ \/ request'[q].made = request[q].made
             \/ Insert(q) /\ request'[q].made = request[q].made \cup {request[q].id}
      BY <1>t, <1>2, <2>2, Course DEF Creation, Renaming
    <3>2. /\ kind = "customer" => request[q].owners # <<>>
          /\ \A i \in request[q].made : i \in Ids /\ Live(i)
      BY <1>t, <2>2 DEF SoundJob, Creation
    <3>3. \A i \in Ids : Live(i) => row'[i].status = "LIVE"
      BY <1>t, <1>2, <2>2, RowStep
         DEF Creation, WriteUpdate, WriteOwners, WriteRemove, Live
    <3>4. Insert(q) => row'[request[q].id].status = "LIVE"
      <4> SUFFICES ASSUME Insert(q) PROVE row'[request[q].id].status = "LIVE"
        OBVIOUS
      <4>1. request[q].op = "create" /\ request[q].at # "row"
        BY DEF Insert
      <4>2. request[q].id \in Ids
        BY <1>t, <4>1, RowToCreate
      <4> QED BY <1>t, <4>2 DEF Insert, TypeOK
    <3>5. \A i \in request'[q].made : row'[i].status = "LIVE"
      BY <3>1, <3>2, <3>3, <3>4
    <3> QED BY <2>1, <2>2, <3>1, <3>2, <3>5 DEF SoundJob, Creation, Live
  <2>3. ASSUME request[q] \in Renaming, request'[q] \in Renaming
        PROVE  SoundJob(request[q])'
    <3>1. /\ TakeLock(q) \/ CheckUpdate(q)
          /\ request'[q].by = request[q].by /\ request'[q].id = request[q].id
          /\ request'[q].name = request[q].name /\ request'[q].full = request[q].full
          /\ request'[q].asked = request[q].asked
      BY <1>t, <1>2, <2>3, Course DEF Creation, Renaming
    <3>2. UNCHANGED row
      BY <3>1 DEF TakeLock, CheckUpdate
    <3>3. request[q].op = "update" /\ request'[q].op = "update"
      BY <2>3 DEF Renaming
    <3>4. Accessible(request[q].by, request[q].id)'
      BY <1>t, <2>1, <3>1, <3>2, <3>3 DEF SoundJob, Accessible, Live
    <3> QED BY <1>t, <3>1, <3>2, <3>3, <3>4 DEF SoundJob
  <2> QED BY <1>t, <1>2, <2>2, <2>3, Course
<1>3. ASSUME NEW u \in Users, Begin(q, u)
      PROVE  SoundJob(request[q])'
  <2>1. PICK p \in Pending : request' = [request EXCEPT ![q] = p] /\ SoundJob(p)
    BY <1>t, <1>3, Arrivals
  <2>2. request'[q] = p
    BY <1>t, <2>1 DEF TypeOK
  <2>3. UNCHANGED <<row, kind, used, referred>>
    BY <1>t, <1>3, Arrivals
  <2>4. SoundJob(p)'
    BY <2>1, <2>3 DEF SoundJob, Accessible, Live, Counted
  <2> QED BY <2>2, <2>4 DEF SoundJob
<1>4. ASSUME Around, UNCHANGED request
      PROVE  SoundJob(request[q])'
  <2>1. quiet' = (quiet /\ \A r \in Requests : request[r] = Idle)
    BY <1>t, <1>4, AroundStep
  <2>2. request'[q] = Idle
    BY <1>4, <2>1
  <2> QED BY <1>1, <2>2
<1> QED BY <1>1, <1>2, <1>3, <1>4, QuietSteps

LEMMA FirstNamed ==
    ASSUME NEW owners \in Seq(Users), owners # <<>>
    PROVE  /\ First(owners) = {Head(owners)} /\ Head(owners) \in Users
           /\ Head(owners) \in Named(owners)
<1>1. Head(owners) \in Users
  BY HeadTailProperties
<1>2. Len(owners) \in Nat /\ Len(owners) # 0 /\ DOMAIN owners = 1 .. Len(owners)
  BY EmptySeq, LenProperties
<1>3. 1 \in DOMAIN owners /\ Head(owners) = owners[1]
  BY <1>2
<1> QED BY <1>1, <1>3 DEF First, Named

LEMMA PrimaryStep ==
    ASSUME RegInv, Quiet, Next, quiet', kind' = "customer", NEW c \in Ids, Live(c)'
    PROVE  PrimaryOf(c)'
<1>t. /\ TypeOK /\ CreateJobs /\ LiveNamed /\ quiet
      /\ \A r \in Requests : SoundJob(request[r])
      /\ kind = "customer" => \A i \in Ids : Live(i) => PrimaryOf(i)
  BY QuietSteps DEF RegInv, Quiet
<1>1. ASSUME NEW r \in Requests, Step(r)
      PROVE  PrimaryOf(c)'
  <2>1. kind = "customer" /\ UNCHANGED gone
    BY <1>1, KindStays
  <2>2. CASE row'[c].owners = row[c].owners /\ row'[c].primary = row[c].primary /\ Live(c)
    BY <1>t, <2>1, <2>2 DEF PrimaryOf
  <2>3. ASSUME NEW owners \in Seq(Users), owners # <<>>,
               row'[c].owners = Named(owners), row'[c].primary = First(owners)
        PROVE  PrimaryOf(c)'
    <3>1. PICK v \in Users : First(owners) = {v} /\ v \in Named(owners)
      BY <2>3, FirstNamed
    <3>2. row'[c].primary = {v} /\ v \in row'[c].owners
      BY <2>3, <3>1
    <3> QED BY <3>2 DEF PrimaryOf
  <2>4. CASE Insert(r) /\ row'[c].owners = Named(request[r].owners)
             /\ row'[c].primary = First(request[r].owners)
    <3>1. request[r].op = "create"
      BY <2>4 DEF Insert
    <3>2. request[r].owners \in Seq(Users)
      BY <1>t, <3>1, JobTypes DEF Creation
    <3>3. request[r].owners # <<>>
      BY <1>t, <2>1, <3>1 DEF SoundJob
    <3> QED BY <2>3, <2>4, <3>2, <3>3
  <2>5. CASE /\ WriteOwners(r) /\ c = request[r].id
             /\ row'[c].owners =
                  (row[c].owners \ request[r].seen) \cup Named(request[r].owners)
             /\ row'[c].primary =
                  (row[c].primary \cap (row[c].owners \ request[r].seen))
                    \cup First(request[r].owners)
    <3>1. request[r].op = "owners"
      BY <2>5 DEF WriteOwners
    <3>2. request[r].owners \in Seq(Users)
      BY <1>t, <3>1, JobTypes DEF Reassignment
    <3>3. request[r].owners # <<>> /\ request[r].seen = row[c].owners
      BY <1>t, <2>5, <3>1 DEF SoundJob
    <3>4. row'[c].owners = Named(request[r].owners)
          /\ row'[c].primary = First(request[r].owners)
      BY <2>5, <3>3
    <3> QED BY <2>3, <3>2, <3>3, <3>4
  <2>6. CASE row'[c] = row[c]
    BY <2>2, <2>6 DEF Live
  <2> QED BY <1>t, <1>1, <2>2, <2>4, <2>5, <2>6, RowStep, Zenon DEF Live
<1>2. ASSUME NEW r \in Requests, NEW u \in Users, Begin(r, u)
      PROVE  PrimaryOf(c)'
  BY <1>t, <1>2, Arrivals DEF PrimaryOf, Live
<1>3. CASE Around
  <2>1. kind = "customer" /\ Live(c)
    BY <1>t, <1>3, AroundStep DEF Live
  <2>2. PrimaryOf(c)
    BY <1>t, <2>1
  <2>3. CASE UNCHANGED <<row, gone>>
    BY <2>2, <2>3 DEF PrimaryOf
  <2>4. ASSUME NEW u \in Users, gone' = gone \cup {u},
               row' = [i \in Ids |-> [row[i] EXCEPT !.owners = @ \ {u},
                                                    !.primary = @ \ {u}]]
        PROVE  PrimaryOf(c)'
    <3>1. row[c] \in Row
      BY <1>t DEF TypeOK
    <3>2. row'[c] = [row[c] EXCEPT !.owners = @ \ {u}, !.primary = @ \ {u}]
      BY <2>4
    <3>3. row'[c].owners = row[c].owners \ {u} /\ row'[c].primary = row[c].primary \ {u}
      BY <3>1, <3>2 DEF Row
    <3>4. row'[c].primary = {} \/ \E v \in Users : row'[c].primary = {v}
      BY <2>2, <3>3 DEF PrimaryOf
    <3> QED BY <2>2, <2>4, <3>3, <3>4 DEF PrimaryOf
  <2> QED BY <1>t, <1>3, <2>3, <2>4, AroundStep
<1> QED BY <1>1, <1>2, <1>3 DEF Next, Around

LEMMA QuietStep ==
    ASSUME RegInv, Quiet, Next
    PROVE  Quiet'
<1> SUFFICES ASSUME quiet'
             PROVE  /\ OneBusy'
                    /\ \A r \in Requests : SoundJob(request[r])'
                    /\ kind' = "customer" => \A c \in Ids : Live(c)' => PrimaryOf(c)'
  BY DEF Quiet
<1>1. OneBusy'
  BY QuietSteps DEF OneBusy, Quiet
<1> QED BY <1>1, SoundStep, PrimaryStep

LEMMA OrphanStep ==
    ASSUME RegInv, Quiet, PaymentRequestsKeepCustomer, Next
    PROVE  PaymentRequestsKeepCustomer'
<1>t. TypeOK /\ CreateJobs /\ LiveNamed
  BY DEF RegInv
<1>1. ASSUME NEW r \in Requests, WriteRemove(r)
      PROVE  PaymentRequestsKeepCustomer'
  <2>1. quiet /\ kind = "customer" => request[r].id \notin referred
    BY <1>1 DEF WriteRemove, Quiet, SoundJob, Counted
  <2>2. kind' = kind
        /\ orphaned' = (orphaned \/ (quiet /\ request[r].id \in referred))
    BY <1>1 DEF WriteRemove
  <2> QED BY <2>1, <2>2 DEF PaymentRequestsKeepCustomer
<1>2. ASSUME NEW r \in Requests, Step(r), ~WriteRemove(r)
      PROVE  PaymentRequestsKeepCustomer'
  BY <1>2 DEF Step, TakeRow, TakeLock, CheckCreate, FailCreate, Insert, FailInsert,
       Respond, CheckUpdate, WriteUpdate, WriteOwners, Abandon,
       PaymentRequestsKeepCustomer
<1>3. ASSUME NEW r \in Requests, NEW u \in Users, Begin(r, u)
      PROVE  PaymentRequestsKeepCustomer'
  BY <1>t, <1>3, Arrivals DEF PaymentRequestsKeepCustomer
<1>4. Around => PaymentRequestsKeepCustomer'
  BY <1>t, AroundStep DEF PaymentRequestsKeepCustomer
<1> QED BY <1>1, <1>2, <1>3, <1>4 DEF Next, Around

LEMMA InvInit == Init => Inv
<1> SUFFICES ASSUME Init PROVE Inv
  OBVIOUS
<1>1. Absent \in Row /\ Absent.status = "ABSENT"
  BY DEF Absent, Row
<1>2. TypeOK
  BY <1>1, IdlePending DEF Init, TypeOK
<1>3. /\ \A r \in Requests : request[r] = Idle /\ request[r].op = "idle"
      /\ \A i \in Ids : row[i].status = "ABSENT"
  BY <1>1 DEF Init, Idle
<1>4. LiveNamed /\ CreateJobs /\ Apart /\ Locked /\ NamesUnique /\ CodesApart
      /\ \A r \in Requests : Checked(r)
  BY <1>3 DEF LiveNamed, CreateJobs, CreateJob, Apart, Locked, Holding, NamesUnique,
     CodesApart, Checked, Live
<1>5. Quiet
  BY <1>3, IdleSound DEF Quiet, OneBusy, Live
<1>6. PaymentRequestsKeepCustomer
  BY DEF Init, PaymentRequestsKeepCustomer
<1> QED BY <1>2, <1>4, <1>5, <1>6 DEF Inv, RegInv

LEMMA InvStep == Inv /\ [Next]_vars => Inv'
<1>1. ASSUME Inv, Next PROVE Inv'
  <2>1. TypeOK' /\ LiveNamed'
    BY <1>1, TypeStep DEF Inv, RegInv
  <2>2. RegInv /\ Quiet /\ PaymentRequestsKeepCustomer
    BY <1>1 DEF Inv
  <2>3. RegInv'
    BY <1>1, <2>1, <2>2, CreateJobsStep, ApartStep, LockedStep, CheckedStep, UniqueStep
       DEF RegInv
  <2> QED
    BY <1>1, <2>2, <2>3, QuietStep, OrphanStep DEF Inv
<1>2. ASSUME Inv, UNCHANGED vars PROVE Inv'
  BY <1>2
     DEF Inv, RegInv, vars, TypeOK, LiveNamed, CreateJobs, CreateJob, Apart, Locked, Holding,
         Checked, Clash, Codes, NamesUnique, CodesApart, Quiet, OneBusy, SoundJob, Accessible,
         Counted, PrimaryOf, PaymentRequestsKeepCustomer, Live
<1> QED BY <1>1, <1>2

LEMMA InvHolds == Spec => []Inv
BY InvInit, InvStep, PTL DEF Spec

(* The rows, the lock and the requests keep their types, for any number of  *)
(* each and for imports of any length.                                     *)
THEOREM RegistryTypes == Spec => []TypeOK
<1>1. Inv => TypeOK
  BY DEF Inv, RegInv
<1> QED BY <1>1, InvHolds, PTL

(* No two customers, and no two signing entities, come to share a name,     *)
(* short or full: whoever writes one has found no clash under the lock,     *)
(* which it has held since.                                                *)
THEOREM NamesStayUnique == Spec => []NamesUnique
<1>1. Inv => NamesUnique
  BY DEF Inv, RegInv
<1> QED BY <1>1, InvHolds, PTL

(* No creation fails for its code, and no two rows share one.               *)
THEOREM CodesStayFree == Spec => []CodesFree
<1>1. Inv => CodesFree
  BY DEF Inv, RegInv, CodesFree, CodesApart, Checked
<1> QED BY <1>1, InvHolds, PTL

(* What an import says it has created is registered, unless another request *)
(* has removed it since.                                                   *)
THEOREM ImportsAnswerAll == Spec => []ImportAnswersAll
<1>1. ASSUME Inv PROVE ImportAnswersAll
  <2> SUFFICES ASSUME NEW r \in Requests, request[r].op = "create"
               PROVE  /\ \A i \in request[r].made : row[i].status # "ABSENT"
                      /\ quiet => \A i \in request[r].made : Live(i)
    BY DEF ImportAnswersAll
  <2>1. \A i \in request[r].made : row[i].status # "ABSENT"
    BY <1>1 DEF Inv, RegInv, CreateJobs, CreateJob
  <2>2. quiet => \A i \in request[r].made : Live(i)
    BY <1>1 DEF Inv, Quiet, SoundJob
  <2> QED BY <2>1, <2>2
<1> QED BY <1>1, InvHolds, PTL

(* With requests one after another, a customer has exactly one primary      *)
(* owner, one of its owners, until that user is deleted.                   *)
THEOREM OnePrimaryOwnerStays == Spec => []OnePrimaryOwner
<1>1. ASSUME Inv PROVE OnePrimaryOwner
  <2> SUFFICES ASSUME quiet, kind = "customer", NEW c \in Ids, Live(c)
               PROVE  /\ row[c].primary \subseteq row[c].owners
                      /\ Cardinality(row[c].primary) <= 1
                      /\ gone = {} => row[c].primary # {}
    BY DEF OnePrimaryOwner
  <2>1. PrimaryOf(c)
    BY <1>1 DEF Inv, Quiet
  <2>2. Cardinality(row[c].primary) <= 1
    <3>1. Cardinality({}) = 0 /\ \A u \in Users : Cardinality({u}) = 1
      BY FS_EmptySet, FS_Singleton
    <3> QED BY <2>1, <3>1 DEF PrimaryOf
  <2> QED BY <2>1, <2>2 DEF PrimaryOf
<1> QED BY <1>1, InvHolds, PTL

(* With requests one after another, removing a customer takes it from no    *)
(* payment request.                                                        *)
THEOREM PaymentRequestsStay == Spec => []PaymentRequestsKeepCustomer
<1>1. Inv => PaymentRequestsKeepCustomer
  BY DEF Inv
<1> QED BY <1>1, InvHolds, PTL

LEMMA OwnersStep ==
    ASSUME Inv, [Next]_vars, quiet, quiet', kind = "customer", NEW c \in Ids, Live(c),
           row'[c] # row[c], gone' = gone
    PROVE  \E r \in Requests :
             /\ request'[r] # request[r]
             /\ request[r].by \in ReadAll \/ request[r].by \in row[c].owners
<1>t. /\ TypeOK /\ CreateJobs /\ LiveNamed
      /\ \A r \in Requests : SoundJob(request[r])
  BY DEF Inv, RegInv, Quiet
<1>1. ASSUME NEW r \in Requests, Step(r)
      PROVE  /\ request'[r] # request[r]
             /\ request[r].by \in ReadAll \/ request[r].by \in row[c].owners
  <2>1. WriteUpdate(r) \/ WriteOwners(r) \/ WriteRemove(r)
    BY <1>t, <1>1, RowStep DEF Live
  <2>2. c = request[r].id
    BY <1>t, <1>1, RowStep DEF Live
  <2>3. request[r].op \in {"update", "owners", "remove"} /\ request'[r] = Idle
    BY <1>t, <2>1 DEF WriteUpdate, WriteOwners, WriteRemove, TypeOK
  <2>4. Accessible(request[r].by, c)
    BY <1>t, <2>2, <2>3 DEF SoundJob
  <2>5. Idle.op = "idle"
    BY DEF Idle
  <2> QED BY <2>3, <2>4, <2>5 DEF Accessible
<1>2. ~\E r \in Requests, u \in Users : Begin(r, u)
  BY <1>t, Arrivals
<1>3. ~Around
  <2> SUFFICES ASSUME Around PROVE FALSE
    OBVIOUS
  <2>1. \E u \in Users : u \notin gone /\ gone' = gone \cup {u}
    BY <1>t, AroundStep
  <2> QED BY <2>1
<1>4. Next
  BY DEF vars
<1> QED BY <1>1, <1>2, <1>3, <1>4 DEF Next, Around

(* With requests one after another, a customer is renamed, reassigned or    *)
(* removed only for a user who may see all customers or owns it.           *)
THEOREM OwnersDecide == Spec => OwnersChange
<1> DEFINE Decide == quiet /\ quiet' /\ kind = "customer" =>
             \A c \in Ids : Live(c) /\ row'[c] # row[c] /\ gone' = gone =>
               \E r \in Requests :
                 /\ request'[r] # request[r]
                 /\ request[r].by \in ReadAll \/ request[r].by \in row[c].owners
<1>1. Inv /\ [Next]_vars => [Decide]_vars
  BY OwnersStep
<1>2. Spec => [][Decide]_vars
  <2> HIDE DEF Decide
  <2> QED BY <1>1, InvHolds, PTL DEF Spec
<1> QED BY <1>2 DEF OwnersChange

LEMMA NamesStep ==
    ASSUME Inv, [Next]_vars, quiet, quiet', NEW i \in Ids, Live(i), row'[i].status = "LIVE"
    PROVE  \E name, full \in Names \cup {None} :
             /\ \/ <<name, full>> = <<None, None>>
                \/ Asked(i, [name |-> name, full |-> full])
             /\ row'[i].name \in {row[i].name, name}
             /\ row'[i].full \in {row[i].full, full}
<1>t. /\ TypeOK /\ CreateJobs /\ LiveNamed
      /\ \A r \in Requests : SoundJob(request[r])
  BY DEF Inv, RegInv, Quiet
<1>1. CASE row'[i].name = row[i].name /\ row'[i].full = row[i].full
  BY <1>1
<1>2. ASSUME NEW r \in Requests, WriteUpdate(r), i = request[r].id,
             row'[i].name = request[r].name, row'[i].full = request[r].full
      PROVE  \E name, full \in Names \cup {None} :
               /\ Asked(i, [name |-> name, full |-> full])
               /\ row'[i].name \in {row[i].name, name}
               /\ row'[i].full \in {row[i].full, full}
  <2> DEFINE name == request[r].asked.name
             full == request[r].asked.full
  <2>1. request[r] \in Renaming /\ request[r].op = "update"
    BY <1>t, <1>2, JobTypes DEF WriteUpdate
  <2>2. /\ name \in Names \cup {None} /\ full \in Names \cup {None}
        /\ request[r].asked = [name |-> name, full |-> full]
    BY <2>1 DEF Renaming
  <2>3. /\ request[r].name = IF name = None THEN row[i].name ELSE name
        /\ request[r].full = IF full = None THEN row[i].full ELSE full
    BY <1>t, <1>2, <2>1 DEF SoundJob
  <2>4. Asked(i, [name |-> name, full |-> full])
    BY <1>2, <2>1, <2>2 DEF Asked
  <2> HIDE DEF name, full
  <2> QED BY <1>2, <2>2, <2>3, <2>4
<1>3. ASSUME NEW r \in Requests, Step(r)
      PROVE  \/ row'[i].name = row[i].name /\ row'[i].full = row[i].full
             \/ /\ WriteUpdate(r) /\ i = request[r].id
                /\ row'[i].name = request[r].name /\ row'[i].full = request[r].full
  BY <1>t, <1>3, RowStep DEF Live
<1>4. ASSUME NEW r \in Requests, NEW u \in Users, Begin(r, u)
      PROVE  row'[i].name = row[i].name /\ row'[i].full = row[i].full
  BY <1>t, <1>4, Arrivals
<1>5. CASE Around
  BY <1>t, <1>1, <1>5, AroundStep
<1>6. CASE UNCHANGED vars
  BY <1>1, <1>6 DEF vars
<1> QED BY <1>1, <1>2, <1>3, <1>4, <1>5, <1>6 DEF Next, Around

(* With requests one after another, a name changes only to one that a       *)
(* request has asked for, in the same place.                               *)
THEOREM NamesChangeAsAsked == Spec => NamesAsAsked
<1> DEFINE AsAsked == quiet /\ quiet' =>
             \A i \in Ids : Live(i) /\ row'[i].status = "LIVE" =>
               \E name, full \in Names \cup {None} :
                 /\ \/ <<name, full>> = <<None, None>>
                    \/ Asked(i, [name |-> name, full |-> full])
                 /\ row'[i].name \in {row[i].name, name}
                 /\ row'[i].full \in {row[i].full, full}
<1>1. Inv /\ [Next]_vars => [AsAsked]_vars
  BY NamesStep
<1>2. Spec => [][AsAsked]_vars
  <2> HIDE DEF AsAsked
  <2> QED BY <1>1, InvHolds, PTL DEF Spec
<1> QED BY <1>2 DEF NamesAsAsked
=============================================================================
