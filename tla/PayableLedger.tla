---------------------------- MODULE PayableLedger ----------------------------
(***************************************************************************)
(* What accounts payable promises: a book of debts and of entries posted   *)
(* against them.  What is still owed is never stored; it follows from the  *)
(* entries that have not been reversed.  An entry may be reversed again by *)
(* whoever saw it posted before: the book then writes its amounts off once *)
(* more, as long as that much is still booked.  Payments.tla, which stores *)
(* the balance and the status in columns of their own, is shown to         *)
(* implement this.                                                         *)
(***************************************************************************)
EXTENDS Sums

CONSTANTS PayableIds, PaymentIds

VARIABLES
    debt,   \* for each payable: is it entered, is it confirmed, how much
    entry,  \* for each payment: free, posted or reversed, and its amounts
    taken   \* for each payable: the units written off by repeated reversals

vars == <<debt, entry, taken>>

Posted(p) ==
    Total([x \in PaymentIds |->
             IF entry[x].state = "posted" THEN entry[x].alloc[p] ELSE 0],
          PaymentIds)

Booked(p) == Posted(p) - taken[p]

Init ==
    /\ debt = [p \in PayableIds |-> [state |-> "none", amount |-> 0]]
    /\ entry = [x \in PaymentIds |->
                 [state |-> "free", alloc |-> [p \in PayableIds |-> 0]]]
    /\ taken = [p \in PayableIds |-> 0]

Enter(p, n) ==
    /\ debt[p].state = "none"
    /\ debt' = [debt EXCEPT ![p] = [state |-> "entered", amount |-> n]]
    /\ UNCHANGED <<entry, taken>>

Confirm(p) ==
    /\ debt[p].state = "entered"
    /\ debt' = [debt EXCEPT ![p].state = "confirmed"]
    /\ UNCHANGED <<entry, taken>>

Post(x, a) ==
    /\ entry[x].state = "free"
    /\ \A p \in PayableIds : a[p] > 0 =>
         debt[p].state = "confirmed" /\ Booked(p) + a[p] <= debt[p].amount
    /\ entry' = [entry EXCEPT ![x] = [state |-> "posted", alloc |-> a]]
    /\ UNCHANGED <<debt, taken>>

StillBooked(x) == \A p \in PayableIds : entry[x].alloc[p] <= Booked(p)

Reverse(x) ==
    /\ entry[x].state = "posted"
    /\ StillBooked(x)
    /\ entry' = [entry EXCEPT ![x].state = "reversed"]
    /\ UNCHANGED <<debt, taken>>

ReverseAgain(x) ==
    /\ entry[x].state = "reversed"
    /\ StillBooked(x)
    /\ taken' = [p \in PayableIds |-> taken[p] + entry[x].alloc[p]]
    /\ UNCHANGED <<debt, entry>>

(* The amounts are those the step writes, so that no bound is needed here. *)
Next ==
    \/ \E p \in PayableIds : Enter(p, debt'[p].amount) \/ Confirm(p)
    \/ \E x \in PaymentIds :
         Post(x, entry'[x].alloc) \/ Reverse(x) \/ ReverseAgain(x)

Spec == Init /\ [][Next]_vars
=============================================================================
