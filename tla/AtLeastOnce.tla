---------------------------- MODULE AtLeastOnce ----------------------------
(***************************************************************************)
(* What the outbox promises (docs/adr/0004-use-background-jobs-and-        *)
(* outbox.md): a side effect is recorded with the business data, is        *)
(* performed only after that, perhaps more than once, and every recorded   *)
(* one is performed in the end.                                            *)
(***************************************************************************)
CONSTANTS Events

VARIABLES
    recorded,   \* events whose business transaction has committed
    performed   \* events whose side effect has happened

vars == <<recorded, performed>>

Init == recorded = {} /\ performed = {}

Record(e) ==
    /\ recorded' = recorded \cup {e}
    /\ UNCHANGED performed

Perform(e) ==
    /\ e \in recorded
    /\ performed' = performed \cup {e}
    /\ UNCHANGED recorded

Next == \E e \in Events : Record(e) \/ Perform(e)

Spec == Init /\ [][Next]_vars /\ \A e \in Events : WF_vars(Perform(e))
=============================================================================
