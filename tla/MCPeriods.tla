----------------------------- MODULE MCPeriods -----------------------------
(* Values for model checking Periods.                                      *)
EXTENDS Periods, TLC

CONSTANTS b1, e1, c1, c2, n1, n2

(* The bill and the cost entry are of two customers, one of whom has two    *)
(* owners.                                                                 *)
TwoCustomers == (b1 :> c1) @@ (e1 :> c2)
Owners == (c1 :> {n1, n2}) @@ (c2 :> {})

PeriodsSymmetry == Permutations(Sessions) \cup Permutations(Receipts)
=============================================================================
