-------------------------------- MODULE Sums --------------------------------
(***************************************************************************)
(* Sums of natural-valued functions, the model of sum() of                 *)
(* common/utils/finance.ts.  Money is counted in its smallest unit, and    *)
(* the sum of f over S is the number of units that f assigns in S.         *)
(* Counting units instead of folding keeps the operator free of recursion, *)
(* so that its laws follow from the laws of Cardinality.                   *)
(***************************************************************************)
EXTENDS Naturals, FiniteSets

Units(f, S) == UNION {{x} \X (1 .. f[x]) : x \in S}

Total(f, S) == Cardinality(Units(f, S))
=============================================================================
