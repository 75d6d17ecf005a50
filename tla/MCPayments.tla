----------------------------- MODULE MCPayments -----------------------------
(* Values for model checking Payments: ids of one kind are interchangeable. *)
EXTENDS Payments, TLC

IdSymmetry ==
    Permutations(PayableIds) \cup Permutations(RequestIds)
      \cup Permutations(PaymentIds) \cup Permutations(Sessions)
=============================================================================
