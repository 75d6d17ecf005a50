-------------------------- MODULE MCBillGeneration --------------------------
(* Values for model checking BillGeneration: ids of one kind are            *)
(* interchangeable, except where liveness is checked.                      *)
EXTENDS BillGeneration, TLC

IdSymmetry ==
    Permutations(Contracts) \cup Permutations(Charges) \cup Permutations(Sessions)
=============================================================================
