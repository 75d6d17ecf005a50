---------------------------- MODULE MCContracts ----------------------------
(* Values for model checking Contracts.                                    *)
EXTENDS Contracts, TLC

AllFiles == {Files}

Ours(base, fixed) == [base : {base}, fixed : {fixed}, active : {TRUE}, amount : Fees]

(* Active items of a fixed amount, of the base fee's name and of another.   *)
FewItems == Ours(TRUE, TRUE) \cup Ours(FALSE, TRUE)

OtherNames == Ours(FALSE, TRUE)

(* A creation brings no items of its own, or two that charge the base fee.  *)
FewLists == {<<>>} \cup {<<x, x>> : x \in Ours(TRUE, TRUE)}

NoLists == {<<>>}

RequestSymmetry ==
    Permutations(Files) \cup Permutations(Requests) \cup Permutations(Fees)
=============================================================================
