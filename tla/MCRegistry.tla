----------------------------- MODULE MCRegistry -----------------------------
(* Values for model checking Registry: rows to create, and the symmetry of  *)
(* ids, names and requests.                                                *)
EXTENDS Registry, TLC

Pair(n, f) == [name |-> n, full |-> f]

(* One row or, as an import, two.                                          *)
FewRows ==
    {<<Pair(n, f)>> : n, f \in Names}
    \cup {s \in {<<Pair(n, n), Pair(f, f)>> : n, f \in Names} : s[1] # s[2]}

OneOwner == {<<u>> : u \in Users}

IdSymmetry ==
    Permutations(Ids) \cup Permutations(Names) \cup Permutations(Requests)
=============================================================================
