---------------------------- MODULE MCReceivables ----------------------------
(* Values for model checking Receivables: ids of one kind are               *)
(* interchangeable.                                                        *)
EXTENDS Receivables, TLC

IdSymmetry ==
    Permutations(BillIds) \cup Permutations(InvoiceIds)
      \cup Permutations(ReceiptIds) \cup Permutations(Sessions)

UpAndDown == {-1, 1}

ZeroOrBelow == {-1, 0}
=============================================================================
