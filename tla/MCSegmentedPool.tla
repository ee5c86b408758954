--------------------------- MODULE MCSegmentedPool ---------------------------
(* SegmentedPool under every routed set of two keys.  A budget of one makes *)
(* of them a request for a single row.                                     *)
EXTENDS SegmentedPool, TLC

MCRequests == {q \in RequestsOver(Experts, 2) : Len(q) = 2}

MCSymmetry == Permutations(Experts)
=============================================================================
