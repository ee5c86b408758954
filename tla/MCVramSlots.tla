----------------------------- MODULE MCVramSlots -----------------------------
(* VramSlots on a small arena, driven by every request of up to two experts. *)
EXTENDS VramSlots, TLC

MCRequests == RequestsOver(Experts, 2)

MCSymmetry == Permutations(Experts) \cup Permutations(Tags)
=============================================================================
