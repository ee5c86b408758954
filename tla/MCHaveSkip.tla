----------------------------- MODULE MCHaveSkip -----------------------------
EXTENDS HaveSkip, TLC, Integers

(* Two tiered layers share a store; a pinned one, whose decode step is     *)
(* captured, shares another with a third tiered layer.  One expert of the  *)
(* first layer stays on the device, and one row is cold.                   *)
TwoStores == [l \in Layers |-> IF l <= 2 THEN "tiered" ELSE "mixed"]
HotRows == (<<1, 1>> :> 1) @@ (<<3, 1>> :> 2) @@ (<<3, 2>> :> 3)
=============================================================================
