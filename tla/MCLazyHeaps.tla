----------------------------- MODULE MCLazyHeaps -----------------------------
(* LazyHeaps under requests of one key or of two by the forward pass, and   *)
(* one by a prefetcher that takes the whole pool.                           *)
EXTENDS LazyHeaps

CONSTANTS DemandCalls, PrefetchCalls

MCRequests == [t \in Threads |-> IF t = Demand THEN {<<1>>, <<1, 2>>} ELSE {<<2, 3, 4>>}]

MCMaxRequests == [t \in Threads |-> IF t = Demand THEN DemandCalls ELSE PrefetchCalls]
=============================================================================
