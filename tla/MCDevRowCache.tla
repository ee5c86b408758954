---------------------------- MODULE MCDevRowCache ----------------------------
(* DevRowCache under two layers: layer 1 routes two of E experts at a time, *)
(* layer 2 one of two.  The order in which a request names its experts is    *)
(* immaterial to the engine, so each set is asked in one order.              *)
EXTENDS DevRowCache, TLC

CONSTANT E

MCExperts == ({1} \X E) \cup ({2} \X {1, 2})

MCLayerOf(key) == key[1]

MCRequests ==
  {q \in RequestsOver({1} \X E, 2) : Cardinality(DOMAIN q) = 2 /\ q[1][2] < q[2][2]}
    \cup RequestsOver({2} \X {1, 2}, 1)
=============================================================================
