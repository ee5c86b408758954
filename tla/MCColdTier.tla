------------------------------ MODULE MCColdTier ------------------------------
EXTENDS ColdTier, TLC

\* The number of calls each kind of thread makes, and the longest request.
CONSTANTS DemandCalls, PrefetchCalls, MaxLen

AnyRequest == {q \in UNION {[1 .. n -> Keys] : n \in 1 .. MaxLen} : IsInjective(q)}

MCRequests == [t \in Threads |-> AnyRequest]

(* The demand thread's request fixed, and the prefetchers' in one order:    *)
(* which keys a request names is then a matter of naming, but for those     *)
(* it shares with the demand thread's.                                      *)
MCDemand == CHOOSE q \in AnyRequest : Len(q) = MaxLen

MCOthers == CHOOSE q \in [1 .. Cardinality(Keys) - MaxLen -> Keys \ Range(MCDemand)] : IsInjective(q)

MCOneDemand ==
  LET order == MCDemand \o MCOthers
  IN [t \in Threads |->
        IF t = Demand THEN {MCDemand}
        ELSE {q \in AnyRequest :
                \E i, j \in DOMAIN order :
                  /\ i <= j
                  /\ j > MaxLen + 1 => i = j - 1
                  /\ q = IF i = j THEN <<order[i]>> ELSE <<order[i], order[j]>>}]

MCMaxRequests == [t \in Threads |-> IF t = Demand THEN DemandCalls ELSE PrefetchCalls]

MCSymmetry == Permutations(Keys)
=============================================================================
