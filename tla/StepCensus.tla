------------------------------ MODULE StepCensus ------------------------------
(***************************************************************************)
(* The per-step demand a device row cache learns from the requests it      *)
(* sees (src/kernel/dev_row_cache.py, the accounting of want): the rows    *)
(* asked for in the step now running, by layer, those of the last step     *)
(* that ended, the worst step so far and the largest request.  A layer     *)
(* that does not increase is how a new step is recognised.                 *)
(***************************************************************************)
EXTENDS Integers, FiniteSets, FiniteSetsExt

CONSTANTS Layers      \* layer indices, from 1; 0 stands for None

ASSUME StepCensusAssumption == Layers \subseteq Nat \ {0} /\ IsFiniteSet(Layers)

NewCensus ==
  [cur |-> [l \in Layers |-> 0], lastLayer |-> 0,
   perStep |-> 0, perStepMax |-> 0, maxWant |-> 0]

CurrentDemand(c) == MapThenSumSet(LAMBDA l : c.cur[l], Layers)

\* Mutant: a layer that asks twice in a row is taken for one step.
StepEndedBelow(c, layer) ==
  (\E l \in Layers : c.cur[l] > 0) /\ layer < c.lastLayer

StepEnded(c, layer) ==
  /\ \E l \in Layers : c.cur[l] > 0
  /\ c.lastLayer # 0
  /\ layer <= c.lastLayer

\* Mutant: the demand of a layer that has fallen silent is kept for ever.
CountedForEver(c, layer, n) ==
  [c EXCEPT !.cur[layer] = n, !.lastLayer = layer, !.maxWant = Max({@, n})]

\* Mutant: the worst step is taken before the last one has been added up.
CountedMaxFirst(c, layer, n) ==
  LET ended == StepEnded(c, layer)
  IN [cur        |-> [l \in Layers |-> IF l = layer THEN n
                                       ELSE IF ended THEN 0 ELSE c.cur[l]],
      lastLayer  |-> layer,
      perStep    |-> IF ended THEN CurrentDemand(c) ELSE c.perStep,
      perStepMax |-> IF ended THEN Max({c.perStepMax, c.perStep})
                              ELSE c.perStepMax,
      maxWant    |-> Max({c.maxWant, n})]

\* want's accounting of a request of n distinct experts by a layer.
Counted(c, layer, n) ==
  LET ended == StepEnded(c, layer)
  IN [cur        |-> [l \in Layers |-> IF l = layer THEN n
                                       ELSE IF ended THEN 0 ELSE c.cur[l]],
      lastLayer  |-> layer,
      perStep    |-> IF ended THEN CurrentDemand(c) ELSE c.perStep,
      perStepMax |-> IF ended THEN Max({c.perStepMax, CurrentDemand(c)})
                              ELSE c.perStepMax,
      maxWant    |-> Max({c.maxWant, n})]
=============================================================================
