----------------------------- MODULE DecodeSteps -----------------------------
(***************************************************************************)
(* The engines that drive one device row cache: a decode step walks the    *)
(* layers in ascending order and a layer with no cold expert does not ask  *)
(* (mxfp4_residency.py, _resolve_src), so any set of layers, the empty one *)
(* included, asks in a step.  The census is never told where a step ends;  *)
(* here the truth is kept beside what it infers.                           *)
(***************************************************************************)
EXTENDS StepCensus, Sequences

CONSTANTS MaxAsk,          \* largest routed set
          MaxSteps         \* bound on the decode steps

ASSUME DecodeStepsAssumption ==
  MaxAsk \in Nat /\ MaxSteps \in Nat /\ Layers # {}

VARIABLES counts,    \* the census that the cache keeps
          passed,    \* the last layer that asked in the running step, or 0
          before,    \* the last layer that asked in an earlier step, or 0
          truth,     \* rows the running step has asked for
          finished,  \* rows each finished step asked for
          joined,    \* rows of the finished steps that no request has yet
                     \* set apart from the running one
          groups     \* rows of each run of steps that has been set apart

stepsVars == <<counts, passed, before, truth, finished, joined, groups>>

StepsInit ==
  /\ counts = NewCensus
  /\ passed = 0
  /\ before = 0
  /\ truth = 0
  /\ finished = <<>>
  /\ joined = 0
  /\ groups = <<>>

(* The first request of a step tells it from the steps before when its     *)
(* layer does not lie above the last layer that asked.                     *)
Ask(layer, n) ==
  /\ layer > passed
  /\ counts' = Counted(counts, layer, n)
  /\ passed' = layer
  /\ truth' = truth + n
  /\ IF passed = 0 /\ layer <= before
     THEN groups' = Append(groups, joined) /\ joined' = 0
     ELSE UNCHANGED <<groups, joined>>
  /\ UNCHANGED <<before, finished>>

NextStep ==
  /\ Len(finished) + 1 < MaxSteps
  /\ finished' = Append(finished, truth)
  /\ joined' = joined + truth
  /\ before' = IF passed > 0 THEN passed ELSE before
  /\ passed' = 0
  /\ truth' = 0
  /\ UNCHANGED <<counts, groups>>

StepsNext == NextStep \/ \E l \in Layers, n \in 1 .. MaxAsk : Ask(l, n)

StepsSpec == StepsInit /\ [][StepsNext]_stepsVars

-----------------------------------------------------------------------------
(* What the census holds for the current step is the demand of a whole run *)
(* of consecutive steps, the running one last: no layer that has fallen    *)
(* silent lingers in it, no request is lost, and steps are run together    *)
(* only where each begins above the layer on which the one before ended    *)
(* (dev_row_cache.py:182-193, 244-251).                                    *)
DemandIsWholeSteps == CurrentDemand(counts) = joined + truth

(* The last and the worst step the census reports are each the demand of a *)
(* whole run of steps that has been set apart, the last and the largest.   *)
ReportsAreWholeSteps ==
  groups # <<>> =>
    /\ counts.perStep = groups[Len(groups)]
    /\ counts.perStepMax = Max({groups[i] : i \in DOMAIN groups})

(* Where the census errs it errs upward: no finished step asked for more   *)
(* rows than the worst one reported or the one still being counted, so a   *)
(* cache judged large enough by per_step_rows_max holds every step that it *)
(* has heard the end of.                                                   *)
NoStepIsMissed ==
  \A i \in DOMAIN finished :
    finished[i] <= Max({counts.perStepMax, CurrentDemand(counts)})

(* dev_row_cache.py:182: "Accumulated for the CURRENT step only".  False   *)
(* where a step begins above the layer on which the one before ended.      *)
CurrentStepOnly == passed > 0 => CurrentDemand(counts) = truth
=============================================================================
