CONSTANTS
  Layers = {1, 2}
  MaxAsk = 1
  MaxSteps = 2
SPECIFICATION StepsSpec
INVARIANT CurrentStepOnly
CHECK_DEADLOCK FALSE
