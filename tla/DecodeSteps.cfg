CONSTANTS
  Layers = {1, 2, 3}
  MaxAsk = 2
  MaxSteps = 4
SPECIFICATION StepsSpec
INVARIANTS DemandIsWholeSteps ReportsAreWholeSteps NoStepIsMissed
CHECK_DEADLOCK FALSE
