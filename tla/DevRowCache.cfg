CONSTANTS
  NSlots = 4
  Protected = 2
  Layers = {1, 2}
  E = {1, 2, 3}
  Experts <- MCExperts
  Requests <- MCRequests
  LayerOf <- MCLayerOf
  Tags = {1, 2, 3, 4}
  NoExpert = NoExpert
  NoTag = 0
  MaxClock = 4
SPECIFICATION FairSpec
INVARIANTS OneSlotPerExpert IndexesAgree RecencyAgrees
           GatherReadsItsExpert PublishedRowIsFilled StallFreesEnough
           EvictionsAllAccounted
PROPERTIES RetiringKeepsExpert StallEnds ImplementsArena
CHECK_DEADLOCK FALSE
