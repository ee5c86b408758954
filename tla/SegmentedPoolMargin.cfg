CONSTANTS
  NSlots = 3
  Protected = 1
  Experts = {e1, e2, e3, e4}
  Tags = {1, 2, 3}
  NoExpert = NoExpert
  NoTag = 0
  MaxClock = 3
  Requests <- MCRequests
  Segments = 1
  MaxSegments = 1
  RoutedSize = 2
  Budgets = {2}
  Gone = Gone
  Period = 1
  SyncedShrink = TRUE
SPECIFICATION Spec
SYMMETRY MCSymmetry
INVARIANTS GatherReadsItsExpert
CHECK_DEADLOCK FALSE
