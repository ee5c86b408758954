CONSTANTS
  NSlots = 4
  Protected = 2
  Experts = {e1, e2, e3}
  Tags = {1, 2, 3, 4}
  NoExpert = NoExpert
  NoTag = 0
  MaxClock = 4
  Requests <- MCRequests
  Segments = 2
  MaxSegments = 2
  RoutedSize = 2
  Budgets = {1, 2}
  Gone = Gone
  Period = 2
  SyncedShrink = FALSE
SPECIFICATION Spec
SYMMETRY MCSymmetry
INVARIANTS ReadersKeepTheirBuffer
CHECK_DEADLOCK FALSE
