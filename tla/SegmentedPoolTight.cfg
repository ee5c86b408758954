CONSTANTS
  NSlots = 2
  Protected = 1
  Experts = {e1, e2, e3, e4}
  Tags = {1, 2, 3}
  NoExpert = NoExpert
  NoTag = 0
  MaxClock = 3
  Requests <- MCRequests
  Segments = 2
  MaxSegments = 2
  RoutedSize = 2
  Budgets = {1, 2}
  Gone = Gone
  Period = 2
  SyncedShrink = TRUE
SPECIFICATION Spec
SYMMETRY MCSymmetry
INVARIANTS WhereCoversResidents
CHECK_DEADLOCK FALSE
