CONSTANTS
  NSlots = 3
  Protected = 2
  Experts = {e1, e2, e3, e4}
  Tags = {t1, t2}
  NoExpert = NoExpert
  NoTag = NoTag
  MaxClock = 4
  Requests <- MCRequests
SPECIFICATION ArenaSpec
SYMMETRY MCSymmetry
INVARIANTS ArenaTypeOK OneSlotPerExpert IndexesAgree RecencyAgrees
PROPERTIES RetiringKeepsExpert GenerationTracksContents
