CONSTANTS
  Layers = {1, 2, 3, 4}
  NoLayer = 0
  Experts = {1, 2}
  FirstExpert = 1
  NoExpert = 0
  Addresses = {1, 2, 3, 4}
  NoAddress = 0
  Slots = {1}
  Stores = {"tiered", "mixed"}
  StoreOf <- TwoStores
  Tiered = {1, 2, 4}
  Captured = {3}
  Hot <- HotRows
SPECIFICATION Spec
INVARIANT SlotsHoldTheirExperts
