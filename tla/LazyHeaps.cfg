SPECIFICATION HeapSpec
CONSTANTS
  Keys = {1, 2, 3, 4}
  NoKey = 0
  NoThread = NoThread
  Demand = forward
  Prefetchers = {prefetcher}
  HotRows = 3
  ProtectedRows = 1
  HeapLimit = 2
  DemandCalls = 3
  PrefetchCalls = 1
  Requests <- MCRequests
  MaxRequests <- MCMaxRequests
INVARIANTS VictimAsScanned DemotionAsScanned
CHECK_DEADLOCK FALSE
