SPECIFICATION FairSpec
CONSTANTS
  k1 = k1
  k2 = k2
  k3 = k3
  k4 = k4
  forward = forward
  prefetcher = prefetcher
  NoKey = NoKey
  NoThread = NoThread
  Keys = {k1, k2, k3, k4}
  HotRows = 3
  ProtectedRows = 2
  Demand = forward
  Prefetchers = {prefetcher}
  DemandCalls = 1
  PrefetchCalls = 2
  MaxLen = 2
  Requests <- MCOneDemand
  MaxRequests <- MCMaxRequests
CHECK_DEADLOCK FALSE
PROPERTIES
  CallsEnd
INVARIANTS OneFillPerKey
