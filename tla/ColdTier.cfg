SPECIFICATION Spec
CONSTANTS
  k1 = k1
  k2 = k2
  k3 = k3
  forward = forward
  prefetcher = prefetcher
  NoKey = NoKey
  NoThread = NoThread
  Keys = {k1, k2, k3}
  HotRows = 2
  ProtectedRows = 1
  Demand = forward
  Prefetchers = {prefetcher}
  DemandCalls = 2
  PrefetchCalls = 2
  MaxLen = 2
  Requests <- MCRequests
  MaxRequests <- MCMaxRequests
SYMMETRY MCSymmetry
CHECK_DEADLOCK FALSE
INVARIANTS
  EverySlotInOnePlace
  OneFillPerKey
  ResidentBytesAreItsOwn
  WindowHolds
  CopyReadsItsRow
  DemandNeverRefused
PROPERTIES
  GenerationMovesWithContents
  ImplementsRowCache
