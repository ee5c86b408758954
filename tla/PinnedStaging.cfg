CONSTANTS
  main = main
  side = side
  Streams = {main, side}
  CaptureStream = side
  ReplayStream = main
  Requests <- MCRequests
  RingSlots = 2
  SlotInts = 1
  ArenaInts = 2
  MemoSize = 1
  Buffers = {1, 2, 3, 4}
  MaxHeld = 1
  MaxQueue = 2
  MaxUploads = 3
  MaxCaptures = 1
  MaxArena = 4
SPECIFICATION Spec
INVARIANT OwnTablesRead
CHECK_DEADLOCK FALSE
