CONSTANTS
  Partitions = {p1}
  Streams = {s1, s2}
  InOrder = {}
  LateWrites = FALSE
  DeviceRows = 2
  HostRows = 2
  MaxRows = 2
  MaxVersion = 1
SPECIFICATION Spec
INVARIANTS SettledRowIntact
CHECK_DEADLOCK FALSE
