CONSTANTS
  Partitions = {p1}
  Streams = {s1, s2}
  InOrder = {s1,s2}
  LateWrites = TRUE
  DeviceRows = 2
  HostRows = 2
  MaxRows = 2
  MaxVersion = 1
SPECIFICATION Spec
INVARIANTS SettledRowIntact
CHECK_DEADLOCK FALSE
