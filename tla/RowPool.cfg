CONSTANTS
  Partitions = {p1}
  Streams = {s1, s2}
  InOrder = {s1}
  LateWrites = TRUE
  DeviceRows = 2
  HostRows = 3
  MaxRows = 4
  MaxVersion = 1
SPECIFICATION FairSpec
INVARIANTS TypeOK ResidentRowIntact OrderedRowIntact CopyReadsResidentRow RunViewIsTheRun
PROPERTIES DemotionsSettle
CHECK_DEADLOCK FALSE
