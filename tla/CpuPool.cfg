CONSTANTS
  N = 2
  Modulus = 5
  Grabs = 1
  MaxItems = 5
  Totals = {1, 5}
  MaxJobs = 3
SPECIFICATION FairSpec
INVARIANTS TypeOK OnlyEngagedWork EachItemOnce
PROPERTIES PoolCallsEnd
