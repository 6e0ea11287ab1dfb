SPECIFICATION FairSpec
CONSTANTS
  i1 = i1
  i2 = i2
  Instances = {i1}
  MaxAttempts = 2
INVARIANTS TypeOK NoUnmanagedTree LiveTreeIsRecorded FinalizedInPlace
PROPERTIES RowClosedOnce LaunchReturns
CHECK_DEADLOCK FALSE
