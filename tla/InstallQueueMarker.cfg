SPECIFICATION Spec
CONSTANTS
  i1 = i1
  i2 = i2
  d1 = d1
  d2 = d2
  NoInstance = NoInstance
  Instances = {i1}
  Drainers = {d1, d2}
  MaxJobs = 2
  MaxRestarts = 0
  MaxFaults = 1
INVARIANT MarkerMeansDrainer
CHECK_DEADLOCK FALSE
