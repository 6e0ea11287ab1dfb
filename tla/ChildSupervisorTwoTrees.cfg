SPECIFICATION Spec
CONSTANTS
  i1 = i1
  i2 = i2
  Instances = {i1, i2}
  MaxAttempts = 2
INVARIANT OneInstanceAtATime
CHECK_DEADLOCK FALSE
