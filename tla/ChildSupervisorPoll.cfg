SPECIFICATION Spec
CONSTANTS
  i1 = i1
  i2 = i2
  Instances = {i1}
  MaxAttempts = 1
INVARIANT ClosedRowIsOver
CHECK_DEADLOCK FALSE
