SPECIFICATION FairSpec
CONSTANTS
  l1 = l1
  l2 = l2
  o1 = o1
  o2 = o2
  Launches = {l1, l2}
  Others = {o1, o2}
INVARIANTS TypeOK LaunchesCounted NeverStuckClosed NoNewOvertaking SleeperHasWaker
PROPERTIES GateKeepsServing
CHECK_DEADLOCK FALSE
