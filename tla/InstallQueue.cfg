SPECIFICATION FairSpec
CONSTANTS
  i1 = i1
  i2 = i2
  d1 = d1
  d2 = d2
  NoInstance = NoInstance
  Instances = {i1, i2}
  Drainers = {d1, d2}
  MaxJobs = 2
  MaxRestarts = 1
  MaxFaults = 1
INVARIANTS TypeOK OneDrainerPerInstance NoStrandedRow DispatchedAtMostOnce OutcomeIsTrue NoOvertaking
PROPERTIES VerdictIsFinal ImplementsService QueueNeverIdles
CHECK_DEADLOCK FALSE
