\* Two runs of the timer, two posts each, one execution lost, one client giving up.
CONSTANTS
  Jobs = {j1, j2}
  Keys = {1, 2}
  Executors = {e1, e2}
  Requested <- NegativeOrTwo
  Leases = {1}
  Null = Null
  MayOverrun = TRUE
  ReadsMayFail = TRUE
  MaxLosses = 1
  MaxTries = 2
  MaxRuns = 2
  MaxFaults = 1
SPECIFICATION FairSchedule
CHECK_DEADLOCK FALSE
INVARIANTS TypeOK OneJobPerKey LeasedIffRunning FailedOnlyExhausted OneAtATime
PROPERTIES JobsSettle RunIsConsolidated
