\* Executions end within their lease.
CONSTANTS
  Jobs = {j1, j2}
  Keys = {k1}
  Executors = {e1, e2}
  Requested = {0, 2}
  Leases = {2}
  Null = Null
  MayOverrun = FALSE
  ReadsMayFail = FALSE
  MaxLosses = 1
SPECIFICATION Spec
SYMMETRY Symmetry
INVARIANTS ExclusiveExecution AttemptsWithinBudget PendingHasBudget
PROPERTIES OutcomeIsFinal ImplementsJobQueue
