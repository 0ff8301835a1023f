\* Cleanups overlap summaries and forgets; calls fail and the process dies; noise
\* goes in the end.
CONSTANTS
  Tasks = {t1, t2}
  Ids = {i1, i2}
  t1 = t1
  t2 = t2
  i1 = i1
  i2 = i2
  Projects = {p1, p2}
  p1 = p1
  p2 = p2
  ProjectOf <- Homes
  Executors = {e1, e2}
  Null = Null
  FieldCounts = {1}
  Requests <- AnyCleanup
  OneCleanup = TRUE
  MaxSummaries = 1
  MaxFaults = 1
SPECIFICATION MCSpec
INVARIANTS TypeOK
PROPERTIES StatusAdvances CleanupKeepsWork PruneLeavesNoMemory NoiseGoes
