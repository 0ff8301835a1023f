\* Both scripts, started and killed at any time beside another program.
CONSTANTS
  Procs = {p1, p2, p3}
  PidCount = 4
  Service = p1
  Null = Null
  Scripts = {"worker", "scheduler"}
  MaxKills = 2
  MaxStrays = 2
SPECIFICATION FairSpec
INVARIANTS MutualExclusion
PROPERTIES WorkerComesBack
