\* Two workers that start together over a lock that a killed one left.
CONSTANTS
  Procs = {p1, p2}
  PidCount = 3
  Service = p1
  Null = Null
  Scripts = {"worker"}
  MaxKills = 1
  MaxStrays = 1
SPECIFICATION Spec
INVARIANTS RunsAlone
