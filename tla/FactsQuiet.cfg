\* Requests overlap and fail; a consolidation has the system to itself.
CONSTANTS
  a = a
  b = b
  Ids = {1, 2, 3, 4, 5}
  Texts = {a, b}
  Canonical <- Judged
  Kinds = {TRUE, FALSE}
  Executors = {e1, e2}
  Null = Null
  Requests <- AnyRequest
  QuietConsolidation = TRUE
  MaxStores = 2
  MaxFaults = 1
SPECIFICATION CurrentSpec
SYMMETRY Symmetry
INVARIANTS TypeOK HealthyAtRest CurrentIsAsSaid
PROPERTIES NoVersionLost
