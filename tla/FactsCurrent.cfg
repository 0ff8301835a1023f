\* Requests one after the other: a, b, a again, and a consolidation.
CONSTANTS
  a = a
  b = b
  alias = alias
  chatter = chatter
  Ids = {1, 2, 3, 4, 5}
  Texts = {a, b}
  Canonical <- Judged
  Kinds = {TRUE}
  Executors = {e1}
  Null = Null
  Requests <- AnyRequest
  QuietConsolidation = TRUE
  MaxStores = 3
  MaxFaults = 0
SPECIFICATION Spec
PROPERTIES KeepsCurrent
