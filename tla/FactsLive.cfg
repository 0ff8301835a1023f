\* Progress: requests come one after the other, calls fail and the process dies.
CONSTANTS
  a = a
  b = b
  alias = alias
  chatter = chatter
  Ids = {1, 2, 3, 4, 5}
  Texts = {a, b, alias, chatter}
  Canonical <- JudgedAny
  Kinds = {TRUE, FALSE}
  Executors = {e1}
  Null = Null
  Requests <- AnyRequest
  QuietConsolidation = TRUE
  MaxStores = 2
  MaxFaults = 1
SPECIFICATION FairSpec
PROPERTIES NoVersionLost ConsolidationTidies Converges
