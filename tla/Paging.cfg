\* Three tasks, a writer and its past, three times; page sizes below, in and above the range.
CONSTANTS
  Tasks = {1, 2, 3}
  Writers = {w1}
  Limits = {0, 1, 2, 3}
  MaxPage = 2
  MaxTime = 2
SPECIFICATION FairSpec
CHECK_DEADLOCK FALSE
INVARIANTS SteadyListedOnce TwiceOnlyIfMoved
PROPERTIES ListingEnds
