SPECIFICATION FairSpec
CONSTANTS
  Threads = {t1, t2, t3}
  MaxDepth = 2
  MaxWrites = 2
INVARIANTS Exclusion RcountsExact SleepersMustWait
PROPERTIES WritersNotStarved ReadersGetIn
