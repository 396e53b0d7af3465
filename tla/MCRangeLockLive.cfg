SPECIFICATION FairSpec
CONSTANTS
  Threads = {t1, t2, t3, t4}
  Infinity = 7
  SPA_MAXBLOCKSIZE = 1
  MaxOffset = 1
  Limit <- NoLimit
  Asks <- OneRange
  TypesOf <- OneWriter
  Resizers = {}
  InitBlksz = {1}
PROPERTIES LockGranted
