SPECIFICATION MCSpec
CONSTANTS
  Threads = {t1, t2, t3}
  Infinity = 9
  SPA_MAXBLOCKSIZE = 4
  MaxOffset = 4
  Limit <- NoLimit
  Asks <- AllPairs
  TypesOf <- AllTypes
  Resizers = {t1, t2, t3}
  InitBlksz = {1, 3}
SYMMETRY Sym
INVARIANTS Exclusion SleepersFindable AppendsAtEnd CountsExact
PROPERTIES BlocksConsistent
