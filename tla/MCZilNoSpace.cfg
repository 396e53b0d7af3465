SPECIFICATION MCSpec
CONSTANTS
  Threads = {t1, t2}
  Suspenders = {}
  Nobody = nobody
  Files = {f1}
  AnyFile = any
  BigFiles = {}
  DVAs = {d1, d2}
  Cap = 1
  TxgInit = 5
  MaxRecs = 2
  MaxCalls = 2
SYMMETRY Symmetry
INVARIANTS WriterHasBuffer
CHECK_DEADLOCK FALSE
