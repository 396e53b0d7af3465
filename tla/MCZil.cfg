SPECIFICATION MCSpec
CONSTANTS
  Threads = {t1, t2}
  Suspenders = {s1, s2}
  Nobody = nobody
  Files = {f1, f2}
  AnyFile = any
  BigFiles = {f2}
  DVAs = {d1, d2, d3}
  Cap = 1
  TxgInit = 5
  MaxRecs = 2
  MaxCalls = 2
SYMMETRY Symmetry
INVARIANTS CommittedSurvive LogClosed NoLeak SuspendedEmpty
PROPERTIES FreedOnce
CHECK_DEADLOCK FALSE
