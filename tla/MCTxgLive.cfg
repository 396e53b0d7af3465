SPECIFICATION FairSpec
CONSTANTS
  Clients = {c1, c2}
  NCPU = 2
  Objs = {o1}
  TxgInit = 4
  MaxOps = 1
  MaxTxg = 5
  Suspending = {c1, c2}
PROPERTIES WaitSyncedReturns SyncStopReturns DelayEndsWhenStalled DirtyReachesDisk
CHECK_DEADLOCK FALSE
