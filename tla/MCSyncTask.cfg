SPECIFICATION FairSpec
CONSTANTS
  Groups = {"g1", "g2", "log"}
  NoWait = {"log"}
  TasksOf <- MCTasksOf
  CheckFunc <- SnapshotCheck
  SyncFunc <- SnapshotSync
  PoolInit <- NoSnapshots
  TxgInit = 4
  Debug = TRUE
  MaxTxg = 7
  MaxNoSpace = 1
INVARIANTS ReturnTellsTruth PendingIsLive RunsInItsTxg SnapshotsDistinct SnapshotsTaken
PROPERTIES WaitAnswered
CHECK_DEADLOCK FALSE
