SPECIFICATION FairSpec
CONSTANTS
  NBlocks = 2
  NRecs = 3
  BlockOf <- MCBlockOf
  DataOf <- MCDataOf
  Indirect = {1, 2, 3}
  TxgInit = 5
  OldTxgs = {4, 5}
  MaxCrashes = 2
  MaxErrors = 1
  MaxTimer = 1
INVARIANTS AppliedOnce HeaderAgrees NothingLost FreesOwn NoLeak
PROPERTIES Recovers
CHECK_DEADLOCK FALSE
