SPECIFICATION DrainSpec
CONSTANTS
  NBlocks = 1
  NRecs = 2
  BlockOf <- MCBlockOf
  DataOf <- MCDataOf
  Indirect = {}
  TxgInit = 5
  OldTxgs = {4, 5}
  MaxCrashes = 2
  MaxErrors = 0
  MaxTimer = 1
INVARIANTS AppliedOnce
CHECK_DEADLOCK FALSE
