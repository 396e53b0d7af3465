SPECIFICATION MCSpec
CONSTANTS
  Clients = {c1, c2}
  NCPU = 2
  Objs = {o1}
  TxgInit = 4
  MaxOps = 2
  MaxTxg = 5
  Suspending = {}
SYMMETRY ClientSymmetry
INVARIANTS PipelineConsecutive CountsExact
PROPERTIES WaitSyncedIsDurable ImplementsService
