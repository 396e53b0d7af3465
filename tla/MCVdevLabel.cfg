SPECIFICATION MCSpec
CONSTANTS
  Tops = {"old", "new"}
  Leaves = {"d1", "d2"}
  TopOf <- MCTopOf
  Logs = {}
  Visible = {"old"}
  Configs = {1, 2}
  VDEV_LABELS = 2
  UbCount = 2
  SPA_DVAS_PER_BP = 1
  TxgInit = 2
  MaxTxg = 4
  MaxEvents = 2
INVARIANTS CommitSurvives DataFirst LabelsMatch
PROPERTIES NeverBack
CHECK_DEADLOCK FALSE
