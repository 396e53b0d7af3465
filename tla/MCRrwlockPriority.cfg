SPECIFICATION MCSpec
CONSTANTS
  Threads = {t1, t2, t3}
  MaxDepth = 2
  MaxWrites = 1
PROPERTIES WaitingWritersFirst
