SPECIFICATION HistorySpec
CONSTANTS
  t1 = t1
  t2 = t2
  t3 = t3
  Threads = {t1, t2, t3}
  NoThread = NoThread
  NStages = 2
  Procs = {1, 2}
  MaxDepth = 2
  MaxDaemons = 0
  MaxCounted = 2
  OnIdle = {"loop"}
  MayRaise = FALSE
INVARIANT AccountingComment
