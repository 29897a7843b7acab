SPECIFICATION Spec
CONSTANTS i1 = i1  i2 = i2  s1 = s1  j1 = j1
  Ids = {i1}  Signals = {s1}  Jobs = {}  NoOne = NoOne
  Orders = 3  Window = 3  MayRaise = FALSE
INVARIANT InterruptedIsKilled
CHECK_DEADLOCK FALSE
