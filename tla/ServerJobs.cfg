SPECIFICATION FairSpec
CONSTANTS i1 = i1  i2 = i2  s1 = s1  j1 = j1
  Ids = {i1}  Signals = {s1}  Jobs = {j1}  NoOne = NoOne
  Orders = 1  Window = 2  MayRaise = TRUE
PROPERTIES JobsServedOnce ImplementsService EverythingServed SignalsDelivered
CHECK_DEADLOCK FALSE
