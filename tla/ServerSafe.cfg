SPECIFICATION Spec
CONSTANTS i1 = i1  i2 = i2  s1 = s1  j1 = j1
  Ids = {i1, i2}  Signals = {s1}  Jobs = {}  NoOne = NoOne
  Orders = 2  Window = 2  MayRaise = TRUE
SYMMETRY RequestSymmetry
INVARIANTS AnsweredOnce SignalsKept KilledNeverRuns ClientKnows
CHECK_DEADLOCK FALSE
