CONSTANTS
  t1 = t1
  t2 = t2
  Threads = {t1, t2}
  Main = Main
  Base <- MCBase
  DEFAULT_STACK = 4
  UserStack = 2
  MaxCreations = 3
  WORDBITS = 64
  LowBits = 6
SPECIFICATION Spec
INVARIANT EndedHasNone
CHECK_DEADLOCK FALSE
