SPECIFICATION Spec
CONSTANTS
  s1 = s1
  Signals = {}
  MaxProcs = 1
  MaxCalls = 2
  MaxRequests = 1
  MaxMessages = 1
  MaxChanges = 1
INVARIANT RestartHonoured
CHECK_DEADLOCK FALSE
