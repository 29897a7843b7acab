SPECIFICATION FairSpec
CONSTANTS
  s1 = s1
  Signals = {s1}
  MaxProcs = 2
  MaxCalls = 3
  MaxRequests = 2
  MaxMessages = 1
  MaxChanges = 2
INVARIANTS
  RequestsTracked
  SignalsTracked
  ServerIsReachable
PROPERTIES
  HaltEnds
  RequestsSettle
CHECK_DEADLOCK FALSE
