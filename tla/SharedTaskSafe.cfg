SPECIFICATION FairSpec
CONSTANTS
  i1 = i1
  i2 = i2
  i3 = i3
  Instances = {i1, i2, i3}
  Retries = {TRUE, FALSE}
  MaxKills = 2
INVARIANTS
  ClientsCounted
PROPERTIES
  CancelIsolated
  OutcomeIsFinal
  EveryInstanceEnds
CHECK_DEADLOCK FALSE
