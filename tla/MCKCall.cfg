CONSTANTS
  c1 = c1
  c2 = c2
  w1 = w1
  w2 = w2
  Calls <- MCCalls
  Workers <- MCWorkers
  SqCap = 1
  CqCap = 2
  MaxSubmits = 2
  Patient = TRUE
SPECIFICATION FairSpec
INVARIANTS
  HandOverIsSafe
  NoLostWakeup
PROPERTIES
  CancelledStaysSilent
  EveryCallCompletes
