CONSTANTS
  c1 = c1
  c2 = c2
  w1 = w1
  w2 = w2
  Calls <- MCCalls
  Workers <- MCOneWorker
  SqCap = 2
  CqCap = 2
  MaxSubmits = 2
  Patient = FALSE
SPECIFICATION Spec
PROPERTY NoResultWhileActive
