CONSTANTS
  n1 = n1
  n2 = n2
  n3 = n3
  Nodes <- MCNodes
  Half = 4
  Intervals <- MCIntervals
  MaxInterval = 2
  MaxLate = 1
  Wraps = FALSE
SPECIFICATION MCSpec
INVARIANTS
  TreeIsRight
PROPERTIES
  ExactTimers
  ProcessReturns
