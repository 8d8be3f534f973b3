CONSTANTS
  n1 = n1
  n2 = n2
  n3 = n3
  Nodes <- MCTwoNodes
  Half = 6
  Intervals <- MCPeriodic
  MaxInterval = 3
  MaxLate = 2
  Wraps = TRUE
SPECIFICATION MCSpec
PROPERTY NeverEarly
