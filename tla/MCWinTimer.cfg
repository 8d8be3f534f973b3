CONSTANTS
  q1 = q1
  q2 = q2
  d1 = d1
  d2 = d2
  Queues <- MCQueues
  Datas <- MCDatas
  Periods <- MCPeriods
  MaxPeriod = 2
  Patient = TRUE
SPECIFICATION FairSpec
INVARIANTS
  NothingLeft
  ResultIsOfCommand
  FiresInTime
PROPERTIES
  PostIsOfStart
  ThreadsGoOn
