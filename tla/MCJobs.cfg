CONSTANTS
  Jobs = {j1, j2}
  Threads = {j1, j2}
  ArgLists <- MCArgLists
  ErrToo = {j2}
  PipeSize = 1
  MaxOutput = 1
  ExitCodes = {9, 255}
  Second = 3
  MaxPosts = 2
  LastTime = 4
  SemTimes <- MCSemTimes
  JoinTimes <- MCJoinTimes
CHECK_DEADLOCK FALSE
SPECIFICATION FairSpec
INVARIANTS
  TypeOK
  ChildIsAsRequested
  OutcomeIsOfChild
  WaitsAreTrue
PROPERTIES
  JobsEnd
