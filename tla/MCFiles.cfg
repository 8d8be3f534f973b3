CONSTANTS
  Procs = {p1, p2}
  MaxCalls = 2
  Mixes <- MCMixes
  Limits = {2, 7}
  MaxSize = 7
  Spelling <- MCSpelling
  Collation <- MCCollation
  Matching = {"..", "ab", "aB", "Ab"}
  ScanFlags <- MCScanFlags
  SemUsers = {u1, u2, u3}
  FdUsers = {t1, t2}
  MaxOps = 3
  Texts <- MCTexts
  Environ <- MCEnviron
  NameChars = {"a", "b"}
  OutCaps <- MCOutCaps
  Makers = {m1, m2}
  Paths <- MCPaths
  DirsNow <- MCDirsNow
  FilesNow <- MCFilesNow
  QueueCap = 4
  BufCap = 2
CHECK_DEADLOCK FALSE
SPECIFICATION FairSpec
INVARIANTS
  TypeOK
  FilesAreSound
  ViewIsRight
  MakersSucceed
  ListIsSorted
  SemaphoresExclude
  WritesDontOverlap
  ExpandsWhole
PROPERTIES
  CatchesUp
