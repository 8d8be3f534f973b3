CONSTANTS
  Kinds <- MCKinds
  Sigs <- MCSigs
  Programs <- MCPrograms
  Clients <- MCPeers
  MaxMade = 2
  EventsCap = 2
  MaxPosts = 1
  MaxRaised = 2
  Backlog = 1
  Peers <- MCPeers
  MaxBytes = 2
  BufCap = 1
  SndCap = 1
  Followers <- MCFollowers
  MaxTyped = 2
  MaxDgrams = 3
  RcvCap = 2
  SigThreads = {"t1", "t2"}
  SigLists <- MCSigLists
  MaxSubs = 2
  MaxRan = 2
CHECK_DEADLOCK FALSE
SPECIFICATION FairSpec
INVARIANTS
  TypeOK
  NoLostEvent
  EventsAreTrue
  OperationsAreKept
  KeysAsTyped
  HandlersRunAsAsked
PROPERTIES
  EventsAreHandled
