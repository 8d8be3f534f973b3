CONSTANTS
  Cap = 2
  MaxBytes = 5
  MaxLen = 3
  MaxWakes = 3
CHECK_DEADLOCK FALSE
SPECIFICATION FairSpec
INVARIANTS
  StreamIsWhole
  ActiveOwnsOverlapped
  NoLostWakeup
PROPERTIES
  ReturnsAreTrue
  NobodyStuck
