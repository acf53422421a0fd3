SPECIFICATION FairSpec
CONSTANTS
  s1 = s1
  s2 = s2
  Sources = {s1}
  NoSource = NoSource
  NumChunks = 2
  Size <- OneSource
  Workers = 2
  Attempts = 2
  SaveEvery = 1
  Modes <- Checking
  DiskFaults = TRUE
  Garbling = TRUE
  MaxSessions = 1
INVARIANTS
  StateVouchesForDisk
  CompleteIsComplete
PROPERTIES
  SessionEnds
CHECK_DEADLOCK FALSE
