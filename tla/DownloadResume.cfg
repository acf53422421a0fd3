SPECIFICATION Spec
CONSTANTS
  s1 = s1
  s2 = s2
  Sources = {s1, s2}
  NoSource = NoSource
  NumChunks = 2
  Size <- TwoAlike
  Workers = 2
  Attempts = 2
  SaveEvery = 1
  Modes <- Trusting
  DiskFaults = FALSE
  Garbling = FALSE
  MaxSessions = 3
INVARIANTS
  StateVouchesForDisk
  CompleteIsComplete
  ResolvedOncePerGeneration
PROPERTIES
  CommittedOnlyGrows
CHECK_DEADLOCK FALSE
