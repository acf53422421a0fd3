SPECIFICATION FairSpec
CONSTANTS
  p1 = p1
  p2 = p2
  Procs = {p1}
  NumVersions = 3
  Sources <- Versions
  NoSource = 0
  NumChunks = 2
  Size <- EditedThenEmptied
  Workers = 2
  Attempts = 2
  SaveEvery = 1
  SaveFaults = TRUE
  MaxSessions = 1
  MaxSlots = 2
PROPERTIES
  UploadEnds
CHECK_DEADLOCK FALSE
