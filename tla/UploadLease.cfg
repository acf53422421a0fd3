SPECIFICATION Spec
CONSTANTS
  p1 = p1
  p2 = p2
  Procs = {p1, p2}
  NumVersions = 2
  Sources <- Versions
  NoSource = 0
  NumChunks = 2
  Size <- Growing
  Workers = 2
  Attempts = 2
  SaveEvery = 1
  SaveFaults = FALSE
  MaxSessions = 2
  MaxSlots = 2
SYMMETRY ProcSymmetry
INVARIANTS
  OneUploadPerState
CHECK_DEADLOCK FALSE
