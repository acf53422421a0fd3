SPECIFICATION Spec
CONSTANTS
  p1 = p1
  p2 = p2
  Procs = {p1, p2}
  NumVersions = 3
  Sources <- Versions
  NoSource = 0
  NumChunks = 2
  Size <- EditedThenEmptied
  Workers = 2
  Attempts = 2
  SaveEvery = 1
  SaveFaults = FALSE
  MaxSessions = 2
  MaxSlots = 2
SYMMETRY ProcSymmetry
INVARIANTS
  NodeOfOneContent
  StateVouchesForSlot
  TokenWithFinalChunk
CHECK_DEADLOCK FALSE
