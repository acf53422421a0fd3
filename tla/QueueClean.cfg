SPECIFICATION FairSpec
CONSTANTS
  Runs = {r1, r2}
  NoRun = NoRun
  NumJobs = 2
  Lease = 2
  Grace = 1
  ClaimBound = 9
  LockFaults = FALSE
  WriteFaults = FALSE
  MaxCommands = 1
INVARIANTS
  FileStaysLoadable
  RowAgreesWithFile
PROPERTIES
  ImplementsLeasedWork
  RunEnds
