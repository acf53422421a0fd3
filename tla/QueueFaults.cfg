SPECIFICATION Spec
CONSTANTS
  Runs = {r1, r2}
  NoRun = NoRun
  NumJobs = 2
  Lease = 2
  Grace = 1
  ClaimBound = 3
  LockFaults = TRUE
  WriteFaults = TRUE
  MaxCommands = 0
SYMMETRY RunSymmetry
INVARIANTS
  LeaseNeverStolen
  OneLeasePerRun
  GenerationsDiffer
PROPERTIES
  LeaseOnlyEndedByHolder
