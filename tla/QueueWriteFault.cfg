SPECIFICATION Spec
CONSTANTS
  Runs = {r1, r2}
  NoRun = NoRun
  NumJobs = 1
  Lease = 4
  Grace = 2
  ClaimBound = 9
  LockFaults = FALSE
  WriteFaults = TRUE
  MaxCommands = 0
INVARIANTS
  NoOverlap
