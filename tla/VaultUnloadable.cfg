SPECIFICATION Spec
CONSTANTS
  amy = amy
  Amy = Amy
  amy_ = amy_
  bob = bob
  home = home
  Emails = {amy, Amy, amy_, bob}
  Lower <- LowerMC
  Canonical <- CanonicalMC
  Labels = {home}
  NoLabel = unlabelled
  Passphrases = {pass1, pass2}
  Dead = dead
  Procs = {p1}
  Ids = {amy, bob}
  OldVaults <- OldVaultsMC
  NewLabels <- NewLabelsMC
  Silences = {"dropped"}
  MaxCommands = 2
  MaxLogins = 2
INVARIANTS
  VaultLoads
CHECK_DEADLOCK FALSE
