SPECIFICATION StoresSpec
CONSTANTS
  amy = amy
  Amy = Amy
  amy_ = amy_
  bob = bob
  home = home
  Emails = {amy, Amy, amy_, bob}
  Lower <- LowerMC
  Canonical <- CanonicalMC
  Labels = {home}
  NoLabel = unlabelled
  Passphrases = {pass1, pass2}
  Dead = dead
  Procs = {p1, p2}
  Ids = {amy, bob}
  OldVaults <- OldVaultsMC
  NewLabels <- NewLabelsMC
  Silences = {"dropped"}
  MaxCommands = 2
  MaxLogins = 2
  Writers = {w1, w2}
  SettingKeys = {k1, k2}
  Values = {old, new}
  Default = old
  c1 = c1
  c2 = c2
  Contents = {c1, c2}
  Absent = absent
  NoContent = nothing
  MaxRuns = 3
  MaxEdits = 2
  n1 = n1
  n2 = n2
  n3 = n3
  n4 = n4
  t1 = t1
  t2 = t2
  t3 = t3
  here = here
  there = there
  fileA = fileA
  fileB = fileB
  Size = 4
  CommandLines <- CommandLinesMC
  Containers <- ContainersMC
  Slots = 2
  Options <- OptionsMC
  MaxRedirects = 1
  Nodes = {n1, n2, n3, n4}
  Outside = out
  NoParent = none
  Transfers = {t1, t2, t3}
  Process <- ProcessMC
  Source <- SourceMC
  MaxNumber = 2
SYMMETRY Perms
INVARIANTS
  OnePassphrase
  OnlyProvenSessions
  SettingsStick
  TreeMirrored
  PlanMirrorsTree
  ReportTellsTruth
  FinishedKept
PROPERTIES
  
  DamageKept
  DamagedVaultKept
CHECK_DEADLOCK FALSE
