SPECIFICATION ServicesSpec
CONSTANTS
  c1 = c1
  c2 = c2
  c3 = c3
  here = here
  there = there
  a1 = a1
  a2 = a2
  Mutating = {move}
  Reading = {list}
  Proxies = {p1}
  Settings <- SettingsMC
  Attempts = 2
  Posts = 2
  Budget = 2
  Native = FALSE
  MaxFailures = 2
  Cooldown = 1
  MaxTicks = 1
  Conns = {c1, c2, c3}
  Peer <- PeerMC
  MaxConns = 2
  MaxPerPeer = 1
  MaxClosers = 1
  FileSize = 5
  Block = 3
  Requests <- RequestsMC
  Pieces = {1, 3}
  Sizes <- SizesMC
  TreeChoices <- TreesMC
  Accounts = {a1, a2}
  Known <- KnownMC
  Rooms <- RoomsMC
  Parallel = 2
  NoAccount = none
INVARIANTS
  AppliedAtMostOnce
  OutcomeTellsTruth
  BlamelessProxyServes
  HashcashWithinBudget
  ServedExactly
  NeverOvercommitted
  StoredOnce
  OneLoginEach
PROPERTIES
  CallsEnd
  SlotsComeBack
  BatchEnds
CHECK_DEADLOCK FALSE
