SPECIFICATION ProgressSpec
CONSTANTS
  HubCap = 2
  OutCap = 2
  SubCap = 1
  MaxChanges = 2
  MaxLogs = 1
  MaxCloses = 1
  MaxHubRestarts = 1
  Bindings = {p1, p2, p3}
  Threshold = 2
  NoOne = noone
  Stacks = {s1}
  Managed = {s1}
  Runs = {r1}
  Workers = {w1}
  Clients = {u1}
  Kinds = {"save", "repository", "resume"}
  Repository = repo
  External = FALSE
  MaxRev = 3
  MaxVer = 2
  MaxCrashes = 0
  None = none
  x = x
  y = y
  p = p
  q = q
  Services = {web}
  Refs = {x, y}
  Platforms = {p, q}
  HostPlatform = p
  Unset = unset
  Built = built
  Sources <- FewSources
  MaxMoves = 1
  MaxDeployments = 3
CHECK_DEADLOCK FALSE
INVARIANTS ProgressTypeOK NoSilentLoss PortsAreFree OneWakeBeforeClose SelectionIsVerified
PROPERTIES PageConverges StreamCatchesUp ListenerEnds WorkEnds PauseEndsByResume NoCachedRollback
