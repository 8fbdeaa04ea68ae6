SPECIFICATION ImageSpec
CONSTANTS
  x = x
  y = y
  p = p
  q = q
  Services = {web}
  Refs = {x, y}
  Platforms = {p, q}
  HostPlatform = p
  Unset = unset
  Built = built
  Sources <- FewSources
  MaxMoves = 1
  MaxDeployments = 4
CHECK_DEADLOCK FALSE
PROPERTIES DeployRunsTheSource
