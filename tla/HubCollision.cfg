SPECIFICATION HubSpec
CONSTANTS
  HubCap = 2
  OutCap = 2
  SubCap = 1
  MaxChanges = 3
  MaxLogs = 1
  MaxCloses = 1
  MaxHubRestarts = 1
CHECK_DEADLOCK FALSE
PROPERTIES ReconnectGapsAreExplicit
