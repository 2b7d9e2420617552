SPECIFICATION Spec
CONSTANTS
  h1 = h1
  h2 = h2
  h3 = h3
  Torn = Torn
  Garbled = Garbled
  HostName <- MCHostName
  Sites <- MCSites
  PruneHour = 3
  KeepDays = 2
INVARIANT UninstallRemoves
CHECK_DEADLOCK FALSE
