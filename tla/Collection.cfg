SPECIFICATION Spec
CONSTANTS
  h1 = h1
  h2 = h2
  NoNode = NoNode
  NoOutput = NoOutput
  NotAsked = NotAsked
  UserMgrVHost = "bk_usermgr"
  Hosts <- MCHosts
  Mounts <- MCMounts
  VHosts <- MCVHosts
  DepItems <- MCDepItems
  DefaultQuiet <- MCDefaultQuiet
  Deployments <- MCDeployments
INVARIANTS
  CTypeOK
  UnhealthyIsShown
  HealthyIsQuiet
PROPERTIES
  InspectionKept
  CancelStops
  OnlySilenceBlocks
  NoGoroutineLeft
CHECK_DEADLOCK FALSE
