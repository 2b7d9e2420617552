SPECIFICATION Spec
CONSTANTS
  h1 = h1
  h2 = h2
  NoHost = NoHost
  selinux = selinux
  disk = disk
  svc = svc
  svc1 = svc1
  svc2 = svc2
  HostOrder <- MCHostOrder
  HostFields = {selinux}
  EmptyIsBad = {selinux}
  MountFields = {disk}
  Probes = {svc1, svc2}
  ProbeField <- MCProbeField
  Items <- MCItems
  SigKeys <- MCItems
  SigKey <- MCSigKey
  ConsecutiveRuns = 2
  Cooldown = 1
  PendingTTL = 1
  SendRecovery = TRUE
INVARIANT ConfirmedOnOneHost
