SPECIFICATION HSpec
CONSTANTS
  a = a
  b = b
  c = c
  Items <- MCItems
  SigKeys = {a, b}
  SigKey <- MCSigKey
  ConsecutiveRuns = 2
  Cooldown = 3
  PendingTTL = 2
  SendRecovery = TRUE
  Faults = {}
  MaxGap = 1
  StableCap = 4
PROPERTY
  StableAlertsMailedOncePerWindow
