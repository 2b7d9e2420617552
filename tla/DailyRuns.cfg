SPECIFICATION HSpec
CONSTANTS
  a = a
  b = b
  c = c
  Items <- MCItems
  SigKeys = {a, b}
  SigKey <- MCSigKey
  ConsecutiveRuns = 2
  Cooldown = 2
  PendingTTL = 2
  SendRecovery = TRUE
  Faults = {}
  MaxGap = 2
  StableCap = 0
PROPERTY
  LastSightingPromotes
