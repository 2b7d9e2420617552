SPECIFICATION FairSpec
CONSTANTS
  a = a
  b = b
  c = c
  Items <- MCQueueItems
  SigKeys = {a, b}
  SigKey <- MCQueueKey
  ConsecutiveRuns = 2
  Cooldown = 2
  PendingTTL = 2
  SendRecovery = TRUE
  Faults = {"send"}
  MaxGap = 1
  StableCap = 0
INVARIANTS
  RecordIsTrue
PROPERTIES
  KeepsPromise
  PersistentWarnIsMailed
  RecoveryIsMailed
