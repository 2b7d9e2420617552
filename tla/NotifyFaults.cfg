SPECIFICATION HSpec
CONSTANTS
  a = a
  b = b
  c = c
  Items <- MCItems
  SigKeys = {a, b}
  SigKey <- MCSigKey
  ConsecutiveRuns = 3
  Cooldown = 2
  PendingTTL = 2
  SendRecovery = TRUE
  Faults = {"write", "send", "save", "crash", "unrecorded", "damage"}
  MaxGap = 1
  StableCap = 0
INVARIANTS
  HTypeOK
  OnlyConfirmedMails
  CountersAreBacked
  NoPhantomMail
  RecoveryNotOverdue
PROPERTY
  FailedAlertIsRetried
