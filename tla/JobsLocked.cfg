SPECIFICATION FairSpec
CONSTANTS
  a = a
  j1 = j1
  j2 = j2
  p1 = p1
  Nobody = Nobody
  Items <- MCItems
  SigKeys = {a}
  SigKey <- MCSigKey
  ConsecutiveRuns = 2
  Cooldown = 1
  PendingTTL = 2
  SendRecovery = TRUE
  Jobs = {j1, j2}
  Pages = {p1}
  Faults = {"write", "send", "save", "crash", "unrecorded", "damage"}
  LockMayFail = FALSE
  MaxGap = 1
INVARIANTS
  JTypeOK
  MailIsOfItsRun
PROPERTIES
  JobsAreSingleRuns
  LockIsReleased
