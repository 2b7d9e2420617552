SPECIFICATION Spec
CONSTANTS
  a = a
  j1 = j1
  j2 = j2
  p1 = p1
  Nobody = Nobody
  Items <- MCItems
  SigKeys = {a}
  SigKey <- MCSigKey
  ConsecutiveRuns = 2
  Cooldown = 1
  PendingTTL = 2
  SendRecovery = TRUE
  Jobs = {j1, j2}
  Pages = {}
  Faults = {"write", "send", "save", "crash", "unrecorded", "damage"}
  LockMayFail = TRUE
  MaxGap = 1
SYMMETRY Symmetric
INVARIANTS
  NoPhantomRecord
