SPECIFICATION FairSpec
CONSTANTS
  Threads = {t1, t2}
  NoThread = NoThread
  Ops = {a}
  Unsavable <- MCUnsavable
  CheckpointEvery = 2
  MaxVersion = 2
  MaxOps = 1
  LegacyWal = FALSE
  IoErrors = TRUE
  RacyClose = FALSE
INVARIANTS
  IsolationInv
PROPERTIES
  CallsReturn
