SPECIFICATION Spec
CONSTANTS
  Threads = {t1, t2}
  NoThread = NoThread
  Ops = {a, b}
  Unsavable <- MCUnsavable
  CheckpointEvery = 2
  MaxVersion = 3
  MaxOps = 1
  LegacyWal = FALSE
  IoErrors = FALSE
  RacyClose = FALSE
SYMMETRY Symmetry
INVARIANTS
  TypeOK
  AckedSurvive
  ReopenSucceeds
  NoLostUpdate
  WriteAhead
  DurabilityInv
PROPERTIES
  ImplementsStore
