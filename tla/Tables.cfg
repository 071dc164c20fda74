SPECIFICATION Spec
CONSTANTS
  Null = Null
  Values = {a, b}
  Wheres <- MCWheres
  Assignments <- MCAssignments
  CheckpointEvery = 2
  MaxRows = 2
  MaxOps = 2
  MaxVersion = 3
INVARIANTS
  TypeOK
  CachesAgree
  ReplayMatchesUntainted
  KeysUnique
VIEW View
SYMMETRY Symmetry
