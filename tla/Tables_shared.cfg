SPECIFICATION Spec
CONSTANTS
  Null = Null
  Values = {a, b}
  Wheres <- MCWheres
  Assignments <- MCLegal
  CheckpointEvery = 2
  MaxRows = 2
  MaxOps = 2
  MaxVersion = 3
VIEW View
SYMMETRY Symmetry
INVARIANTS
  ReplayMatches
