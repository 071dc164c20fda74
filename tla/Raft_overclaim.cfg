SPECIFICATION Spec
CONSTANTS
  Nodes = {n1, n2, n3}
  NoNode = NoNode
  Commands = {a}
  MaxTerm = 2
  MaxLog = 1
SYMMETRY Symmetry
INVARIANTS
  CommittedHeld
