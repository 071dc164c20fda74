SPECIFICATION Spec
CONSTANTS
  Nodes = {n1, n2, n3}
  NoNode = NoNode
  Commands = {a}
  MaxTerm = 2
  MaxLog = 2
SYMMETRY Symmetry
INVARIANTS
  TypeOK
  ElectionSafety
  LogMatching
  HeldUnlessOverclaimed
