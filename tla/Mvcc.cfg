SPECIFICATION Spec
CONSTANTS
  Clients = {c1, c2}
  Keys = {k1, k2}
  Values = {v1}
  Prefixes <- MCPrefixes
  Missing = Missing
  NoEntry = NoEntry
  MaxVersion = 2
SYMMETRY Symmetry
INVARIANTS
  TypeOK
  ChainInv
  SnapshotReads
PROPERTIES
  DoomedStaysDoomed
  Serializable
