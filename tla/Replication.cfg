SPECIFICATION FairSpec
CONSTANTS
  Names = {t, u}
  Items = {a}
  Absent = Absent
  MaxVersion = 3
INVARIANTS
  TypeOK
  FollowerFaithful
PROPERTIES
  CatchesUp
