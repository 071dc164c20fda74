SPECIFICATION Spec
CONSTANTS
  Threads = {t1, t2, t3}
  Window = 3
  Limit = 2
  MaxDelay = 1
  MaxRequests = 5
  Users = {u1, u2}
  MaxCalls = 5
  Ids = {1, 2, 3}
  Scopes = {s1, s2}
  Agents = {a1, a2}
  NoMemory = NoMemory
  Ttls = {1, 2}
  Near <- MCNear
  Cut = 2
  MaxUpserts = 3
  Nothing = Nothing
  MaxWrites = 3
  MaxKeys = 3
  Keys <- MCKeys
  Orders <- MCOrders
  Capacity = 2
  Garbage = Garbage
  MaxStatements = 3
  Base = r0
  Others = {r1, r2}
  Values = {x, Null}
  Null = Null
  MaxTable = 2
  MaxClock = 5
  MaxTime = 2
SYMMETRY Symmetry
INVARIANTS
  TypeOK
  RateHolds
  AdminDurable
  AckedRetrievable
  RecentIsLatest
  ArchiveRestores
  IndexAnswers
  JoinsAgree
CHECK_DEADLOCK FALSE
