SPECIFICATION Spec
CONSTANTS
  Plans = {p1, p2, p3}
  Other = Other
  Ttl = 1
  MaxPlans = 2
  HistoryLimit = 2
  LateFailures = TRUE
  MaxVersion = 5
  MaxClock = 2
SYMMETRY Symmetry
INVARIANTS
  TypeOK
  RunsOnce
  RedoStack
  PlansBounded
PROPERTIES
  RunsAsPreviewed
  RestoresExactlyAlone
