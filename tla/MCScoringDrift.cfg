\* Two requests of one user for different problems, at once, and nothing else.
SPECIFICATION Spec
CONSTANTS
  Users = {u1}
  Problems = {p1, p2}
  Requests = {r1, r2}
  Graders <- Nobody
  Windows <- AtZero
  MaxTime = 0
  MaxEvents = 0
  Total = 2
  PointValues = {2}
  Modes <- Partial
  Scores <- NoChanges
  Locks <- NoChanges
  NoRow = NoRow
  NC = NC
  NoChange = NC
CHECK_DEADLOCK FALSE
INVARIANT AggregateExact
