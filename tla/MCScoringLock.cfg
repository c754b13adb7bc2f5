\* Two graders of one submission, at once.
SPECIFICATION Spec
CONSTANTS
  Users = {u1}
  Problems = {p1}
  Requests = {r1}
  Graders = {g1, g2}
  Windows <- AtZero
  MaxTime = 0
  MaxEvents = 0
  Total = 2
  PointValues = {2}
  Modes <- Partial
  Scores <- ZeroOrTwo
  Locks <- LockOrNot
  NoRow = NoRow
  NC = NC
  NoChange = NC
CHECK_DEADLOCK FALSE
PROPERTY LockedKeepsScore
