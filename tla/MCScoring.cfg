\* Two requests of one user for one problem and a grader, all at once, while one thing
\* happens beside them: a statement fails, a call stops, or an administrator changes the
\* points, the scoring mode or the times, or finalizes the contest.
SPECIFICATION Spec
CONSTANTS
  Users = {u1}
  Problems = {p1}
  Requests = {r1, r2}
  Graders = {g1}
  Windows <- Moving
  MaxTime = 1
  MaxEvents = 1
  Total = 2
  PointValues = {0, 2}
  Modes <- BothModes
  Scores <- ZeroOrTwo
  Locks <- NoChanges
  NoRow = NoRow
  NC = NC
  NoChange = NC
SYMMETRY Symmetry
\* The calls end and the clock is bounded.
CHECK_DEADLOCK FALSE
INVARIANTS TypeOK SolveTraceable CreditNotLost FirstBest ManualScoreCounts BoardShowsLastSum
PROPERTY PointsOnlyRise
