\* One slot for two callers: time in the queue is charged to the program.
SPECIFICATION Spec
CONSTANTS
  Callers = {c1, c2}
  Slots = 1
  TimeLimit = 2
  CompileLimit = 2
  MaxNeed = 3
  Orphans <- Never
  Cuts <- Never
  Prompt = TRUE
INVARIANT TimeoutMeansRan
