\* Two callers and one slot, no assumption on how long a goroutine step takes, and
\* descendants of a child that keep its output pipe open, for a while or for ever.
SPECIFICATION FairSpec
CONSTANTS
  Callers = {c1, c2}
  Slots = 1
  TimeLimit = 2
  CompileLimit = 2
  MaxNeed = 3
  Orphans <- Maybe
  Cuts <- Maybe
  Prompt = FALSE
INVARIANTS TypeOK ChildrenBounded SuccessIsComplete CompilerHadItsTime
PROPERTY EveryCallReturns
