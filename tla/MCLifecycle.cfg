\* One contest with up to two problems, two calls at a time.
SPECIFICATION Spec
CONSTANTS
  Rows = {p1, p2}
  Calls = {k1, k2}
  Asks <- EveryAsk
  Times = {0, 1}
  MaxTime = 1
  MaxOrder = 2
  Defaults = {"draft", "upcoming"}
  Nil = Nil
SYMMETRY Symmetry
INVARIANT TypeOK
PROPERTIES NoWayBack PublishedIsReady FinalizedIsComplete
