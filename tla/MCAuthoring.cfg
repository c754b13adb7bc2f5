SPECIFICATION Spec
CONSTANTS
  Workers = {w1, w2}
  Requests <- MCRequests
  Texts = {"t1", "t2"}
  Codes = {"good"}
  NoCode = "none"
  MaxRevisions = 3
  Kinds = {"generators", "validators", "checkers"}
  Ids = {c1, c2}
  Tests = {q1, q2}
  Batches = {b1}
  Inputs = {"i1", "i2"}
  Typed = "typed"
  MaxSeeds = 2
  Accepts <- MCAccepts
  Drafts <- MCDrafts
  Budgets <- MCBudgets
  Prepared = {{"checkers"}, {"generators", "validators"}}
  MaxBusy = 2
  Nil = Nil
  Gone = Gone
SYMMETRY Symmetry
INVARIANTS TypeOK LiveIsActive
PROPERTIES EditsKept OneActiveComponent ValidatedIsChecked OutputFitsInput JudgedAsPublished
CHECK_DEADLOCK FALSE
