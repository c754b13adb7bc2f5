\* Two users in two contests, two calls at a time.
SPECIFICATION Spec
CONSTANTS
  u1 = u1
  u2 = u2
  Users = {u1, u2}
  Contests = {1, 2}
  EndTime <- Ends
  Calls = {k1, k2}
  MaxTime = 1
  Joined <- InBoth
  Late <- LateJoin
  Bannable = {u2}
  Scale = 100
  Expected <- Odds
  NoRow = NoRow
SYMMETRY Symmetry
INVARIANTS TypeOK RatingIsLatest ChainLinked BetterRankBetterRating
