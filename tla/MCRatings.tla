------------------------------ MODULE MCRatings ------------------------------
(* Small instances of ContestRatings for TLC. *)
EXTENDS ContestRatings, TLC

CONSTANTS u1, u2

\* The contest with the larger id ends first.
Ends == 1 :> 1 @@ 2 :> 0
InBoth == 1 :> (u1 :> 1 @@ u2 :> 0) @@ 2 :> (u1 :> 0 @@ u2 :> NoRow)
LateJoin == {<<2, u2, 1>>}
Odds(a, b) == IF a = b THEN 50 ELSE IF a > b THEN 60 ELSE 40
Symmetry == Permutations(Calls)
=============================================================================
