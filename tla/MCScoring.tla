------------------------------ MODULE MCScoring ------------------------------
(* Small instances of ContestScoring for TLC. *)
EXTENDS ContestScoring, TLC

CONSTANT NC
Nobody == {}
BothModes == {"all_or_nothing", "partial"}
Partial == {"partial"}
ZeroOrTwo == {0, 2, NC}
LockOrNot == {TRUE, NC}
NoChanges == {NC}
AtZero == {[start |-> 0, end |-> 0]}
Moving == {[start |-> 0, end |-> 0], [start |-> 1, end |-> 1]}
Symmetry == Permutations(Requests) \cup Permutations(Graders)
=============================================================================
