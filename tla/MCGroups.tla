------------------------------ MODULE MCGroups ------------------------------
(* Small instances of Groups for TLC: a site admin, a group admin lead, and  *)
(* a guest who asks to join.                                                 *)
EXTENDS Groups, TLC

CONSTANTS site, lead, guest, r1, r2

JoinAsks == {[op |-> "join", user |-> guest]}
LeaveAsks == {[op |-> "leave", user |-> v] : v \in {lead, site}}
MoveAsks ==
    {[op |-> "add", user |-> lead, target |-> lead, role |-> "member"],
     [op |-> "update", user |-> lead, target |-> lead, role |-> "member"],
     [op |-> "update", user |-> site, target |-> lead, role |-> "member"],
     [op |-> "update", user |-> lead, target |-> guest, role |-> "admin"],
     [op |-> "remove", user |-> lead, target |-> site],
     [op |-> "remove", user |-> site, target |-> guest]}
DecideAsks ==
    {[op |-> "decide", user |-> lead, request |-> r1, decision |-> "approved"],
     [op |-> "decide", user |-> site, request |-> r1, decision |-> "rejected"],
     [op |-> "decide", user |-> guest, request |-> r2, decision |-> "approved"]}
EveryAsk == JoinAsks \cup LeaveAsks \cup MoveAsks \cup DecideAsks
Symmetry == Permutations(Calls)
=============================================================================
