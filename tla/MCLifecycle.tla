----------------------------- MODULE MCLifecycle -----------------------------
(* Small instances of ContestLifecycle for TLC.                            *)
EXTENDS ContestLifecycle, TLC

PlainAsks == [op : {"delete", "finalize", "public", "rerun"}]
PublishAsks ==
    {[op |-> "publish", privileged |-> TRUE], [op |-> "publish", privileged |-> FALSE],
     [op |-> "remove", privileged |-> TRUE]}
ProblemAsks ==
    {[op |-> "add", privileged |-> FALSE, order |-> 0], [op |-> "add", privileged |-> TRUE, order |-> 2],
     [op |-> "order", privileged |-> TRUE, order |-> 2]}

Change == [op |-> "update", privileged |-> TRUE, rated |-> Nil, group |-> "keep",
           start |-> Nil, end |-> Nil]
UpdateAsks ==
    {[Change EXCEPT !.rated = TRUE], [Change EXCEPT !.group = "set"],
     [Change EXCEPT !.rated = TRUE, !.group = "set"],
     [Change EXCEPT !.privileged = FALSE, !.start = 1],
     [Change EXCEPT !.group = "clear", !.end = 0]}

EveryAsk == PlainAsks \cup PublishAsks \cup ProblemAsks \cup UpdateAsks
Symmetry == Permutations(Calls) \cup Permutations(Rows)
=============================================================================
