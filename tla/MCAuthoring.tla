------------------------------ MODULE MCAuthoring ------------------------------
(* Small instances of Authoring for TLC.                                    *)
EXTENDS Authoring, TLC

Ask == [op |-> "update", text |-> Nil, checker |-> Nil, type |-> Nil]
MCRequests ==
    {[op |-> "publish"], [op |-> "activate", number |-> 1],
     [Ask EXCEPT !.text = "t2"], [Ask EXCEPT !.checker = NoCode, !.type = "subjective"]}

\* The good source accepts every input, the strict one only the first.
MCAccepts == [s \in Codes \cup {NoCode} |-> IF s = "good" THEN Inputs ELSE {"i1"}]

MCDrafts == {[text |-> "t1", checker |-> "good"]}

Budget(r, c, t, u) ==
    [revision |-> r, component |-> c, test |-> t, user |-> u]
MCBudgets ==
    {Budget(3, 0, 0, 0), Budget(0, 3, 0, 0), Budget(0, 0, 3, 0),
     Budget(1, 1, 0, 0), Budget(2, 0, 0, 1), Budget(1, 0, 1, 1), Budget(0, 1, 2, 0)}

Symmetry == Permutations(Workers) \cup Permutations(Tests) \cup Permutations(Ids)
=============================================================================
