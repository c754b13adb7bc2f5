--------------------------- MODULE ProblemRevisions ---------------------------
(***************************************************************************)
(* One problem and its revisions (admin_problems.go): an update writes the *)
(* live row and adds a revision, an activation copies an old revision back *)
(* to the live row, a publication copies the active one and the active     *)
(* checker.  Each of them is a transaction of several statements under     *)
(* READ COMMITTED: it reads what others have committed, waits for rows     *)
(* that others have written, and its own writes show when it commits.      *)
(***************************************************************************)
EXTENDS Naturals, Sequences, FiniteSets

CONSTANTS
    Editors,       \* goroutines that run one of these handlers, one call after the other
    Requests,      \* bound: what is asked for
    Texts,         \* statement, limits and points of a problem
    Codes,         \* sources of checkers
    NoCode,        \* the empty checker_code
    MaxRevisions,  \* bound on the revisions of the problem
    Nil,           \* a field that the request leaves out, no row yet
    Gone           \* a row that has been deleted

Maybe(S) == S \cup {Nil}
Checkers == Codes \cup {NoCode}
Types == {"standard", "subjective"}
Contents == [text : Texts, checker : Checkers]
ProblemRows == [content : Contents, type : Types, published : BOOLEAN, stamp : Maybe(Codes)]
Numbers == 1..MaxRevisions
AllRequests ==
    [op : {"publish"}] \cup [op : {"activate"}, number : Numbers] \cup
    [op : {"update"}, text : Maybe(Texts), checker : Maybe(Checkers), type : Maybe(Types)]

\* What is assumed of the constants.
RevisionsAssumption ==
    /\ Requests \subseteq AllRequests
    /\ Texts # {} /\ NoCode \notin Codes /\ MaxRevisions \in Nat \ {0}
    /\ Nil # Gone /\ {Nil, Gone} \cap ProblemRows = {}
    /\ Nil \notin Texts \cup Checkers \cup Types /\ Nil \notin Requests

VARIABLES
    problem,       \* the row of app.problems
    revisions,     \* its rows of app.problem_revisions, in the order of their insertion
    edit,          \* the calls in progress
    tangled,       \* history: the last change of the live row overlapped another one
    checkers       \* sources of the active checkers; this module only reads them

vars == <<problem, revisions, edit, tangled, checkers>>

\* published: published_at is not NULL.  stamp is history: the checker that the last
\* publication took instead of the revision's.
Row(content, type) ==
    [content |-> content, type |-> type, published |-> FALSE, stamp |-> Nil]

There == problem # Nil /\ problem # Gone
Active == {i \in DOMAIN revisions : revisions[i].active}

\* draft, type, stamp and number are what the transaction has read or is about to write, seen
\* how many rows its UPDATE has found.  raced is history: a call of Rivals(op) committed meanwhile.
Idle == [pc |-> "idle", ask |-> Nil, draft |-> Nil, type |-> "standard", stamp |-> Nil,
         number |-> 0, seen |-> 0, raced |-> FALSE]

Init ==
    /\ problem = Nil
    /\ revisions = <<>>
    /\ edit = [k \in Editors |-> Idle]
    /\ tangled = FALSE
    /\ checkers \in SUBSET Checkers

-----------------------------------------------------------------------------
\* An UPDATE locks its rows until the transaction ends.
HoldsProblem(k) == edit[k].ask # Nil /\ edit[k].ask.op = "update"
                   /\ edit[k].pc \in {"deactivate", "number", "insert"}
HoldsRevisions(k) == edit[k].pc \in {"number", "insert", "restore"}

ProblemFree(k) == \A j \in Editors \ {k} : ~HoldsProblem(j)
RevisionsFree(k) == \A j \in Editors \ {k} : ~HoldsRevisions(j)

At(k, op, pc) == edit[k].pc = pc /\ edit[k].ask.op = op
Go(k, pc) == edit' = [edit EXCEPT ![k].pc = pc]
Return(k) == edit' = [edit EXCEPT ![k] = Idle]
Same == UNCHANGED <<problem, revisions, tangled, checkers>>

\* Calls whose commit leaves a call of op with what is so no longer.
Rivals(op) ==
    CASE op = "update" -> {"update", "activate", "publish"}
      [] op = "activate" -> {"update"}
      [] op = "publish" -> {"update", "activate"}

Commit(k) ==
    edit' = [j \in Editors |->
        CASE j = k -> Idle
          [] j # k /\ edit[j] # Idle ->
               [edit[j] EXCEPT !.raced = @ \/ edit[k].ask.op \in Rivals(edit[j].ask.op)]
          [] OTHER -> Idle]

\* The id of a problem is known once it has been created.
Begin(k) ==
    /\ edit[k] = Idle /\ problem # Nil
    /\ \E a \in Requests : edit' = [edit EXCEPT ![k] = [Idle EXCEPT !.pc = "read", !.ask = a]]
    /\ Same

\* A statement fails, PostgreSQL ends the transaction to break a deadlock, or the process
\* stops: nothing of the transaction stays.
Fail(k) == edit[k] # Idle /\ Return(k) /\ Same

-----------------------------------------------------------------------------
\* AdminCreateProblem: the problem and its first revision.  CreateQuestion: no revision.
Revision(number, content) == [number |-> number, content |-> content, active |-> TRUE]

Create(content, type, withRevision) ==
    /\ problem = Nil
    /\ withRevision \/ type = "standard"
    /\ problem' = Row(content, type)
    /\ revisions' = IF withRevision THEN <<Revision(1, content)>> ELSE <<>>
    /\ UNCHANGED <<edit, tangled, checkers>>

\* AdminUnpublishProblem and AdminDeleteProblem are single statements.
Unpublish ==
    /\ There /\ \A k \in Editors : ~HoldsProblem(k)
    /\ problem' = [problem EXCEPT !.published = FALSE]
    /\ UNCHANGED <<revisions, edit, tangled, checkers>>

\* The revisions and checkers go with the problem.
Delete ==
    /\ There /\ \A k \in Editors : ~HoldsProblem(k) /\ ~HoldsRevisions(k)
    /\ problem' = Gone
    /\ revisions' = <<>>
    /\ checkers' = {}
    /\ UNCHANGED <<edit, tangled>>

-----------------------------------------------------------------------------
Or(field, old) == IF field = Nil THEN old ELSE field
Applied_M(a, content) ==
    [text |-> Or(a.text, content.text), checker |-> Or(a.checker, NoCode)]
Applied(a, content) ==
    [text |-> Or(a.text, content.text), checker |-> Or(a.checker, content.checker)]

\* AdminUpdateProblem reads the live row without a lock.
UpdateRead(k) ==
    /\ At(k, "update", "read")
    /\ LET a == edit[k].ask IN
       edit' = [edit EXCEPT ![k] =
          IF ~There THEN Idle
          ELSE [@ EXCEPT !.draft = Applied(a, problem.content),
                         !.type = Or(a.type, problem.type), !.pc = "write"]]
    /\ Same

UpdateWrite(k) ==
    At(k, "update", "write") /\ ProblemFree(k) /\ Go(k, "deactivate") /\ Same

UpdateDeactivate(k) ==
    At(k, "update", "deactivate") /\ RevisionsFree(k) /\ Go(k, "number") /\ Same

\* One more than the highest number, or than 0 if there is none.
UpdateNumber(k) ==
    /\ At(k, "update", "number")
    /\ \E max \in {0} \cup {revisions[i].number : i \in DOMAIN revisions} :
          /\ \A i \in DOMAIN revisions : revisions[i].number <= max
          /\ edit' = [edit EXCEPT ![k].number = max + 1, ![k].pc = "insert"]
    /\ Same

\* The insert needs the problem.  MaxRevisions bounds it.
UpdateInsert(k) ==
    /\ At(k, "update", "insert") /\ There /\ edit[k].number <= MaxRevisions
    /\ problem' = [problem EXCEPT !.content = edit[k].draft, !.type = edit[k].type, !.stamp = Nil]
    /\ revisions' = Append([i \in DOMAIN revisions |-> [revisions[i] EXCEPT !.active = FALSE]],
                           Revision(edit[k].number, edit[k].draft))
    /\ tangled' = FALSE
    /\ Commit(k)
    /\ UNCHANGED checkers

-----------------------------------------------------------------------------
\* AdminActivateRevision.
ActivateRead(k) ==
    /\ At(k, "activate", "read")
    /\ LET found == {i \in DOMAIN revisions : revisions[i].number = edit[k].ask.number} IN
       IF found = {} THEN Return(k)
       ELSE \E i \in found :
               edit' = [edit EXCEPT ![k].draft = revisions[i].content, ![k].pc = "find"]
    /\ Same

\* UPDATE ... SET is_active = FALSE: the rows that are there when the statement starts ...
ActivateFind(k) ==
    /\ At(k, "activate", "find")
    /\ edit' = [edit EXCEPT ![k].seen = Len(revisions), ![k].pc = "lock"]
    /\ Same

\* ... and are written once nobody else holds them.
ActivateLock(k) == At(k, "activate", "lock") /\ RevisionsFree(k) /\ Go(k, "restore") /\ Same

Chosen_M(k, i) == revisions[i].number = edit[k].ask.number \/ revisions[i].active
Chosen(k, i) == revisions[i].number = edit[k].ask.number \/ (i > edit[k].seen /\ revisions[i].active)

ActivateRestore(k) ==
    /\ At(k, "activate", "restore") /\ ProblemFree(k)
    /\ problem' = IF There THEN [problem EXCEPT !.content = edit[k].draft, !.stamp = Nil] ELSE problem
    /\ revisions' = [i \in DOMAIN revisions |-> [revisions[i] EXCEPT !.active = Chosen(k, i)]]
    /\ tangled' = edit[k].raced
    /\ Commit(k)
    /\ UNCHANGED checkers

-----------------------------------------------------------------------------
\* AdminPublishProblem: one of the active revisions, then one of the active checkers.
PublishRead(k) ==
    /\ At(k, "publish", "read")
    /\ IF Active = {} THEN Return(k)
       ELSE \E i \in Active :
               edit' = [edit EXCEPT ![k].draft = revisions[i].content, ![k].pc = "checker"]
    /\ Same

PublishChecker(k) ==
    /\ At(k, "publish", "checker")
    /\ \E code \in IF checkers = {} THEN {NoCode} ELSE checkers :
          edit' = [edit EXCEPT ![k].stamp = IF code = NoCode THEN Nil ELSE code, ![k].pc = "publish"]
    /\ Same

Publish(k) ==
    /\ At(k, "publish", "publish") /\ ProblemFree(k)
    /\ problem' = IF ~There THEN problem
                  ELSE [problem EXCEPT !.content.text = edit[k].draft.text,
                           !.content.checker = Or(edit[k].stamp, edit[k].draft.checker),
                           !.published = TRUE, !.stamp = edit[k].stamp]
    /\ tangled' = (tangled \/ edit[k].raced)
    /\ Commit(k)
    /\ UNCHANGED <<revisions, checkers>>

Step(k) ==
    \/ Fail(k)
    \/ UpdateRead(k) \/ UpdateWrite(k) \/ UpdateDeactivate(k) \/ UpdateNumber(k) \/ UpdateInsert(k)
    \/ ActivateRead(k) \/ ActivateFind(k) \/ ActivateLock(k) \/ ActivateRestore(k)
    \/ PublishRead(k) \/ PublishChecker(k) \/ Publish(k)

\* Components change the active checkers.
Environment == checkers' \in SUBSET Checkers /\ UNCHANGED <<problem, revisions, edit, tangled>>

Next ==
    \/ \E c \in Contents, type \in Types, with \in BOOLEAN : Create(c, type, with)
    \/ Unpublish \/ Delete
    \/ \E k \in Editors : Begin(k) \/ Step(k)
    \/ Environment

Spec == Init /\ [][Next]_vars

-----------------------------------------------------------------------------
Places == {"idle", "read", "write", "deactivate", "number", "insert", "find", "lock", "restore",
           "checker", "publish"}

TypeOK ==
    /\ problem \in {Nil, Gone} \cup ProblemRows
    /\ revisions \in Seq([number : Numbers, content : Contents, active : BOOLEAN])
    /\ edit \in [Editors -> [pc : Places, ask : Maybe(Requests), draft : Maybe(Contents),
                             type : Types, stamp : Maybe(Codes), number : Nat, seen : Nat,
                             raced : BOOLEAN]]
    /\ tangled \in BOOLEAN
    /\ checkers \subseteq Checkers

\* "AdminActivateRevision sets a specific revision as active and updates the problem"
\* (admin_problems.go:576): a problem with revisions always has one that is active.  There is no
\* other, and the live row shows its content, with the checker of the last publication if that
\* took one, unless the last change was an activation that an update overlapped or a
\* publication that an update or an activation overlapped; the next change puts it right.
LiveIsActive ==
    There /\ revisions # <<>> =>
        \E i \in Active :
           ~tangled =>
           /\ Active = {i}
           /\ problem.content.text = revisions[i].content.text
           /\ problem.content.checker = Or(problem.stamp, revisions[i].content.checker)

\* An update changes the fields of its request and no others (admin_problems.go:430), unless
\* an update, an activation or a publication committed after it had read the row.
EditsKept ==
    [][\A k \in Editors :
         At(k, "update", "insert") /\ revisions' # revisions /\ edit'[k] = Idle /\ ~edit[k].raced =>
            /\ problem'.content.text = Or(edit[k].ask.text, problem.content.text)
            /\ problem'.content.checker = Or(edit[k].ask.checker, problem.content.checker)
            /\ problem'.type = Or(edit[k].ask.type, problem.type)]_vars
=============================================================================
