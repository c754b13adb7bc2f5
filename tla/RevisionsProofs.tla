---------------------------- MODULE RevisionsProofs ----------------------------
(* Proofs about ProblemRevisions, for any number of editors and requests: which *)
(* overlaps can make the live row differ from the active revision or lose a     *)
(* field, and that an active revision is always left.                           *)
EXTENDS ProblemRevisions, SequenceTheorems, TLAPS

RevisionRows == [number : Numbers, content : Contents, active : BOOLEAN]
EditRows ==
    [pc : Places, ask : Maybe(Requests), draft : Maybe(Contents), type : Types,
     stamp : Maybe(Codes), number : Nat, seen : Nat, raced : BOOLEAN]

\* The steps of the handler of each operation.
Allowed(op) ==
    CASE op = "update" -> {"read", "write", "deactivate", "number", "insert"}
      [] op = "activate" -> {"read", "find", "lock", "restore"}
      [] op = "publish" -> {"read", "checker", "publish"}

\* What a call knows of the problem, by the step it is at: the rows it holds nobody else has
\* changed, and if no rival has committed, nor what it has read.
Knows(e) ==
    /\ e.pc = "insert" =>
          e.number > 0 /\ \A i \in DOMAIN revisions : revisions[i].number < e.number
    /\ e.pc \in {"find", "lock", "restore"} =>
          \E i \in DOMAIN revisions : /\ revisions[i].number = e.ask.number
                                      /\ e.raced = FALSE => revisions[i].content = e.draft
    /\ e.pc \in {"lock", "restore"} /\ e.raced = FALSE => e.seen = Len(revisions)
    /\ e.pc \in {"checker", "publish"} /\ e.raced = FALSE =>
          \E i \in Active : revisions[i].content = e.draft
    /\ e.pc \in {"write", "deactivate", "number", "insert"} /\ e.raced = FALSE =>
          e.draft = Applied(e.ask, problem.content) /\ e.type = Or(e.ask.type, problem.type)

Local(e) ==
    /\ e.ask \in Requests /\ e.pc \in Allowed(e.ask.op)
    /\ problem # Nil
    /\ e.pc # "read" => e.draft \in Contents
    /\ There => Knows(e)

Locals == \A k \in Editors : edit[k] # Idle => Local(edit[k])

\* The rows of the revisions are held by one transaction at a time.
OneHolder == \A j, k \in Editors : HoldsRevisions(j) /\ HoldsRevisions(k) => j = k

Distinct == \A i, j \in DOMAIN revisions : revisions[i].number = revisions[j].number => i = j

Inv ==
    /\ TypeOK /\ Locals /\ OneHolder /\ Distinct
    /\ ~There => revisions = <<>>
    /\ LiveIsActive

-----------------------------------------------------------------------------
\* The requests.
LEMMA AskTypes ==
    ASSUME RevisionsAssumption, NEW a \in Requests
    PROVE  /\ a.op \in {"publish", "activate", "update"} /\ a # Nil
           /\ a.op = "update" => /\ a.text \in Maybe(Texts) /\ a.checker \in Maybe(Checkers)
                                 /\ a.type \in Maybe(Types)
<1>1. a \in AllRequests /\ a # Nil
  BY DEF RevisionsAssumption
<1>2. CASE a \in [op : {"publish"}]
  BY <1>1, <1>2
<1>3. CASE a \in [op : {"activate"}, number : Numbers]
  BY <1>1, <1>3
<1>4. CASE a \in [op : {"update"}, text : Maybe(Texts), checker : Maybe(Checkers), type : Maybe(Types)]
  BY <1>1, <1>4
<1> QED
  BY <1>1, <1>2, <1>3, <1>4 DEF AllRequests

\* Which request a call has, by the step it is at.
LEMMA StepOps ==
    ASSUME NEW op \in {"publish", "activate", "update"}, NEW p \in Allowed(op)
    PROVE  /\ p \in {"write", "deactivate", "number", "insert"} => op = "update"
           /\ p \in {"find", "lock", "restore"} => op = "activate"
           /\ p \in {"checker", "publish"} => op = "publish"
           /\ p # "idle"
BY DEF Allowed

LEMMA IdleRow == Idle \in EditRows /\ Idle.pc = "idle"
BY DEF Idle, EditRows, Places, Maybe, Types

LEMMA EditFacts ==
    ASSUME TypeOK, NEW k \in Editors
    PROVE  /\ edit[k] \in EditRows /\ edit[k].pc \in Places /\ edit[k].raced \in BOOLEAN
           /\ edit[k].seen \in Nat /\ edit[k].number \in Nat /\ edit[k].type \in Types
           /\ edit[k].stamp \in Maybe(Codes)
BY DEF TypeOK, EditRows

LEMMA AtFacts ==
    ASSUME RevisionsAssumption, Inv, NEW k \in Editors, edit[k].pc # "idle"
    PROVE  /\ edit[k] # Idle /\ edit[k].ask \in Requests /\ Local(edit[k])
           /\ edit[k].pc \in Allowed(edit[k].ask.op)
           /\ edit[k].ask.op \in {"publish", "activate", "update"}
           /\ edit[k] \in EditRows
BY IdleRow, EditFacts, AskTypes DEF Inv, Locals, Local

LEMMA ProblemRow ==
    ASSUME TypeOK, There
    PROVE  problem \in ProblemRows /\ problem.content \in Contents /\ problem.type \in Types
BY DEF TypeOK, There, ProblemRows

LEMMA RevisionsRow ==
    ASSUME TypeOK
    PROVE  /\ revisions \in Seq(RevisionRows) /\ Len(revisions) \in Nat
           /\ DOMAIN revisions = 1..Len(revisions)
           /\ revisions \in [1..Len(revisions) -> RevisionRows]
           /\ revisions = <<>> <=> DOMAIN revisions = {}
<1>1. revisions \in Seq(RevisionRows)
  BY DEF TypeOK, RevisionRows
<1>2. /\ Len(revisions) \in Nat /\ DOMAIN revisions = 1..Len(revisions)
      /\ revisions \in [1..Len(revisions) -> RevisionRows]
  BY <1>1, LenProperties
<1>3. revisions # <<>> => Len(revisions) \in Nat \ {0}
  BY <1>1, EmptySeq
<1>4. revisions = <<>> => Len(revisions) = 0
  BY <1>1, EmptySeq
<1>5. 1..Len(revisions) = {} <=> Len(revisions) = 0
  BY <1>2
<1> QED
  BY <1>1, <1>2, <1>3, <1>4, <1>5

\* What an update makes of the content that it has read.
LEMMA AppliedType ==
    ASSUME RevisionsAssumption, NEW a \in Requests, a.op = "update", NEW c \in Contents,
           NEW t \in Types
    PROVE  Applied(a, c) \in Contents /\ Or(a.type, t) \in Types
<1>1. /\ a.text \in Maybe(Texts) /\ a.checker \in Maybe(Checkers) /\ a.type \in Maybe(Types)
      /\ c.text \in Texts /\ c.checker \in Checkers
  BY AskTypes DEF Contents
<1> QED
  BY <1>1 DEF Applied, Or, Maybe, Contents

-----------------------------------------------------------------------------
\* The editors.  A call goes on to another step, and the rows stay.
LEMMA AdvanceKeeps ==
    ASSUME RevisionsAssumption, Inv, Same, NEW k \in Editors, edit[k].pc # "idle",
           NEW e \in EditRows, e.ask = edit[k].ask, Local(e), edit' = [edit EXCEPT ![k] = e],
           e.pc \in {"number", "insert", "restore"} =>
               edit[k].pc \in {"number", "insert", "restore"} \/ RevisionsFree(k)
    PROVE  Inv'
<1>1. TypeOK'
  BY DEF Inv, TypeOK, Same, EditRows
<1>2. \A j \in Editors : edit'[j] = IF j = k THEN e ELSE edit[j]
  BY DEF Inv, TypeOK
<1>3. Locals'
  <2> SUFFICES ASSUME NEW j \in Editors, edit'[j] # Idle PROVE Local(edit[j])'
    BY DEF Locals
  <2> USE DEF Local, Knows, There, Active, Same
  <2>1. CASE j = k
    BY <1>2, <2>1
  <2>2. CASE j # k
    BY <1>2, <2>2 DEF Inv, Locals
  <2> QED
    BY <2>1, <2>2
<1>4. OneHolder'
  <2> SUFFICES ASSUME NEW i \in Editors, NEW j \in Editors, HoldsRevisions(i)', HoldsRevisions(j)' PROVE i = j
    BY DEF OneHolder
  <2> QED
    BY <1>2 DEF Inv, OneHolder, HoldsRevisions, RevisionsFree
<1>5. Distinct' /\ (~There => revisions = <<>>)' /\ LiveIsActive'
  BY DEF Inv, Distinct, There, LiveIsActive, Active, Same
<1> QED
  BY <1>1, <1>3, <1>4, <1>5 DEF Inv

LEMMA GoKeeps ==
    ASSUME RevisionsAssumption, Inv, Same, NEW k \in Editors, edit[k].pc # "idle",
           NEW p \in Places, p \in Allowed(edit[k].ask.op), Go(k, p), edit[k].pc # "read",
           There => Knows([edit[k] EXCEPT !.pc = p]),
           p \in {"number", "insert", "restore"} =>
               edit[k].pc \in {"number", "insert", "restore"} \/ RevisionsFree(k)
    PROVE  Inv'
<1> DEFINE e == [edit[k] EXCEPT !.pc = p]
<1>1. edit[k] \in EditRows /\ Local(edit[k])
  BY AtFacts
<1>2. e \in EditRows /\ e.pc = p /\ e.ask = edit[k].ask /\ e.draft = edit[k].draft
  BY <1>1 DEF EditRows
<1>3. edit' = [edit EXCEPT ![k] = e]
  BY DEF Go, Inv, TypeOK
<1>4. Local(e)
  BY <1>1, <1>2 DEF Local
<1> HIDE DEF e
<1> QED
  BY <1>2, <1>3, <1>4, AdvanceKeeps

\* A call returns and has changed nothing.
LEMMA GoBack ==
    ASSUME RevisionsAssumption, Inv, Same, NEW k \in Editors, Return(k)
    PROVE  Inv'
<1>1. \A j \in Editors : edit'[j] = IF j = k THEN Idle ELSE edit[j]
  BY DEF Inv, TypeOK, Return
<1>2. TypeOK'
  BY IdleRow DEF Inv, TypeOK, Same, EditRows, Return
<1>3. Locals'
  <2> SUFFICES ASSUME NEW j \in Editors, edit'[j] # Idle PROVE Local(edit[j])'
    BY DEF Locals
  <2>1. Local(edit[j]) /\ edit'[j] = edit[j]
    BY <1>1 DEF Inv, Locals
  <2> QED
    BY <2>1 DEF Local, Knows, There, Active, Same
<1>4. OneHolder'
  BY <1>1, IdleRow DEF Inv, OneHolder, HoldsRevisions
<1>5. Distinct' /\ (~There => revisions = <<>>)' /\ LiveIsActive'
  BY DEF Inv, Distinct, There, LiveIsActive, Active, Same
<1> QED
  BY <1>2, <1>3, <1>4, <1>5 DEF Inv

LEMMA InitInv == ASSUME RevisionsAssumption, Init PROVE Inv
<1>1. revisions \in Seq(RevisionRows)
  BY EmptySeq DEF Init
<1>2. TypeOK
  BY <1>1, IdleRow DEF Init, TypeOK, EditRows, RevisionRows
<1>3. OneHolder
  BY IdleRow DEF Init, OneHolder, HoldsRevisions
<1> QED
  BY <1>2, <1>3 DEF Init, Inv, Locals, Distinct, There, LiveIsActive

LEMMA BeginKeeps == ASSUME RevisionsAssumption, Inv, NEW k \in Editors, Begin(k) PROVE Inv'
<1>1. PICK a \in Requests : edit' = [edit EXCEPT ![k] = [Idle EXCEPT !.pc = "read", !.ask = a]]
  BY DEF Begin
<1> DEFINE e == [Idle EXCEPT !.pc = "read", !.ask = a]
<1>2. e \in EditRows /\ e.pc = "read" /\ e.ask = a
  BY IdleRow DEF EditRows, Places, Maybe
<1>3. problem # Nil /\ Same
  BY DEF Begin
<1>4. Local(e)
  <2>1. "read" \in Allowed(a.op)
    BY AskTypes DEF Allowed
  <2> HIDE DEF e
  <2> QED
    BY <1>2, <1>3, <2>1 DEF Local, Knows
<1>5. \A j \in Editors : edit'[j] = IF j = k THEN e ELSE edit[j]
  BY <1>1 DEF Inv, TypeOK
<1>6. edit' = [edit EXCEPT ![k] = e]
  BY <1>1
<1> HIDE DEF e
<1>7. TypeOK'
  BY <1>2, <1>3, <1>6 DEF Inv, TypeOK, Same, EditRows
<1>8. Locals'
  <2> SUFFICES ASSUME NEW j \in Editors, edit'[j] # Idle PROVE Local(edit[j])'
    BY DEF Locals
  <2>1. PICK d : d = edit'[j] /\ Local(d)
    <3>1. CASE j = k
      BY <1>4, <1>5, <3>1
    <3>2. CASE j # k
      BY <1>5, <3>2 DEF Inv, Locals
    <3> QED
      BY <3>1, <3>2
  <2> QED
    BY <1>3, <2>1 DEF Local, Knows, There, Active, Same
<1>9. OneHolder'
  BY <1>2, <1>5 DEF Inv, OneHolder, HoldsRevisions
<1>10. Distinct' /\ (~There => revisions = <<>>)' /\ LiveIsActive'
  BY <1>3 DEF Inv, Distinct, There, LiveIsActive, Active, Same
<1> QED
  BY <1>7, <1>8, <1>9, <1>10 DEF Inv

LEMMA FailKeeps == ASSUME RevisionsAssumption, Inv, NEW k \in Editors, Fail(k) PROVE Inv'
BY GoBack DEF Fail

-----------------------------------------------------------------------------
\* The steps that change a call alone.
LEMMA UpdateReadKeeps == ASSUME RevisionsAssumption, Inv, NEW k \in Editors, UpdateRead(k) PROVE Inv'
<1>1. edit[k].pc = "read" /\ edit[k].ask.op = "update" /\ Same
  BY DEF UpdateRead, At
<1>2. edit[k].ask \in Requests /\ Local(edit[k]) /\ edit[k] \in EditRows
  BY <1>1, AtFacts
<1> DEFINE a == edit[k].ask
<1> DEFINE e == [edit[k] EXCEPT !.draft = Applied(a, problem.content),
                                !.type = Or(a.type, problem.type), !.pc = "write"]
<1>3. CASE ~There
  BY <1>1, <1>3, GoBack DEF UpdateRead, Return
<1>4. CASE There
  <2>1. edit' = [edit EXCEPT ![k] = e]
    BY <1>4 DEF UpdateRead
  <2>2. Applied(a, problem.content) \in Contents /\ Or(a.type, problem.type) \in Types
    BY <1>1, <1>2, <1>4, ProblemRow, AppliedType DEF Inv
  <2>3. e \in EditRows /\ e.ask = a /\ e.pc = "write" /\ e.draft = Applied(a, problem.content)
        /\ e.type = Or(a.type, problem.type)
    BY <1>2, <2>2 DEF EditRows, Places, Maybe
  <2> HIDE DEF e
  <2>4. Local(e)
    <3>1. "write" \in Allowed("update")
      BY DEF Allowed
    <3> QED
      BY <1>1, <1>2, <2>2, <2>3, <3>1 DEF Local, Knows
  <2> QED
    BY <1>1, <2>1, <2>3, <2>4, AdvanceKeeps
<1> QED
  BY <1>3, <1>4

\* An update goes on with what it has read.
LEMMA UpdateGoes ==
    ASSUME RevisionsAssumption, Inv, Same, NEW k \in Editors, NEW p \in {"deactivate", "number"},
           edit[k].pc \in {"write", "deactivate"}, Go(k, p), p = "number" => RevisionsFree(k)
    PROVE  Inv'
<1>1. Local(edit[k]) /\ edit[k].ask.op = "update" /\ edit[k] \in EditRows
  BY AtFacts, StepOps
<1>2. p \in Allowed("update") /\ p \in Places
  BY DEF Allowed, Places
<1> DEFINE e == [edit[k] EXCEPT !.pc = p]
<1>3. e.pc = p /\ e.ask = edit[k].ask /\ e.raced = edit[k].raced /\ e.draft = edit[k].draft
      /\ e.type = edit[k].type
  BY <1>1 DEF EditRows
<1>4. There => Knows(e)
  <2> HIDE DEF e
  <2> QED
    BY <1>1, <1>3 DEF Local, Knows
<1> QED
  BY <1>1, <1>2, <1>4, GoKeeps

LEMMA UpdateWriteKeeps == ASSUME RevisionsAssumption, Inv, NEW k \in Editors, UpdateWrite(k) PROVE Inv'
BY UpdateGoes DEF UpdateWrite, At

LEMMA UpdateDeactivateKeeps ==
    ASSUME RevisionsAssumption, Inv, NEW k \in Editors, UpdateDeactivate(k) PROVE Inv'
BY UpdateGoes DEF UpdateDeactivate, At

LEMMA UpdateNumberKeeps == ASSUME RevisionsAssumption, Inv, NEW k \in Editors, UpdateNumber(k) PROVE Inv'
<1>1. edit[k].pc = "number" /\ edit[k].ask.op = "update" /\ Same
  BY DEF UpdateNumber, At
<1>2. Local(edit[k]) /\ edit[k] \in EditRows
  BY <1>1, AtFacts
<1>3. PICK max \in {0} \cup {revisions[i].number : i \in DOMAIN revisions} :
        /\ \A i \in DOMAIN revisions : revisions[i].number <= max
        /\ edit' = [edit EXCEPT ![k].number = max + 1, ![k].pc = "insert"]
  BY DEF UpdateNumber
<1>4. max \in Nat /\ \A i \in DOMAIN revisions : revisions[i].number \in Nat
  <2>1. \A i \in DOMAIN revisions : revisions[i] \in RevisionRows
    BY RevisionsRow DEF Inv
  <2>2. Numbers \subseteq Nat
    BY DEF Numbers, RevisionsAssumption
  <2>3. \A i \in DOMAIN revisions : revisions[i].number \in Nat
    BY <2>1, <2>2 DEF RevisionRows
  <2> QED
    BY <2>3
<1> DEFINE number == max + 1
<1> DEFINE e == [edit[k] EXCEPT !.number = number, !.pc = "insert"]
<1>8. number \in Nat /\ number > max
  BY <1>4
<1>5. edit' = [edit EXCEPT ![k] = e]
  BY <1>3 DEF Inv, TypeOK
<1> HIDE DEF number
<1>6. e \in EditRows /\ e.pc = "insert" /\ e.number = number /\ e.ask = edit[k].ask
      /\ e.raced = edit[k].raced /\ e.draft = edit[k].draft /\ e.type = edit[k].type
  BY <1>2, <1>8 DEF EditRows, Places
<1> HIDE DEF e
<1>7. Local(e)
  <2>1. "insert" \in Allowed("update")
    BY DEF Allowed
  <2>2. e.number > 0 /\ \A i \in DOMAIN revisions : revisions[i].number < e.number
    BY <1>3, <1>4, <1>6, <1>8
  <2> QED
    BY <1>1, <1>2, <1>6, <2>1, <2>2 DEF Local, Knows
<1> QED
  BY <1>1, <1>5, <1>6, <1>7, AdvanceKeeps

LEMMA ActivateReadKeeps == ASSUME RevisionsAssumption, Inv, NEW k \in Editors, ActivateRead(k) PROVE Inv'
<1>1. edit[k].pc = "read" /\ edit[k].ask.op = "activate" /\ Same
  BY DEF ActivateRead, At
<1>2. Local(edit[k]) /\ edit[k] \in EditRows
  BY <1>1, AtFacts
<1>3. CASE Return(k)
  BY <1>1, <1>3, GoBack
<1>4. ASSUME NEW i \in DOMAIN revisions, revisions[i].number = edit[k].ask.number,
             edit' = [edit EXCEPT ![k].draft = revisions[i].content, ![k].pc = "find"]
      PROVE  Inv'
  <2> DEFINE e == [edit[k] EXCEPT !.draft = revisions[i].content, !.pc = "find"]
  <2>1. edit' = [edit EXCEPT ![k] = e]
    BY <1>4 DEF Inv, TypeOK
  <2>2. revisions[i].content \in Contents
    BY RevisionsRow DEF Inv, RevisionRows
  <2>3. e \in EditRows /\ e.pc = "find" /\ e.draft = revisions[i].content /\ e.ask = edit[k].ask
        /\ e.raced = edit[k].raced
    BY <1>2, <2>2 DEF EditRows, Places, Maybe
  <2> HIDE DEF e
  <2>4. Local(e)
    <3>1. "find" \in Allowed("activate")
      BY DEF Allowed
    <3> QED
      BY <1>1, <1>2, <1>4, <2>2, <2>3, <3>1 DEF Local, Knows
  <2> QED
    BY <1>1, <2>1, <2>3, <2>4, AdvanceKeeps
<1> QED
  BY <1>3, <1>4 DEF ActivateRead

LEMMA ActivateFindKeeps == ASSUME RevisionsAssumption, Inv, NEW k \in Editors, ActivateFind(k) PROVE Inv'
<1>1. /\ edit[k].pc = "find" /\ edit[k].ask.op = "activate" /\ Same
      /\ edit' = [edit EXCEPT ![k].seen = Len(revisions), ![k].pc = "lock"]
  BY DEF ActivateFind, At
<1>2. Local(edit[k]) /\ edit[k] \in EditRows
  BY <1>1, AtFacts
<1> DEFINE e == [edit[k] EXCEPT !.seen = Len(revisions), !.pc = "lock"]
<1>3. edit' = [edit EXCEPT ![k] = e]
  BY <1>1 DEF Inv, TypeOK
<1>4. Len(revisions) \in Nat
  BY RevisionsRow DEF Inv
<1>5. e \in EditRows /\ e.pc = "lock" /\ e.seen = Len(revisions) /\ e.draft = edit[k].draft
      /\ e.ask = edit[k].ask /\ e.raced = edit[k].raced
  BY <1>2, <1>4 DEF EditRows, Places
<1> HIDE DEF e
<1>6. Local(e)
  <2>1. "lock" \in Allowed("activate")
    BY DEF Allowed
  <2> QED
    BY <1>1, <1>2, <1>5, <2>1 DEF Local, Knows
<1> QED
  BY <1>1, <1>3, <1>5, <1>6, AdvanceKeeps

LEMMA ActivateLockKeeps == ASSUME RevisionsAssumption, Inv, NEW k \in Editors, ActivateLock(k) PROVE Inv'
<1>1. /\ edit[k].pc = "lock" /\ edit[k].ask.op = "activate" /\ Same
      /\ RevisionsFree(k) /\ Go(k, "restore")
  BY DEF ActivateLock, At
<1>2. Local(edit[k]) /\ edit[k] \in EditRows
  BY <1>1, AtFacts
<1> DEFINE e == [edit[k] EXCEPT !.pc = "restore"]
<1>3. e.pc = "restore" /\ e.ask = edit[k].ask /\ e.raced = edit[k].raced /\ e.draft = edit[k].draft
      /\ e.seen = edit[k].seen
  BY <1>2 DEF EditRows
<1>4. There => Knows(e)
  <2> HIDE DEF e
  <2> QED
    BY <1>1, <1>2, <1>3 DEF Local, Knows
<1>5. "restore" \in Allowed("activate") /\ "restore" \in Places /\ edit[k].pc # "idle" /\ edit[k].pc # "read"
  BY <1>1 DEF Allowed, Places
<1>6. "restore" \in Allowed(edit[k].ask.op)
  BY <1>1, <1>5
<1> QED
  BY <1>1, <1>4, <1>5, <1>6, GoKeeps

LEMMA PublishReadKeeps == ASSUME RevisionsAssumption, Inv, NEW k \in Editors, PublishRead(k) PROVE Inv'
<1>1. edit[k].pc = "read" /\ edit[k].ask.op = "publish" /\ Same
  BY DEF PublishRead, At
<1>2. Local(edit[k]) /\ edit[k] \in EditRows
  BY <1>1, AtFacts
<1>3. CASE Return(k)
  BY <1>1, <1>3, GoBack
<1>4. ASSUME NEW i \in Active,
             edit' = [edit EXCEPT ![k].draft = revisions[i].content, ![k].pc = "checker"]
      PROVE  Inv'
  <2> DEFINE e == [edit[k] EXCEPT !.draft = revisions[i].content, !.pc = "checker"]
  <2>1. edit' = [edit EXCEPT ![k] = e]
    BY <1>4 DEF Inv, TypeOK
  <2>2. revisions[i].content \in Contents
    BY RevisionsRow DEF Inv, RevisionRows, Active
  <2>3. e \in EditRows /\ e.pc = "checker" /\ e.draft = revisions[i].content /\ e.ask = edit[k].ask
    BY <1>2, <2>2 DEF EditRows, Places, Maybe
  <2> HIDE DEF e
  <2>4. Local(e)
    <3>1. "checker" \in Allowed("publish")
      BY DEF Allowed
    <3> QED
      BY <1>1, <1>2, <2>2, <2>3, <3>1 DEF Local, Knows
  <2> QED
    BY <1>1, <2>1, <2>3, <2>4, AdvanceKeeps
<1> QED
  BY <1>3, <1>4 DEF PublishRead

LEMMA PublishCheckerKeeps == ASSUME RevisionsAssumption, Inv, NEW k \in Editors, PublishChecker(k) PROVE Inv'
<1>1. edit[k].pc = "checker" /\ edit[k].ask.op = "publish" /\ Same
  BY DEF PublishChecker, At
<1>2. Local(edit[k]) /\ edit[k] \in EditRows
  BY <1>1, AtFacts
<1>3. PICK code \in IF checkers = {} THEN {NoCode} ELSE checkers :
        edit' = [edit EXCEPT ![k].stamp = IF code = NoCode THEN Nil ELSE code, ![k].pc = "publish"]
  BY DEF PublishChecker
<1> DEFINE stamp == IF code = NoCode THEN Nil ELSE code
<1> DEFINE e == [edit[k] EXCEPT !.stamp = stamp, !.pc = "publish"]
<1>4. edit' = [edit EXCEPT ![k] = e]
  BY <1>3 DEF Inv, TypeOK
<1>5. stamp \in Maybe(Codes)
  BY DEF Maybe, Checkers, Inv, TypeOK
<1> HIDE DEF stamp
<1>6. e \in EditRows /\ e.pc = "publish" /\ e.draft = edit[k].draft /\ e.ask = edit[k].ask
      /\ e.raced = edit[k].raced
  BY <1>2, <1>5 DEF EditRows, Places
<1> HIDE DEF e
<1>7. Local(e)
  <2>1. "publish" \in Allowed("publish")
    BY DEF Allowed
  <2> QED
    BY <1>1, <1>2, <1>6, <2>1 DEF Local, Knows
<1> QED
  BY <1>1, <1>4, <1>6, <1>7, AdvanceKeeps

-----------------------------------------------------------------------------
\* The steps that commit.  The other calls stay where they are, and are raced by their rivals.
LEMMA Overtakes ==
    ASSUME RevisionsAssumption, Inv, NEW k \in Editors, edit[k].pc # "idle", Commit(k)
    PROVE  /\ edit' \in [Editors -> EditRows] /\ edit'[k] = Idle
           /\ \A j \in Editors \ {k} :
                 /\ edit[j] = Idle => edit'[j] = Idle
                 /\ edit'[j].pc = edit[j].pc /\ edit'[j].ask = edit[j].ask
                 /\ edit'[j].draft = edit[j].draft /\ edit'[j].type = edit[j].type
                 /\ edit'[j].number = edit[j].number /\ edit'[j].seen = edit[j].seen
                 /\ edit[j] # Idle /\ edit'[j].raced = FALSE =>
                       edit[j].raced = FALSE /\ edit[k].ask.op \notin Rivals(edit[j].ask.op)
<1>1. edit' = [j \in Editors |->
        CASE j = k -> Idle
          [] j # k /\ edit[j] # Idle ->
               [edit[j] EXCEPT !.raced = @ \/ edit[k].ask.op \in Rivals(edit[j].ask.op)]
          [] OTHER -> Idle]
  BY DEF Commit
<1>2. edit'[k] = Idle
  BY <1>1
<1>3. \A j \in Editors \ {k} : edit[j] = Idle => edit'[j] = Idle
  BY <1>1
<1>4. ASSUME NEW j \in Editors \ {k}, edit[j] # Idle
      PROVE  /\ edit'[j] \in EditRows
             /\ edit'[j].pc = edit[j].pc /\ edit'[j].ask = edit[j].ask
             /\ edit'[j].draft = edit[j].draft /\ edit'[j].type = edit[j].type
             /\ edit'[j].number = edit[j].number /\ edit'[j].seen = edit[j].seen
             /\ edit'[j].raced = FALSE =>
                   edit[j].raced = FALSE /\ edit[k].ask.op \notin Rivals(edit[j].ask.op)
  <2>1. edit'[j] = [edit[j] EXCEPT !.raced = @ \/ edit[k].ask.op \in Rivals(edit[j].ask.op)]
    BY <1>1, <1>4
  <2>2. edit[j] \in EditRows
    BY EditFacts DEF Inv
  <2> QED
    BY <2>1, <2>2 DEF EditRows
<1>5. \A j \in Editors : edit'[j] \in EditRows
  BY <1>2, <1>3, <1>4, IdleRow
<1>6. edit' = [j \in Editors |-> edit'[j]]
  BY <1>1
<1> QED
  BY <1>2, <1>3, <1>4, <1>5, <1>6

LEMMA CommitKeeps ==
    ASSUME RevisionsAssumption, Inv, NEW k \in Editors, edit[k].pc # "idle", Commit(k),
           problem' \in {Nil, Gone} \cup ProblemRows, problem' # Nil, There' => There,
           revisions' \in Seq(RevisionRows), tangled' \in BOOLEAN, checkers' = checkers,
           \A j \in Editors \ {k} : edit[j] # Idle /\ There' => Knows(edit[j])'
    PROVE  TypeOK' /\ Locals' /\ OneHolder'
<1>1. TypeOK'
  BY Overtakes DEF Inv, TypeOK, ProblemRows, RevisionRows, EditRows
<1>2. Locals'
  <2> SUFFICES ASSUME NEW j \in Editors, edit'[j] # Idle PROVE Local(edit[j])'
    BY DEF Locals
  <2>1. j # k /\ edit[j] # Idle
    BY Overtakes
  <2>2. edit'[j].pc = edit[j].pc /\ edit'[j].ask = edit[j].ask /\ edit'[j].draft = edit[j].draft
    BY <2>1, Overtakes
  <2>3. Local(edit[j])
    BY <2>1 DEF Inv, Locals
  <2> QED
    BY <2>1, <2>2, <2>3 DEF Local
<1>3. OneHolder'
  <2> SUFFICES ASSUME NEW i \in Editors, NEW j \in Editors, HoldsRevisions(i)', HoldsRevisions(j)' PROVE i = j
    BY DEF OneHolder
  <2>1. i # k /\ j # k
    BY Overtakes, IdleRow DEF HoldsRevisions
  <2>2. HoldsRevisions(i) /\ HoldsRevisions(j)
    BY <2>1, Overtakes DEF HoldsRevisions
  <2> QED
    BY <2>2 DEF Inv, OneHolder
<1> QED
  BY <1>1, <1>2, <1>3

\* An update puts a new revision after the others, and none of them stays active.
LEMMA UpdateInsertKeeps == ASSUME RevisionsAssumption, Inv, NEW k \in Editors, UpdateInsert(k) PROVE Inv'
<1> DEFINE n == Len(revisions)
<1> DEFINE old == [i \in DOMAIN revisions |-> [revisions[i] EXCEPT !.active = FALSE]]
<1> DEFINE new == Revision(edit[k].number, edit[k].draft)
<1>1. /\ edit[k].pc = "insert" /\ edit[k].ask.op = "update" /\ There /\ edit[k].number <= MaxRevisions
      /\ problem' = [problem EXCEPT !.content = edit[k].draft, !.type = edit[k].type, !.stamp = Nil]
      /\ revisions' = Append(old, new)
      /\ tangled' = FALSE /\ Commit(k) /\ checkers' = checkers
  BY DEF UpdateInsert, At
<1>2. edit[k].draft \in Contents /\ Knows(edit[k]) /\ edit[k] \in EditRows
  BY <1>1, AtFacts DEF Local
<1>3. /\ edit[k].number > 0 /\ edit[k].number \in Nat
      /\ \A i \in DOMAIN revisions : revisions[i].number < edit[k].number
  BY <1>1, <1>2 DEF Knows, EditRows
<1>4. /\ new \in RevisionRows /\ new.active = TRUE /\ new.content = edit[k].draft
      /\ new.number = edit[k].number
  <2>1. edit[k].number \in Numbers
    BY <1>1, <1>3 DEF Numbers, RevisionsAssumption
  <2> QED
    BY <1>2, <2>1 DEF Revision, RevisionRows
<1>5. n \in Nat /\ DOMAIN revisions = 1..n /\ \A i \in 1..n : revisions[i] \in RevisionRows
  BY RevisionsRow DEF Inv
<1>6. old \in [1..n -> RevisionRows] /\ \A i \in 1..n : /\ old[i].number = revisions[i].number
                                                        /\ old[i].content = revisions[i].content
                                                        /\ old[i].active = FALSE
  BY <1>5 DEF RevisionRows
<1>7. old \in Seq(RevisionRows) /\ Len(old) = n
  <2>1. old \in Seq(RevisionRows)
    BY <1>5, <1>6, SeqDef
  <2>2. DOMAIN old = 1..n /\ DOMAIN old = 1..Len(old) /\ Len(old) \in Nat
    BY <1>6, <2>1, LenProperties
  <2> QED
    BY <1>5, <2>1, <2>2
<1> HIDE DEF old, new
<1>8. /\ revisions' \in Seq(RevisionRows) /\ Len(revisions') = n + 1 /\ DOMAIN revisions' = 1..(n + 1)
      /\ revisions'[n + 1] = new /\ \A i \in 1..n : revisions'[i] = old[i]
  BY <1>1, <1>4, <1>5, <1>7, AppendProperties, LenProperties
<1> HIDE DEF n
<1>9. /\ problem' \in ProblemRows /\ problem'.content = edit[k].draft /\ problem'.stamp = Nil
  BY <1>1, <1>2, ProblemRow DEF Inv, ProblemRows, EditRows, Maybe
<1>10. problem' # Nil /\ There'
  BY <1>9 DEF There, RevisionsAssumption
<1>11. Distinct'
  <2> SUFFICES ASSUME NEW i \in 1..(n + 1), NEW j \in 1..(n + 1),
                      revisions'[i].number = revisions'[j].number, i # j
               PROVE  FALSE
    BY <1>8 DEF Distinct
  <2>1. \A r \in 1..(n + 1) : r \in 1..n \/ r = n + 1
    BY <1>5
  <2>2. \A r \in 1..n : revisions'[r].number = revisions[r].number
    BY <1>6, <1>8
  <2>3. revisions'[n + 1].number = edit[k].number
    BY <1>4, <1>8
  <2>4. \A r \in 1..n : revisions[r].number < edit[k].number /\ revisions[r].number \in Nat
    BY <1>3, <1>5, RevisionsAssumption DEF RevisionRows, Numbers
  <2>5. CASE i \in 1..n /\ j \in 1..n
    BY <1>5, <2>2, <2>5 DEF Inv, Distinct
  <2>6. CASE i = n + 1 /\ j \in 1..n
    BY <1>3, <2>2, <2>3, <2>4, <2>6
  <2>7. CASE j = n + 1 /\ i \in 1..n
    BY <1>3, <2>2, <2>3, <2>4, <2>7
  <2> QED
    BY <2>1, <2>5, <2>6, <2>7
<1>12. (~There => revisions = <<>>)'
  BY <1>10
<1>13. \A j \in Editors \ {k} : edit[j] # Idle /\ There' => Knows(edit[j])'
  <2> SUFFICES ASSUME NEW j \in Editors \ {k}, edit[j] # Idle PROVE Knows(edit[j])'
    OBVIOUS
  <2>1. edit[j].ask \in Requests /\ edit[j].pc \in Allowed(edit[j].ask.op) /\ Knows(edit[j])
    BY <1>1 DEF Inv, Locals, Local
  <2>2. edit[k].ask.op \in Rivals(edit[j].ask.op)
    BY <1>1, <2>1, AskTypes DEF Rivals
  <2>3. edit'[j].raced # FALSE /\ edit'[j].pc = edit[j].pc /\ edit'[j].ask = edit[j].ask
    BY <1>1, <2>2, Overtakes
  <2>4. edit[j].pc # "insert"
    BY <1>1 DEF Inv, OneHolder, HoldsRevisions
  <2>5. edit[j].pc \in {"find", "lock", "restore"} =>
           \E i \in DOMAIN revisions' : revisions'[i].number = edit[j].ask.number
    <3> SUFFICES ASSUME edit[j].pc \in {"find", "lock", "restore"}
                 PROVE  \E i \in DOMAIN revisions' : revisions'[i].number = edit[j].ask.number
      OBVIOUS
    <3>1. PICK i \in 1..n : revisions[i].number = edit[j].ask.number
      BY <1>5, <2>1 DEF Knows
    <3>2. i \in 1..(n + 1) /\ revisions'[i].number = revisions[i].number
      BY <1>5, <1>6, <1>8
    <3> QED
      BY <1>8, <3>1, <3>2
  <2> QED
    BY <2>3, <2>4, <2>5 DEF Knows
<1>14. LiveIsActive'
  <2>1. n + 1 \in DOMAIN revisions' /\ revisions'[n + 1] = new
    BY <1>5, <1>8
  <2>2. Active' = {n + 1}
    <3>1. \A i \in 1..(n + 1) : revisions'[i].active <=> i = n + 1
      <4> SUFFICES ASSUME NEW i \in 1..(n + 1) PROVE revisions'[i].active <=> i = n + 1
        OBVIOUS
      <4>1. CASE i \in 1..n
        BY <1>5, <1>6, <1>8, <4>1
      <4>2. CASE i = n + 1
        BY <1>4, <1>8, <4>2
      <4> QED
        BY <1>5, <4>1, <4>2
    <3> QED
      BY <1>5, <1>8, <3>1 DEF Active
  <2>3. problem'.content = revisions'[n + 1].content /\ problem'.stamp = Nil
    BY <1>4, <1>9, <2>1
  <2> QED
    BY <2>2, <2>3 DEF LiveIsActive, Or
<1>15. TypeOK' /\ Locals' /\ OneHolder'
  <2>1. tangled' \in BOOLEAN /\ problem' \in {Nil, Gone} \cup ProblemRows /\ edit[k].pc # "idle"
    BY <1>1, <1>9
  <2> QED
    BY <1>1, <1>8, <1>10, <1>13, <2>1, CommitKeeps
<1> QED
  BY <1>11, <1>12, <1>14, <1>15 DEF Inv

\* An activation keeps numbers and contents; if no update has overlapped it, only the revision
\* of its request is active.
LEMMA ActivateRestoreKeeps == ASSUME RevisionsAssumption, Inv, NEW k \in Editors, ActivateRestore(k) PROVE Inv'
<1>1. /\ edit[k].pc = "restore" /\ edit[k].ask.op = "activate" /\ edit[k].pc # "idle"
      /\ problem' = IF There THEN [problem EXCEPT !.content = edit[k].draft, !.stamp = Nil] ELSE problem
      /\ revisions' = [i \in DOMAIN revisions |-> [revisions[i] EXCEPT !.active = Chosen(k, i)]]
      /\ tangled' = edit[k].raced /\ Commit(k) /\ checkers' = checkers
  BY DEF ActivateRestore, At
<1> DEFINE n == Len(revisions)
<1>2. edit[k].draft \in Contents /\ (There => Knows(edit[k])) /\ edit[k] \in EditRows /\ problem # Nil
  BY <1>1, AtFacts DEF Local
<1>3. n \in Nat /\ DOMAIN revisions = 1..n /\ \A i \in 1..n : revisions[i] \in RevisionRows
  BY RevisionsRow DEF Inv
<1>4. \A i \in 1..n : Chosen(k, i) \in BOOLEAN
  BY <1>3 DEF Chosen, RevisionRows
<1>5. revisions' \in [1..n -> RevisionRows]
      /\ \A i \in 1..n : /\ revisions'[i].number = revisions[i].number
                         /\ revisions'[i].content = revisions[i].content
                         /\ revisions'[i].active = Chosen(k, i)
  <2> SUFFICES ASSUME NEW i \in 1..n
               PROVE  /\ [revisions[i] EXCEPT !.active = Chosen(k, i)] \in RevisionRows
                      /\ [revisions[i] EXCEPT !.active = Chosen(k, i)].number = revisions[i].number
                      /\ [revisions[i] EXCEPT !.active = Chosen(k, i)].content = revisions[i].content
                      /\ [revisions[i] EXCEPT !.active = Chosen(k, i)].active = Chosen(k, i)
    BY <1>1, <1>3
  <2> QED
    BY <1>3, <1>4 DEF RevisionRows
<1>6. revisions' \in Seq(RevisionRows) /\ Len(revisions') = n /\ DOMAIN revisions' = 1..n
  <2>1. revisions' \in Seq(RevisionRows)
    BY <1>3, <1>5, SeqDef
  <2>2. DOMAIN revisions' = 1..n /\ DOMAIN revisions' = 1..Len(revisions') /\ Len(revisions') \in Nat
    BY <1>5, <2>1, LenProperties
  <2> QED
    BY <1>3, <2>1, <2>2
<1>7. n = 0 => revisions' = <<>>
  BY <1>6, EmptySeq
<1>8. revisions = <<>> => n = 0
  BY EmptySeq
<1> HIDE DEF n
<1>9. There => /\ problem' \in ProblemRows /\ problem'.content = edit[k].draft /\ problem'.stamp = Nil
               /\ problem' # Nil
  <2> SUFFICES ASSUME There
               PROVE  /\ problem' \in ProblemRows /\ problem'.content = edit[k].draft
                      /\ problem'.stamp = Nil
    BY DEF RevisionsAssumption
  <2> QED
    BY <1>1, <1>2, ProblemRow DEF Inv, ProblemRows, Maybe
<1>10. /\ ~There => problem' = problem
       /\ problem' \in {Nil, Gone} \cup ProblemRows /\ problem' # Nil /\ (There' <=> There)
  BY <1>1, <1>2, <1>9 DEF Inv, TypeOK, There, RevisionsAssumption
<1>11. Distinct'
  BY <1>3, <1>5, <1>6 DEF Inv, Distinct
<1>12. (~There => revisions = <<>>)'
  BY <1>7, <1>8, <1>10 DEF Inv
<1>13. \A j \in Editors \ {k} : edit[j] # Idle /\ There' => Knows(edit[j])'
  <2> SUFFICES ASSUME NEW j \in Editors \ {k}, edit[j] # Idle, There' PROVE Knows(edit[j])'
    OBVIOUS
  <2>1. edit[j].ask \in Requests /\ edit[j].pc \in Allowed(edit[j].ask.op) /\ Knows(edit[j])
    BY <1>10 DEF Inv, Locals, Local
  <2>2. edit[j].pc \in {"write", "deactivate", "number", "insert", "checker", "publish"} =>
            edit[k].ask.op \in Rivals(edit[j].ask.op)
    BY <1>1, <2>1, AskTypes, StepOps DEF Rivals
  <2>3. /\ edit'[j].pc = edit[j].pc /\ edit'[j].ask = edit[j].ask /\ edit'[j].draft = edit[j].draft
        /\ edit'[j].seen = edit[j].seen
        /\ edit'[j].raced = FALSE =>
              edit[j].raced = FALSE /\ edit[k].ask.op \notin Rivals(edit[j].ask.op)
    BY <1>1, Overtakes
  <2>4. edit[j].pc # "insert"
    BY <1>1 DEF Inv, OneHolder, HoldsRevisions
  <2>5. edit[j].pc \in {"find", "lock", "restore"} =>
           \E i \in DOMAIN revisions' :
              /\ revisions'[i].number = edit[j].ask.number
              /\ edit[j].raced = FALSE => revisions'[i].content = edit[j].draft
    BY <1>3, <1>5, <1>6, <2>1 DEF Knows
  <2>6. edit[j].pc \in {"lock", "restore"} /\ edit[j].raced = FALSE => edit[j].seen = Len(revisions')
    BY <1>6, <2>1 DEF Knows, n
  <2> QED
    BY <2>2, <2>3, <2>4, <2>5, <2>6 DEF Knows
<1>14. LiveIsActive'
  <2> SUFFICES ASSUME There PROVE LiveIsActive'
    BY <1>10 DEF LiveIsActive
  <2>1. PICK i \in 1..n : /\ revisions[i].number = edit[k].ask.number
                          /\ edit[k].raced = FALSE => revisions[i].content = edit[k].draft
    BY <1>1, <1>2, <1>3 DEF Knows
  <2>2. i \in Active'
    BY <1>5, <1>6, <2>1 DEF Active, Chosen
  <2>3. ASSUME tangled' = FALSE
        PROVE  Active' = {i} /\ problem'.content = revisions'[i].content /\ problem'.stamp = Nil
    <3>1. edit[k].raced = FALSE
      BY <1>1, <2>3
    <3>2. edit[k].seen = n
      BY <1>1, <1>2, <3>1 DEF Knows, n
    <3>3. \A j \in 1..n : Chosen(k, j) => j = i
      BY <1>3, <2>1, <3>2 DEF Chosen, Inv, Distinct
    <3>4. \A j \in Active' : j = i
      BY <1>5, <1>6, <3>3 DEF Active
    <3>5. problem'.content = revisions'[i].content
      BY <1>5, <1>9, <2>1, <3>1
    <3> QED
      BY <1>9, <2>2, <3>4, <3>5
  <2>4. tangled' \in BOOLEAN
    BY <1>1, EditFacts DEF Inv
  <2> QED
    BY <2>2, <2>3, <2>4 DEF LiveIsActive, Or
<1>15. TypeOK' /\ Locals' /\ OneHolder'
  <2>1. tangled' \in BOOLEAN
    BY <1>1, EditFacts DEF Inv
  <2> QED
    BY <1>1, <1>6, <1>10, <1>13, <2>1, CommitKeeps
<1> QED
  BY <1>11, <1>12, <1>14, <1>15 DEF Inv

\* A publication shows what was the active revision when it read it.
LEMMA PublishRow ==
    ASSUME RevisionsAssumption, Inv, NEW k \in Editors, Publish(k), There
    PROVE  /\ problem' \in ProblemRows /\ problem'.content.text = edit[k].draft.text
           /\ problem'.content.checker = Or(edit[k].stamp, edit[k].draft.checker)
           /\ problem'.stamp = edit[k].stamp /\ problem' # Nil
<1>1. edit[k].pc = "publish" /\ edit[k].pc # "read"
  BY DEF Publish, At
<1>2. edit[k].draft \in Contents /\ edit[k].stamp \in Maybe(Codes)
  BY <1>1, AtFacts DEF Local, EditRows
<1>3. edit[k].draft.text \in Texts /\ edit[k].draft.checker \in Checkers
  BY <1>2 DEF Contents
<1> DEFINE checker == Or(edit[k].stamp, edit[k].draft.checker)
<1>4. checker \in Checkers
  BY <1>2, <1>3 DEF Or, Maybe, Checkers
<1>5. problem' = [problem EXCEPT !.content.text = edit[k].draft.text, !.content.checker = checker,
                                 !.published = TRUE, !.stamp = edit[k].stamp]
  BY DEF Publish
<1> HIDE DEF checker
<1>6. problem \in ProblemRows /\ problem.content \in Contents
  BY ProblemRow DEF Inv
<1>7. problem' \in ProblemRows
  BY <1>2, <1>3, <1>4, <1>5, <1>6 DEF ProblemRows, Contents
<1>8. problem'.content.text = edit[k].draft.text /\ problem'.content.checker = checker
      /\ problem'.stamp = edit[k].stamp
  BY <1>5, <1>6 DEF ProblemRows, Contents
<1> QED
  BY <1>7, <1>8 DEF RevisionsAssumption, checker

LEMMA PublishKeeps == ASSUME RevisionsAssumption, Inv, NEW k \in Editors, Publish(k) PROVE Inv'
<1>1. /\ edit[k].pc = "publish" /\ edit[k].ask.op = "publish" /\ edit[k].pc # "idle"
      /\ ~There => problem' = problem
      /\ tangled' = (tangled \/ edit[k].raced)
      /\ Commit(k) /\ revisions' = revisions /\ checkers' = checkers
  BY DEF Publish, At
<1>2. (There => Knows(edit[k])) /\ edit[k] \in EditRows /\ problem # Nil
  BY <1>1, AtFacts DEF Local
<1>3. problem' \in {Nil, Gone} \cup ProblemRows /\ problem' # Nil /\ (There' <=> There)
  BY <1>1, <1>2, PublishRow DEF Inv, TypeOK, There, RevisionsAssumption
<1>4. tangled' \in BOOLEAN /\ (tangled' = FALSE => tangled = FALSE /\ edit[k].raced = FALSE)
  BY <1>1, EditFacts DEF Inv, TypeOK
<1>5. Distinct' /\ (~There => revisions = <<>>)' /\ Active' = Active
  BY <1>1, <1>3 DEF Inv, Distinct, Active
<1>6. \A j \in Editors \ {k} : edit[j] # Idle /\ There' => Knows(edit[j])'
  <2> SUFFICES ASSUME NEW j \in Editors \ {k}, edit[j] # Idle, There' PROVE Knows(edit[j])'
    OBVIOUS
  <2>1. edit[j].ask \in Requests /\ edit[j].pc \in Allowed(edit[j].ask.op) /\ Knows(edit[j])
    BY <1>3 DEF Inv, Locals, Local
  <2>2. edit[j].pc \in {"write", "deactivate", "number", "insert"} =>
            edit[k].ask.op \in Rivals(edit[j].ask.op)
    BY <1>1, <2>1, AskTypes, StepOps DEF Rivals
  <2>3. /\ edit'[j].pc = edit[j].pc /\ edit'[j].ask = edit[j].ask /\ edit'[j].draft = edit[j].draft
        /\ edit'[j].seen = edit[j].seen /\ edit'[j].number = edit[j].number
        /\ edit'[j].raced = FALSE =>
              edit[j].raced = FALSE /\ edit[k].ask.op \notin Rivals(edit[j].ask.op)
    BY <1>1, Overtakes
  <2> QED
    BY <1>1, <1>5, <2>1, <2>2, <2>3 DEF Knows
<1>7. LiveIsActive'
  <2> SUFFICES ASSUME There, revisions # <<>>
               PROVE  \E i \in Active : tangled' = FALSE =>
                         /\ Active = {i}
                         /\ problem'.content.text = revisions[i].content.text
                         /\ problem'.content.checker = Or(problem'.stamp, revisions[i].content.checker)
    BY <1>1, <1>3, <1>5 DEF LiveIsActive
  <2>1. PICK i \in Active : ~tangled => Active = {i}
    BY DEF Inv, LiveIsActive
  <2>2. CASE tangled' = FALSE
    <3>1. Active = {i}
      BY <1>4, <2>1, <2>2
    <3>2. revisions[i].content = edit[k].draft
      BY <1>1, <1>2, <1>4, <2>2, <3>1 DEF Knows
    <3> QED
      BY <3>1, <3>2, PublishRow
  <2> QED
    BY <2>1, <2>2
<1>8. revisions' \in Seq(RevisionRows)
  BY <1>1, RevisionsRow DEF Inv
<1>9. TypeOK' /\ Locals' /\ OneHolder'
  BY <1>1, <1>3, <1>4, <1>6, <1>8, CommitKeeps
<1> QED
  BY <1>5, <1>7, <1>9 DEF Inv

-----------------------------------------------------------------------------
\* The statements that run on their own.
LEMMA CreateKeeps ==
    ASSUME RevisionsAssumption, Inv, NEW c \in Contents, NEW type \in Types, NEW with \in BOOLEAN,
           Create(c, type, with)
    PROVE  Inv'
<1>1. /\ problem = Nil /\ problem' = Row(c, type)
      /\ revisions' = IF with THEN <<Revision(1, c)>> ELSE <<>>
      /\ edit' = edit /\ tangled' = tangled /\ checkers' = checkers
  BY DEF Create
<1>2. problem' \in ProblemRows /\ problem'.content = c /\ problem'.stamp = Nil
  BY <1>1 DEF Row, ProblemRows, Maybe
<1>3. Revision(1, c) \in RevisionRows /\ Revision(1, c).active = TRUE /\ Revision(1, c).content = c
  BY DEF Revision, RevisionRows, Numbers, RevisionsAssumption
<1>4. revisions' \in Seq(RevisionRows)
  BY <1>1, <1>3, EmptySeq
<1>5. TypeOK'
  BY <1>1, <1>2, <1>4 DEF Inv, TypeOK, RevisionRows
<1>6. Locals' /\ OneHolder'
  BY <1>1 DEF Inv, Locals, Local, OneHolder, HoldsRevisions
<1>7. There'
  BY <1>2 DEF There, RevisionsAssumption
<1>8. CASE with
  <2>1. revisions' = <<Revision(1, c)>> /\ DOMAIN revisions' = {1} /\ revisions'[1] = Revision(1, c)
    BY <1>1, <1>8
  <2>2. Active' = {1}
    BY <1>3, <2>1 DEF Active
  <2>3. LiveIsActive' /\ Distinct'
    BY <1>2, <1>3, <2>1, <2>2 DEF LiveIsActive, Distinct, Or
  <2> QED
    BY <1>5, <1>6, <1>7, <2>3 DEF Inv
<1>9. CASE ~with
  <2>1. revisions' = <<>>
    BY <1>1, <1>9
  <2> QED
    BY <1>5, <1>6, <2>1 DEF Inv, Distinct, LiveIsActive
<1> QED
  BY <1>8, <1>9

\* The content of the live row and the revisions stay.
LEMMA ContentStays ==
    ASSUME RevisionsAssumption, Inv, revisions' = revisions, edit' = edit, tangled' = tangled,
           checkers' \subseteq Checkers, problem' \in {Nil, Gone} \cup ProblemRows,
           (problem' = Nil) <=> (problem = Nil), There' <=> There,
           There => /\ problem'.content = problem.content /\ problem'.type = problem.type
                    /\ problem'.stamp = problem.stamp
    PROVE  Inv'
<1>1. TypeOK' /\ OneHolder' /\ Distinct' /\ (~There => revisions = <<>>)' /\ Active' = Active
  BY DEF Inv, TypeOK, OneHolder, HoldsRevisions, Distinct, Active
<1>2. Locals'
  <2> SUFFICES ASSUME NEW j \in Editors, edit[j] # Idle PROVE Local(edit[j])'
    BY DEF Locals
  <2>1. Local(edit[j])
    BY DEF Inv, Locals
  <2> QED
    BY <1>1, <2>1 DEF Local, Knows
<1>3. LiveIsActive'
  BY <1>1 DEF Inv, LiveIsActive
<1> QED
  BY <1>1, <1>2, <1>3 DEF Inv

LEMMA UnpublishKeeps == ASSUME RevisionsAssumption, Inv, Unpublish PROVE Inv'
<1>1. /\ There /\ problem' = [problem EXCEPT !.published = FALSE]
      /\ revisions' = revisions /\ edit' = edit /\ tangled' = tangled /\ checkers' = checkers
  BY DEF Unpublish
<1>2. /\ problem' \in ProblemRows /\ problem'.content = problem.content /\ problem'.type = problem.type
      /\ problem'.stamp = problem.stamp
  BY <1>1, ProblemRow DEF Inv, ProblemRows
<1>3. problem' # Nil /\ problem # Nil /\ There'
  BY <1>1, <1>2 DEF There, RevisionsAssumption
<1>4. checkers' \subseteq Checkers
  BY <1>1 DEF Inv, TypeOK
<1> QED
  BY <1>1, <1>2, <1>3, <1>4, ContentStays

LEMMA EnvironmentKeeps == ASSUME RevisionsAssumption, Inv, Environment PROVE Inv'
<1>1. problem' = problem /\ There' = There /\ checkers' \subseteq Checkers
  BY DEF Environment, There
<1> QED
  BY <1>1, ContentStays DEF Environment, Inv, TypeOK

LEMMA DeleteKeeps == ASSUME RevisionsAssumption, Inv, Delete PROVE Inv'
<1>1. /\ problem' = Gone /\ revisions' = <<>> /\ checkers' = {}
      /\ edit' = edit /\ tangled' = tangled
  BY DEF Delete
<1>2. revisions' \in Seq(RevisionRows) /\ ~There' /\ problem' # Nil
  BY <1>1, EmptySeq DEF There, RevisionsAssumption
<1>3. TypeOK' /\ OneHolder' /\ Distinct' /\ LiveIsActive'
  BY <1>1, <1>2 DEF Inv, TypeOK, OneHolder, HoldsRevisions, Distinct, LiveIsActive, RevisionRows
<1>4. Locals'
  BY <1>1, <1>2 DEF Inv, Locals, Local
<1> QED
  BY <1>1, <1>3, <1>4 DEF Inv

LEMMA StutterKeeps == ASSUME RevisionsAssumption, Inv, UNCHANGED vars PROVE Inv'
<1>1. There' = There
  BY DEF vars, There
<1> QED
  BY <1>1, ContentStays DEF vars, Inv, TypeOK

LEMMA NextKeeps == ASSUME RevisionsAssumption, Inv, [Next]_vars PROVE Inv'
<1>1. ASSUME NEW k \in Editors, Begin(k) \/ Step(k) PROVE Inv'
  BY <1>1, BeginKeeps, FailKeeps, UpdateReadKeeps, UpdateWriteKeeps, UpdateDeactivateKeeps,
     UpdateNumberKeeps, UpdateInsertKeeps, ActivateReadKeeps, ActivateFindKeeps, ActivateLockKeeps,
     ActivateRestoreKeeps, PublishReadKeeps, PublishCheckerKeeps, PublishKeeps
     DEF Step
<1> QED
  BY <1>1, CreateKeeps, UnpublishKeeps, DeleteKeeps, EnvironmentKeeps, StutterKeeps DEF Next

\* The inductive invariant: who holds the rows of the revisions, and what a call still knows of
\* them and of the problem.
THEOREM RevisionsInvariant == ASSUME RevisionsAssumption PROVE Spec => []Inv
<1>1. Init => Inv
  BY InitInv
<1>2. Inv /\ [Next]_vars => Inv'
  BY NextKeeps
<1> QED
  BY <1>1, <1>2, PTL DEF Spec

\* Every row and every call stays within its type, for any requests and editors.
THEOREM RevisionsTypes == ASSUME RevisionsAssumption PROVE Spec => []TypeOK
<1>1. Inv => TypeOK
  BY DEF Inv
<1> QED
  BY <1>1, RevisionsInvariant, PTL

\* "AdminActivateRevision sets a specific revision as active and updates the problem"
\* (admin_problems.go:576): a problem with revisions always has an active one; there is one only,
\* and the live row shows it, unless the last activation or publication was overlapped.
THEOREM LiveIsActiveHolds == ASSUME RevisionsAssumption PROVE Spec => []LiveIsActive
<1>1. Inv => LiveIsActive
  BY DEF Inv
<1> QED
  BY <1>1, RevisionsInvariant, PTL

\* An update that nothing overlapped changes the fields of its request and no others
\* (admin_problems.go:430).
THEOREM EditsKeptHolds == ASSUME RevisionsAssumption PROVE Spec => EditsKept
<1> DEFINE kept(k) ==
      At(k, "update", "insert") /\ revisions' # revisions /\ edit'[k] = Idle /\ ~edit[k].raced =>
         /\ problem'.content.text = Or(edit[k].ask.text, problem.content.text)
         /\ problem'.content.checker = Or(edit[k].ask.checker, problem.content.checker)
         /\ problem'.type = Or(edit[k].ask.type, problem.type)
<1>1. ASSUME Inv, [Next]_vars, NEW k \in Editors, At(k, "update", "insert"), revisions' # revisions,
             edit'[k] = Idle, edit[k].raced = FALSE
      PROVE  UpdateInsert(k)
  <2>1. edit[k] # Idle /\ edit[k].pc = "insert"
    BY <1>1, AtFacts DEF At
  <2>2. edit' # edit
    BY <1>1, <2>1
  <2>3. ASSUME NEW j \in Editors, UpdateInsert(j) \/ ActivateRestore(j) PROVE j = k
    <3>1. HoldsRevisions(j) /\ HoldsRevisions(k)
      BY <2>1, <2>3 DEF UpdateInsert, ActivateRestore, At, HoldsRevisions
    <3> QED
      BY <1>1, <3>1 DEF Inv, OneHolder
  <2>4. ~ActivateRestore(k)
    BY <2>1 DEF ActivateRestore, At
  <2>5. ASSUME NEW j \in Editors, Begin(j) \/ Step(j), ~UpdateInsert(j), ~ActivateRestore(j)
        PROVE  revisions' = revisions
    BY <2>5 DEF Begin, Step, Fail, UpdateRead, UpdateWrite, UpdateDeactivate, UpdateNumber,
                ActivateRead, ActivateFind, ActivateLock, PublishRead, PublishChecker, Publish, Same
  <2> QED
    BY <1>1, <2>2, <2>3, <2>4, <2>5 DEF Next, Create, Unpublish, Delete, Environment, vars, Step
<1>2. ASSUME Inv, NEW k \in Editors, UpdateInsert(k), edit[k].raced = FALSE
      PROVE  /\ problem'.content.text = Or(edit[k].ask.text, problem.content.text)
             /\ problem'.content.checker = Or(edit[k].ask.checker, problem.content.checker)
             /\ problem'.type = Or(edit[k].ask.type, problem.type)
  <2>1. /\ edit[k].pc = "insert" /\ There
        /\ problem' = [problem EXCEPT !.content = edit[k].draft, !.type = edit[k].type, !.stamp = Nil]
    BY <1>2 DEF UpdateInsert, At
  <2>2. edit[k].draft = Applied(edit[k].ask, problem.content)
        /\ edit[k].type = Or(edit[k].ask.type, problem.type)
    BY <1>2, <2>1, AtFacts DEF Local, Knows
  <2>3. problem'.content = edit[k].draft /\ problem'.type = edit[k].type
    BY <1>2, <2>1, ProblemRow DEF Inv, ProblemRows
  <2> QED
    BY <2>2, <2>3 DEF Applied
<1>3. Inv /\ [Next]_vars => [\A k \in Editors : kept(k)]_vars
  <2> SUFFICES ASSUME Inv, [Next]_vars, NEW k \in Editors PROVE kept(k)
    OBVIOUS
  <2>1. edit[k].raced \in BOOLEAN
    BY EditFacts DEF Inv
  <2> QED
    BY <1>1, <1>2, <2>1
<1> QED
  BY <1>3, RevisionsInvariant, PTL DEF Spec, EditsKept
=============================================================================
