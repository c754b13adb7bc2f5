--------------------------- MODULE LifecycleProofs ---------------------------
(* Proofs about ContestLifecycle, for any number of calls and problems: which *)
(* overlaps can reopen, delete, empty or finalize a contest too early.        *)
EXTENDS ContestLifecycle, TLAPS

Statuses == {"none", "draft", "upcoming", "finalized", "deleted"}
ContestRows ==
    [status : Statuses, rated : BOOLEAN, grouped : BOOLEAN,
     start : Times \cup {0}, end : Times \cup {0},
     ratings : BOOLEAN, applied : BOOLEAN]
CallRows ==
    [pc : Steps, ask : Maybe(Asks), flag : BOOLEAN, order : 0..MaxOrder, raced : BOOLEAN]

\* The steps of the handler of each operation.
Finals == {"finalize", "public", "rerun"}
Rating == {"rate", "applied", "commit", "mark"}
Allowed(op) ==
    CASE op = "publish" -> {"authorize", "group", "status", "count", "publish"}
      [] op = "delete" -> {"status", "delete"}
      [] op = "add" -> {"authorize", "max", "insert"}
      [] op \in {"order", "remove"} -> {"authorize", "change"}
      [] op = "update" -> {"read", "authorize", "write"}
      [] op \in Finals -> {"read"} \cup Rating

\* What a call that no rival overlapped knows of the contest, by the step it is at.
Knows(c) ==
    /\ c.pc \in {"count", "publish", "delete"} => contest.status \in {"draft", "deleted"}
    /\ c.pc = "publish" => Assigned # {} \/ contest.status = "deleted"
    /\ c.pc \in Rating /\ c.flag = TRUE => clock >= contest.start
    /\ c.pc = "mark" => contest.rated = FALSE \/ contest.applied = TRUE

\* What is so of any call in progress.
Local(c) ==
    /\ c.ask \in Asks /\ c.pc \in Allowed(c.ask.op)
    /\ contest.status # "none"
    /\ c.pc \in Rating => contest.status # "draft" /\ (c.ask.op = "rerun" \/ c.flag = TRUE)
    /\ c.pc \in {"applied", "mark"} => c.ask.op # "rerun"
    /\ c.raced = FALSE => Knows(c)

Locals == \A k \in Calls : call[k] # Idle => Local(call[k])

\* Of two calls in progress, the one that the other can leave behind is raced.
Pairs ==
    \A j, k \in Calls :
        j # k /\ call[j] # Idle /\ call[k] # Idle
        /\ call[j].ask.op \in Rivals(call[k].ask.op) => call[k].raced = TRUE

\* The contest alone.
Sound ==
    /\ contest.status = "none" <=> contest = None
    /\ contest.ratings = TRUE => contest.applied = TRUE

Inv == TypeOK /\ Sound /\ Locals /\ Pairs

-----------------------------------------------------------------------------
\* The requests.
LEMMA AskTypes ==
    ASSUME NEW a \in Asks
    PROVE  /\ a.op \in {"publish", "delete", "add", "order", "remove", "update"} \cup Finals
           /\ a.op \in {"publish", "remove", "add", "order", "update"} => a.privileged \in BOOLEAN
           /\ a.op \in {"add", "order"} => a.order \in 0..MaxOrder
           /\ a.op = "update" => /\ a.rated \in Maybe(BOOLEAN) /\ a.group \in {"keep", "set", "clear"}
                                 /\ a.start \in Maybe(Times) /\ a.end \in Maybe(Times)
<1>1. a \in AllAsks
  BY LifecycleAssumption
<1>2. CASE a \in [op : {"delete", "finalize", "public", "rerun"}]
  BY <1>2 DEF Finals
<1>3. CASE a \in [op : {"publish", "remove"}, privileged : BOOLEAN]
  BY <1>3
<1>4. CASE a \in [op : {"add", "order"}, privileged : BOOLEAN, order : 0..MaxOrder]
  BY <1>4
<1>5. CASE a \in [op : {"update"}, privileged : BOOLEAN, rated : Maybe(BOOLEAN),
                  group : {"keep", "set", "clear"}, start : Maybe(Times), end : Maybe(Times)]
  BY <1>5
<1> QED
  BY <1>1, <1>2, <1>3, <1>4, <1>5 DEF AllAsks

\* A call that is not idle has a request.
LEMMA Busy ==
    ASSUME TypeOK, NEW k \in Calls, call[k].pc # "idle"
    PROVE  call[k] # Idle
BY DEF Idle

LEMMA CallFacts ==
    ASSUME TypeOK, NEW k \in Calls
    PROVE  /\ call[k] \in CallRows /\ call[k].pc \in Steps /\ call[k].raced \in BOOLEAN
           /\ call[k].flag \in BOOLEAN /\ call[k].order \in 0..MaxOrder
BY DEF TypeOK, CallRows

LEMMA IdleRow == Idle \in CallRows
BY LifecycleAssumption DEF Idle, CallRows, Steps, Maybe

LEMMA NilApart == Nil \notin Asks /\ \A n \in Nat : n # Nil
BY LifecycleAssumption

\* The steps that a request goes through belong to it.
LEMMA FirstSteps ==
    ASSUME NEW a \in Asks
    PROVE  /\ FirstStep(a) \in Allowed(a.op) \cap Steps
           /\ FirstStep(a) \notin Rating \cup {"count", "publish", "delete", "idle"}
BY AskTypes DEF FirstStep, Permitted, Allowed, Steps, Finals, Rating

LEMMA PermittedSteps ==
    ASSUME NEW a \in Asks, a.op \in {"publish", "add", "order", "remove", "update"}
    PROVE  /\ Permitted(a) \in Allowed(a.op) \cap Steps
           /\ Permitted(a) \notin Rating \cup {"count", "publish", "delete", "idle"}
BY AskTypes DEF Permitted, Allowed, Steps, Finals, Rating

\* Which request a call has, by the step it is at.
LEMMA StepOps ==
    ASSUME NEW op, op \in {"publish", "delete", "add", "order", "remove", "update"} \cup Finals,
           NEW p, p \in Allowed(op)
    PROVE  /\ p \in Rating => op \in Finals
           /\ p \in {"count", "publish", "group"} => op = "publish"
           /\ p = "delete" => op = "delete"
           /\ p = "status" => op \in {"publish", "delete"}
           /\ p = "change" => op \in {"order", "remove"}
           /\ p = "authorize" => op \in {"publish", "add", "order", "remove", "update"}
BY DEF Allowed, Finals, Rating

-----------------------------------------------------------------------------
\* A call goes on to another step, the contest stays.
LEMMA AdvanceKeeps ==
    ASSUME Inv, NEW k \in Calls, call[k] # Idle, Same,
           NEW c \in CallRows, c.ask = call[k].ask, c.raced = call[k].raced, Local(c),
           call' = [call EXCEPT ![k] = c]
    PROVE  Inv'
<1>1. TypeOK'
  BY DEF Inv, TypeOK, Same, CallRows
<1>2. Sound'
  BY DEF Inv, Sound, Same, None
<1>3. \A d : Local(d) <=> Local(d)'
  BY DEF Local, Knows, Assigned, Same
<1>4. Locals'
  <2> SUFFICES ASSUME NEW j \in Calls, call'[j] # Idle PROVE Local(call'[j])
    BY <1>3 DEF Locals, Local, Knows, Assigned, Same
  <2>1. CASE j = k
    BY <2>1 DEF Inv, TypeOK
  <2>2. CASE j # k
    BY <2>2 DEF Inv, TypeOK, Locals
  <2> QED
    BY <2>1, <2>2
<1>5. \A j \in Calls : call'[j] # Idle =>
          call[j] # Idle /\ call'[j].ask = call[j].ask /\ call'[j].raced = call[j].raced
  BY DEF Inv, TypeOK
<1>6. Pairs'
  BY <1>5 DEF Inv, Pairs
<1> QED
  BY <1>1, <1>2, <1>4, <1>6 DEF Inv

\* A call returns, and the contest may have changed under the others.
LEMMA ReturnKeeps ==
    ASSUME Inv, NEW k \in Calls, Return(k), clock' = clock,
           contest' \in ContestRows, problems' \in [Rows -> Maybe(0..MaxOrder)], Sound',
           \A j \in Calls : j # k /\ call[j] # Idle => Local(call[j])'
    PROVE  Inv'
<1>1. call' = [call EXCEPT ![k] = Idle] /\ call'[k] = Idle
  BY DEF Inv, TypeOK, Return
<1>2. call' \in [Calls -> CallRows]
  BY <1>1, IdleRow DEF Inv, TypeOK, CallRows
<1>3. TypeOK'
  BY <1>2 DEF Inv, TypeOK, CallRows, ContestRows, Statuses
<1>4. \A j \in Calls : call'[j] # Idle => j # k /\ call'[j] = call[j]
  BY <1>1 DEF Inv, TypeOK
<1>5. Locals'
  BY <1>4 DEF Locals
<1>6. Pairs'
  BY <1>4 DEF Inv, Pairs
<1> QED
  BY <1>3, <1>5, <1>6 DEF Inv

LEMMA GoBack ==
    ASSUME Inv, NEW k \in Calls, Return(k), Same
    PROVE  Inv'
<1>1. \A j \in Calls : j # k /\ call[j] # Idle => Local(call[j])'
  <2> SUFFICES ASSUME NEW j \in Calls, j # k, call[j] # Idle PROVE Local(call[j])'
    OBVIOUS
  <2>1. call'[j] = call[j]
    BY DEF Inv, TypeOK, Return
  <2> QED
    BY <2>1 DEF Inv, Locals, Local, Knows, Assigned, Same
<1>2. Sound'
  BY DEF Inv, Sound, Same, None
<1> QED
  BY <1>1, <1>2, ReturnKeeps DEF Inv, TypeOK, Same, ContestRows, Statuses

\* Go(k, pc) is such a step.
LEMMA GoKeeps ==
    ASSUME Inv, NEW k \in Calls, call[k].pc # "idle", Same,
           NEW p \in Steps, p \in Allowed(call[k].ask.op), Go(k, p),
           p \in Rating => call[k].pc \in Rating,
           p \in {"applied", "mark"} => call[k].ask.op # "rerun",
           call[k].raced = FALSE => Knows([call[k] EXCEPT !.pc = p])
    PROVE  Inv'
<1> DEFINE c == [call[k] EXCEPT !.pc = p]
<1>1. call[k] # Idle /\ call[k] \in CallRows
  BY Busy, CallFacts DEF Inv
<1>2. c \in CallRows /\ c.pc = p /\ c.ask = call[k].ask /\ c.raced = call[k].raced /\ c.flag = call[k].flag
  BY <1>1 DEF CallRows
<1>3. call' = [call EXCEPT ![k] = c]
  BY DEF Go, Inv, TypeOK
<1>4. Local(call[k])
  BY <1>1 DEF Inv, Locals
<1>5. Local(c)
  BY <1>2, <1>4 DEF Local
<1> HIDE DEF c
<1> QED
  BY <1>1, <1>2, <1>3, <1>5, AdvanceKeeps

-----------------------------------------------------------------------------
LEMMA InitInv == Init => Inv
<1> SUFFICES ASSUME Init PROVE Inv
  OBVIOUS
<1>1. contest \in ContestRows
  BY DEF Init, None, ContestRows, Statuses
<1>2. call \in [Calls -> CallRows]
  BY IdleRow DEF Init
<1>3. TypeOK
  BY <1>1, <1>2, LifecycleAssumption DEF Init, TypeOK, ContestRows, CallRows, Statuses, Maybe
<1>4. Sound
  BY DEF Init, Sound, None
<1> QED
  BY <1>3, <1>4 DEF Init, Inv, Locals, Pairs

\* A call begins: it is raced if a rival is in progress, and it races those it is a rival of.
LEMMA BeginKeeps ==
    ASSUME Inv, NEW k \in Calls, Begin(k)
    PROVE  Inv'
<1>1. PICK a \in Asks :
        call' = [j \in Calls |->
              CASE j = k ->
                     [Idle EXCEPT !.pc = FirstStep(a), !.ask = a,
                                  !.raced = \E i \in Calls : /\ call[i] # Idle
                                                            /\ call[i].ask.op \in Rivals(a.op)]
                [] j # k /\ call[j] # Idle ->
                     [call[j] EXCEPT !.raced = @ \/ a.op \in Rivals(call[j].ask.op)]
                [] OTHER -> Idle]
  BY DEF Begin
<1> DEFINE met == \E i \in Calls : call[i] # Idle /\ call[i].ask.op \in Rivals(a.op)
<1> DEFINE own == [Idle EXCEPT !.pc = FirstStep(a), !.ask = a, !.raced = met]
<1> DEFINE other(j) == [call[j] EXCEPT !.raced = @ \/ a.op \in Rivals(call[j].ask.op)]
<1>2. call[k] = Idle /\ contest # None /\ Same
  BY DEF Begin
<1>3. call'[k] = own
  BY <1>1
<1>4. \A j \in Calls : j # k /\ call[j] # Idle => call'[j] = other(j)
  BY <1>1
<1>5. \A j \in Calls : j # k /\ call[j] = Idle => call'[j] = Idle
  BY <1>1
<1>6. own.pc = FirstStep(a) /\ own.ask = a /\ own \in CallRows /\ (own.raced = TRUE <=> met)
  BY FirstSteps, IdleRow DEF CallRows, Maybe
<1>7. \A j \in Calls : /\ other(j) \in CallRows
                       /\ other(j).pc = call[j].pc /\ other(j).ask = call[j].ask
                       /\ other(j).flag = call[j].flag
                       /\ (other(j).raced = TRUE <=>
                              call[j].raced = TRUE \/ a.op \in Rivals(call[j].ask.op))
  BY CallFacts DEF Inv, CallRows
<1> HIDE DEF own, other
<1>8. call' \in [Calls -> CallRows]
  <2>1. \A j \in Calls : call'[j] \in CallRows
    BY <1>3, <1>4, <1>5, <1>6, <1>7, IdleRow
  <2>2. call' = [j \in Calls |-> call'[j]]
    BY <1>1
  <2> QED
    BY <2>1, <2>2
<1>9. TypeOK'
  BY <1>2, <1>8 DEF Inv, TypeOK, Same, CallRows
<1>10. Sound'
  BY <1>2 DEF Inv, Sound, Same, None
<1>11. \A d : Local(d) <=> Local(d)'
  BY <1>2 DEF Local, Knows, Assigned, Same
<1>12. Locals'
  <2> SUFFICES ASSUME NEW j \in Calls, call'[j] # Idle PROVE Local(call'[j])
    BY <1>11, <1>2 DEF Locals, Local, Knows, Assigned, Same
  <2>1. CASE j = k
    <3>1. contest.status # "none"
      BY <1>2 DEF Inv, Sound
    <3> QED
      BY <2>1, <3>1, <1>3, <1>6, FirstSteps DEF Local, Knows, Rating
  <2>2. CASE j # k
    <3>1. call[j] # Idle /\ call'[j] = other(j)
      BY <2>2, <1>4, <1>5
    <3>2. Local(call[j])
      BY <3>1 DEF Inv, Locals
    <3>3. other(j).raced = FALSE => call[j].raced = FALSE
      BY <1>7, CallFacts DEF Inv, CallRows
    <3> QED
      BY <3>1, <3>2, <3>3, <1>7 DEF Local, Knows
  <2> QED
    BY <2>1, <2>2
<1>13. Pairs'
  <2> SUFFICES ASSUME NEW i \in Calls, NEW j \in Calls, i # j, call'[i] # Idle, call'[j] # Idle,
                      call'[i].ask.op \in Rivals(call'[j].ask.op)
               PROVE  call'[j].raced = TRUE
    BY DEF Pairs
  <2>1. CASE j = k
    <3>1. call[i] # Idle /\ call'[i].ask = call[i].ask
      BY <2>1, <1>4, <1>5, <1>7
    <3> QED
      BY <2>1, <3>1, <1>3, <1>6
  <2>2. CASE i = k
    <3>1. call[j] # Idle /\ call'[j] = other(j)
      BY <2>2, <1>4, <1>5
    <3> QED
      BY <2>2, <3>1, <1>3, <1>6, <1>7
  <2>3. CASE i # k /\ j # k
    <3>1. call[i] # Idle /\ call[j] # Idle /\ call'[i] = other(i) /\ call'[j] = other(j)
      BY <2>3, <1>4, <1>5
    <3> QED
      BY <3>1, <1>7 DEF Inv, Pairs
  <2> QED
    BY <2>1, <2>2, <2>3
<1> QED
  BY <1>9, <1>10, <1>12, <1>13 DEF Inv

-----------------------------------------------------------------------------
\* What a call at a step is.
LEMMA AtFacts ==
    ASSUME Inv, NEW k \in Calls, call[k].pc # "idle"
    PROVE  /\ call[k] # Idle /\ call[k].ask \in Asks /\ Local(call[k])
           /\ call[k].pc \in Allowed(call[k].ask.op)
           /\ call[k].ask.op \in {"publish", "delete", "add", "order", "remove", "update"} \cup Finals
BY Busy, AskTypes DEF Inv, Locals, Local

\* A rival that finishes leaves only raced calls behind.
LEMMA Behind ==
    ASSUME Inv, NEW k \in Calls, NEW j \in Calls, j # k, call[j] # Idle, call[k].pc # "idle",
           call[k].ask.op \in Rivals(call[j].ask.op)
    PROVE  call[j].raced = TRUE
BY Busy DEF Inv, Pairs

LEMMA DerivedFacts ==
    ASSUME TypeOK
    PROVE  /\ Derived \in {"running", "ended"} => contest.status = "upcoming" /\ clock >= contest.start
           /\ Derived = "finalized" => contest.status = "finalized"
<1>1. contest.status \in Statuses /\ clock \in Nat /\ contest.start \in Nat /\ contest.end \in Nat
  <2>1. contest \in ContestRows /\ clock \in 0..MaxTime
    BY DEF TypeOK, ContestRows, Statuses
  <2>2. Times \cup {0} \subseteq Nat /\ 0..MaxTime \subseteq Nat
    BY LifecycleAssumption
  <2>3. contest.status \in Statuses /\ contest.start \in Times \cup {0} /\ contest.end \in Times \cup {0}
    BY <2>1 DEF ContestRows
  <2> QED
    BY <2>1, <2>2, <2>3
<1>2. CASE contest.status \in {"draft", "finalized"}
  BY <1>2 DEF Derived
<1>3. CASE contest.status = "upcoming" /\ clock < contest.start
  <2>1. Derived = "upcoming"
    BY <1>3, <1>1 DEF Derived, There
  <2> QED
    BY <2>1
<1>4. CASE contest.status = "upcoming" /\ clock >= contest.start
  BY <1>4, <1>1
    DEF Derived, There
<1>5. CASE contest.status \in {"none", "deleted"}
  <2>1. Derived = "none"
    BY <1>5 DEF Derived, There
  <2> QED
    BY <2>1
<1> QED
  BY <1>1, <1>2, <1>3, <1>4, <1>5 DEF Statuses

-----------------------------------------------------------------------------
\* The steps that change a call alone.
LEMMA FailKeeps == ASSUME Inv, NEW k \in Calls, Fail(k) PROVE Inv'
BY GoBack DEF Fail

LEMMA AuthorizeKeeps == ASSUME Inv, NEW k \in Calls, Authorize(k) PROVE Inv'
<1>1. call[k].pc = "authorize" /\ Same
  BY DEF Authorize
<1>2. call[k].ask.op \in {"publish", "add", "order", "remove", "update"} /\ call[k].ask \in Asks
  BY <1>1, AtFacts, StepOps
<1>3. CASE Return(k)
  BY <1>1, <1>3, GoBack
<1>4. CASE Go(k, Permitted(call[k].ask))
  <2> DEFINE p == Permitted(call[k].ask)
  <2>1. p \in Allowed(call[k].ask.op) \cap Steps /\ p \notin Rating \cup {"count", "publish", "delete"}
    BY <1>2, PermittedSteps
  <2> HIDE DEF p
  <2>2. Knows([call[k] EXCEPT !.pc = p])
    <3>1. [call[k] EXCEPT !.pc = p].pc = p
      BY CallFacts DEF CallRows, Inv
    <3> QED
      BY <2>1, <3>1 DEF Knows, Rating
  <2> QED
    <3>1. p \notin {"applied", "mark"} /\ p \notin Rating /\ p \in Steps
      BY <2>1 DEF Rating
    <3>2. Go(k, p) /\ call[k].pc # "idle"
      BY <1>1, <1>4 DEF p
    <3> QED
      BY <1>1, <2>1, <2>2, <3>1, <3>2, GoKeeps
<1> QED
  BY <1>3, <1>4 DEF Authorize, GoIf

LEMMA UpdateReadKeeps == ASSUME Inv, NEW k \in Calls, UpdateRead(k) PROVE Inv'
<1>1. call[k].pc = "read" /\ call[k].ask.op = "update" /\ Same
  BY DEF UpdateRead, At
<1>2. call[k] # Idle /\ call[k].ask \in Asks /\ Local(call[k]) /\ call[k] \in CallRows
  BY <1>1, AtFacts, CallFacts DEF Inv
<1> DEFINE c == [call[k] EXCEPT !.flag = contest.grouped,
                     !.pc = IF call[k].ask.privileged THEN "write" ELSE "authorize"]
<1>3. CASE ~There
  BY <1>1, <1>3, GoBack DEF UpdateRead, Return
<1>4. CASE There
  <2>1. call' = [call EXCEPT ![k] = c]
    BY <1>4 DEF UpdateRead
  <2>2. contest.grouped \in BOOLEAN
    BY DEF Inv, TypeOK
  <2>3. c \in CallRows /\ c.ask = call[k].ask /\ c.raced = call[k].raced /\ c.pc \in {"write", "authorize"}
    BY <1>2, <2>2 DEF CallRows, Steps
  <2>4. Local(c)
    <3> HIDE DEF c
    <3>1. {"write", "authorize"} \subseteq Allowed("update")
      BY DEF Allowed, Finals
    <3> QED
      BY <1>1, <1>2, <2>3, <3>1 DEF Local, Knows, Rating
  <2> HIDE DEF c
  <2> QED
    BY <1>1, <1>2, <2>1, <2>3, <2>4, AdvanceKeeps
<1> QED
  BY <1>3, <1>4

LEMMA DeleteCheckKeeps == ASSUME Inv, NEW k \in Calls, DeleteCheck(k) PROVE Inv'
<1>1. call[k].pc = "status" /\ call[k].ask.op = "delete" /\ Same
  BY DEF DeleteCheck, At
<1>2. CASE Return(k)
  BY <1>1, <1>2, GoBack
<1>3. CASE contest.status = "draft" /\ Go(k, "delete")
  <2>1. Knows([call[k] EXCEPT !.pc = "delete"])
    <3>1. [call[k] EXCEPT !.pc = "delete"].pc = "delete"
      BY CallFacts DEF CallRows, Inv
    <3> QED
      BY <1>3, <3>1 DEF Knows, Rating
  <2>2. "delete" \in Steps /\ "delete" \in Allowed("delete") /\ "delete" \notin Rating
    BY DEF Steps, Allowed, Rating, Finals
  <2> QED
    BY <1>1, <1>3, <2>1, <2>2, GoKeeps
<1> QED
  BY <1>2, <1>3 DEF DeleteCheck, GoIf, Deletable

LEMMA PublishGroupKeeps == ASSUME Inv, NEW k \in Calls, PublishGroup(k) PROVE Inv'
<1>1. call[k].pc = "group" /\ call[k].ask.op = "publish" /\ Same
  BY DEF PublishGroup, At
<1>2. CASE Return(k)
  BY <1>1, <1>2, GoBack
<1>3. CASE Go(k, "status")
  <2>1. Knows([call[k] EXCEPT !.pc = "status"])
    <3>1. [call[k] EXCEPT !.pc = "status"].pc = "status"
      BY CallFacts DEF CallRows, Inv
    <3> QED
      BY <3>1 DEF Knows, Rating
  <2>2. "status" \in Steps /\ "status" \in Allowed("publish") /\ "status" \notin Rating
    BY DEF Steps, Allowed, Rating, Finals
  <2> QED
    BY <1>1, <1>3, <2>1, <2>2, GoKeeps
<1> QED
  BY <1>2, <1>3 DEF PublishGroup, GoIf

LEMMA PublishCheckKeeps == ASSUME Inv, NEW k \in Calls, PublishCheck(k) PROVE Inv'
<1>1. call[k].pc = "status" /\ call[k].ask.op = "publish" /\ Same
  BY DEF PublishCheck, At
<1>2. CASE Return(k)
  BY <1>1, <1>2, GoBack
<1>3. CASE contest.status = "draft" /\ Go(k, "count")
  <2>1. Knows([call[k] EXCEPT !.pc = "count"])
    <3>1. [call[k] EXCEPT !.pc = "count"].pc = "count"
      BY CallFacts DEF CallRows, Inv
    <3> QED
      BY <1>3, <3>1 DEF Knows, Rating
  <2>2. "count" \in Steps /\ "count" \in Allowed("publish") /\ "count" \notin Rating
    BY DEF Steps, Allowed, Rating, Finals
  <2> QED
    BY <1>1, <1>3, <2>1, <2>2, GoKeeps
<1> QED
  BY <1>2, <1>3 DEF PublishCheck, GoIf, Publishable

LEMMA PublishCountKeeps == ASSUME Inv, NEW k \in Calls, PublishCount(k) PROVE Inv'
<1>1. call[k].pc = "count" /\ call[k].ask.op = "publish" /\ Same
  BY DEF PublishCount, At
<1>2. CASE Return(k)
  BY <1>1, <1>2, GoBack
<1>3. CASE Assigned # {} /\ Go(k, "publish")
  <2>1. call[k].raced = FALSE => Knows([call[k] EXCEPT !.pc = "publish"])
    <3>1. [call[k] EXCEPT !.pc = "publish"].pc = "publish"
      BY CallFacts DEF CallRows, Inv
    <3>2. call[k].raced = FALSE => contest.status \in {"draft", "deleted"}
      BY <1>1, AtFacts DEF Local, Knows
    <3> QED
      BY <1>3, <3>1, <3>2 DEF Knows, Rating
  <2>2. "publish" \in Steps /\ "publish" \in Allowed("publish") /\ "publish" \notin Rating
    BY DEF Steps, Allowed, Rating, Finals
  <2> QED
    BY <1>1, <1>3, <2>1, <2>2, GoKeeps
<1> QED
  BY <1>2, <1>3 DEF PublishCount, GoIf, Ready

LEMMA AddOrderKeeps == ASSUME Inv, NEW k \in Calls, AddOrder(k) PROVE Inv'
<1>1. call[k].pc = "max" /\ call[k].ask.op = "add" /\ Same
  BY DEF AddOrder, At
<1>2. call[k] # Idle /\ call[k].ask \in Asks /\ Local(call[k]) /\ call[k] \in CallRows
  BY <1>1, AtFacts, CallFacts DEF Inv
<1>3. PICK max \in {0} \cup {problems[r] : r \in Assigned} :
        max < MaxOrder /\ call' = [call EXCEPT ![k].order = max + 1, ![k].pc = "insert"]
  BY DEF AddOrder
<1>4. max + 1 \in 0..MaxOrder
  <2>1. max \in Nat
    BY NilApart, LifecycleAssumption DEF Inv, TypeOK, Assigned, Maybe
  <2> QED
    BY <1>3, <2>1, LifecycleAssumption
<1> DEFINE c == [call[k] EXCEPT !.order = max + 1, !.pc = "insert"]
<1>5. call' = [call EXCEPT ![k] = c]
  BY <1>3 DEF Inv, TypeOK
<1>6. c \in CallRows /\ c.ask = call[k].ask /\ c.raced = call[k].raced /\ c.pc = "insert"
  BY <1>2, <1>4 DEF CallRows, Steps
<1> HIDE DEF c
<1>7. Local(c)
  <2>1. "insert" \in Allowed("add")
    BY DEF Allowed, Finals
  <2> QED
    BY <1>1, <1>2, <1>6, <2>1 DEF Local, Knows, Rating
<1> QED
  BY <1>1, <1>2, <1>5, <1>6, <1>7, AdvanceKeeps

LEMMA FinalizeReadKeeps == ASSUME Inv, NEW k \in Calls, FinalizeRead(k) PROVE Inv'
<1> DEFINE op == call[k].ask.op
<1> DEFINE c == [call[k] EXCEPT !.flag = IF op = "rerun" THEN Derived = "ended" ELSE TRUE,
                                !.pc = IF contest.rated THEN "rate" ELSE "mark"]
<1>1. call[k].pc = "read" /\ op \in Finals /\ Same
  BY DEF FinalizeRead, Finals
<1>2. call[k] # Idle /\ call[k].ask \in Asks /\ Local(call[k]) /\ call[k] \in CallRows
  BY <1>1, AtFacts, CallFacts DEF Inv
<1>3. CASE ~Finalizable(op)
  BY <1>1, <1>3, GoBack DEF FinalizeRead, Return
<1>4. CASE Finalizable(op)
  <2>1. call' = [call EXCEPT ![k] = c]
    BY <1>4 DEF FinalizeRead
  <2>2. contest.rated \in BOOLEAN
    BY DEF Inv, TypeOK
  <2>3. c \in CallRows /\ c.ask = call[k].ask /\ c.raced = call[k].raced
        /\ c.pc = (IF contest.rated THEN "rate" ELSE "mark")
        /\ c.flag = (IF op = "rerun" THEN Derived = "ended" ELSE TRUE)
    BY <1>2, <2>2 DEF CallRows, Steps
  <2>4. Derived \in {"running", "ended", "finalized"}
    BY <1>1, <1>4 DEF Finalizable, Finals
  <2>5. contest.status = "finalized" \/ (contest.status = "upcoming" /\ clock >= contest.start)
    BY <2>4, DerivedFacts DEF Inv
  <2>10. c.flag = TRUE => clock >= contest.start
    <3>1. CASE op = "rerun"
      BY <2>3, <3>1, DerivedFacts DEF Inv
    <3>2. CASE op # "rerun"
      <4>1. Derived \in {"running", "ended"}
        BY <1>1, <1>4, <3>2 DEF Finalizable, Finals
      <4> QED
        BY <4>1, DerivedFacts DEF Inv
    <3> QED
      BY <3>1, <3>2
  <2>11. op = "rerun" => contest.rated
    BY <1>4 DEF Finalizable
  <2> HIDE DEF c, op
  <2>6. Rating \subseteq Allowed(op)
    <3>1. op \notin {"publish", "delete", "add", "order", "remove", "update"}
      BY <1>1 DEF Finals
    <3> QED
      BY <1>1, <3>1 DEF Allowed
  <2>7. c.pc \in Rating /\ (c.pc = "mark" => contest.rated = FALSE)
    BY <2>2, <2>3 DEF Rating
  <2>8. c.pc \notin {"count", "publish", "delete"}
    BY <2>7 DEF Rating
  <2>9. Local(c)
    BY <1>2, <2>3, <2>5, <2>6, <2>7, <2>8, <2>10, <2>11 DEF Local, Knows, op
  <2> QED
    BY <1>1, <1>2, <2>1, <2>3, <2>9, AdvanceKeeps
<1> QED
  BY <1>3, <1>4

\* A call that rates goes on to the next step of rating.
LEMMA RateOn ==
    ASSUME Inv, NEW k \in Calls, call[k].pc \in Rating, Same, NEW p \in Rating, Go(k, p),
           p \in {"applied", "mark"} => call[k].ask.op # "rerun",
           p = "mark" => contest.rated = FALSE \/ contest.applied = TRUE
    PROVE  Inv'
<1>1. call[k].pc # "idle" /\ p \in Steps /\ p \notin {"count", "publish", "delete"}
  BY DEF Rating, Steps
<1>2. Local(call[k]) /\ call[k].ask.op \in Finals
  BY <1>1, AtFacts, StepOps
<1>3. p \in Allowed(call[k].ask.op)
  <2>1. call[k].ask.op \notin {"publish", "delete", "add", "order", "remove", "update"}
    BY <1>2 DEF Finals
  <2> QED
    BY <1>2, <2>1 DEF Allowed
<1>4. [call[k] EXCEPT !.pc = p].pc = p /\ [call[k] EXCEPT !.pc = p].flag = call[k].flag
  BY CallFacts DEF CallRows, Inv
<1>5. call[k].raced = FALSE => Knows([call[k] EXCEPT !.pc = p])
  BY <1>1, <1>2, <1>4 DEF Local, Knows
<1> QED
  BY <1>1, <1>2, <1>3, <1>5, GoKeeps DEF Local

LEMMA RateKeeps == ASSUME Inv, NEW k \in Calls, Rate(k) PROVE Inv'
<1>1. call[k].pc = "rate" /\ Same
  BY DEF Rate
<1>2. CASE Return(k)
  BY <1>1, <1>2, GoBack
<1>3. CASE Go(k, IF call[k].ask.op = "rerun" THEN "commit" ELSE "applied")
  BY <1>1, <1>3, RateOn DEF Rating
<1> QED
  BY <1>2, <1>3 DEF Rate, GoIf

LEMMA AlreadyAppliedKeeps == ASSUME Inv, NEW k \in Calls, AlreadyApplied(k) PROVE Inv'
<1>1. call[k].pc = "applied" /\ Same
  BY DEF AlreadyApplied
<1>2. CASE Return(k)
  BY <1>1, <1>2, GoBack
<1>5. call[k].ask.op # "rerun"
  BY <1>1, AtFacts DEF Local
<1>3. CASE contest.ratings /\ Go(k, "mark")
  <2>1. contest.ratings \in BOOLEAN
    BY DEF Inv, TypeOK
  <2>2. contest.applied = TRUE
    BY <1>3, <2>1 DEF Inv, Sound
  <2> QED
    BY <1>1, <1>3, <1>5, <2>2, RateOn DEF Rating
<1>4. CASE Go(k, "commit")
  BY <1>1, <1>4, RateOn DEF Rating
<1> QED
  BY <1>2, <1>3, <1>4 DEF AlreadyApplied, GoIf

-----------------------------------------------------------------------------
\* The steps that change the contest or its problems.
\* The calls that a publish, a delete or an update leaves behind.
LEMMA LeftBehind ==
    ASSUME Inv, NEW k \in Calls, NEW j \in Calls, j # k, call[j] # Idle, call[k].pc # "idle"
    PROVE  /\ call[k].ask.op = "publish" /\ call[j].pc \in {"count", "publish", "delete"} =>
                  call[j].raced = TRUE
           /\ call[k].ask.op = "remove" /\ call[j].pc = "publish" => call[j].raced = TRUE
           /\ call[k].ask.op = "update" /\ call[j].pc \in Rating => call[j].raced = TRUE
<1>1. Local(call[j]) /\ call[j].ask.op \in {"publish", "delete", "add", "order", "remove", "update"} \cup Finals
  BY AskTypes DEF Inv, Locals, Local
<1>2. /\ call[j].pc \in Rating => call[j].ask.op \in Finals
      /\ call[j].pc \in {"count", "publish"} => call[j].ask.op = "publish"
      /\ call[j].pc = "delete" => call[j].ask.op = "delete"
  BY <1>1, StepOps DEF Local
<1>3. Rivals("publish") = {"publish", "remove"} /\ Rivals("delete") = {"publish"}
      /\ \A op \in Finals : Rivals(op) = {"update"}
  BY DEF Rivals, Finals
<1> QED
  BY <1>2, <1>3, Behind

LEMMA UpdatedRow ==
    ASSUME Inv, NEW a \in Asks, a.op = "update"
    PROVE  /\ Updated(a) \in ContestRows
           /\ Updated(a).status = contest.status /\ Updated(a).ratings = contest.ratings
           /\ Updated(a).applied = contest.applied
<1>1. contest \in ContestRows
  BY DEF Inv, TypeOK, ContestRows, Statuses
<1>2. /\ a.rated \in Maybe(BOOLEAN) /\ a.group \in {"keep", "set", "clear"}
      /\ a.start \in Maybe(Times) /\ a.end \in Maybe(Times)
  BY AskTypes
<1>3. /\ contest.rated \in BOOLEAN /\ contest.grouped \in BOOLEAN
      /\ contest.start \in Times \cup {0} /\ contest.end \in Times \cup {0}
  BY <1>1 DEF ContestRows
<1>4. /\ Or(a.rated, contest.rated) \in BOOLEAN
      /\ Or(a.start, contest.start) \in Times \cup {0} /\ Or(a.end, contest.end) \in Times \cup {0}
  BY <1>2, <1>3 DEF Or, Maybe
<1> DEFINE rated == IF Unrates(a) THEN FALSE ELSE Or(a.rated, contest.rated)
<1> DEFINE grouped == IF a.group = "keep" THEN contest.grouped ELSE a.group = "set"
<1> DEFINE start == Or(a.start, contest.start)
<1> DEFINE end == Or(a.end, contest.end)
<1>5. /\ rated \in BOOLEAN /\ grouped \in BOOLEAN
      /\ start \in Times \cup {0} /\ end \in Times \cup {0}
  BY <1>2, <1>3, <1>4
<1>6. Updated(a) = [contest EXCEPT !.rated = rated, !.grouped = grouped, !.start = start,
                                   !.end = end]
  BY DEF Updated
<1> HIDE DEF rated, grouped, start, end
<1> QED
  BY <1>1, <1>5, <1>6 DEF ContestRows

LEMMA UpdateWriteKeeps == ASSUME Inv, NEW k \in Calls, UpdateWrite(k) PROVE Inv'
<1>1. /\ call[k].pc = "write" /\ call[k].ask.op = "update" /\ Return(k)
      /\ clock' = clock /\ problems' = problems
  BY DEF UpdateWrite, At
<1>2. CASE contest' = contest
  BY <1>1, <1>2, GoBack DEF Same
<1>3. CASE There /\ contest' = Updated(call[k].ask)
  <2>1. contest' \in ContestRows /\ contest'.status = contest.status
        /\ contest'.ratings = contest.ratings /\ contest'.applied = contest.applied
    BY <1>1, <1>3, AtFacts, UpdatedRow
  <2>2. Sound'
    BY <1>3, <2>1 DEF Inv, Sound, There, None
  <2>3. \A j \in Calls : j # k /\ call[j] # Idle => Local(call[j])'
    <3> SUFFICES ASSUME NEW j \in Calls, j # k, call[j] # Idle PROVE Local(call[j])'
      OBVIOUS
    <3>1. call'[j] = call[j]
      BY <1>1 DEF Inv, TypeOK, Return
    <3>2. Local(call[j])
      BY DEF Inv, Locals
    <3>3. call[j].pc \in Rating => call[j].raced = TRUE
      BY <1>1, LeftBehind
    <3>4. call[j].pc = "mark" => call[j].pc \in Rating
      BY DEF Rating
    <3> QED
      BY <1>1, <2>1, <3>1, <3>2, <3>3, <3>4 DEF Local, Knows, Assigned
  <2> QED
    BY <1>1, <2>1, <2>2, <2>3, ReturnKeeps DEF Inv, TypeOK
<1> QED
  BY <1>2, <1>3 DEF UpdateWrite

\* A deleted contest is what every call can still find.
LEMMA DeleteKeeps == ASSUME Inv, NEW k \in Calls, Delete(k) PROVE Inv'
<1>1. /\ call[k].pc = "delete" /\ Return(k) /\ clock' = clock
      /\ contest' = [contest EXCEPT !.status = "deleted"] /\ problems' = [r \in Rows |-> Nil]
  BY DEF Delete, At
<1>2. contest \in ContestRows
  BY DEF Inv, TypeOK, ContestRows, Statuses
<1>3. /\ contest' \in ContestRows /\ contest'.status = "deleted" /\ contest'.rated = contest.rated
      /\ contest'.ratings = contest.ratings /\ contest'.applied = contest.applied
      /\ contest'.start = contest.start
  BY <1>1, <1>2 DEF ContestRows, Statuses
<1>4. problems' \in [Rows -> Maybe(0..MaxOrder)]
  BY <1>1 DEF Maybe
<1>5. Sound'
  BY <1>3 DEF Inv, Sound, None
<1>6. \A j \in Calls : j # k /\ call[j] # Idle => Local(call[j])'
  <2> SUFFICES ASSUME NEW j \in Calls, j # k, call[j] # Idle PROVE Local(call[j])'
    OBVIOUS
  <2>1. call'[j] = call[j]
    BY <1>1 DEF Inv, TypeOK, Return
  <2>2. Local(call[j])
    BY DEF Inv, Locals
  <2>3. call[j].pc = "mark" => call[j].pc \in Rating
    BY DEF Rating
  <2> QED
    BY <1>1, <1>3, <2>1, <2>2, <2>3 DEF Local, Knows
<1> QED
  BY <1>1, <1>3, <1>4, <1>5, <1>6, ReturnKeeps

\* The others still know what they knew if the problems changed and one is left.
LEMMA ProblemsKeep ==
    ASSUME Inv, NEW k \in Calls, call[k].pc # "idle", Return(k), clock' = clock, contest' = contest,
           problems' \in [Rows -> Maybe(0..MaxOrder)],
           Assigned' # {} \/ call[k].ask.op = "remove"
    PROVE  Inv'
<1>1. contest' \in ContestRows /\ Sound'
  BY DEF Inv, TypeOK, ContestRows, Statuses, Sound, None
<1>2. \A j \in Calls : j # k /\ call[j] # Idle => Local(call[j])'
  <2> SUFFICES ASSUME NEW j \in Calls, j # k, call[j] # Idle PROVE Local(call[j])'
    OBVIOUS
  <2>1. call'[j] = call[j]
    BY DEF Inv, TypeOK, Return
  <2>2. Local(call[j])
    BY DEF Inv, Locals
  <2>3. CASE Assigned' # {}
    BY <2>1, <2>2, <2>3 DEF Local, Knows
  <2>4. CASE call[k].ask.op = "remove"
    <3>1. call[j].pc = "publish" => call[j].raced = TRUE
      BY <2>4, LeftBehind
    <3> QED
      BY <2>1, <2>2, <3>1 DEF Local, Knows
  <2> QED
    BY <2>3, <2>4
<1> QED
  BY <1>1, <1>2, ReturnKeeps

LEMMA AddInsertKeeps == ASSUME Inv, NEW k \in Calls, AddInsert(k) PROVE Inv'
<1>1. call[k].pc = "insert" /\ call[k].ask.op = "add" /\ Return(k) /\ clock' = clock /\ contest' = contest
  BY DEF AddInsert, At
<1> DEFINE order == IF call[k].ask.order = 0 THEN call[k].order ELSE call[k].ask.order
<1>2. PICK r \in Rows : problems' = [problems EXCEPT ![r] = order]
  BY DEF AddInsert
<1>3. order \in 0..MaxOrder
  BY <1>1, AtFacts, AskTypes, CallFacts DEF Inv
<1> HIDE DEF order
<1>4. problems' \in [Rows -> Maybe(0..MaxOrder)] /\ problems'[r] = order
  BY <1>2, <1>3 DEF Inv, TypeOK, Maybe
<1>5. Assigned' # {}
  <2>1. order # Nil
    BY <1>3, NilApart
  <2> QED
    BY <1>4, <2>1 DEF Assigned
<1> QED
  BY <1>1, <1>4, <1>5, ProblemsKeep

LEMMA ChangeProblemKeeps == ASSUME Inv, NEW k \in Calls, ChangeProblem(k) PROVE Inv'
<1>1. call[k].pc = "change" /\ Return(k) /\ clock' = clock /\ contest' = contest
  BY DEF ChangeProblem
<1> DEFINE order == IF call[k].ask.op = "order" THEN call[k].ask.order ELSE Nil
<1>2. PICK r \in Rows : problems' = [problems EXCEPT ![r] = order]
  BY DEF ChangeProblem, Assigned
<1>3. call[k].ask \in Asks /\ call[k].ask.op \in {"order", "remove"}
  BY <1>1, AtFacts, StepOps
<1>4. order \in Maybe(0..MaxOrder) /\ (call[k].ask.op = "order" => order \in 0..MaxOrder)
  BY <1>3, AskTypes DEF Maybe
<1> HIDE DEF order
<1>5. problems' \in [Rows -> Maybe(0..MaxOrder)] /\ problems'[r] = order
  BY <1>2, <1>4 DEF Inv, TypeOK, Maybe
<1>6. Assigned' # {} \/ call[k].ask.op = "remove"
  <2>1. call[k].ask.op = "order" => order # Nil
    BY <1>4, NilApart
  <2> QED
    BY <1>3, <1>5, <2>1 DEF Assigned
<1> QED
  BY <1>1, <1>5, <1>6, ProblemsKeep

-----------------------------------------------------------------------------
\* What an update of the status does.
LEMMA SetStatusRow ==
    ASSUME Inv, NEW s \in {"upcoming", "finalized"}
    PROVE  /\ SetStatus(s) \in ContestRows
           /\ SetStatus(s).status = (IF There THEN s ELSE contest.status)
           /\ \A f \in {"rated", "grouped", "start", "end", "ratings", "applied"} :
                  SetStatus(s)[f] = contest[f]
<1>1. contest \in ContestRows
  BY DEF Inv, TypeOK, ContestRows, Statuses
<1> QED
  BY <1>1 DEF SetStatus, ContestRows, Statuses

LEMMA PublishKeeps == ASSUME Inv, NEW k \in Calls, Publish(k) PROVE Inv'
<1>1. /\ call[k].pc = "publish" /\ call[k].ask.op = "publish" /\ Return(k) /\ clock' = clock
      /\ problems' = problems /\ contest' = SetStatus("upcoming")
  BY DEF Publish, At
<1>2. /\ contest' \in ContestRows /\ contest'.status = (IF There THEN "upcoming" ELSE contest.status)
      /\ contest'.rated = contest.rated /\ contest'.start = contest.start
      /\ contest'.ratings = contest.ratings /\ contest'.applied = contest.applied
  BY <1>1, SetStatusRow
<1>3. Sound' /\ contest.status # "none"
  <2>1. contest.status # "none"
    BY <1>1, AtFacts DEF Local
  <2>2. contest'.status # "none" /\ contest # None
    BY <1>2, <2>1 DEF Inv, Sound
  <2> QED
    BY <1>2, <2>1, <2>2 DEF Inv, Sound, None
<1>4. \A j \in Calls : j # k /\ call[j] # Idle => Local(call[j])'
  <2> SUFFICES ASSUME NEW j \in Calls, j # k, call[j] # Idle PROVE Local(call[j])'
    OBVIOUS
  <2>1. call'[j] = call[j]
    BY <1>1 DEF Inv, TypeOK, Return
  <2>2. Local(call[j])
    BY DEF Inv, Locals
  <2>3. call[j].pc \in {"count", "publish", "delete"} => call[j].raced = TRUE
    BY <1>1, LeftBehind
  <2>4. call[j].pc = "mark" => call[j].pc \in Rating
    BY DEF Rating
  <2>5. CASE ~There
    <3>1. contest'.status = contest.status
      BY <1>2, <2>5
    <3> QED
      BY <1>1, <1>2, <2>1, <2>2, <3>1 DEF Local, Knows, Assigned
  <2>6. CASE There
    <3>1. contest'.status = "upcoming"
      BY <1>2, <2>6
    <3> QED
      BY <1>1, <1>2, <2>1, <2>2, <2>3, <2>4, <3>1 DEF Local, Knows, Assigned
  <2> QED
    BY <2>5, <2>6
<1> QED
  BY <1>1, <1>2, <1>3, <1>4, ReturnKeeps DEF Inv, TypeOK

-----------------------------------------------------------------------------
\* A finalization or a rating ends: drafts are out of its reach.
LEMMA FinalKeeps ==
    ASSUME Inv, NEW k \in Calls, call[k].pc \in Rating, Return(k), clock' = clock, problems' = problems,
           contest' \in ContestRows,
           contest'.status = contest.status \/ (There /\ contest'.status = "finalized"),
           contest'.rated = contest.rated, contest'.start = contest.start,
           contest.applied = TRUE => contest'.applied = TRUE,
           contest'.ratings = TRUE => contest'.applied = TRUE
    PROVE  Inv'
<1>1. call[k].pc # "idle"
  BY DEF Rating
<1>2. contest.status # "none" /\ contest.status # "draft"
  BY <1>1, AtFacts DEF Local
<1>3. contest'.status # "none" /\ contest'.status # "draft"
  BY <1>2
<1>4. Sound'
  BY <1>3 DEF Sound, None
<1>5. \A j \in Calls : j # k /\ call[j] # Idle => Local(call[j])'
  <2> SUFFICES ASSUME NEW j \in Calls, j # k, call[j] # Idle PROVE Local(call[j])'
    OBVIOUS
  <2>1. call'[j] = call[j]
    BY DEF Inv, TypeOK, Return
  <2>2. Local(call[j])
    BY DEF Inv, Locals
  <2>3. contest.status = "deleted" => contest'.status = "deleted"
    BY DEF There
  <2> QED
    BY <1>2, <1>3, <2>1, <2>2, <2>3 DEF Local, Knows, Assigned
<1> QED
  BY <1>4, <1>5, ReturnKeeps DEF Inv, TypeOK

LEMMA MarkRow ==
    ASSUME Inv, NEW k \in Calls, Mark(k)
    PROVE  /\ contest' \in ContestRows
           /\ contest'.status = (IF There THEN "finalized" ELSE contest.status)
           /\ contest'.rated = contest.rated /\ contest'.grouped = contest.grouped
           /\ contest'.start = contest.start
           /\ contest'.ratings = contest.ratings /\ contest'.applied = contest.applied
BY SetStatusRow DEF Mark

LEMMA MarkKeeps == ASSUME Inv, NEW k \in Calls, Mark(k) PROVE Inv'
<1>1. call[k].pc \in Rating /\ Return(k) /\ clock' = clock /\ problems' = problems
  BY DEF Mark, At, Rating
<1> QED
  BY <1>1, MarkRow, FinalKeeps DEF Inv, Sound

LEMMA CommitRow ==
    ASSUME Inv, NEW k \in Calls, Commit(k)
    PROVE  /\ contest' \in ContestRows
           /\ contest'.status = (IF There /\ call[k].flag THEN "finalized" ELSE contest.status)
           /\ contest'.rated = contest.rated /\ contest'.grouped = contest.grouped
           /\ contest'.start = contest.start
           /\ There => contest'.applied = TRUE
           /\ ~There => contest'.applied = contest.applied
           /\ contest'.ratings = TRUE => contest'.applied = TRUE
<1> DEFINE old == IF call[k].flag THEN SetStatus("finalized") ELSE contest
<1>1. PICK some \in BOOLEAN :
        contest' = [old EXCEPT !.applied = @ \/ There, !.ratings = @ \/ (There /\ some)]
  BY DEF Commit
<1>2. /\ old \in ContestRows
      /\ old.status = (IF There /\ call[k].flag THEN "finalized" ELSE contest.status)
      /\ \A f \in {"rated", "grouped", "start", "end", "ratings", "applied"} :
             old[f] = contest[f]
  BY SetStatusRow DEF Inv, TypeOK, ContestRows, Statuses
<1> HIDE DEF old
<1>3. There \in BOOLEAN
  BY DEF There
<1>4. old.applied \in BOOLEAN /\ old.ratings \in BOOLEAN
  BY <1>2 DEF ContestRows
<1> DEFINE applied == old.applied \/ There
<1> DEFINE ratings == old.ratings \/ (There /\ some)
<1>5. /\ applied \in BOOLEAN /\ ratings \in BOOLEAN
      /\ There => applied = TRUE
      /\ ~There => applied = old.applied /\ ratings = old.ratings
  BY <1>3, <1>4
<1>6. contest' = [old EXCEPT !.applied = applied, !.ratings = ratings]
  BY <1>1
<1> HIDE DEF applied, ratings
<1>7. /\ contest' \in ContestRows /\ contest'.applied = applied /\ contest'.ratings = ratings
      /\ contest'.status = old.status /\ contest'.rated = old.rated /\ contest'.grouped = old.grouped
      /\ contest'.start = old.start
  BY <1>2, <1>5, <1>6 DEF ContestRows
<1>8. contest'.ratings = TRUE => contest'.applied = TRUE
  <2>1. contest.ratings = TRUE => contest.applied = TRUE
    BY DEF Inv, Sound
  <2> QED
    BY <1>2, <1>5, <1>7, <2>1
<1> QED
  BY <1>2, <1>5, <1>7, <1>8

LEMMA CommitKeeps == ASSUME Inv, NEW k \in Calls, Commit(k) PROVE Inv'
<1>1. call[k].pc \in Rating /\ Return(k) /\ clock' = clock /\ problems' = problems
  BY DEF Commit, At, Rating
<1>2. contest.applied = TRUE => contest'.applied = TRUE
  BY CommitRow
<1> QED
  BY <1>1, <1>2, CommitRow, FinalKeeps

-----------------------------------------------------------------------------
\* A contest is created before any call: its id is not known.
LEMMA Created ==
    ASSUME NEW status \in {"draft", "upcoming"}, NEW wish \in BOOLEAN, NEW grouped \in BOOLEAN,
           NEW s \in Times, NEW e \in Times, contest' = New(status, wish, grouped, s, e)
    PROVE  /\ contest' \in ContestRows
           /\ contest'.status = status /\ contest'.ratings = FALSE
           /\ contest'.grouped = TRUE => contest'.rated = FALSE
<1> DEFINE rated == Rated(wish, grouped)
<1>1. rated \in BOOLEAN /\ (grouped = TRUE => rated = FALSE)
  BY DEF Rated
<1>2. contest' = [None EXCEPT !.status = status, !.rated = rated, !.grouped = grouped,
                              !.start = s, !.end = e]
  BY DEF New
<1> HIDE DEF rated
<1>3. /\ contest' \in ContestRows
      /\ contest'.status = status /\ contest'.ratings = FALSE
      /\ contest'.rated = rated /\ contest'.grouped = grouped
  <2>1. None \in ContestRows /\ None.ratings = FALSE
    BY DEF None, ContestRows, Statuses
  <2>2. contest' \in ContestRows
    BY <1>1, <1>2, <2>1 DEF ContestRows, Statuses
  <2>3. DOMAIN None = {"status", "rated", "grouped", "start", "end", "ratings", "applied"}
    BY DEF None
  <2> QED
    BY <1>2, <2>1, <2>2, <2>3 DEF ContestRows
<1> QED
  BY <1>1, <1>3

LEMMA CreateKeeps ==
    ASSUME Inv, contest = None, clock' = clock, call' = call, problems' \in [Rows -> Maybe(0..MaxOrder)],
           NEW status \in {"draft", "upcoming"}, NEW wish \in BOOLEAN, NEW grouped \in BOOLEAN,
           NEW s \in Times, NEW e \in Times, contest' = New(status, wish, grouped, s, e)
    PROVE  Inv'
<1>1. \A k \in Calls : call[k] = Idle
  BY DEF Inv, Locals, Local, Sound
<1>2. contest' \in ContestRows /\ contest'.status = status /\ contest'.ratings = FALSE
  BY Created
<1>3. TypeOK'
  BY <1>2 DEF Inv, TypeOK, ContestRows, Statuses
<1>4. Sound'
  BY <1>2 DEF Sound, None
<1> QED
  BY <1>1, <1>3, <1>4 DEF Inv, Locals, Pairs

LEMMA TickKeeps == ASSUME Inv, Tick PROVE Inv'
<1>1. clock' = clock + 1 /\ clock < MaxTime /\ contest' = contest /\ problems' = problems /\ call' = call
  BY DEF Tick
<1>2. clock \in Nat /\ clock' \in 0..MaxTime /\ contest.start \in Nat
  <2>1. contest \in ContestRows /\ clock \in 0..MaxTime
    BY DEF Inv, TypeOK, ContestRows, Statuses
  <2>2. Times \cup {0} \subseteq Nat /\ MaxTime \in Nat
    BY LifecycleAssumption
  <2>3. contest.start \in Times \cup {0}
    BY <2>1 DEF ContestRows
  <2> QED
    BY <1>1, <2>1, <2>2, <2>3
<1>3. TypeOK' /\ Sound' /\ Pairs'
  BY <1>1, <1>2 DEF Inv, TypeOK, Sound, Pairs, None
<1>4. Locals'
  <2> SUFFICES ASSUME NEW j \in Calls, call[j] # Idle PROVE Local(call[j])'
    BY <1>1 DEF Locals
  <2>1. Local(call[j])
    BY DEF Inv, Locals
  <2>2. clock >= contest.start => clock' >= contest'.start
    BY <1>1, <1>2
  <2> QED
    BY <1>1, <2>1, <2>2 DEF Local, Knows, Assigned
<1> QED
  BY <1>3, <1>4 DEF Inv

LEMMA StutterKeeps == ASSUME Inv, UNCHANGED vars PROVE Inv'
BY DEF Inv, TypeOK, Sound, Locals, Local, Knows, Assigned, Pairs, None, vars

LEMMA NextKeeps == Inv /\ [Next]_vars => Inv'
<1> SUFFICES ASSUME Inv, [Next]_vars PROVE Inv'
  OBVIOUS
<1>1. ASSUME NEW wish \in BOOLEAN, NEW grouped \in BOOLEAN, NEW s \in Times, NEW e \in Times,
             CreateContest(wish, grouped, s, e)
      PROVE  Inv'
  <2>1. PICK status \in Defaults : contest' = New(status, wish, grouped, s, e)
    BY <1>1 DEF CreateContest
  <2>2. status \in {"draft", "upcoming"}
    BY LifecycleAssumption
  <2>3. problems' \in [Rows -> Maybe(0..MaxOrder)]
    BY <1>1, LifecycleAssumption DEF CreateContest, Maybe
  <2>4. contest = None /\ clock' = clock /\ call' = call
    BY <1>1 DEF CreateContest
  <2> QED
    BY <2>1, <2>2, <2>3, <2>4, CreateKeeps
<1>2. ASSUME NEW p \in BOOLEAN, NEW wish \in BOOLEAN, NEW grouped \in BOOLEAN,
             NEW s \in Times, NEW e \in Times, AdminCreate(p, wish, grouped, s, e)
      PROVE  Inv'
  <2>1. contest = None /\ contest' = New("draft", wish, grouped, s, e) /\ clock' = clock /\ call' = call
    BY <1>2 DEF AdminCreate
  <2>2. problems' \in [Rows -> Maybe(0..MaxOrder)]
    BY <1>2 DEF AdminCreate, Inv, TypeOK
  <2> QED
    BY <2>1, <2>2, CreateKeeps
<1>3. ASSUME NEW k \in Calls, Handler(k) PROVE Inv'
  BY <1>3, BeginKeeps, FailKeeps, AuthorizeKeeps, UpdateReadKeeps, UpdateWriteKeeps, DeleteCheckKeeps,
     DeleteKeeps, AddOrderKeeps, AddInsertKeeps, ChangeProblemKeeps, PublishGroupKeeps,
     PublishCheckKeeps, PublishCountKeeps, PublishKeeps, FinalizeReadKeeps, RateKeeps,
     AlreadyAppliedKeeps, CommitKeeps, MarkKeeps
     DEF Handler
<1> QED
  BY <1>1, <1>2, <1>3, TickKeeps, StutterKeeps DEF Next

\* The inductive invariant: what the calls in progress still know of the contest, unless a
\* rival overlapped them.
THEOREM LifecycleInvariant == Spec => []Inv
BY InitInv, NextKeeps, PTL DEF Spec

\* Every row and every call stays within its type, for any requests and any number of calls.
THEOREM LifecycleTypes == Spec => []TypeOK
<1>1. Inv => TypeOK
  BY DEF Inv
<1> QED
  BY <1>1, LifecycleInvariant, PTL

-----------------------------------------------------------------------------
\* The steps that leave the status of the contest alone, and those that change it.
LEMMA Kept ==
    ASSUME Inv, [Next]_vars,
           ~\E k \in Calls : UpdateWrite(k) \/ Delete(k) \/ Publish(k) \/ Commit(k) \/ Mark(k),
           contest # None
    PROVE  contest' = contest
<1>1. ASSUME NEW k \in Calls, Handler(k) PROVE contest' = contest
  BY <1>1 DEF Handler, Begin, Fail, Authorize, UpdateRead, DeleteCheck, AddOrder, AddInsert, ChangeProblem,
              PublishGroup, PublishCheck, PublishCount, FinalizeRead, Rate, AlreadyApplied, Same
<1> QED
  BY <1>1 DEF Next, CreateContest, AdminCreate, Tick, vars

LEMMA StatusSteps ==
    ASSUME Inv, [Next]_vars, contest'.status # contest.status
    PROVE  \/ contest = None /\ contest.status = "none"
           \/ \E k \in Calls : Delete(k) /\ contest'.status = "deleted"
           \/ \E k \in Calls : Publish(k) /\ There /\ contest'.status = "upcoming"
           \/ \E k \in Calls : (Commit(k) \/ Mark(k)) /\ There /\ contest'.status = "finalized"
<1>1. CASE contest = None
  BY <1>1 DEF None
<1>2. ASSUME NEW k \in Calls, UpdateWrite(k) PROVE FALSE
  <2>1. call[k].ask \in Asks /\ call[k].ask.op = "update"
    BY <1>2, AtFacts DEF UpdateWrite, At
  <2> QED
    BY <1>2, <2>1, UpdatedRow DEF UpdateWrite
<1>3. ASSUME NEW k \in Calls, Delete(k) PROVE contest'.status = "deleted"
  <2>1. contest \in ContestRows
    BY DEF Inv, TypeOK, ContestRows, Statuses
  <2> QED
    BY <1>3, <2>1 DEF Delete, ContestRows
<1>4. ASSUME NEW k \in Calls, Publish(k) PROVE There /\ contest'.status = "upcoming"
  <2>1. contest' = SetStatus("upcoming")
    BY <1>4 DEF Publish
  <2> QED
    BY <2>1, SetStatusRow
<1>5. ASSUME NEW k \in Calls, Commit(k) PROVE There /\ contest'.status = "finalized"
  BY <1>5, CommitRow
<1>6. ASSUME NEW k \in Calls, Mark(k) PROVE There /\ contest'.status = "finalized"
  BY <1>6, MarkRow
<1> QED
  BY <1>1, <1>2, <1>3, <1>4, <1>5, <1>6, Kept

\* A call that has returned, and what it knew if no rival overlapped it.
LEMMA Returned ==
    ASSUME Inv, NEW k \in Calls, call[k].pc # "idle", Return(k)
    PROVE  /\ call[k] # Idle /\ call'[k] = Idle
           /\ call[k].raced = TRUE \/ Knows(call[k])
           /\ contest.status # "none"
BY AtFacts, CallFacts DEF Inv, TypeOK, Return, Local

\* "AdminPublishContest moves a contest from draft to upcoming" (admin_contests.go:824) and
\* "only allow deletion of draft contests" (:583): whatever calls there are, only a publish or
\* a delete that another publish overlapped takes the contest back.
THEOREM NoWayBackHolds == Spec => NoWayBack
<1> DEFINE back == Stage[contest'.status] < Stage[contest.status]
<1> DEFINE blamed == \E k \in Calls : call[k].raced /\ (Ends(k, "publish") \/ Ends(k, "delete"))
<1>1. ASSUME Inv, [Next]_vars, back PROVE blamed
  <2>1. contest.status \in Statuses
    BY <1>1 DEF Inv, TypeOK, Statuses
  <2>2. CASE contest'.status = contest.status
    <3>1. Stage[contest.status] \in Nat
      BY <2>1 DEF Stage, Statuses
    <3> QED
      BY <1>1, <2>2, <3>1
  <2>3. CASE contest = None /\ contest.status = "none"
    <3>1. contest'.status \in Statuses
      BY <1>1, NextKeeps DEF Inv, TypeOK, Statuses
    <3> QED
      BY <1>1, <2>3, <3>1 DEF Stage, Statuses
  <2>4. CASE \E k \in Calls : Delete(k) /\ contest'.status = "deleted"
    <3>1. PICK k \in Calls : Delete(k) /\ contest'.status = "deleted"
      BY <2>4
    <3>2. call[k].pc = "delete" /\ call[k].ask.op = "delete" /\ Return(k)
      BY <3>1 DEF Delete, At
    <3>3. call[k] # Idle /\ call'[k] = Idle /\ (call[k].raced = TRUE \/ Knows(call[k]))
      BY <1>1, <3>2, Returned
    <3>4. contest.status \in {"draft", "deleted"} => FALSE
      BY <1>1, <3>1 DEF Stage
    <3>5. call[k].raced = TRUE
      BY <3>2, <3>3, <3>4 DEF Knows
    <3> QED
      BY <3>2, <3>3, <3>5 DEF Ends
  <2>5. CASE \E k \in Calls : Publish(k) /\ There /\ contest'.status = "upcoming"
    <3>1. PICK k \in Calls : Publish(k) /\ There /\ contest'.status = "upcoming"
      BY <2>5
    <3>2. call[k].pc = "publish" /\ call[k].ask.op = "publish" /\ Return(k)
      BY <3>1 DEF Publish, At
    <3>3. call[k] # Idle /\ call'[k] = Idle /\ (call[k].raced = TRUE \/ Knows(call[k]))
      BY <1>1, <3>2, Returned
    <3>4. contest.status \in {"draft", "deleted"} => FALSE
      BY <1>1, <3>1 DEF Stage
    <3>5. call[k].raced = TRUE
      BY <3>2, <3>3, <3>4 DEF Knows
    <3> QED
      BY <3>2, <3>3, <3>5 DEF Ends
  <2>6. CASE There /\ contest'.status = "finalized"
    BY <1>1, <2>1, <2>6 DEF Stage, Statuses
  <2> QED
    BY <1>1, <2>2, <2>3, <2>4, <2>5, <2>6, StatusSteps
<1>2. Inv /\ [Next]_vars => [back => blamed]_vars
  BY <1>1
<1> QED
  BY <1>2, LifecycleInvariant, PTL DEF Spec, NoWayBack

\* "Verify at least one problem is assigned" (admin_contests.go:871): a contest becomes upcoming
\* with a problem in it, but for a publish that a removal or another publish overlapped.
THEOREM PublishedIsReadyHolds == Spec => PublishedIsReady
<1> DEFINE opens == contest.status # "upcoming" /\ contest'.status = "upcoming"
<1> DEFINE ready == \/ Assigned # {} \/ contest = None
                    \/ \E k \in Calls : call[k].raced /\ Ends(k, "publish")
<1>1. ASSUME Inv, [Next]_vars, opens PROVE ready
  <2>1. CASE contest = None
    BY <2>1
  <2>2. CASE \E k \in Calls : Publish(k) /\ There
    <3>1. PICK k \in Calls : Publish(k) /\ There
      BY <2>2
    <3>2. call[k].pc = "publish" /\ call[k].ask.op = "publish" /\ Return(k)
      BY <3>1 DEF Publish, At
    <3>3. call[k] # Idle /\ call'[k] = Idle /\ (call[k].raced = TRUE \/ Knows(call[k]))
      BY <1>1, <3>2, Returned
    <3>4. Assigned # {} \/ call[k].raced = TRUE
      BY <3>1, <3>2, <3>3 DEF Knows, There
    <3> QED
      BY <3>2, <3>3, <3>4 DEF Ends
  <2> QED
    BY <1>1, <2>1, <2>2, StatusSteps
<1>2. Inv /\ [Next]_vars => [opens => ready]_vars
  BY <1>1
<1> QED
  BY <1>2, LifecycleInvariant, PTL DEF Spec, PublishedIsReady

\* "A contest can be finalized when it is currently running or has already ended (but not while
\* still upcoming, draft, or already finalized)" (admin_contests.go:913): only a published
\* contest is finalized; one that no update overlapped, after its start and with its ratings.
THEOREM FinalizedIsCompleteHolds == Spec => FinalizedIsComplete
<1> DEFINE ends == contest.status # "finalized" /\ contest'.status = "finalized"
<1> DEFINE complete ==
      /\ contest.status = "upcoming"
      /\ \/ clock >= contest.start /\ (contest.rated => contest'.applied)
         \/ \E k \in Calls : call[k].raced /\ call'[k] = Idle
<1>1. ASSUME Inv, [Next]_vars, ends PROVE complete
  <2>1. CASE contest = None
    <3>1. CASE \E wish, grouped \in BOOLEAN, s, e \in Times : \E status \in {"draft", "upcoming"} :
                  contest' = New(status, wish, grouped, s, e)
      BY <1>1, <3>1, Created
    <3>2. CASE contest' = contest
      BY <1>1, <3>2
    <3>3. CASE \E k \in Calls : Handler(k)
      <4>1. PICK k \in Calls : Handler(k)
        BY <3>3
      <4>2. call[k] = Idle
        BY <1>1, <2>1 DEF Inv, Locals, Local, None
      <4>3. call[k].pc = "idle" /\ contest = None
        BY <4>2, <2>1 DEF Idle
      <4> QED
        BY <4>1, <4>2, <4>3 DEF Handler, Begin, Fail, Authorize, UpdateRead, UpdateWrite, DeleteCheck, Delete,
             AddOrder, AddInsert, ChangeProblem, PublishGroup, PublishCheck, PublishCount, Publish,
             FinalizeRead, Rate, AlreadyApplied, Commit, Mark, At
    <3> QED
      BY <1>1, <3>1, <3>2, <3>3, LifecycleAssumption DEF Next, CreateContest, AdminCreate, Tick, vars
  <2>2. CASE \E k \in Calls : (Commit(k) \/ Mark(k)) /\ There
    <3>1. PICK k \in Calls : (Commit(k) \/ Mark(k)) /\ There
      BY <2>2
    <3>2. call[k].pc \in {"commit", "mark"} /\ Return(k)
      BY <3>1 DEF Commit, Mark
    <3>3. call[k] # Idle /\ call'[k] = Idle /\ (call[k].raced = TRUE \/ Knows(call[k])) /\ Local(call[k])
      BY <1>1, <3>2, Returned, AtFacts
    <3>4. contest.status = "upcoming"
      <4>1. contest.status \in Statuses
        BY <1>1 DEF Inv, TypeOK, Statuses
      <4> QED
        BY <1>1, <3>1, <3>2, <3>3, <4>1 DEF Local, Rating, Statuses, There
    <3>5. ASSUME Knows(call[k]) PROVE clock >= contest.start /\ (contest.rated => contest'.applied)
      <4>1. CASE Commit(k)
        <5>1. call[k].flag = TRUE
          BY <1>1, <4>1, CommitRow, CallFacts DEF Inv
        <5> QED
          BY <1>1, <3>1, <3>5, <4>1, <5>1, CommitRow DEF Knows, Commit, Rating
      <4>2. CASE Mark(k)
        <5>1. call[k].pc = "mark" /\ call[k].flag = TRUE
          BY <3>3, <4>2 DEF Mark, Local, Rating, At
        <5>2. contest'.applied = contest.applied /\ (contest.rated = FALSE \/ contest.applied = TRUE)
          BY <1>1, <3>5, <4>2, <5>1, MarkRow DEF Knows
        <5> QED
          BY <3>5, <5>1, <5>2 DEF Knows, Rating
      <4> QED
        BY <3>1, <4>1, <4>2
    <3> QED
      BY <3>3, <3>4, <3>5
  <2> QED
    BY <1>1, <2>1, <2>2, StatusSteps
<1>2. Inv /\ [Next]_vars => [ends => complete]_vars
  BY <1>1
<1> QED
  BY <1>2, LifecycleInvariant, PTL DEF Spec, FinalizedIsComplete
=============================================================================
