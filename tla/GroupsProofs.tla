---------------------------- MODULE GroupsProofs ----------------------------
(* Proofs about Groups, for any users, requests and calls: a decision is      *)
(* final, members are explained, and the last admin is guarded.              *)
EXTENDS Groups, FiniteSetTheorems, TLAPS

LEMMA AskTypes ==
    ASSUME NEW a \in Asks
    PROVE  /\ a.user \in Users /\ a.op \in Ops
           /\ a.op = "decide" => a.request \in Requests /\ a.decision \in Decisions
           /\ a.op \in {"add", "update"} => a.target \in Users /\ a.role \in Roles
           /\ a.op = "remove" => a.target \in Users
<1>1. a \in AllAsks
  BY GroupsAssumption
<1>2. CASE a \in [op : {"join", "leave"}, user : Users]
  BY <1>2 DEF Ops
<1>3. CASE a \in [op : {"add", "update"}, user : Users, target : Users, role : Roles]
  BY <1>3 DEF Ops
<1>4. CASE a \in [op : {"remove"}, user : Users, target : Users]
  BY <1>4 DEF Ops
<1>5. CASE a \in [op : {"decide"}, user : Users, request : Requests, decision : Decisions]
  BY <1>5 DEF Ops
<1> QED
  BY <1>1, <1>2, <1>3, <1>4, <1>5 DEF AllAsks

\* The handler of a call that is at the commit or before a write.
StepInv ==
    \A k \in Calls :
        /\ call[k].pc = "commit" => call[k].ask.op = "decide"
        /\ call[k].pc = "lock" => call[k].ask.op = "decide"

\* A transaction has locked a request that is pending, and no other has.
LockInv ==
    /\ \A k \in Calls : call[k].pc = "commit" => Decidable(call[k].ask.request)
    /\ \A j, k \in Calls :
          call[j].pc = "commit" /\ call[k].pc = "commit"
          /\ call[j].ask.request = call[k].ask.request => j = k

-----------------------------------------------------------------------------
\* What the steps do to a call that is in progress.
LEMMA CallFacts ==
    ASSUME TypeOK, NEW k \in Calls, call[k].pc # "idle"
    PROVE  /\ call[k].pc \in PCs /\ call[k].ask \in Asks /\ call[k].clean \in BOOLEAN
           /\ call[k] # Idle
BY DEF TypeOK, CallRows, Idle

LEMMA GoTypes ==
    ASSUME TypeOK, NEW k \in Calls, call[k].pc # "idle", NEW pc \in PCs,
           call' = [call EXCEPT ![k].pc = pc]
    PROVE  call' \in [Calls -> CallRows]
<1>1. call[k] \in [pc : PCs, ask : Asks, clean : BOOLEAN]
  BY DEF TypeOK, CallRows, Idle
<1>2. [call[k] EXCEPT !.pc = pc] \in [pc : PCs, ask : Asks, clean : BOOLEAN]
  BY <1>1
<1> QED
  BY <1>2 DEF TypeOK, CallRows

LEMMA ReturnTypes ==
    ASSUME TypeOK, NEW k \in Calls, Return(k)
    PROVE  call' \in [Calls -> CallRows] /\ call'[k] = Idle
BY DEF TypeOK, CallRows, Return

LEMMA FirstStepType == \A a \in Asks : FirstStep(a) \in PCs
BY DEF FirstStep, PCs

LEMMA NextStepType == \A a \in Asks : a.op \in {"decide", "remove", "add", "update"} => NextStep(a) \in PCs
BY DEF NextStep, PCs, SelfDemotion

\* A call that is being authorized is of one of these four.
AuthInv == \A k \in Calls : call[k].pc = "authorize" => call[k].ask.op \in {"decide", "remove", "add", "update"}

LEMMA InitTypes == Init => TypeOK /\ AuthInv
BY DEF Init, TypeOK, CallRows, JoinRows, Idle, AuthInv

LEMMA SameTypes ==
    ASSUME TypeOK, Same, call' \in [Calls -> CallRows]
    PROVE  TypeOK'
BY DEF Same, TypeOK

\* A call that is idle is not clean.
LEMMA IdleClean == [Idle EXCEPT !.clean = FALSE] = Idle
<1> DEFINE Row == [pc : {"idle"}, ask : {NoRow}, clean : {FALSE}]
<1>1. Idle \in Row
  BY DEF Idle
<1>2. ASSUME NEW x \in Row PROVE x = [pc |-> "idle", ask |-> NoRow, clean |-> FALSE]
  <2>1. x.pc = "idle" /\ x.ask = NoRow /\ x.clean = FALSE
    OBVIOUS
  <2>2. x = [pc |-> x.pc, ask |-> x.ask, clean |-> x.clean]
    OBVIOUS
  <2> QED
    BY <2>1, <2>2
<1>3. Idle \in Row /\ \A x \in Row : x = Idle
  BY <1>1, <1>2 DEF Idle
<1>4. [Idle EXCEPT !.clean = FALSE] \in Row
  BY <1>3
<1> QED
  BY <1>3, <1>4

LEMMA CleanOff ==
    ASSUME TypeOK, NEW j \in Calls
    PROVE  LET c == [call[j] EXCEPT !.clean = FALSE] IN
           c \in CallRows /\ c.pc = call[j].pc /\ c.ask = call[j].ask /\ c.clean = FALSE
<1>1. CASE call[j] = Idle
  <2>1. [Idle EXCEPT !.clean = FALSE] = Idle
    BY IdleClean
  <2> QED
    BY <1>1, <2>1 DEF CallRows, Idle
<1>2. CASE call[j] \in [pc : PCs, ask : Asks, clean : BOOLEAN]
  BY <1>2 DEF CallRows
<1> QED
  BY <1>1, <1>2 DEF TypeOK, CallRows

LEMMA BeginTypes ==
    ASSUME TypeOK, NEW k \in Calls, Begin(k)
    PROVE  call' \in [Calls -> CallRows]
<1>1. PICK a \in Asks :
        call' = [j \in Calls |->
              IF j = k THEN [pc |-> FirstStep(a), ask |-> a,
                             clean |-> \A i \in Calls \ {k} : call[i] = Idle]
              ELSE [call[j] EXCEPT !.clean = FALSE]]
  BY DEF Begin
<1>2. [pc |-> FirstStep(a), ask |-> a, clean |-> \A i \in Calls \ {k} : call[i] = Idle]
         \in [pc : PCs, ask : Asks, clean : BOOLEAN]
  BY FirstStepType
<1>3. ASSUME NEW j \in Calls PROVE [call[j] EXCEPT !.clean = FALSE] \in CallRows
  BY CleanOff
<1> QED
  BY <1>1, <1>2, <1>3 DEF CallRows

LEMMA NextTypes == TypeOK /\ AuthInv /\ LockInv /\ [Next]_vars => TypeOK'
<1> SUFFICES ASSUME TypeOK, AuthInv, LockInv, [Next]_vars PROVE TypeOK'
  OBVIOUS
<1>1. ASSUME NEW v \in Users, NEW others \in SUBSET Users, Create(v, others) PROVE TypeOK'
  <2>1. call' \in [Calls -> CallRows]
    BY <1>1, CleanOff DEF Create
  <2> QED
    BY <1>1, <2>1 DEF Create, TypeOK, Roles
<1>2. CASE Delete
  <2>1. join' \in [Requests -> JoinRows]
    BY <1>2 DEF Delete, TypeOK, JoinRows, Statuses
  <2> QED
    BY <1>2, <2>1 DEF Delete, TypeOK
<1>3. ASSUME NEW v \in Users, Cancel(v) PROVE TypeOK'
  <2>1. join' \in [Requests -> JoinRows]
    BY <1>3 DEF Cancel, Pending, TypeOK, JoinRows, Statuses
  <2> QED
    BY <1>3, <2>1 DEF Cancel, TypeOK
<1>4. ASSUME NEW k \in Calls, Begin(k) PROVE TypeOK'
  BY <1>4, BeginTypes, SameTypes DEF Begin
<1>5. ASSUME NEW k \in Calls, Fail(k) PROVE TypeOK'
  BY <1>5, ReturnTypes, SameTypes DEF Fail
<1>6. ASSUME NEW k \in Calls, Authorize(k) PROVE TypeOK'
  <2>1. NextStep(call[k].ask) \in PCs
    BY <1>6, CallFacts, NextStepType DEF Authorize, AuthInv
  <2> QED
    BY <1>6, <2>1, GoTypes, ReturnTypes, SameTypes DEF Authorize, GoIf, Go
<1>7. ASSUME NEW k \in Calls, Count(k) PROVE TypeOK'
  BY <1>7, GoTypes, ReturnTypes, SameTypes DEF Count, GoIf, Go, PCs
<1>8. ASSUME NEW k \in Calls, JoinGroup(k) \/ JoinMember(k) PROVE TypeOK'
  BY <1>8, GoTypes, ReturnTypes, SameTypes DEF JoinGroup, JoinMember, At, GoIf, Go, PCs
<1>9. ASSUME NEW k \in Calls, JoinInsert(k) PROVE TypeOK'
  <2>1. call[k].ask.user \in Users
    BY <1>9, CallFacts, AskTypes DEF JoinInsert, At
  <2>2. join' \in [Requests -> JoinRows]
    BY <1>9, <2>1 DEF JoinInsert, TypeOK, JoinRows, Statuses
  <2> QED
    BY <1>9, <2>2, ReturnTypes DEF JoinInsert, TypeOK
<1>10. ASSUME NEW k \in Calls, LeaveRole(k) \/ RemoveRole(k) PROVE TypeOK'
  BY <1>10, GoTypes, ReturnTypes, SameTypes DEF LeaveRole, RemoveRole, At, Go, PCs
<1>11. ASSUME NEW k \in Calls, RemoveRoleFails(k) PROVE TypeOK'
  <2>1. call[k] \in [pc : PCs, ask : Asks, clean : BOOLEAN]
    BY <1>11 DEF RemoveRoleFails, At, TypeOK, CallRows, Idle
  <2>2. [call[k] EXCEPT !.pc = "write", !.clean = FALSE] \in [pc : PCs, ask : Asks, clean : BOOLEAN]
    BY <2>1 DEF PCs
  <2>3. call' = [call EXCEPT ![k] = [call[k] EXCEPT !.pc = "write", !.clean = FALSE]]
    BY <1>11 DEF RemoveRoleFails, TypeOK
  <2>4. call' \in [Calls -> CallRows]
    BY <2>2, <2>3 DEF TypeOK, CallRows
  <2> QED
    BY <1>11, <2>4, SameTypes DEF RemoveRoleFails
<1>12. ASSUME NEW k \in Calls, Leave(k) PROVE TypeOK'
  <2>1. member' \in [Users -> Roles \cup {NoRow}]
    BY <1>12 DEF Leave, TypeOK
  <2> QED
    BY <1>12, <2>1, ReturnTypes DEF Leave, TypeOK
<1>13. ASSUME NEW k \in Calls, Update(k) PROVE TypeOK'
  <2>1. call[k].ask.role \in Roles
    BY <1>13, CallFacts, AskTypes DEF Update, At
  <2>2. member' \in [Users -> Roles \cup {NoRow}]
    BY <1>13, <2>1 DEF Update, TypeOK
  <2> QED
    BY <1>13, <2>2, ReturnTypes DEF Update, TypeOK
<1>14. ASSUME NEW k \in Calls, Add(k) PROVE TypeOK'
  <2>1. call[k].ask.role \in Roles /\ call[k].ask.target \in Users
    BY <1>14, CallFacts, AskTypes DEF Add, At
  <2>2. member' \in [Users -> Roles \cup {NoRow}] /\ added' \subseteq Users
    BY <1>14, <2>1 DEF Add, TypeOK
  <2> QED
    BY <1>14, <2>2, ReturnTypes DEF Add, TypeOK
<1>15. ASSUME NEW k \in Calls, DecideLock(k) PROVE TypeOK'
  BY <1>15, GoTypes, ReturnTypes, SameTypes DEF DecideLock, At, GoIf, Go, PCs
<1>16. ASSUME NEW k \in Calls, DecideCommit(k) PROVE TypeOK'
  <2>1. call[k].ask.request \in Requests /\ call[k].ask.decision \in Decisions
    BY <1>16, CallFacts, AskTypes DEF DecideCommit, At
  <2>2. join' \in [Requests -> JoinRows]
    <3> DEFINE r == call[k].ask.request  d == call[k].ask.decision
    <3>1. join' = [join EXCEPT ![r].status = d] /\ join[r] \in JoinRows /\ join[r] # NoRow
      BY <1>16, <2>1 DEF DecideCommit, TypeOK, LockInv, Decidable, At
    <3>2. [join[r] EXCEPT !.status = d] \in JoinRows
      BY <2>1, <3>1 DEF JoinRows, Statuses, Decisions
    <3> QED
      BY <3>1, <3>2 DEF TypeOK
  <2>3. member' \in [Users -> Roles \cup {NoRow}]
    BY <1>16, <2>1 DEF DecideCommit, TypeOK, RoleAfter, Roles
  <2> QED
    BY <1>16, <2>2, <2>3, ReturnTypes DEF DecideCommit, TypeOK
<1>17. CASE UNCHANGED vars
  BY <1>17 DEF vars, TypeOK
<1> QED
  BY <1>1, <1>2, <1>3, <1>4, <1>5, <1>6, <1>7, <1>8, <1>9, <1>10, <1>11, <1>12, <1>13,
     <1>14, <1>15, <1>16, <1>17 DEF Next, Handler

-----------------------------------------------------------------------------
\* A step of the call k alone: the others stay as they are.
LEMMA GoFacts ==
    ASSUME TypeOK, NEW k \in Calls, call[k].pc # "idle", NEW pc, Go(k, pc)
    PROVE  /\ call'[k].pc = pc /\ call'[k].ask = call[k].ask
           /\ \A j \in Calls \ {k} : call'[j] = call[j]
<1>1. call[k] \in [pc : PCs, ask : Asks, clean : BOOLEAN]
  BY DEF TypeOK, CallRows, Idle
<1>2. call'[k] = [call[k] EXCEPT !.pc = pc] /\ \A j \in Calls \ {k} : call'[j] = call[j]
  BY DEF TypeOK, Go
<1> QED
  BY <1>1, <1>2

LEMMA ReturnFacts ==
    ASSUME TypeOK, NEW k \in Calls, Return(k)
    PROVE  call'[k] = Idle /\ \A j \in Calls \ {k} : call'[j] = call[j]
BY DEF TypeOK, Return

\* What a handler does to the calls, when it does not begin: it returns, or it goes on
\* with the same ask.  It reaches the commit only over a request that is pending and
\* that no other call has locked.
Moves(k) ==
    /\ \A j \in Calls \ {k} : call'[j] = call[j]
    /\ \/ call'[k] = Idle
       \/ /\ call'[k].ask = call[k].ask /\ call'[k].pc # "authorize"
          /\ call'[k].pc = "lock" => call[k].ask.op = "decide"
          /\ call'[k].pc = "commit" =>
                /\ call[k].ask.op = "decide" /\ join' = join
                /\ Decidable(call[k].ask.request) /\ ~Locked(call[k].ask.request)

LEMMA HandlerMoves ==
    ASSUME TypeOK, AuthInv, NEW k \in Calls, Handler(k), ~Begin(k)
    PROVE  Moves(k)
<1>1. ASSUME Return(k) PROVE Moves(k)
  BY <1>1, ReturnFacts DEF Moves
<1>2. ASSUME call[k].pc # "idle", NEW pc \in {"group", "member", "role", "count", "write"}, Go(k, pc)
      PROVE Moves(k)
  BY <1>2, GoFacts DEF Moves
<1>3. CASE Authorize(k)
  <2>1. CASE Go(k, NextStep(call[k].ask))
    <3>1. call[k].ask.op \in {"decide", "remove", "add", "update"} /\ call[k].pc # "idle"
      BY <1>3 DEF Authorize, AuthInv
    <3>2. NextStep(call[k].ask) \notin {"authorize", "commit"}
      BY <3>1 DEF NextStep, SelfDemotion
    <3>3. NextStep(call[k].ask) = "lock" => call[k].ask.op = "decide"
      BY <3>1 DEF NextStep, SelfDemotion
    <3> QED
      BY <2>1, <3>1, <3>2, <3>3, GoFacts DEF Moves
  <2> QED
    BY <1>1, <1>3, <2>1 DEF Authorize, GoIf
<1>4. CASE DecideLock(k)
  <2>1. CASE Go(k, "commit") /\ Decidable(call[k].ask.request)
    BY <1>4, <2>1, GoFacts DEF Moves, DecideLock, At, Same
  <2> QED
    BY <1>1, <1>4, <2>1 DEF DecideLock, GoIf
<1>5. CASE RemoveRoleFails(k)
  <2>1. call[k] \in [pc : PCs, ask : Asks, clean : BOOLEAN]
    BY <1>5 DEF RemoveRoleFails, At, TypeOK, CallRows, Idle
  <2>2. call' = [call EXCEPT ![k] = [call[k] EXCEPT !.pc = "write", !.clean = FALSE]]
    BY <1>5 DEF RemoveRoleFails, TypeOK
  <2>3. call'[k] = [call[k] EXCEPT !.pc = "write", !.clean = FALSE]
        /\ \A j \in Calls \ {k} : call'[j] = call[j]
    BY <2>2 DEF TypeOK
  <2>4. call'[k].pc = "write" /\ call'[k].ask = call[k].ask
    BY <2>1, <2>3
  <2> QED
    BY <2>3, <2>4 DEF Moves
<1>6. CASE Fail(k) \/ JoinInsert(k) \/ Leave(k) \/ Update(k) \/ Add(k) \/ DecideCommit(k)
  BY <1>1, <1>6 DEF Fail, JoinInsert, Leave, Update, Add, DecideCommit
<1>7. CASE JoinGroup(k) \/ JoinMember(k) \/ LeaveRole(k) \/ RemoveRole(k) \/ Count(k)
  BY <1>1, <1>2, <1>7 DEF JoinGroup, JoinMember, LeaveRole, RemoveRole, Count, At, GoIf
<1> QED
  BY <1>3, <1>4, <1>5, <1>6, <1>7 DEF Handler

\* A new call is at one of the first steps.
LEMMA BeginMoves ==
    ASSUME TypeOK, NEW k \in Calls, Begin(k)
    PROVE  /\ \A j \in Calls \ {k} : call'[j].pc = call[j].pc /\ call'[j].ask = call[j].ask
           /\ call'[k].pc \notin {"commit", "lock"}
           /\ call'[k].pc = "authorize" => call'[k].ask.op \in {"decide", "remove", "add", "update"}
<1>1. PICK a \in Asks :
        call' = [j \in Calls |->
              IF j = k THEN [pc |-> FirstStep(a), ask |-> a,
                             clean |-> \A i \in Calls \ {k} : call[i] = Idle]
              ELSE [call[j] EXCEPT !.clean = FALSE]]
  BY DEF Begin
<1>2. call'[k].pc = FirstStep(a) /\ call'[k].ask = a
  BY <1>1
<1>3. \A j \in Calls \ {k} : call'[j].pc = call[j].pc /\ call'[j].ask = call[j].ask
  BY <1>1, CleanOff
<1>4. a.op \in Ops
  BY AskTypes
<1>5. FirstStep(a) \notin {"commit", "lock"}
  BY <1>4 DEF FirstStep, Ops
<1>6. FirstStep(a) = "authorize" => a.op \in {"decide", "remove", "add", "update"}
  BY <1>4 DEF FirstStep, Ops
<1> QED
  BY <1>2, <1>3, <1>5, <1>6

\* The other steps keep the step and the ask of every call.
Still == \A j \in Calls : call'[j].pc = call[j].pc /\ call'[j].ask = call[j].ask

LEMMA CreateStill ==
    ASSUME TypeOK, NEW v \in Users, NEW others \in SUBSET Users, Create(v, others)
    PROVE  Still
BY CleanOff DEF Create, Still

LEMMA NextSteps == TypeOK /\ AuthInv /\ StepInv /\ [Next]_vars => AuthInv' /\ StepInv'
<1> SUFFICES ASSUME TypeOK, AuthInv, StepInv, [Next]_vars PROVE AuthInv' /\ StepInv'
  OBVIOUS
<1>1. ASSUME Still PROVE AuthInv' /\ StepInv'
  BY <1>1 DEF Still, AuthInv, StepInv
<1>2. ASSUME NEW k \in Calls, Begin(k) PROVE AuthInv' /\ StepInv'
  BY <1>2, BeginMoves DEF AuthInv, StepInv
<1>3. ASSUME NEW k \in Calls, Moves(k) PROVE AuthInv' /\ StepInv'
  BY <1>3 DEF Moves, Idle, AuthInv, StepInv
<1>4. CASE Delete \/ (\E v \in Users : Cancel(v)) \/ UNCHANGED vars
  BY <1>1, <1>4 DEF Delete, Cancel, vars, Still
<1> QED
  BY <1>1, <1>2, <1>3, <1>4, CreateStill, HandlerMoves DEF Next, Handler

-----------------------------------------------------------------------------
\* What a step does to the requests.  A row that is new changes nobody else's; a row that
\* is pending and that no other call has locked may be decided or cancelled; rows that are
\* decided change only with the group.
JoinFacts ==
    \A r \in Requests :
        \/ join'[r] = join[r]
        \/ join[r] = NoRow
        \/ Decidable(r)
        \/ group' = "deleted"

LEMMA NextJoin == TypeOK /\ AuthInv /\ StepInv /\ LockInv /\ [Next]_vars => JoinFacts
<1> SUFFICES ASSUME TypeOK, AuthInv, StepInv, LockInv, [Next]_vars PROVE JoinFacts
  OBVIOUS
<1>1. CASE Delete
  BY <1>1 DEF Delete, JoinFacts
<1>2. ASSUME NEW v \in Users, Cancel(v) PROVE JoinFacts
  BY <1>2 DEF Cancel, Pending, Decidable, JoinFacts
<1>3. ASSUME NEW k \in Calls, JoinInsert(k) PROVE JoinFacts
  BY <1>3 DEF JoinInsert, JoinFacts, TypeOK
<1>4. ASSUME NEW k \in Calls, DecideCommit(k) PROVE JoinFacts
  BY <1>4 DEF DecideCommit, At, LockInv, JoinFacts, TypeOK
<1>5. CASE join' = join
  BY <1>5 DEF JoinFacts
<1>6. ASSUME NEW k \in Calls, Handler(k), ~JoinInsert(k), ~DecideCommit(k) PROVE join' = join
  BY <1>6 DEF Handler, Begin, Fail, Authorize, Count, JoinGroup, JoinMember, LeaveRole, RemoveRole,
              RemoveRoleFails, Leave, Update, Add, DecideLock, Same
<1> QED
  BY <1>1, <1>2, <1>3, <1>4, <1>5, <1>6 DEF Next, Create, vars

\* A request that a call has locked changes only by the step of that call.
LEMMA LockedStay ==
    ASSUME TypeOK, AuthInv, StepInv, LockInv, [Next]_vars,
           NEW j \in Calls, call[j].pc = "commit", ~DecideCommit(j)
    PROVE  join'[call[j].ask.request] = join[call[j].ask.request]
<1> DEFINE r == call[j].ask.request
<1>1. r \in Requests /\ Locked(r) /\ Decidable(r)
  BY CallFacts, AskTypes DEF StepInv, LockInv, Locked
<1>2. CASE Delete
  BY <1>1, <1>2 DEF Delete
<1>3. ASSUME NEW v \in Users, Cancel(v) PROVE join'[r] = join[r]
  <2>1. r \notin Pending(v)
    BY <1>1, <1>3 DEF Cancel
  <2> QED
    BY <1>1, <1>3, <2>1 DEF Cancel
<1>4. ASSUME NEW k \in Calls, JoinInsert(k) PROVE join'[r] = join[r]
  BY <1>1, <1>4 DEF JoinInsert, TypeOK, Decidable
<1>5. ASSUME NEW k \in Calls, DecideCommit(k) PROVE join'[r] = join[r]
  <2>1. call[k].ask.request # r
    BY <1>5 DEF LockInv, DecideCommit, At
  <2> QED
    BY <1>1, <1>5, <2>1 DEF DecideCommit, TypeOK
<1>6. CASE join' = join
  BY <1>6
<1>7. ASSUME NEW k \in Calls, Handler(k), ~JoinInsert(k), ~DecideCommit(k) PROVE join' = join
  BY <1>7 DEF Handler, Begin, Fail, Authorize, Count, JoinGroup, JoinMember, LeaveRole, RemoveRole,
              RemoveRoleFails, Leave, Update, Add, DecideLock, Same
<1> QED
  BY <1>2, <1>3, <1>4, <1>5, <1>6, <1>7 DEF Next, Create, vars

LEMMA NextLock == TypeOK /\ AuthInv /\ StepInv /\ LockInv /\ [Next]_vars => LockInv'
<1> SUFFICES ASSUME TypeOK, AuthInv, StepInv, LockInv, [Next]_vars PROVE LockInv'
  OBVIOUS
<1>1. CASE Still
  <2>1. ASSUME NEW j \in Calls, call[j].pc = "commit" PROVE ~DecideCommit(j)
    BY <1>1, <2>1, ReturnFacts DEF DecideCommit, Still, Idle
  <2> QED
    BY <1>1, <2>1, LockedStay DEF Still, LockInv, Decidable
<1>2. ASSUME NEW k \in Calls, Begin(k) PROVE LockInv'
  <2>1. join' = join
    BY <1>2 DEF Begin, Same
  <2> QED
    BY <1>2, <2>1, BeginMoves DEF LockInv, Decidable
<1>3. ASSUME NEW k \in Calls, Moves(k) PROVE LockInv'
  <2>1. ASSUME NEW j \in Calls \ {k}, call[j].pc = "commit"
        PROVE  join'[call[j].ask.request] = join[call[j].ask.request]
    <3>1. ~DecideCommit(j)
      <4>1. ASSUME DecideCommit(j) PROVE FALSE
        BY <1>3, <2>1, <4>1, ReturnFacts DEF DecideCommit, Moves, Idle
      <4> QED
        BY <4>1
    <3> QED
      BY <2>1, <3>1, LockedStay
  <2>2. ASSUME call'[k].pc = "commit"
        PROVE  /\ call'[k].ask = call[k].ask /\ join' = join
               /\ Decidable(call[k].ask.request) /\ ~Locked(call[k].ask.request)
    BY <1>3, <2>2 DEF Moves, Idle
  <2>3. \A j \in Calls \ {k} : call'[j] = call[j]
    BY <1>3 DEF Moves
  <2>4. ASSUME NEW j \in Calls, call'[j].pc = "commit" PROVE Decidable(call[j].ask.request)'
    BY <2>1, <2>2, <2>3, <2>4 DEF LockInv, Decidable
  <2>5. ASSUME NEW i \in Calls, NEW j \in Calls, call'[i].pc = "commit", call'[j].pc = "commit",
               call'[i].ask.request = call'[j].ask.request
        PROVE  i = j
    BY <2>2, <2>3, <2>5 DEF LockInv, Locked
  <2> QED
    BY <2>4, <2>5 DEF LockInv
<1>4. CASE Delete \/ (\E v \in Users : Cancel(v)) \/ UNCHANGED vars
  BY <1>1, <1>4 DEF Delete, Cancel, vars, Still
<1> QED
  BY <1>1, <1>2, <1>3, <1>4, CreateStill, HandlerMoves DEF Next, Handler

-----------------------------------------------------------------------------
\* Members: a member who is new was added, or a request of hers is approved by the step.
LEMMA NextExplained ==
    TypeOK /\ AuthInv /\ StepInv /\ LockInv /\ MembersAreExplained /\ [Next]_vars => MembersAreExplained'
<1> SUFFICES ASSUME TypeOK, AuthInv, StepInv, LockInv, MembersAreExplained, [Next]_vars
             PROVE  MembersAreExplained'
  OBVIOUS
<1> DEFINE Approved(u, j) == \E r \in Requests : j[r] # NoRow /\ j[r].user = u /\ j[r].status = "approved"
<1>1. ASSUME group' # "deleted", NEW u \in Users, Approved(u, join) PROVE Approved(u, join')
  BY <1>1, NextJoin DEF JoinFacts, Decidable
<1>2. ASSUME NEW v \in Users, NEW others \in SUBSET Users, Create(v, others) PROVE MembersAreExplained'
  BY <1>2 DEF Create, MembersAreExplained
<1>3. CASE Delete
  BY <1>3 DEF Delete, MembersAreExplained
<1>4. ASSUME added \subseteq added', Delete \/ join' = join \/ group' # "deleted",
             \A u \in Users \ added' : member'[u] # NoRow => member[u] # NoRow
      PROVE MembersAreExplained'
  BY <1>1, <1>3, <1>4 DEF MembersAreExplained
<1>5. ASSUME NEW v \in Users, Cancel(v) PROVE MembersAreExplained'
  BY <1>5 DEF Cancel, Pending, MembersAreExplained
<1>6. ASSUME NEW k \in Calls, DecideCommit(k) PROVE MembersAreExplained'
  <2> DEFINE a == call[k].ask
             r == a.request
             u == join[r].user
  <2>1. r \in Requests /\ Decidable(r) /\ a.decision \in Decisions
    BY <1>6, CallFacts, AskTypes DEF DecideCommit, At, LockInv
  <2>2. join[r] \in [user : Users, status : Statuses]
    BY <2>1 DEF TypeOK, JoinRows, Decidable
  <2>3. join' = [join EXCEPT ![r] = [join[r] EXCEPT !.status = a.decision]]
    BY <1>6 DEF DecideCommit, TypeOK
  <2>4. join'[r] = [join[r] EXCEPT !.status = a.decision] /\ \A x \in Requests \ {r} : join'[x] = join[x]
    BY <2>1, <2>3 DEF TypeOK
  <2>5. [join[r] EXCEPT !.status = a.decision] \in [user : Users, status : Statuses]
    BY <2>1, <2>2 DEF Decisions, Statuses
  <2>6. join'[r].user = u /\ join'[r].status = a.decision
    BY <2>2, <2>4
  <2>7. join'[r] # NoRow
    BY <2>4, <2>5, GroupsAssumption
  <2>8. ASSUME NEW w \in Users \ added', member'[w] # NoRow PROVE Approved(w, join')
    <3>1. added' = added /\ \A x \in Users : x = u \/ member'[x] = member[x]
      BY <1>6 DEF DecideCommit, TypeOK
    <3>2. CASE member'[w] = member[w]
      <4>1. PICK x \in Requests : join[x] # NoRow /\ join[x].user = w /\ join[x].status = "approved"
        BY <2>8, <3>1, <3>2 DEF MembersAreExplained
      <4>2. x # r
        BY <2>1, <4>1 DEF Decidable
      <4> QED
        BY <2>4, <4>1, <4>2
    <3>3. CASE w = u /\ member'[w] # member[w]
      <4>1. a.decision = "approved"
        BY <1>6, <3>3 DEF DecideCommit, Admits
      <4> QED
        BY <2>1, <2>6, <2>7, <3>3, <4>1
    <3> QED
      BY <2>8, <3>1, <3>2, <3>3
  <2> QED
    BY <2>8 DEF MembersAreExplained
<1>7. ASSUME NEW k \in Calls, JoinInsert(k) PROVE MembersAreExplained'
  BY <1>4, <1>7 DEF JoinInsert
<1>8. ASSUME NEW k \in Calls, Leave(k) \/ Update(k) PROVE MembersAreExplained'
  <2>1. \A u \in Users : member'[u] # NoRow => member[u] # NoRow
    BY <1>8 DEF Leave, Update, TypeOK
  <2> QED
    BY <1>4, <1>8, <2>1 DEF Leave, Update
<1>9. ASSUME NEW k \in Calls, Add(k) PROVE MembersAreExplained'
  <2>1. \A u \in Users \ added' : member'[u] # NoRow => member[u] # NoRow
    BY <1>9 DEF Add, TypeOK
  <2>2. added \subseteq added' /\ join' = join
    BY <1>9 DEF Add
  <2> QED
    BY <1>4, <2>1, <2>2
<1>10. CASE Same
  BY <1>10 DEF Same, MembersAreExplained
<1>11. CASE UNCHANGED vars
  BY <1>11 DEF vars, MembersAreExplained
<1>12. ASSUME NEW k \in Calls, Handler(k), ~(JoinInsert(k) \/ DecideCommit(k) \/ Leave(k) \/ Update(k) \/ Add(k))
       PROVE  Same
  BY <1>12 DEF Handler, Begin, Fail, Authorize, Count, JoinGroup, JoinMember, LeaveRole, RemoveRole,
               RemoveRoleFails, DecideLock
<1> QED
  BY <1>2, <1>3, <1>5, <1>6, <1>7, <1>8, <1>9, <1>10, <1>11, <1>12 DEF Next

-----------------------------------------------------------------------------
IInv == TypeOK /\ AuthInv /\ StepInv /\ LockInv /\ MembersAreExplained

LEMMA InitIInv == Init => IInv
BY InitTypes DEF Init, IInv, StepInv, LockInv, MembersAreExplained, Idle

LEMMA Inductive == IInv /\ [Next]_vars => IInv'
BY NextTypes, NextSteps, NextLock, NextExplained DEF IInv

LEMMA SpecIInv == Spec => []IInv
BY InitIInv, Inductive, PTL DEF Spec

\* Every variable keeps its type, whatever the users, requests and calls are.
THEOREM GroupTypes == Spec => []TypeOK
<1>1. IInv => TypeOK
  BY DEF IInv
<1> QED
  BY <1>1, SpecIInv, PTL

\* Whoever is a member was added by an admin or has a request that was approved
\* (AdminDecideJoinRequest), in every interleaving of decisions and cancellations.
THEOREM MembersAreExplainedHolds == Spec => []MembersAreExplained
<1>1. IInv => MembersAreExplained
  BY DEF IInv
<1> QED
  BY <1>1, SpecIInv, PTL

\* A decision is final ("Request is not pending"): the lock of the transaction covers the
\* step from the check to the update.
THEOREM DecisionIsFinalHolds == Spec => DecisionIsFinal
<1>1. IInv /\ [Next]_vars =>
        [\A r \in Requests :
           join[r] # NoRow /\ join[r].status \in Decisions /\ group' = "there"
           => join'[r] = join[r]]_vars
  <2> SUFFICES ASSUME IInv, [Next]_vars, NEW r \in Requests,
                      join[r] # NoRow, join[r].status \in Decisions, group' = "there"
               PROVE  join'[r] = join[r]
    OBVIOUS
  <2>1. JoinFacts
    BY NextJoin DEF IInv
  <2> QED
    BY <2>1 DEF JoinFacts, Decidable, Decisions
<1> QED
  BY <1>1, SpecIInv, PTL DEF Spec, DecisionIsFinal

-----------------------------------------------------------------------------
\* The last admin.  A call that is clean is alone, and one that is about to take the role
\* of an admin away has counted another one.
Takes(a) == a.op \in {"leave", "remove"} \/ SelfDemotion(a)
Another(v, m) == \E w \in Users \ {v} : m[w] = "admin"

CleanInv ==
    \A k \in Calls : call[k].clean =>
        /\ \A j \in Calls \ {k} : call[j] = Idle
        /\ call[k].pc = "write" /\ Takes(call[k].ask) /\ member[Going(call[k].ask)] = "admin"
              => Another(Going(call[k].ask), member)

LEMMA TwoAdmins == ASSUME TypeOK, Cardinality(Admins) > 1, NEW v PROVE Another(v, member)
<1>1. Admins \subseteq Users /\ IsFiniteSet(Admins)
  BY GroupsAssumption, FS_Subset DEF Admins
<1>2. ASSUME ~Another(v, member) PROVE FALSE
  <2>1. Admins \subseteq {v}
    BY <1>2 DEF Another, Admins
  <2>2. IsFiniteSet({v}) /\ Cardinality({v}) = 1
    BY FS_Singleton
  <2>3. Cardinality(Admins) <= 1
    BY <2>1, <2>2, FS_Subset
  <2>4. Cardinality(Admins) \in Nat
    BY <1>1, FS_CardinalityType
  <2> QED
    BY <2>3, <2>4
<1> QED
  BY <1>2

\* A call that goes on may get to the write of its handler only if another admin remains,
\* as long as it is clean.
LEMMA WriteMoves ==
    ASSUME TypeOK, AuthInv, NEW k \in Calls, Handler(k), ~Begin(k),
           call'[k].clean, call'[k].pc = "write", Takes(call'[k].ask),
           member'[Going(call'[k].ask)] = "admin"
    PROVE  Another(Going(call'[k].ask), member')
<1> DEFINE a == call[k].ask
<1>1. ~Return(k)
  BY ReturnFacts DEF Idle
<1>2. ASSUME call[k].pc # "idle", NEW pc, Go(k, pc) PROVE pc = "write" /\ call'[k].ask = a
  BY <1>2, GoFacts
<1>3. CASE Authorize(k)
  <2>1. call[k].pc # "idle" /\ a.op \in {"decide", "remove", "add", "update"}
    BY <1>3 DEF Authorize, AuthInv
  <2>2. NextStep(a) = "write" /\ call'[k].ask = a
    BY <1>1, <1>2, <1>3, <2>1 DEF Authorize, GoIf
  <2>3. NextStep(a) = "write" => ~Takes(a)
    BY <2>1 DEF NextStep, Takes, SelfDemotion
  <2> QED
    BY <2>2, <2>3
<1>4. CASE Count(k)
  <2>1. Cardinality(Admins) > 1 /\ member' = member /\ call[k].pc # "idle"
    BY <1>1, <1>4 DEF Count, GoIf, EnoughAdmins, Same
  <2> QED
    BY <2>1, TwoAdmins DEF Another
<1>5. CASE JoinMember(k)
  <2>1. call'[k].ask = a /\ a.op = "join"
    BY <1>1, <1>2, <1>5 DEF JoinMember, At, GoIf
  <2> QED
    BY <2>1 DEF Takes, SelfDemotion
<1>6. CASE LeaveRole(k)
  <2>1. /\ call'[k].ask = a /\ a.op = "leave" /\ member' = member
        /\ member[a.user] # "admin"
    BY <1>1, <1>2, <1>6 DEF LeaveRole, At, Same
  <2> QED
    BY <2>1 DEF Going
<1>7. CASE RemoveRole(k)
  <2>1. /\ call'[k].ask = a /\ a.op = "remove" /\ member' = member
        /\ member[a.target] # "admin"
    BY <1>1, <1>2, <1>7 DEF RemoveRole, At, Same
  <2> QED
    BY <2>1 DEF Going
<1>8. CASE RemoveRoleFails(k)
  <2>1. call[k] \in [pc : PCs, ask : Asks, clean : BOOLEAN]
    BY <1>8 DEF RemoveRoleFails, At, TypeOK, CallRows, Idle
  <2>2. call' = [call EXCEPT ![k] = [call[k] EXCEPT !.pc = "write", !.clean = FALSE]]
    BY <1>8 DEF RemoveRoleFails, TypeOK
  <2>3. call'[k] = [call[k] EXCEPT !.pc = "write", !.clean = FALSE]
    BY <2>2 DEF TypeOK
  <2>4. call'[k].clean = FALSE
    BY <2>1, <2>3
  <2> QED
    BY <2>4
<1>9. ~(JoinGroup(k) \/ DecideLock(k))
  BY <1>1, <1>2 DEF JoinGroup, DecideLock, At, GoIf
<1>10. ~(Fail(k) \/ JoinInsert(k) \/ Leave(k) \/ Update(k) \/ Add(k) \/ DecideCommit(k))
  BY <1>1 DEF Fail, JoinInsert, Leave, Update, Add, DecideCommit
<1> QED
  BY <1>3, <1>4, <1>5, <1>6, <1>7, <1>8, <1>9, <1>10 DEF Handler

\* A call that begins, or that goes on, is clean only if it is alone.
LEMMA CleanMoves ==
    ASSUME TypeOK, CleanInv, NEW k \in Calls, Handler(k), ~Begin(k), call'[k].clean
    PROVE  call[k].clean
<1>1. call[k] # Idle => call[k] \in [pc : PCs, ask : Asks, clean : BOOLEAN]
  BY DEF TypeOK, CallRows
<1>2. ~Return(k)
  BY ReturnFacts DEF Idle
<1>3. ASSUME call[k].pc # "idle", NEW pc, Go(k, pc) PROVE call'[k].clean = call[k].clean
  <2>1. call[k] \in [pc : PCs, ask : Asks, clean : BOOLEAN]
    BY <1>1, <1>3 DEF Idle
  <2>2. call'[k] = [call[k] EXCEPT !.pc = pc]
    BY <1>3 DEF TypeOK, Go
  <2> QED
    BY <2>1, <2>2
<1>4. CASE RemoveRoleFails(k)
  <2>1. call[k] \in [pc : PCs, ask : Asks, clean : BOOLEAN]
    BY <1>1, <1>4 DEF RemoveRoleFails, At, Idle
  <2>2. call' = [call EXCEPT ![k] = [call[k] EXCEPT !.pc = "write", !.clean = FALSE]]
    BY <1>4 DEF RemoveRoleFails, TypeOK
  <2>3. call'[k] = [call[k] EXCEPT !.pc = "write", !.clean = FALSE]
    BY <2>2 DEF TypeOK
  <2>4. call'[k].clean = FALSE
    BY <2>1, <2>3
  <2> QED
    BY <2>4
<1>5. CASE Authorize(k)
  BY <1>2, <1>3, <1>5 DEF Authorize, GoIf
<1>6. CASE JoinGroup(k) \/ JoinMember(k) \/ LeaveRole(k) \/ RemoveRole(k) \/ Count(k) \/ DecideLock(k)
  BY <1>2, <1>3, <1>6 DEF JoinGroup, JoinMember, LeaveRole, RemoveRole, Count, DecideLock, At, GoIf
<1>7. CASE Fail(k) \/ JoinInsert(k) \/ Leave(k) \/ Update(k) \/ Add(k) \/ DecideCommit(k)
  BY <1>2, <1>7 DEF Fail, JoinInsert, Leave, Update, Add, DecideCommit
<1> QED
  BY <1>4, <1>5, <1>6, <1>7 DEF Handler

LEMMA InitClean == Init => CleanInv
BY DEF Init, CleanInv, Idle

LEMMA NextClean == TypeOK /\ AuthInv /\ CleanInv /\ [Next]_vars => CleanInv'
<1> SUFFICES ASSUME TypeOK, AuthInv, CleanInv, [Next]_vars PROVE CleanInv'
  OBVIOUS
<1>1. ASSUME NEW v \in Users, NEW others \in SUBSET Users, Create(v, others) PROVE CleanInv'
  <2>1. \A j \in Calls : call'[j].clean = FALSE
    BY <1>1, CleanOff DEF Create
  <2> QED
    BY <2>1 DEF CleanInv
<1>2. CASE Delete
  <2>1. ASSUME NEW k \in Calls, call[k].pc = "write", Takes(call[k].ask)
        PROVE  member'[Going(call[k].ask)] # "admin"
    <3>1. Going(call[k].ask) \in Users
      BY <2>1, CallFacts, AskTypes DEF Takes, SelfDemotion, Going
    <3> QED
      BY <1>2, <3>1, GroupsAssumption DEF Delete, Roles
  <2> QED
    BY <1>2, <2>1 DEF Delete, CleanInv
<1>3. ASSUME NEW v \in Users, Cancel(v) PROVE CleanInv'
  BY <1>3 DEF Cancel, CleanInv, Another
<1>7. CASE UNCHANGED vars
  BY <1>7 DEF vars, CleanInv, Another
<1>4. ASSUME NEW k \in Calls, Begin(k) PROVE CleanInv'
  <2>1. PICK a \in Asks :
        call' = [j \in Calls |->
              IF j = k THEN [pc |-> FirstStep(a), ask |-> a,
                             clean |-> \A i \in Calls \ {k} : call[i] = Idle]
              ELSE [call[j] EXCEPT !.clean = FALSE]]
    BY <1>4 DEF Begin
  <2>2. call'[k].pc = FirstStep(a) /\ call'[k].clean = (\A i \in Calls \ {k} : call[i] = Idle)
    BY <2>1
  <2>3. FirstStep(a) # "write"
    BY AskTypes DEF FirstStep, Ops
  <2>4. [Idle EXCEPT !.clean = FALSE] = Idle
    BY IdleClean
  <2>5. \A j \in Calls \ {k} : call'[j] = [call[j] EXCEPT !.clean = FALSE]
    BY <2>1
  <2>6. \A j \in Calls \ {k} : ~call'[j].clean
    BY <2>5, CleanOff
  <2>7. call'[k].clean => \A j \in Calls \ {k} : call'[j] = Idle
    BY <2>2, <2>4, <2>5
  <2> QED
    BY <2>2, <2>3, <2>6, <2>7 DEF CleanInv
<1>5. ASSUME NEW k \in Calls, Handler(k), ~Begin(k) PROVE CleanInv'
  <2>1. \A j \in Calls \ {k} : call'[j] = call[j]
    BY <1>5, HandlerMoves DEF Moves
  <2>2. call[k] # Idle
    <3>1. CASE Fail(k)
      BY <3>1 DEF Fail
    <3>2. CASE Authorize(k) \/ Count(k)
      BY <3>2 DEF Authorize, Count, Idle
    <3>3. CASE JoinGroup(k) \/ JoinMember(k) \/ JoinInsert(k)
      BY <3>3 DEF JoinGroup, JoinMember, JoinInsert, At, Idle
    <3>4. CASE LeaveRole(k) \/ RemoveRole(k) \/ RemoveRoleFails(k)
      BY <3>4 DEF LeaveRole, RemoveRole, RemoveRoleFails, At, Idle
    <3>5. CASE Leave(k)
      BY <3>5 DEF Leave, At, Idle
    <3>6. CASE Update(k) \/ Add(k)
      BY <3>6 DEF Update, Add, At, Idle
    <3>7. CASE DecideLock(k) \/ DecideCommit(k)
      BY <3>7 DEF DecideLock, DecideCommit, At, Idle
    <3> QED
      BY <1>5, <3>1, <3>2, <3>3, <3>4, <3>5, <3>6, <3>7 DEF Handler
  <2>3. \A j \in Calls \ {k} : ~call'[j].clean
    BY <2>1, <2>2 DEF CleanInv
  <2>4. call'[k].clean => \A j \in Calls \ {k} : call'[j] = Idle
    BY <1>5, <2>1, CleanMoves DEF CleanInv
  <2>5. call'[k].clean /\ call'[k].pc = "write" /\ Takes(call'[k].ask)
        /\ member'[Going(call'[k].ask)] = "admin" => Another(Going(call'[k].ask), member')
    BY <1>5, WriteMoves
  <2>6. ASSUME NEW i \in Calls, call'[i].clean
        PROVE  /\ \A j \in Calls \ {i} : call'[j] = Idle
               /\ call'[i].pc = "write" /\ Takes(call'[i].ask) /\ member'[Going(call'[i].ask)] = "admin"
                     => Another(Going(call'[i].ask), member')
    <3>1. i = k
      BY <2>3, <2>6
    <3> QED
      BY <2>4, <2>5, <2>6, <3>1
  <2> QED
    BY <2>6 DEF CleanInv
<1>6. ASSUME NEW k \in Calls, Handler(k) PROVE CleanInv'
  BY <1>4, <1>5, <1>6
<1> QED
  BY <1>1, <1>2, <1>3, <1>6, <1>7 DEF Next

LEMMA SpecCleanInv == Spec => [](IInv /\ CleanInv)
<1>1. Init => IInv /\ CleanInv
  BY InitIInv, InitClean
<1>2. IInv /\ CleanInv /\ [Next]_vars => (IInv /\ CleanInv)'
  <2>1. IInv => TypeOK /\ AuthInv
    BY DEF IInv
  <2> QED
    BY <2>1, Inductive, NextClean
<1> QED
  BY <1>1, <1>2, PTL DEF Spec

\* The group loses its last admin only by a call that overlapped another one or whose read
\* failed, by an add, by a site admin who demotes somebody else, or with the group.
THEOREM LastAdminGuardedHolds == Spec => LastAdminGuarded
<1>1. IInv /\ CleanInv /\ [Next]_vars =>
        [Admins # {} /\ Admins' = {} /\ group' = "there" =>
         \E k \in Calls :
            /\ call[k].pc = "write" /\ call'[k] = Idle
            /\ \/ ~call[k].clean
               \/ call[k].ask.op = "add"
               \/ call[k].ask.op = "update" /\ ~SelfDemotion(call[k].ask)]_vars
  <2> DEFINE Ends(k) == /\ call[k].pc = "write" /\ call'[k] = Idle
                        /\ \/ ~call[k].clean
                           \/ call[k].ask.op = "add"
                           \/ call[k].ask.op = "update" /\ ~SelfDemotion(call[k].ask)
  <2> SUFFICES ASSUME IInv, CleanInv, [Next]_vars, Admins # {}, Admins' = {}, group' = "there"
               PROVE  \E k \in Calls : Ends(k)
    OBVIOUS
  <2>1. PICK v \in Users : member[v] = "admin"
    BY DEF Admins
  <2>2. \A u \in Users : member'[u] # "admin"
    BY DEF Admins
  <2>3. TypeOK
    BY DEF IInv
  <2>4. ASSUME NEW u \in Users, NEW others \in SUBSET Users, Create(u, others) PROVE FALSE
    BY <2>2, <2>4 DEF Create
  <2>5. ~Delete
    BY DEF Delete
  <2>6. member' # member
    BY <2>1, <2>2
  <2>7. ASSUME NEW k \in Calls, DecideCommit(k) PROVE FALSE
    <3> DEFINE u == join[call[k].ask.request].user
    <3>1. member' = member \/ member' = [member EXCEPT ![u] = RoleAfter(u)]
      BY <2>7 DEF DecideCommit
    <3>2. v = u => RoleAfter(u) = "admin"
      BY <2>1, GroupsAssumption DEF RoleAfter, Roles
    <3>3. member'[v] = "admin"
      BY <2>1, <2>3, <3>1, <3>2 DEF TypeOK
    <3> QED
      BY <2>2, <3>3
  <2>8. ASSUME NEW k \in Calls, Leave(k) PROVE Ends(k)
    <3>1. call[k].pc = "write" /\ call'[k] = Idle /\ call[k].ask.op \in {"leave", "remove"}
      BY <2>3, <2>8, ReturnFacts DEF Leave
    <3>2. \A u \in Users : u # Going(call[k].ask) => member'[u] = member[u]
      BY <2>3, <2>8 DEF Leave, TypeOK
    <3>3. member[Going(call[k].ask)] = "admin"
      BY <2>1, <2>2, <3>2
    <3>4. ~call[k].clean
      BY <2>2, <3>1, <3>2, <3>3 DEF CleanInv, Takes, Another
    <3> QED
      BY <3>1, <3>4
  <2>9. ASSUME NEW k \in Calls, Update(k) PROVE Ends(k)
    <3>1. call[k].pc = "write" /\ call'[k] = Idle /\ call[k].ask.op = "update"
      BY <2>3, <2>9, ReturnFacts DEF Update, At
    <3>2. \A u \in Users : u # call[k].ask.target => member'[u] = member[u]
      BY <2>3, <2>9 DEF Update, TypeOK
    <3>3. member[call[k].ask.target] = "admin"
      BY <2>1, <2>2, <3>2
    <3>4. SelfDemotion(call[k].ask) => ~call[k].clean
      BY <2>2, <3>1, <3>2, <3>3 DEF CleanInv, Takes, Another, Going
    <3> QED
      BY <3>1, <3>4
  <2>10. ASSUME NEW k \in Calls, Add(k) PROVE Ends(k)
    BY <2>3, <2>10, ReturnFacts DEF Add, At
  <2>11. ASSUME NEW k \in Calls, Handler(k), ~(Leave(k) \/ Update(k) \/ Add(k) \/ DecideCommit(k))
         PROVE  FALSE
    BY <2>6, <2>11 DEF Handler, Begin, Fail, Authorize, Count, JoinGroup, JoinMember, JoinInsert,
                       LeaveRole, RemoveRole, RemoveRoleFails, DecideLock, Same
  <2>12. ~(\E u \in Users : Cancel(u)) /\ ~UNCHANGED vars
    BY <2>6 DEF Cancel, vars
  <2> QED
    BY <2>4, <2>5, <2>7, <2>8, <2>9, <2>10, <2>11, <2>12 DEF Next
<1> QED
  BY <1>1, SpecCleanInv, PTL DEF Spec, LastAdminGuarded
=============================================================================
