--------------------------- MODULE ContestLifecycle ---------------------------
(***************************************************************************)
(* The life of one contest (admin_contests.go, contests.go): it is created *)
(* as a draft, updated, given problems, published, finalized, rerun or     *)
(* deleted.  Handlers read the contest in one statement and change it in   *)
(* another that does not look again; others act between the two.           *)
(* What applyContestRatings computes is in ContestRatings; here it is a    *)
(* transaction that commits or does not.                                   *)
(***************************************************************************)
EXTENDS Naturals

CONSTANTS
    Rows,        \* ids of contest_problems
    Calls,       \* goroutines that run a handler, one call after the other
    Asks,        \* bound: the calls that are made
    Times,       \* start and end times that are asked for
    MaxTime,     \* bound on the clock
    MaxOrder,    \* bound on problem_order
    Defaults,    \* the status of a contest that is inserted without one
    Nil          \* no value: a field the request leaves out, a row that is not there

Maybe(S) == S \cup {Nil}
AllAsks ==
    [op : {"delete", "finalize", "public", "rerun"}] \cup
    [op : {"publish", "remove"}, privileged : BOOLEAN] \cup
    [op : {"add", "order"}, privileged : BOOLEAN, order : 0..MaxOrder] \cup
    [op : {"update"}, privileged : BOOLEAN, rated : Maybe(BOOLEAN),
     group : {"keep", "set", "clear"}, start : Maybe(Times), end : Maybe(Times)]

ASSUME LifecycleAssumption ==
    /\ Asks \subseteq AllAsks
    /\ Times \subseteq Nat /\ MaxTime \in Nat /\ MaxOrder \in Nat
    /\ Defaults \subseteq {"draft", "upcoming"}
    /\ Nil \notin BOOLEAN /\ Nil \notin Nat /\ Nil \notin Asks

VARIABLES
    clock,      \* time.Now()
    contest,    \* the row of app.contests, with what happened to it
    problems,   \* contest_problems.problem_order, or Nil
    call        \* the calls in progress

vars == <<clock, contest, problems, call>>

\* ratings: a participant of the contest has a rating_after.  History: applied, ratings
\* were committed, be it for no participant.
None == [status |-> "none", rated |-> FALSE, grouped |-> FALSE, start |-> 0, end |-> 0,
         ratings |-> FALSE, applied |-> FALSE]

\* flag and order are what a handler has read.  raced is history: a rival was in progress
\* at the same time.
Idle == [pc |-> "idle", ask |-> Nil, flag |-> FALSE, order |-> 0, raced |-> FALSE]

Init ==
    /\ clock = 0
    /\ contest = None
    /\ problems = [r \in Rows |-> Nil]
    /\ call = [k \in Calls |-> Idle]

Tick == clock < MaxTime /\ clock' = clock + 1 /\ UNCHANGED <<contest, problems, call>>

There == contest.status \notin {"none", "deleted"}
Assigned == {r \in Rows : problems[r] # Nil}

\* AdminContestStatus and contestStatus; running is called live in the latter.
Derived ==
    CASE contest.status \in {"draft", "finalized"} -> contest.status
      [] contest.status = "upcoming" /\ clock < contest.start -> "upcoming"
      [] contest.status = "upcoming" /\ clock >= contest.start ->
            IF clock > contest.end THEN "ended" ELSE "running"
      [] ~There -> "none"

-----------------------------------------------------------------------------
\* A group contest is inserted unrated.
Rated(wish, grouped) == wish /\ ~grouped

New(status, wish, grouped, s, e) ==
    [None EXCEPT !.status = status, !.rated = Rated(wish, grouped), !.grouped = grouped,
                 !.start = s, !.end = e]

AdminCreate(privileged, wish, grouped, s, e) ==
    /\ contest = None
    /\ s <= e /\ (privileged \/ grouped)
    /\ contest' = New("draft", wish, grouped, s, e)
    /\ UNCHANGED <<clock, problems, call>>

\* CreateContest: one transaction, the problems included; times are not compared.
CreateContest(wish, grouped, s, e) ==
    /\ contest = None
    /\ \E status \in Defaults : contest' = New(status, wish, grouped, s, e)
    /\ problems' \in [Rows -> Maybe(1..MaxOrder)]
    /\ UNCHANGED <<clock, call>>

-----------------------------------------------------------------------------
At(k, op, pc) == call[k].pc = pc /\ call[k].ask.op = op
Go(k, pc) == call' = [call EXCEPT ![k].pc = pc]
Return(k) == call' = [call EXCEPT ![k] = Idle]
GoIf(k, condition, pc) == IF condition THEN Go(k, pc) ELSE Return(k)
Same == UNCHANGED <<clock, contest, problems>>

\* The step after the permission to change the contest.
Permitted(a) ==
    CASE a.op = "publish" -> IF a.privileged THEN "status" ELSE "group"
      [] a.op = "add" -> IF a.order = 0 THEN "max" ELSE "insert"
      [] a.op \in {"order", "remove"} -> "change"
      [] a.op = "update" -> "write"

FirstStep(a) ==
    CASE a.op = "delete" -> "status"
      [] a.op \in {"update", "finalize", "public", "rerun"} -> "read"
      [] a.op \in {"publish", "add", "order", "remove"} ->
            IF a.privileged THEN Permitted(a) ELSE "authorize"

\* The calls that can leave a call of op acting on what is so no longer.
Rivals(op) ==
    CASE op = "publish" -> {"publish", "remove"}
      [] op = "delete" -> {"publish"}
      [] op \in {"finalize", "public", "rerun"} -> {"update"}
      [] OTHER -> {}

\* The id of a contest is known once it has been created.
Begin(k) ==
    /\ call[k] = Idle /\ contest # None
    /\ \E a \in Asks :
          call' = [j \in Calls |->
              CASE j = k ->
                     [Idle EXCEPT !.pc = FirstStep(a), !.ask = a,
                                  !.raced = \E i \in Calls : /\ call[i] # Idle
                                                            /\ call[i].ask.op \in Rivals(a.op)]
                [] j # k /\ call[j] # Idle ->
                     [call[j] EXCEPT !.raced = @ \/ a.op \in Rivals(call[j].ask.op)]
                [] OTHER -> Idle]
    /\ Same

\* A statement fails, or the process stops.
Fail(k) == call[k] # Idle /\ Return(k) /\ Same

\* canManageContest for an instructor: an administrator of the group the contest has now.
\* An instructor may not take the contest out of its group, nor leave it without one.
Denied(k) ==
    LET a == call[k].ask IN
    a.op = "update" /\ (a.group = "clear" \/ (a.group = "keep" /\ ~call[k].flag))

Authorize(k) ==
    /\ call[k].pc = "authorize"
    /\ GoIf(k, There /\ contest.grouped /\ ~Denied(k), Permitted(call[k].ask))
    /\ Same

-----------------------------------------------------------------------------
\* AdminUpdateContest.
UpdateRead(k) ==
    /\ At(k, "update", "read")
    /\ call' = [call EXCEPT ![k] =
          IF ~There THEN Idle
          ELSE [@ EXCEPT !.flag = contest.grouped,
                         !.pc = IF call[k].ask.privileged THEN "write" ELSE "authorize"]]
    /\ Same

\* The assignments of is_rated; PostgreSQL rejects an update with two of them.  Neither
\* looks at the group that the contest has: an update that names none may rate it.
Unrates(a) == a.group = "set" \/ ~a.privileged
Twice(a) == \/ a.rated # Nil /\ Unrates(a)
            \/ a.group = "set" /\ ~a.privileged

Or(field, old) == IF field = Nil THEN old ELSE field

Updated(a) ==
    [contest EXCEPT
        !.rated = IF Unrates(a) THEN FALSE ELSE Or(a.rated, @),
        !.grouped = IF a.group = "keep" THEN @ ELSE a.group = "set",
        !.start = Or(a.start, @), !.end = Or(a.end, @)]

UpdateWrite(k) ==
    /\ At(k, "update", "write")
    /\ contest' = IF There /\ ~Twice(call[k].ask) THEN Updated(call[k].ask) ELSE contest
    /\ Return(k)
    /\ UNCHANGED <<clock, problems>>

-----------------------------------------------------------------------------
\* AdminDeleteContest.  The problems go with the contest.
Deletable_M(status) == status \notin {"none", "deleted", "finalized"}
Deletable(status) == status = "draft"

DeleteCheck(k) ==
    At(k, "delete", "status") /\ GoIf(k, Deletable(contest.status), "delete") /\ Same

Delete(k) ==
    /\ At(k, "delete", "delete")
    /\ contest' = [contest EXCEPT !.status = "deleted"]
    /\ problems' = [r \in Rows |-> Nil]
    /\ Return(k)
    /\ UNCHANGED clock

-----------------------------------------------------------------------------
\* AdminAddContestProblem, AdminUpdateContestProblem, AdminRemoveContestProblem.
\* The highest order, or 0 if there is none or the read fails: its error is ignored.
\* MaxOrder bounds it.
AddOrder(k) ==
    /\ At(k, "add", "max")
    /\ \E max \in {0} \cup {problems[r] : r \in Assigned} :
          /\ max = 0 \/ \A r \in Assigned : problems[r] <= max
          /\ max < MaxOrder
          /\ call' = [call EXCEPT ![k].order = max + 1, ![k].pc = "insert"]
    /\ Same

\* The insert needs the contest and, as any, finds a new row.
AddInsert(k) ==
    /\ At(k, "add", "insert") /\ There
    /\ \E r \in Rows \ Assigned :
          problems' = [problems EXCEPT ![r] =
              IF call[k].ask.order = 0 THEN call[k].order ELSE call[k].ask.order]
    /\ Return(k)
    /\ UNCHANGED <<clock, contest>>

ChangeProblem(k) ==
    /\ call[k].pc = "change"
    /\ \E r \in Assigned :
          problems' = [problems EXCEPT ![r] =
              IF call[k].ask.op = "order" THEN call[k].ask.order ELSE Nil]
    /\ Return(k)
    /\ UNCHANGED <<clock, contest>>

-----------------------------------------------------------------------------
\* AdminPublishContest.
PublishGroup(k) ==
    At(k, "publish", "group") /\ GoIf(k, There /\ contest.grouped, "status") /\ Same

Publishable_M(status) == status \notin {"none", "deleted"}
Publishable(status) == status = "draft"

PublishCheck(k) ==
    At(k, "publish", "status") /\ GoIf(k, Publishable(contest.status), "count") /\ Same

Ready_M(S) == TRUE
Ready(S) == S # {}

PublishCount(k) ==
    At(k, "publish", "count") /\ GoIf(k, Ready(Assigned), "publish") /\ Same

\* UPDATE contests SET status: no row, no effect.
SetStatus_M(status) == IF There THEN [contest EXCEPT !.status = Derived] ELSE contest
SetStatus(status) == IF There THEN [contest EXCEPT !.status = status] ELSE contest

Publish(k) ==
    /\ At(k, "publish", "publish")
    /\ contest' = SetStatus("upcoming")
    /\ Return(k)
    /\ UNCHANGED <<clock, problems>>

-----------------------------------------------------------------------------
\* AdminFinalizeContestAdmin, FinalizeContest and AdminRerunContestRating.
Finalizable_M(op) == Derived \in {"upcoming", "running", "ended"}
Finalizable(op) ==
    CASE op = "finalize" -> Derived \in {"running", "ended"}
      [] op = "public" -> contest.rated /\ Derived = "ended"
      [] op = "rerun" -> contest.rated /\ Derived \in {"ended", "finalized"}

FinalizeRead(k) ==
    /\ call[k].pc = "read"
    /\ LET op == call[k].ask.op IN
       /\ op \in {"finalize", "public", "rerun"}
       /\ call' = [call EXCEPT ![k] =
             IF ~Finalizable(op) THEN Idle
             ELSE [@ EXCEPT !.flag = IF op = "rerun" THEN Derived = "ended" ELSE TRUE,
                            !.pc = IF contest.rated THEN "rate" ELSE "mark"]]
    /\ Same

\* applyContestRatings reads is_rated again, and whether a participant has been rated.
Rate(k) ==
    /\ call[k].pc = "rate"
    /\ GoIf(k, There /\ contest.rated, IF call[k].ask.op = "rerun" THEN "commit" ELSE "applied")
    /\ Same

AlreadyApplied(k) ==
    /\ call[k].pc = "applied"
    /\ IF contest.ratings THEN GoIf(k, call[k].ask.op = "finalize", "mark") ELSE Go(k, "commit")
    /\ Same

\* There may be no participant to rate.
Commit(k) ==
    /\ call[k].pc = "commit"
    /\ \E some \in BOOLEAN :
          contest' = [IF call[k].flag THEN SetStatus("finalized") ELSE contest EXCEPT
                         !.applied = @ \/ There, !.ratings = @ \/ (There /\ some)]
    /\ Return(k)
    /\ UNCHANGED <<clock, problems>>

\* Without ratings, or with ratings that are there already, only the status is set.
Mark(k) ==
    /\ call[k].pc = "mark"
    /\ contest' = SetStatus("finalized")
    /\ Return(k)
    /\ UNCHANGED <<clock, problems>>

Handler(k) ==
    \/ Begin(k) \/ Fail(k) \/ Authorize(k)
    \/ UpdateRead(k) \/ UpdateWrite(k)
    \/ DeleteCheck(k) \/ Delete(k)
    \/ AddOrder(k) \/ AddInsert(k) \/ ChangeProblem(k)
    \/ PublishGroup(k) \/ PublishCheck(k) \/ PublishCount(k) \/ Publish(k)
    \/ FinalizeRead(k) \/ Rate(k) \/ AlreadyApplied(k) \/ Commit(k) \/ Mark(k)

Next ==
    \/ \E wish, grouped \in BOOLEAN, s, e \in Times :
          CreateContest(wish, grouped, s, e) \/ \E p \in BOOLEAN : AdminCreate(p, wish, grouped, s, e)
    \/ \E k \in Calls : Handler(k)
    \/ Tick

Spec == Init /\ [][Next]_vars

-----------------------------------------------------------------------------
Steps == {"idle", "authorize", "read", "write", "status", "delete", "max", "insert", "change",
          "group", "count", "publish", "rate", "applied", "commit", "mark"}

TypeOK ==
    /\ clock \in 0..MaxTime
    /\ contest \in [status : {"none", "draft", "upcoming", "finalized", "deleted"},
                    rated : BOOLEAN, grouped : BOOLEAN,
                    start : Times \cup {0}, end : Times \cup {0},
                    ratings : BOOLEAN, applied : BOOLEAN]
    /\ problems \in [Rows -> Maybe(0..MaxOrder)]
    /\ call \in [Calls -> [pc : Steps, ask : Maybe(Asks), flag : BOOLEAN,
                           order : 0..MaxOrder, raced : BOOLEAN]]

\* This step ends a call of op.
Ends(k, op) == call[k] # Idle /\ call[k].ask.op = op /\ call'[k] = Idle

\* "AdminPublishContest moves a contest from draft to upcoming" (admin_contests.go:824), "only
\* allow deletion of draft contests" (:583), and nothing reopens one: a contest never goes back,
\* nor is one deleted that others may have seen, whatever calls overlap, except by a publish or
\* a delete that looked at its status before another publish changed it.
Stage == [none |-> 0, deleted |-> 1, draft |-> 1, upcoming |-> 2, finalized |-> 3]

NoWayBack ==
    [][Stage[contest'.status] < Stage[contest.status] =>
         \E k \in Calls : call[k].raced /\ (Ends(k, "publish") \/ Ends(k, "delete"))]_vars

\* "Verify at least one problem is assigned" (admin_contests.go:871): a contest becomes
\* upcoming with a problem in it, unless the publish overlapped a removal or was itself late;
\* adds, updates and finalizations never let an empty one through.
PublishedIsReady ==
    [][contest.status # "upcoming" /\ contest'.status = "upcoming" =>
         \/ Assigned # {} \/ contest = None
         \/ \E k \in Calls : call[k].raced /\ Ends(k, "publish")]_vars

\* "A contest can be finalized when it is currently running or has already ended (but not
\* while still upcoming, draft, or already finalized)" (admin_contests.go:913): no calls,
\* however they overlap, finalize a draft, and only one that an update overlapped finalizes
\* a contest before its start, or a rated one without its ratings.
FinalizedIsComplete ==
    [][contest.status # "finalized" /\ contest'.status = "finalized" =>
         /\ contest.status = "upcoming"
         /\ \/ clock >= contest.start /\ (contest.rated => contest'.applied)
            \/ \E k \in Calls : call[k].raced /\ call'[k] = Idle]_vars
=============================================================================
