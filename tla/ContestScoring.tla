--------------------------- MODULE ContestScoring ---------------------------
(***************************************************************************)
(* Scoring of one contest.  Requests run ContestSubmit (contests.go) and   *)
(* AdminGradeSubmission (admin_submissions.go) concurrently.  A handler is *)
(* a sequence of SQL statements, each of its own transaction, so other     *)
(* handlers, the clock and the administrators act between any two of them. *)
(*                                                                         *)
(* The statement that recomputes a participant is two steps: at READ       *)
(* COMMITTED an UPDATE evaluates its sub-selects on the snapshot taken     *)
(* when it starts and may wait for the row before it writes.               *)
(*                                                                         *)
(* The rows of app.contest_solves are  solves[u][p], those of              *)
(* app.contest_participants are  board[u], those of app.submissions are    *)
(* sub[r], named by the request that inserts them.                         *)
(*                                                                         *)
(* before, turn and shown record history for the properties; no guard      *)
(* reads them.                                                             *)
(***************************************************************************)
EXTENDS Integers, FiniteSets, Functions

CONSTANTS
    Users, Problems,
    Requests,      \* calls of ContestSubmit
    Graders,       \* calls of AdminGradeSubmission
    Windows,       \* start and end times administrators may give the contest
    MaxTime,       \* bound on the clock
    MaxEvents,     \* bound on changes by administrators, failed statements and stops, together
    Total,         \* number of test cases of every problem
    PointValues,   \* what administrators may make a problem worth
    Modes,         \* scoring modes in use
    Scores,        \* manual scores; NoChange: the field is absent
    Locks,         \* values of the lock field; NoChange: absent
    NoRow, NoChange

Calls == Requests \cup Graders
Totals == [score : Int, penalty : Int]
SolveRows == [by : Requests, points : Int, at : Nat]
ManualScores == Int \cup {NoChange}
SubRows == [user : Users, problem : Problems, at : Nat, passed : 0..Total,
            worth : Int, manual : ManualScores, locked : BOOLEAN]
ReqPCs == {"idle", "live", "join", "subjective", "check", "judging", "solve",
           "recompute", "write", "done", "refused", "failed"}
ReqRows == [pc : ReqPCs, user : Users, problem : Problems, start : Nat, pts : Int,
            mode : {"all_or_nothing", "partial"}]
GradePCs == {"idle", "update", "solve", "recompute", "write", "done", "failed"}
GradeRows == [pc : GradePCs, of : Requests, score : ManualScores,
              lock : BOOLEAN \cup {NoChange}, err : BOOLEAN, start : Int]

ASSUME ScoringAssumption ==
    /\ Users # {} /\ Requests # {} /\ Problems # {} /\ IsFiniteSet(Problems)
    /\ Requests \cap Graders = {}
    /\ Windows \subseteq [start : Nat, end : Nat]
    /\ MaxTime \in Nat /\ MaxEvents \in Nat
    /\ Total \in Nat \ {0}
    /\ PointValues \subseteq Int
    /\ Modes \subseteq {"all_or_nothing", "partial"}
    /\ Scores \subseteq Int \cup {NoChange}
    /\ Locks \subseteq BOOLEAN \cup {NoChange}
    /\ NoChange \notin Int /\ NoChange \notin BOOLEAN
    /\ NoRow \notin SolveRows /\ NoRow \notin SubRows /\ NoRow \notin Totals
    /\ NoRow \notin Calls

VARIABLES
    clock,     \* time.Now()
    events,    \* how many such changes, failures and stops there were
    status,    \* contests.status
    window,    \* contests.start_time and end_time
    points,    \* contest_problems.points
    mode,      \* contest_problems.scoring_mode
    solves,    \* contest_solves, by user and problem
    board,     \* contest_participants: score and penalty of those who joined
    sub,       \* submissions, by the request that made them
    req,       \* the submit requests
    grade,     \* the grading requests
    sums,      \* what a call read for its recompute
    before,    \* history: the calls that were over when a call began
    turn,      \* history: the last call that wrote or summed a user's solves
    shown      \* history: the last call that wrote a user's row of board

vars == <<clock, events, status, window, points, mode, solves, board, sub, req, grade, sums,
          before, turn, shown>>
contest == <<clock, status, window, points, mode>>
tables == <<solves, board, sub>>
history == <<before, turn, shown>>

Fresh == [pc |-> "idle", user |-> CHOOSE u \in Users : TRUE,
          problem |-> CHOOSE p \in Problems : TRUE,
          start |-> 0, pts |-> 0, mode |-> "partial"]
NoGrade(r) == [pc |-> "idle", of |-> r, score |-> NoChange, lock |-> NoChange,
               err |-> FALSE, start |-> 0]
Zero == [score |-> 0, penalty |-> 0]

Init ==
    /\ clock = 0 /\ events = 0
    /\ status = "upcoming"
    /\ window \in Windows
    /\ points \in [Problems -> {v \in PointValues : v > 0}]  \* AdminAddContestProblem
    /\ mode \in [Problems -> Modes]
    /\ solves = [u \in Users |-> [p \in Problems |-> NoRow]]
    /\ board = [u \in Users |-> NoRow]
    /\ sub = [r \in Requests |-> NoRow]
    /\ req = [r \in Requests |-> Fresh]
    /\ \E r \in Requests : grade = [g \in Graders |-> NoGrade(r)]
    /\ sums = [c \in Calls |-> Zero]
    /\ before = [c \in Calls |-> {}]
    /\ turn = [u \in Users |-> NoRow]
    /\ shown = [u \in Users |-> NoRow]

-----------------------------------------------------------------------------
\* An administrator changes something, a statement fails or the process stops.
Event == events < MaxEvents /\ events' = events + 1

\* contestStatus: draft and finalized are stored, the rest follows from the clock.
Live == status # "draft" /\ status # "finalized" /\ window.start <= clock /\ clock <= window.end

Tick == clock < MaxTime /\ clock' = clock + 1
        /\ UNCHANGED <<events, status, window, points, mode, tables, req, grade, sums, history>>

\* AdminFinalizeContestAdmin of an unrated contest that is running or has ended.
Finalize ==
    /\ Event
    /\ status = "upcoming" /\ window.start <= clock
    /\ status' = "finalized"
    /\ UNCHANGED <<clock, window, points, mode, tables, req, grade, sums, history>>

\* AdminUpdateContest: the times may change at any time, and no penalty is recomputed.
UpdateContest ==
    /\ Event
    /\ window' \in Windows
    /\ UNCHANGED <<clock, status, points, mode, tables, req, grade, sums, history>>

\* AdminUpdateContestProblem: points, any integer, and mode may change at any time.
UpdateProblem(p) ==
    /\ Event
    /\ \E v \in PointValues, m \in Modes :
          points' = [points EXCEPT ![p] = v] /\ mode' = [mode EXCEPT ![p] = m]
    /\ UNCHANGED <<clock, status, window, tables, req, grade, sums, history>>

-----------------------------------------------------------------------------
\* ContestSubmit.

Over == {"done", "refused", "failed"}
Ended == {r \in Requests : req[r].pc \in Over} \cup {g \in Graders : grade[g].pc \in Over}

ReadContest(r) ==
    /\ req[r].pc = "idle"
    /\ Live
    /\ \E u \in Users, p \in Problems :
          req' = [req EXCEPT ![r] = [@ EXCEPT !.pc = "live", !.user = u, !.problem = p,
                                              !.start = window.start]]
    /\ before' = [before EXCEPT ![r] = Ended]
    /\ UNCHANGED <<contest, events, tables, grade, sums, turn, shown>>

ReadProblem(r) ==
    /\ req[r].pc = "live"
    /\ LET p == req[r].problem IN
          req' = [req EXCEPT ![r] = [@ EXCEPT !.pc = "join", !.pts = points[p], !.mode = mode[p]]]
    /\ UNCHANGED <<contest, events, tables, grade, sums, history>>

\* Auto-join; an error of this statement is ignored.  The type of the problem, read
\* with its points, may be either.
Join(r) ==
    /\ req[r].pc = "join"
    /\ LET u == req[r].user IN
          \/ board[u] = NoRow /\ board' = [board EXCEPT ![u] = Zero] /\ UNCHANGED events
          \/ board[u] # NoRow /\ UNCHANGED <<board, events>>
          \/ Event /\ UNCHANGED board
    /\ \E next \in {"subjective", "check"} : req' = [req EXCEPT ![r].pc = next]
    /\ UNCHANGED <<contest, solves, sub, grade, sums, history>>

\* A submission row.  worth is no column: it is earnedPoints, which the request
\* computes right after the insert from the points and mode it had read.
Row(r, passed, worth) ==
    [user |-> req[r].user, problem |-> req[r].problem, at |-> clock, passed |-> passed,
     worth |-> worth, manual |-> NoChange, locked |-> FALSE]

SaveSubjective(r) ==
    /\ req[r].pc = "subjective"
    /\ sub' = [sub EXCEPT ![r] = Row(r, 0, 0)]
    /\ req' = [req EXCEPT ![r].pc = "done"]
    /\ UNCHANGED <<contest, events, solves, board, grade, sums, history>>

Solved(r) == solves[req[r].user][req[r].problem] # NoRow

\* The error of this query is ignored: it then reads as not solved.
CheckSolved(r) ==
    /\ req[r].pc = "check"
    /\ \/ (req[r].mode = "partial" \/ ~Solved(r)) /\ UNCHANGED events
       \/ req[r].mode # "partial" /\ Event
    /\ req' = [req EXCEPT ![r].pc = "judging"]
    /\ UNCHANGED <<contest, tables, grade, sums, history>>

\* The answers 4xx: not in the group, a problem of another contest (live), already
\* solved (check), no test cases (judging).
Refuse(r) ==
    /\ \/ req[r].pc \in {"live", "judging"}
       \/ req[r].pc = "check" /\ req[r].mode # "partial" /\ Solved(r)
    /\ req' = [req EXCEPT ![r].pc = "refused"]
    /\ UNCHANGED <<contest, events, tables, grade, sums, history>>

\* int() of a quotient drops its fraction.
Truncated(a, b) == IF a >= 0 THEN a \div b ELSE -((-a) \div b)

Earned(m, pts, passed) ==
    IF m = "partial" THEN Truncated(pts * passed, Total)
    ELSE IF passed = Total THEN pts ELSE 0

\* An accepted submission counts even when it earns nothing.
Counts(worth, passed) == worth > 0 \/ passed = Total

\* sandbox.Judge returns (accepted exactly when all tests pass) and the row is inserted.
SaveJudged(r) ==
    /\ req[r].pc = "judging"
    /\ \E passed \in 0..Total :
          LET worth == Earned(req[r].mode, req[r].pts, passed) IN
          /\ sub' = [sub EXCEPT ![r] = Row(r, passed, worth)]
          /\ req' = [req EXCEPT ![r].pc =
                       IF Counts(worth, passed) THEN "solve" ELSE "done"]
    /\ UNCHANGED <<contest, events, solves, board, grade, sums, history>>

Solve(r, pts, at) == [by |-> r, points |-> pts, at |-> at]

\* ON CONFLICT: the best score is kept, with the submission and time it came from.
Better_M(new, old) == new >= old.points
Better(new, old) == new > old.points

BestOf_M(old, r) ==
    IF old = NoRow \/ req[r].mode = "partial" THEN Solve(r, sub[r].worth, sub[r].at) ELSE old
BestOf_M2(old, r) ==
    IF old = NoRow THEN Solve(r, sub[r].worth, sub[r].at)
    ELSE IF req[r].mode # "partial" THEN old
    ELSE Solve(r, IF Better(sub[r].worth, old) THEN sub[r].worth ELSE old.points, sub[r].at)
BestOf(old, r) ==
    IF old = NoRow \/ (req[r].mode = "partial" /\ Better(sub[r].worth, old))
    THEN Solve(r, sub[r].worth, sub[r].at)
    ELSE old

UpsertSolve(r) ==
    /\ req[r].pc = "solve"
    /\ LET u == req[r].user
           p == req[r].problem IN
          /\ solves' = [solves EXCEPT ![u][p] = BestOf(solves[u][p], r)]
          /\ turn' = [turn EXCEPT ![u] = r]
    /\ req' = [req EXCEPT ![r].pc = "recompute"]
    /\ UNCHANGED <<contest, events, board, sub, grade, sums, before, shown>>

-----------------------------------------------------------------------------
\* The two sub-selects over the solves of a user.
SolvedBy(u) == {p \in Problems : solves[u][p] # NoRow}

Aggregate_M(u, start) ==  \* without COALESCE
    [score   |-> IF SolvedBy(u) = {} THEN NoRow
                 ELSE SumFunction([p \in SolvedBy(u) |-> solves[u][p].points]),
     penalty |-> IF SolvedBy(u) = {} THEN NoRow
                 ELSE SumFunction([p \in SolvedBy(u) |-> solves[u][p].at - start])]
Aggregate(u, start) ==
    [score   |-> SumFunction([p \in SolvedBy(u) |-> solves[u][p].points]),
     penalty |-> SumFunction([p \in SolvedBy(u) |-> solves[u][p].at - start])]

\* UPDATE contest_participants: no row, no effect.
Write_M(u, c) ==  \* adds what was read to the old score
    /\ sums' = [sums EXCEPT ![c] = Zero]
    /\ board' = [board EXCEPT ![u] = IF @ = NoRow THEN NoRow
                                     ELSE [score |-> @.score + sums[c].score,
                                           penalty |-> sums[c].penalty]]
    /\ shown' = [shown EXCEPT ![u] = IF board[u] = NoRow THEN @ ELSE c]
Write(u, c) ==
    /\ sums' = [sums EXCEPT ![c] = Zero]
    /\ board' = [board EXCEPT ![u] = IF @ = NoRow THEN NoRow ELSE sums[c]]
    /\ shown' = [shown EXCEPT ![u] = IF board[u] = NoRow THEN @ ELSE c]

Sum(u, c, start) ==
    /\ sums' = [sums EXCEPT ![c] = Aggregate(u, start)]
    /\ turn' = [turn EXCEPT ![u] = c]

RecomputeRead(r) ==
    /\ req[r].pc = "recompute"
    /\ Sum(req[r].user, r, req[r].start)
    /\ req' = [req EXCEPT ![r].pc = "write"]
    /\ UNCHANGED <<contest, events, tables, grade, before, shown>>

RecomputeWrite(r) ==
    /\ req[r].pc = "write"
    /\ Write(req[r].user, r)
    /\ req' = [req EXCEPT ![r].pc = "done"]
    /\ UNCHANGED <<contest, events, solves, sub, grade, before, turn>>

\* The request ends early: its statement failed or the process stopped.
Abandon(r) ==
    /\ Event /\ req[r].pc \notin Over \cup {"idle"}
    /\ req' = [req EXCEPT ![r].pc = "failed"]
    /\ UNCHANGED <<contest, tables, grade, sums, history>>

-----------------------------------------------------------------------------
\* AdminGradeSubmission.

MayGrade(s, score) == ~(s.locked /\ score # NoChange)

GradeRead(g) ==
    /\ grade[g].pc = "idle"
    /\ \E r \in Requests, score \in Scores, lock \in Locks :
          /\ sub[r] # NoRow
          /\ score # NoChange \/ lock # NoChange
          /\ MayGrade(sub[r], score)
          /\ grade' = [grade EXCEPT ![g] = [NoGrade(r) EXCEPT !.pc = "update", !.score = score,
                                                             !.lock = lock]]
    /\ before' = [before EXCEPT ![g] = Ended]
    /\ UNCHANGED <<contest, events, tables, req, sums, turn, shown>>

\* UPDATE submissions ... WHERE id, whatever the row holds by now.
Graded(s, score, lock) ==
    [s EXCEPT !.manual = IF score = NoChange THEN @ ELSE score,
              !.locked = IF lock = NoChange THEN @ ELSE lock]

GradeUpdate(g) ==
    /\ grade[g].pc = "update"
    /\ sub' = [sub EXCEPT ![grade[g].of] = Graded(@, grade[g].score, grade[g].lock)]
    /\ grade' = [grade EXCEPT ![g].pc = IF grade[g].score = NoChange THEN "done" ELSE "solve"]
    /\ UNCHANGED <<contest, events, solves, board, req, sums, history>>

\* A positive score replaces the solve, any other deletes it; errors are ignored.
GradedRow_M(r, score) ==
    IF score > 0 THEN Solve(r, score, sub[r].at) ELSE solves[sub[r].user][sub[r].problem]
GradedRow(r, score) ==
    IF score > 0 THEN Solve(r, score, sub[r].at) ELSE NoRow

GradeSolve(g) ==
    /\ grade[g].pc = "solve"
    /\ LET r == grade[g].of
           u == sub[r].user IN
          \/ /\ solves' = [solves EXCEPT ![u][sub[r].problem] = GradedRow(r, grade[g].score)]
             /\ turn' = [turn EXCEPT ![u] = g]
             /\ grade' = [grade EXCEPT ![g].pc = "recompute"]
             /\ UNCHANGED events
          \/ /\ Event
             /\ grade' = [grade EXCEPT ![g] = [@ EXCEPT !.pc = "recompute", !.err = TRUE]]
             /\ UNCHANGED <<solves, turn>>
    /\ UNCHANGED <<contest, board, sub, req, sums, before, shown>>

\* The start is read again; when that fails it stays the zero time.
ZeroTime == -1

GradeRecomputeRead(g) ==
    /\ grade[g].pc = "recompute"
    /\ \E start \in {window.start, ZeroTime} :
          /\ IF start = window.start THEN UNCHANGED events ELSE Event
          /\ Sum(sub[grade[g].of].user, g, start)
          /\ grade' = [grade EXCEPT ![g] = [@ EXCEPT !.pc = "write", !.start = start]]
    /\ UNCHANGED <<contest, tables, req, before, shown>>

GradeRecomputeWrite(g) ==
    /\ grade[g].pc = "write"
    /\ Write(sub[grade[g].of].user, g)
    /\ grade' = [grade EXCEPT ![g].pc = "done"]
    /\ UNCHANGED <<contest, events, solves, sub, req, before, turn>>

GradeAbandon(g) ==
    /\ Event /\ grade[g].pc \notin Over \cup {"idle"}
    /\ grade' = [grade EXCEPT ![g].pc = "failed"]
    /\ UNCHANGED <<contest, tables, req, sums, history>>

Submit(r) ==
    \/ ReadContest(r) \/ ReadProblem(r) \/ Join(r) \/ SaveSubjective(r) \/ CheckSolved(r)
    \/ Refuse(r) \/ SaveJudged(r) \/ UpsertSolve(r) \/ RecomputeRead(r) \/ RecomputeWrite(r) \/ Abandon(r)

Grade(g) ==
    \/ GradeRead(g) \/ GradeUpdate(g) \/ GradeSolve(g)
    \/ GradeRecomputeRead(g) \/ GradeRecomputeWrite(g) \/ GradeAbandon(g)

Next ==
    \/ \E r \in Requests : Submit(r)
    \/ \E g \in Graders : Grade(g)
    \/ \E p \in Problems : UpdateProblem(p)
    \/ UpdateContest
    \/ Tick
    \/ Finalize

Spec == Init /\ [][Next]_vars

-----------------------------------------------------------------------------
RowsOK ==
    /\ clock \in Nat /\ events \in Nat
    /\ status \in {"upcoming", "finalized"}
    /\ window \in Windows
    /\ points \in [Problems -> PointValues]
    /\ mode \in [Problems -> Modes]
    /\ solves \in [Users -> [Problems -> SolveRows \cup {NoRow}]]
    /\ sub \in [Requests -> SubRows \cup {NoRow}]
    /\ req \in [Requests -> ReqRows]
    /\ grade \in [Graders -> GradeRows]
    /\ before \in [Calls -> SUBSET Calls]

TotalsOK ==
    /\ board \in [Users -> Totals \cup {NoRow}]
    /\ sums \in [Calls -> Totals]
    /\ turn \in [Users -> Calls \cup {NoRow}]
    /\ shown \in [Users -> Calls \cup {NoRow}]

TypeOK == RowsOK /\ TotalsOK

\* Every row of contest_solves is explained by the submission it names: that
\* submission is of this user and problem, the solve has its time, which is not before
\* the start its request read (it may be after the end: submitted_at is taken when
\* the judge is done), and its points are what it earned or what a grader gave it.
\* (Two upserts with CASE and GREATEST and the graders write these columns.)
SolveTraceable ==
    \A u \in Users, p \in Problems : solves[u][p] # NoRow =>
        LET s == solves[u][p]
            r == s.by IN
        /\ sub[r] # NoRow
        /\ sub[r].user = u /\ sub[r].problem = p
        /\ s.at = sub[r].at /\ s.at >= req[r].start
        /\ \/ s.points = sub[r].worth
           \/ \E g \in Graders : grade[g].of = r /\ grade[g].score = s.points

GradedBy(g, u, p) ==
    /\ grade[g].pc \in {"recompute", "write", "done", "failed"} /\ grade[g].score # NoChange
    /\ sub[grade[g].of].user = u /\ sub[grade[g].of].problem = p

\* "keep the best solve" (contests.go:1165): whatever else is submitted at the same
\* time, a request that got past its upsert finds its problem solved, for a partial
\* one with at least the points it earned, unless a grader overruled it.
CreditNotLost ==
    \A r \in Requests :
        LET u == sub[r].user
            p == sub[r].problem IN
        /\ sub[r] # NoRow /\ Counts(sub[r].worth, sub[r].passed)
        /\ req[r].pc \in {"recompute", "write", "done"}
        => \/ /\ solves[u][p] # NoRow
              /\ req[r].mode = "partial" => solves[u][p].points >= sub[r].worth
           \/ \E g \in Graders : GradedBy(g, u, p)

\* No submission takes a solve away or lowers its points; only a grader does.
PointsOnlyRise ==
    [][\A u \in Users, p \in Problems : solves[u][p] # NoRow =>
          \/ solves'[u][p] # NoRow /\ solves'[u][p].points >= solves[u][p].points
          \/ \E g \in Graders : grade[g].pc = "solve" /\ grade'[g].pc # "solve"]_vars

\* Penalty: a resubmission takes over a solve, with its later time, only by earning
\* more.  If a request that counts had been answered before the one began that the
\* solve on record comes from, then that one was a partial one and, the earlier being
\* partial too, earned more (unless a grader decided).
FirstBest ==
    \A u \in Users, p \in Problems, r \in Requests :
        LET s == solves[u][p] IN
        /\ s # NoRow /\ r \in before[s.by] /\ req[r].pc = "done"
        /\ sub[r] # NoRow /\ sub[r].user = u /\ sub[r].problem = p
        /\ Counts(sub[r].worth, sub[r].passed)
        => \/ /\ req[s.by].mode = "partial"
              /\ req[r].mode = "partial" => s.points > sub[r].worth
           \/ \E g \in Graders : GradedBy(g, u, p)

Overlap(g, h) == g \notin before[h] /\ h \notin before[g]

\* "If this is a contest submission and a manual score was set, update contest_solves"
\* (admin_submissions.go:386): a solve whose points are not the manual score of its
\* submission is the trace of a grader on its way from the one table to the other or
\* stopped there, or of a grade that overlapped the submission's own request or another
\* grade of it.
ManualScoreCounts ==
    \A u \in Users, p \in Problems :
        LET r == solves[u][p].by IN
        /\ solves[u][p] # NoRow
        /\ sub[r].manual \notin {NoChange, solves[u][p].points}
        => \E g \in Graders :
              /\ grade[g].of = r /\ grade[g].score # NoChange
              /\ \/ grade[g].pc \in {"solve", "failed"} \/ grade[g].err
                 \/ r \notin before[g]
                 \/ \E h \in Graders : /\ h # g /\ Overlap(g, h)
                                       /\ grade[h].of = r /\ grade[h].score # NoChange

StartOf(c) == IF c \in Requests THEN req[c].start ELSE grade[c].start

\* The recompute repairs: whatever went wrong earlier, once the last call that wrote or
\* summed the solves of a user is also the last that wrote his row, the row shows the
\* sums over his solves, with penalties from the start that call had read.
BoardShowsLastSum ==
    \A u \in Users :
        /\ board[u] # NoRow
        /\ turn[u] = shown[u]
        => board[u] = Aggregate(u, StartOf(shown[u]))

Quiet == /\ \A r \in Requests : req[r].pc \in Over \cup {"idle"}
         /\ \A g \in Graders : grade[g].pc \in Over \cup {"idle"}

\* "Recompute participant aggregate" (admin_submissions.go:406): with no request under
\* way the leaderboard shows the sums over the solves, and every solver is on it.
AggregateExact ==
    Quiet => \A u \in Users :
        /\ SolvedBy(u) # {} => board[u] # NoRow
        /\ board[u] # NoRow => board[u] = Aggregate(u, window.start)

\* "only unlock-then-regrade allowed" (admin_submissions.go:297): the score of a locked
\* submission stays what it is.
LockedKeepsScore ==
    [][\A r \in Requests : sub[r] # NoRow /\ sub[r].locked =>
          sub'[r].manual = sub[r].manual]_vars
=============================================================================
