---------------------------- MODULE ScoringProofs ----------------------------
(***************************************************************************)
(* Proofs about ContestScoring, for every schedule: any interleaving of    *)
(* requests, graders and administrators, and any failure of a statement.   *)
(*                                                                         *)
(* IInv: the rows are well typed, every solve is explained by its          *)
(* submission, and credit is not lost.  The properties about the order of  *)
(* the calls follow from IInv and from what the history variables know:    *)
(* BeforeOK and FirstBest, ManualOK and ManualScoreCounts, BoardOK and     *)
(* BoardShowsLastSum are each inductive with it.                           *)
(***************************************************************************)
EXTENDS ContestScoring, Sums, TLAPS

BeforeInsert == {"idle", "live", "join", "subjective", "check", "judging", "refused"}
AfterInsert == {"solve", "recompute", "write", "done"}

\* A request has a submission exactly from its insert on, and it is its own.
ReqInv ==
    \A r \in Requests :
        /\ req[r].pc \in BeforeInsert => sub[r] = NoRow
        /\ req[r].pc \in AfterInsert => sub[r] # NoRow
        /\ sub[r] # NoRow => sub[r].user = req[r].user /\ sub[r].problem = req[r].problem
        /\ sub[r] # NoRow => sub[r].at >= req[r].start
        /\ req[r].pc # "idle" => clock >= req[r].start

\* A grading request that has begun is about a submission; one that has not has no score.
GradeInv ==
    \A g \in Graders :
        /\ grade[g].pc = "idle" => grade[g].score = NoChange
        /\ grade[g].pc # "idle" => sub[grade[g].of] # NoRow
        /\ grade[g].pc = "solve" => grade[g].score # NoChange

IInv == RowsOK /\ ReqInv /\ GradeInv /\ SolveTraceable /\ CreditNotLost

LEMMA DivInt ==
    ASSUME NEW a \in Int, NEW b \in Nat \ {0}
    PROVE  Truncated(a, b) \in Int
BY DEF Truncated

LEMMA EarnedInt ==
    ASSUME NEW pts \in Int, NEW passed \in 0..Total, NEW m
    PROVE  Earned(m, pts, passed) \in Int
<1>1. pts * passed \in Int /\ Total \in Nat \ {0}
  BY ScoringAssumption
<1>2. Truncated(pts * passed, Total) \in Int
  BY <1>1, DivInt
<1> QED
  BY <1>2 DEF Earned

-----------------------------------------------------------------------------
\* Rows stay rows when a field is replaced by a value of its type.
LEMMA ReqPc ==
    ASSUME NEW x \in ReqRows, NEW v \in ReqPCs
    PROVE  LET y == [x EXCEPT !.pc = v] IN
           /\ y \in ReqRows /\ y.pc = v
           /\ y.user = x.user /\ y.problem = x.problem /\ y.start = x.start
           /\ y.pts = x.pts /\ y.mode = x.mode
BY DEF ReqRows

LEMMA GradePc ==
    ASSUME NEW x \in GradeRows, NEW v \in GradePCs
    PROVE  LET y == [x EXCEPT !.pc = v] IN
           /\ y \in GradeRows /\ y.pc = v
           /\ y.of = x.of /\ y.score = x.score /\ y.lock = x.lock
           /\ y.err = x.err /\ y.start = x.start
BY DEF GradeRows

LEMMA NoGradeRow ==
    ASSUME NEW r \in Requests
    PROVE  NoGrade(r) \in GradeRows /\ NoGrade(r).of = r
BY ScoringAssumption DEF NoGrade, GradeRows, GradePCs, ManualScores

LEMMA RowsInit == Init => RowsOK
<1> SUFFICES ASSUME Init PROVE RowsOK
  OBVIOUS
<1>1. Fresh \in ReqRows
  BY ScoringAssumption DEF Fresh, ReqRows, ReqPCs
<1> QED
  BY <1>1, NoGradeRow, ScoringAssumption DEF Init, RowsOK

-----------------------------------------------------------------------------
\* What no step of a call changes, unless the call begins with it.
Steady == UNCHANGED <<clock, status, window, points, mode, before>> /\ events' \in Nat

LEMMA SubmitSteady ==
    ASSUME RowsOK, NEW r \in Requests, Submit(r), ~ReadContest(r)
    PROVE  Steady /\ UNCHANGED grade
<1>1. Event \/ UNCHANGED events
  BY DEF Submit, ReadProblem, Join, SaveSubjective, CheckSolved, Refuse, SaveJudged,
         UpsertSolve, RecomputeRead, RecomputeWrite, Abandon
<1>2. events' \in Nat
  BY <1>1 DEF RowsOK, Event
<1>3. UNCHANGED <<contest, before, grade>>
  BY DEF Submit, ReadProblem, Join, SaveSubjective, CheckSolved, Refuse, SaveJudged,
         UpsertSolve, RecomputeRead, RecomputeWrite, Abandon, history
<1> QED
  BY <1>2, <1>3 DEF Steady, contest

LEMMA GraderSteady ==
    ASSUME RowsOK, NEW g \in Graders, Grade(g), ~GradeRead(g)
    PROVE  Steady /\ UNCHANGED req
<1>1. Event \/ UNCHANGED events
  BY DEF Grade, GradeUpdate, GradeSolve, GradeRecomputeRead, GradeRecomputeWrite, GradeAbandon
<1>2. events' \in Nat
  BY <1>1 DEF RowsOK, Event
<1>3. UNCHANGED <<contest, before, req>>
  BY DEF Grade, GradeUpdate, GradeSolve, GradeRecomputeRead, GradeRecomputeWrite, GradeAbandon,
         history
<1> QED
  BY <1>2, <1>3 DEF Steady, contest

\* A call that begins notes the calls that are over.
LEMMA BeginRows ==
    ASSUME RowsOK, NEW c \in Calls, before' = [before EXCEPT ![c] = Ended]
    PROVE  before' \in [Calls -> SUBSET Calls]
<1>1. Ended \in SUBSET Calls
  BY DEF Ended, Calls
<1> QED
  BY <1>1 DEF RowsOK

-----------------------------------------------------------------------------
\* What a step of a request does to the requests: r moves on, the others stay.
ReqMoved(r, v) ==
    /\ req' \in [Requests -> ReqRows]
    /\ req'[r].pc = v
    /\ \A q \in Requests : q # r => req'[q] = req[q]
    /\ req'[r].user = req[r].user /\ req'[r].problem = req[r].problem
    /\ req'[r].start = req[r].start
    /\ req[r].pc # "live" => req'[r].mode = req[r].mode /\ req'[r].pts = req[r].pts

LEMMA ReqMove ==
    ASSUME RowsOK, NEW r \in Requests, NEW v \in ReqPCs, req' = [req EXCEPT ![r].pc = v]
    PROVE  ReqMoved(r, v)
<1>1. req \in [Requests -> ReqRows]
  BY DEF RowsOK
<1>2. req' = [req EXCEPT ![r] = [req[r] EXCEPT !.pc = v]]
  BY <1>1
<1> QED
  BY <1>1, <1>2, ReqPc DEF ReqMoved

GradeMoved(g, v) ==
    /\ grade' \in [Graders -> GradeRows]
    /\ grade'[g].pc = v
    /\ \A h \in Graders : h # g => grade'[h] = grade[h]
    /\ grade'[g].of = grade[g].of /\ grade'[g].score = grade[g].score
    /\ grade[g].err = TRUE => grade'[g].err = TRUE

LEMMA GradeMove ==
    ASSUME RowsOK, NEW g \in Graders, NEW v \in GradePCs,
           grade' = [grade EXCEPT ![g].pc = v]
    PROVE  GradeMoved(g, v)
<1>1. grade \in [Graders -> GradeRows]
  BY DEF RowsOK
<1>2. grade' = [grade EXCEPT ![g] = [grade[g] EXCEPT !.pc = v]]
  BY <1>1
<1> QED
  BY <1>1, <1>2, GradePc DEF GradeMoved

\* The two steps that write more than the pc.
LEMMA GradeFail ==
    ASSUME RowsOK, NEW g \in Graders,
           grade' = [grade EXCEPT ![g] = [@ EXCEPT !.pc = "recompute", !.err = TRUE]]
    PROVE  GradeMoved(g, "recompute") /\ grade'[g].err = TRUE
<1> DEFINE y == [grade[g] EXCEPT !.pc = "recompute", !.err = TRUE]
<1>1. grade \in [Graders -> GradeRows] /\ grade[g] \in GradeRows
  BY DEF RowsOK
<1>2. /\ y \in GradeRows /\ y.pc = "recompute" /\ y.err = TRUE
      /\ y.of = grade[g].of /\ y.score = grade[g].score
  BY <1>1 DEF GradeRows, GradePCs
<1>3. grade' = [grade EXCEPT ![g] = y]
  OBVIOUS
<1> HIDE DEF y
<1> QED
  BY <1>1, <1>2, <1>3 DEF GradeMoved

LEMMA GradeSum ==
    ASSUME RowsOK, NEW g \in Graders, NEW start \in Int,
           grade' = [grade EXCEPT ![g] = [@ EXCEPT !.pc = "write", !.start = start]]
    PROVE  GradeMoved(g, "write") /\ grade'[g].start = start
<1> DEFINE y == [grade[g] EXCEPT !.pc = "write", !.start = start]
<1>1. grade \in [Graders -> GradeRows] /\ grade[g] \in GradeRows
  BY DEF RowsOK
<1>2. /\ y \in GradeRows /\ y.pc = "write" /\ y.start = start /\ y.err = grade[g].err
      /\ y.of = grade[g].of /\ y.score = grade[g].score
  BY <1>1 DEF GradeRows, GradePCs
<1>3. grade' = [grade EXCEPT ![g] = y]
  OBVIOUS
<1> HIDE DEF y
<1> QED
  BY <1>1, <1>2, <1>3 DEF GradeMoved

-----------------------------------------------------------------------------
\* The steps of a request, one lemma for the type of the rows each of them writes.

LEMMA ReadProblemMove ==
    ASSUME RowsOK, NEW r \in Requests, ReadProblem(r)
    PROVE  ReqMoved(r, "join")
<1> DEFINE p == req[r].problem
           y == [req[r] EXCEPT !.pc = "join", !.pts = points[p], !.mode = mode[p]]
<1>1. req \in [Requests -> ReqRows] /\ req[r] \in ReqRows /\ p \in Problems
  BY DEF RowsOK, ReqRows
<1>2. points[p] \in Int /\ mode[p] \in {"all_or_nothing", "partial"} /\ "join" \in ReqPCs
  BY <1>1, ScoringAssumption DEF RowsOK, ReqPCs
<1>3. /\ y \in ReqRows /\ y.pc = "join" /\ y.user = req[r].user /\ y.problem = req[r].problem
      /\ y.start = req[r].start
  BY <1>1, <1>2 DEF ReqRows
<1>4. req' = [req EXCEPT ![r] = y]
  BY <1>1 DEF ReadProblem
<1>5. req[r].pc = "live"
  BY DEF ReadProblem
<1> HIDE DEF y
<1> QED
  BY <1>1, <1>3, <1>4, <1>5 DEF ReqMoved

LEMMA WindowNat ==
    ASSUME RowsOK
    PROVE  window.start \in Nat /\ window.end \in Nat
<1>1. window \in [start : Nat, end : Nat]
  BY ScoringAssumption DEF RowsOK
<1> QED
  BY <1>1

\* A request that begins chooses its user and problem.
LEMMA ReadContestMove ==
    ASSUME RowsOK, NEW r \in Requests, ReadContest(r)
    PROVE  /\ req' \in [Requests -> ReqRows]
           /\ req'[r].pc = "live" /\ req'[r].start = window.start
           /\ \A q \in Requests : q # r => req'[q] = req[q]
<1>1. PICK u \in Users, p \in Problems :
          req' = [req EXCEPT ![r] = [req[r] EXCEPT !.pc = "live", !.user = u, !.problem = p,
                                                   !.start = window.start]]
  BY DEF ReadContest
<1> DEFINE y == [req[r] EXCEPT !.pc = "live", !.user = u, !.problem = p,
                               !.start = window.start]
<1>2. req \in [Requests -> ReqRows] /\ req[r] \in ReqRows /\ "live" \in ReqPCs
  BY DEF RowsOK, ReqPCs
<1>3. window.start \in Nat
  BY WindowNat
<1>4. y \in ReqRows /\ y.pc = "live" /\ y.start = window.start
  BY <1>2, <1>3 DEF ReqRows
<1> HIDE DEF y
<1> QED
  BY <1>1, <1>2, <1>4 DEF y

LEMMA RowSub ==
    ASSUME RowsOK, NEW r \in Requests, NEW passed \in 0..Total, NEW worth \in Int
    PROVE  /\ Row(r, passed, worth) \in SubRows
           /\ Row(r, passed, worth) # NoRow
           /\ Row(r, passed, worth).user = req[r].user
           /\ Row(r, passed, worth).problem = req[r].problem
           /\ Row(r, passed, worth).at = clock
           /\ Row(r, passed, worth).passed = passed
           /\ Row(r, passed, worth).worth = worth
<1>1. req[r] \in ReqRows
  BY DEF RowsOK
<1>2. req[r].user \in Users /\ req[r].problem \in Problems
  BY <1>1 DEF ReqRows
<1>3. clock \in Nat /\ NoChange \in ManualScores
  BY DEF RowsOK, ManualScores
<1>4. Row(r, passed, worth) \in SubRows
  BY <1>2, <1>3 DEF Row, SubRows
<1>5. Row(r, passed, worth) # NoRow
  BY <1>4, ScoringAssumption
<1> QED
  BY <1>4, <1>5 DEF Row

LEMMA JoinMove ==
    ASSUME RowsOK, NEW r \in Requests, Join(r)
    PROVE  ReqMoved(r, "subjective") \/ ReqMoved(r, "check")
BY ReqMove DEF Join, ReqPCs

\* What SaveSubjective and SaveJudged leave behind.
Inserted(r, passed, worth, v) ==
    /\ ReqMoved(r, v)
    /\ sub' = [sub EXCEPT ![r] = Row(r, passed, worth)]

LEMMA SaveSubjectiveMove ==
    ASSUME RowsOK, NEW r \in Requests, SaveSubjective(r)
    PROVE  Inserted(r, 0, 0, "done")
BY ReqMove DEF SaveSubjective, Inserted, ReqPCs

LEMMA SaveJudgedMove ==
    ASSUME RowsOK, NEW r \in Requests, SaveJudged(r)
    PROVE  \E passed \in 0..Total, worth \in Int :
              Inserted(r, passed, worth,
                       IF Counts(worth, passed) THEN "solve" ELSE "done")
<1>1. PICK passed \in 0..Total :
          LET worth == Earned(req[r].mode, req[r].pts, passed) IN
          /\ sub' = [sub EXCEPT ![r] = Row(r, passed, worth)]
          /\ req' = [req EXCEPT ![r].pc =
                       IF Counts(worth, passed) THEN "solve" ELSE "done"]
  BY DEF SaveJudged
<1>2. req[r] \in ReqRows
  BY DEF RowsOK
<1>3. req[r].pts \in Int
  BY <1>2 DEF ReqRows
<1>4. Earned(req[r].mode, req[r].pts, passed) \in Int
  BY <1>3, EarnedInt
<1> DEFINE worth == Earned(req[r].mode, req[r].pts, passed)
           v == IF Counts(worth, passed) THEN "solve" ELSE "done"
<1>5. ReqMoved(r, v)
  BY <1>1, ReqMove DEF ReqPCs
<1> QED
  BY <1>1, <1>4, <1>5 DEF Inserted

LEMMA InsertedRows ==
    ASSUME RowsOK, NEW r \in Requests, NEW passed \in 0..Total, NEW worth \in Int, NEW v,
           Inserted(r, passed, worth, v), Steady, UNCHANGED <<solves, grade>>
    PROVE  RowsOK'
BY RowSub DEF Inserted, ReqMoved, RowsOK, Steady

\* The rows of contest_solves that an upsert or a grader writes.
LEMMA BestOfRow ==
    ASSUME RowsOK, NEW r \in Requests, NEW old \in SolveRows \cup {NoRow}, sub[r] # NoRow
    PROVE  /\ BestOf(old, r) \in SolveRows
           /\ BestOf(old, r) = old
              \/ BestOf(old, r) = Solve(r, sub[r].worth, sub[r].at)
           /\ old # NoRow => BestOf(old, r).points >= old.points
           /\ req[r].mode = "partial" => BestOf(old, r).points >= sub[r].worth
<1>1. sub[r] \in SubRows
  BY DEF RowsOK
<1>2. sub[r].worth \in Int /\ sub[r].at \in Nat
  BY <1>1 DEF SubRows
<1>3. Solve(r, sub[r].worth, sub[r].at) \in SolveRows
  BY <1>2 DEF Solve, SolveRows
<1>4. old # NoRow => old \in SolveRows /\ old.points \in Int
  BY DEF SolveRows
<1> QED
  BY <1>2, <1>3, <1>4, ScoringAssumption DEF BestOf, Better, Solve

LEMMA UpsertMove ==
    ASSUME RowsOK, NEW r \in Requests, UpsertSolve(r), sub[r] # NoRow
    PROVE  /\ RowsOK' /\ Steady
           /\ ReqMoved(r, "recompute")
<1>1. ReqMoved(r, "recompute")
  BY ReqMove DEF UpsertSolve, ReqPCs
<1>2. req[r] \in ReqRows
  BY DEF RowsOK
<1> DEFINE u == req[r].user
           p == req[r].problem
<1>3. u \in Users /\ p \in Problems
  BY <1>2 DEF ReqRows
<1>4. solves[u][p] \in SolveRows \cup {NoRow}
  BY <1>3 DEF RowsOK
<1>5. BestOf(solves[u][p], r) \in SolveRows
  BY <1>4, BestOfRow
<1>6. solves' = [solves EXCEPT ![u][p] = BestOf(solves[u][p], r)]
  BY DEF UpsertSolve
<1>7. solves' \in [Users -> [Problems -> SolveRows \cup {NoRow}]]
  BY <1>3, <1>5, <1>6 DEF RowsOK
<1>8. Steady /\ UNCHANGED <<sub, grade>>
  BY SubmitSteady DEF Submit, UpsertSolve, ReadContest
<1> QED
  BY <1>1, <1>7, <1>8 DEF RowsOK, ReqMoved, Steady

LEMMA GradeUpdateMove ==
    ASSUME RowsOK, NEW g \in Graders, GradeUpdate(g), sub[grade[g].of] # NoRow
    PROVE  /\ RowsOK'
           /\ \E v \in {"done", "solve"} : GradeMoved(g, v)
           /\ grade'[g].pc = "solve" => grade[g].score # NoChange
           /\ \A r \in Requests :
                 /\ sub'[r] = NoRow <=> sub[r] = NoRow
                 /\ sub[r] # NoRow =>
                       /\ sub'[r].user = sub[r].user /\ sub'[r].problem = sub[r].problem
                       /\ sub'[r].at = sub[r].at /\ sub'[r].passed = sub[r].passed
                       /\ sub'[r].worth = sub[r].worth
<1> DEFINE r == grade[g].of
           y == Graded(sub[r], grade[g].score, grade[g].lock)
<1>1. grade[g] \in GradeRows
  BY DEF RowsOK
<1>2. r \in Requests /\ grade[g].score \in ManualScores
      /\ grade[g].lock \in BOOLEAN \cup {NoChange}
  BY <1>1 DEF GradeRows
<1>3. sub[r] \in SubRows
  BY <1>2 DEF RowsOK
<1>4. sub[r].manual \in ManualScores /\ sub[r].locked \in BOOLEAN
  BY <1>3 DEF SubRows
<1>5. /\ y \in SubRows
      /\ y.user = sub[r].user /\ y.problem = sub[r].problem /\ y.at = sub[r].at
      /\ y.passed = sub[r].passed /\ y.worth = sub[r].worth
  BY <1>2, <1>3, <1>4 DEF Graded, SubRows
<1>6. y # NoRow
  BY <1>5, ScoringAssumption
<1>7. sub' = [sub EXCEPT ![r] = y]
  BY DEF GradeUpdate
<1>8. /\ \E v \in {"done", "solve"} : GradeMoved(g, v)
      /\ grade'[g].pc = "solve" => grade[g].score # NoChange
  <2>1. CASE grade[g].score = NoChange
    <3>1. GradeMoved(g, "done")
      BY <2>1, GradeMove DEF GradeUpdate, GradePCs
    <3> QED
      BY <3>1 DEF GradeMoved
  <2>2. CASE grade[g].score # NoChange
    <3>1. GradeMoved(g, "solve")
      BY <2>2, GradeMove DEF GradeUpdate, GradePCs
    <3> QED
      BY <2>2, <3>1
  <2> QED
    BY <2>1, <2>2
<1> HIDE DEF r, y
<1>s. Steady /\ UNCHANGED <<req, solves>>
  BY GraderSteady DEF Grade, GradeUpdate, GradeRead
<1>9. RowsOK'
  BY <1>2, <1>5, <1>7, <1>8, <1>s DEF RowsOK, GradeMoved, Steady
<1> QED
  BY <1>2, <1>5, <1>6, <1>7, <1>8, <1>9 DEF r, RowsOK

LEMMA GradeSolveMove ==
    ASSUME RowsOK, GradeInv, NEW g \in Graders, GradeSolve(g)
    PROVE  /\ RowsOK'
           /\ GradeMoved(g, "recompute")
           /\ grade[g].of \in Requests /\ sub[grade[g].of] \in SubRows
           /\ LET r == grade[g].of
                  u == sub[r].user
                  p == sub[r].problem IN
              \A w \in Users, q \in Problems :
                 \/ solves'[w][q] = solves[w][q]
                 \/ w = u /\ q = p /\ solves'[w][q] = NoRow
                 \/ w = u /\ q = p /\ solves'[w][q] = Solve(r, grade[g].score, sub[r].at)
<1> DEFINE r == grade[g].of
           u == sub[r].user
           p == sub[r].problem
           row == GradedRow(r, grade[g].score)
<1>1. grade[g] \in GradeRows /\ grade[g].pc = "solve"
  BY DEF RowsOK, GradeSolve
<1>2. r \in Requests /\ grade[g].score \in Int
  BY <1>1 DEF GradeRows, GradeInv, ManualScores
<1>3. sub[r] \in SubRows
  BY <1>1, <1>2 DEF RowsOK, GradeInv
<1>4. u \in Users /\ p \in Problems /\ sub[r].at \in Nat
  BY <1>3 DEF SubRows
<1>5. Solve(r, grade[g].score, sub[r].at) \in SolveRows
  BY <1>2, <1>4 DEF Solve, SolveRows
<1>6. row = NoRow \/ row = Solve(r, grade[g].score, sub[r].at)
  BY DEF GradedRow
<1>7. solves' = [solves EXCEPT ![u][p] = row] \/ solves' = solves
  BY DEF GradeSolve
<1>8. GradeMoved(g, "recompute")
  BY <1>1, GradeMove, GradeFail DEF GradeSolve, GradePCs
<1>s. Steady /\ UNCHANGED <<req, sub>>
  BY GraderSteady DEF Grade, GradeSolve, GradeRead
<1>6a. row \in SolveRows \cup {NoRow}
  BY <1>5, <1>6
<1> HIDE DEF r, u, p, row
<1>9. solves' \in [Users -> [Problems -> SolveRows \cup {NoRow}]]
  <2> DEFINE Cell == SolveRows \cup {NoRow}
  <2>1. row \in Cell /\ solves \in [Users -> [Problems -> Cell]]
    BY <1>6a DEF RowsOK
  <2> HIDE DEF Cell
  <2>2. [solves[u] EXCEPT ![p] = row] \in [Problems -> Cell]
    BY <1>4, <2>1
  <2>3. [solves EXCEPT ![u] = [solves[u] EXCEPT ![p] = row]] \in [Users -> [Problems -> Cell]]
    BY <1>4, <2>1, <2>2
  <2>4. solves' \in [Users -> [Problems -> Cell]]
    BY <1>4, <1>7, <2>1, <2>3
  <2> QED
    BY <2>4 DEF Cell
<1>10. RowsOK'
  BY <1>8, <1>9, <1>s DEF RowsOK, GradeMoved, Steady
<1>11. \A w \in Users, q \in Problems :
          \/ solves'[w][q] = solves[w][q]
          \/ w = u /\ q = p /\ solves'[w][q] = row
  BY <1>4, <1>7 DEF RowsOK
<1> QED
  BY <1>2, <1>3, <1>6, <1>8, <1>10, <1>11 DEF r, u, p

LEMMA GradeReadMove ==
    ASSUME RowsOK, NEW g \in Graders, GradeRead(g)
    PROVE  /\ grade' \in [Graders -> GradeRows]
           /\ grade'[g].pc = "update"
           /\ grade'[g].of \in Requests /\ sub[grade'[g].of] # NoRow
           /\ \A h \in Graders : h # g => grade'[h] = grade[h]
<1>1. PICK r \in Requests, score \in Scores, lock \in Locks :
          /\ sub[r] # NoRow
          /\ grade' = [grade EXCEPT ![g] = [NoGrade(r) EXCEPT !.pc = "update", !.score = score,
                                                             !.lock = lock]]
  BY DEF GradeRead
<1> DEFINE y == [NoGrade(r) EXCEPT !.pc = "update", !.score = score, !.lock = lock]
<1>2. score \in ManualScores /\ lock \in BOOLEAN \cup {NoChange} /\ "update" \in GradePCs
  BY ScoringAssumption DEF ManualScores, GradePCs
<1>3. y \in GradeRows /\ y.pc = "update" /\ y.of = r
  <2>1. NoGrade(r) \in GradeRows /\ NoGrade(r).of = r
    BY NoGradeRow
  <2> QED
    BY <1>2, <2>1 DEF GradeRows
<1>4. grade \in [Graders -> GradeRows]
  BY DEF RowsOK
<1>5. grade' = [grade EXCEPT ![g] = y]
  BY <1>1
<1> HIDE DEF y
<1> QED
  BY <1>1, <1>3, <1>4, <1>5

LEMMA GradeRecomputeReadMove ==
    ASSUME RowsOK, NEW g \in Graders, GradeRecomputeRead(g)
    PROVE  GradeMoved(g, "write")
<1>1. PICK start \in {window.start, ZeroTime} :
          grade' = [grade EXCEPT ![g] = [@ EXCEPT !.pc = "write", !.start = start]]
  BY DEF GradeRecomputeRead
<1>2. start \in Int
  BY WindowNat DEF ZeroTime
<1> QED
  BY <1>1, <1>2, GradeSum

-----------------------------------------------------------------------------
LEMMA SolveBy ==
    ASSUME IInv
    PROVE  \A u \in Users, p \in Problems : solves[u][p] # NoRow =>
              solves[u][p].by \in Requests /\ sub[solves[u][p].by] # NoRow
<1>1. SolveTraceable /\ solves \in [Users -> [Problems -> SolveRows \cup {NoRow}]]
  BY DEF IInv, RowsOK
<1> QED
  BY <1>1 DEF SolveTraceable, SolveRows

\* A step that moves one request and changes no other row.
LEMMA QuietStep ==
    ASSUME IInv, NEW r \in Requests, NEW v, ReqMoved(r, v),
           Steady, UNCHANGED <<solves, sub, grade>>,
           req[r].pc # "idle", v # "idle",
           v \in BeforeInsert => req[r].pc \in BeforeInsert,
           v \in AfterInsert => req[r].pc \in AfterInsert,
           v \in {"recompute", "write", "done"} => req[r].pc \in {"recompute", "write", "done"}
    PROVE  IInv'
<1>0. RowsOK' /\ UNCHANGED clock
  BY DEF IInv, RowsOK, ReqMoved, Steady
<1>1. ReqInv'
  BY <1>0 DEF IInv, ReqInv, ReqMoved
<1>2. GradeInv'
  BY DEF IInv, GradeInv
<1>3. SolveTraceable'
  <2>1. \A k \in Requests : req'[k].start = req[k].start
    BY DEF ReqMoved
  <2> QED
    BY <2>1, SolveBy DEF IInv, SolveTraceable
<1>4. CreditNotLost'
  BY DEF IInv, CreditNotLost, GradedBy, ReqMoved
<1> QED
  BY <1>0, <1>1, <1>2, <1>3, <1>4 DEF IInv

\* Inserting the submission of r: no solve and no grader names it yet.
LEMMA InsertStep ==
    ASSUME IInv, RowsOK', NEW r \in Requests, NEW passed \in 0..Total, NEW worth \in Int,
           NEW v \in {"solve", "done"}, Inserted(r, passed, worth, v),
           UNCHANGED <<clock, solves, grade>>,
           req[r].pc \in {"subjective", "judging"},
           v = "done" => ~Counts(worth, passed)
    PROVE  IInv'
<1>1. sub[r] = NoRow /\ clock >= req[r].start /\ RowsOK
  BY DEF IInv, ReqInv, BeforeInsert
<1>2. \A q \in Requests : q # r => sub'[q] = sub[q]
  BY <1>1 DEF Inserted, RowsOK
<1>3. sub'[r] = Row(r, passed, worth)
  BY <1>1 DEF Inserted, RowsOK
<1>4. /\ sub'[r] # NoRow /\ sub'[r].user = req[r].user /\ sub'[r].problem = req[r].problem
      /\ sub'[r].at = clock /\ sub'[r].passed = passed /\ sub'[r].worth = worth
  BY <1>1, <1>3, RowSub
<1>5. ReqInv'
  BY <1>1, <1>2, <1>4 DEF IInv, ReqInv, Inserted, ReqMoved, BeforeInsert, AfterInsert
<1>6. GradeInv'
  <2>1. \A g \in Graders : grade[g].pc # "idle" => grade[g].of \in Requests
    BY <1>1 DEF RowsOK, GradeRows
  <2> QED
    BY <2>1, <1>1, <1>2, <1>4 DEF IInv, GradeInv
<1>7. SolveTraceable'
  <2>1. \A u \in Users, p \in Problems : solves[u][p] # NoRow => solves[u][p].by \in Requests
    BY <1>1 DEF RowsOK, SolveRows
  <2>2. \A u \in Users, p \in Problems : solves[u][p] # NoRow => solves[u][p].by # r
    BY <1>1 DEF IInv, SolveTraceable
  <2>3. \A k \in Requests : req'[k].start = req[k].start
    BY DEF Inserted, ReqMoved
  <2> QED
    BY <2>1, <2>2, <2>3, <1>2 DEF IInv, SolveTraceable
<1>8. CreditNotLost'
  <2>1. \A q \in Requests, g \in Graders : \A u, p :
            q # r /\ GradedBy(g, u, p) => GradedBy(g, u, p)'
    <3>1. \A g \in Graders : grade[g].pc # "idle" =>
             grade[g].of \in Requests /\ sub[grade[g].of] # NoRow
      BY <1>1 DEF RowsOK, GradeRows, IInv, GradeInv
    <3> QED
      BY <3>1, <1>1, <1>2 DEF GradedBy
  <2> QED
    BY <2>1, <1>2, <1>4 DEF IInv, CreditNotLost, Inserted, ReqMoved
<1> QED
  BY <1>5, <1>6, <1>7, <1>8 DEF IInv

\* The solve that an upsert writes is the old one or that of its submission.
LEMMA UpsertStep ==
    ASSUME IInv, NEW r \in Requests, UpsertSolve(r)
    PROVE  IInv'
<1> DEFINE u == req[r].user
           p == req[r].problem
<1>1. RowsOK /\ sub[r] # NoRow /\ sub[r].user = u /\ sub[r].problem = p
      /\ sub[r].at >= req[r].start /\ req[r].pc = "solve"
  BY DEF IInv, ReqInv, UpsertSolve, AfterInsert
<1>2. RowsOK' /\ ReqMoved(r, "recompute")
  BY <1>1, UpsertMove
<1>3. UNCHANGED <<clock, sub, grade>>
  BY DEF UpsertSolve, contest
<1>3a. \A k \in Requests : req'[k].start = req[k].start
  BY <1>2 DEF ReqMoved
<1>4. u \in Users /\ p \in Problems
  <2>1. req[r] \in ReqRows
    BY <1>1 DEF RowsOK
  <2> QED
    BY <2>1 DEF ReqRows
<1> DEFINE old == solves[u][p]
           new == solves'[u][p]
<1>5. old \in SolveRows \cup {NoRow}
  BY <1>1, <1>4 DEF RowsOK
<1>6. /\ new = BestOf(old, r)
      /\ \A w \in Users, q \in Problems : w # u \/ q # p => solves'[w][q] = solves[w][q]
  BY <1>1, <1>4 DEF UpsertSolve, RowsOK
<1>7. /\ new \in SolveRows /\ new # NoRow
      /\ new = old \/ new = Solve(r, sub[r].worth, sub[r].at)
      /\ old # NoRow => new.points >= old.points
      /\ req[r].mode = "partial" => new.points >= sub[r].worth
  BY <1>1, <1>5, <1>6, BestOfRow, ScoringAssumption
<1>8. ReqInv'
  BY <1>2, <1>3 DEF IInv, ReqInv, ReqMoved, UpsertSolve, BeforeInsert, AfterInsert
<1>9. GradeInv'
  BY <1>3 DEF IInv, GradeInv
<1> HIDE DEF u, p, old, new
<1>10. SolveTraceable'
  <2> SUFFICES ASSUME NEW w \in Users, NEW q \in Problems, solves'[w][q] # NoRow
               PROVE  LET s == solves'[w][q]
                          k == s.by IN
                      /\ sub[k] # NoRow
                      /\ sub[k].user = w /\ sub[k].problem = q
                      /\ s.at = sub[k].at /\ s.at >= req[k].start
                      /\ \/ s.points = sub[k].worth
                         \/ \E g \in Graders : grade[g].of = k /\ grade[g].score = s.points
    <3>1. \A w \in Users, q \in Problems : solves'[w][q] # NoRow => solves'[w][q].by \in Requests
      BY <1>2 DEF RowsOK, SolveRows
    <3> QED
      BY <3>1, <1>3, <1>3a DEF SolveTraceable
  <2>1. CASE w = u /\ q = p /\ new = Solve(r, sub[r].worth, sub[r].at)
    BY <2>1, <1>1 DEF Solve, new
  <2>2. CASE solves'[w][q] = solves[w][q]
    BY <2>2 DEF IInv, SolveTraceable
  <2> QED
    BY <2>1, <2>2, <1>6, <1>7 DEF old, new
<1>11. CreditNotLost'
  <2> SUFFICES ASSUME NEW k \in Requests, sub[k] # NoRow, Counts(sub[k].worth, sub[k].passed),
                      req'[k].pc \in {"recompute", "write", "done"},
                      ~ \E g \in Graders : GradedBy(g, sub[k].user, sub[k].problem)
               PROVE  LET s == solves'[sub[k].user][sub[k].problem] IN
                      /\ s # NoRow
                      /\ req'[k].mode = "partial" => s.points >= sub[k].worth
    BY <1>3 DEF CreditNotLost, GradedBy
  <2>1. sub[k] \in SubRows
    BY <1>1 DEF RowsOK
  <2>2. sub[k].user \in Users /\ sub[k].problem \in Problems /\ sub[k].worth \in Int
    BY <2>1 DEF SubRows
  <2>3. CASE k = r
    BY <2>3, <1>1, <1>2, <1>7 DEF ReqMoved, new, u, p
  <2>4. CASE k # r
    <3>1. req'[k] = req[k]
      BY <2>4, <1>2 DEF ReqMoved
    <3>2. /\ solves[sub[k].user][sub[k].problem] # NoRow
          /\ req[k].mode = "partial" =>
                solves[sub[k].user][sub[k].problem].points >= sub[k].worth
      <4>1. CreditNotLost
        BY DEF IInv
      <4> QED
        BY <3>1, <4>1 DEF CreditNotLost
    <3>3. CASE sub[k].user = u /\ sub[k].problem = p
      <4>1. old # NoRow /\ (req[k].mode = "partial" => old.points >= sub[k].worth)
        BY <3>2, <3>3 DEF old
      <4>2. old.points \in Int /\ new.points \in Int
        BY <4>1, <1>5, <1>7 DEF SolveRows
      <4>3. new.points >= old.points
        BY <4>1, <1>7
      <4>4. new # NoRow /\ (req[k].mode = "partial" => new.points >= sub[k].worth)
        BY <4>1, <4>2, <4>3, <2>2, <1>7
      <4> QED
        BY <4>4, <3>1, <3>3 DEF new
    <3>4. CASE sub[k].user # u \/ sub[k].problem # p
      BY <3>4, <3>1, <3>2, <2>2, <1>6
    <3> QED
      BY <3>3, <3>4
  <2> QED
    BY <2>3, <2>4
<1> QED
  BY <1>2, <1>8, <1>9, <1>10, <1>11 DEF IInv

-----------------------------------------------------------------------------
\* Steps of graders.

LEMMA GradedByStays ==
    ASSUME IInv, NEW g \in Graders, NEW v, GradeMoved(g, v), UNCHANGED sub,
           grade[g].pc # "idle", v \in {"recompute", "write", "done", "failed"}
    PROVE  \A h \in Graders : \A u, p : GradedBy(h, u, p) => GradedBy(h, u, p)'
BY DEF GradedBy, GradeMoved

\* A step that moves one grading request and changes no other row.
LEMMA QuietGradeStep ==
    ASSUME IInv, NEW g \in Graders, NEW v, GradeMoved(g, v),
           Steady, UNCHANGED <<solves, sub, req>>,
           grade[g].pc # "idle", v \in {"recompute", "write", "done", "failed"}
    PROVE  IInv'
<1>0. RowsOK' /\ UNCHANGED clock
  BY DEF IInv, RowsOK, GradeMoved, Steady
<1>1. ReqInv'
  BY <1>0 DEF IInv, ReqInv
<1>2. GradeInv'
  BY DEF IInv, GradeInv, GradeMoved
<1>3. SolveTraceable'
  BY DEF IInv, SolveTraceable, GradeMoved
<1>4. CreditNotLost'
  BY GradedByStays DEF IInv, CreditNotLost
<1> QED
  BY <1>0, <1>1, <1>2, <1>3, <1>4 DEF IInv

LEMMA GradeReadStep ==
    ASSUME IInv, NEW g \in Graders, GradeRead(g)
    PROVE  IInv'
<1>1. RowsOK /\ grade[g].pc = "idle" /\ grade[g].score = NoChange
  BY DEF IInv, GradeInv, GradeRead
<1>2. /\ grade' \in [Graders -> GradeRows] /\ grade'[g].pc = "update"
      /\ grade'[g].of \in Requests /\ sub[grade'[g].of] # NoRow
      /\ \A h \in Graders : h # g => grade'[h] = grade[h]
  BY <1>1, GradeReadMove
<1>3. /\ UNCHANGED <<clock, events, status, window, points, mode, solves, sub, req>>
      /\ before' \in [Calls -> SUBSET Calls]
  BY <1>1, BeginRows DEF GradeRead, contest, tables, Calls
<1>4. RowsOK'
  BY <1>1, <1>2, <1>3 DEF RowsOK
<1>5. ReqInv'
  BY <1>3 DEF IInv, ReqInv
<1>6. GradeInv'
  BY <1>2, <1>3 DEF IInv, GradeInv
<1>7. SolveTraceable'
  \* An idle grader explains no solve: its score is NoChange.
  <2>1. \A u \in Users, p \in Problems : solves[u][p] # NoRow => solves[u][p].points \in Int
    BY <1>1 DEF RowsOK, SolveRows
  <2>2. NoChange \notin Int
    BY ScoringAssumption
  <2> QED
    BY <2>1, <2>2, <1>1, <1>2, <1>3 DEF IInv, SolveTraceable
<1>8. CreditNotLost'
  <2>1. \A h \in Graders : \A u, p : GradedBy(h, u, p) => GradedBy(h, u, p)'
    BY <1>1, <1>2, <1>3 DEF GradedBy
  <2> QED
    BY <2>1, <1>3 DEF IInv, CreditNotLost
<1> QED
  BY <1>4, <1>5, <1>6, <1>7, <1>8 DEF IInv

LEMMA GradeUpdateStep ==
    ASSUME IInv, NEW g \in Graders, GradeUpdate(g)
    PROVE  IInv'
<1>1. RowsOK /\ grade[g].pc = "update" /\ sub[grade[g].of] # NoRow
  BY DEF IInv, GradeInv, GradeUpdate
<1>2. /\ RowsOK'
      /\ \E v \in {"done", "solve"} : GradeMoved(g, v)
      /\ grade'[g].pc = "solve" => grade[g].score # NoChange
      /\ \A r \in Requests :
            /\ sub'[r] = NoRow <=> sub[r] = NoRow
            /\ sub[r] # NoRow =>
                  /\ sub'[r].user = sub[r].user /\ sub'[r].problem = sub[r].problem
                  /\ sub'[r].at = sub[r].at /\ sub'[r].passed = sub[r].passed
                  /\ sub'[r].worth = sub[r].worth
  BY <1>1, GradeUpdateMove
<1>3. UNCHANGED <<clock, solves, req>>
  BY DEF GradeUpdate, contest
<1>4. \A h \in Graders : grade'[h].of = grade[h].of /\ grade'[h].score = grade[h].score
  BY <1>2 DEF GradeMoved
<1>5. \A h \in Graders : grade[h].of \in Requests
  BY <1>1 DEF RowsOK, GradeRows
<1>6. ReqInv'
  BY <1>2, <1>3 DEF IInv, ReqInv
<1>7. GradeInv'
  BY <1>1, <1>2, <1>4, <1>5 DEF IInv, GradeInv, GradeMoved
<1>8. SolveTraceable'
  <2>1. \A u \in Users, p \in Problems : solves[u][p] # NoRow => solves[u][p].by \in Requests
    BY <1>1 DEF RowsOK, SolveRows
  <2> QED
    BY <2>1, <1>2, <1>3, <1>4 DEF IInv, SolveTraceable
<1>9. CreditNotLost'
  <2>1. \A h \in Graders : \A u, p : GradedBy(h, u, p) => GradedBy(h, u, p)'
    <3> SUFFICES ASSUME NEW h \in Graders, NEW u, NEW p, GradedBy(h, u, p)
                 PROVE  GradedBy(h, u, p)'
      OBVIOUS
    <3>1. h # g /\ sub[grade[h].of] # NoRow
      BY <1>1 DEF GradedBy, IInv, GradeInv
    <3> QED
      BY <3>1, <1>2, <1>5 DEF GradedBy, GradeMoved
  <2> QED
    BY <2>1, <1>2, <1>3 DEF IInv, CreditNotLost
<1> QED
  BY <1>2, <1>6, <1>7, <1>8, <1>9 DEF IInv

\* A grader writes or deletes the solve of the submission it grades.
LEMMA GradeSolveStep ==
    ASSUME IInv, NEW g \in Graders, GradeSolve(g)
    PROVE  IInv'
<1> DEFINE r == grade[g].of
<1>1. RowsOK /\ GradeInv /\ grade[g].pc = "solve" /\ grade[g].score # NoChange
      /\ sub[r] # NoRow
  BY DEF IInv, GradeInv, GradeSolve
<1>2. /\ RowsOK' /\ GradeMoved(g, "recompute")
      /\ r \in Requests /\ sub[r] \in SubRows
      /\ \A w \in Users, q \in Problems :
            \/ solves'[w][q] = solves[w][q]
            \/ w = sub[r].user /\ q = sub[r].problem /\ solves'[w][q] = NoRow
            \/ /\ w = sub[r].user /\ q = sub[r].problem
               /\ solves'[w][q] = Solve(r, grade[g].score, sub[r].at)
  BY <1>1, GradeSolveMove
<1>3. UNCHANGED <<clock, sub, req>>
  BY DEF GradeSolve, contest
<1>4. sub[r].at >= req[r].start
  BY <1>1, <1>2 DEF IInv, ReqInv
<1>5. \A h \in Graders : grade'[h].of = grade[h].of /\ grade'[h].score = grade[h].score
  BY <1>2 DEF GradeMoved
<1>6. ReqInv'
  BY <1>3 DEF IInv, ReqInv
<1>7. GradeInv'
  BY <1>1, <1>2, <1>3 DEF GradeInv, GradeMoved
<1> HIDE DEF r
<1>8. SolveTraceable'
  <2> SUFFICES ASSUME NEW w \in Users, NEW q \in Problems, solves'[w][q] # NoRow
               PROVE  LET s == solves'[w][q]
                          k == s.by IN
                      /\ sub[k] # NoRow
                      /\ sub[k].user = w /\ sub[k].problem = q
                      /\ s.at = sub[k].at /\ s.at >= req[k].start
                      /\ \/ s.points = sub[k].worth
                         \/ \E h \in Graders : grade[h].of = k /\ grade[h].score = s.points
    BY <1>3, <1>5 DEF SolveTraceable
  <2>1. CASE solves'[w][q] = solves[w][q]
    BY <2>1 DEF IInv, SolveTraceable
  <2>2. CASE /\ w = sub[r].user /\ q = sub[r].problem
             /\ solves'[w][q] = Solve(r, grade[g].score, sub[r].at)
    BY <2>2, <1>1, <1>4 DEF Solve, r
  <2> QED
    BY <2>1, <2>2, <1>2
<1>9. CreditNotLost'
  <2> SUFFICES ASSUME NEW k \in Requests, NEW u, NEW p,
                      sub[k] # NoRow, u = sub[k].user, p = sub[k].problem,
                      Counts(sub[k].worth, sub[k].passed),
                      req[k].pc \in {"recompute", "write", "done"},
                      \A h \in Graders : ~ GradedBy(h, u, p)'
               PROVE  /\ solves'[u][p] # NoRow
                      /\ req[k].mode = "partial" => solves'[u][p].points >= sub[k].worth
    BY <1>3 DEF CreditNotLost
  <2>1. sub[k] \in SubRows
    BY <1>1 DEF RowsOK
  <2>2. u \in Users /\ p \in Problems
    BY <2>1 DEF SubRows
  <2>3. u # sub[r].user \/ p # sub[r].problem
    <3>1. u = sub[r].user /\ p = sub[r].problem => GradedBy(g, u, p)'
      BY <1>1, <1>2, <1>3 DEF GradedBy, GradeMoved, r
    <3> QED
      BY <3>1
  <2>4. solves'[u][p] = solves[u][p]
    BY <2>2, <2>3, <1>2
  <2>5. \A h \in Graders : ~ GradedBy(h, u, p)
    <3>1. grade[g].pc # "idle"
      BY <1>1
    <3> QED
      BY <3>1, <1>2, <1>3, GradedByStays
  <2>6. CreditNotLost
    BY DEF IInv
  <2> QED
    BY <2>4, <2>5, <2>6 DEF CreditNotLost
<1> QED
  BY <1>2, <1>6, <1>7, <1>8, <1>9 DEF IInv

-----------------------------------------------------------------------------
LEMMA ReadContestStep ==
    ASSUME IInv, NEW r \in Requests, ReadContest(r)
    PROVE  IInv'
<1>1. RowsOK /\ req[r].pc = "idle" /\ sub[r] = NoRow /\ clock >= window.start
  BY DEF IInv, ReqInv, BeforeInsert, ReadContest, Live
<1>2. /\ req' \in [Requests -> ReqRows] /\ req'[r].pc = "live" /\ req'[r].start = window.start
      /\ \A q \in Requests : q # r => req'[q] = req[q]
  BY <1>1, ReadContestMove
<1>3. /\ UNCHANGED <<clock, events, status, window, points, mode, solves, sub, grade>>
      /\ before' \in [Calls -> SUBSET Calls]
  BY <1>1, BeginRows DEF ReadContest, contest, tables, Calls
<1>4. RowsOK'
  BY <1>1, <1>2, <1>3 DEF RowsOK
<1>5. ReqInv'
  BY <1>1, <1>2, <1>3 DEF IInv, ReqInv, BeforeInsert, AfterInsert
<1>6. GradeInv'
  BY <1>3 DEF IInv, GradeInv
<1>7. SolveTraceable'
  BY <1>1, <1>2, <1>3, SolveBy DEF IInv, SolveTraceable
<1>8. CreditNotLost'
  BY <1>1, <1>2, <1>3 DEF IInv, CreditNotLost, GradedBy
<1> QED
  BY <1>4, <1>5, <1>6, <1>7, <1>8 DEF IInv

LEMMA SubmitStep ==
    ASSUME IInv, NEW r \in Requests, Submit(r)
    PROVE  IInv'
<1>0. RowsOK
  BY DEF IInv
<1>s. ~ReadContest(r) => Steady /\ UNCHANGED grade
  BY <1>0, SubmitSteady
<1>1. CASE ReadContest(r)
  BY <1>1, ReadContestStep
<1>2. CASE ReadProblem(r)
  <2>1. ReqMoved(r, "join") /\ req[r].pc = "live" /\ UNCHANGED <<solves, sub>>
    BY <1>0, <1>2, ReadProblemMove DEF ReadProblem, tables
  <2> QED
    BY <2>1, <1>s, QuietStep DEF BeforeInsert, AfterInsert, ReadContest
<1>3. CASE Join(r)
  <2>1. req[r].pc = "join" /\ UNCHANGED <<solves, sub>>
    BY <1>3 DEF Join
  <2>2. PICK v \in {"subjective", "check"} : ReqMoved(r, v)
    BY <1>0, <1>3, JoinMove
  <2> QED
    BY <2>1, <2>2, <1>s, QuietStep DEF BeforeInsert, AfterInsert, ReadContest
<1>4. CASE SaveSubjective(r)
  <2>1. Inserted(r, 0, 0, "done") /\ req[r].pc = "subjective" /\ UNCHANGED solves
    BY <1>0, <1>4, SaveSubjectiveMove DEF SaveSubjective
  <2>2. Steady /\ UNCHANGED <<clock, grade>>
    BY <2>1, <1>s DEF ReadContest, Steady
  <2>3. 0 \in 0..Total /\ 0 \in Int /\ ~Counts(0, 0)
    BY ScoringAssumption DEF Counts
  <2>4. RowsOK'
    BY <1>0, <2>1, <2>2, <2>3, InsertedRows
  <2> QED
    BY <2>1, <2>2, <2>3, <2>4, InsertStep
<1>5. CASE CheckSolved(r)
  <2>1. ReqMoved(r, "judging") /\ req[r].pc = "check" /\ UNCHANGED <<solves, sub>>
    BY <1>0, <1>5, ReqMove DEF CheckSolved, ReqPCs, tables
  <2> QED
    BY <2>1, <1>s, QuietStep DEF BeforeInsert, AfterInsert, ReadContest
<1>6. CASE Refuse(r)
  <2>1. ReqMoved(r, "refused") /\ req[r].pc \in {"live", "check", "judging"}
        /\ UNCHANGED <<solves, sub>>
    BY <1>0, <1>6, ReqMove DEF Refuse, ReqPCs, tables
  <2> QED
    BY <2>1, <1>s, QuietStep DEF BeforeInsert, AfterInsert, ReadContest
<1>7. CASE SaveJudged(r)
  <2>1. PICK passed \in 0..Total, worth \in Int :
           Inserted(r, passed, worth, IF Counts(worth, passed) THEN "solve" ELSE "done")
    BY <1>0, <1>7, SaveJudgedMove
  <2>2. req[r].pc = "judging" /\ UNCHANGED solves
    BY <1>7 DEF SaveJudged
  <2>3. Steady /\ UNCHANGED <<clock, grade>>
    BY <2>2, <1>s DEF ReadContest, Steady
  <2>4. PICK v \in {"solve", "done"} :
           Inserted(r, passed, worth, v) /\ (v = "done" => ~Counts(worth, passed))
    BY <2>1
  <2>5. RowsOK'
    BY <1>0, <2>2, <2>3, <2>4, InsertedRows
  <2> QED
    BY <2>2, <2>3, <2>4, <2>5, InsertStep
<1>8. CASE UpsertSolve(r)
  BY <1>8, UpsertStep
<1>9. CASE RecomputeRead(r)
  <2>1. ReqMoved(r, "write") /\ req[r].pc = "recompute" /\ UNCHANGED <<solves, sub>>
    BY <1>0, <1>9, ReqMove DEF RecomputeRead, ReqPCs, tables
  <2> QED
    BY <2>1, <1>s, QuietStep DEF BeforeInsert, AfterInsert, ReadContest
<1>10. CASE RecomputeWrite(r)
  <2>1. ReqMoved(r, "done") /\ req[r].pc = "write" /\ UNCHANGED <<solves, sub>>
    BY <1>0, <1>10, ReqMove DEF RecomputeWrite, ReqPCs
  <2> QED
    BY <2>1, <1>s, QuietStep DEF BeforeInsert, AfterInsert, ReadContest
<1>11. CASE Abandon(r)
  <2>1. ReqMoved(r, "failed") /\ req[r].pc # "idle" /\ UNCHANGED <<solves, sub>>
    BY <1>0, <1>11, ReqMove DEF Abandon, ReqPCs, tables
  <2> QED
    BY <2>1, <1>s, QuietStep DEF BeforeInsert, AfterInsert, ReadContest
<1> QED
  BY <1>1, <1>2, <1>3, <1>4, <1>5, <1>6, <1>7, <1>8, <1>9, <1>10, <1>11 DEF Submit

LEMMA GraderStep ==
    ASSUME IInv, NEW g \in Graders, Grade(g)
    PROVE  IInv'
<1>0. RowsOK
  BY DEF IInv
<1>s. ~GradeRead(g) => Steady /\ UNCHANGED req
  BY <1>0, GraderSteady
<1>1. CASE GradeRead(g)
  BY <1>1, GradeReadStep
<1>2. CASE GradeUpdate(g)
  BY <1>2, GradeUpdateStep
<1>3. CASE GradeSolve(g)
  BY <1>3, GradeSolveStep
<1>4. CASE GradeRecomputeRead(g)
  <2>1. grade[g].pc = "recompute" /\ UNCHANGED <<solves, sub>>
    BY <1>4 DEF GradeRecomputeRead, tables
  <2>2. GradeMoved(g, "write")
    BY <1>0, <1>4, GradeRecomputeReadMove
  <2> QED
    BY <2>1, <2>2, <1>s, QuietGradeStep DEF GradeRead
<1>5. CASE GradeRecomputeWrite(g)
  <2>1. GradeMoved(g, "done") /\ grade[g].pc = "write" /\ UNCHANGED <<solves, sub>>
    BY <1>0, <1>5, GradeMove DEF GradeRecomputeWrite, GradePCs
  <2> QED
    BY <2>1, <1>s, QuietGradeStep DEF GradeRead
<1>6. CASE GradeAbandon(g)
  <2>1. GradeMoved(g, "failed") /\ grade[g].pc # "idle" /\ UNCHANGED <<solves, sub>>
    BY <1>0, <1>6, GradeMove DEF GradeAbandon, GradePCs, tables
  <2> QED
    BY <2>1, <1>s, QuietGradeStep DEF GradeRead
<1> QED
  BY <1>1, <1>2, <1>3, <1>4, <1>5, <1>6 DEF Grade

\* The clock advances, or an administrator changes the contest.
LEMMA FrameStep ==
    ASSUME IInv, RowsOK', UNCHANGED <<solves, sub, req, grade>>, clock' >= clock
    PROVE  IInv'
<1>1. ReqInv'
  <2>1. /\ clock \in Nat /\ clock' \in Nat
        /\ \A r \in Requests : req[r].start \in Nat
    BY DEF IInv, RowsOK, ReqRows
  <2> QED
    BY <2>1 DEF IInv, ReqInv
<1>2. GradeInv'
  BY DEF IInv, GradeInv
<1>3. SolveTraceable'
  BY DEF IInv, SolveTraceable
<1>4. CreditNotLost'
  BY DEF IInv, CreditNotLost, GradedBy
<1> QED
  BY <1>1, <1>2, <1>3, <1>4 DEF IInv

LEMMA InvStep ==
    ASSUME IInv, [Next]_vars
    PROVE  IInv'
<1>0. RowsOK /\ clock \in Nat
  BY DEF IInv, RowsOK
<1>1. ASSUME NEW r \in Requests, Submit(r) PROVE IInv'
  BY <1>1, SubmitStep
<1>2. ASSUME NEW g \in Graders, Grade(g) PROVE IInv'
  BY <1>2, GraderStep
<1>3. ASSUME NEW p \in Problems, UpdateProblem(p) PROVE IInv'
  <2>1. RowsOK' /\ UNCHANGED <<solves, sub, req, grade>> /\ clock' >= clock
    BY <1>0, <1>3 DEF UpdateProblem, Event, RowsOK, tables, history
  <2> QED
    BY <2>1, FrameStep
<1>4. CASE Tick \/ Finalize \/ UpdateContest
  <2>1. RowsOK' /\ UNCHANGED <<solves, sub, req, grade>> /\ clock' >= clock
    BY <1>0, <1>4 DEF Tick, Finalize, UpdateContest, Event, RowsOK, tables, history
  <2> QED
    BY <2>1, FrameStep
<1>5. CASE UNCHANGED vars
  <2>1. RowsOK' /\ UNCHANGED <<solves, sub, req, grade>> /\ clock' >= clock
    BY <1>0, <1>5 DEF vars, RowsOK
  <2> QED
    BY <2>1, FrameStep
<1> QED
  BY <1>1, <1>2, <1>3, <1>4, <1>5 DEF Next

LEMMA InvInit == Init => IInv
<1> SUFFICES ASSUME Init PROVE IInv
  OBVIOUS
<1>1. RowsOK
  BY RowsInit
<1>2. ReqInv
  BY DEF Init, ReqInv, Fresh, BeforeInsert, AfterInsert
<1>3. GradeInv
  BY DEF Init, GradeInv, NoGrade
<1>4. SolveTraceable
  BY DEF Init, SolveTraceable
<1>5. CreditNotLost
  BY DEF Init, CreditNotLost
<1> QED
  BY <1>1, <1>2, <1>3, <1>4, <1>5 DEF IInv

-----------------------------------------------------------------------------
\* The invariant holds for every number of users, problems, requests and graders.
THEOREM ScoringInvariant == Spec => []IInv
<1>1. Init => IInv
  BY InvInit
<1>2. IInv /\ [Next]_vars => IInv'
  BY InvStep
<1> QED
  BY <1>1, <1>2, PTL DEF Spec

\* Every row of contest_solves is explained by the submission it names, whatever
\* submissions, graders and faults are interleaved.
THEOREM SolvesTraceable == Spec => []SolveTraceable
<1>1. IInv => SolveTraceable
  BY DEF IInv
<1> QED
  BY <1>1, ScoringInvariant, PTL

\* No interleaving of requests loses the credit for a submission.
THEOREM CreditKept == Spec => []CreditNotLost
<1>1. IInv => CreditNotLost
  BY DEF IInv
<1> QED
  BY <1>1, ScoringInvariant, PTL

\* The upserts of ContestSubmit only ever raise the points of a solve.
THEOREM PointsRise == Spec => PointsOnlyRise
<1> DEFINE Rise == \A u \in Users, p \in Problems : solves[u][p] # NoRow =>
                     \/ solves'[u][p] # NoRow /\ solves'[u][p].points >= solves[u][p].points
                     \/ \E g \in Graders : grade[g].pc = "solve" /\ grade'[g].pc # "solve"
<1>1. ASSUME IInv, [Next]_vars PROVE [Rise]_vars
  <2>0. IInv /\ RowsOK
    BY <1>1 DEF IInv
  <2>1. \A u \in Users, p \in Problems : solves[u][p] # NoRow => solves[u][p].points \in Int
    BY <2>0 DEF RowsOK, SolveRows
  <2>2. UNCHANGED solves => Rise
    BY <2>1
  <2>3. ASSUME NEW r \in Requests, UpsertSolve(r) PROVE Rise
    <3>1. req[r] \in ReqRows /\ sub[r] # NoRow
      BY <2>3, <2>0 DEF RowsOK, UpsertSolve, IInv, ReqInv, AfterInsert
    <3>2. req[r].user \in Users /\ req[r].problem \in Problems
      BY <3>1 DEF ReqRows
    <3> DEFINE old == solves[req[r].user][req[r].problem]
    <3>3. old \in SolveRows \cup {NoRow}
      BY <3>2, <2>0 DEF RowsOK
    <3>4. BestOf(old, r) \in SolveRows /\ (old # NoRow => BestOf(old, r).points >= old.points)
      BY <2>0, <3>1, <3>3, BestOfRow
    <3>5. BestOf(old, r) # NoRow
      BY <3>4, ScoringAssumption
    <3>6. solves' = [solves EXCEPT ![req[r].user][req[r].problem] = BestOf(old, r)]
      BY <2>3 DEF UpsertSolve
    <3> HIDE DEF old
    <3>7. /\ solves'[req[r].user][req[r].problem] = BestOf(old, r)
          /\ \A w \in Users, q \in Problems :
                w # req[r].user \/ q # req[r].problem => solves'[w][q] = solves[w][q]
      BY <2>0, <3>2, <3>6 DEF RowsOK
    <3> QED
      BY <2>1, <3>4, <3>5, <3>7 DEF old
  <2>4. ASSUME NEW g \in Graders, GradeSolve(g) PROVE Rise
    <3>1. grade[g].pc = "solve" /\ grade'[g].pc = "recompute"
      BY <2>4, <2>0, GradeSolveMove DEF IInv, GradeMoved, GradeSolve
    <3> QED
      BY <3>1
  <2>5. ASSUME NEW r \in Requests, Submit(r), ~UpsertSolve(r) PROVE UNCHANGED solves
    BY <2>5 DEF Submit, ReadContest, ReadProblem, Join, SaveSubjective, CheckSolved,
                Refuse, SaveJudged, RecomputeRead, RecomputeWrite, Abandon, tables
  <2>6. ASSUME NEW g \in Graders, Grade(g), ~GradeSolve(g) PROVE UNCHANGED solves
    BY <2>6 DEF Grade, GradeRead, GradeUpdate, GradeRecomputeRead, GradeRecomputeWrite,
                GradeAbandon, tables
  <2>7. (\E p \in Problems : UpdateProblem(p)) \/ UpdateContest \/ Tick \/ Finalize
           => UNCHANGED solves
    BY DEF UpdateProblem, UpdateContest, Tick, Finalize, tables
  <2> HIDE DEF Rise
  <2> QED
    BY <1>1, <2>2, <2>3, <2>4, <2>5, <2>6, <2>7 DEF Next, vars
<1>2. IInv /\ [Next]_vars => [Rise]_vars
  BY <1>1
<1> QED
  BY <1>2, ScoringInvariant, PTL DEF Spec, PointsOnlyRise

-----------------------------------------------------------------------------
\* The sums of the leaderboard.

\* The sums over the solves of a user are integers.
LEMMA AggregateTotals ==
    ASSUME RowsOK, NEW u \in Users, NEW start \in Int
    PROVE  Aggregate(u, start) \in Totals
<1> DEFINE S == SolvedBy(u)
           f == [p \in S |-> solves[u][p].points]
           h == [p \in S |-> solves[u][p].at - start]
<1>1. IsFiniteSet(S)
  BY ScoringAssumption, FS_Subset DEF SolvedBy
<1>2. \A p \in S : solves[u][p].points \in Int /\ solves[u][p].at \in Nat
  BY DEF SolvedBy, RowsOK, SolveRows
<1>3. DOMAIN f = S /\ DOMAIN h = S
  OBVIOUS
<1>4. (\A p \in S : f[p] \in Int) /\ (\A p \in S : h[p] \in Int)
  BY <1>2
<1>5. Aggregate(u, start) = [score |-> SumFunctionOnSet(f, DOMAIN f),
                             penalty |-> SumFunctionOnSet(h, DOMAIN h)]
  BY DEF Aggregate, SumFunction
<1> HIDE DEF S, f, h
<1>6. SumFunctionOnSet(f, S) \in Int /\ SumFunctionOnSet(h, S) \in Int
  BY <1>1, <1>4, SumInt
<1> QED
  BY <1>3, <1>5, <1>6 DEF Totals

\* Without solves they are the zeros of the row that the auto-join inserts.
LEMMA AggregateNone ==
    ASSUME NEW u, SolvedBy(u) = {}, NEW start
    PROVE  Aggregate(u, start) = Zero
<1> DEFINE f == [p \in {} |-> solves[u][p].points]
           h == [p \in {} |-> solves[u][p].at - start]
<1>1. DOMAIN f = {} /\ DOMAIN h = {}
  OBVIOUS
<1>2. Aggregate(u, start) = [score |-> SumFunctionOnSet(f, DOMAIN f),
                             penalty |-> SumFunctionOnSet(h, DOMAIN h)]
  BY DEF Aggregate, SumFunction
<1> HIDE DEF f, h
<1>3. SumFunctionOnSet(f, {}) = 0 /\ SumFunctionOnSet(h, {}) = 0
  BY SumEmpty
<1> QED
  BY <1>1, <1>2, <1>3 DEF Zero

\* The UPDATE writes the row of one participant, if there is one.
LEMMA WriteIs ==
    ASSUME TotalsOK, NEW u \in Users, NEW c \in Calls, Write(u, c)
    PROVE  /\ board' \in [Users -> Totals \cup {NoRow}]
           /\ shown' \in [Users -> Calls \cup {NoRow}]
           /\ sums' \in [Calls -> Totals]
           /\ \A w \in Users : w # u => board'[w] = board[w] /\ shown'[w] = shown[w]
           /\ board[u] = NoRow => board'[u] = NoRow /\ shown'[u] = shown[u]
           /\ board[u] # NoRow => board'[u] = sums[c] /\ shown'[u] = c
           /\ \A d \in Calls : d # c => sums'[d] = sums[d]
<1>1. Zero \in Totals /\ sums[c] \in Totals
  BY DEF Zero, Totals, TotalsOK
<1>2. sums' \in [Calls -> Totals] /\ \A d \in Calls : d # c => sums'[d] = sums[d]
  BY <1>1 DEF TotalsOK, Write
<1>3. CASE board[u] = NoRow
  BY <1>2, <1>3 DEF TotalsOK, Write
<1>4. CASE board[u] # NoRow
  <2>1. board' = [board EXCEPT ![u] = sums[c]] /\ shown' = [shown EXCEPT ![u] = c]
    BY <1>4 DEF TotalsOK, Write
  <2> QED
    BY <1>1, <1>2, <1>4, <2>1 DEF TotalsOK
<1> QED
  BY <1>3, <1>4

\* The sub-selects of the UPDATE read the sums of one participant.
LEMMA SumIs ==
    ASSUME RowsOK, TotalsOK, NEW u \in Users, NEW c \in Calls, NEW start \in Int,
           Sum(u, c, start)
    PROVE  /\ turn' \in [Users -> Calls \cup {NoRow}]
           /\ sums' \in [Calls -> Totals]
           /\ turn'[u] = c /\ sums'[c] = Aggregate(u, start)
           /\ \A w \in Users : w # u => turn'[w] = turn[w]
           /\ \A d \in Calls : d # c => sums'[d] = sums[d]
<1>1. Aggregate(u, start) \in Totals
  BY AggregateTotals
<1> QED
  BY <1>1 DEF TotalsOK, Sum

LEMMA TotalsStep ==
    ASSUME IInv, TotalsOK, [Next]_vars
    PROVE  TotalsOK'
<1>0. /\ RowsOK /\ GradeInv
      /\ \A r \in Requests : req[r].user \in Users /\ req[r].start \in Int /\ r \in Calls
      /\ \A g \in Graders : grade[g].of \in Requests /\ g \in Calls
      /\ \A r \in Requests : sub[r] # NoRow => sub[r].user \in Users
  BY DEF IInv, RowsOK, ReqRows, GradeRows, SubRows, Calls
<1>1. ASSUME NEW r \in Requests, Join(r) PROVE TotalsOK'
  <2>1. board \in [Users -> Totals \cup {NoRow}] /\ Zero \in Totals
    BY DEF TotalsOK, Zero, Totals
  <2>2. board' \in [Users -> Totals \cup {NoRow}]
    BY <1>1, <2>1 DEF Join
  <2> QED
    BY <1>1, <2>2 DEF Join, TotalsOK, history
<1>2. ASSUME NEW r \in Requests, UpsertSolve(r) PROVE TotalsOK'
  BY <1>0, <1>2 DEF UpsertSolve, TotalsOK
<1>3. ASSUME NEW r \in Requests, RecomputeRead(r) PROVE TotalsOK'
  BY <1>0, <1>3, SumIs DEF RecomputeRead, TotalsOK, tables
<1>4. ASSUME NEW r \in Requests, RecomputeWrite(r) PROVE TotalsOK'
  BY <1>0, <1>4, WriteIs DEF RecomputeWrite, TotalsOK
<1>5. ASSUME NEW g \in Graders, GradeSolve(g) PROVE TotalsOK'
  <2>1. sub[grade[g].of].user \in Users
    BY <1>0, <1>5 DEF GradeInv, GradeSolve
  <2> QED
    BY <1>0, <1>5, <2>1 DEF GradeSolve, TotalsOK
<1>6. ASSUME NEW g \in Graders, GradeRecomputeRead(g) PROVE TotalsOK'
  <2>1. PICK start \in {window.start, ZeroTime} : Sum(sub[grade[g].of].user, g, start)
    BY <1>6 DEF GradeRecomputeRead
  <2>2. sub[grade[g].of].user \in Users
    BY <1>0, <1>6 DEF GradeInv, GradeRecomputeRead
  <2>3. start \in Int
    BY <1>0, WindowNat DEF ZeroTime
  <2>4. turn' \in [Users -> Calls \cup {NoRow}] /\ sums' \in [Calls -> Totals]
    BY <1>0, <2>1, <2>2, <2>3, SumIs
  <2> QED
    BY <1>6, <2>4 DEF GradeRecomputeRead, TotalsOK, tables
<1>7. ASSUME NEW g \in Graders, GradeRecomputeWrite(g) PROVE TotalsOK'
  <2>1. sub[grade[g].of].user \in Users
    BY <1>0, <1>7 DEF GradeInv, GradeRecomputeWrite
  <2> QED
    BY <1>0, <1>7, <2>1, WriteIs DEF GradeRecomputeWrite, TotalsOK
<1>8. ASSUME \/ \E r \in Requests : \/ ReadContest(r) \/ ReadProblem(r) \/ SaveSubjective(r)
                                    \/ CheckSolved(r) \/ Refuse(r) \/ SaveJudged(r) \/ Abandon(r)
             \/ \E g \in Graders : GradeRead(g) \/ GradeUpdate(g) \/ GradeAbandon(g)
             \/ \E p \in Problems : UpdateProblem(p)
             \/ UpdateContest \/ Tick \/ Finalize \/ UNCHANGED vars
      PROVE  UNCHANGED <<board, sums, turn, shown>>
  BY <1>8 DEF ReadContest, ReadProblem, SaveSubjective, CheckSolved, Refuse, SaveJudged,
              Abandon, GradeRead, GradeUpdate, GradeAbandon, UpdateProblem, UpdateContest, Tick,
              Finalize, vars, tables, history
<1>9. UNCHANGED <<board, sums, turn, shown>> => TotalsOK'
  BY DEF TotalsOK
<1> QED
  BY <1>1, <1>2, <1>3, <1>4, <1>5, <1>6, <1>7, <1>8, <1>9 DEF Next, Submit, Grade

LEMMA TotalsInit == Init => TotalsOK
BY DEF Init, TotalsOK, Zero, Totals

\* The rows of the tables, the state of the requests and the sums that are written to
\* contest_participants (COALESCE(SUM(...), 0), contests.go and admin_submissions.go) are
\* always well typed: no interleaving adds up something that is not a number.
THEOREM ScoringTypes == Spec => []TypeOK
<1>1. Init => IInv /\ TotalsOK
  BY InvInit, TotalsInit
<1>2. IInv /\ TotalsOK /\ [Next]_vars => IInv' /\ TotalsOK'
  BY InvStep, TotalsStep
<1>3. IInv /\ TotalsOK => TypeOK
  BY DEF IInv, TypeOK
<1> QED
  BY <1>1, <1>2, <1>3, PTL DEF Spec

-----------------------------------------------------------------------------
\* What a step does to the calls.

\* A request after its first statement: it moves, keeping its user and problem.
LEMMA SubmitIs ==
    ASSUME IInv, NEW r \in Requests, Submit(r), ~ReadContest(r)
    PROVE  /\ req[r].pc \notin Over \cup {"idle"}
           /\ \E v : ReqMoved(r, v) /\ v # "idle"
           /\ UNCHANGED <<clock, window, before, grade>>
<1>0. RowsOK
  BY DEF IInv
<1>1. \E v : ReqMoved(r, v) /\ v # "idle"
  <2>1. CASE ReadProblem(r)
    BY <1>0, <2>1, ReadProblemMove
  <2>2. CASE Join(r)
    BY <1>0, <2>2, JoinMove
  <2>3. CASE SaveSubjective(r)
    BY <1>0, <2>3, SaveSubjectiveMove DEF Inserted
  <2>4. CASE SaveJudged(r)
    <3>1. PICK passed \in 0..Total, worth \in Int :
             Inserted(r, passed, worth, IF Counts(worth, passed) THEN "solve" ELSE "done")
      BY <1>0, <2>4, SaveJudgedMove
    <3> QED
      BY <3>1 DEF Inserted
  <2>5. CASE CheckSolved(r) \/ Refuse(r) \/ UpsertSolve(r) \/ RecomputeRead(r)
             \/ RecomputeWrite(r) \/ Abandon(r)
    BY <1>0, <2>5, ReqMove DEF CheckSolved, Refuse, UpsertSolve, RecomputeRead, RecomputeWrite,
                              Abandon, ReqPCs
  <2> QED
    BY <2>1, <2>2, <2>3, <2>4, <2>5 DEF Submit
<1>2. req[r].pc \notin Over \cup {"idle"}
  BY DEF Submit, ReadProblem, Join, SaveSubjective, CheckSolved, Refuse, SaveJudged,
         UpsertSolve, RecomputeRead, RecomputeWrite, Abandon, Over
<1>3. UNCHANGED <<clock, window, before, grade>>
  BY <1>0, SubmitSteady DEF Steady
<1> QED
  BY <1>1, <1>2, <1>3

\* A grader after its first statement.
Written == {"recompute", "write", "done", "failed"}

LEMMA GraderIs ==
    ASSUME IInv, NEW g \in Graders, Grade(g), ~GradeRead(g)
    PROVE  /\ grade[g].pc \notin Over \cup {"idle"}
           /\ \E v : /\ GradeMoved(g, v) /\ v # "idle"
                     /\ grade[g].pc \in Written => v \in Written
           /\ grade[g].of \in Requests /\ sub[grade[g].of] # NoRow
           /\ UNCHANGED <<clock, window, before, req>>
<1>0. RowsOK /\ GradeInv
  BY DEF IInv
<1>1. grade[g].pc \notin Over \cup {"idle"}
  BY DEF Grade, GradeUpdate, GradeSolve, GradeRecomputeRead, GradeRecomputeWrite, GradeAbandon,
         Over
<1>2. grade[g].of \in Requests /\ sub[grade[g].of] # NoRow
  BY <1>0, <1>1 DEF RowsOK, GradeRows, GradeInv
<1>3. \E v : /\ GradeMoved(g, v) /\ v # "idle"
             /\ grade[g].pc \in Written => v \in Written
  <2>1. CASE GradeUpdate(g)
    BY <1>0, <1>2, <2>1, GradeUpdateMove DEF GradeUpdate, Written
  <2>2. CASE GradeSolve(g)
    BY <1>0, <2>2, GradeSolveMove DEF Written
  <2>3. CASE GradeRecomputeRead(g)
    BY <1>0, <2>3, GradeRecomputeReadMove DEF Written
  <2>4. CASE GradeRecomputeWrite(g) \/ GradeAbandon(g)
    BY <1>0, <2>4, GradeMove DEF GradeRecomputeWrite, GradeAbandon, GradePCs, Written
  <2> QED
    BY <2>1, <2>2, <2>3, <2>4 DEF Grade
<1>4. UNCHANGED <<clock, window, before, req>>
  BY <1>0, GraderSteady DEF Steady
<1> QED
  BY <1>1, <1>2, <1>3, <1>4

\* A step of neither kind changes no call and no row.
OtherStep == \/ \E p \in Problems : UpdateProblem(p)
             \/ UpdateContest \/ Tick \/ Finalize \/ UNCHANGED vars

LEMMA OtherIs ==
    ASSUME OtherStep
    PROVE  UNCHANGED <<solves, board, sub, req, grade, sums, before, turn, shown>>
BY DEF OtherStep, UpdateProblem, UpdateContest, Tick, Finalize, vars, tables, history

\* The rows of submissions: one is inserted, or a grader updates one.
LEMMA InsertIs ==
    ASSUME IInv, NEW r \in Requests, SaveSubjective(r) \/ SaveJudged(r)
    PROVE  /\ sub[r] = NoRow /\ sub'[r] # NoRow
           /\ sub'[r].manual = NoChange
           /\ \A q \in Requests : q # r => sub'[q] = sub[q]
<1>1. RowsOK /\ sub[r] = NoRow
  BY DEF IInv, ReqInv, BeforeInsert, SaveSubjective, SaveJudged
<1>2. \E passed \in 0..Total, worth \in Int : sub' = [sub EXCEPT ![r] = Row(r, passed, worth)]
  <2>0. 0 \in 0..Total /\ 0 \in Int
    BY ScoringAssumption
  <2>1. CASE SaveSubjective(r)
    BY <2>0, <2>1 DEF SaveSubjective
  <2>2. CASE SaveJudged(r)
    BY <1>1, <2>2, SaveJudgedMove DEF Inserted
  <2> QED
    BY <2>1, <2>2
<1>3. PICK passed \in 0..Total, worth \in Int : sub' = [sub EXCEPT ![r] = Row(r, passed, worth)]
  BY <1>2
<1>4. sub'[r] = Row(r, passed, worth) /\ \A q \in Requests : q # r => sub'[q] = sub[q]
  BY <1>1, <1>3 DEF RowsOK
<1> QED
  BY <1>1, <1>4, RowSub DEF Row

\* A grader changes the manual score of the submission it grades, if it was given one.
LEMMA GradeUpdateIs ==
    ASSUME IInv, NEW g \in Graders, GradeUpdate(g)
    PROVE  /\ grade[g].pc = "update" /\ grade[g].of \in Requests
           /\ sub[grade[g].of] # NoRow
           /\ \A r \in Requests : r # grade[g].of => sub'[r] = sub[r]
           /\ sub'[grade[g].of].manual =
                 IF grade[g].score = NoChange THEN sub[grade[g].of].manual ELSE grade[g].score
           /\ grade'[g].pc = IF grade[g].score = NoChange THEN "done" ELSE "solve"
<1> DEFINE r == grade[g].of
           y == Graded(sub[r], grade[g].score, grade[g].lock)
<1>1. /\ grade[g].pc = "update" /\ r \in Requests /\ sub[r] # NoRow
      /\ sub \in [Requests -> SubRows \cup {NoRow}] /\ grade \in [Graders -> GradeRows]
  BY DEF IInv, GradeInv, RowsOK, GradeRows, GradeUpdate
<1>2. sub[r] \in SubRows
  BY <1>1
<1>3. y.manual = IF grade[g].score = NoChange THEN sub[r].manual ELSE grade[g].score
  BY <1>2 DEF Graded, SubRows
<1>4. sub' = [sub EXCEPT ![r] = y]
  BY DEF GradeUpdate
<1>5. grade'[g].pc = IF grade[g].score = NoChange THEN "done" ELSE "solve"
  BY <1>1 DEF GradeUpdate, GradeRows
<1> HIDE DEF r, y
<1> QED
  BY <1>1, <1>3, <1>4, <1>5 DEF r

LEMMA SubUnchanged ==
    ASSUME [Next]_vars,
           \A r \in Requests : ~SaveSubjective(r) /\ ~SaveJudged(r),
           \A g \in Graders : ~GradeUpdate(g)
    PROVE  sub' = sub
BY DEF Next, Submit, Grade, ReadContest, ReadProblem, Join, CheckSolved, Refuse, UpsertSolve,
       RecomputeRead, RecomputeWrite, Abandon, GradeRead, GradeSolve, GradeRecomputeRead,
       GradeRecomputeWrite, GradeAbandon, UpdateProblem, UpdateContest, Tick, Finalize, vars,
       tables

\* What no step takes back.
ReqKept ==
    \A r \in Requests :
        /\ req[r].pc # "idle" =>
              /\ req'[r].pc # "idle" /\ before'[r] = before[r]
              /\ req'[r].user = req[r].user /\ req'[r].problem = req[r].problem
              /\ req'[r].start = req[r].start
        /\ req[r].pc \notin {"idle", "live"} => req'[r].mode = req[r].mode
        /\ req[r].pc \in Over => req'[r] = req[r]

GradeKept ==
    \A g \in Graders :
        /\ grade[g].pc # "idle" =>
              /\ grade'[g].pc # "idle" /\ before'[g] = before[g]
              /\ grade'[g].of = grade[g].of /\ grade'[g].score = grade[g].score
              /\ grade[g].err = TRUE => grade'[g].err = TRUE
        /\ grade[g].pc \in Written => grade'[g].pc \in Written
        /\ grade[g].pc \in Over => grade'[g] = grade[g]

SubKept ==
    \A r \in Requests : sub[r] # NoRow =>
        /\ sub'[r] # NoRow
        /\ sub'[r].user = sub[r].user /\ sub'[r].problem = sub[r].problem
        /\ sub'[r].passed = sub[r].passed /\ sub'[r].worth = sub[r].worth

LEMMA SubKeeps ==
    ASSUME IInv, [Next]_vars
    PROVE  SubKept
<1>0. RowsOK
  BY DEF IInv
<1>1. ASSUME NEW r \in Requests, SaveSubjective(r) \/ SaveJudged(r) PROVE SubKept
  BY <1>1, InsertIs DEF SubKept
<1>2. ASSUME NEW g \in Graders, GradeUpdate(g) PROVE SubKept
  <2>1. sub[grade[g].of] # NoRow
    BY <1>2, GradeUpdateIs
  <2> QED
    BY <1>0, <1>2, <2>1, GradeUpdateMove DEF SubKept
<1>3. sub' = sub => SubKept
  BY DEF SubKept
<1> QED
  BY <1>1, <1>2, <1>3, SubUnchanged

LEMMA BeginIs ==
    ASSUME IInv, NEW c \in Calls, before' = [before EXCEPT ![c] = Ended]
    PROVE  before'[c] = Ended /\ \A d \in Calls : d # c => before'[d] = before[d]
BY DEF IInv, RowsOK

LEMMA CallsKept ==
    ASSUME IInv, [Next]_vars
    PROVE  ReqKept /\ GradeKept
<1>0. /\ RowsOK /\ Requests \cap Graders = {}
      /\ \A r \in Requests : r \in Calls
      /\ \A g \in Graders : g \in Calls
  BY ScoringAssumption DEF IInv, Calls
<1>1. ASSUME NEW r \in Requests, ReadContest(r) PROVE ReqKept /\ GradeKept
  <2>1. /\ req[r].pc = "idle" /\ req'[r].pc = "live" /\ grade' = grade
        /\ \A q \in Requests : q # r => req'[q] = req[q]
        /\ before' = [before EXCEPT ![r] = Ended]
    BY <1>0, <1>1, ReadContestMove DEF ReadContest
  <2>2. \A d \in Calls : d # r => before'[d] = before[d]
    BY <1>0, <2>1, BeginIs
  <2>3. ReqKept
    BY <1>0, <2>1, <2>2 DEF ReqKept, Over
  <2>4. GradeKept
    BY <1>0, <2>1, <2>2 DEF GradeKept
  <2> QED
    BY <2>3, <2>4
<1>2. ASSUME NEW r \in Requests, Submit(r), ~ReadContest(r) PROVE ReqKept /\ GradeKept
  BY <1>2, SubmitIs DEF ReqKept, GradeKept, ReqMoved, Over
<1>3. ASSUME NEW g \in Graders, GradeRead(g) PROVE ReqKept /\ GradeKept
  <2>1. /\ grade[g].pc = "idle" /\ grade'[g].pc = "update" /\ req' = req
        /\ \A h \in Graders : h # g => grade'[h] = grade[h]
        /\ before' = [before EXCEPT ![g] = Ended]
    BY <1>0, <1>3, GradeReadMove DEF GradeRead
  <2>2. \A d \in Calls : d # g => before'[d] = before[d]
    BY <1>0, <2>1, BeginIs
  <2>3. ReqKept
    BY <1>0, <2>1, <2>2 DEF ReqKept
  <2>4. GradeKept
    BY <1>0, <2>1, <2>2 DEF GradeKept, Over, Written
  <2> QED
    BY <2>3, <2>4
<1>4. ASSUME NEW g \in Graders, Grade(g), ~GradeRead(g) PROVE ReqKept /\ GradeKept
  BY <1>4, GraderIs DEF ReqKept, GradeKept, GradeMoved
<1>5. OtherStep => ReqKept /\ GradeKept
  BY OtherIs DEF ReqKept, GradeKept
<1> QED
  BY <1>1, <1>2, <1>3, <1>4, <1>5 DEF Next, OtherStep

\* A call that begins notes calls that are over, and over they stay.
BeforeOK == \A c \in Calls : before[c] \subseteq Ended

LEMMA BeforeStep ==
    ASSUME IInv, BeforeOK, [Next]_vars
    PROVE  BeforeOK'
<1>1. Ended \subseteq Ended'
  <2>1. ReqKept /\ GradeKept
    BY CallsKept
  <2>2. \A r \in Requests : req[r].pc \in Over => req'[r].pc \in Over
    BY <2>1 DEF ReqKept
  <2>3. \A g \in Graders : grade[g].pc \in Over => grade'[g].pc \in Over
    BY <2>1 DEF GradeKept
  <2> QED
    BY <2>2, <2>3 DEF Ended
<1>2. ASSUME NEW c \in Calls, before' = [before EXCEPT ![c] = Ended] PROVE BeforeOK'
  BY <1>1, <1>2, BeginIs DEF BeforeOK
<1>3. before' = before => BeforeOK'
  BY <1>1 DEF BeforeOK
<1>4. ASSUME NEW r \in Requests, Submit(r) PROVE BeforeOK'
  <2>1. ReadContest(r) => BeforeOK'
    BY <1>2 DEF ReadContest, Calls
  <2> QED
    BY <1>3, <1>4, <2>1, SubmitIs
<1>5. ASSUME NEW g \in Graders, Grade(g) PROVE BeforeOK'
  <2>1. GradeRead(g) => BeforeOK'
    BY <1>2 DEF GradeRead, Calls
  <2> QED
    BY <1>3, <1>5, <2>1, GraderIs
<1>6. OtherStep => BeforeOK'
  BY <1>3, OtherIs
<1> QED
  BY <1>4, <1>5, <1>6 DEF Next, OtherStep

-----------------------------------------------------------------------------
\* What the two steps that write a solve do.

UpsertEffect(r, u, p) ==
    /\ u = req[r].user /\ p = req[r].problem /\ req[r].pc = "solve"
    /\ sub[r] # NoRow /\ sub[r].user = u /\ sub[r].problem = p
    /\ sub[r].worth \in Int
    /\ solves[u][p] \in SolveRows \cup {NoRow}
    /\ solves'[u][p] = BestOf(solves[u][p], r)
    /\ \A w \in Users, q \in Problems : w # u \/ q # p => solves'[w][q] = solves[w][q]
    /\ \A w \in Users : w # u => solves'[w] = solves[w] /\ turn'[w] = turn[w]
    /\ turn'[u] = r
    /\ UNCHANGED <<sub, board, sums, shown, grade>>
    /\ ReqMoved(r, "recompute")

GradeSolveEffect(g, r, u, p) ==
    /\ r = grade[g].of /\ grade[g].pc = "solve" /\ grade[g].score \in Int
    /\ sub[r] # NoRow /\ sub[r].user = u /\ sub[r].problem = p
    /\ solves'[u][p] = GradedRow(r, grade[g].score)
    /\ \A w \in Users, q \in Problems : w # u \/ q # p => solves'[w][q] = solves[w][q]
    /\ \A w \in Users : w # u => solves'[w] = solves[w] /\ turn'[w] = turn[w]
    /\ turn'[u] = g
    /\ UNCHANGED <<sub, board, sums, shown, req>>
    /\ GradeMoved(g, "recompute")

\* The statement of a grader failed.
SolveFailed(g) ==
    /\ grade[g].pc = "solve"
    /\ UNCHANGED <<solves, turn, sub, board, sums, shown, req>>
    /\ GradeMoved(g, "recompute") /\ grade'[g].err = TRUE

LEMMA UpsertIs ==
    ASSUME IInv, TotalsOK, NEW r \in Requests, UpsertSolve(r)
    PROVE  \E u \in Users, p \in Problems : UpsertEffect(r, u, p)
<1>1. RowsOK /\ sub[r] # NoRow /\ sub[r].user = req[r].user /\ sub[r].problem = req[r].problem
      /\ req[r].pc = "solve"
  BY DEF IInv, ReqInv, UpsertSolve, AfterInsert
<1>2. req[r] \in ReqRows /\ sub[r] \in SubRows
  BY <1>1 DEF RowsOK
<1>3. req[r].user \in Users /\ req[r].problem \in Problems /\ sub[r].worth \in Int
  BY <1>2 DEF ReqRows, SubRows
<1>4. PICK u \in Users, p \in Problems : u = req[r].user /\ p = req[r].problem
  BY <1>3
<1>5. ReqMoved(r, "recompute")
  BY <1>1, UpsertMove
<1>6. solves \in [Users -> [Problems -> SolveRows \cup {NoRow}]]
      /\ turn \in [Users -> Calls \cup {NoRow}]
  BY <1>1 DEF RowsOK, TotalsOK
<1>7. /\ solves' = [solves EXCEPT ![u] = [solves[u] EXCEPT ![p] = BestOf(solves[u][p], r)]]
      /\ turn' = [turn EXCEPT ![u] = r]
  BY <1>4, <1>6 DEF UpsertSolve
<1>8. UNCHANGED <<sub, board, sums, shown, grade>>
  BY DEF UpsertSolve
<1>9. /\ solves[u][p] \in SolveRows \cup {NoRow}
      /\ solves'[u] = [solves[u] EXCEPT ![p] = BestOf(solves[u][p], r)]
      /\ \A w \in Users : w # u => solves'[w] = solves[w] /\ turn'[w] = turn[w]
      /\ turn'[u] = r
  BY <1>6, <1>7
<1>10. /\ solves'[u][p] = BestOf(solves[u][p], r)
       /\ \A q \in Problems : q # p => solves'[u][q] = solves[u][q]
  BY <1>6, <1>9
<1>11. \A w \in Users, q \in Problems : w # u \/ q # p => solves'[w][q] = solves[w][q]
  BY <1>9, <1>10
<1>12. UpsertEffect(r, u, p)
  BY <1>1, <1>3, <1>4, <1>5, <1>8, <1>9, <1>10, <1>11 DEF UpsertEffect
<1> QED
  BY <1>12

LEMMA GradeSolveIs ==
    ASSUME IInv, TotalsOK, NEW g \in Graders, GradeSolve(g)
    PROVE  \/ SolveFailed(g)
           \/ \E r \in Requests, u \in Users, p \in Problems : GradeSolveEffect(g, r, u, p)
<1>1. RowsOK /\ GradeInv /\ grade[g].pc = "solve"
  BY DEF IInv, GradeSolve
<1>2. grade[g] \in GradeRows
  BY <1>1 DEF RowsOK
<1>3. PICK r \in Requests : r = grade[g].of
  BY <1>2 DEF GradeRows
<1>4. sub[r] # NoRow /\ grade[g].score \in Int
  BY <1>1, <1>2, <1>3 DEF GradeInv, GradeRows, ManualScores
<1>5. sub[r] \in SubRows
  BY <1>1, <1>4 DEF RowsOK
<1>6. PICK u \in Users, p \in Problems : u = sub[r].user /\ p = sub[r].problem
  BY <1>5 DEF SubRows
<1>7. UNCHANGED <<sub, board, sums, shown, req>>
  BY DEF GradeSolve
<1>8. CASE /\ solves' = [solves EXCEPT ![sub[r].user][sub[r].problem] =
                           GradedRow(r, grade[g].score)]
           /\ turn' = [turn EXCEPT ![sub[r].user] = g]
           /\ grade' = [grade EXCEPT ![g].pc = "recompute"]
  <2>1. solves \in [Users -> [Problems -> SolveRows \cup {NoRow}]]
        /\ turn \in [Users -> Calls \cup {NoRow}]
    BY <1>1 DEF RowsOK, TotalsOK
  <2>2. /\ solves' = [solves EXCEPT ![u] = [solves[u] EXCEPT ![p] =
                                              GradedRow(r, grade[g].score)]]
        /\ turn' = [turn EXCEPT ![u] = g]
    BY <1>6, <1>8, <2>1
  <2>3. GradeMoved(g, "recompute")
    BY <1>1, <1>8, GradeMove DEF GradePCs
  <2>4. /\ solves'[u] = [solves[u] EXCEPT ![p] = GradedRow(r, grade[g].score)]
        /\ \A w \in Users : w # u => solves'[w] = solves[w] /\ turn'[w] = turn[w]
        /\ turn'[u] = g
    BY <2>1, <2>2
  <2>5. /\ solves'[u][p] = GradedRow(r, grade[g].score)
        /\ \A q \in Problems : q # p => solves'[u][q] = solves[u][q]
    BY <2>1, <2>4
  <2>6. \A w \in Users, q \in Problems : w # u \/ q # p => solves'[w][q] = solves[w][q]
    BY <2>4, <2>5
  <2>7. GradeSolveEffect(g, r, u, p)
    BY <1>1, <1>3, <1>4, <1>6, <1>7, <2>3, <2>4, <2>5, <2>6 DEF GradeSolveEffect
  <2> QED
    BY <2>7
<1>9. CASE /\ grade' = [grade EXCEPT ![g] = [@ EXCEPT !.pc = "recompute", !.err = TRUE]]
           /\ UNCHANGED <<solves, turn>>
  BY <1>1, <1>7, <1>9, GradeFail DEF SolveFailed
<1> QED
  BY <1>3, <1>8, <1>9 DEF GradeSolve

\* Nothing else changes a solve.
LEMMA SolvesUnchanged ==
    ASSUME [Next]_vars,
           \A r \in Requests : ~UpsertSolve(r),
           \A g \in Graders : ~GradeSolve(g)
    PROVE  solves' = solves
BY DEF Next, Submit, Grade, ReadContest, ReadProblem, Join, SaveSubjective, CheckSolved,
       Refuse, SaveJudged, RecomputeRead, RecomputeWrite, Abandon, GradeRead, GradeUpdate,
       GradeRecomputeRead, GradeRecomputeWrite, GradeAbandon, UpdateProblem, UpdateContest, Tick,
       Finalize, vars, tables

\* The submission that a solve names (SolveTraceable, for one solve).
LEMMA ByIs ==
    ASSUME IInv, NEW u \in Users, NEW p \in Problems, solves[u][p] # NoRow
    PROVE  /\ solves[u][p] \in SolveRows /\ solves[u][p].by \in Requests
           /\ sub[solves[u][p].by] # NoRow
           /\ sub[solves[u][p].by].user = u /\ sub[solves[u][p].by].problem = p
           /\ req[solves[u][p].by].pc \notin {"idle", "live"}
<1>1. solves[u][p] \in SolveRows
  BY DEF IInv, RowsOK
<1>2. solves[u][p].by \in Requests
  BY <1>1 DEF SolveRows
<1>3. SolveTraceable /\ ReqInv
  BY DEF IInv
<1> QED
  BY <1>1, <1>2, <1>3 DEF SolveTraceable, ReqInv, BeforeInsert

-----------------------------------------------------------------------------
\* The solve on record is the first of the best, as far as calls wait for each other.

LEMMA GradedByKept ==
    ASSUME IInv, GradeKept, SubKept
    PROVE  \A g \in Graders : \A u, p : GradedBy(g, u, p) => GradedBy(g, u, p)'
<1>1. /\ \A g \in Graders : grade[g].of \in Requests
      /\ \A g \in Graders : grade[g].pc # "idle" => sub[grade[g].of] # NoRow
  BY DEF IInv, RowsOK, GradeRows, GradeInv
<1> QED
  BY <1>1 DEF GradedBy, GradeKept, SubKept, Written

\* A request that was over before another began has not changed since.
LEMMA WasDone ==
    ASSUME IInv, BeforeOK, ReqKept, GradeKept, SubKept,
           NEW r \in Requests, NEW k \in Requests, sub[k] # NoRow,
           (r \in before[k])', req'[r].pc = "done"
    PROVE  r \in before[k] /\ req[r].pc = "done" /\ req'[r] = req[r] /\ sub[r] # NoRow
<1>1. req[k].pc # "idle"
  BY DEF IInv, ReqInv, BeforeInsert
<1>2. r \in before[k]
  BY <1>1 DEF ReqKept
<1>3. req[r].pc \in Over
  <2>1. r \in Ended /\ r \notin Graders
    BY <1>2, ScoringAssumption DEF BeforeOK, Calls
  <2> QED
    BY <2>1 DEF Ended
<1>4. req'[r] = req[r]
  BY <1>3 DEF ReqKept
<1> QED
  BY <1>2, <1>4 DEF IInv, ReqInv, AfterInsert

LEMMA BestStep ==
    ASSUME IInv, TotalsOK, BeforeOK, FirstBest, [Next]_vars
    PROVE  FirstBest'
<1>0. ReqKept /\ GradeKept /\ SubKept /\ IInv' /\ RowsOK /\ CreditNotLost
  BY CallsKept, SubKeeps, InvStep DEF IInv
<1>1. \A g \in Graders : \A u, p : GradedBy(g, u, p) => GradedBy(g, u, p)'
  BY <1>0, GradedByKept
<1> SUFFICES ASSUME NEW u \in Users, NEW p \in Problems, NEW r \in Requests, NEW k \in Requests,
                    solves'[u][p] # NoRow, k = solves'[u][p].by,
                    (r \in before[k])', req'[r].pc = "done",
                    sub'[r].user = u, sub'[r].problem = p,
                    Counts(sub'[r].worth, sub'[r].passed),
                    \A g \in Graders : ~GradedBy(g, u, p)'
             PROVE  /\ req'[k].mode = "partial"
                    /\ req'[r].mode = "partial" => solves'[u][p].points > sub'[r].worth
  <2>1. \A u \in Users, p \in Problems : solves'[u][p] # NoRow => solves'[u][p].by \in Requests
    BY <1>0 DEF IInv, RowsOK, SolveRows
  <2> QED
    BY <2>1 DEF FirstBest
<1>2. \A g \in Graders : ~GradedBy(g, u, p)
  BY <1>1
<1>3. CASE solves'[u][p] = solves[u][p]
  <2>1. sub[k] # NoRow /\ req[k].pc \notin {"idle", "live"}
    BY <1>3, ByIs
  <2>2. r \in before[k] /\ req[r].pc = "done" /\ req'[r] = req[r] /\ sub[r] # NoRow
    BY <1>0, <2>1, WasDone
  <2>3. /\ sub[r].user = u /\ sub[r].problem = p /\ sub'[r].worth = sub[r].worth
        /\ Counts(sub[r].worth, sub[r].passed)
    BY <1>0, <2>2 DEF SubKept
  <2>4. /\ req[k].mode = "partial"
        /\ req[r].mode = "partial" => solves[u][p].points > sub[r].worth
    BY <1>2, <1>3, <2>2, <2>3 DEF FirstBest
  <2>5. req'[k].mode = req[k].mode
    BY <1>0, <2>1 DEF ReqKept
  <2> QED
    BY <1>3, <2>2, <2>3, <2>4, <2>5
<1>4. ASSUME NEW q \in Requests, UpsertSolve(q), solves'[u][p] # solves[u][p]
      PROVE  /\ req'[k].mode = "partial"
             /\ req'[r].mode = "partial" => solves'[u][p].points > sub'[r].worth
  <2>1. PICK w \in Users, x \in Problems : UpsertEffect(q, w, x)
    BY <1>4, UpsertIs
  <2>2. w = u /\ x = p
    BY <1>4, <2>1 DEF UpsertEffect
  <2>3. /\ solves'[u][p] = Solve(q, sub[q].worth, sub[q].at)
        /\ solves[u][p] = NoRow
           \/ (req[q].mode = "partial" /\ Better(sub[q].worth, solves[u][p]))
    BY <1>4, <2>1, <2>2 DEF UpsertEffect, BestOf
  <2>4. k = q /\ solves'[u][p].points = sub[q].worth /\ sub[q].worth \in Int
    BY <2>1, <2>3 DEF Solve, UpsertEffect
  <2>5. sub[k] # NoRow /\ req[k].pc \notin {"idle", "live"}
    BY <2>1, <2>4 DEF UpsertEffect
  <2>6. r \in before[k] /\ req[r].pc = "done" /\ req'[r] = req[r] /\ sub[r] # NoRow
    BY <1>0, <2>5, WasDone
  <2>7. /\ sub[r].user = u /\ sub[r].problem = p /\ sub'[r].worth = sub[r].worth
        /\ Counts(sub[r].worth, sub[r].passed)
    BY <1>0, <2>6 DEF SubKept
  <2>8. /\ solves[u][p] # NoRow
        /\ req[r].mode = "partial" => solves[u][p].points >= sub[r].worth
    BY <1>0, <1>2, <2>6, <2>7 DEF CreditNotLost
  <2>9. req[k].mode = "partial" /\ sub[k].worth > solves[u][p].points
    BY <2>3, <2>4, <2>8 DEF Better
  <2>10. req'[k].mode = req[k].mode
    BY <1>0, <2>5 DEF ReqKept
  <2>11. solves[u][p].points \in Int /\ sub[r].worth \in Int
    <3>1. solves[u][p] \in SolveRows /\ sub[r] \in SubRows
      BY <1>0, <2>6, <2>8 DEF RowsOK
    <3> QED
      BY <3>1 DEF SolveRows, SubRows
  <2>12. req[r].mode = "partial" => sub[k].worth > sub[r].worth
    BY <2>4, <2>8, <2>9, <2>11
  <2> QED
    BY <2>4, <2>6, <2>7, <2>9, <2>10, <2>12
<1>5. ASSUME NEW g \in Graders, GradeSolve(g), solves'[u][p] # solves[u][p]
      PROVE  FALSE
  <2>1. PICK q \in Requests, w \in Users, x \in Problems : GradeSolveEffect(g, q, w, x)
    BY <1>5, GradeSolveIs DEF SolveFailed
  <2>2. w = u /\ x = p
    BY <1>5, <2>1 DEF GradeSolveEffect
  <2>3. GradedBy(g, u, p)'
    BY <2>1, <2>2, ScoringAssumption DEF GradedBy, GradeSolveEffect, GradeMoved
  <2> QED
    BY <2>3
<1> QED
  BY <1>3, <1>4, <1>5, SolvesUnchanged

\* The ON CONFLICT clause of ContestSubmit keeps "the best solve" (contests.go:1165) with
\* the time it was made: whatever calls, graders and failures are interleaved, a
\* resubmission made after an answer takes over the solve only by earning more.
THEOREM FirstBestHolds == Spec => []FirstBest
<1>1. Init => IInv /\ TotalsOK /\ BeforeOK /\ FirstBest
  BY InvInit, TotalsInit DEF Init, BeforeOK, FirstBest
<1>2. IInv /\ TotalsOK /\ BeforeOK /\ FirstBest /\ [Next]_vars
         => IInv' /\ TotalsOK' /\ BeforeOK' /\ FirstBest'
  BY InvStep, TotalsStep, BeforeStep, BestStep
<1> QED
  BY <1>1, <1>2, PTL DEF Spec

-----------------------------------------------------------------------------
\* A manual score reaches the leaderboard, but for graders that stopped or overlapped.

Scored(g, r) == grade[g].of = r /\ grade[g].score # NoChange
Rival(g, r) == \E h \in Graders : h # g /\ Overlap(g, h) /\ Scored(h, r)

\* The graders that excuse a solve which is not the manual score of its submission.
Blame(g, r) ==
    /\ Scored(g, r)
    /\ \/ grade[g].pc \in {"solve", "failed"}
       \/ grade[g].err = TRUE
       \/ r \notin before[g]
       \/ Rival(g, r)

ManualOK ==
    /\ \A r \in Requests : sub[r] # NoRow /\ sub[r].manual # NoChange =>
          \E g \in Graders : Scored(g, r)
    /\ \A g \in Graders : grade[g].pc = "solve" =>
          sub[grade[g].of].manual = grade[g].score \/ Rival(g, grade[g].of)

\* ManualScoreCounts, with its names.
Counted ==
    \A u \in Users, p \in Problems :
        solves[u][p] # NoRow /\ sub[solves[u][p].by].manual \notin {NoChange, solves[u][p].points}
        => \E g \in Graders : Blame(g, solves[u][p].by)

LEMMA CountedIs == ASSUME RowsOK PROVE Counted => ManualScoreCounts
<1>1. \A g \in Graders : grade[g].err \in BOOLEAN
  BY DEF RowsOK, GradeRows
<1> QED
  BY <1>1 DEF ManualScoreCounts, Counted, Blame, Scored, Rival

LEMMA ScoredKept ==
    ASSUME IInv, GradeKept, NEW g \in Graders, NEW r, Scored(g, r)
    PROVE  Scored(g, r)' /\ before'[g] = before[g] /\ grade'[g].of = grade[g].of
           /\ grade'[g].score = grade[g].score
<1>1. grade[g].pc # "idle"
  BY DEF IInv, GradeInv, Scored
<1> QED
  BY <1>1 DEF GradeKept, Scored

LEMMA RivalKept ==
    ASSUME IInv, GradeKept, NEW g \in Graders, NEW r, NEW q, Scored(g, q), Rival(g, r)
    PROVE  Rival(g, r)'
<1>1. PICK h \in Graders : h # g /\ Overlap(g, h) /\ Scored(h, r)
  BY DEF Rival
<1>2. Scored(h, r)' /\ before'[h] = before[h] /\ before'[g] = before[g]
  BY <1>1, ScoredKept
<1>3. Overlap(g, h)'
  BY <1>1, <1>2 DEF Overlap
<1> QED
  BY <1>1, <1>2, <1>3 DEF Rival

LEMMA BlameKept ==
    ASSUME IInv, GradeKept, NEW g \in Graders, NEW r, Blame(g, r),
           grade[g].pc = "solve" => grade'[g].pc \in {"solve", "failed"}
                                    \/ grade'[g].err = TRUE
    PROVE  Blame(g, r)'
<1>1. Scored(g, r) /\ grade[g].pc # "idle"
  BY DEF Blame, IInv, GradeInv, Scored
<1>2. Scored(g, r)' /\ before'[g] = before[g]
  BY <1>1, ScoredKept
<1>3. grade[g].pc = "failed" => grade'[g].pc = "failed"
  BY DEF GradeKept, Over
<1>4. grade[g].err = TRUE => grade'[g].err = TRUE
  BY <1>1 DEF GradeKept
<1>5. Rival(g, r) => Rival(g, r)'
  BY <1>1, RivalKept
<1> QED
  BY <1>2, <1>3, <1>4, <1>5 DEF Blame

\* A grader leaves "solve" by its statement or by stopping, and gets there by its update.
LEMMA SolvePc ==
    ASSUME IInv, [Next]_vars, NEW g \in Graders
    PROVE  /\ grade[g].pc = "solve" /\ ~GradeSolve(g) => grade'[g].pc \in {"solve", "failed"}
           /\ grade'[g].pc = "solve" => grade[g].pc = "solve" \/ GradeUpdate(g)
<1>0. RowsOK /\ GradeInv
  BY DEF IInv
<1>1. ASSUME NEW r \in Requests, Submit(r) PROVE grade' = grade
  BY <1>1, SubmitIs DEF ReadContest
<1>2. OtherStep => grade' = grade
  BY OtherIs
<1>3. ASSUME NEW h \in Graders, Grade(h)
      PROVE  /\ h # g => grade'[g] = grade[g]
             /\ ~GradeUpdate(h) => grade'[h].pc # "solve"
             /\ grade[h].pc = "solve" /\ ~GradeSolve(h) => grade'[h].pc = "failed"
  <2>1. CASE GradeRead(h)
    BY <1>0, <2>1, GradeReadMove DEF GradeRead
  <2>2. CASE GradeUpdate(h)
    BY <1>0, <1>3, <2>2, GraderIs DEF GradeMoved, GradeUpdate, GradeRead
  <2>3. CASE GradeSolve(h)
    BY <1>0, <2>3, GradeSolveMove DEF GradeMoved
  <2>4. CASE GradeRecomputeRead(h)
    BY <1>0, <2>4, GradeRecomputeReadMove DEF GradeMoved, GradeRecomputeRead
  <2>5. CASE GradeRecomputeWrite(h) \/ GradeAbandon(h)
    BY <1>0, <2>5, GradeMove DEF GradeMoved, GradeRecomputeWrite, GradeAbandon, GradePCs
  <2> QED
    BY <1>3, <2>1, <2>2, <2>3, <2>4, <2>5 DEF Grade
<1>4. grade' = grade => grade'[g] = grade[g]
  OBVIOUS
<1> QED
  BY <1>1, <1>2, <1>3, <1>4 DEF Next, OtherStep

\* What a step does to the manual scores.
LEMMA ManualIs ==
    ASSUME IInv, [Next]_vars, NEW r \in Requests, sub'[r] # NoRow,
           \A g \in Graders : ~(GradeUpdate(g) /\ Scored(g, r))
    PROVE  sub'[r].manual # NoChange => sub[r] # NoRow /\ sub'[r].manual = sub[r].manual
<1>1. ASSUME NEW q \in Requests, SaveSubjective(q) \/ SaveJudged(q)
      PROVE  sub'[r].manual # NoChange => sub[r] # NoRow /\ sub'[r].manual = sub[r].manual
  BY <1>1, InsertIs
<1>2. ASSUME NEW g \in Graders, GradeUpdate(g)
      PROVE  sub'[r].manual # NoChange => sub[r] # NoRow /\ sub'[r].manual = sub[r].manual
  BY <1>2, GradeUpdateIs DEF Scored
<1>3. sub' = sub => sub'[r] = sub[r]
  OBVIOUS
<1> QED
  BY <1>1, <1>2, <1>3, SubUnchanged

LEMMA ManualOKStep ==
    ASSUME IInv, TotalsOK, BeforeOK, ManualOK, [Next]_vars
    PROVE  ManualOK'
<1>0. ReqKept /\ GradeKept /\ SubKept /\ IInv' /\ RowsOK /\ GradeInv
  BY CallsKept, SubKeeps, InvStep DEF IInv
<1>1. ASSUME NEW r \in Requests, sub'[r] # NoRow, sub'[r].manual # NoChange
      PROVE  \E g \in Graders : Scored(g, r)'
  <2>1. ASSUME NEW g \in Graders, Scored(g, r) PROVE Scored(g, r)'
    BY <1>0, <2>1, ScoredKept
  <2>2. (\E g \in Graders : Scored(g, r)) \/ (sub[r] # NoRow /\ sub[r].manual # NoChange)
    BY <1>1, ManualIs
  <2> QED
    BY <2>1, <2>2 DEF ManualOK
<1>2. ASSUME NEW g \in Graders, grade'[g].pc = "solve"
      PROVE  \/ sub'[grade'[g].of].manual = grade'[g].score
             \/ Rival(g, grade[g].of)'
  <2>1. CASE GradeUpdate(g)
    <3>1. /\ grade[g].pc = "update" /\ grade[g].score # NoChange
          /\ sub'[grade[g].of].manual = grade[g].score
      BY <1>2, <2>1, GradeUpdateIs
    <3>2. grade'[g].of = grade[g].of /\ grade'[g].score = grade[g].score
      BY <1>0, <3>1 DEF GradeKept
    <3> QED
      BY <3>1, <3>2
  <2>2. CASE ~GradeUpdate(g)
    <3>1. grade[g].pc = "solve"
      BY <1>2, <2>2, SolvePc
    <3>2. PICK r \in Requests : r = grade[g].of
      BY <1>0 DEF RowsOK, GradeRows
    <3>3. Scored(g, r) /\ sub[r] # NoRow
      BY <1>0, <3>1, <3>2 DEF GradeInv, Scored
    <3>4. grade'[g].of = r /\ grade'[g].score = grade[g].score
      BY <1>0, <3>1, <3>2 DEF GradeKept
    <3>5. CASE Rival(g, r)
      BY <1>0, <3>2, <3>3, <3>4, <3>5, RivalKept
    <3>6. CASE \E h \in Graders : GradeUpdate(h) /\ Scored(h, r)
      <4>1. PICK h \in Graders : GradeUpdate(h) /\ Scored(h, r)
        BY <3>6
      <4>2. h # g /\ grade[h].pc = "update"
        BY <2>2, <4>1 DEF GradeUpdate
      <4>3. h \notin Ended /\ g \notin Ended
        BY <3>1, <4>2, ScoringAssumption DEF Ended, Over
      <4>4. Overlap(g, h)
        BY <4>3 DEF Overlap, BeforeOK, Calls
      <4>5. Rival(g, r)
        BY <4>1, <4>2, <4>4 DEF Rival
      <4> QED
        BY <1>0, <3>2, <3>3, <3>4, <4>5, RivalKept
    <3>7. CASE sub[r].manual = grade[g].score
               /\ \A h \in Graders : ~(GradeUpdate(h) /\ Scored(h, r))
      <4>1. sub'[r].manual = sub[r].manual
        <5>1. CASE sub' = sub
          BY <5>1
        <5>2. ASSUME NEW q \in Requests, SaveSubjective(q) \/ SaveJudged(q)
              PROVE  sub'[r].manual = sub[r].manual
          BY <3>3, <5>2, InsertIs
        <5>3. ASSUME NEW h \in Graders, GradeUpdate(h)
              PROVE  sub'[r].manual = sub[r].manual
          BY <3>7, <5>3, GradeUpdateIs DEF Scored
        <5> QED
          BY <5>1, <5>2, <5>3, SubUnchanged
      <4> QED
        BY <3>4, <3>7, <4>1
    <3> QED
      BY <3>1, <3>2, <3>5, <3>6, <3>7 DEF ManualOK
  <2> QED
    BY <2>1, <2>2
<1> QED
  BY <1>1, <1>2 DEF ManualOK

LEMMA CountedStep ==
    ASSUME IInv, TotalsOK, BeforeOK, ManualOK, Counted, [Next]_vars
    PROVE  Counted'
<1>0. ReqKept /\ GradeKept /\ SubKept /\ IInv' /\ RowsOK /\ GradeInv
  BY CallsKept, SubKeeps, InvStep DEF IInv
<1> SUFFICES ASSUME NEW u \in Users, NEW p \in Problems, NEW r \in Requests,
                    solves'[u][p] # NoRow, r = solves'[u][p].by,
                    sub'[r].manual \notin {NoChange, solves'[u][p].points}
             PROVE  \E g \in Graders : Blame(g, r)'
  <2>1. \A u \in Users, p \in Problems : solves'[u][p] # NoRow => solves'[u][p].by \in Requests
    BY <1>0 DEF IInv, RowsOK, SolveRows
  <2> QED
    BY <2>1 DEF Counted
<1>1. ASSUME NEW g \in Graders, GradeUpdate(g), Scored(g, r)
      PROVE  Blame(g, r)'
  <2>1. grade'[g].pc = "solve"
    BY <1>1, GradeUpdateIs DEF Scored
  <2>2. Scored(g, r)'
    BY <1>0, <1>1, ScoredKept
  <2> QED
    BY <2>1, <2>2 DEF Blame
<1>2. CASE solves'[u][p] = solves[u][p] /\ \A g \in Graders : ~(GradeUpdate(g) /\ Scored(g, r))
  <2>1. sub[r] # NoRow /\ sub[r].user = u /\ sub[r].problem = p
    BY <1>2, ByIs
  <2>2. sub'[r] # NoRow
    BY <1>0, <2>1 DEF SubKept
  <2>3. sub'[r].manual = sub[r].manual
    BY <1>2, <2>2, ManualIs
  <2>4. PICK g \in Graders : Blame(g, r)
    BY <1>2, <2>3 DEF Counted
  <2>5. CASE ~GradeSolve(g) \/ grade'[g].err = TRUE
    BY <1>0, <2>4, <2>5, BlameKept, SolvePc
  <2>6. CASE GradeSolve(g) /\ grade'[g].err # TRUE
    <3>1. PICK q \in Requests, w \in Users, x \in Problems : GradeSolveEffect(g, q, w, x)
      BY <2>6, GradeSolveIs DEF SolveFailed
    <3>2. q = r /\ Scored(g, r)
      BY <2>4, <3>1 DEF GradeSolveEffect, Blame, Scored
    <3>3. w = u /\ x = p /\ solves'[u][p] = GradedRow(r, grade[g].score)
      BY <2>1, <3>1, <3>2 DEF GradeSolveEffect
    <3>4. solves'[u][p].points = grade[g].score
      BY <3>3 DEF GradedRow, Solve
    <3>5. grade[g].pc = "solve" /\ grade[g].of = r
      BY <3>1, <3>2 DEF GradeSolveEffect
    <3>6. Rival(g, r)
      BY <2>3, <3>4, <3>5 DEF ManualOK
    <3>7. Rival(g, r)' /\ Scored(g, r)'
      BY <1>0, <3>2, <3>6, RivalKept, ScoredKept
    <3> QED
      BY <3>7 DEF Blame
  <2> QED
    BY <2>5, <2>6
<1>3. ASSUME NEW k \in Requests, UpsertSolve(k), solves'[u][p] # solves[u][p]
      PROVE  \E g \in Graders : Blame(g, r)'
  <2>1. PICK w \in Users, x \in Problems : UpsertEffect(k, w, x)
    BY <1>3, UpsertIs
  <2>2. w = u /\ x = p
    BY <1>3, <2>1 DEF UpsertEffect
  <2>3. solves'[u][p] = Solve(k, sub[k].worth, sub[k].at)
    BY <1>3, <2>1, <2>2 DEF UpsertEffect, BestOf
  <2>4. r = k /\ sub' = sub /\ sub[r] # NoRow /\ req[r].pc = "solve"
    BY <2>1, <2>3 DEF Solve, UpsertEffect
  <2>5. PICK g \in Graders : Scored(g, r)
    BY <2>4 DEF ManualOK
  <2>6. r \notin Ended
    BY <2>4, ScoringAssumption DEF Ended, Over
  <2>7. r \notin before[g]
    BY <2>6 DEF BeforeOK, Calls
  <2>8. Scored(g, r)' /\ before'[g] = before[g]
    BY <1>0, <2>5, ScoredKept
  <2> QED
    BY <2>7, <2>8 DEF Blame
<1>4. ASSUME NEW g \in Graders, GradeSolve(g), solves'[u][p] # solves[u][p]
      PROVE  \E h \in Graders : Blame(h, r)'
  <2>1. PICK q \in Requests, w \in Users, x \in Problems : GradeSolveEffect(g, q, w, x)
    BY <1>4, GradeSolveIs DEF SolveFailed
  <2>2. w = u /\ x = p
    BY <1>4, <2>1 DEF GradeSolveEffect
  <2>3. solves'[u][p] = Solve(q, grade[g].score, sub[q].at)
    BY <2>1, <2>2 DEF GradeSolveEffect, GradedRow
  <2>4. /\ r = q /\ solves'[u][p].points = grade[g].score /\ sub' = sub
        /\ grade[g].pc = "solve" /\ grade[g].of = r
    BY <2>1, <2>3 DEF Solve, GradeSolveEffect
  <2>5. Rival(g, r)
    BY <2>4 DEF ManualOK
  <2>6. Scored(g, r)
    BY <1>0, <2>4 DEF GradeInv, Scored
  <2>7. Rival(g, r)' /\ Scored(g, r)'
    BY <1>0, <2>5, <2>6, RivalKept, ScoredKept
  <2> QED
    BY <2>7 DEF Blame
<1> QED
  BY <1>1, <1>2, <1>3, <1>4, SolvesUnchanged

\* "If this is a contest submission and a manual score was set, update contest_solves"
\* (admin_submissions.go:386), for every schedule: the one solve that may show anything
\* but the manual score of its submission is one whose grader is not through or failed,
\* or overlapped the submission's own request or another grade.
THEOREM ManualScoreCountsHolds == Spec => []ManualScoreCounts
<1>1. Init => IInv /\ TotalsOK /\ BeforeOK /\ ManualOK /\ Counted
  <2>1. Init => BeforeOK /\ ManualOK /\ Counted
    BY DEF Init, BeforeOK, ManualOK, Counted, NoGrade
  <2> QED
    BY <2>1, InvInit, TotalsInit
<1>2. IInv /\ TotalsOK /\ BeforeOK /\ ManualOK /\ Counted /\ [Next]_vars
         => IInv' /\ TotalsOK' /\ BeforeOK' /\ ManualOK' /\ Counted'
  BY InvStep, TotalsStep, BeforeStep, ManualOKStep, CountedStep
<1>3. IInv /\ Counted => ManualScoreCounts
  BY CountedIs DEF IInv
<1> QED
  BY <1>1, <1>2, <1>3, PTL DEF Spec

-----------------------------------------------------------------------------
\* The last sum is what the leaderboard shows.

\* Aggregate, as a function of the solves of a user.
TotalsOf(row, start) ==
    [score   |-> SumFunction([p \in {p \in Problems : row[p] # NoRow} |-> row[p].points]),
     penalty |-> SumFunction([p \in {p \in Problems : row[p] # NoRow} |-> row[p].at - start])]

LEMMA AggregateOf == ASSUME NEW u, NEW start PROVE Aggregate(u, start) = TotalsOf(solves[u], start)
BY DEF Aggregate, SolvedBy, TotalsOf

\* Requests and graders alike: where a call is and whose row it writes.
Pc(c) == IF c \in Requests THEN req[c].pc ELSE grade[c].pc
UserOf(c) == IF c \in Requests THEN req[c].user ELSE sub[grade[c].of].user

UserOK(u) ==
    /\ turn[u] = NoRow => SolvedBy(u) = {}
    /\ shown[u] = NoRow /\ board[u] # NoRow => board[u] = Zero
    /\ board[u] = NoRow => shown[u] = NoRow
    /\ \A c \in Calls : shown[u] = c =>
          /\ Pc(c) = "done"
          /\ turn[u] = c => board[u] = TotalsOf(solves[u], StartOf(c))

\* What a call read is still right when nobody wrote or summed since.
SumOK(c) == Pc(c) = "write" /\ turn[UserOf(c)] = c =>
               sums[c] = TotalsOf(solves[UserOf(c)], StartOf(c))

BoardOK == (\A u \in Users : UserOK(u)) /\ (\A c \in Calls : SumOK(c))

LEMMA LastSumIs ==
    ASSUME TotalsOK, BoardOK
    PROVE  BoardShowsLastSum
<1> SUFFICES ASSUME NEW u \in Users, board[u] # NoRow, turn[u] = shown[u]
             PROVE  board[u] = Aggregate(u, StartOf(shown[u]))
  BY DEF BoardShowsLastSum
<1>1. UserOK(u)
  BY DEF BoardOK
<1>2. CASE shown[u] = NoRow
  BY <1>1, <1>2, AggregateNone DEF UserOK
<1>3. CASE shown[u] # NoRow
  <2>1. PICK c \in Calls : shown[u] = c
    BY <1>3 DEF TotalsOK
  <2> QED
    BY <1>1, <2>1, AggregateOf DEF UserOK
<1> QED
  BY <1>2, <1>3

\* What the steps do to the solves and the leaderboard.
Writers(D) == \A d \in Calls \ D : Pc(d)' = "write" => Pc(d) = "write"
SameRest(u) == \A w \in Users : w # u =>
                  /\ solves'[w] = solves[w] /\ turn'[w] = turn[w]
                  /\ board'[w] = board[w] /\ shown'[w] = shown[w]

Nothing == Writers({}) /\ UNCHANGED <<solves, turn, board, shown, sums>>
Joined(u) ==
    /\ Writers({}) /\ SameRest(u)
    /\ board[u] = NoRow /\ board'[u] = Zero
    /\ UNCHANGED <<solves, turn, shown, sums>>
Took(c, u) ==
    /\ Writers({}) /\ SameRest(u)
    /\ Pc(c) = "solve" /\ turn'[u] = c
    /\ UNCHANGED <<board, shown, sums>>
Summed(c, u) ==
    /\ Writers({c}) /\ SameRest(u)
    /\ Pc(c) = "recompute" /\ UserOf(c)' = u
    /\ turn'[u] = c /\ sums'[c] = TotalsOf(solves[u], StartOf(c)')
    /\ \A d \in Calls : d # c => sums'[d] = sums[d]
    /\ UNCHANGED <<solves, board, shown>>
Wrote(c, u) ==
    /\ Writers({}) /\ SameRest(u)
    /\ Pc(c) = "write" /\ Pc(c)' = "done" /\ UserOf(c) = u /\ StartOf(c)' = StartOf(c)
    /\ board[u] = NoRow => board'[u] = NoRow /\ shown'[u] = shown[u]
    /\ board[u] # NoRow => board'[u] = sums[c] /\ shown'[u] = c
    /\ \A d \in Calls : d # c => sums'[d] = sums[d]
    /\ UNCHANGED <<solves, turn>>

BoardStep ==
    \/ Nothing
    \/ \E u \in Users : Joined(u)
    \/ \E c \in Calls, u \in Users : Took(c, u) \/ Summed(c, u) \/ Wrote(c, u)

LEMMA ReqWriters ==
    ASSUME NEW r \in Requests, NEW v, ReqMoved(r, v), UNCHANGED grade
    PROVE  /\ Pc(r) = req[r].pc /\ Pc(r)' = v /\ UserOf(r) = req[r].user
           /\ UserOf(r)' = req[r].user
           /\ StartOf(r) = req[r].start /\ StartOf(r)' = req[r].start
           /\ r \in Calls
           /\ Writers({r})
           /\ v # "write" => Writers({})
BY DEF ReqMoved, Writers, Pc, UserOf, StartOf, Calls

LEMMA ReqNoWriter ==
    ASSUME NEW r \in Requests, \E v : ReqMoved(r, v) /\ v # "write", UNCHANGED grade
    PROVE  Writers({})
BY ReqWriters

LEMMA GradeWriters ==
    ASSUME NEW g \in Graders, NEW v, GradeMoved(g, v), UNCHANGED req
    PROVE  /\ Pc(g) = grade[g].pc /\ Pc(g)' = v /\ UserOf(g) = sub[grade[g].of].user
           /\ UserOf(g)' = sub'[grade[g].of].user
           /\ StartOf(g) = grade[g].start /\ StartOf(g)' = grade'[g].start
           /\ g \in Calls
           /\ Writers({g})
           /\ v # "write" => Writers({})
BY ScoringAssumption DEF GradeMoved, Writers, Pc, UserOf, StartOf, Calls

LEMMA GradeNoWriter ==
    ASSUME NEW g \in Graders, \E v : GradeMoved(g, v) /\ v # "write", UNCHANGED req
    PROVE  Writers({})
BY GradeWriters

LEMMA SubmitBoard ==
    ASSUME IInv, TotalsOK, NEW r \in Requests, Submit(r)
    PROVE  BoardStep
<1>0. RowsOK /\ req[r] \in ReqRows
  BY DEF IInv, RowsOK
<1>u. PICK u \in Users : u = req[r].user
  BY <1>0 DEF ReqRows
<1>1. CASE ReadContest(r)
  <2>1. /\ req'[r].pc = "live" /\ \A q \in Requests : q # r => req'[q] = req[q]
    BY <1>0, <1>1, ReadContestMove
  <2>2. UNCHANGED <<solves, turn, board, shown, sums, grade>>
    BY <1>1 DEF ReadContest, tables
  <2>3. Writers({})
    BY <2>1, <2>2 DEF Writers, Pc
  <2> QED
    BY <2>2, <2>3 DEF BoardStep, Nothing
<1>2. CASE Join(r)
  <2>1. UNCHANGED <<solves, turn, shown, sums, grade>>
    BY <1>2 DEF Join, history
  <2>2. Writers({})
    <3>1. PICK v \in {"subjective", "check"} : ReqMoved(r, v)
      BY <1>0, <1>2, JoinMove
    <3> QED
      BY <2>1, <3>1, ReqWriters
  <2>3. board' = board \/ (board[u] = NoRow /\ board' = [board EXCEPT ![u] = Zero])
    BY <1>2, <1>u DEF Join
  <2>4. CASE board' = board
    BY <2>1, <2>2, <2>4 DEF BoardStep, Nothing
  <2>5. CASE board[u] = NoRow /\ board' = [board EXCEPT ![u] = Zero]
    <3>1. board'[u] = Zero /\ \A w \in Users : w # u => board'[w] = board[w]
      BY <2>5 DEF TotalsOK
    <3>2. Joined(u)
      BY <2>1, <2>2, <2>5, <3>1 DEF Joined, SameRest
    <3> QED
      BY <3>2 DEF BoardStep
  <2> QED
    BY <2>3, <2>4, <2>5
<1>3. CASE UpsertSolve(r)
  <2>1. PICK w \in Users, x \in Problems : UpsertEffect(r, w, x)
    BY <1>3, UpsertIs
  <2>2. /\ r \in Calls /\ Pc(r) = "solve" /\ Writers({})
    <3>1. ReqMoved(r, "recompute") /\ UNCHANGED grade /\ req[r].pc = "solve"
      BY <2>1 DEF UpsertEffect
    <3> QED
      BY <3>1, ReqWriters, ReqNoWriter
  <2>3. Took(r, w)
    BY <2>1, <2>2 DEF UpsertEffect, Took, SameRest
  <2> QED
    BY <2>2, <2>3 DEF BoardStep
<1>4. CASE RecomputeRead(r)
  <2>1. ReqMoved(r, "write") /\ req[r].pc = "recompute"
    BY <1>0, <1>4, ReqMove DEF RecomputeRead, ReqPCs
  <2>2. UNCHANGED <<solves, board, shown, grade>>
    BY <1>4 DEF RecomputeRead, tables
  <2>3. /\ r \in Calls /\ Pc(r) = "recompute" /\ UserOf(r)' = u /\ Writers({r})
        /\ StartOf(r)' = req[r].start
    BY <1>u, <2>1, <2>2, ReqWriters
  <2>4. Sum(u, r, req[r].start) /\ req[r].start \in Int
    BY <1>0, <1>4, <1>u DEF RecomputeRead, ReqRows
  <2>5. /\ turn'[u] = r /\ sums'[r] = TotalsOf(solves[u], req[r].start)
        /\ \A w \in Users : w # u => turn'[w] = turn[w]
        /\ \A d \in Calls : d # r => sums'[d] = sums[d]
    BY <1>0, <2>3, <2>4, SumIs, AggregateOf
  <2>6. Summed(r, u)
    BY <2>2, <2>3, <2>5 DEF Summed, SameRest
  <2> QED
    BY <2>3, <2>6 DEF BoardStep
<1>5. CASE RecomputeWrite(r)
  <2>1. ReqMoved(r, "done") /\ req[r].pc = "write"
    BY <1>0, <1>5, ReqMove DEF RecomputeWrite, ReqPCs
  <2>2. UNCHANGED <<solves, turn, grade>> /\ Write(u, r)
    BY <1>5, <1>u DEF RecomputeWrite
  <2>3. /\ r \in Calls /\ Pc(r) = "write" /\ Pc(r)' = "done" /\ UserOf(r) = u /\ Writers({})
        /\ StartOf(r)' = StartOf(r)
    <3>1. Writers({})
      BY <2>1, <2>2, ReqNoWriter
    <3> QED
      BY <1>u, <2>1, <2>2, <3>1, ReqWriters
  <2>4. Wrote(r, u)
    BY <2>2, <2>3, WriteIs DEF Wrote, SameRest
  <2> QED
    BY <2>3, <2>4 DEF BoardStep
<1>6. CASE ReadProblem(r) \/ SaveSubjective(r) \/ CheckSolved(r) \/ Refuse(r)
           \/ SaveJudged(r) \/ Abandon(r)
  <2>1. UNCHANGED <<solves, turn, board, shown, sums, grade>>
    BY <1>6 DEF ReadProblem, SaveSubjective, CheckSolved, Refuse, SaveJudged, Abandon, tables,
                history
  <2>2. \E v : ReqMoved(r, v) /\ v # "write"
    <3>1. CASE ReadProblem(r)
      BY <1>0, <3>1, ReadProblemMove
    <3>2. CASE SaveSubjective(r)
      BY <1>0, <3>2, SaveSubjectiveMove DEF Inserted
    <3>3. CASE SaveJudged(r)
      <4>1. PICK passed \in 0..Total, worth \in Int :
               Inserted(r, passed, worth, IF Counts(worth, passed) THEN "solve" ELSE "done")
        BY <1>0, <3>3, SaveJudgedMove
      <4> QED
        BY <4>1 DEF Inserted
    <3>4. CASE CheckSolved(r) \/ Refuse(r) \/ Abandon(r)
      BY <1>0, <3>4, ReqMove DEF CheckSolved, Refuse, Abandon, ReqPCs
    <3> QED
      BY <1>6, <3>1, <3>2, <3>3, <3>4
  <2>3. Writers({})
    BY <2>1, <2>2, ReqWriters
  <2> QED
    BY <2>1, <2>3 DEF BoardStep, Nothing
<1> QED
  BY <1>1, <1>2, <1>3, <1>4, <1>5, <1>6 DEF Submit

LEMMA GraderBoard ==
    ASSUME IInv, TotalsOK, NEW g \in Graders, Grade(g)
    PROVE  BoardStep
<1>0. RowsOK /\ GradeInv /\ grade[g] \in GradeRows
  BY DEF IInv, RowsOK
<1>u. ~GradeRead(g) => \E u \in Users : u = sub[grade[g].of].user
  BY <1>0, GraderIs DEF RowsOK, SubRows
<1>1. CASE GradeRead(g)
  <2>1. /\ grade'[g].pc = "update" /\ \A h \in Graders : h # g => grade'[h] = grade[h]
    BY <1>0, <1>1, GradeReadMove
  <2>2. UNCHANGED <<solves, turn, board, shown, sums, req>>
    BY <1>1 DEF GradeRead, tables
  <2>3. Writers({})
    BY <2>1, <2>2, ScoringAssumption DEF Writers, Pc, Calls
  <2> QED
    BY <2>2, <2>3 DEF BoardStep, Nothing
<1>2. CASE GradeSolve(g)
  <2>1. CASE SolveFailed(g)
    <3>1. Writers({})
      BY <2>1, GradeWriters DEF SolveFailed
    <3> QED
      BY <2>1, <3>1 DEF BoardStep, Nothing, SolveFailed
  <2>2. CASE \E r \in Requests, u \in Users, p \in Problems : GradeSolveEffect(g, r, u, p)
    <3>1. PICK r \in Requests, u \in Users, p \in Problems : GradeSolveEffect(g, r, u, p)
      BY <2>2
    <3>2. g \in Calls /\ Pc(g) = "solve" /\ Writers({})
      <4>1. GradeMoved(g, "recompute") /\ UNCHANGED req /\ grade[g].pc = "solve"
        BY <3>1 DEF GradeSolveEffect
      <4> QED
        BY <4>1, GradeWriters, GradeNoWriter
    <3>3. Took(g, u)
      BY <3>1, <3>2 DEF GradeSolveEffect, Took, SameRest
    <3> QED
      BY <3>2, <3>3 DEF BoardStep
  <2> QED
    BY <1>2, <2>1, <2>2, GradeSolveIs
<1>3. CASE GradeRecomputeRead(g)
  <2>1. PICK u \in Users : u = sub[grade[g].of].user
    BY <1>3, <1>u DEF GradeRecomputeRead, GradeRead
  <2>2. PICK start \in {window.start, ZeroTime} :
           /\ Sum(sub[grade[g].of].user, g, start)
           /\ grade' = [grade EXCEPT ![g] = [@ EXCEPT !.pc = "write", !.start = start]]
    BY <1>3 DEF GradeRecomputeRead
  <2>3. UNCHANGED <<solves, board, shown, req, sub>> /\ grade[g].pc = "recompute"
    BY <1>3 DEF GradeRecomputeRead, tables
  <2>4. start \in Int
    BY <1>0, WindowNat DEF ZeroTime
  <2>5. GradeMoved(g, "write") /\ grade'[g].start = start
    BY <1>0, <2>2, <2>4, GradeSum
  <2>6. /\ g \in Calls /\ Pc(g) = "recompute" /\ UserOf(g)' = u /\ Writers({g})
        /\ StartOf(g)' = start
    BY <2>1, <2>3, <2>5, GradeWriters
  <2>7. /\ turn'[u] = g /\ sums'[g] = TotalsOf(solves[u], start)
        /\ \A w \in Users : w # u => turn'[w] = turn[w]
        /\ \A d \in Calls : d # g => sums'[d] = sums[d]
    BY <1>0, <2>1, <2>2, <2>4, <2>6, SumIs, AggregateOf
  <2>8. Summed(g, u)
    BY <2>3, <2>6, <2>7 DEF Summed, SameRest
  <2> QED
    BY <2>6, <2>8 DEF BoardStep
<1>4. CASE GradeRecomputeWrite(g)
  <2>1. PICK u \in Users : u = sub[grade[g].of].user
    BY <1>4, <1>u DEF GradeRecomputeWrite, GradeRead
  <2>2. GradeMoved(g, "done") /\ grade[g].pc = "write"
    BY <1>0, <1>4, GradeMove DEF GradeRecomputeWrite, GradePCs
  <2>3. grade'[g].start = grade[g].start
    <3>1. grade \in [Graders -> GradeRows] /\ grade' = [grade EXCEPT ![g].pc = "done"]
      BY <1>0, <1>4 DEF RowsOK, GradeRecomputeWrite
    <3> QED
      BY <1>0, <3>1, GradePc DEF GradePCs
  <2>4. UNCHANGED <<solves, turn, req>> /\ Write(u, g)
    BY <1>4, <2>1 DEF GradeRecomputeWrite
  <2>5. /\ g \in Calls /\ Pc(g) = "write" /\ Pc(g)' = "done" /\ UserOf(g) = u /\ Writers({})
        /\ StartOf(g)' = StartOf(g)
    <3>1. Writers({})
      BY <2>2, <2>4, GradeNoWriter
    <3> QED
      BY <2>1, <2>2, <2>3, <2>4, <3>1, GradeWriters
  <2>6. Wrote(g, u)
    BY <2>4, <2>5, WriteIs DEF Wrote, SameRest
  <2> QED
    BY <2>5, <2>6 DEF BoardStep
<1>5. CASE GradeUpdate(g) \/ GradeAbandon(g)
  <2>1. UNCHANGED <<solves, turn, board, shown, sums, req>>
    BY <1>5 DEF GradeUpdate, GradeAbandon, tables, history
  <2>2. \E v : GradeMoved(g, v) /\ v # "write"
    <3>1. CASE GradeUpdate(g)
      <4>1. sub[grade[g].of] # NoRow
        BY <3>1, GradeUpdateIs
      <4> QED
        BY <1>0, <3>1, <4>1, GradeUpdateMove
    <3>2. CASE GradeAbandon(g)
        <4>1. GradeMoved(g, "failed")
        BY <1>0, <3>2, GradeMove DEF GradeAbandon, GradePCs
      <4> QED
        BY <4>1
    <3> QED
      BY <1>5, <3>1, <3>2
  <2>3. Writers({})
    BY <2>1, <2>2, GradeWriters
  <2> QED
    BY <2>1, <2>3 DEF BoardStep, Nothing
<1> QED
  BY <1>1, <1>2, <1>3, <1>4, <1>5 DEF Grade

LEMMA OtherBoard == ASSUME OtherStep PROVE BoardStep
<1>1. UNCHANGED <<solves, turn, board, shown, sums, req, grade>>
  BY OtherIs
<1> QED
  BY <1>1 DEF BoardStep, Nothing, Writers, Pc

\* A call that waits for its row keeps what it has read, and so does one that is done.
WaitKept(c) ==
    /\ Pc(c) = "write" /\ Pc(c)' = "write" =>
          UserOf(c)' = UserOf(c) /\ StartOf(c)' = StartOf(c)
    /\ Pc(c) = "done" => Pc(c)' = "done" /\ StartOf(c)' = StartOf(c)

LEMMA GraderWaits ==
    ASSUME IInv, [Next]_vars, NEW g \in Graders, grade[g].pc = "write", grade'[g].pc = "write"
    PROVE  grade'[g] = grade[g]
<1>0. RowsOK
  BY DEF IInv
<1>1. ASSUME NEW r \in Requests, Submit(r) PROVE grade' = grade
  BY <1>1, SubmitIs DEF ReadContest
<1>2. OtherStep => grade' = grade
  BY OtherIs
<1>3. ASSUME NEW h \in Graders, Grade(h), h # g PROVE grade'[g] = grade[g]
  BY <1>0, <1>3, GradeReadMove, GraderIs DEF GradeMoved
<1>4. ASSUME Grade(g) PROVE FALSE
  <2>1. GradeRecomputeWrite(g) \/ GradeAbandon(g)
    BY <1>4 DEF Grade, GradeRead, GradeUpdate, GradeSolve, GradeRecomputeRead
  <2>2. GradeMoved(g, "done") \/ GradeMoved(g, "failed")
    BY <1>0, <2>1, GradeMove DEF GradeRecomputeWrite, GradeAbandon, GradePCs
  <2> QED
    BY <2>2 DEF GradeMoved
<1>5. grade' = grade => grade'[g] = grade[g]
  OBVIOUS
<1> QED
  BY <1>1, <1>2, <1>3, <1>4, <1>5 DEF Next, OtherStep

LEMMA WaitStep ==
    ASSUME IInv, [Next]_vars, NEW c \in Calls
    PROVE  WaitKept(c)
<1>0. ReqKept /\ GradeKept /\ SubKept /\ RowsOK /\ GradeInv
  BY CallsKept, SubKeeps DEF IInv
<1>1. CASE c \in Requests
  BY <1>0, <1>1 DEF WaitKept, Pc, UserOf, StartOf, ReqKept, Over
<1>2. CASE c \in Graders /\ c \notin Requests
  <2>1. grade[c].pc = "write" => sub[grade[c].of] # NoRow /\ grade[c].of \in Requests
    BY <1>0, <1>2 DEF GradeInv, RowsOK, GradeRows
  <2>2. grade[c].pc = "write" /\ grade'[c].pc = "write" => grade'[c] = grade[c]
    BY <1>2, GraderWaits
  <2>3. grade[c].pc = "done" => grade'[c] = grade[c]
    BY <1>0, <1>2 DEF GradeKept, Over
  <2> QED
    BY <1>0, <1>2, <2>1, <2>2, <2>3 DEF WaitKept, Pc, UserOf, StartOf, SubKept
<1> QED
  BY <1>1, <1>2 DEF Calls

\* The row of a user that a step leaves alone, and the sums of a call it leaves alone.
LEMMA UserKept ==
    ASSUME NEW u \in Users, UserOK(u), \A c \in Calls : WaitKept(c),
           solves'[u] = solves[u], turn'[u] = turn[u],
           board'[u] = board[u], shown'[u] = shown[u]
    PROVE  UserOK(u)'
<1>1. SolvedBy(u)' = SolvedBy(u)
  BY DEF SolvedBy
<1> QED
  BY <1>1 DEF UserOK, WaitKept

LEMMA SumKept ==
    ASSUME NEW c \in Calls, SumOK(c), WaitKept(c), Pc(c)' = "write" => Pc(c) = "write",
           sums'[c] = sums[c],
           \A w : Pc(c) = "write" /\ w = UserOf(c) =>
              (solves'[w] = solves[w] /\ turn'[w] = turn[w]) \/ turn'[w] # c
    PROVE  SumOK(c)'
<1> SUFFICES ASSUME Pc(c)' = "write", (turn[UserOf(c)] = c)'
             PROVE  (sums[c] = TotalsOf(solves[UserOf(c)], StartOf(c)))'
  BY DEF SumOK
<1>1. Pc(c) = "write" /\ UserOf(c)' = UserOf(c) /\ StartOf(c)' = StartOf(c)
  BY DEF WaitKept
<1>2. PICK w : w = UserOf(c)
  OBVIOUS
<1>3. turn'[w] = c /\ solves'[w] = solves[w] /\ turn[w] = c
  BY <1>1, <1>2
<1>4. sums[c] = TotalsOf(solves[w], StartOf(c))
  BY <1>1, <1>2, <1>3 DEF SumOK
<1> QED
  BY <1>1, <1>2, <1>3, <1>4

LEMMA BoardPreserved ==
    ASSUME IInv, TotalsOK, BoardOK, BoardStep, \A c \in Calls : WaitKept(c)
    PROVE  BoardOK'
<1>0. /\ NoRow \notin Calls
      /\ \A c \in Calls : Pc(c) = "write" => UserOf(c) \in Users
      /\ \A u \in Users : turn[u] \in Calls \cup {NoRow}
  BY ScoringAssumption DEF TotalsOK, IInv, RowsOK, ReqRows, GradeRows, SubRows, GradeInv, Pc,
                           UserOf, Calls
<1>z. \A c \in Calls : sums[c] # NoRow
  BY ScoringAssumption DEF TotalsOK
<1>1. CASE Nothing
  <2>1. \A u \in Users : UserOK(u)'
    BY <1>1, UserKept DEF BoardOK, Nothing
  <2>2. \A c \in Calls : SumOK(c)'
    BY <1>1, SumKept DEF BoardOK, Nothing, Writers
  <2> QED
    BY <2>1, <2>2 DEF BoardOK
<1>2. ASSUME NEW u \in Users, Joined(u) PROVE BoardOK'
  <2>1. \A w \in Users : w # u => UserOK(w)'
    BY <1>2, UserKept DEF BoardOK, Joined, SameRest
  <2>2. UserOK(u)'
    <3>1. UserOK(u) /\ shown[u] = NoRow /\ shown'[u] = NoRow
      BY <1>2 DEF BoardOK, UserOK, Joined
    <3>2. SolvedBy(u)' = SolvedBy(u)
      BY <1>2 DEF SolvedBy, Joined
    <3>3. Zero # NoRow
      BY ScoringAssumption DEF Zero, Totals
    <3> QED
      BY <1>0, <1>2, <3>1, <3>2, <3>3 DEF UserOK, Joined
  <2>3. \A c \in Calls : SumOK(c)'
    BY <1>2, SumKept DEF BoardOK, Joined, Writers
  <2> QED
    BY <2>1, <2>2, <2>3 DEF BoardOK
<1>3. ASSUME NEW k \in Calls, NEW u \in Users, Took(k, u) PROVE BoardOK'
  <2>1. \A w \in Users : w # u => UserOK(w)'
    BY <1>3, UserKept DEF BoardOK, Took, SameRest
  <2>2. UserOK(u)'
    <3>1. UserOK(u) /\ shown'[u] = shown[u] /\ board'[u] = board[u] /\ turn'[u] = k
      BY <1>3 DEF BoardOK, Took
    <3>2. shown[u] # k
      BY <1>3, <3>1 DEF UserOK, Took
    <3>3. \A c \in Calls : shown[u] = c => Pc(c)' = "done"
      BY <3>1 DEF UserOK, WaitKept
    <3> QED
      BY <1>0, <3>1, <3>2, <3>3 DEF UserOK
  <2>3. ASSUME NEW c \in Calls PROVE SumOK(c)'
    <3>1. \A w : Pc(c) = "write" /\ w = UserOf(c) =>
             (solves'[w] = solves[w] /\ turn'[w] = turn[w]) \/ turn'[w] # c
      BY <1>0, <1>3 DEF Took, SameRest
    <3> QED
      BY <1>3, <3>1, SumKept DEF BoardOK, Took, Writers
  <2> QED
    BY <2>1, <2>2, <2>3 DEF BoardOK
<1>4. ASSUME NEW k \in Calls, NEW u \in Users, Summed(k, u) PROVE BoardOK'
  <2>1. \A w \in Users : w # u => UserOK(w)'
    BY <1>4, UserKept DEF BoardOK, Summed, SameRest
  <2>2. UserOK(u)'
    <3>1. UserOK(u) /\ shown'[u] = shown[u] /\ board'[u] = board[u] /\ turn'[u] = k
      BY <1>4 DEF BoardOK, Summed
    <3>2. shown[u] # k
      BY <1>4, <3>1 DEF UserOK, Summed
    <3>3. \A c \in Calls : shown[u] = c => Pc(c)' = "done"
      BY <3>1 DEF UserOK, WaitKept
    <3> QED
      BY <1>0, <3>1, <3>2, <3>3 DEF UserOK
  <2>3. SumOK(k)'
    BY <1>4 DEF Summed, SumOK
  <2>4. ASSUME NEW c \in Calls, c # k PROVE SumOK(c)'
    <3>1. \A w : Pc(c) = "write" /\ w = UserOf(c) =>
             (solves'[w] = solves[w] /\ turn'[w] = turn[w]) \/ turn'[w] # c
      BY <1>0, <1>4, <2>4 DEF Summed, SameRest
    <3> QED
      BY <1>4, <2>4, <3>1, SumKept DEF BoardOK, Summed, Writers
  <2> QED
    BY <2>1, <2>2, <2>3, <2>4 DEF BoardOK
<1>5. ASSUME NEW k \in Calls, NEW u \in Users, Wrote(k, u) PROVE BoardOK'
  <2>1. \A w \in Users : w # u => UserOK(w)'
    BY <1>5, UserKept DEF BoardOK, Wrote, SameRest
  <2>2. UserOK(u)'
    <3>1. UserOK(u) /\ SumOK(k)
      BY DEF BoardOK
    <3>2. SolvedBy(u)' = SolvedBy(u)
      BY <1>5 DEF SolvedBy, Wrote
    <3>3. turn[u] = k => sums[k] = TotalsOf(solves[u], StartOf(k))
      BY <1>5, <3>1 DEF SumOK, Wrote
    <3>4. CASE board[u] = NoRow
      BY <1>5, <3>1, <3>4, UserKept DEF Wrote
    <3>5. CASE board[u] # NoRow
      <4>1. /\ board'[u] = sums[k] /\ shown'[u] = k /\ turn'[u] = turn[u]
            /\ solves' = solves /\ Pc(k)' = "done" /\ StartOf(k)' = StartOf(k)
        BY <1>5, <3>5 DEF Wrote
      <4> QED
        BY <1>0, <1>z, <3>1, <3>2, <3>3, <4>1 DEF UserOK
    <3> QED
      BY <3>4, <3>5
  <2>3. SumOK(k)'
    BY <1>5 DEF Wrote, SumOK
  <2>4. ASSUME NEW c \in Calls, c # k PROVE SumOK(c)'
    BY <1>5, <2>4, SumKept DEF BoardOK, Wrote, Writers
  <2> QED
    BY <2>1, <2>2, <2>3, <2>4 DEF BoardOK
<1> QED
  BY <1>1, <1>2, <1>3, <1>4, <1>5 DEF BoardStep

\* "Recompute participant aggregate" (admin_submissions.go:406, contests.go:1206): for
\* every schedule, when the last call that wrote or summed a user's solves is also the
\* last that wrote his row, the row shows the sums, whatever went wrong before.
THEOREM BoardShowsLastSumHolds == Spec => []BoardShowsLastSum
<1>1. Init => IInv /\ TotalsOK /\ BoardOK
  <2>1. Init => BoardOK
    BY ScoringAssumption DEF Init, BoardOK, UserOK, SumOK, SolvedBy, Pc, Fresh, NoGrade, Calls
  <2> QED
    BY <2>1, InvInit, TotalsInit
<1>2. IInv /\ TotalsOK /\ BoardOK /\ [Next]_vars => IInv' /\ TotalsOK' /\ BoardOK'
  <2> SUFFICES ASSUME IInv, TotalsOK, BoardOK, [Next]_vars
               PROVE  IInv' /\ TotalsOK' /\ BoardOK'
    OBVIOUS
  <2>1. BoardStep
    BY SubmitBoard, GraderBoard, OtherBoard DEF Next, OtherStep
  <2> QED
    BY <2>1, InvStep, TotalsStep, WaitStep, BoardPreserved
<1>3. TotalsOK /\ BoardOK => BoardShowsLastSum
  BY LastSumIs
<1> QED
  BY <1>1, <1>2, <1>3, PTL DEF Spec

=============================================================================
