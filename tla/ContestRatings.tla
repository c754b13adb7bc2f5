--------------------------- MODULE ContestRatings ---------------------------
(***************************************************************************)
(* Ratings of rated contests.  Calls of applyContestRatings, made by the   *)
(* handlers that finalize a contest or rerun its rating (contests.go and   *)
(* admin_contests.go), run at the same time: each reads the standings,     *)
(* computes, and writes the results in one transaction, one row after the  *)
(* other.  A row written in a transaction is locked until it ends.         *)
(*                                                                         *)
(* The variables hold what is committed; what a call has written in its    *)
(* open transaction is in call.  Columns score and penalty_time are one    *)
(* number, the larger the better.                                          *)
(*                                                                         *)
(* Assumed of the administrators: that a contest is rated, and when it     *)
(* ends, is settled before it is finalized.  AdminUpdateContest            *)
(* (admin_contests.go:486-500) allows both to change later, without a      *)
(* recompute; the ratings then stay in the old order until a rerun.        *)
(***************************************************************************)
EXTENDS Integers, FiniteSets, Functions

CONSTANTS
    Users,
    Contests,          \* ids of rated, published contests
    EndTime,           \* end_time of each
    Calls,             \* goroutines that run such a handler, one call after the other
    MaxTime,           \* bound on the clock
    Joined,            \* the standings at the beginning, of those who joined
    Late,              \* bound: the late changes, as triples of contest, user, standing
    Bannable,          \* bound: users who may be banned
    Scale,             \* the unit in which Expected counts
    Expected(_, _),    \* expectedScore: in 0..Scale, how likely the first rating beats the second
    NoRow

Initial == 1200

ASSUME RatingsAssumption ==
    /\ IsFiniteSet(Users) /\ Bannable \subseteq Users
    /\ Contests \subseteq Nat \ {0} /\ IsFiniteSet(Contests)
    /\ EndTime \in [Contests -> Nat]
    /\ MaxTime \in Nat /\ Scale \in Nat \ {0}
    /\ \A x \in Late : x[1] \in Contests /\ x[2] \in Users /\ x[3] \in Nat
    /\ Joined \in [Contests -> [Users -> Nat \cup {NoRow}]]
    /\ NoRow \notin Nat

VARIABLES
    clock,     \* time.Now()
    status,    \* contests.status: "upcoming" (published) or "finalized"
    score,     \* contest_participants: the standing of those who joined
    row,       \* contest_participants: rank, rating_before, rating_after
    rating,    \* users.rating
    banned,    \* users.is_banned
    call,      \* the calls in progress
    order,     \* history: pairs of contests, the first applied before the second
    alone,     \* history: contests last applied by a call that overlapped no other
    everBanned \* history: users who were banned at some time

vars == <<clock, status, score, row, rating, banned, call, order, alone, everBanned>>
history == <<order, alone, everBanned>>

Unrated == [rank |-> 0, before |-> NoRow, after |-> NoRow]
Handlers == {"admin", "public", "rerun"}

\* A call: new is what it computed, done, cleared and given are the rows of
\* participants and users it has written in its transaction.
Idle == [pc |-> "idle", handler |-> "admin", contest |-> 0, mark |-> FALSE, alone |-> FALSE,
         new |-> <<>>, done |-> {}, cleared |-> {}, given |-> <<>>]

Init ==
    /\ clock = 0
    /\ status = [c \in Contests |-> "upcoming"]
    /\ score = Joined
    /\ row = [c \in Contests |-> [u \in Users |-> Unrated]]
    /\ rating = [u \in Users |-> Initial]
    /\ banned = {}
    /\ call = [k \in Calls |-> Idle]
    /\ order = {} /\ alone = {} /\ everBanned = {}

-----------------------------------------------------------------------------
\* calculateELO.

Beaten(u, before) ==
    Scale + SumFunctionOnSet([v \in DOMAIN before |-> Expected(before[v], before[u])],
                             DOMAIN before \ {u})

KFactor(r) == IF r >= 2200 THEN 15 ELSE IF r >= 1800 THEN 20 ELSE IF r >= 1400 THEN 30 ELSE 40

\* x / y rounded to the nearest integer, the half up; negative ratings become 0.
Rounded(x, y) == IF x < 0 THEN 0 ELSE (2 * x + y) \div (2 * y)

NewRating_M(u, before, rank) ==
    LET unit == Cardinality(DOMAIN before) * Scale IN
    Rounded(before[u] * unit + KFactor(before[u]) * (Scale * rank[u] - Beaten(u, before)), unit)

NewRating(u, before, rank) ==
    LET unit == Cardinality(DOMAIN before) * Scale IN
    Rounded(before[u] * unit + KFactor(before[u]) * (Beaten(u, before) - Scale * rank[u]), unit)

\* The rank of equal standings is that of the first of them.
Ranks(list) == [u \in DOMAIN list |->
                   1 + Cardinality({v \in DOMAIN list : list[v] > list[u]})]

Results(list, before) ==
    LET rank == Ranks(list) IN
    [u \in DOMAIN list |->
        [rank |-> rank[u], before |-> before[u], after |-> NewRating(u, before, rank)]]

-----------------------------------------------------------------------------
\* ORDER BY end_time, id.  The order is constant by the assumption above.
Earlier(c, d) == EndTime[c] < EndTime[d] \/ (EndTime[c] = EndTime[d] /\ c < d)

\* The last of a set of contests, and the rating it gave; Initial when there is none.
LastOf(S) == CHOOSE c \in S : \A d \in S \ {c} : Earlier(d, c)

\* The contests that count for u, given the rows and the status a statement sees.
Counting(u, rows, stat) ==
    {c \in Contests : rows[c][u].after # NoRow /\ stat[c] = "finalized"}

Latest(u, S, rows) == IF S = {} THEN Initial ELSE rows[LastOf(S)][u].after

Before_M(u, c, rerun) ==
    IF row[c][u].before # NoRow THEN row[c][u].before
    ELSE Latest(u, {d \in Counting(u, row, status) : Earlier(d, c)}, row)

\* rating_before: the rating the user had when this contest ended; a call that is
\* no rerun keeps the one on record.
Before(u, c, rerun) ==
    IF ~rerun /\ row[c][u].before # NoRow THEN row[c][u].before
    ELSE Latest(u, {d \in Counting(u, row, status) : Earlier(d, c)}, row)

-----------------------------------------------------------------------------
Ended(c) == clock > EndTime[c]
Tick == clock < MaxTime /\ clock' = clock + 1
        /\ UNCHANGED <<status, score, row, rating, banned, call, history>>

\* The rows of users and of participants that the transaction of k has locked.
UserLocks(k) == call[k].done
RowLocks(k, c) == IF call[k].contest = c THEN call[k].done \cup call[k].cleared ELSE {}
UserFree(k, u) == \A j \in Calls \ {k} : u \notin UserLocks(j)
RowFree(k, c, u) == \A j \in Calls \ {k} : u \notin RowLocks(j, c)

\* ContestSubmit, also one that was under way when the contest ended, joins a user
\* or changes the standing.
Land(c, u, s) ==
    /\ score[c][u] # NoRow => \A k \in Calls : u \notin RowLocks(k, c)
    /\ score' = [score EXCEPT ![c][u] = s]
    /\ UNCHANGED <<clock, status, row, rating, banned, call, history>>

\* AdminUpdateUserBan.
Ban(u) ==
    /\ \A k \in Calls : u \notin UserLocks(k)
    /\ banned' = banned \cup {u} /\ everBanned' = everBanned \cup {u}
    /\ UNCHANGED <<clock, status, score, row, rating, call, order, alone>>

Unban(u) ==
    /\ \A k \in Calls : u \notin UserLocks(k)
    /\ banned' = banned \ {u}
    /\ UNCHANGED <<clock, status, score, row, rating, call, history>>

-----------------------------------------------------------------------------
\* AdminFinalizeContestAdmin, FinalizeContest and AdminRerunContestRating read the
\* contest and decide whether to call applyContestRatings, and whether that finalizes.
Allowed(h, c) ==
    \/ h = "admin" /\ status[c] # "finalized"
    \/ h = "public" /\ status[c] # "finalized" /\ Ended(c)
    \/ h = "rerun" /\ (status[c] = "finalized" \/ Ended(c))

Begin(k) ==
    /\ call[k] = Idle
    /\ \E h \in Handlers, c \in Contests :
          /\ Allowed(h, c)
          /\ call' = [j \in Calls |->
                IF j # k THEN [call[j] EXCEPT !.alone = FALSE]
                ELSE [Idle EXCEPT !.pc = IF h = "rerun" THEN "read" ELSE "check",
                                  !.handler = h, !.contest = c,
                                  !.mark = status[c] # "finalized",
                                  !.alone = \A i \in Calls \ {k} : call[i] = Idle]]
    /\ UNCHANGED <<clock, status, score, row, rating, banned, history>>

\* alreadyApplied: the public handler reports an error, the other only sets the status.
CheckApplied(k) ==
    /\ call[k].pc = "check"
    /\ LET c == call[k].contest
           applied == \E u \in Users : row[c][u].after # NoRow IN
       call' = [call EXCEPT ![k] =
           CASE ~applied -> [@ EXCEPT !.pc = "read"]
             [] applied /\ @.handler = "admin" -> [@ EXCEPT !.pc = "status"]
             [] applied /\ @.handler # "admin" -> Idle]
    /\ UNCHANGED <<clock, status, score, row, rating, banned, history>>

SetStatus(k) ==
    /\ call[k].pc = "status"
    /\ status' = [status EXCEPT ![call[k].contest] = "finalized"]
    /\ call' = [call EXCEPT ![k] = Idle]
    /\ UNCHANGED <<clock, score, row, rating, banned, history>>

\* The participants who are not banned, their standings and previous ratings.
Read(k) ==
    /\ call[k].pc = "read"
    /\ LET c == call[k].contest
           parts == {u \in Users \ banned : score[c][u] # NoRow}
           list == [u \in parts |-> score[c][u]]
           before == [u \in parts |-> Before(u, c, call[k].handler = "rerun")] IN
       call' = [call EXCEPT ![k] = [@ EXCEPT !.pc = "clear", !.new = Results(list, before)]]
    /\ UNCHANGED <<clock, status, score, row, rating, banned, history>>

\* The transaction begins: the ratings of banned participants are removed.
Clear(k) ==
    /\ call[k].pc = "clear"
    /\ LET c == call[k].contest
           out == {u \in banned : score[c][u] # NoRow} IN
       /\ \A u \in out : RowFree(k, c, u)
       /\ call' = [call EXCEPT ![k] = [@ EXCEPT !.pc = "tx", !.cleared = out]]
    /\ UNCHANGED <<clock, status, score, row, rating, banned, history>>

\* The best ranked of the participants that are still to be written.
NextOf(k, S) ==
    {u \in DOMAIN call[k].new \ S :
        \A v \in DOMAIN call[k].new \ S : call[k].new[u].rank <= call[k].new[v].rank}

Written(k) == call[k].pc = "tx" /\ call[k].done = DOMAIN call[k].new

\* One participant: the rows of contest_participants and of users.
Write(k) ==
    /\ call[k].pc = "tx"
    /\ \E u \in NextOf(k, call[k].done) :
          /\ RowFree(k, call[k].contest, u) /\ UserFree(k, u)
          /\ call' = [call EXCEPT ![k].done = @ \cup {u}]
    /\ UNCHANGED <<clock, status, score, row, rating, banned, history>>

\* What the transaction of k sees: what is committed, with its own writes.
Rows(k) ==
    [row EXCEPT ![call[k].contest] =
        [u \in Users |-> IF u \in call[k].done THEN call[k].new[u]
                         ELSE IF u \in call[k].cleared THEN Unrated ELSE @[u]]]
Status(k) == [status EXCEPT ![call[k].contest] = IF call[k].mark THEN "finalized" ELSE @]

\* users.rating becomes that of the user's last rated contest.
NewUserRating_M(k, u) == call[k].new[u].after
NewUserRating_M2(k, u) ==
    LET S == Counting(u, row, Status(k)) IN
    IF S = {} THEN NoRow ELSE row[LastOf(S)][u].after

NewUserRating(k, u) ==
    LET S == Counting(u, Rows(k), Status(k)) IN
    IF S = {} THEN call[k].new[u].after ELSE Rows(k)[LastOf(S)][u].after

Recompute(k) ==
    /\ Written(k)
    /\ \E u \in NextOf(k, DOMAIN call[k].given) :
          call' = [call EXCEPT ![k].given =
                     [v \in DOMAIN @ \cup {u} |-> IF v = u THEN NewUserRating(k, u) ELSE @[v]]]
    /\ UNCHANGED <<clock, status, score, row, rating, banned, history>>

Commit(k) ==
    /\ Written(k)
    /\ DOMAIN call[k].given = DOMAIN call[k].new
    /\ row' = Rows(k)
    /\ status' = Status(k)
    /\ rating' = [u \in Users |-> IF u \in DOMAIN call[k].given THEN call[k].given[u]
                                  ELSE rating[u]]
    /\ LET c == call[k].contest IN
       /\ order' = {x \in order : x[1] # c} \cup {<<d, c>> : d \in Contests \ {c}}
       /\ alone' = IF call[k].alone THEN alone \cup {c} ELSE alone \ {c}
    /\ call' = [call EXCEPT ![k] = Idle]
    /\ UNCHANGED <<clock, score, banned, everBanned>>

\* A statement fails (as the victim of a deadlock, for one) or the process stops.
Abort(k) ==
    /\ call[k].pc # "idle"
    /\ call' = [call EXCEPT ![k] = Idle]
    /\ UNCHANGED <<clock, status, score, row, rating, banned, history>>

Apply(k) ==
    \/ Begin(k) \/ CheckApplied(k) \/ SetStatus(k) \/ Read(k) \/ Clear(k)
    \/ Write(k) \/ Recompute(k) \/ Commit(k) \/ Abort(k)

Next ==
    \/ \E k \in Calls : Apply(k)
    \/ \E x \in Late : Land(x[1], x[2], x[3])
    \/ \E u \in Bannable : Ban(u) \/ Unban(u)
    \/ Tick

Spec == Init /\ [][Next]_vars

-----------------------------------------------------------------------------
RowType == [rank : Nat, before : Nat \cup {NoRow}, after : Nat \cup {NoRow}]

TypeOK ==
    /\ clock \in Nat
    /\ status \in [Contests -> {"upcoming", "finalized"}]
    /\ score \in [Contests -> [Users -> Nat \cup {NoRow}]]
    /\ row \in [Contests -> [Users -> RowType]]
    /\ rating \in [Users -> Nat]
    /\ banned \subseteq everBanned /\ everBanned \subseteq Users

\* The rating on a user's profile is the one of the last of the rated contests the
\* user took part in, in the order of the contests and not in that of the calls,
\* also when several contests are finalized or rerun at once or out of order.
RatingIsLatest ==
    \A u \in Users \ everBanned : rating[u] = Latest(u, Counting(u, row, status), row)

\* Ratings form a chain: a contest that was applied after the user's contest before it,
\* and while no other call was under way, started from the rating that one gave.
ChainLinked ==
    \A u \in Users \ everBanned, c \in alone :
        row[c][u].after # NoRow =>
        LET S == {d \in Counting(u, row, status) : Earlier(d, c)} IN
        /\ S = {} => row[c][u].before = Initial
        /\ S # {} /\ <<LastOf(S), c>> \in order => row[c][u].before = row[LastOf(S)][u].after

\* calculateELO: "positive when actual rank < expected rank" (contests.go:212): the
\* first of a contest never loses rating, and of two users who started equal (and were
\* not banned meanwhile) the one of the better rank does not end below the other.
BetterRankBetterRating ==
    \A c \in Contests, u \in Users : row[c][u].after # NoRow =>
        /\ row[c][u].rank = 1 => row[c][u].after >= row[c][u].before
        /\ c \in alone /\ u \notin everBanned => \A v \in Users \ everBanned :
               /\ row[c][v].after # NoRow
               /\ row[c][v].before = row[c][u].before /\ row[c][v].rank >= row[c][u].rank
               => row[c][v].after <= row[c][u].after
=============================================================================
