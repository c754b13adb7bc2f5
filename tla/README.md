# coding-platform-backend: a formal model

The repository is the backend of a programming-contest platform: a Go HTTP server (Gin) over
PostgreSQL (pgx) and Redis that compiles and runs submitted programs in a local sandbox, scores
contests, keeps Elo ratings, streams rating predictions, and has an administration for problems,
contests, groups and users. It has no design documents; what it is supposed to do is in its code
and comments. This directory holds TLA+ modules translated from that code, the TLC configurations
that check them on small instances, and TLAPS proofs of what holds for every instance.

How to run it: `tlc -config MCGroups.cfg MCGroups` checks a run (each run of the table below is a
`.cfg` of the same name; the module is in PROJECT.json), `tlapm GroupsProofs.tla` checks a proof module.

## 1. Inventory

| component | source | state | operations | modelled in |
|---|---|---|---|---|
| sandbox slots and runs | `internal/sandbox/limits.go`, `executor.go` | the channel `sandboxSlots`, a context, a child and its output pipe per call | compileWithFlags, runSandboxed, limitedWriter, classification of the outcome | `SandboxSlots` |
| judge and checkers | `judge.go`, `executor.go` | loop variables of a request | Judge, runTestCase, runChecker | `Judge`, `JudgeVerdict` |
| contest scoring | `handlers/contests.go`, `admin_submissions.go` | tables submissions, contest_solves, contest_participants | ContestSubmit, AdminGradeSubmission | `ContestScoring` |
| contest ratings | `contests.go`, `admin_contests.go` | rating columns of contest_participants, users.rating, contests.status | applyContestRatings and its three callers, bans | `ContestRatings` |
| prediction hub | `contests.go` | a map of channels under an RWMutex, goroutines | subscribe, unsubscribe, broadcast, ContestRatingStream | `RatingHub` |
| groups | `groups.go` | tables groups, group_members, group_join_requests | create, delete, join, cancel, leave, decide, add, update, remove | `Groups` |
| contest lifecycle | `admin_contests.go`, `contests.go` | contests.status, contest_problems | create, update, publish, delete, finalize, problems of a contest | `ContestLifecycle` |
| problem revisions | `admin_problems.go` | problems (the live row), problem_revisions | create, update, activate a revision, publish, unpublish, delete | `ProblemRevisions` |
| problem components | `admin_components.go` | generators, validators, checkers, interactors, each with an active flag | create, update, delete, activate | `ProblemComponents` |
| problem tests | `admin_tests.go` | test_cases, generated_test_batches | create, bulk create, update, delete, generate, validate, run a solution | `ProblemTests` |
| practice submissions, sample runs | `submissions.go`, `questions.go` | submissions of a problem | CreateSubmission, RunSampleTests, CreateQuestion | `Authoring`, which also composes the three above |
| stress testing | `admin_testing.go` | none: it reads sources and tests, runs the sandbox and answers | AdminTestSolution, AdminStressTest | not modelled: it writes nothing, and each of its runs is a call of SandboxSlots |
| authentication, sessions, user cache | `handlers/auth.go`, `middleware/*.go` | the blacklist and the user cache in Redis, keys that expire | login, logout, check of a request | not modelled (section 5) |
| plagiarism clusters | `admin_plagiarism.go` | none: recomputed from the rows on each request | fingerprints, union-find | not modelled (section 5) |
| users, drafts, proctoring, catalogue, export, dashboard | the other handlers | single rows | single statements and reads | not modelled: one statement each, or no state |
| wiring | `cmd/server`, `router`, `config`, `database`, `models` | none | start-up, pure input and output | not modelled |

How they interact. Every HTTP request runs its handler in a goroutine of its own; handlers share
the database, Redis, the sandbox slots and the hub, and nothing else. A handler is a sequence of
SQL statements. Most of them are autocommitted, so other handlers, administrators and the clock
act between any two; only ratings, the decision of a join request and the creation of groups and
revisions use a transaction. ContestSubmit calls Judge, Judge calls the sandbox several times,
ContestSubmit then writes three tables and starts a goroutine that computes predictions and
broadcasts them through the hub to the streams. Finalizing a contest runs applyContestRatings.

What is hard, and the properties that make each part correct:

* *Sandbox*: many requests, few slots; children that time out, are killed, or leave descendants.
  Correct: never more calls with a child than slots, each slot given back once, success only for a
  complete run, the deadline charged for running time, every call returns unless a descendant of its
  child keeps it.
* *Judge*: partial failures of compiler, program and checker. Correct: one answer, a function of
  the outcomes; accepted only if everything succeeded; status and counts agree.
* *Scoring*: read, judge for seconds, write; two submissions of a user at once; a grader at the
  same time; points and mode that change; a stop between two statements. Correct: each solve is
  explained by its submission, credit is not lost, points only fall by a grader, the first of the
  best submissions counts, a manual score reaches the board, and the leaderboard is the sum of the
  solves again once the last recompute has written.
* *Ratings*: contests finalized and rerun at once and in any order, transactions that wait for each
  other's rows, bans. Correct: the profile has the rating of the last contest, ratings form a
  chain, the better rank does not get less.
* *Hub*: channels closed while others send, clients that do not read. Correct: no send on a closed
  channel, nothing missed by those that keep up, nobody blocked by a slow client.
* *Groups*: check and write in different statements, decisions against cancellations. Correct:
  decisions are final, members are explained, the last admin stays.
* *Lifecycle*: a status read in one statement and changed in another. Correct: a finalized contest
  stays so, only drafts are deleted, what is published has problems, no draft is finalized.
* *Revisions*: three handlers that copy between the live row and the revisions, with row locks that
  are taken late. Correct: the live problem is its active revision, an edit changes what it names.
* *Components, tests*: counts, reads and runs of many seconds before the write that relies on them.
  Correct: one active component of a kind, a batch is marked for tests that were checked, an
  expected output belongs to the input it stands beside.
* *Practice*: a problem is read, judged for seconds, and the result stored. Correct: for a problem
  that the author could see, with the checker, limits and tests it has.

PROJECT.json lists every hazard with its line and the property that covers it.

## 2. Modules

Time is in ticks, and what a user types is a model value or a member of a small set. A variable is
a table, a channel or the program counters of the goroutines; an action is one statement (or one
blocking call) of a handler with everything that follows it up to the next one. Definitions whose
name ends in `_M` (or `_M2`) are slips that the properties are known to detect; no specification
uses them.

**SandboxSlots** (`limits.go`, `executor.go`). `inUse` is the number of tokens in the channel,
`queue` the goroutines blocked on it, `left` the ticks to the deadline, `ran`/`need` how long the
child has run and needs. `Call` enters compileWithFlags or runSandboxed; `Acquire` is the send on
the channel and `cmd.Start`, which refuses an expired context and may fail at any time (`AfterStart`); `ChildExit`, `DeadlineKill` and
`OrphanExit` are the kernel's; `Return` classifies and runs the deferred release. runSandboxed
creates its context before it waits for the slot, compileWithFlags after (`ArmedWhileQueued`).
`draining` is cmd.Run waiting for a descendant that holds the output pipe (`AfterChild` chooses
whether there is one). Memory is a choice (`overMemory`), because the code only compares the measured
peak with the limit. The cap on the output is `cut`: limitedWriter takes a part of the read that
crosses its limit, which is a short write, so the goroutine that copies the output gives up and
closes the pipe. A child that writes on gets SIGPIPE (`PipeBreaks`), and one that has written all and
exits with 0 makes Run return the error (`Reported`): both are runtime errors. Only what comes
after a read that ends exactly at the limit is dropped as the comment "silently discard excess"
(`executor.go:540`) says; such a run counts as complete here (`cut` is false).

**Judge / JudgeVerdict** (`judge.go`). `world` holds what the compiler, program and checker do for
this request, chosen once; the steps of `Judge` look it up. JudgeVerdict is the abstract promise:
one answer, computed from `world` in one step. Judge implements it under the mapping that keeps `N`,
`world` and `answer` and forgets the loop (`V == INSTANCE JudgeVerdict WITH ...`, property
`ImplementsVerdict == V!Spec`). Each step of Judge that starts a child is one call of SandboxSlots;
the five run statuses are the `Results` of that module plus "error" for a failing file operation.

**ContestScoring** (`contests.go`, `admin_submissions.go`). One action per statement of
ContestSubmit and AdminGradeSubmission; the 4xx answers are `Refuse`. The UPDATE that recomputes a
participant is two steps: under READ COMMITTED its sub-selects use the snapshot at its start, and it
may wait for the row before it writes. `worth` is no column; it is `earnedPoints`, a local of the
request. `Truncated` is Go's `int()` of a quotient, which drops the fraction, where the comment at
`contests.go:1165` says round. Administrators change points (0 and less too), modes and the times of
the contest while requests run. `Event` counts those changes, the statements that fail and the
requests that stop half-way; errors the code ignores are ignored here. No schedule is assumed:
requests of one user and graders overlap as they like. Three variables are history and in no guard:
`before[c]` is the set of calls that were over when call c began (so two calls overlap when neither
is before the other), `turn[u]` the last call that wrote or summed the solves of u, `shown[u]` the
last one that wrote his row of the leaderboard.

**ContestRatings** (`contests.go:200-436`, `admin_contests.go`). `Begin` is the caller's check of
status and clock, `CheckApplied` and `Read` the statements before the transaction, `Clear`,
`Write`, `Recompute` and `Commit` the transaction, which sees its own writes (`Rows`) and waits for
rows that others have written. `Write` stands for the two statements per participant, which lock
both rows; `Expected` is the win probability of two ratings, a table of percentages (`Scale`), and
only its order matters to the properties. Which contests are rated and when they end
are constants (`Contests`, `EndTime`): it is assumed of the administrators that both are settled before
a contest is finalized. The code does not require it: AdminUpdateContest (`admin_contests.go:486-500`)
changes either at any time and recomputes nothing. `order` and `alone` are history variables: which
contests were applied after which, and which were applied with no other call under way. Users who
were ever banned are exempt from the chain: a ban removes their rows in contests that are applied
meanwhile.

**RatingHub** (`contests.go:107-164, 439-509, 1206-1225, 1435-1482`). One contest, since others
share only the mutex. The RWMutex is `Readers` and `WriterWaits` (a waiting writer keeps new
readers out, as Go's does). Predictions are the version of the standings they are computed from.
`seen` and `dropped` are history. Heartbeats are left out, and so are changes of the standings by
graders, which the code does not broadcast.

**Groups** (`groups.go`). One group. `call[k]` is a goroutine in a handler, with the step it is at
and what was asked; `Begin` starts one of `Asks`. `clean` is history: no other call was in progress
since this one began and no read failed. The transaction of AdminDecideJoinRequest is `DecideLock`
(FOR UPDATE and the check) and `DecideCommit`; `Locked` makes others wait as PostgreSQL would.
Statements whose error the code ignores go on with the zero value (`RemoveRoleFails`,
`JoinMember`).

**ContestLifecycle** (`admin_contests.go`, `contests.go`). One contest, its problems and the calls on
it, as in Groups. `contest.status` is the column; `Derived` is AdminContestStatus, which the clock
moves. `Permitted` is the step after the permission, `Authorize` the instructor's permission by
the group the contest has now; that somebody is refused for other reasons is `Fail`. What
applyContestRatings computes is in ContestRatings; here `Commit` is its transaction. `raced` is
history: a call of `Rivals(op)` was in progress at the same time, or a failed read was ignored.
No transaction and no lock protects these handlers, so every property holds of calls that no rival
overlapped, and the ops in `Rivals` are the exact list of the overlaps that break it: a publish
that overlapped another one reopens a finalized contest, a delete that overlapped a publish removes
a contest with its ratings (`NoWayBack` names these two and says that nothing else takes a contest
back), a removal empties what is being published, an update moves the start of what is being
finalized. Leaving any of them out of `Rivals` makes the run fail. One fact holds
whatever overlaps: no draft is finalized.

**ProblemRevisions** (`admin_problems.go`). One problem. `problem` is the live row, `revisions` the
rows of its history, `edit[k]` a call in progress with what it was asked and has read.
AdminUpdateProblem is `UpdateRead`, then its transaction `UpdateWrite`, `UpdateDeactivate`,
`UpdateNumber` and `UpdateInsert`; AdminActivateRevision is `ActivateRead`, `ActivateFind` (a
statement whose snapshot may be older than the rows it then waits for), `ActivateLock` and
`ActivateRestore`; AdminPublishProblem is `PublishRead`, `PublishChecker` and `Publish`, which locks
nothing before its last statement. `HoldsProblem` and `HoldsRevisions` say who has written rows and
not committed; others wait for them. Three things are history: `stamp` is the checker that the last
publication took from the active component instead of the revision, `raced` says of a call that a
rival committed meanwhile, `tangled` of the live row that such a call was the last to write it. The
active checkers are a variable that this module does not change but by `Environment`.

**ProblemComponents** (`admin_components.go`). `component[kind][i]` is a row of one of the kinds,
`task[k]` a creation of a generator between its count and its insert, or an activation between
finding the rows to deactivate and its commit. The other operations are single statements. `raced`:
a component of the kind was inserted meanwhile, or the count failed (its error is ignored and counts
as none).

**ProblemTests** (`admin_tests.go`). `job[k]` is a call of one of the three long handlers. A computed
output *is* the input that it was computed from, so that `output = input` says that they fit. `Resolve`,
`InsertBatch`, `InsertSeed` and `SkipSeed` are AdminGenerateTests; `ValidatorRead`,
`ValidateRun` and `Mark` AdminValidateTests, which marks all new batches whatever it has run on;
`SolveRead` and `SolveWrite` AdminRunSolutionOnTest. A read of rows that breaks off is not noticed by
the code (nobody asks rows.Err()), so `ValidateRun` may have seen any subset.

**Authoring** composes the three (`C`, `R` and `T`, by `INSTANCE ... WITH`): goroutines are shared,
ProblemRevisions gets the active checkers of ProblemComponents for its `checkers`, and the other two
whether the problem is there and the sources of its components. It adds the users: `attempt[k]` is a
CreateSubmission or RunSampleTests that reads the problem, then its tests, judges (module Judge) and
stores. `Watched` records in `raced` that what it has read was changed. CreateQuestion is the second
way a problem is created; DeleteProblem takes everything with it. `left` counts the calls that may
still be made, by part: `Budgets` lists the mixes that are explored, `MaxBusy` bounds the calls in
progress. `Prepare` lets an author who is alone set up active components first, so that the counted
calls are spent on what overlaps. The composition implements ProblemRevisions (section 4).

**MC modules** give the constants of the instances. **…Proofs modules** hold the theorems (those of
Judge are in SandboxProofs, those of RatingHub in RatingsProofs), **Sums** the lemmas on sums.

The database schema is not in the repository. Unique indexes, cascades, row locks and READ
COMMITTED are modelled from how the code uses them (`ON CONFLICT`, `FOR UPDATE`, the index name it
looks for in error messages) and are marked external in PROJECT.json, as are Go's channels, RWMutex
and os/exec.

## 3. Runs

| run | instance | what it shows |
|---|---|---|
| MCSandbox | 2 callers, 1 slot, limits 2, children up to 3 ticks, starts that fail, descendants, cut output (106,116 states) | TypeOK, ChildrenBounded, SuccessIsComplete, CompilerHadItsTime, and EveryCallReturns under fairness |
| MCSandboxQueued | the same, goroutine steps take no time | **violated**: a program that waited for its slot is reported over its time though it never ran |
| MCJudge | 2 tests, every outcome | the loop computes the verdict; accepted is checked |
| MCScoring | 1 user, 1 problem, 2 requests and a grader at once, both modes, points 0 and 2, 2 windows, one event (1,297,360 states) | SolveTraceable, CreditNotLost, PointsOnlyRise, FirstBest, ManualScoreCounts, BoardShowsLastSum |
| MCScoringDrift | 2 problems, 2 requests at once | **violated**: the recompute that read first may write last |
| MCScoringLock | 1 submission, 2 graders at once | **violated**: a grader that looked at the lock before another one set it overwrites the score |
| MCRatings | 2 users, 2 contests, 2 calls, a late participant, a ban, aborts | RatingIsLatest, ChainLinked, BetterRankBetterRating |
| MCHub | 2 streams, 2 broadcasts, channels of 1, 2 changes | NoSendOnClosed, NewestIsSeen, and GoneMeansReturned under fairness |
| MCGroups | site admin, group admin, user, 2 requests, 2 calls | MembersAreExplained, DecisionIsFinal, LastAdminGuarded |
| MCLifecycle | 1 contest, 2 problems, 2 calls, 15 requests, both default statuses | NoWayBack, PublishedIsReady, FinalizedIsComplete |
| MCAuthoring | 2 goroutines, 7 mixes of up to 3 calls, 4 requests of editors, 3 revisions, 2 components of 3 kinds, 2 tests, 1 batch (214,191 states) | LiveIsActive, EditsKept, OneActiveComponent, ValidatedIsChecked, OutputFitsInput, JudgedAsPublished |
| MCGroupsLeave | 2 admins, 2 calls | **violated**: the last two admins leave at once |

Why these bounds are enough. The interesting cases need two goroutines at the same resource, and one
more of what they compete for than fits: two callers for one slot (with children that need less, as
much and more than the limit), two submissions of one user (one problem for the upsert, two for the
sums), two calls for two contests that have a user in common and end in the other order than their
ids, two broadcasts while a stream comes and another goes, channels that are full after one message,
two admins, two publishes of a contest, an activation while an update is under way and a third call
that sees what they left, a validation while a test is added. A third process of a kind adds
interleavings of steps that already commute or wait for the same thing; the theorems below cover any
number. The clock stops at MaxTime, the standings at MaxVersion, and in MCScoring one thing
(`MaxEvents`) happens beside the three calls: a failed statement, a stop, or a change by an
administrator; the theorems have no such bound. Symmetry is used over requests,
graders, calls, problems, tests and components, never in a run with a liveness property. Deadlock is
not checked in MCJudge, which ends with the answer, in the runs of ContestScoring, where all calls may
be over and the clock has stopped, in MCHub, where all streams may have returned
and all versions been used, and in MCAuthoring, where the calls of a mix have all been made. The
mixes of MCAuthoring are three calls of one part, where its own handlers overlap, and two or three
of different parts, where one reads what the other writes; larger ones are left to the theorems,
which know no budget.

The violated runs are findings (PROJECT.json quotes the comments they contradict): the queue is
charged to the program (`executor.go:219`), the leaderboard can be left behind (`contests.go:1207`),
the score of a locked submission can be overwritten (`admin_submissions.go:371`), and the last two admins of a group can both leave (`groups.go:292`).

Fairness. SandboxSlots (`FairSpec`): time passes, the channel serves blocked senders in order, the
kernel ends a child that is done or is killed, and Return runs because it is deferred. No descendant
of a child is assumed to end: `OrphanExit` is not fair. EveryCallReturns therefore names what remains,
a call whose own child left a descendant that never closes the pipe, or a full set of slots held by
such calls. RatingHub: goroutines run and the mutex is fair to writers,
as Go's is; a write to a client may block for as long as it is connected, so `ShowInitial` is only fair
once the client is gone and `Receive` never. Nothing else is assumed fair; no other run has a
liveness property.

### Where the code and its comments differ

The four violated runs above, and three more that no run shows:

* *"Group contests are always unrated"* (`admin_contests.go:300`, `:541`, `contests.go:907`). A contest
  is inserted unrated if it has a group, and an update that sets the group unrates it. But an update of
  a privileged user that names no group writes `is_rated` as it is asked to, whatever group the contest
  has (`Unrates`, `Updated`): one PATCH with `is_rated: true` rates a group contest. No interleaving is
  needed, so no property excuses it and none is stated.
* *"Kill the whole process group so any children of the child also die"* (`executor.go:274`),
  *"process-group kill on timeout so children of the child don't linger"* (`limits.go:31`). The kill
  comes after cmd.Run, which waits for every holder of the output pipes, and no WaitDelay is set. A
  descendant that keeps the pipe open is not killed; the request and its slot wait for it
  (`Draining`).
* *"round(points \* passed/total)"* (`contests.go:1165`). The code truncates (`Truncated`).

And two that are not spelled out in a comment: `start_time` of a running contest may change, and the
penalties on the leaderboard then count from the old start until the next recompute of each
participant (BoardShowsLastSum names the start that the last call read); `submitted_at` is taken after
the judge, so a solve that was submitted in time may be dated after the end (SolveTraceable bounds it
by the start only).

## 4. Proofs

For every value of the constants that satisfies the named assumption of the module:

* **SandboxProofs**: `SandboxTypes`, `SlotsBoundChildren`, `SuccessSound`, `CompilerTime`. The
  inductive invariant adds to the types that the queue has no goroutine twice and none that holds a slot
  (`QueueInv`), that the tokens count the holders (`SlotInv`), and what a call knows at each place
  (`CallInv`: a compiler has run, or has left, its whole limit). ChildrenBounded alone is not
  inductive: a queue with a duplicate would release twice.
  The same module proves about **Judge**: `JudgeTypes`, `JudgeImplements`, `JudgeAccepts`. `LoopInv`
  relates the counters to the tests behind the index: `passed` is the number of tests passed among
  them and `fail` the status of the first that failed. From it the last step is a step of
  JudgeVerdict and the others stutter.
* **Sums** has no theorem about the system but the lemmas on sums over finite sets that the scores
  and ratings need: a sum of integers is one (`SumInt`, `SumNat`), and any element may be taken out
  of it first (`SumRemove`). The community modules choose the function that satisfies a recursion;
  that there is exactly one is shown by looking at a smallest subset for which it fails
  (`MinimalSubset`), which needs no induction theorem over an operator.
* **ScoringProofs**, for every schedule and every fault: `ScoringTypes` (with the sums of the
  leaderboard), `SolvesTraceable`, `CreditKept`, `PointsRise`, `FirstBestHolds`,
  `ManualScoreCountsHolds`, `BoardShowsLastSumHolds`. The invariant `IInv` adds that a request
  has a submission exactly from its insert on, not earlier than the start it read (`ReqInv`), and that a
  grader is about one that exists (`GradeInv`); SolveTraceable and CreditNotLost are then inductive
  together. The properties about the order of calls are each inductive with it and one invariant on
  the history variables:
  * `FirstBestHolds`: `BeforeOK` says that the calls noted in `before` are over and stay so. A
    request that upserts therefore finds the credit of all requests that were answered before it
    began (CreditNotLost), and takes the solve over only with more.
  * `ManualScoreCountsHolds`: `ManualOK` says that a manual score has a grader who gave it, and that a
    grader about to write the solve still finds his score in the submission unless another grade of it
    overlapped his.
  * `BoardShowsLastSumHolds`: `BoardOK` says of a call that has read its sums and was the last to write
    or sum the solves that what it read is still right (`SumOK`), and of one that has written that the
    row shows it (`UserOK`).

  That the leaderboard is exact whenever nothing is under way, and that a locked score stays, are
  false (MCScoringDrift, MCScoringLock), so there are no theorems of them.
* **RatingsProofs**: `RatingsTypes`, `RatingIsLatestHolds`, `ChainLinkedHolds`, `BetterRankHolds`, under the
  hypothesis `ExpectedOK`: `Expected` yields a number from 0 to `Scale`, as expectedScore is a
  probability (TLC cannot evaluate this over all of Nat, so it is no ASSUME; `Odds` of MCRatings
  satisfies it). The invariant `RatingsInv`: no two transactions have
  written the same user (`LocksOK`); the results that a call carries are in the order of their ranks,
  with the ratings that the arithmetic of calculateELO guarantees (`ResultsInv`); a row is rated as a
  whole and only in a finalized contest (`RatedOK`); what a call has given to a user is the newest
  rating that its transaction sees (`GivenOK`), so what it commits is the newest of all
  (`ProfileOK`); a call that overlaps no other agrees with what is committed until it commits
  (`AloneOK`), which carries the chain (`ChainOK`) and the order of equal users (`EqualOK`).
  RatingIsLatest is not inductive: it says nothing of a contest that a transaction has
  written and not committed.
  The same module proves about **RatingHub**: `HubTypes`, `NoSendOnClosedHolds`, `NewestIsSeenHolds`.
  `MapInv`: what a broadcast has still to visit is in the map, and what is in the map is open.
  `OnItsWay`: the newest version was seen, or is in the channel, or a goroutine that will deliver it
  is under way.
* **GroupsProofs**: `GroupTypes`, `MembersAreExplainedHolds`, `DecisionIsFinalHolds`,
  `LastAdminGuardedHolds`. `LockInv`: a transaction before its commit holds a request that is
  pending, and no two hold the same. `CleanInv`: a clean call is alone and, before it takes the role
  of an admin away, another admin exists.
* **LifecycleProofs**: `LifecycleTypes`, `NoWayBackHolds`, `PublishedIsReadyHolds`,
  `FinalizedIsCompleteHolds`. The invariant is
  `TypeOK /\ Sound /\ Locals /\ Pairs`. `Locals`: a call that is not raced finds the contest as it
  read it. That is not inductive alone, because the other call may be the one that changes the contest;
  `Pairs` says that of two calls in progress the one that the other can leave behind is raced.
* **RevisionsProofs**: `RevisionsTypes`, `LiveIsActiveHolds`, `EditsKeptHolds`, under
  `RevisionsAssumption`. The invariant says for each place in a handler which rows are held, what of
  what it has read is still so if it is not raced, and that two calls never hold the same rows.
* **AuthoringProofs**: `AuthoringIsRevisions` shows that every step of the composition is a step of
  ProblemRevisions, a change of the active checkers or a stutter. The instance of RevisionsProofs in the same
  variables then gives `AuthoringLiveIsActive` and `AuthoringEditsKept`. The other parts have their
  invariants in the composition: `CallsSound` (a creation that found no generator still finds none, an
  activation has found all the others) gives `OneActiveComponentHolds`; `TestsInv` (what a
  validation has accepted is what there is, what a solution has read is what the test has) gives
  `ValidatedIsCheckedHolds` and `OutputFitsInputHolds`; `AttemptsSound` (what a call of a user has read
  is still so) gives `JudgedAsPublishedHolds`; all of them hold of calls that are not raced.
  `AuthoringTypes` puts the types together.

Every invariant and every action property that a passing run checks, and both refinements, are
stated by a theorem. Only model-checked are the liveness properties (`EveryCallReturns`,
`GoneMeansReturned`), because the prover has no rules for fairness and ENABLED; and what the violated
runs show are behaviours, not theorems. The proofs take the numbers of users, calls, tests and so on
as they come; they do not lift what the modules abstract (section 2). No module uses RECURSIVE.

## 5. Not modelled

* *Sessions and the user cache* (`auth.go`, `middleware/*.go`). A token is a string that no handler
  changes. A logged-out token is a Redis key, and so is a cached user; each is written and read
  by one call and expires. Two things can go wrong, each in a line: a request may store a user that
  it read before an administrator changed it (`auth.go:194`), and the blacklist is skipped while Redis
  does not answer (`middleware/auth.go:127`). A model would state these two lines again.
* *Plagiarism clusters* (`admin_plagiarism.go`). Token fingerprints and union-find, computed afresh
  from the rows on every request: a sequential function with tests beside it and no state.
* *Stress testing* (`admin_testing.go`). It writes nothing.
* *Positions of tests and problems, sample flags, tags, names, descriptions, languages*. Columns
  that no property is about; for tests, also AdminReorderTests and AdminBulkPatchTests.
* *Run times and memory in answers, uid dropping, rlimits, the logistic function of the ratings*. The
  models keep the decisions that the code takes on them.
* *Users, permissions, code drafts, proctoring, catalogue, export, dashboard, wiring*. One statement
  per request, or reads.

What would come next: end times and ratedness that change after a finalization, with a rerun as the
remedy (ContestRatings now assumes that they do not); and the Redis keys as soon as a handler decides
something from two of them.
