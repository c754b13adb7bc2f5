------------------------------- MODULE Authoring -------------------------------
(***************************************************************************)
(* One problem as a whole: its live row and revisions, its components, its *)
(* tests, and the users who submit practice solutions or run its samples   *)
(* (submissions.go, questions.go) while it is edited.  The parts are       *)
(* modules of their own; what one reads of another is a substitution.      *)
(***************************************************************************)
EXTENDS Naturals, FiniteSets

CONSTANTS
    Workers,       \* goroutines, one call after the other
    Requests, Texts, Codes, NoCode, MaxRevisions,   \* of ProblemRevisions
    Kinds, Ids,                                     \* of ProblemComponents
    Tests, Batches, Inputs, Typed, MaxSeeds, Accepts,   \* of ProblemTests
    Drafts,        \* bound: the contents a problem is created with
    Budgets,       \* bound: how many calls of each part are made
    Prepared,      \* bound: the kinds of which a component is there before the counted calls
    MaxBusy,       \* bound on the calls that are in progress at once
    Nil, Gone

VARIABLES
    problem, revisions, edit, tangled,
    component, task,
    tests, batches, job,
    attempt,       \* the calls of users
    submissions,   \* app.submissions, for this problem
    left           \* the calls of each part that may still be made

revisionVars == <<problem, revisions, edit, tangled>>
componentVars == <<component, task>>
testVars == <<tests, batches, job>>
userVars == <<attempt, submissions>>
vars == <<revisionVars, componentVars, testVars, userVars, left>>

Parts == {"revision", "component", "test", "user"}

ProblemThere == problem # Nil /\ problem # Gone

C == INSTANCE ProblemComponents WITH
        Authors <- Workers, Sources <- Codes \cup {NoCode}, there <- ProblemThere
R == INSTANCE ProblemRevisions WITH
        Editors <- Workers, checkers <- C!ActiveSources("checkers")
T == INSTANCE ProblemTests WITH
        Jobs <- Workers, there <- ProblemThere,
        generators <- C!SourcesOf("generators", C!Present("generators")), validators <- C!ActiveSources("validators")

ASSUME AuthoringAssumption ==
    /\ R!RevisionsAssumption /\ C!ComponentsAssumption /\ T!TestsAssumption
    /\ {"generators", "validators", "checkers"} \subseteq Kinds /\ Drafts \subseteq R!Contents
    /\ Nil \notin R!Contents /\ Accepts \in [Codes \cup {NoCode} -> SUBSET Inputs]
    /\ IsFiniteSet(Ids) /\ MaxBusy \in Nat /\ Prepared \subseteq SUBSET Kinds /\ Budgets \subseteq [Parts -> Nat]

-----------------------------------------------------------------------------
\* content, subjective and tests are what the handler has read.  raced is history: some of it
\* was changed meanwhile, or some tests were not read.
Away == [pc |-> "idle", stores |-> FALSE, admin |-> FALSE, subjective |-> FALSE,
         content |-> Nil, tests |-> {}, raced |-> FALSE]

Busy == {k \in Workers : edit[k] # R!Idle \/ task[k] # C!Free \/ job[k] # T!Free \/ attempt[k] # Away}
Room(k) == k \notin Busy /\ Cardinality(Busy) < MaxBusy
Counted(part) == left[part] > 0 /\ left' = [left EXCEPT ![part] = @ - 1]

\* The tests as the judge sees them.
Shown == {[test |-> t, input |-> tests[t].input, output |-> tests[t].output] : t \in T!Present}

\* CreateSubmission (stores) and RunSampleTests read the problem; a draft is hidden from all
\* but the administrators of the site.
Visible_M(admin) == TRUE
Visible(admin) == problem.published \/ admin

ReadProblem(k) ==
    /\ Room(k) /\ ProblemThere
    /\ \E stores, admin \in BOOLEAN :
          LET subjective == stores /\ problem.type = "subjective" IN
          /\ Visible(admin)
          /\ attempt' = [attempt EXCEPT ![k] =
                [Away EXCEPT !.pc = IF subjective THEN "store" ELSE "tests", !.stores = stores,
                             !.admin = admin, !.subjective = subjective, !.content = problem.content]]
    /\ UNCHANGED submissions

\* A second statement reads all tests, or the samples; a read that breaks off is not noticed.
ReadTests(k) ==
    /\ attempt[k].pc = "tests"
    /\ \E S \in SUBSET Shown :
          attempt' = [attempt EXCEPT ![k] =
             IF S = {} THEN Away
             ELSE [@ EXCEPT !.pc = "judge", !.tests = S, !.raced = attempt[k].raced \/ S # Shown]]
    /\ UNCHANGED submissions

\* Judge runs for seconds.  What it says of the samples is only shown.
JudgeSolution(k) ==
    /\ attempt[k].pc = "judge"
    /\ attempt' = [attempt EXCEPT ![k] = IF @.stores THEN [@ EXCEPT !.pc = "store"] ELSE Away]
    /\ UNCHANGED submissions

Row_M(a) == [status |-> "pending_review", content |-> a.content, tests |-> a.tests]
Row(a) == IF a.subjective THEN [status |-> "pending_review", content |-> Nil, tests |-> {}]
          ELSE [status |-> "judged", content |-> a.content, tests |-> a.tests]

\* The insert needs the problem.
Store(k) ==
    /\ attempt[k].pc = "store" /\ ProblemThere
    /\ submissions' = submissions \cup {Row(attempt[k])}
    /\ attempt' = [attempt EXCEPT ![k] = Away]

GiveUp(k) == attempt[k] # Away /\ attempt' = [attempt EXCEPT ![k] = Away] /\ UNCHANGED submissions

\* What a step of the others means for the users' calls.
Overtaken(k) ==
    \/ ~ProblemThere' \/ problem'.content # problem.content
    \/ problem'.type # problem.type \/ problem'.published # problem.published
    \/ attempt[k].tests # {} /\ Shown' # Shown

Watched ==
    attempt' = [k \in Workers |->
        IF attempt[k] # Away /\ Overtaken(k) THEN [attempt[k] EXCEPT !.raced = TRUE] ELSE attempt[k]]

-----------------------------------------------------------------------------
Init ==
    /\ C!Init /\ R!Init /\ T!Init
    /\ attempt = [k \in Workers |-> Away] /\ submissions = {} /\ left \in Budgets

\* AdminCreateProblem, CreateQuestion.
CreateProblem(content, type) ==
    /\ UNCHANGED <<componentVars, testVars, userVars, left>>
    /\ R!Create(content, type, TRUE)

CreateQuestion(content) ==
    /\ UNCHANGED <<componentVars, batches, userVars, left>>
    /\ R!Create(content, "standard", FALSE)
    /\ T!AddTests \/ UNCHANGED <<tests, job>>

\* What an author has done alone before the calls that are counted: components of these kinds,
\* created and activated.
Prepare(kinds, source) ==
    /\ left \in Budgets /\ Busy = {}
    /\ ProblemThere /\ \A q \in Kinds : C!Present(q) = {}
    /\ \E i \in Ids :
          component' = [q \in Kinds |-> IF q \notin kinds THEN component[q]
              ELSE [component[q] EXCEPT ![i] = [source |-> source, active |-> TRUE]]]
    /\ UNCHANGED <<revisionVars, task, testVars, userVars, left>>

\* AdminDeleteProblem: everything that belongs to the problem goes with it.
DeleteProblem ==
    /\ Counted("revision")
    /\ C!Wipe /\ T!Wipe /\ R!Delete /\ submissions' = {}
    /\ UNCHANGED <<task, job>> /\ Watched

RevisionStep ==
    /\ UNCHANGED <<componentVars, testVars, submissions>>
    /\ \/ \E k \in Workers : R!Step(k) /\ UNCHANGED left
       \/ Counted("revision") /\ \E k \in Workers : Room(k) /\ R!Begin(k)
       \/ Counted("revision") /\ R!Unpublish
    /\ Watched

ComponentStep ==
    /\ UNCHANGED <<revisionVars, testVars, userVars>>
    /\ \/ \E k \in Workers : C!Step(k) /\ UNCHANGED left
       \/ Counted("component") /\ \E k \in Workers : Room(k) /\ C!Begin(k)
       \/ Counted("component") /\ C!Edit

TestStep ==
    /\ UNCHANGED <<revisionVars, componentVars, submissions>>
    /\ \/ \E k \in Workers : T!Step(k) /\ UNCHANGED left
       \/ Counted("test") /\ \E k \in Workers : Room(k) /\ T!Begin(k)
       \/ Counted("test") /\ T!Edit
    /\ Watched

UserStep ==
    /\ UNCHANGED <<revisionVars, componentVars, testVars>>
    /\ \E k \in Workers :
          \/ Counted("user") /\ ReadProblem(k)
          \/ UNCHANGED left /\ (ReadTests(k) \/ JudgeSolution(k) \/ Store(k) \/ GiveUp(k))

Next ==
    \/ \E content \in Drafts :
          CreateQuestion(content) \/ \E type \in R!Types : CreateProblem(content, type)
    \/ \E kinds \in Prepared, source \in Codes : Prepare(kinds, source)
    \/ DeleteProblem
    \/ RevisionStep \/ ComponentStep \/ TestStep \/ UserStep

Spec == Init /\ [][Next]_vars

-----------------------------------------------------------------------------
LiveIsActive == R!LiveIsActive
EditsKept == R!EditsKept
OneActiveComponent == C!OneActiveComponent
ValidatedIsChecked == T!ValidatedIsChecked
OutputFitsInput == T!OutputFitsInput

TypeOK ==
    /\ R!TypeOK /\ C!TypeOK /\ T!TypeOK
    /\ attempt \in [Workers ->
          [pc : {"idle", "tests", "judge", "store"}, stores : BOOLEAN, admin : BOOLEAN,
           subjective : BOOLEAN, content : R!Maybe(R!Contents), raced : BOOLEAN,
           tests : SUBSET [test : Tests, input : Inputs, output : Inputs \cup {Typed}]]]
    /\ \A s \in submissions : s.status = "judged" <=> s.content \in R!Contents
    /\ left \in [Parts -> Nat]

\* "A draft problem must look non-existent to non-admins so they can't submit against
\* something that isn't meant to be visible yet" (submissions.go:66), "only new submissions
\* are blocked" (admin_problems.go:714): a practice submission is stored for a problem that its
\* author can see, judged with the live checker and limits and with all the tests as they are
\* then, or awaits review if the problem is subjective, unless the live row or the tests were
\* changed after it had read them.  Components do not matter before the next publication.
JudgedAsPublished ==
    [][\A k \in Workers :
         attempt[k].pc = "store" /\ attempt'[k] = Away /\ ~attempt[k].raced =>
            /\ problem.published \/ attempt[k].admin
            /\ attempt[k].subjective <=> problem.type = "subjective"
            /\ \/ attempt[k].subjective
               \/ attempt[k].content = problem.content /\ attempt[k].tests = Shown]_vars
=============================================================================
