----------------------------- MODULE ProblemTests -----------------------------
(***************************************************************************)
(* The tests of one problem and the batches they are generated in          *)
(* (admin_tests.go).  Generating, validating and running a solution take   *)
(* many runs of the sandbox between what they read and what they write;    *)
(* the tests may be edited meanwhile.  The place of a test in the list     *)
(* and whether it is a sample are left out.                                *)
(***************************************************************************)
EXTENDS Naturals, FiniteSets

CONSTANTS
    Tests, Batches,  \* their ids
    Inputs,
    Typed,           \* an expected output that somebody typed, or none
    Jobs,            \* goroutines that run one of the longer handlers
    MaxSeeds,        \* bound on the tests of a batch
    Accepts,         \* the inputs that a validator accepts, for each source
    Nil,             \* no row yet, no call
    Gone             \* a row that has been deleted

\* What is assumed of the constants.
TestsAssumption == Typed \notin Inputs /\ MaxSeeds \in Nat

VARIABLES
    tests,           \* app.test_cases: Nil before its insert, Gone after it is deleted
    batches,         \* app.generated_test_batches: Nil, "new" or "validated"
    job,             \* the calls in progress
    there,           \* the problem exists,
    generators,      \* the sources of its generators
    validators       \* and of its active validators: this module only reads them

vars == <<tests, batches, job, there, generators, validators>>
Read == <<there, generators, validators>>

\* An expected output that a solution computed is the input it was computed from.
Test(input, output, batch) == [input |-> input, output |-> output, batch |-> batch]
IsRow(x) == x # Nil /\ x # Gone
Present == {t \in Tests : IsRow(tests[t])}

\* raced is history: the input of the test the call has read was changed meanwhile; for a
\* validation, any was changed or added, or some were not read.
Free == [pc |-> "idle", op |-> Nil, test |-> Nil, batch |-> Nil, input |-> Nil,
         source |-> Nil, seeds |-> 0, raced |-> FALSE]

Init ==
    /\ tests = [t \in Tests |-> Nil]
    /\ batches = [b \in Batches |-> Nil]
    /\ job = [k \in Jobs |-> Free]

-----------------------------------------------------------------------------
\* The calls in progress after a change of the tests S.
Raced(S) ==
    [k \in Jobs |-> [job[k] EXCEPT
        !.raced = @ \/ (job[k].op = "validate" /\ S # {}) \/ job[k].test \in S]]

\* AdminCreateTest, AdminBulkCreateTests (one transaction), and the tests of CreateQuestion.
AddTests ==
    \E S \in SUBSET {t \in Tests : tests[t] = Nil} : \E input \in [S -> Inputs] :
       /\ S # {}
       /\ tests' = [t \in Tests |-> IF t \in S THEN Test(input[t], Typed, Nil) ELSE tests[t]]
       /\ job' = Raced(S)

Create == there /\ AddTests /\ UNCHANGED <<batches, Read>>

\* AdminUpdateTest changes what the request names.
Update(t, input, typed) ==
    /\ t \in Present
    /\ tests' = [tests EXCEPT ![t].input = IF input = Nil THEN @ ELSE input,
                              ![t].output = IF typed THEN Typed ELSE @]
    /\ job' = Raced(IF input = Nil THEN {} ELSE {t})
    /\ UNCHANGED <<batches, Read>>

\* AdminDeleteTest, AdminBulkDeleteTests.
Remove ==
    /\ \E S \in SUBSET Present :
          S # {} /\ tests' = [t \in Tests |-> IF t \in S THEN Gone ELSE tests[t]]
    /\ UNCHANGED <<batches, job, Read>>

\* The tests and batches go with the problem.
Wipe ==
    /\ tests' = [t \in Tests |-> IF tests[t] = Nil THEN Nil ELSE Gone]
    /\ batches' = [b \in Batches |-> IF batches[b] = Nil THEN Nil ELSE Gone]

-----------------------------------------------------------------------------
At(k, op, pc) == job[k].op = op /\ job[k].pc = pc
Done(k) == job' = [job EXCEPT ![k] = Free]
Same == UNCHANGED <<tests, batches, Read>>

\* A statement, a compilation or a run fails, or the process stops.
Quit(k) == job[k] # Free /\ Done(k) /\ Same

\* AdminGenerateTests: the generator of the request, or the active one, produces something for
\* the first seed ...
Resolve(k) ==
    /\ job[k] = Free /\ generators # {}
    /\ job' = [job EXCEPT ![k] = [Free EXCEPT !.op = "generate", !.pc = "batch"]]
    /\ Same

InsertBatch(k) ==
    /\ At(k, "generate", "batch") /\ there
    /\ \E b \in Batches : \E count \in 1..MaxSeeds :
          /\ batches[b] = Nil
          /\ batches' = [batches EXCEPT ![b] = "new"]
          /\ job' = [job EXCEPT ![k].pc = "seed", ![k].batch = b, ![k].seeds = count]
    /\ UNCHANGED <<tests, Read>>

\* ... and for each seed a test, unless a run or the insert fails; the output is that of a
\* solution if the request names one and its run succeeds.
NextSeed(k) ==
    IF job[k].seeds = 1 THEN Free ELSE [job[k] EXCEPT !.seeds = @ - 1]

InsertSeed(k) ==
    /\ At(k, "generate", "seed") /\ there
    /\ \E t \in Tests, input \in Inputs : \E output \in {input, Typed} :
          /\ tests[t] = Nil
          /\ tests' = [tests EXCEPT ![t] = Test(input, output, job[k].batch)]
          /\ job' = [Raced({t}) EXCEPT ![k] = NextSeed(k)]
    /\ UNCHANGED <<batches, Read>>

SkipSeed(k) ==
    At(k, "generate", "seed") /\ job' = [job EXCEPT ![k] = NextSeed(k)] /\ Same

-----------------------------------------------------------------------------
\* AdminValidateTests: an active validator is read and compiled, all tests are read, and it is
\* run on each of them.
ValidatorRead(k) ==
    /\ job[k] = Free
    /\ \E source \in validators :
          job' = [job EXCEPT ![k] = [Free EXCEPT !.op = "validate", !.pc = "run", !.source = source]]
    /\ Same

Valid_M(source, S) == \E t \in S : tests[t].input \in Accepts[source]
Valid(source, S) == \A t \in S : tests[t].input \in Accepts[source]

\* A read that breaks off is not noticed: the tests read so far are all.
ValidateRun(k) ==
    /\ At(k, "validate", "run")
    /\ \E S \in SUBSET Present :
          job' = [job EXCEPT ![k] = IF Valid(@.source, S)
                                    THEN [@ EXCEPT !.pc = "mark", !.raced = S # Present] ELSE Free]
    /\ Same

\* All batches are marked, whatever has become of the tests.
Mark(k) ==
    /\ At(k, "validate", "mark")
    /\ batches' = [b \in Batches |-> IF batches[b] = "new" THEN "validated" ELSE batches[b]]
    /\ Done(k)
    /\ UNCHANGED <<tests, Read>>

-----------------------------------------------------------------------------
\* AdminRunSolutionOnTest: the input is read, a solution is run on it, and its output becomes
\* the expected output of the test.
SolveRead(k) ==
    /\ job[k] = Free
    /\ \E t \in Present :
          job' = [job EXCEPT ![k] = [Free EXCEPT !.op = "solve", !.pc = "write", !.test = t,
                                                 !.input = tests[t].input]]
    /\ Same

Solved_M(k) == Present
Solved(k) == Present \cap {job[k].test}

SolveWrite(k) ==
    /\ At(k, "solve", "write")
    /\ tests' = [t \in Tests |-> IF t \in Solved(k) THEN [tests[t] EXCEPT !.output = job[k].input]
                                 ELSE tests[t]]
    /\ Done(k)
    /\ UNCHANGED <<batches, Read>>

Step(k) ==
    \/ Quit(k)
    \/ InsertBatch(k) \/ InsertSeed(k) \/ SkipSeed(k)
    \/ ValidateRun(k) \/ Mark(k) \/ SolveWrite(k)

Begin(k) == Resolve(k) \/ ValidatorRead(k) \/ SolveRead(k)

Edit ==
    \/ Create \/ Remove
    \/ \E t \in Tests, input \in Inputs \cup {Nil}, typed \in BOOLEAN : Update(t, input, typed)

-----------------------------------------------------------------------------
TypeOK ==
    /\ tests \in [Tests -> {Nil, Gone} \cup
                    [input : Inputs, output : Inputs \cup {Typed}, batch : Batches \cup {Nil}]]
    /\ batches \in [Batches -> {Nil, Gone, "new", "validated"}]
    /\ job \in [Jobs -> [pc : {"idle", "batch", "seed", "run", "mark", "write"},
                         op : {Nil, "generate", "validate", "solve"}, test : Tests \cup {Nil},
                         batch : Batches \cup {Nil}, input : Inputs \cup {Nil},
                         source : DOMAIN Accepts \cup {Nil}, seeds : 0..MaxSeeds, raced : BOOLEAN]]

\* "Mark batches as validated when everything passes" (admin_tests.go:798): when batches are
\* marked, the validator accepts every test that the problem has by then, those that no batch
\* produced and those of batches that are still being generated included, unless a test was
\* added or changed while the validator ran, or the read of the tests broke off.
ValidatedIsChecked ==
    [][\A k \in Jobs :
         At(k, "validate", "mark") /\ batches' # batches /\ job'[k] = Free /\ ~job[k].raced =>
            \A t \in Present : tests[t].input \in Accepts[job[k].source]]_vars

\* "updates that test case's expected_output with the result" (admin_tests.go:819), "produce
\* expected output" (:662): an expected output that a solution computed was computed from the
\* input that the test has, unless the input was changed, by an update that kept the output
\* or while the solution ran.
OutputFitsInput ==
    [][\A t \in Tests :
         /\ IsRow(tests'[t]) /\ tests'[t].output # Typed /\ tests'[t].output # tests'[t].input
         => \/ tests'[t] = tests[t]
            \/ IsRow(tests[t]) /\ tests[t].input # tests'[t].input
            \/ \E k \in Jobs : job[k].test = t /\ job[k].raced /\ job'[k] = Free]_vars
=============================================================================
