-------------------------------- MODULE Judge --------------------------------
(***************************************************************************)
(* sandbox.Judge (judge.go), step by step: compile the submission, compile *)
(* the checker, then for each test run the program and, when it succeeds,  *)
(* the checker; count the passed tests and keep the first failure.  Every  *)
(* step that starts a child is one call of the sandbox (SandboxSlots).     *)
(***************************************************************************)
EXTENDS Integers, FiniteSets

CONSTANT N      \* number of test cases of the request

ASSUME JudgeAssumption == N \in Nat

VARIABLES world,   \* what the environment does for this request
          stage,
          test,    \* index of the current test case
          passed,  \* passedCount
          fail,    \* firstFailStatus
          answer   \* what Judge returned

judgeVars == <<world, stage, test, passed, fail, answer>>

V == INSTANCE JudgeVerdict WITH N <- N, world <- world, answer <- answer

JudgeInit ==
    /\ world \in V!Worlds
    /\ stage = "source"
    /\ test = 1
    /\ passed = 0
    /\ fail = ""
    /\ answer = V!Pending

\* return &JudgeResult{...}
Give(status, total) ==
    /\ answer' = [status |-> status, passed |-> passed, total |-> total]
    /\ stage' = "done"

WriteSource ==
    /\ stage = "source"
    /\ IF world.files \in {"nodir", "nosource"}
       THEN Give("error", 0)
       ELSE stage' = "compile" /\ UNCHANGED answer
    /\ UNCHANGED <<world, test, passed, fail>>

CompileUser ==
    /\ stage = "compile"
    /\ IF world.userCompiles
       THEN stage' = "checker" /\ UNCHANGED answer
       ELSE Give("compilation_error", N)
    /\ UNCHANGED <<world, test, passed, fail>>

CompileChecker ==
    /\ stage = "checker"
    /\ IF world.files # "nochecker" /\ world.checkerCompiles
       THEN stage' = "run" /\ UNCHANGED answer
       ELSE Give("error", 0)
    /\ UNCHANGED <<world, test, passed, fail>>

-----------------------------------------------------------------------------
\* The loop body after runTestCase returned status.
FirstFail_M(status) == IF status = "accepted" THEN fail ELSE status
FirstFail(status) == IF status # "accepted" /\ fail = "" THEN status ELSE fail

Count(status) ==
    /\ passed' = IF status = "accepted" THEN passed + 1 ELSE passed
    /\ fail' = FirstFail(status)
    /\ test' = test + 1
    /\ stage' = "run"

RunUser ==
    /\ stage = "run" /\ test <= N
    /\ IF world.runs[test] = "success"
       THEN stage' = "check" /\ UNCHANGED <<passed, fail, test>>
       ELSE Count(world.runs[test])
    /\ UNCHANGED <<world, answer>>

\* runChecker: the exit code that the result of the checker stands for.
ExitCode_M(res) == IF res.status \in {"success", "runtime_error"} THEN res.code ELSE 2
ExitCode(res) ==
    CASE res.status = "success" -> 0
      [] res.status = "runtime_error" /\ res.code # 0 -> res.code
      [] OTHER -> 2

CheckStatus_M(res) ==
    CASE res.status = "success" -> "accepted"
      [] res.status = "runtime_error" /\ res.code = 1 -> "wrong_answer"
      [] OTHER -> "checker_error"
CheckStatus(res) == IF ExitCode(res) # 0 THEN "wrong_answer" ELSE "accepted"

RunChecker ==
    /\ stage = "check"
    /\ Count(CheckStatus(world.checks[test]))
    /\ UNCHANGED <<world, answer>>

Finish ==
    /\ stage = "run" /\ test > N
    /\ Give(IF fail # "" THEN fail ELSE "accepted", N)
    /\ UNCHANGED <<world, test, passed, fail>>

JudgeNext ==
    \/ WriteSource \/ CompileUser \/ CompileChecker
    \/ RunUser \/ RunChecker \/ Finish

JudgeSpec == JudgeInit /\ [][JudgeNext]_judgeVars

-----------------------------------------------------------------------------
Stages == {"source", "compile", "checker", "run", "check", "done"}

JudgeTypeOK ==
    /\ world \in V!Worlds
    /\ stage \in Stages
    /\ test \in 1..(N + 1)
    /\ passed \in 0..N
    /\ fail \in V!TestStatuses \cup {""}
    /\ answer \in V!Answers \cup {V!Pending}

\* The loop of judge.go computes the verdict: Judge implements JudgeVerdict, so a
\* submission is answered once, with the status of the first failed test, the number of
\* passed tests, and nothing else.
ImplementsVerdict == V!Spec

\* ContestSubmit scores with the status or with the counts, depending on the mode: they
\* agree.  Accepted means that on every test both the program and the checker ended
\* well; a checker that dies, hangs or talks too much never passes a submission.
AcceptedIsChecked ==
    answer # V!Pending =>
        /\ answer.status = "accepted" <=>
              /\ answer.total = N /\ answer.passed = N
              /\ world.userCompiles /\ world.checkerCompiles /\ world.files = "ok"
        /\ answer.status = "accepted" =>
              \A k \in 1..N : world.runs[k] = "success" /\ world.checks[k].status = "success"
=============================================================================
