---------------------------- MODULE JudgeVerdict ----------------------------
(***************************************************************************)
(* What sandbox.Judge promises: one answer, which is a function of what    *)
(* the compiler, the submitted program and the checker do on each test.    *)
(***************************************************************************)
EXTENDS Integers, FiniteSets

CONSTANT N      \* number of test cases of the request

VARIABLES world,   \* what the environment does for this request; never changes
          answer   \* the JudgeResult, or Pending

\* Statuses that execute and runSandboxed can give a run.
RunStatuses == {"success", "runtime_error", "time_limit_exceeded",
                "memory_limit_exceeded", "error"}

\* Results of a checker run.  A checker that exits 0 after more output than is kept is a
\* runtime_error with exit code 0; one that a signal ends has exit code -1.
Checks == {[status |-> "success", code |-> 0],
           [status |-> "runtime_error", code |-> 0],
           [status |-> "runtime_error", code |-> 1],
           [status |-> "runtime_error", code |-> -1],
           [status |-> "time_limit_exceeded", code |-> 0],
           [status |-> "memory_limit_exceeded", code |-> -1]}

\* A run that fails its file operations, or one whose compilations and tests go so and so.
Worlds == [files : {"ok", "nodir", "nosource", "nochecker"},
           userCompiles : BOOLEAN, checkerCompiles : BOOLEAN,
           runs : [1..N -> RunStatuses], checks : [1..N -> Checks]]

TestStatuses == (RunStatuses \ {"success"}) \cup {"accepted", "wrong_answer"}
Answers == [status : TestStatuses \cup {"compilation_error"},
            passed : 0..N, total : {0, N}]
Pending == [status |-> "pending", passed |-> 0, total |-> 0]

\* A test is passed when the program and then the checker succeed.
TestStatus(w, k) ==
    IF w.runs[k] # "success" THEN w.runs[k]
    ELSE IF w.checks[k].status = "success" THEN "accepted" ELSE "wrong_answer"

Passed(w) == {k \in 1..N : TestStatus(w, k) = "accepted"}
Failed(w) == 1..N \ Passed(w)
FirstFailed(w) == CHOOSE k \in Failed(w) : \A j \in Failed(w) : k <= j

Broken(w) ==
    \/ w.files \in {"nodir", "nosource"}
    \/ w.userCompiles /\ (w.files = "nochecker" \/ ~w.checkerCompiles)

Verdict(w) ==
    IF Broken(w) THEN [status |-> "error", passed |-> 0, total |-> 0]
    ELSE IF ~w.userCompiles THEN [status |-> "compilation_error", passed |-> 0, total |-> N]
    ELSE [status |-> IF Failed(w) = {} THEN "accepted" ELSE TestStatus(w, FirstFailed(w)),
          passed |-> Cardinality(Passed(w)),
          total  |-> N]

Init == world \in Worlds /\ answer = Pending

Decide ==
    /\ answer = Pending
    /\ answer' = Verdict(world)
    /\ UNCHANGED world

Spec == Init /\ [][Decide]_<<world, answer>>
=============================================================================
