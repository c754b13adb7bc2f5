---------------------------- MODULE SandboxSlots ----------------------------
(***************************************************************************)
(* The process-wide sandbox: goroutines that compile or execute a program  *)
(* compete for the slots of the channel sandboxSlots (limits.go), run one  *)
(* child process under a wall-clock deadline, wait for it and for its      *)
(* output pipes, classify the outcome and give the slot back (executor.go).*)
(*                                                                         *)
(* Time is counted in ticks.  A caller is a goroutine; it issues one call  *)
(* after the other, as Judge and the admin handlers do.                    *)
(***************************************************************************)
EXTENDS Integers, Sequences, FiniteSets

CONSTANTS Callers,       \* goroutines that use the sandbox
          Slots,         \* capacity of the channel sandboxSlots
          TimeLimit,     \* ticks of MaxTimeSec + 500 ms, the exec deadline
          CompileLimit,  \* ticks of compileWallSec
          MaxNeed,       \* bound: longest running time of a child, in ticks
          Orphans,       \* may a child leave a descendant holding its output pipe
          Cuts,          \* may the output of a child be cut by a short write
          Prompt         \* TRUE: goroutine steps take no time next to a tick

ASSUME SandboxAssumption ==
    /\ IsFiniteSet(Callers)
    /\ Slots \in Nat \ {0}
    /\ TimeLimit \in Nat \ {0}
    /\ CompileLimit \in Nat \ {0}
    /\ MaxNeed \in Nat \ {0}
    /\ Orphans \subseteq BOOLEAN
    /\ Cuts \subseteq BOOLEAN
    /\ Prompt \in BOOLEAN

VARIABLES
    inUse,   \* tokens in the channel sandboxSlots
    queue,   \* goroutines blocked in acquireSlot, served first come first served
    pc,      \* where each caller is
    kind,    \* compileWithFlags or runSandboxed
    left,    \* ticks until the context deadline of the call
    need,    \* ticks the child needs to end by itself
    ran,     \* ticks the child has run
    cut,     \* limitedWriter took a part of what was read from the child
    end,     \* how the child ended, as Run reports it
    result   \* what the call returned

vars == <<inUse, queue, pc, kind, left, need, ran, cut, end, result>>
program == <<kind, need>>

Kinds == {"compile", "exec"}
PCs == {"idle", "queued", "running", "draining", "exited", "done"}
\* Exit code 0; another code or signal; SIGXCPU; SIGKILL by the kernel or by the
\* context of the call.
OwnEnds == {"exit0", "failed", "sigxcpu", "sigkill"}
Ends == OwnEnds \cup {"none", "deadline", "sigpipe", "short_write"}
Results == {"none", "success", "runtime_error", "time_limit_exceeded",
            "memory_limit_exceeded", "compilation_error"}

\* Between acquireSlot and the deferred release.
Holding == {"running", "draining", "exited"}

Init ==
    /\ inUse = 0
    /\ queue = <<>>
    /\ pc = [c \in Callers |-> "idle"]
    /\ kind = [c \in Callers |-> "exec"]
    /\ left = [c \in Callers |-> 0]
    /\ need = [c \in Callers |-> 1]
    /\ ran = [c \in Callers |-> 0]
    /\ cut = [c \in Callers |-> FALSE]
    /\ end = [c \in Callers |-> "none"]
    /\ result = [c \in Callers |-> "none"]

Limit(k) == IF k = "exec" THEN TimeLimit ELSE CompileLimit

-----------------------------------------------------------------------------
\* runSandboxed creates its context before acquireSlot, compileWithFlags after.
ArmedWhileQueued_M == {"exec", "compile"}
ArmedWhileQueued == {"exec"}

\* A goroutine enters compileWithFlags or runSandboxed and blocks on the channel.
Call(c) ==
    /\ pc[c] \in {"idle", "done"}
    /\ \E k \in Kinds, n \in 1..MaxNeed :
          /\ kind' = [kind EXCEPT ![c] = k]
          /\ need' = [need EXCEPT ![c] = n]
          /\ left' = [left EXCEPT ![c] = Limit(k)]
    /\ pc' = [pc EXCEPT ![c] = "queued"]
    /\ queue' = Append(queue, c)
    /\ ran' = [ran EXCEPT ![c] = 0]
    /\ cut' = [cut EXCEPT ![c] = FALSE]
    /\ end' = [end EXCEPT ![c] = "none"]
    /\ result' = [result EXCEPT ![c] = "none"]
    /\ UNCHANGED inUse

SlotFree_M == inUse <= Slots
SlotFree == inUse < Slots

\* cmd.Start refuses a context that has expired, and may fail on any other.
AfterStart(c) == {"exited"} \cup (IF left[c] = 0 THEN {} ELSE {"running"})

\* The token is in the channel and the call goes on.
Acquire ==
    /\ queue # <<>>
    /\ SlotFree
    /\ \E p \in AfterStart(Head(queue)) : pc' = [pc EXCEPT ![Head(queue)] = p]
    /\ queue' = Tail(queue)
    /\ inUse' = inUse + 1
    /\ UNCHANGED <<program, left, ran, cut, end, result>>

\* cmd.Run returns only when the child is gone and its output pipes have no writer; a
\* descendant of the child may keep one open.
AfterChild == {IF orphan THEN "draining" ELSE "exited" : orphan \in Orphans}

\* limitedWriter drops what comes after the limit, but of a read that crosses it it takes a
\* part.  That is a short write: the copying goroutine gives up and closes the pipe, and Run
\* returns its error when the child has none.
Reported_M(short, e) == e
Reported(short, e) == IF short /\ e = "exit0" THEN "short_write" ELSE e

\* The child ends by itself.
ChildExit(c) ==
    /\ pc[c] = "running"
    /\ ran[c] = need[c]
    /\ \E e \in OwnEnds, short \in Cuts :
          /\ cut' = [cut EXCEPT ![c] = short]
          /\ end' = [end EXCEPT ![c] = Reported(short, e)]
    /\ \E p \in AfterChild : pc' = [pc EXCEPT ![c] = p]
    /\ UNCHANGED <<program, inUse, queue, left, ran, result>>

\* It writes on after the cut: SIGPIPE.
PipeBreaks(c) ==
    /\ pc[c] = "running"
    /\ TRUE \in Cuts
    /\ cut' = [cut EXCEPT ![c] = TRUE]
    /\ end' = [end EXCEPT ![c] = "sigpipe"]
    /\ \E p \in AfterChild : pc' = [pc EXCEPT ![c] = p]
    /\ UNCHANGED <<program, inUse, queue, left, ran, result>>

\* The deadline expires while the child runs: CommandContext kills the child only.
DeadlineKill(c) ==
    /\ pc[c] = "running"
    /\ left[c] = 0
    /\ end' = [end EXCEPT ![c] = "deadline"]
    /\ \E p \in AfterChild : pc' = [pc EXCEPT ![c] = p]
    /\ UNCHANGED <<program, inUse, queue, left, ran, cut, result>>

\* The descendant that holds the pipe ends.
OrphanExit(c) ==
    /\ pc[c] = "draining"
    /\ pc' = [pc EXCEPT ![c] = "exited"]
    /\ UNCHANGED <<program, inUse, queue, left, ran, cut, end, result>>

-----------------------------------------------------------------------------
\* Status of a run from the signal or exit code of the child.
ByExit == [exit0 |-> "success", failed |-> "runtime_error",
           sigxcpu |-> "time_limit_exceeded", none |-> "runtime_error",
           sigpipe |-> "runtime_error", short_write |-> "runtime_error",
           sigkill |-> "memory_limit_exceeded", deadline |-> "memory_limit_exceeded"]

\* A plausible slip: the exit status is looked at before the deadline.
Classify_M(k, expired, overMemory, e) ==
    CASE k = "compile" -> IF e = "exit0" THEN "success" ELSE "compilation_error"
      [] k = "exec" /\ overMemory -> "memory_limit_exceeded"
      [] OTHER -> ByExit[e]

Classify(k, expired, overMemory, e) ==
    CASE k = "compile" ->
            IF expired \/ e # "exit0" THEN "compilation_error" ELSE "success"
      [] k = "exec" /\ expired -> "time_limit_exceeded"
      [] k = "exec" /\ ~expired /\ overMemory -> "memory_limit_exceeded"
      [] OTHER -> ByExit[e]

Released_M(c) == IF result'[c] = "time_limit_exceeded" THEN inUse ELSE inUse - 1
Released_M2(c) == inUse - 2
Released(c) == inUse - 1

\* Run has returned: classify, kill the process group on a timeout, release the slot.  By
\* now nobody holds a pipe, so the kill frees no call that drains.
Return(c) ==
    /\ pc[c] = "exited"
    /\ \E overMemory \in BOOLEAN :
          /\ overMemory => end[c] # "none"  \* no child, no usage
          /\ result' = [result EXCEPT ![c] = Classify(kind[c], left[c] = 0, overMemory, end[c])]
    /\ pc' = [pc EXCEPT ![c] = "done"]
    /\ inUse' = Released(c)
    /\ UNCHANGED <<program, queue, left, ran, cut, end>>

-----------------------------------------------------------------------------
Armed(c) == \/ pc[c] \in Holding
            \/ pc[c] = "queued" /\ kind[c] \in ArmedWhileQueued

\* A goroutine or the kernel has something to do that takes no time.
Due(c) == \/ pc[c] = "exited"
          \/ pc[c] = "running" /\ (ran[c] = need[c] \/ left[c] = 0)

Tick ==
    /\ Prompt => /\ \A c \in Callers : ~Due(c)
                 /\ queue = <<>> \/ ~SlotFree
    /\ \E c \in Callers : Armed(c) \/ pc[c] = "running"
    /\ left' = [c \in Callers |->
                  IF Armed(c) /\ left[c] > 0 THEN left[c] - 1 ELSE left[c]]
    /\ ran' = [c \in Callers |->
                  IF pc[c] = "running" /\ ran[c] < need[c] THEN ran[c] + 1 ELSE ran[c]]
    /\ UNCHANGED <<program, inUse, queue, pc, cut, end, result>>

Next ==
    \/ \E c \in Callers : \/ Call(c) \/ ChildExit(c) \/ PipeBreaks(c)
                          \/ DeadlineKill(c) \/ OrphanExit(c) \/ Return(c)
    \/ Acquire
    \/ Tick

Spec == Init /\ [][Next]_vars

\* Time passes, blocked senders are served, Run returns, and Return always runs;
\* nothing obliges a caller to call or a descendant to end.
Fairness ==
    /\ WF_vars(Acquire)
    /\ WF_vars(Tick)
    /\ \A c \in Callers : /\ WF_vars(ChildExit(c) \/ DeadlineKill(c))
                          /\ WF_vars(Return(c))

FairSpec == Spec /\ Fairness

-----------------------------------------------------------------------------
TypeOK ==
    /\ inUse \in Nat
    /\ queue \in Seq(Callers)
    /\ pc \in [Callers -> PCs]
    /\ kind \in [Callers -> Kinds]
    /\ left \in [Callers -> Nat]
    /\ need \in [Callers -> Nat]
    /\ ran \in [Callers -> Nat]
    /\ cut \in [Callers -> BOOLEAN]
    /\ end \in [Callers -> Ends]
    /\ result \in [Callers -> Results]

Holders == {c \in Callers : pc[c] \in Holding}

\* The semaphore of limits.go: at most Slots calls are between acquireSlot and its
\* release at a time, and the tokens in the channel are theirs, on every way out of
\* compileWithFlags and runSandboxed.
ChildrenBounded ==
    /\ inUse = Cardinality(Holders)
    /\ Cardinality(Holders) <= Slots

\* runSandboxed and compileWithFlags report success only of a child that did all
\* its work, whose output was not cut in the middle of a write, and whose deadline had not
\* passed when Run returned.
SuccessIsComplete ==
    \A c \in Callers : result[c] = "success" =>
        /\ end[c] = "exit0"
        /\ ran[c] = need[c]
        /\ ~cut[c]
        /\ left[c] > 0

\* compileWithFlags starts its clock once it holds a slot: a compiler that the
\* deadline kills has had the whole CompileLimit (or was done already), however
\* long the call was queued.
CompilerHadItsTime ==
    \A c \in Callers : kind[c] = "compile" /\ end[c] = "deadline" =>
        ran[c] >= CompileLimit \/ ran[c] = need[c]

\* "excess submissions queue briefly" (limits.go:39): a call that waits for a slot returns,
\* unless its own child leaves a descendant that never closes the pipe, or such calls hold
\* every slot.  Nothing shorter is true: the process group is killed (executor.go:280)
\* only when Run has returned, which waits for the pipe.
Draining(D) == <>[](\A d \in D : pc[d] = "draining")

EveryCallReturns ==
    \A c \in Callers :
        \/ (pc[c] = "queued") ~> (pc[c] = "done")
        \/ Draining({c})
        \/ \E D \in {D \in SUBSET Callers : Cardinality(D) = Slots} : Draining(D)

\* Config says of MaxTimeSec "Max wall-clock time for execution" (executor.go:20):
\* a program is only reported over its time when it was run for that long or
\* spent its CPU limit.
TimeoutMeansRan ==
    \A c \in Callers :
        kind[c] = "exec" /\ result[c] = "time_limit_exceeded" =>
            ran[c] >= TimeLimit \/ end[c] = "sigxcpu"
=============================================================================
