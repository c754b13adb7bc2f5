---------------------------- MODULE SandboxProofs ----------------------------
(* Proofs about package sandbox: the safety of SandboxSlots, for every number *)
(* of callers and slots and all limits, and of Judge, for any number of test  *)
(* cases, which implements JudgeVerdict.                                      *)
EXTENDS SandboxSlots, Judge, FiniteSetTheorems, SequenceTheorems, WellFoundedInduction,
        TLAPS

\* The waiting goroutines are distinct and hold no slot.
QueueInv ==
    /\ \A i, j \in 1..Len(queue) : queue[i] = queue[j] => i = j
    /\ \A i \in 1..Len(queue) : pc[queue[i]] = "queued"

\* The tokens in the channel are exactly those of the calls that hold a slot.
SlotInv == inUse = Cardinality(Holders) /\ inUse <= Slots

\* What a call knows of its child, by the place where the call is.
CallInv ==
    \A c \in Callers :
        /\ pc[c] \in {"idle", "queued", "running"} => end[c] = "none"
        /\ pc[c] # "done" => result[c] = "none"
        /\ ran[c] <= need[c]
        /\ end[c] = "exit0" => ran[c] = need[c] /\ ~cut[c]
        /\ kind[c] = "compile" /\ pc[c] = "queued" => left[c] = CompileLimit
        /\ kind[c] = "compile" /\ pc[c] = "running" =>
              ran[c] + left[c] >= CompileLimit \/ ran[c] = need[c]
        /\ kind[c] = "compile" /\ end[c] = "deadline" =>
              ran[c] >= CompileLimit \/ ran[c] = need[c]
        /\ result[c] = "success" => end[c] = "exit0" /\ left[c] > 0

IInv == TypeOK /\ QueueInv /\ SlotInv /\ CallInv

-----------------------------------------------------------------------------
\* A holder more or a holder less changes the number of holders by one.
LEMMA HoldersFinite == IsFiniteSet(Holders) /\ Cardinality(Holders) \in Nat
  BY SandboxAssumption, FS_Subset, FS_CardinalityType DEF Holders

LEMMA EnterHolding ==
  ASSUME TypeOK, NEW c \in Callers, pc[c] \notin Holding, NEW p \in Holding,
         pc' = [pc EXCEPT ![c] = p]
  PROVE  Cardinality(Holders') = Cardinality(Holders) + 1
<1>1. Holders' = Holders \cup {c}
  BY DEF Holders, TypeOK
<1>2. c \notin Holders
  BY DEF Holders
<1> QED
  BY <1>1, <1>2, HoldersFinite, FS_AddElement

LEMMA LeaveHolding ==
  ASSUME TypeOK, NEW c \in Callers, pc[c] \in Holding, NEW p \in PCs \ Holding,
         pc' = [pc EXCEPT ![c] = p]
  PROVE  Cardinality(Holders') = Cardinality(Holders) - 1
<1>1. Holders' = Holders \ {c}
  BY DEF Holders, TypeOK
<1>2. c \in Holders
  BY DEF Holders
<1> QED
  BY <1>1, <1>2, HoldersFinite, FS_RemoveElement

\* A step that moves a call from one place to another on the same side of the
\* semaphore leaves the holders alone.
LEMMA SameHolders ==
  ASSUME TypeOK, NEW c \in Callers, NEW p \in PCs,
         pc[c] \in Holding <=> p \in Holding,
         pc' = [pc EXCEPT ![c] = p]
  PROVE  Holders' = Holders
  BY DEF Holders, TypeOK

\* Classify returns a status, and success only of a zero exit before the deadline.
LEMMA ClassifySound ==
  ASSUME NEW k \in Kinds, NEW l \in Nat, NEW m \in BOOLEAN, NEW e \in Ends
  PROVE  /\ Classify(k, l = 0, m, e) \in Results
         /\ Classify(k, l = 0, m, e) = "success" => e = "exit0" /\ l # 0
<1>1. ByExit[e] \in Results /\ (ByExit[e] = "success" => e = "exit0")
  BY DEF ByExit, Results, Ends, OwnEnds
<1>2. CASE k = "compile"
  BY <1>2 DEF Classify, Results
<1>3. CASE k = "exec" /\ l = 0
  BY <1>3 DEF Classify, Results
<1>4. CASE k = "exec" /\ l # 0 /\ m
  BY <1>4 DEF Classify, Results
<1>5. CASE k = "exec" /\ l # 0 /\ ~m
  BY <1>5, <1>1 DEF Classify
<1> QED
  BY <1>2, <1>3, <1>4, <1>5 DEF Kinds

-----------------------------------------------------------------------------
LEMMA InitIInv == Init => IInv
<1> SUFFICES ASSUME Init PROVE IInv
  OBVIOUS
<1>1. Holders = {}
  BY DEF Init, Holders, Holding
<1>2. Cardinality(Holders) = 0
  BY <1>1, FS_EmptySet
<1>3. TypeOK
  BY EmptySeq DEF Init, TypeOK, PCs, Kinds, Ends, Results
<1>4. QueueInv /\ CallInv
  BY DEF Init, QueueInv, CallInv
<1>5. SlotInv
  BY <1>2, SandboxAssumption DEF Init, SlotInv
<1> QED
  BY <1>3, <1>4, <1>5 DEF IInv

LEMMA CallIInv ==
  ASSUME IInv, NEW c \in Callers, Call(c)
  PROVE  IInv'
<1>1. /\ TypeOK /\ QueueInv /\ SlotInv /\ CallInv
      /\ pc[c] \in {"idle", "done"} /\ pc' = [pc EXCEPT ![c] = "queued"]
      /\ queue' = Append(queue, c) /\ inUse' = inUse
  BY DEF IInv, Call
<1>2. PICK k \in Kinds, n \in 1..MaxNeed :
        /\ kind' = [kind EXCEPT ![c] = k]
        /\ need' = [need EXCEPT ![c] = n]
        /\ left' = [left EXCEPT ![c] = Limit(k)]
  BY DEF Call
<1>3. Limit(k) \in Nat /\ (k = "compile" => Limit(k) = CompileLimit)
  BY SandboxAssumption DEF Limit, Kinds
<1>4. n \in Nat
  BY SandboxAssumption
<1>5. TypeOK'
  BY <1>1, <1>2, <1>3, <1>4 DEF TypeOK, Call, PCs, Ends, Results
<1>6. QueueInv'
  <2>1. /\ Len(queue') = Len(queue) + 1
        /\ \A i \in 1..Len(queue) : queue'[i] = queue[i]
        /\ queue'[Len(queue) + 1] = c
        /\ Len(queue) \in Nat
    BY <1>1 DEF TypeOK
  <2>2. \A i \in 1..Len(queue) : queue[i] # c /\ queue[i] \in Callers
    BY <1>1, ElementOfSeq DEF QueueInv, TypeOK
  <2>3. \A i \in 1..Len(queue') : i \in 1..Len(queue) \/ i = Len(queue) + 1
    BY <2>1
  <2>4. \A i \in 1..Len(queue') : pc'[queue'[i]] = "queued"
    BY <1>1, <2>1, <2>2, <2>3 DEF QueueInv, TypeOK
  <2>5. ASSUME NEW i \in 1..Len(queue'), NEW j \in 1..Len(queue'), queue'[i] = queue'[j]
        PROVE  i = j
    BY <1>1, <2>1, <2>2, <2>3, <2>5 DEF QueueInv
  <2> QED
    BY <2>4, <2>5 DEF QueueInv
<1>7. SlotInv'
  <2>1. Holders' = Holders
    BY <1>1, SameHolders DEF Holding, PCs
  <2> QED
    BY <2>1, <1>1 DEF SlotInv
<1>8. CallInv'
  BY <1>1, <1>2, <1>3 DEF CallInv, Call, TypeOK
<1> QED
  BY <1>5, <1>6, <1>7, <1>8 DEF IInv

LEMMA AcquireIInv ==
  ASSUME IInv, Acquire
  PROVE  IInv'
<1> DEFINE c == Head(queue)
<1>0. PICK p \in AfterStart(c) : pc' = [pc EXCEPT ![c] = p]
  BY DEF Acquire
<1>1. /\ TypeOK /\ QueueInv /\ SlotInv /\ CallInv
      /\ queue # <<>> /\ inUse < Slots /\ inUse' = inUse + 1
      /\ pc' = [pc EXCEPT ![c] = p]
      /\ queue' = Tail(queue)
      /\ UNCHANGED <<kind, need, left, ran, cut, end, result>>
  BY <1>0 DEF IInv, Acquire, SlotFree, program
<1>2. /\ c \in Callers /\ Len(queue) \in Nat /\ Len(queue) > 0 /\ c = queue[1]
      /\ Tail(queue) \in Seq(Callers) /\ Len(Tail(queue)) = Len(queue) - 1
      /\ \A i \in 1..Len(Tail(queue)) : Tail(queue)[i] = queue[i + 1]
  BY <1>1, HeadTailProperties, EmptySeq, LenProperties DEF TypeOK
<1>3. pc[c] = "queued"
  BY <1>1, <1>2 DEF QueueInv
<1>4. p \in Holding /\ p \in PCs
  BY DEF Holding, PCs, AfterStart
<1> HIDE DEF c
<1>5. TypeOK'
  BY <1>1, <1>2, <1>4 DEF TypeOK
<1>6. QueueInv'
  <2>1. \A i \in 1..Len(queue') :
           i + 1 \in 1..Len(queue) /\ queue'[i] = queue[i + 1] /\ queue[i + 1] \in Callers
    BY <1>1, <1>2, ElementOfSeq DEF TypeOK
  <2>2. \A i \in 1..Len(queue') : queue'[i] # c
    BY <2>1, <1>1, <1>2 DEF QueueInv
  <2> QED
    BY <1>1, <1>2, <2>1, <2>2 DEF QueueInv, TypeOK
<1>7. SlotInv'
  <2>1. Cardinality(Holders') = Cardinality(Holders) + 1
    BY <1>1, <1>2, <1>3, <1>4, EnterHolding DEF Holding
  <2> QED
    BY <2>1, <1>1, SandboxAssumption DEF SlotInv, TypeOK
<1>8. CallInv'
  BY <1>1, <1>2, <1>3, <1>4, SandboxAssumption DEF CallInv, TypeOK, Holding
<1> QED
  BY <1>5, <1>6, <1>7, <1>8 DEF IInv

\* A step of a call that keeps the slot: the queue and the tokens do not change.
LEMMA QueueKept ==
  ASSUME TypeOK, QueueInv, NEW c \in Callers, NEW p \in PCs, pc[c] # "queued",
         pc' = [pc EXCEPT ![c] = p], queue' = queue
  PROVE  QueueInv'
<1>1. \A i \in 1..Len(queue) : queue[i] \in Callers /\ queue[i] # c
  BY ElementOfSeq DEF TypeOK, QueueInv
<1> QED
  BY <1>1 DEF QueueInv, TypeOK

LEMMA ChildIInv ==
  ASSUME IInv, NEW c \in Callers, ChildExit(c) \/ PipeBreaks(c) \/ DeadlineKill(c) \/ OrphanExit(c)
  PROVE  IInv'
<1>1. /\ TypeOK /\ QueueInv /\ SlotInv /\ CallInv
      /\ pc[c] \in Holding
      /\ UNCHANGED <<kind, need, left, ran, result, inUse, queue>>
  BY DEF IInv, ChildExit, PipeBreaks, DeadlineKill, OrphanExit, program, Holding
<1>2. PICK p \in {"draining", "exited"} : pc' = [pc EXCEPT ![c] = p]
  BY DEF ChildExit, PipeBreaks, DeadlineKill, OrphanExit, AfterChild
<1>3. \/ end' = end /\ cut' = cut /\ pc[c] = "draining"
      \/ /\ pc[c] = "running" /\ ran[c] = need[c]
         /\ \E e \in OwnEnds, short \in BOOLEAN :
               cut' = [cut EXCEPT ![c] = short] /\ end' = [end EXCEPT ![c] = Reported(short, e)]
      \/ /\ pc[c] = "running" /\ cut' = [cut EXCEPT ![c] = TRUE]
         /\ end' = [end EXCEPT ![c] = "sigpipe"]
      \/ /\ pc[c] = "running" /\ left[c] = 0 /\ cut' = cut
         /\ end' = [end EXCEPT ![c] = "deadline"]
  <2>1. CASE ChildExit(c)
    BY <2>1, SandboxAssumption DEF ChildExit
  <2>2. CASE PipeBreaks(c) \/ DeadlineKill(c) \/ OrphanExit(c)
    BY <2>2 DEF PipeBreaks, DeadlineKill, OrphanExit
  <2> QED
    BY <2>1, <2>2
<1>4. TypeOK'
  BY <1>1, <1>2, <1>3 DEF TypeOK, PCs, Ends, OwnEnds, Reported
<1>5. QueueInv'
  BY <1>1, <1>2, QueueKept DEF Holding, PCs
<1>6. SlotInv'
  <2>1. Holders' = Holders
    BY <1>1, <1>2, SameHolders DEF Holding, PCs
  <2> QED
    BY <2>1, <1>1 DEF SlotInv
<1>7. CallInv'
  <2>1. CASE end' = end /\ cut' = cut /\ pc[c] = "draining"
    BY <1>1, <1>2, <2>1 DEF CallInv, TypeOK
  <2>2. ASSUME pc[c] = "running", ran[c] = need[c], NEW e \in OwnEnds, NEW short \in BOOLEAN,
               cut' = [cut EXCEPT ![c] = short], end' = [end EXCEPT ![c] = Reported(short, e)]
        PROVE  CallInv'
    <3>1. /\ Reported(short, e) \notin {"deadline", "none"}
          /\ Reported(short, e) = "exit0" => short = FALSE
      BY DEF Reported, OwnEnds
    <3> QED
      BY <1>1, <1>2, <2>2, <3>1 DEF CallInv, TypeOK
  <2>3. CASE /\ pc[c] = "running" /\ cut' = [cut EXCEPT ![c] = TRUE]
             /\ end' = [end EXCEPT ![c] = "sigpipe"]
    BY <1>1, <1>2, <2>3 DEF CallInv, TypeOK
  <2>4. CASE /\ pc[c] = "running" /\ left[c] = 0 /\ cut' = cut
             /\ end' = [end EXCEPT ![c] = "deadline"]
    BY <1>1, <1>2, <2>4, SandboxAssumption DEF CallInv, TypeOK
  <2> QED
    BY <2>1, <2>2, <2>3, <2>4, <1>3
<1> QED
  BY <1>4, <1>5, <1>6, <1>7 DEF IInv

LEMMA ReturnIInv ==
  ASSUME IInv, NEW c \in Callers, Return(c)
  PROVE  IInv'
<1>1. /\ TypeOK /\ QueueInv /\ SlotInv /\ CallInv
      /\ pc[c] = "exited" /\ pc' = [pc EXCEPT ![c] = "done"] /\ inUse' = inUse - 1
      /\ UNCHANGED <<kind, need, left, ran, cut, end, queue>>
  BY DEF IInv, Return, program, Released
<1>2. PICK m \in BOOLEAN :
        result' = [result EXCEPT ![c] = Classify(kind[c], left[c] = 0, m, end[c])]
  BY Zenon DEF Return
<1> DEFINE r == Classify(kind[c], left[c] = 0, m, end[c])
<1>3. r \in Results /\ (r = "success" => end[c] = "exit0" /\ left[c] # 0)
  <2>1. kind[c] \in Kinds /\ end[c] \in Ends /\ left[c] \in Nat
    BY <1>1 DEF TypeOK
  <2>2. \A k \in Kinds, l \in Nat, e \in Ends :
           /\ Classify(k, l = 0, m, e) \in Results
           /\ Classify(k, l = 0, m, e) = "success" => e = "exit0" /\ l # 0
    BY ClassifySound
  <2>3. /\ Classify(kind[c], left[c] = 0, m, end[c]) \in Results
        /\ Classify(kind[c], left[c] = 0, m, end[c]) = "success" =>
              end[c] = "exit0" /\ left[c] # 0
    BY <2>1, <2>2, Zenon
  <2> QED
    BY <2>3, Zenon
<1>4. result' = [result EXCEPT ![c] = r]
  BY <1>2
<1> HIDE DEF r
<1>5. Cardinality(Holders') = Cardinality(Holders) - 1
  BY <1>1, LeaveHolding DEF Holding, PCs
<1>6. SlotInv' /\ inUse' \in Nat
  <2>1. Cardinality(Holders') \in Nat
    BY <1>1, SandboxAssumption, FS_Subset, FS_CardinalityType DEF Holders
  <2> QED
    BY <2>1, <1>5, <1>1, SandboxAssumption DEF SlotInv, TypeOK
<1>7. TypeOK'
  BY <1>1, <1>3, <1>4, <1>6 DEF TypeOK, PCs
<1>8. QueueInv'
  BY <1>1, QueueKept DEF PCs
<1>9. CallInv'
  BY <1>1, <1>3, <1>4 DEF CallInv, TypeOK
<1> QED
  BY <1>6, <1>7, <1>8, <1>9 DEF IInv

LEMMA TickIInv ==
  ASSUME IInv, Tick
  PROVE  IInv'
<1>1. /\ TypeOK /\ QueueInv /\ SlotInv /\ CallInv
      /\ UNCHANGED <<kind, need, inUse, queue, pc, cut, end, result>>
      /\ left' = [c \in Callers |->
                    IF Armed(c) /\ left[c] > 0 THEN left[c] - 1 ELSE left[c]]
      /\ ran' = [c \in Callers |->
                    IF pc[c] = "running" /\ ran[c] < need[c] THEN ran[c] + 1 ELSE ran[c]]
  BY DEF IInv, Tick, program
<1>2. TypeOK'
  BY <1>1 DEF TypeOK
<1>3. QueueInv'
  BY <1>1 DEF QueueInv
<1>4. SlotInv'
  BY <1>1 DEF SlotInv, Holders
<1>5. CallInv'
  <2> SUFFICES ASSUME NEW c \in Callers
               PROVE  CallInv!(c)'
    BY DEF CallInv
  <2>1. Armed(c) <=> \/ pc[c] \in {"running", "draining", "exited"}
                     \/ pc[c] = "queued" /\ kind[c] = "exec"
    BY DEF Armed, Holding, ArmedWhileQueued
  <2>2. /\ left'[c] = IF Armed(c) /\ left[c] > 0 THEN left[c] - 1 ELSE left[c]
        /\ ran'[c] = IF pc[c] = "running" /\ ran[c] < need[c] THEN ran[c] + 1 ELSE ran[c]
        /\ left[c] \in Nat /\ ran[c] \in Nat /\ need[c] \in Nat
    BY <1>1 DEF TypeOK
  <2>3. CallInv!(c) /\ CompileLimit \in Nat
    BY <1>1, SandboxAssumption DEF CallInv
  <2>4. CASE pc[c] = "running"
    <3>1. end[c] = "none" /\ result[c] = "none" /\ Armed(c)
      BY <2>1, <2>3, <2>4
    <3> QED
      BY <1>1, <2>2, <2>3, <2>4, <3>1
  <2>5. CASE pc[c] # "running" /\ pc[c] # "done"
    BY <1>1, <2>1, <2>2, <2>3, <2>5
  <2>6. CASE pc[c] = "done"
    BY <1>1, <2>1, <2>2, <2>3, <2>6
  <2> QED
    BY <2>4, <2>5, <2>6
<1> QED
  BY <1>2, <1>3, <1>4, <1>5 DEF IInv

LEMMA NextIInv == IInv /\ [Next]_vars => IInv'
<1> SUFFICES ASSUME IInv, [Next]_vars PROVE IInv'
  OBVIOUS
<1>1. CASE \E c \in Callers : Call(c)
  BY <1>1, CallIInv
<1>2. CASE \E c \in Callers : ChildExit(c) \/ PipeBreaks(c) \/ DeadlineKill(c) \/ OrphanExit(c)
  BY <1>2, ChildIInv
<1>3. CASE \E c \in Callers : Return(c)
  BY <1>3, ReturnIInv
<1>4. CASE Acquire
  BY <1>4, AcquireIInv
<1>5. CASE Tick
  BY <1>5, TickIInv
<1>6. CASE UNCHANGED vars
  BY <1>6 DEF vars, IInv, TypeOK, QueueInv, SlotInv, Holders, CallInv
<1> QED
  BY <1>1, <1>2, <1>3, <1>4, <1>5, <1>6 DEF Next

\* Everything below holds in every reachable state of the sandbox.
THEOREM SandboxInvariant == Spec => []IInv
  BY InitIInv, NextIInv, PTL DEF Spec

\* The variables keep their types.
THEOREM SandboxTypes == Spec => []TypeOK
<1>1. IInv => TypeOK
  BY DEF IInv
<1> QED
  BY <1>1, SandboxInvariant, PTL

\* limits.go: the number of children of the sandbox never exceeds the slots, and
\* no path through a call loses or duplicates a token.
THEOREM SlotsBoundChildren == Spec => []ChildrenBounded
<1>1. IInv => ChildrenBounded
  BY DEF IInv, SlotInv, ChildrenBounded
<1> QED
  BY <1>1, SandboxInvariant, PTL

\* executor.go: success is reported only of a child that finished its work in time and whose
\* output was not cut in the middle of a write.
THEOREM SuccessSound == Spec => []SuccessIsComplete
<1>1. IInv => SuccessIsComplete
  BY DEF IInv, CallInv, SuccessIsComplete
<1> QED
  BY <1>1, SandboxInvariant, PTL

\* executor.go: the compile deadline does not run while the call is queued.
THEOREM CompilerTime == Spec => []CompilerHadItsTime
<1>1. IInv => CompilerHadItsTime
  BY DEF IInv, CallInv, CompilerHadItsTime
<1> QED
  BY <1>1, SandboxInvariant, PTL
-----------------------------------------------------------------------------
\* Judge.

\* The tests that the loop has left behind.
Before == {k \in 1..N : k < test}
PassedBefore == {k \in Before : V!TestStatus(world, k) = "accepted"}

\* What the loop knows after the tests before the current one.
LoopInv ==
    /\ passed = Cardinality(PassedBefore)
    /\ fail = "" => PassedBefore = Before
    /\ fail # "" => \E k \in Before :
                       /\ V!TestStatus(world, k) # "accepted"
                       /\ fail = V!TestStatus(world, k)
                       /\ \A j \in Before : j < k => V!TestStatus(world, j) = "accepted"

\* The compilations that were passed on the way.
StageInv ==
    /\ stage \in {"source", "compile", "checker"} => test = 1 /\ passed = 0 /\ fail = ""
    /\ stage \in {"compile", "checker"} => world.files \notin {"nodir", "nosource"}
    /\ stage = "checker" => world.userCompiles
    /\ stage \in {"run", "check"} => /\ world.files = "ok"
                                  /\ world.userCompiles /\ world.checkerCompiles
    /\ stage = "check" => test <= N /\ world.runs[test] = "success"

AnswerInv ==
    IF stage = "done" THEN answer = V!Verdict(world) ELSE answer = V!Pending

JudgeInv ==
    /\ JudgeTypeOK
    /\ StageInv
    /\ stage \in {"run", "check"} => LoopInv
    /\ AnswerInv

-----------------------------------------------------------------------------
LEMMA WorldFields ==
    ASSUME world \in V!Worlds
    PROVE  /\ world.files \in {"ok", "nodir", "nosource", "nochecker"}
           /\ world.userCompiles \in BOOLEAN /\ world.checkerCompiles \in BOOLEAN
           /\ world.runs \in [1..N -> V!RunStatuses]
           /\ world.checks \in [1..N -> V!Checks]
BY DEF V!Worlds

\* runChecker accepts exactly the checkers that ended well.
LEMMA CheckStatusIs ==
    ASSUME NEW c \in V!Checks
    PROVE  CheckStatus(c) = IF c.status = "success" THEN "accepted" ELSE "wrong_answer"
BY DEF V!Checks, CheckStatus, ExitCode

LEMMA TestStatusType ==
    ASSUME world \in V!Worlds, NEW k \in 1..N
    PROVE  V!TestStatus(world, k) \in V!TestStatuses
<1>1. world.runs[k] \in V!RunStatuses
  BY WorldFields
<1> QED
  BY <1>1 DEF V!TestStatus, V!TestStatuses, V!RunStatuses

LEMMA CountTests ==
    ASSUME NEW T \in SUBSET (1..N)
    PROVE  IsFiniteSet(T) /\ Cardinality(T) \in 0..N
<1>1. IsFiniteSet(1..N) /\ Cardinality(1..N) = N
  BY JudgeAssumption, FS_Interval
<1>2. IsFiniteSet(T) /\ Cardinality(T) <= Cardinality(1..N)
  BY <1>1, FS_Subset
<1>3. Cardinality(T) \in Nat
  BY <1>2, FS_CardinalityType
<1> QED
  BY <1>1, <1>2, <1>3, JudgeAssumption

\* Counting the current test keeps the loop invariant.
LEMMA CountStep ==
    ASSUME JudgeInv, stage \in {"run", "check"}, test <= N,
           Count(V!TestStatus(world, test)), UNCHANGED <<world, answer>>
    PROVE  JudgeInv'
<1> DEFINE st == V!TestStatus(world, test)
<1>0. JudgeTypeOK /\ StageInv /\ LoopInv /\ N \in Nat
  BY JudgeAssumption DEF JudgeInv
<1>0a. test \in 1..(N + 1)
  BY <1>0 DEF JudgeTypeOK
<1>0b. test \in 1..N
  BY <1>0, <1>0a
<1>1. JudgeTypeOK /\ StageInv /\ LoopInv /\ test \in 1..N /\ N \in Nat
  BY <1>0, <1>0b
<1>2. st \in V!TestStatuses /\ "" \notin V!TestStatuses /\ "accepted" # ""
  BY <1>1, TestStatusType DEF JudgeTypeOK, V!TestStatuses, V!RunStatuses
<1>3. Before' = Before \cup {test} /\ test \notin Before
  BY <1>1 DEF Before, Count
<1>4. \A k : V!TestStatus(world, k)' = V!TestStatus(world, k)
  BY DEF V!TestStatus
<1>5. PassedBefore' = IF st = "accepted" THEN PassedBefore \cup {test} ELSE PassedBefore
  BY <1>3, <1>4 DEF PassedBefore
<1>6. test \notin PassedBefore /\ IsFiniteSet(PassedBefore) /\ Cardinality(PassedBefore) \in 0..N
  BY <1>3, CountTests DEF PassedBefore, Before
<1>7. passed' = Cardinality(PassedBefore')
  <2>1. CASE st = "accepted"
    BY <2>1, <1>1, <1>5, <1>6, FS_AddElement DEF Count, LoopInv
  <2>2. CASE st # "accepted"
    BY <2>2, <1>1, <1>5 DEF Count, LoopInv
  <2> QED
    BY <2>1, <2>2
<1>8. passed' \in 0..N
  <2>1. PassedBefore' \in SUBSET (1..N)
    BY <1>1, <1>5 DEF PassedBefore, Before
  <2> QED
    BY <2>1, <1>7, CountTests
<1>9. fail' = IF st # "accepted" /\ fail = "" THEN st ELSE fail
  BY DEF Count, FirstFail
<1>10. LoopInv'
  <2>1. CASE fail' = ""
    <3>1. fail = "" /\ st = "accepted"
      BY <2>1, <1>2, <1>9
    <3>2. PassedBefore = Before
      BY <3>1, <1>1 DEF LoopInv
    <3>3. PassedBefore' = Before'
      BY <3>1, <3>2, <1>3, <1>5
    <3> QED
      BY <2>1, <3>3, <1>7 DEF LoopInv
  <2>2. CASE fail' # "" /\ fail = ""
    <3>1. st # "accepted" /\ fail' = st
      BY <2>2, <1>9
    <3>2. \A j \in Before : V!TestStatus(world, j) = "accepted"
      BY <2>2, <1>1 DEF LoopInv, PassedBefore
    <3>3. PICK t \in 1..N : t = test
      BY <1>1
    <3>4. /\ t \in Before' /\ V!TestStatus(world, t)' = st
          /\ \A j \in Before' : j < t => V!TestStatus(world, j)' = "accepted"
      BY <3>2, <3>3, <1>1, <1>3, <1>4
    <3> HIDE DEF st
    <3> QED
      BY <2>2, <3>1, <3>4, <1>7 DEF LoopInv
  <2>3. CASE fail' # "" /\ fail # ""
    <3>1. fail' = fail
      BY <2>3, <1>9
    <3>2. PICK k \in Before :
             /\ V!TestStatus(world, k) # "accepted" /\ fail = V!TestStatus(world, k)
             /\ \A j \in Before : j < k => V!TestStatus(world, j) = "accepted"
      BY <2>3, <1>1 DEF LoopInv
    <3>3. k \in Before' /\ (\A j \in Before' : j < k => j \in Before)
      BY <1>1, <1>3, <3>2 DEF Before
    <3> QED
      BY <2>3, <3>1, <3>2, <3>3, <1>4, <1>7 DEF LoopInv
  <2> QED
    BY <2>1, <2>2, <2>3
<1>11. JudgeTypeOK'
  <2>1. fail' \in V!TestStatuses \cup {""}
    BY <1>0, <1>2, <1>9 DEF JudgeTypeOK
  <2>2. world' \in V!Worlds
    BY <1>0 DEF JudgeTypeOK
  <2>3. answer' \in V!Answers \cup {V!Pending}
    BY <1>0 DEF JudgeTypeOK
  <2>4. test' \in 1..(N + 1) /\ stage' \in Stages
    BY <1>1 DEF Count, Stages
  <2> QED
    BY <1>8, <2>1, <2>2, <2>3, <2>4 DEF JudgeTypeOK
<1>12. StageInv'
  BY <1>1 DEF JudgeInv, StageInv, Count
<1>13. AnswerInv'
  BY DEF JudgeInv, AnswerInv, Count, V!Verdict, V!Pending
<1> QED
  BY <1>10, <1>11, <1>12, <1>13 DEF JudgeInv

LEMMA VerdictOfTests ==
    ASSUME NEW w, w.userCompiles, ~V!Broken(w)
    PROVE  V!Verdict(w) =
              [status |-> IF V!Failed(w) = {} THEN "accepted"
                          ELSE V!TestStatus(w, V!FirstFailed(w)),
               passed |-> Cardinality(V!Passed(w)), total |-> N]
BY Zenon DEF V!Verdict, V!Cardinality, V!IsFiniteSet, Cardinality, IsFiniteSet

\* The answer at the end of the loop is the verdict.
LEMMA LoopVerdict ==
    ASSUME JudgeInv, stage = "run", test > N
    PROVE  V!Verdict(world) =
              [status |-> IF fail # "" THEN fail ELSE "accepted", passed |-> passed, total |-> N]
<1>1. /\ JudgeTypeOK /\ LoopInv /\ N \in Nat
      /\ world.files = "ok" /\ world.userCompiles /\ world.checkerCompiles
  BY JudgeAssumption DEF JudgeInv, StageInv
<1>1a. test \in 1..(N + 1)
  BY <1>1 DEF JudgeTypeOK
<1>2. Before = 1..N
  BY <1>1, <1>1a DEF Before
<1>3. PassedBefore = V!Passed(world)
  BY <1>2 DEF PassedBefore, V!Passed
<1>4. ~V!Broken(world)
  BY <1>1 DEF V!Broken
<1>4a. passed = Cardinality(V!Passed(world)) /\ world.userCompiles
  BY <1>1, <1>3 DEF LoopInv
<1>4b. V!Verdict(world) =
          [status |-> IF V!Failed(world) = {} THEN "accepted"
                      ELSE V!TestStatus(world, V!FirstFailed(world)),
           passed |-> Cardinality(V!Passed(world)), total |-> N]
  BY <1>4, <1>4a, VerdictOfTests
<1>5. CASE fail = ""
  <2>1. V!Failed(world) = {}
    BY <1>1, <1>2, <1>3, <1>5 DEF LoopInv, V!Failed
  <2> QED
    BY <1>4a, <1>4b, <1>5, <2>1, Zenon
<1>6. CASE fail # ""
  <2>1. PICK k \in 1..N :
           /\ V!TestStatus(world, k) # "accepted" /\ fail = V!TestStatus(world, k)
           /\ \A j \in 1..N : j < k => V!TestStatus(world, j) = "accepted"
    BY <1>1, <1>2, <1>6 DEF LoopInv
  <2>2. k \in V!Failed(world) /\ (\A j \in V!Failed(world) : k <= j)
    BY <2>1, <1>1 DEF V!Failed, V!Passed
  <2>3. \A i \in V!Failed(world) : (\A j \in V!Failed(world) : i <= j) => i = k
    BY <2>2, <1>1 DEF V!Failed
  <2>4. V!FirstFailed(world) = k
    BY <2>2, <2>3 DEF V!FirstFailed
  <2>5. V!Failed(world) # {}
    BY <2>2
  <2> QED
    BY <1>4a, <1>4b, <1>6, <2>1, <2>4, <2>5, Zenon
<1> QED
  BY <1>5, <1>6

LEMMA InvInit == JudgeInit => JudgeInv
<1> SUFFICES ASSUME JudgeInit PROVE JudgeInv
  OBVIOUS
<1>1. 1 \in 1..(N + 1) /\ 0 \in 0..N
  BY JudgeAssumption
<1>2. JudgeTypeOK
  BY <1>1 DEF JudgeInit, JudgeTypeOK, Stages
<1>3. StageInv /\ AnswerInv
  BY DEF JudgeInit, StageInv, AnswerInv
<1> QED
  BY <1>2, <1>3 DEF JudgeInit, JudgeInv

\* The steps up to the loop, and the end of it.
LEMMA StageStep ==
    ASSUME JudgeInv, WriteSource \/ CompileUser \/ CompileChecker
    PROVE  JudgeInv'
<1>0. JudgeTypeOK /\ StageInv /\ AnswerInv /\ N \in Nat /\ world \in V!Worlds
  BY JudgeAssumption DEF JudgeInv, JudgeTypeOK
<1>1. /\ UNCHANGED <<world, test, passed, fail>>
      /\ test = 1 /\ passed = 0 /\ fail = "" /\ stage # "done"
  BY <1>0 DEF StageInv, WriteSource, CompileUser, CompileChecker
<1>2. stage' # "done" => answer' = answer
  BY <1>0 DEF WriteSource, CompileUser, CompileChecker, Give
<1>3. stage' = "done" => answer' = V!Verdict(world)
  <2>1. CASE WriteSource
    BY <2>1, <1>0, <1>1 DEF WriteSource, Give, V!Verdict, V!Broken
  <2>2. CASE CompileUser
    BY <2>2, <1>0, <1>1 DEF StageInv, CompileUser, Give, V!Verdict, V!Broken
  <2>3. CASE CompileChecker
    BY <2>3, <1>0, <1>1 DEF StageInv, CompileChecker, Give, V!Verdict, V!Broken
  <2> QED
    BY <2>1, <2>2, <2>3
<1>4. AnswerInv'
  <2>1. V!Verdict(world)' = V!Verdict(world)
    BY <1>1, Zenon
  <2> QED
    BY <1>0, <1>1, <1>2, <1>3, <2>1 DEF AnswerInv
<1>5. JudgeTypeOK'
  <2>1. stage' \in Stages
    BY DEF WriteSource, CompileUser, CompileChecker, Give, Stages
  <2>2. answer' \in V!Answers \cup {V!Pending}
    <3>1. answer' = answer \/ \E s \in {"error", "compilation_error"}, t \in {0, N} :
                                 answer' = [status |-> s, passed |-> passed, total |-> t]
      BY DEF WriteSource, CompileUser, CompileChecker, Give
    <3>2. answer \in V!Answers \cup {V!Pending} /\ passed \in 0..N
      BY <1>0 DEF JudgeTypeOK
    <3> QED
      BY <3>1, <3>2 DEF V!Answers, V!TestStatuses, V!RunStatuses
  <2>3. passed' \in 0..N /\ fail' \in V!TestStatuses \cup {""} /\ test' \in 1..(N + 1)
        /\ world' \in V!Worlds
    BY <1>0, <1>1 DEF JudgeTypeOK
  <2> QED
    BY <2>1, <2>2, <2>3 DEF JudgeTypeOK
<1>6. StageInv'
  <2>1. world.files \in {"ok", "nodir", "nosource", "nochecker"}
    BY <1>0, WorldFields
  <2> QED
    BY <2>1, <1>0, <1>1 DEF StageInv, WriteSource, CompileUser, CompileChecker, Give
<1>7. stage' \in {"run", "check"} => LoopInv'
  <2>1. Before' = {} /\ PassedBefore' = {}
    <3>1. test' = 1
      BY <1>1
    <3> QED
      BY <3>1, <1>0 DEF Before, PassedBefore
  <2>2. Cardinality(PassedBefore') = 0
    BY <2>1, FS_EmptySet
  <2> QED
    BY <2>1, <2>2, <1>1 DEF LoopInv
<1> QED
  BY <1>4, <1>5, <1>6, <1>7 DEF JudgeInv

LEMMA FinishStep ==
    ASSUME JudgeInv, Finish
    PROVE  JudgeInv'
<1>1. /\ JudgeTypeOK /\ stage = "run" /\ test > N /\ N \in Nat
      /\ UNCHANGED <<world, test, passed, fail>> /\ stage' = "done"
      /\ answer' = [status |-> IF fail # "" THEN fail ELSE "accepted",
                    passed |-> passed, total |-> N]
  BY JudgeAssumption DEF JudgeInv, Finish, Give
<1>2. answer' = V!Verdict(world)
  BY <1>1, LoopVerdict
<1>3. V!Verdict(world)' = V!Verdict(world)
  BY <1>1, Zenon
<1>4. AnswerInv'
  BY <1>1, <1>2, <1>3 DEF AnswerInv
<1>5. JudgeTypeOK'
  <2>1. answer' \in V!Answers
    BY <1>1 DEF JudgeTypeOK, V!Answers, V!TestStatuses, V!RunStatuses
  <2> QED
    BY <1>1, <2>1 DEF JudgeTypeOK, Stages
<1>6. StageInv'
  BY <1>1 DEF StageInv
<1> QED
  BY <1>1, <1>4, <1>5, <1>6 DEF JudgeInv

LEMMA InvStep ==
    ASSUME JudgeInv, [JudgeNext]_judgeVars
    PROVE  JudgeInv'
<1>0. JudgeTypeOK /\ StageInv /\ world \in V!Worlds /\ N \in Nat
  BY JudgeAssumption DEF JudgeInv, JudgeTypeOK
<1>1. CASE WriteSource \/ CompileUser \/ CompileChecker
  BY <1>1, StageStep
<1>2. CASE RunUser /\ world.runs[test] # "success"
  <2>1. V!TestStatus(world, test) = world.runs[test]
    BY <1>2 DEF V!TestStatus
  <2> QED
    BY <1>2, <2>1, CountStep DEF RunUser
<1>3. CASE RunUser /\ world.runs[test] = "success"
  <2>1. UNCHANGED <<world, test, passed, fail, answer>> /\ stage = "run" /\ stage' = "check"
        /\ test <= N
    BY <1>3 DEF RunUser
  <2>2. JudgeTypeOK'
    BY <2>1, <1>0 DEF JudgeTypeOK, Stages
  <2>3. StageInv'
    BY <2>1, <1>0, <1>3 DEF StageInv
  <2>4. LoopInv'
    <3>1. Before' = Before /\ PassedBefore' = PassedBefore
      BY <2>1 DEF Before, PassedBefore, V!TestStatus
    <3>2. \A k : V!TestStatus(world, k)' = V!TestStatus(world, k)
      BY <2>1 DEF V!TestStatus
    <3>3. LoopInv
      BY <2>1 DEF JudgeInv
    <3> QED
      BY <2>1, <3>1, <3>2, <3>3 DEF LoopInv
  <2>5. AnswerInv'
    BY <2>1 DEF JudgeInv, AnswerInv, V!Pending
  <2> QED
    BY <2>2, <2>3, <2>4, <2>5 DEF JudgeInv
<1>4. CASE RunChecker
  <2>1. stage = "check" /\ test <= N /\ world.runs[test] = "success"
    BY <1>4, <1>0 DEF RunChecker, StageInv
  <2>1a. test \in 1..(N + 1)
    BY <1>0 DEF JudgeTypeOK
  <2>2. test \in 1..N
    BY <2>1, <2>1a, <1>0
  <2>3. world.checks[test] \in V!Checks
    BY <1>0, <2>2, WorldFields
  <2>4. V!TestStatus(world, test) = CheckStatus(world.checks[test])
    BY <2>1, <2>3, CheckStatusIs DEF V!TestStatus
  <2> QED
    BY <1>4, <2>1, <2>4, CountStep DEF RunChecker
<1>5. CASE Finish
  BY <1>5, FinishStep
<1>6. CASE UNCHANGED judgeVars
  <2>1. Before' = Before /\ PassedBefore' = PassedBefore
    BY <1>6 DEF judgeVars, Before, PassedBefore, V!TestStatus
  <2>2. \A k : V!TestStatus(world, k)' = V!TestStatus(world, k)
    BY <1>6 DEF judgeVars, V!TestStatus
  <2>3. V!Verdict(world)' = V!Verdict(world)
    <3>1. world' = world
      BY <1>6 DEF judgeVars
    <3> QED
      BY <3>1, Zenon
  <2>4. JudgeTypeOK' /\ StageInv' /\ AnswerInv'
    BY <1>0, <1>6, <2>3 DEF judgeVars, JudgeInv, JudgeTypeOK, StageInv, AnswerInv, V!Pending
  <2>5. LoopInv => LoopInv'
    BY <1>6, <2>1, <2>2 DEF judgeVars, LoopInv
  <2> QED
    BY <1>6, <2>4, <2>5 DEF judgeVars, JudgeInv
<1> QED
  BY <1>1, <1>2, <1>3, <1>4, <1>5, <1>6 DEF JudgeNext

-----------------------------------------------------------------------------
\* Judge (judge.go) keeps count as it goes: at every step the verdict so far is that of the
\* tests that are done.
THEOREM JudgeInvariant == JudgeSpec => []JudgeInv
<1> QED
  BY InvInit, InvStep, PTL DEF JudgeSpec

\* Judge keeps its types: the passed tests never outnumber the tests, and an answer is
\* one of the statuses that judge.go names, with one of the two totals.
THEOREM JudgeTypes == JudgeSpec => []JudgeTypeOK
<1>1. JudgeInv => JudgeTypeOK
  BY DEF JudgeInv
<1> QED
  BY <1>1, JudgeInvariant, PTL

\* Judge answers with the verdict of JudgeVerdict, for any number of tests: the status of
\* the first failed test and the number of passed ones, computed in one pass (judge.go:134).
THEOREM JudgeImplements == JudgeSpec => ImplementsVerdict
<1>1. JudgeInit => V!Init
  BY DEF JudgeInit, V!Init
<1>2. JudgeInv /\ [JudgeNext]_judgeVars => [V!Decide]_<<world, answer>>
  <2> SUFFICES ASSUME JudgeInv, [JudgeNext]_judgeVars PROVE [V!Decide]_<<world, answer>>
    OBVIOUS
  <2>1. JudgeInv'
    BY InvStep
  <2>2. UNCHANGED world
    BY DEF JudgeNext, judgeVars, WriteSource, CompileUser, CompileChecker, RunUser, RunChecker, Finish
  <2>3. V!Verdict(world)' = V!Verdict(world)
    BY <2>2, Zenon
  <2>4. CASE stage = "done"
    BY <2>4, <2>2 DEF JudgeNext, judgeVars, WriteSource, CompileUser, CompileChecker, RunUser,
                      RunChecker, Finish
  <2>5. CASE stage # "done" /\ stage' = "done"
    BY <2>1, <2>2, <2>3, <2>5 DEF JudgeInv, AnswerInv, V!Decide
  <2>6. CASE stage # "done" /\ stage' # "done"
    BY <2>1, <2>2, <2>6 DEF JudgeInv, AnswerInv, V!Pending
  <2> QED
    BY <2>4, <2>5, <2>6
<1> QED
  BY <1>1, <1>2, JudgeInvariant, PTL DEF JudgeSpec, ImplementsVerdict, V!Spec

\* A non-empty set of tests has a first one, so FirstFailed is a failed test.
LEMMA FirstFailedFails ==
    ASSUME NEW w, N \in Nat, V!Failed(w) # {}
    PROVE  V!TestStatus(w, V!FirstFailed(w)) # "accepted"
<1> DEFINE R == {ss \in Nat \X Nat : ss[1] < ss[2]}
<1>1. IsWellFoundedOn(R, Nat)
  <2>1. R = OpToRel(<, Nat)
    BY DEF OpToRel
  <2> QED
    BY <2>1, NatLessThanWellFounded
<1>2. V!Failed(w) \subseteq Nat
  BY DEF V!Failed
<1>3. PICK k \in V!Failed(w) : \A j \in V!Failed(w) : <<j, k>> \notin R
  <2> HIDE DEF R
  <2> QED
    BY <1>1, <1>2, WFMin, Zenon
<1>4. \A j \in V!Failed(w) : k <= j
  <2> SUFFICES ASSUME NEW j \in V!Failed(w) PROVE k <= j
    OBVIOUS
  <2>1. j \in Nat /\ k \in Nat /\ <<j, k>> \notin R
    BY <1>2, <1>3
  <2> QED
    BY <2>1
<1>5. V!FirstFailed(w) \in V!Failed(w)
  BY <1>3, <1>4, Zenon DEF V!FirstFailed
<1> QED
  BY <1>5 DEF V!Failed, V!Passed

\* A submission is accepted exactly when it passed all its tests, and then the program
\* and the checker ended well on each of them: what ContestSubmit relies on.
THEOREM JudgeAccepts == JudgeSpec => []AcceptedIsChecked
<1>1. JudgeInv => AcceptedIsChecked
  <2> SUFFICES ASSUME JudgeInv, answer # V!Pending PROVE AcceptedIsChecked
    BY DEF AcceptedIsChecked
  <2>1. answer = V!Verdict(world) /\ world \in V!Worlds /\ N \in Nat
    BY JudgeAssumption DEF JudgeInv, AnswerInv, JudgeTypeOK
  <2>2. /\ world.files \in {"ok", "nodir", "nosource", "nochecker"}
        /\ world.userCompiles \in BOOLEAN /\ world.checkerCompiles \in BOOLEAN
    BY <2>1, WorldFields
  <2> DEFINE Fine == world.files = "ok" /\ world.userCompiles /\ world.checkerCompiles
  <2>3. CASE ~Fine
    <3>1. answer.status # "accepted"
      BY <2>1, <2>2, <2>3 DEF V!Verdict, V!Broken
    <3> QED
      BY <2>3, <3>1 DEF AcceptedIsChecked
  <2>4. CASE Fine
    <3>1. /\ answer.passed = Cardinality(V!Passed(world)) /\ answer.total = N
          /\ answer.status = IF V!Failed(world) = {} THEN "accepted"
                             ELSE V!TestStatus(world, V!FirstFailed(world))
      BY <2>1, <2>4, VerdictOfTests DEF V!Broken
    <3>2. CASE V!Failed(world) = {}
      <4>1. V!Passed(world) = 1..N
        BY <3>2 DEF V!Failed, V!Passed
      <4>2. Cardinality(1..N) = N
        BY <2>1, FS_Interval
      <4>3. \A k \in 1..N : V!TestStatus(world, k) = "accepted"
        BY <4>1 DEF V!Passed
      <4>4. \A k \in 1..N : world.runs[k] = "success" /\ world.checks[k].status = "success"
        BY <4>3, <2>1, WorldFields DEF V!TestStatus, V!RunStatuses
      <4> QED
        BY <2>4, <3>1, <3>2, <4>1, <4>2, <4>4 DEF AcceptedIsChecked
    <3>3. CASE V!Failed(world) # {}
      <4>1. V!Passed(world) \in SUBSET (1..N) /\ V!Passed(world) # 1..N
        BY <3>3 DEF V!Failed, V!Passed
      <4>2. IsFiniteSet(1..N) /\ Cardinality(1..N) = N
        BY <2>1, FS_Interval
      <4>3. Cardinality(V!Passed(world)) # N
        BY <4>1, <4>2, FS_Subset
      <4>4. answer.status # "accepted"
        BY <2>1, <3>1, <3>3, FirstFailedFails
      <4> QED
        BY <3>1, <4>3, <4>4 DEF AcceptedIsChecked
    <3> QED
      BY <3>2, <3>3
  <2> QED
    BY <2>3, <2>4
<1> QED
  BY <1>1, JudgeInvariant, PTL
=============================================================================
