---------------------------- MODULE AuthoringProofs ----------------------------
(* Proofs about Authoring: whatever the authors of components and tests and the *)
(* users do, the problem and its revisions behave as ProblemRevisions says.     *)
EXTENDS Authoring, FiniteSetTheorems, TLAPS

Sources == Codes \cup {NoCode}
Components == {Nil, Gone} \cup [source : Sources, active : BOOLEAN]
ComponentTable == [Kinds -> [Ids -> Components]]
TaskRows ==
    [pc : {"idle", "insert", "activate"}, kind : Kinds \cup {Nil}, id : Ids \cup {Nil},
     source : Sources \cup {Nil}, first : BOOLEAN, found : SUBSET Ids, raced : BOOLEAN]

\* The active checkers are sources: what a call is about to insert or activate is one.
ComponentsInv ==
    /\ component \in ComponentTable
    /\ task \in [Workers -> TaskRows]
    /\ \A k \in Workers : task[k].pc = "insert" => task[k].source \in Sources

LEMMA FreeRow == C!Free \in TaskRows /\ C!Free.pc = "idle"
BY DEF C!Free, TaskRows

CheckersFit == component \in ComponentTable => C!ActiveSources("checkers") \subseteq Sources

LEMMA CheckersAreSources == CheckersFit
<1> SUFFICES ASSUME component \in ComponentTable
             PROVE  C!ActiveSources("checkers") \subseteq Sources
  BY DEF CheckersFit
<1>1. "checkers" \in Kinds
  BY AuthoringAssumption
<1>2. \A i \in Ids : C!IsRow(component["checkers"][i]) => component["checkers"][i].source \in Sources
  <2> SUFFICES ASSUME NEW i \in Ids, C!IsRow(component["checkers"][i])
               PROVE  component["checkers"][i].source \in Sources
    OBVIOUS
  <2>1. component["checkers"][i] \in Components
    BY <1>1 DEF ComponentTable
  <2>2. component["checkers"][i] \in [source : Sources, active : BOOLEAN]
    BY <2>1 DEF C!IsRow, Components
  <2> QED
    BY <2>2
<1> QED
  BY <1>2 DEF C!ActiveSources, C!SourcesOf, C!ActiveOf, C!Present

\* The calls in progress after an insert.
LEMMA RacedRows ==
    ASSUME ComponentsInv, NEW kind
    PROVE  /\ C!Raced(kind) \in [Workers -> TaskRows]
           /\ \A k \in Workers : C!Raced(kind)[k].pc = "insert" => C!Raced(kind)[k].source \in Sources
<1>1. ASSUME NEW k \in Workers
      PROVE  /\ C!Raced(kind)[k] \in TaskRows
             /\ C!Raced(kind)[k].pc = task[k].pc /\ C!Raced(kind)[k].source = task[k].source
  <2>1. C!Raced(kind)[k] = [task[k] EXCEPT !.raced = @ \/ task[k].kind = kind]
    BY <1>1 DEF C!Raced
  <2>2. task[k] \in TaskRows
    BY DEF ComponentsInv
  <2> QED
    BY <2>1, <2>2 DEF TaskRows
<1>2. C!Raced(kind) = [k \in Workers |-> C!Raced(kind)[k]]
  BY DEF C!Raced
<1> QED
  BY <1>1, <1>2 DEF ComponentsInv

LEMMA TaskEnds ==
    ASSUME ComponentsInv, NEW k \in Workers, component' \in ComponentTable,
           \/ task' = [task EXCEPT ![k] = C!Free]
           \/ \E kind : task' = [C!Raced(kind) EXCEPT ![k] = C!Free]
           \/ \E kind : task' = C!Raced(kind)
           \/ task' = task
    PROVE  ComponentsInv'
BY RacedRows, FreeRow DEF ComponentsInv

LEMMA ComponentsStepKeeps ==
    ASSUME ComponentsInv, NEW k \in Workers, C!Step(k) \/ C!Begin(k)
    PROVE  ComponentsInv'
<1>1. CASE C!Quit(k)
  BY <1>1, TaskEnds DEF C!Quit, C!Done, C!Unchanged, ComponentsInv
<1>2. CASE C!InsertGenerator(k)
  <2>1. PICK i \in Ids : component' = [component EXCEPT !["generators"][i] =
                             [source |-> task[k].source, active |-> task[k].first]]
    BY <1>2 DEF C!InsertGenerator
  <2>2. [source |-> task[k].source, active |-> task[k].first] \in Components
    <3>1. task[k] \in TaskRows /\ task[k].source \in Sources
      BY <1>2 DEF ComponentsInv, C!InsertGenerator
    <3>2. task[k].first \in BOOLEAN
      BY <3>1 DEF TaskRows
    <3> QED
      BY <3>1, <3>2 DEF Components
  <2>3. component' \in ComponentTable
    BY <2>1, <2>2 DEF ComponentsInv, ComponentTable
  <2> QED
    BY <1>2, <2>3, TaskEnds DEF C!InsertGenerator
<1>3. CASE C!Activate(k)
  <2> DEFINE kind == task[k].kind
  <2> DEFINE row(i) == IF i \in C!Present(kind) /\ i \in C!Deactivated(k) \cup {task[k].id}
                       THEN [component[kind][i] EXCEPT !.active = i = task[k].id]
                       ELSE component[kind][i]
  <2>1. component' = [component EXCEPT ![kind] = [i \in Ids |-> row(i)]]
    BY <1>3 DEF C!Activate
  <2>2. ASSUME kind \in Kinds, NEW i \in Ids PROVE row(i) \in Components
    <3>1. component[kind][i] \in Components
      BY <2>2 DEF ComponentsInv, ComponentTable
    <3>2. i \in C!Present(kind) => component[kind][i] \in [source : Sources, active : BOOLEAN]
      BY <3>1 DEF C!Present, C!IsRow, Components
    <3>3. (i = task[k].id) \in BOOLEAN
      OBVIOUS
    <3>4. i \in C!Present(kind) =>
            [component[kind][i] EXCEPT !.active = i = task[k].id] \in [source : Sources, active : BOOLEAN]
      BY <3>2, <3>3
    <3> QED
      BY <3>1, <3>4 DEF Components
  <2> HIDE DEF row
  <2>3. component' \in ComponentTable
    BY <2>1, <2>2 DEF ComponentsInv, ComponentTable
  <2> QED
    BY <1>3, <2>3, TaskEnds DEF C!Activate, C!Done
<1>4. ASSUME NEW source \in Sources, C!CountGenerators(k, source) PROVE ComponentsInv'
  <2>1. PICK failed \in BOOLEAN :
          task' = [task EXCEPT ![k] = [C!Free EXCEPT !.pc = "insert", !.kind = "generators",
                      !.source = source, !.raced = failed,
                      !.first = C!First(IF failed THEN {} ELSE C!Present("generators"))]]
    BY <1>4 DEF C!CountGenerators
  <2> DEFINE first == C!First(IF failed THEN {} ELSE C!Present("generators"))
  <2> DEFINE t == [C!Free EXCEPT !.pc = "insert", !.kind = "generators", !.source = source,
                                 !.raced = failed, !.first = first]
  <2>2. first \in BOOLEAN /\ "generators" \in Kinds
    BY AuthoringAssumption DEF C!First
  <2>3. task' = [task EXCEPT ![k] = t]
    BY <2>1
  <2> HIDE DEF first
  <2>4. t \in TaskRows /\ t.source \in Sources
    BY <2>2, FreeRow DEF TaskRows
  <2> HIDE DEF t
  <2> QED
    BY <1>4, <2>3, <2>4 DEF C!CountGenerators, C!Unchanged, ComponentsInv
<1>5. ASSUME NEW kind \in Kinds, C!FindAll(k, kind) PROVE ComponentsInv'
  <2>1. PICK i \in Ids : task' = [task EXCEPT ![k] = [C!Free EXCEPT !.pc = "activate", !.kind = kind,
                                      !.id = i, !.found = C!Present(kind)]]
    BY <1>5 DEF C!FindAll
  <2> DEFINE t == [C!Free EXCEPT !.pc = "activate", !.kind = kind, !.id = i, !.found = C!Present(kind)]
  <2>2. C!Present(kind) \subseteq Ids
    BY DEF C!Present
  <2>3. t \in TaskRows /\ t.pc = "activate"
    BY <2>2, FreeRow DEF TaskRows
  <2>4. task' = [task EXCEPT ![k] = t]
    BY <2>1
  <2> HIDE DEF t
  <2> QED
    BY <1>5, <2>3, <2>4 DEF C!FindAll, C!Unchanged, ComponentsInv
<1> QED
  BY <1>1, <1>2, <1>3, <1>4, <1>5 DEF C!Step, C!Begin, Sources

LEMMA ComponentsEditKeeps == ASSUME ComponentsInv, C!Edit PROVE ComponentsInv'
<1>1. ASSUME NEW kind \in Kinds, NEW source \in Sources, C!Insert(kind, source) PROVE ComponentsInv'
  <2>1. PICK i \in Ids : component' = [component EXCEPT ![kind][i] = [source |-> source, active |-> FALSE]]
    BY <1>1 DEF C!Insert
  <2>2. component' \in ComponentTable
    BY <2>1 DEF ComponentsInv, ComponentTable, Components
  <2> QED
    BY <1>1, <2>2, RacedRows DEF C!Insert, ComponentsInv
<1>2. ASSUME NEW kind \in Kinds, NEW source \in Sources, C!Change(kind, source) PROVE ComponentsInv'
  <2>1. PICK i \in C!Present(kind) : component' = [component EXCEPT ![kind][i].source = source]
    BY <1>2 DEF C!Change
  <2>2. i \in Ids /\ component[kind][i] \in [source : Sources, active : BOOLEAN]
    BY DEF C!Present, C!IsRow, ComponentsInv, ComponentTable, Components
  <2>3. [component[kind][i] EXCEPT !.source = source] \in Components
    BY <2>2 DEF Components
  <2>4. component' = [component EXCEPT ![kind] = [component[kind] EXCEPT ![i] =
                         [component[kind][i] EXCEPT !.source = source]]]
    BY <2>1
  <2>5. component' \in ComponentTable
    BY <2>2, <2>3, <2>4 DEF ComponentsInv, ComponentTable
  <2> QED
    BY <1>2, <2>5 DEF C!Change, ComponentsInv
<1>3. ASSUME NEW kind \in Kinds, C!Remove(kind) PROVE ComponentsInv'
  <2>1. PICK i \in C!Present(kind) : component' = [component EXCEPT ![kind][i] = Gone]
    BY <1>3 DEF C!Remove
  <2>2. component' \in ComponentTable
    BY <2>1 DEF ComponentsInv, ComponentTable, Components
  <2> QED
    BY <1>3, <2>2 DEF C!Remove, ComponentsInv
<1> QED
  BY <1>1, <1>2, <1>3 DEF C!Edit, Sources

LEMMA ComponentsInitInv == Init => ComponentsInv
BY FreeRow DEF Init, C!Init, ComponentsInv, ComponentTable, Components

LEMMA ComponentsStay == ASSUME ComponentsInv, UNCHANGED componentVars PROVE ComponentsInv'
BY DEF ComponentsInv, componentVars

LEMMA WipeKeeps == ASSUME ComponentsInv, C!Wipe, UNCHANGED task PROVE ComponentsInv'
BY DEF ComponentsInv, C!Wipe, ComponentTable, Components

LEMMA PrepareKeeps ==
    ASSUME ComponentsInv, NEW kinds \in Prepared, NEW source \in Codes, Prepare(kinds, source)
    PROVE  ComponentsInv'
<1>1. PICK i \in Ids :
        component' = [q \in Kinds |-> IF q \notin kinds THEN component[q]
            ELSE [component[q] EXCEPT ![i] = [source |-> source, active |-> TRUE]]]
  BY DEF Prepare
<1>2. [source |-> source, active |-> TRUE] \in Components
  BY DEF Components, Sources
<1>3. component' \in ComponentTable
  BY <1>1, <1>2 DEF ComponentsInv, ComponentTable
<1> QED
  BY <1>3 DEF ComponentsInv, Prepare

LEMMA ComponentsNextKeeps == ASSUME ComponentsInv, [Next]_vars PROVE ComponentsInv'
<1>1. CASE UNCHANGED componentVars
  BY <1>1, ComponentsStay
<1>2. CASE ComponentStep
  BY <1>2, ComponentsStepKeeps, ComponentsEditKeeps DEF ComponentStep
<1>3. CASE DeleteProblem
  BY <1>3, WipeKeeps DEF DeleteProblem
<1> QED
  BY <1>1, <1>2, <1>3, PrepareKeeps
     DEF Next, vars, CreateProblem, CreateQuestion, RevisionStep, TestStep, UserStep

-----------------------------------------------------------------------------
\* What a step of the whole is for the problem and its revisions.
LEMMA CheckersNext == CheckersFit'
BY CheckersAreSources, PTL

LEMMA OthersStep ==
    ASSUME ComponentsInv, [Next]_vars, UNCHANGED revisionVars
    PROVE  R!Environment
<1>1. C!ActiveSources("checkers")' \subseteq Sources
  BY ComponentsNextKeeps, CheckersNext DEF ComponentsInv, CheckersFit
<1> QED
  BY <1>1 DEF R!Environment, R!Checkers, revisionVars, Sources

LEMMA NextIsRevisionsNext == ASSUME ComponentsInv, [Next]_vars PROVE [R!Next]_(R!vars)
<1>1. CASE UNCHANGED revisionVars
  BY <1>1, OthersStep DEF R!Next
<1>2. ASSUME NEW content \in Drafts, NEW type \in R!Types, CreateProblem(content, type)
      PROVE  R!Next
  BY <1>2, AuthoringAssumption DEF CreateProblem, R!Next
<1>3. ASSUME NEW content \in Drafts, CreateQuestion(content) PROVE R!Next
  BY <1>3, AuthoringAssumption DEF CreateQuestion, R!Next, R!Types
<1>4. CASE DeleteProblem
  BY <1>4 DEF DeleteProblem, R!Next
<1>5. CASE RevisionStep
  BY <1>5 DEF RevisionStep, R!Next
<1>6. ASSUME NEW kinds \in Prepared, NEW source \in Codes, Prepare(kinds, source)
      PROVE  UNCHANGED revisionVars
  BY <1>6 DEF Prepare
<1> QED
  BY <1>1, <1>2, <1>3, <1>4, <1>5, <1>6 DEF Next, vars, ComponentStep, TestStep, UserStep

\* The problem as a whole implements ProblemRevisions: what is edited elsewhere is a change of
\* the active checkers or nothing.
THEOREM AuthoringIsRevisions == Spec => R!Spec
<1>1. Init => R!Init
  BY DEF Init
<1>2. ComponentsInv /\ [Next]_vars => ComponentsInv' /\ [R!Next]_(R!vars)
  BY ComponentsNextKeeps, NextIsRevisionsNext
<1> QED
  BY <1>1, <1>2, ComponentsInitInv, PTL DEF Spec, R!Spec

-----------------------------------------------------------------------------
\* What a call on a component that was not overlapped knows: a creation that found no generator
\* will be the first one, an activation has found all the others.
CallSound(k) ==
    /\ task[k].pc # "idle" => task[k].kind \in Kinds
    /\ task[k].pc = "insert" => task[k].kind = "generators"
    /\ task[k].raced = FALSE =>
          /\ task[k].pc = "insert" /\ task[k].first = TRUE => C!Present("generators") = {}
          /\ task[k].pc = "activate" => C!Present(task[k].kind) \subseteq task[k].found

CallsSound == \A k \in Workers : CallSound(k)


LEMMA FreeIsSound == C!Free.pc = "idle" /\ C!Free.raced = FALSE
BY DEF C!Free

\* A call that goes on, with its overlap recorded if a component of its kind was added.
LEMMA CallGoesOn ==
    ASSUME NEW k \in Workers, CallSound(k), task[k] \in TaskRows, task'[k] \in TaskRows,
           task'[k].pc = task[k].pc, task'[k].kind = task[k].kind, task'[k].first = task[k].first,
           task'[k].found = task[k].found,
           task'[k].raced = FALSE =>
              task[k].raced = FALSE /\ C!Present(task[k].kind)' \subseteq C!Present(task[k].kind)
    PROVE  CallSound(k)'
BY DEF CallSound

LEMMA CallsGoOn ==
    ASSUME CallsSound, ComponentsInv, UNCHANGED task,
           \A kind \in Kinds : C!Present(kind)' \subseteq C!Present(kind)
    PROVE  CallsSound'
<1> SUFFICES ASSUME NEW k \in Workers PROVE CallSound(k)'
  BY DEF CallsSound
<1>1. task[k] \in TaskRows /\ CallSound(k)
  BY DEF ComponentsInv, CallsSound
<1>2. CASE task[k].kind \in Kinds
  BY <1>1, <1>2, CallGoesOn
<1>3. CASE task[k].kind \notin Kinds
  BY <1>1, <1>3 DEF CallSound
<1> QED
  BY <1>2, <1>3

\* A call that starts, goes on or ends, while no component is added.
LEMMA OneCallGoes ==
    ASSUME CallsSound, ComponentsInv, NEW k \in Workers, NEW t \in TaskRows,
           task' = [task EXCEPT ![k] = t], task'[k] = t => CallSound(k)',
           \A kind \in Kinds : C!Present(kind)' \subseteq C!Present(kind)
    PROVE  CallsSound'
<1>1. task'[k] = t /\ \A j \in Workers \ {k} : task'[j] = task[j] /\ task[j] \in TaskRows
  BY DEF ComponentsInv
<1>2. ASSUME NEW j \in Workers, j # k PROVE CallSound(j)'
  <2>1. task'[j] = task[j] /\ task[j] \in TaskRows /\ CallSound(j)
    BY <1>1, <1>2 DEF CallsSound
  <2>2. CASE task[j].kind \in Kinds
    BY <2>1, <2>2, CallGoesOn
  <2>3. CASE task[j].kind \notin Kinds
    BY <2>1, <2>3 DEF CallSound
  <2> QED
    BY <2>2, <2>3
<1> QED
  BY <1>1, <1>2 DEF CallsSound

\* A component of one kind is added: the calls on that kind are overlapped.
LEMMA OneIsAdded ==
    ASSUME CallsSound, ComponentsInv, NEW q \in Kinds, NEW j \in Workers,
           task' = C!Raced(q) \/ task' = [C!Raced(q) EXCEPT ![j] = C!Free],
           \A kind \in Kinds \ {q} : C!Present(kind)' \subseteq C!Present(kind)
    PROVE  CallsSound'
<1> SUFFICES ASSUME NEW k \in Workers PROVE CallSound(k)'
  BY DEF CallsSound
<1>1. task[k] \in TaskRows /\ CallSound(k)
  BY DEF ComponentsInv, CallsSound
<1> DEFINE t == C!Raced(q)[k]
<1>2. t = [task[k] EXCEPT !.raced = @ \/ task[k].kind = q]
  BY DEF C!Raced
<1>8. t \in TaskRows
  BY RacedRows
<1>3. /\ t.pc = task[k].pc /\ t.kind = task[k].kind /\ t.first = task[k].first
      /\ t.found = task[k].found
      /\ t.raced = FALSE => task[k].raced = FALSE /\ task[k].kind # q
  BY <1>1, <1>2 DEF TaskRows
<1>4. task'[k] = t \/ task'[k] = C!Free
  BY RacedRows
<1> HIDE DEF t
<1>5. CASE task'[k] = C!Free
  BY <1>5, FreeIsSound DEF CallSound
<1>6. CASE task'[k] = t /\ task[k].kind \in Kinds
  BY <1>1, <1>3, <1>6, <1>8, CallGoesOn
<1>7. CASE task'[k] = t /\ task[k].kind \notin Kinds
  BY <1>1, <1>3, <1>7 DEF CallSound
<1> QED
  BY <1>4, <1>5, <1>6, <1>7

LEMMA CallsStepKeeps ==
    ASSUME CallsSound, ComponentsInv, NEW k \in Workers, C!Step(k) \/ C!Begin(k)
    PROVE  CallsSound'
<1>1. UNCHANGED component => \A kind \in Kinds : C!Present(kind)' \subseteq C!Present(kind)
  BY DEF C!Present
<1>2. task'[k] = C!Free => CallSound(k)'
  BY FreeIsSound DEF CallSound
<1>3. CASE C!Quit(k)
  BY <1>1, <1>2, <1>3, OneCallGoes, FreeRow DEF C!Quit, C!Done, C!Unchanged
<1>4. CASE C!InsertGenerator(k)
  <2>1. \A kind \in Kinds \ {"generators"} : C!Present(kind)' \subseteq C!Present(kind)
    BY <1>4 DEF C!InsertGenerator, C!Present, ComponentsInv, ComponentTable
  <2> QED
    BY <1>4, <2>1, OneIsAdded, AuthoringAssumption DEF C!InsertGenerator
<1>5. CASE C!Activate(k)
  <2>1. \A kind \in Kinds : C!Present(kind)' \subseteq C!Present(kind)
    BY <1>5 DEF C!Activate, C!Present, ComponentsInv, ComponentTable
  <2> QED
    BY <1>2, <1>5, <2>1, OneCallGoes, FreeRow DEF C!Activate, C!Done
<1>6. ASSUME NEW source \in Sources, C!CountGenerators(k, source) PROVE CallsSound'
  <2>1. PICK failed \in BOOLEAN :
          task' = [task EXCEPT ![k] = [C!Free EXCEPT !.pc = "insert", !.kind = "generators",
                      !.source = source, !.raced = failed,
                      !.first = C!First(IF failed THEN {} ELSE C!Present("generators"))]]
    BY <1>6 DEF C!CountGenerators
  <2> DEFINE first == C!First(IF failed THEN {} ELSE C!Present("generators"))
             t == [C!Free EXCEPT !.pc = "insert", !.kind = "generators", !.source = source,
                                 !.raced = failed, !.first = first]
  <2>2. first \in BOOLEAN /\ "generators" \in Kinds
    BY AuthoringAssumption DEF C!First
  <2>3. task' = [task EXCEPT ![k] = t]
    BY <2>1
  <2>4. first = TRUE /\ failed = FALSE => C!Present("generators") = {}
    BY DEF C!First
  <2> HIDE DEF first
  <2>5. t \in TaskRows /\ t.pc = "insert" /\ t.kind = "generators"
    BY <2>2, FreeRow DEF TaskRows
  <2>6. t.first = first /\ t.raced = failed
    BY FreeRow DEF TaskRows
  <2> HIDE DEF t
  <2>7. C!Present("generators")' = C!Present("generators") /\ UNCHANGED component
    BY <1>6 DEF C!CountGenerators, C!Unchanged, C!Present
  <2>8. ASSUME task'[k] = t PROVE CallSound(k)'
    BY <2>2, <2>4, <2>5, <2>6, <2>7, <2>8 DEF CallSound
  <2> QED
    BY <1>1, <2>3, <2>5, <2>7, <2>8, OneCallGoes
<1>7. ASSUME NEW kind \in Kinds, C!FindAll(k, kind) PROVE CallsSound'
  <2>1. PICK i \in Ids : task' = [task EXCEPT ![k] = [C!Free EXCEPT !.pc = "activate", !.kind = kind,
                                      !.id = i, !.found = C!Present(kind)]]
    BY <1>7 DEF C!FindAll
  <2> DEFINE t == [C!Free EXCEPT !.pc = "activate", !.kind = kind, !.id = i, !.found = C!Present(kind)]
  <2>2. C!Present(kind) \subseteq Ids
    BY DEF C!Present
  <2>3. t \in TaskRows /\ t.pc = "activate" /\ t.kind = kind /\ t.found = C!Present(kind)
    BY <2>2, FreeRow DEF TaskRows
  <2>4. task' = [task EXCEPT ![k] = t]
    BY <2>1
  <2> HIDE DEF t
  <2>5. C!Present(kind)' = C!Present(kind) /\ UNCHANGED component
    BY <1>7 DEF C!FindAll, C!Unchanged, C!Present
  <2>6. ASSUME task'[k] = t PROVE CallSound(k)'
    BY <2>3, <2>5, <2>6 DEF CallSound
  <2> QED
    BY <1>1, <2>3, <2>4, <2>5, <2>6, OneCallGoes
<1> QED
  BY <1>3, <1>4, <1>5, <1>6, <1>7 DEF C!Step, C!Begin, Sources

LEMMA CallsEditKeeps == ASSUME CallsSound, ComponentsInv, C!Edit PROVE CallsSound'
<1>1. ASSUME NEW kind \in Kinds, NEW source \in Sources, C!Insert(kind, source) PROVE CallsSound'
  <2>1. \A q \in Kinds \ {kind} : C!Present(q)' \subseteq C!Present(q)
    BY <1>1 DEF C!Insert, C!Present, ComponentsInv, ComponentTable
  <2>2. CASE Workers = {}
    BY <2>2 DEF CallsSound
  <2> QED
    BY <1>1, <2>1, <2>2, OneIsAdded DEF C!Insert
<1>2. ASSUME NEW kind \in Kinds, NEW source \in Sources, C!Change(kind, source) PROVE CallsSound'
  <2>1. \A q \in Kinds : C!Present(q)' \subseteq C!Present(q)
    BY <1>2 DEF C!Change, C!Present, ComponentsInv, ComponentTable
  <2> QED
    BY <1>2, <2>1, CallsGoOn DEF C!Change
<1>3. ASSUME NEW kind \in Kinds, C!Remove(kind) PROVE CallsSound'
  <2>1. \A q \in Kinds : C!Present(q)' \subseteq C!Present(q)
    BY <1>3 DEF C!Remove, C!Present, C!IsRow, ComponentsInv, ComponentTable
  <2> QED
    BY <1>3, <2>1, CallsGoOn DEF C!Remove
<1> QED
  BY <1>1, <1>2, <1>3 DEF C!Edit, Sources

LEMMA CallsNextKeeps == ASSUME CallsSound, ComponentsInv, [Next]_vars PROVE CallsSound'
<1>1. CASE UNCHANGED componentVars
  <2>1. \A q \in Kinds : C!Present(q)' \subseteq C!Present(q)
    BY <1>1 DEF C!Present, componentVars
  <2> QED
    BY <1>1, <2>1, CallsGoOn DEF componentVars
<1>2. CASE ComponentStep
  BY <1>2, CallsStepKeeps, CallsEditKeeps DEF ComponentStep
<1>3. CASE DeleteProblem
  <2>1. \A q \in Kinds : C!Present(q)' \subseteq C!Present(q)
    BY <1>3 DEF DeleteProblem, C!Wipe, C!Present, C!IsRow
  <2> QED
    BY <1>3, <2>1, CallsGoOn DEF DeleteProblem
<1>4. ASSUME NEW kinds \in Prepared, NEW source \in Codes, Prepare(kinds, source) PROVE CallsSound'
  <2>1. \A k \in Workers : task'[k] = C!Free
    BY <1>4 DEF Prepare, Busy
  <2> QED
    BY <2>1, FreeIsSound DEF CallsSound, CallSound
<1> QED
  BY <1>1, <1>2, <1>3, <1>4
     DEF Next, vars, CreateProblem, CreateQuestion, RevisionStep, TestStep, UserStep

LEMMA CallsInit == Init => CallsSound
BY FreeIsSound DEF Init, C!Init, CallsSound, CallSound

-----------------------------------------------------------------------------
Overlapped(kind) == \E k \in Workers : task[k].kind = kind /\ task[k].raced /\ task'[k] = C!Free

\* No component becomes active, or one replaces the others, or the call was overlapped.
ActiveStep(kind) ==
    \/ C!ActiveOf(kind)' \subseteq C!ActiveOf(kind)
    \/ \E i \in Ids : C!ActiveOf(kind)' \subseteq {i}
    \/ Overlapped(kind)

LEMMA OneStaysOne ==
    ASSUME NEW kind, ActiveStep(kind), Cardinality(C!ActiveOf(kind)) <= 1, ~Overlapped(kind)
    PROVE  ~(Cardinality(C!ActiveOf(kind)') > 1)
<1>1. IsFiniteSet(C!ActiveOf(kind)) /\ Cardinality(C!ActiveOf(kind)) \in Nat
  <2>1. IsFiniteSet(Ids) /\ C!ActiveOf(kind) \subseteq Ids
    BY AuthoringAssumption DEF C!ActiveOf, C!Present
  <2> QED
    BY <2>1, FS_Subset, FS_CardinalityType
<1>2. CASE C!ActiveOf(kind)' \subseteq C!ActiveOf(kind)
  <2>1. Cardinality(C!ActiveOf(kind)') <= Cardinality(C!ActiveOf(kind))
        /\ Cardinality(C!ActiveOf(kind)') \in Nat
    BY <1>1, <1>2, FS_Subset, FS_CardinalityType
  <2> QED
    BY <1>1, <2>1
<1>3. ASSUME NEW i \in Ids, C!ActiveOf(kind)' \subseteq {i} PROVE ~(Cardinality(C!ActiveOf(kind)') > 1)
  <2>1. IsFiniteSet({i}) /\ Cardinality({i}) = 1
    BY FS_Singleton
  <2>2. Cardinality(C!ActiveOf(kind)') <= 1 /\ Cardinality(C!ActiveOf(kind)') \in Nat
    BY <1>3, <2>1, FS_Subset, FS_CardinalityType
  <2> QED
    BY <2>2
<1> QED
  BY <1>2, <1>3 DEF ActiveStep

LEMMA RowsAreRecords ==
    ASSUME ComponentsInv, NEW kind \in Kinds, NEW i \in C!Present(kind)
    PROVE  i \in Ids /\ component[kind][i] \in [source : Sources, active : BOOLEAN]
BY DEF ComponentsInv, ComponentTable, Components, C!Present, C!IsRow

\* An activation that nothing overlapped leaves its own component active and no other.
LEMMA ActivationLeavesOne ==
    ASSUME CallsSound, ComponentsInv, NEW k \in Workers, NEW kind \in Kinds, C!Activate(k),
           task[k].kind = kind, task[k].raced = FALSE
    PROVE  C!ActiveOf(kind)' \subseteq {task[k].id}
<1>1. C!Present(kind) \subseteq task[k].found
  BY DEF CallsSound, CallSound, C!Activate
<1>2. \A i \in C!Present(kind) :
         component'[kind][i] = [component[kind][i] EXCEPT !.active = i = task[k].id]
  BY <1>1 DEF C!Activate, C!Deactivated, C!Present, ComponentsInv, ComponentTable
<1>3. \A i \in Ids \ C!Present(kind) : component'[kind][i] = component[kind][i]
  BY DEF C!Activate, ComponentsInv, ComponentTable
<1>4. ASSUME NEW i \in C!Present(kind), i # task[k].id PROVE component'[kind][i].active = FALSE
  <2>1. (i = task[k].id) = FALSE
    BY <1>4
  <2>2. component'[kind][i] = [component[kind][i] EXCEPT !.active = FALSE]
    BY <1>2, <2>1
  <2> QED
    BY <2>2, RowsAreRecords
<1> QED
  BY <1>3, <1>4 DEF C!ActiveOf, C!Present

LEMMA StepIsActiveStep ==
    ASSUME CallsSound, ComponentsInv, [Next]_vars, NEW kind \in Kinds
    PROVE  ActiveStep(kind)
<1>1. CASE UNCHANGED component
  BY <1>1 DEF ActiveStep, C!ActiveOf, C!Present
<1>2. ASSUME NEW k \in Workers, C!InsertGenerator(k) PROVE ActiveStep(kind)
  <2>1. PICK i \in Ids : component' = [component EXCEPT !["generators"][i] =
                             [source |-> task[k].source, active |-> task[k].first]]
    BY <1>2 DEF C!InsertGenerator
  <2>2. /\ task[k].pc = "insert" /\ CallSound(k) /\ task[k] \in TaskRows
        /\ task'[k] = C!Free
    BY <1>2, RacedRows DEF C!InsertGenerator, CallsSound, ComponentsInv
  <2>3. \A j \in Ids \ {i} : component'[kind][j] = component[kind][j]
    BY <2>1 DEF ComponentsInv, ComponentTable
  <2>4. CASE kind # "generators"
    BY <2>1, <2>4 DEF ActiveStep, C!ActiveOf, C!Present, ComponentsInv, ComponentTable
  <2>5. CASE kind = "generators" /\ task[k].raced = TRUE
    BY <2>2, <2>5 DEF ActiveStep, Overlapped, CallSound
  <2>6. CASE kind = "generators" /\ task[k].raced = FALSE /\ task[k].first = TRUE
    <3>1. C!Present(kind) = {}
      BY <2>2, <2>6 DEF CallSound
    <3>2. C!ActiveOf(kind)' \subseteq {i}
      BY <2>3, <3>1 DEF C!ActiveOf, C!Present
    <3> QED
      BY <3>2 DEF ActiveStep
  <2>7. CASE kind = "generators" /\ task[k].first = FALSE
    <3>1. component'[kind][i].active = FALSE
      BY <2>1, <2>7 DEF ComponentsInv, ComponentTable
    <3>2. C!ActiveOf(kind)' \subseteq C!ActiveOf(kind)
      BY <2>3, <3>1 DEF C!ActiveOf, C!Present
    <3> QED
      BY <3>2 DEF ActiveStep
  <2> QED
    BY <2>2, <2>4, <2>5, <2>6, <2>7 DEF TaskRows
<1>3. ASSUME NEW k \in Workers, C!Activate(k) PROVE ActiveStep(kind)
  <2>1. CASE task[k].kind # kind
    <3>1. component'[kind] = component[kind]
      BY <1>3, <2>1 DEF C!Activate, ComponentsInv, ComponentTable
    <3> QED
      BY <3>1 DEF ActiveStep, C!ActiveOf, C!Present
  <2>2. CASE task[k].kind = kind /\ task[k].raced = TRUE
    BY <1>3, <2>2 DEF ActiveStep, Overlapped, C!Activate, C!Done, ComponentsInv
  <2>3. CASE task[k].kind = kind /\ task[k].raced = FALSE
    <3>5. C!ActiveOf(kind)' \subseteq {task[k].id}
      BY <1>3, <2>3, ActivationLeavesOne
    <3>6. task[k].id \notin Ids => C!ActiveOf(kind)' = {}
      BY <3>5 DEF C!ActiveOf, C!Present
    <3> QED
      BY <3>5, <3>6 DEF ActiveStep
  <2> QED
    BY <2>1, <2>2, <2>3 DEF ComponentsInv, TaskRows
<1>4. ASSUME NEW q \in Kinds, NEW source \in Sources, C!Insert(q, source) PROVE ActiveStep(kind)
  <2>1. PICK i \in Ids : component' = [component EXCEPT ![q][i] = [source |-> source, active |-> FALSE]]
    BY <1>4 DEF C!Insert
  <2>2. \A j \in Ids : component'[kind][j] = component[kind][j] \/ component'[kind][j].active = FALSE
    BY <2>1 DEF ComponentsInv, ComponentTable
  <2> QED
    BY <2>2 DEF ActiveStep, C!ActiveOf, C!Present
<1>5. ASSUME NEW q \in Kinds, NEW source \in Sources, C!Change(q, source) PROVE ActiveStep(kind)
  <2>1. PICK i \in C!Present(q) : component' = [component EXCEPT ![q][i].source = source]
    BY <1>5 DEF C!Change
  <2>2. \A j \in Ids : component'[kind][j] = component[kind][j] \/ (q = kind /\ j = i)
    BY <2>1 DEF ComponentsInv, ComponentTable
  <2>3. q = kind => component'[kind][i] = [component[kind][i] EXCEPT !.source = source]
    BY <2>1, RowsAreRecords DEF ComponentsInv, ComponentTable
  <2>4. q = kind => component'[kind][i].active = component[kind][i].active /\ i \in C!Present(kind)
    BY <2>3, RowsAreRecords
  <2>5. C!ActiveOf(kind)' \subseteq C!ActiveOf(kind)
    BY <2>2, <2>4 DEF C!ActiveOf, C!Present
  <2> QED
    BY <2>5 DEF ActiveStep
<1>6. ASSUME NEW q \in Kinds, C!Remove(q) PROVE ActiveStep(kind)
  <2>1. \A j \in Ids : component'[kind][j] = component[kind][j] \/ component'[kind][j] = Gone
    BY <1>6 DEF C!Remove, C!Present, ComponentsInv, ComponentTable
  <2> QED
    BY <2>1 DEF ActiveStep, C!ActiveOf, C!Present, C!IsRow
<1>7. CASE DeleteProblem
  BY <1>7 DEF DeleteProblem, C!Wipe, ActiveStep, C!ActiveOf, C!Present, C!IsRow
<1>8. ASSUME NEW kinds \in Prepared, NEW source \in Codes, Prepare(kinds, source) PROVE ActiveStep(kind)
  <2>1. PICK i \in Ids :
          component' = [q \in Kinds |-> IF q \notin kinds THEN component[q]
              ELSE [component[q] EXCEPT ![i] = [source |-> source, active |-> TRUE]]]
    BY <1>8 DEF Prepare
  <2>2. C!Present(kind) = {}
    BY <1>8 DEF Prepare
  <2>3. \A j \in Ids \ {i} : component'[kind][j] = component[kind][j]
    BY <2>1 DEF ComponentsInv, ComponentTable
  <2>4. C!ActiveOf(kind)' \subseteq {i}
    BY <2>2, <2>3 DEF C!ActiveOf, C!Present
  <2> QED
    BY <2>4 DEF ActiveStep
<1> QED
  BY <1>1, <1>2, <1>3, <1>4, <1>5, <1>6, <1>7, <1>8
     DEF Next, vars, componentVars, CreateProblem, CreateQuestion, RevisionStep, TestStep, UserStep,
         ComponentStep, C!Step, C!Begin, C!Edit, C!Quit, C!CountGenerators, C!FindAll, C!Unchanged,
         Sources

\* FiniteSets, as ProblemComponents sees it.
LEMMA SameCardinality == \A S : C!Cardinality(S) = Cardinality(S)
BY DEF C!Cardinality, Cardinality

\* Only an activation ends a call that was about to activate and changes a component.
LEMMA ActivationEnds ==
    ASSUME ComponentsInv, [Next]_vars, NEW k \in Workers,
           task[k].pc = "activate", task'[k] = C!Free, component' # component
    PROVE  C!Activate(k)
<1>1. task[k].pc # "idle" /\ task[k] # C!Free
  BY FreeIsSound
<1>2. ASSUME NEW q, task' = C!Raced(q) PROVE FALSE
  <2>1. task'[k] = [task[k] EXCEPT !.raced = @ \/ task[k].kind = q]
    BY <1>2 DEF C!Raced
  <2>2. task'[k].pc = task[k].pc
    BY <2>1 DEF ComponentsInv, TaskRows
  <2> QED
    BY <2>2, FreeIsSound
<1>3. CASE UNCHANGED component \/ UNCHANGED task
  BY <1>1, <1>3
<1>4. ASSUME NEW j \in Workers, C!InsertGenerator(j) PROVE FALSE
  <2>1. task[j].pc = "insert" /\ task' = [C!Raced("generators") EXCEPT ![j] = C!Free]
    BY <1>4 DEF C!InsertGenerator
  <2>2. task'[k] = C!Raced("generators")[k]
    BY <2>1, RacedRows
  <2>3. task'[k] = [task[k] EXCEPT !.raced = @ \/ task[k].kind = "generators"]
    BY <2>2 DEF C!Raced
  <2>4. task'[k].pc = task[k].pc
    BY <2>3 DEF ComponentsInv, TaskRows
  <2> QED
    BY <2>4, FreeIsSound
<1>5. ASSUME NEW j \in Workers, C!Activate(j), j # k PROVE FALSE
  BY <1>1, <1>5 DEF C!Activate, C!Done, ComponentsInv
<1>6. ASSUME C!Edit PROVE FALSE
  BY <1>1, <1>2, <1>6 DEF C!Edit, C!Insert, C!Change, C!Remove
<1>7. CASE ComponentStep
  BY <1>3, <1>4, <1>5, <1>6, <1>7
     DEF ComponentStep, C!Step, C!Begin, C!Quit, C!CountGenerators, C!FindAll, C!Unchanged
<1>8. CASE DeleteProblem
  BY <1>3, <1>8 DEF DeleteProblem
<1>9. ASSUME NEW kinds \in Prepared, NEW source \in Codes, Prepare(kinds, source) PROVE UNCHANGED task
  BY <1>9 DEF Prepare
<1> QED
  BY <1>3, <1>7, <1>8, <1>9
     DEF Next, vars, componentVars, CreateProblem, CreateQuestion, RevisionStep, TestStep, UserStep

\* "Deactivate all of this type ... Activate this one" (admin_components.go:582): a kind gets a
\* second active component only from a call that an insert of the kind overlapped.
THEOREM OneActiveComponentHolds == Spec => OneActiveComponent
<1> DEFINE A == \A kind \in Kinds :
         /\ C!Cardinality(C!ActiveOf(kind)) <= 1 /\ C!Cardinality(C!ActiveOf(kind)') > 1 =>
               \E k \in Workers : task[k].kind = kind /\ task[k].raced /\ task'[k] = C!Free
         /\ \A k \in Workers :
               task[k].pc = "activate" /\ task[k].kind = kind /\ task'[k] = C!Free /\ ~task[k].raced
               /\ component' # component => C!ActiveOf(kind)' \subseteq {task[k].id}
<1>1. CallsSound /\ ComponentsInv /\ [Next]_vars => A
  <2> SUFFICES ASSUME CallsSound, ComponentsInv, [Next]_vars, NEW kind \in Kinds
               PROVE  A!(kind)
    OBVIOUS
  <2>1. C!Cardinality(C!ActiveOf(kind)) <= 1 /\ C!Cardinality(C!ActiveOf(kind)') > 1 => Overlapped(kind)
    BY StepIsActiveStep, OneStaysOne, SameCardinality
  <2>2. ASSUME NEW k \in Workers, task[k].pc = "activate", task[k].kind = kind,
               task'[k] = C!Free, ~task[k].raced, component' # component
        PROVE  C!ActiveOf(kind)' \subseteq {task[k].id}
    <3>1. C!Activate(k)
      BY <2>2, ActivationEnds
    <3>2. task[k].raced = FALSE
      BY <2>2 DEF ComponentsInv, TaskRows
    <3> QED
      BY <2>2, <3>1, <3>2, ActivationLeavesOne
  <2> QED
    BY <2>1, <2>2 DEF Overlapped
<1>2. CallsSound /\ ComponentsInv /\ [Next]_vars => CallsSound' /\ ComponentsInv'
  BY CallsNextKeeps, ComponentsNextKeeps
<1>3. A => [A]_(C!vars)
  OBVIOUS
<1>4. (CallsSound /\ ComponentsInv /\ [Next]_vars => [A]_(C!vars))
  BY <1>1, <1>3
<1> QED
  BY <1>2, <1>4, CallsInit, ComponentsInitInv, PTL DEF Spec, OneActiveComponent, C!OneActiveComponent

-----------------------------------------------------------------------------
TestRows == [input : Inputs, output : Inputs \cup {Typed}, batch : Batches \cup {Nil}]
JobRows ==
    [pc : {"idle", "batch", "seed", "run", "mark", "write"},
     op : {Nil, "generate", "validate", "solve"}, test : Tests \cup {Nil},
     batch : Batches \cup {Nil}, input : Inputs \cup {Nil}, source : Sources \cup {Nil},
     seeds : 0..MaxSeeds, raced : BOOLEAN]

\* What a call on the tests that was not overlapped knows: the validator has accepted all of
\* them, the solution ran on the input that the test has.
JobSound(k) ==
    /\ job[k].pc = "seed" => job[k].seeds > 0
    /\ job[k].pc = "write" => job[k].input \in Inputs
    /\ job[k].raced = FALSE =>
          /\ T!At(k, "validate", "mark") =>
                \A t \in T!Present : tests[t].input \in Accepts[job[k].source]
          /\ T!At(k, "solve", "write") /\ job[k].test \in T!Present =>
                tests[job[k].test].input = job[k].input

TestTypes ==
    /\ tests \in [Tests -> {Nil, Gone} \cup TestRows]
    /\ batches \in [Batches -> {Nil, Gone, "new", "validated"}]
    /\ job \in [Workers -> JobRows]

TestsInv == TestTypes /\ \A k \in Workers : JobSound(k)

LEMMA FreeJob == T!Free \in JobRows /\ T!Free.pc = "idle"
BY AuthoringAssumption DEF T!Free, JobRows, T!TestsAssumption

LEMMA TestsInit == Init => TestsInv
BY FreeJob DEF Init, T!Init, TestsInv, TestTypes, JobSound, T!At

\* A test that is a row has the fields of one.
LEMMA TestFields == ASSUME TestTypes, NEW t \in T!Present PROVE t \in Tests /\ tests[t] \in TestRows
BY DEF TestTypes, T!Present, T!IsRow

\* The calls after a change of the tests S.
LEMMA RacedJobs ==
    ASSUME TestTypes, NEW S
    PROVE  /\ T!Raced(S) \in [Workers -> JobRows]
           /\ \A k \in Workers :
                /\ T!Raced(S)[k] = [job[k] EXCEPT !.raced = T!Raced(S)[k].raced]
                /\ T!Raced(S)[k].raced = FALSE =>
                      job[k].raced = FALSE /\ job[k].test \notin S /\ ~(job[k].op = "validate" /\ S # {})
<1> SUFFICES ASSUME NEW k \in Workers
             PROVE  /\ T!Raced(S)[k] \in JobRows
                    /\ T!Raced(S)[k] = [job[k] EXCEPT !.raced = T!Raced(S)[k].raced]
                    /\ T!Raced(S)[k].raced = FALSE =>
                          job[k].raced = FALSE /\ job[k].test \notin S
                          /\ ~(job[k].op = "validate" /\ S # {})
  BY DEF T!Raced
<1> DEFINE raced == job[k].raced \/ (job[k].op = "validate" /\ S # {}) \/ job[k].test \in S
<1>1. T!Raced(S)[k] = [job[k] EXCEPT !.raced = raced]
  BY DEF T!Raced
<1>2. job[k] \in JobRows
  BY DEF TestTypes
<1>3. /\ raced \in BOOLEAN
      /\ raced = FALSE => job[k].raced = FALSE /\ job[k].test \notin S
                          /\ ~(job[k].op = "validate" /\ S # {})
  BY <1>2 DEF JobRows
<1> HIDE DEF raced
<1>4. T!Raced(S)[k] \in JobRows /\ T!Raced(S)[k].raced = raced
  BY <1>1, <1>2, <1>3 DEF JobRows
<1> QED
  BY <1>1, <1>3, <1>4

\* A step that changes the inputs of no tests but S.
InputsKept(S) ==
    \A t \in Tests \ S : t \in T!Present' => t \in T!Present /\ tests'[t].input = tests[t].input

LEMMA JobStays ==
    ASSUME TestsInv, NEW k \in Workers, NEW S, InputsKept(S),
           job'[k] = T!Raced(S)[k] \/ (job'[k] = job[k] /\ S = {})
    PROVE  JobSound(k)'
<1>1. job[k] \in JobRows /\ JobSound(k)
  BY DEF TestsInv, TestTypes
<1>2. /\ job'[k] = [job[k] EXCEPT !.raced = job'[k].raced]
      /\ job'[k].raced = FALSE =>
            job[k].raced = FALSE /\ job[k].test \notin S /\ ~(job[k].op = "validate" /\ S # {})
  <2>1. CASE job'[k] = T!Raced(S)[k]
    <3>1. TestTypes
      BY DEF TestsInv
    <3>2. T!Raced(S)[k] = [job[k] EXCEPT !.raced = T!Raced(S)[k].raced]
      BY <3>1, RacedJobs
    <3>3. T!Raced(S)[k].raced = FALSE =>
            job[k].raced = FALSE /\ job[k].test \notin S /\ ~(job[k].op = "validate" /\ S # {})
      BY <3>1, RacedJobs
    <3> QED
      BY <2>1, <3>2, <3>3
  <2>2. CASE job'[k] = job[k] /\ S = {}
    <3>1. job[k] = [job[k] EXCEPT !.raced = job[k].raced]
      BY <1>1 DEF JobRows
    <3> QED
      BY <2>2, <3>1
  <2> QED
    BY <2>1, <2>2
<1>3. /\ job'[k].pc = job[k].pc /\ job'[k].op = job[k].op /\ job'[k].test = job[k].test
      /\ job'[k].input = job[k].input /\ job'[k].source = job[k].source
      /\ job'[k].seeds = job[k].seeds
  BY <1>1, <1>2 DEF JobRows
<1>4. T!Present' \subseteq Tests
  BY DEF T!Present
<1> QED
  BY <1>1, <1>2, <1>3, <1>4 DEF JobSound, InputsKept, T!At

LEMMA JobsStay ==
    ASSUME TestsInv, NEW S, InputsKept(S), TestTypes', job' = T!Raced(S) \/ (job' = job /\ S = {})
    PROVE  TestsInv'
BY JobStays DEF TestsInv

LEMMA OneJobGoes ==
    ASSUME TestsInv, NEW k \in Workers, NEW S, NEW j \in JobRows, InputsKept(S),
           job' = [T!Raced(S) EXCEPT ![k] = j] \/ (job' = [job EXCEPT ![k] = j] /\ S = {}),
           tests' \in [Tests -> {Nil, Gone} \cup TestRows],
           batches' \in [Batches -> {Nil, Gone, "new", "validated"}],
           job'[k] = j => JobSound(k)'
    PROVE  TestsInv'
<1>1. job \in [Workers -> JobRows] /\ T!Raced(S) \in [Workers -> JobRows]
  BY RacedJobs DEF TestsInv, TestTypes
<1>2. job' \in [Workers -> JobRows] /\ job'[k] = j
  BY <1>1
<1>3. \A i \in Workers \ {k} : JobSound(i)'
  BY <1>1, JobStays
<1> QED
  BY <1>2, <1>3 DEF TestsInv, TestTypes

-----------------------------------------------------------------------------
LEMMA SameTestsKept == UNCHANGED tests => InputsKept({})
BY DEF InputsKept, T!Present

ValidatorsFit == component \in ComponentTable => C!ActiveSources("validators") \subseteq Sources

LEMMA ValidatorsAreSources == ValidatorsFit
<1> SUFFICES ASSUME component \in ComponentTable
             PROVE  C!ActiveSources("validators") \subseteq Sources
  BY DEF ValidatorsFit
<1>1. "validators" \in Kinds
  BY AuthoringAssumption
<1>2. \A i \in C!Present("validators") : component["validators"][i].source \in Sources
  <2> SUFFICES ASSUME NEW i \in C!Present("validators")
               PROVE  component["validators"][i].source \in Sources
    OBVIOUS
  <2>1. component["validators"][i] \in [source : Sources, active : BOOLEAN]
    BY <1>1 DEF ComponentTable, Components, C!Present, C!IsRow
  <2> QED
    BY <2>1
<1> QED
  BY <1>2 DEF C!ActiveSources, C!SourcesOf, C!ActiveOf

\* Tests are added while the jobs are under way.
LEMMA AddKeeps == ASSUME TestsInv, T!AddTests, batches' = batches PROVE TestsInv'
<1>1. PICK S \in SUBSET {t \in Tests : tests[t] = Nil} : \E input \in [S -> Inputs] :
        /\ tests' = [t \in Tests |-> IF t \in S THEN T!Test(input[t], Typed, Nil) ELSE tests[t]]
        /\ job' = T!Raced(S)
  BY DEF T!AddTests
<1>2. PICK input \in [S -> Inputs] :
        tests' = [t \in Tests |-> IF t \in S THEN T!Test(input[t], Typed, Nil) ELSE tests[t]]
  BY <1>1
<1>3. \A t \in S : T!Test(input[t], Typed, Nil) \in TestRows
  BY <1>2 DEF T!Test, TestRows
<1>4. tests' \in [Tests -> {Nil, Gone} \cup TestRows]
  BY <1>2, <1>3 DEF TestsInv, TestTypes
<1>5. InputsKept(S)
  BY <1>2 DEF InputsKept, T!Present
<1>6. T!Raced(S) \in [Workers -> JobRows]
  BY RacedJobs DEF TestsInv
<1>7. job' = T!Raced(S)
  BY <1>1
<1>8. batches' \in [Batches -> {Nil, Gone, "new", "validated"}]
  BY DEF TestsInv, TestTypes
<1>9. TestTypes'
  BY <1>4, <1>6, <1>7, <1>8 DEF TestTypes
<1> QED
  BY <1>7, <1>5, <1>9, JobsStay

LEMMA UpdateKeeps ==
    ASSUME TestsInv, NEW t \in Tests, NEW input \in Inputs \cup {Nil}, NEW typed \in BOOLEAN,
           T!Update(t, input, typed)
    PROVE  TestsInv'
<1> DEFINE newInput == IF input = Nil THEN tests[t].input ELSE input
           newOutput == IF typed THEN Typed ELSE tests[t].output
           S == IF input = Nil THEN {} ELSE {t}
<1>1. t \in T!Present /\ tests[t] \in TestRows
  BY TestFields DEF T!Update, TestsInv
<1>2. tests' = [tests EXCEPT ![t] = [tests[t] EXCEPT !.input = newInput, !.output = newOutput]]
  BY <1>1 DEF T!Update, TestRows, TestsInv, TestTypes
<1>3. newInput \in Inputs /\ newOutput \in Inputs \cup {Typed}
  BY <1>1 DEF TestRows
<1>4. tests'[t] = [tests[t] EXCEPT !.input = newInput, !.output = newOutput]
  BY <1>2 DEF TestsInv, TestTypes
<1>5. tests'[t] \in TestRows /\ tests'[t].input = newInput
  BY <1>1, <1>3, <1>4 DEF TestRows
<1>6. \A q \in Tests \ {t} : tests'[q] = tests[q]
  BY <1>2 DEF TestsInv, TestTypes
<1>7. tests' \in [Tests -> {Nil, Gone} \cup TestRows]
  BY <1>2, <1>5, <1>6 DEF TestsInv, TestTypes
<1>8. job' = T!Raced(S) /\ batches' = batches
  BY DEF T!Update
<1>9. InputsKept(S)
  BY <1>1, <1>5, <1>6 DEF InputsKept, T!Present
<1>10. TestTypes'
  BY <1>7, <1>8, RacedJobs DEF TestsInv, TestTypes
<1> HIDE DEF S
<1> QED
  BY <1>8, <1>9, <1>10, JobsStay

LEMMA TestsGo ==
    ASSUME TestsInv, job' = job, batches' \in [Batches -> {Nil, Gone, "new", "validated"}],
           \A t \in Tests : tests'[t] = tests[t] \/ tests'[t] = Gone \/ tests'[t] = Nil,
           tests' = [t \in Tests |-> tests'[t]]
    PROVE  TestsInv'
<1>1. InputsKept({})
  BY DEF InputsKept, T!Present, T!IsRow
<1>2. tests' \in [Tests -> {Nil, Gone} \cup TestRows]
  BY DEF TestsInv, TestTypes
<1> QED
  BY <1>1, <1>2, JobsStay DEF TestsInv, TestTypes

LEMMA TestsEditKeeps == ASSUME TestsInv, T!Edit PROVE TestsInv'
<1>1. CASE T!Create
  BY <1>1, AddKeeps DEF T!Create
<1>2. CASE T!Remove
  BY <1>2, TestsGo DEF T!Remove, TestsInv, TestTypes
<1>3. CASE \E t \in Tests, input \in Inputs \cup {Nil}, typed \in BOOLEAN : T!Update(t, input, typed)
  BY <1>3, UpdateKeeps
<1> QED
  BY <1>1, <1>2, <1>3 DEF T!Edit

LEMMA TestsWiped == ASSUME TestsInv, T!Wipe, UNCHANGED job PROVE TestsInv'
BY TestsGo DEF T!Wipe, TestsInv, TestTypes

\* A call that changes neither tests nor batches.
LEMMA OnlyTheJob ==
    ASSUME TestsInv, NEW k \in Workers, NEW j \in JobRows, UNCHANGED <<tests, batches>>,
           job' = [job EXCEPT ![k] = j], job'[k] = j => JobSound(k)'
    PROVE  TestsInv'
BY SameTestsKept, OneJobGoes DEF TestsInv, TestTypes

LEMMA FreeIsSoundJob == ASSUME NEW k \in Workers, job'[k] = T!Free PROVE JobSound(k)'
BY FreeJob DEF JobSound, T!At

LEMMA TestsStepKeeps ==
    ASSUME TestsInv, ComponentsInv, NEW k \in Workers, T!Step(k) \/ T!Begin(k)
    PROVE  TestsInv'
<1>1. /\ job[k] \in JobRows /\ JobSound(k) /\ TestTypes
      /\ batches \in [Batches -> {Nil, Gone, "new", "validated"}]
  BY DEF TestsInv, TestTypes
<1>2. CASE T!Quit(k)
  BY <1>2, OnlyTheJob, FreeIsSoundJob, FreeJob DEF T!Quit, T!Done, T!Same
<1>3. CASE T!Resolve(k)
  <2> DEFINE j == [T!Free EXCEPT !.op = "generate", !.pc = "batch"]
  <2>1. j \in JobRows /\ j.pc = "batch"
    BY FreeJob DEF JobRows
  <2>2. job' = [job EXCEPT ![k] = j] /\ UNCHANGED <<tests, batches>>
    BY <1>3 DEF T!Resolve, T!Same
  <2> HIDE DEF j
  <2> QED
    BY <2>1, <2>2, OnlyTheJob DEF JobSound, T!At
<1>4. CASE T!InsertBatch(k)
  <2>1. PICK b \in Batches, count \in 1..MaxSeeds :
          /\ batches' = [batches EXCEPT ![b] = "new"]
          /\ job' = [job EXCEPT ![k].pc = "seed", ![k].batch = b, ![k].seeds = count]
    BY <1>4 DEF T!InsertBatch
  <2> DEFINE j == [job[k] EXCEPT !.pc = "seed", !.batch = b, !.seeds = count]
  <2>2. job' = [job EXCEPT ![k] = j]
    BY <1>1, <2>1 DEF JobRows, TestTypes
  <2>3. count \in 0..MaxSeeds /\ count > 0
    BY AuthoringAssumption DEF T!TestsAssumption
  <2>4. j \in JobRows /\ j.pc = "seed" /\ j.seeds = count
    BY <1>1, <2>3 DEF JobRows
  <2> HIDE DEF j
  <2>5. UNCHANGED tests /\ batches' \in [Batches -> {Nil, Gone, "new", "validated"}]
    BY <1>1, <1>4, <2>1 DEF T!InsertBatch
  <2> QED
    BY <1>1, <2>2, <2>3, <2>4, <2>5, OneJobGoes, SameTestsKept DEF JobSound, T!At, TestTypes
<1>5. T!At(k, "generate", "seed") =>
        T!NextSeed(k) \in JobRows /\ (job'[k] = T!NextSeed(k) => JobSound(k)')
  <2> SUFFICES ASSUME T!At(k, "generate", "seed")
               PROVE  T!NextSeed(k) \in JobRows /\ (job'[k] = T!NextSeed(k) => JobSound(k)')
    OBVIOUS
  <2>1. job[k].pc = "seed" /\ job[k].seeds > 0
    BY <1>1 DEF T!At, JobSound
  <2>2. CASE job[k].seeds = 1
    BY <2>2, FreeJob, FreeIsSoundJob DEF T!NextSeed
  <2>3. CASE job[k].seeds # 1
    <3> DEFINE j == [job[k] EXCEPT !.seeds = job[k].seeds - 1]
    <3>1. job[k].seeds \in 0..MaxSeeds /\ MaxSeeds \in Nat
      BY <1>1, AuthoringAssumption DEF JobRows, T!TestsAssumption
    <3>2. job[k].seeds - 1 \in 0..MaxSeeds /\ job[k].seeds - 1 > 0
      BY <2>1, <2>3, <3>1
    <3>3. j \in JobRows /\ j.pc = "seed" /\ j.seeds > 0
      BY <1>1, <2>1, <3>2 DEF JobRows
    <3>4. T!NextSeed(k) = j
      BY <2>3 DEF T!NextSeed
    <3> QED
      BY <3>3, <3>4 DEF JobSound, T!At
  <2> QED
    BY <2>2, <2>3
<1>6. CASE T!InsertSeed(k)
  <2>1. PICK t \in Tests, input \in Inputs : \E output \in {input, Typed} :
          /\ tests' = [tests EXCEPT ![t] = T!Test(input, output, job[k].batch)]
          /\ job' = [T!Raced({t}) EXCEPT ![k] = T!NextSeed(k)]
    BY <1>6 DEF T!InsertSeed
  <2>2. PICK output \in {input, Typed} : tests' = [tests EXCEPT ![t] = T!Test(input, output, job[k].batch)]
    BY <2>1
  <2>3. T!Test(input, output, job[k].batch) \in TestRows
    BY <1>1 DEF T!Test, TestRows, JobRows
  <2>4. tests' \in [Tests -> {Nil, Gone} \cup TestRows]
    BY <1>1, <2>2, <2>3 DEF TestTypes
  <2>5. InputsKept({t})
    BY <1>1, <2>2 DEF InputsKept, T!Present, TestTypes
  <2> QED
    BY <1>1, <1>5, <1>6, <2>1, <2>4, <2>5, OneJobGoes DEF T!InsertSeed
<1>7. CASE T!SkipSeed(k)
  BY <1>5, <1>7, OnlyTheJob DEF T!SkipSeed, T!Same
<1>8. CASE T!ValidatorRead(k)
  <2>1. PICK source \in C!ActiveSources("validators") :
          job' = [job EXCEPT ![k] = [T!Free EXCEPT !.op = "validate", !.pc = "run", !.source = source]]
    BY <1>8 DEF T!ValidatorRead
  <2> DEFINE j == [T!Free EXCEPT !.op = "validate", !.pc = "run", !.source = source]
  <2>2. source \in Sources
    BY ValidatorsAreSources DEF ValidatorsFit, ComponentsInv
  <2>3. j \in JobRows /\ j.pc = "run"
    BY <2>2, FreeJob DEF JobRows
  <2>4. job' = [job EXCEPT ![k] = j] /\ UNCHANGED <<tests, batches>>
    BY <1>8, <2>1 DEF T!ValidatorRead, T!Same
  <2> HIDE DEF j
  <2> QED
    BY <2>3, <2>4, OnlyTheJob DEF JobSound, T!At
<1>9. CASE T!ValidateRun(k)
  <2>1. PICK S \in SUBSET T!Present :
          job' = [job EXCEPT ![k] = IF T!Valid(job[k].source, S)
                                    THEN [job[k] EXCEPT !.pc = "mark", !.raced = S # T!Present]
                                    ELSE T!Free]
    BY <1>9 DEF T!ValidateRun
  <2>2. UNCHANGED <<tests, batches>> /\ job[k].op = "validate"
    BY <1>9 DEF T!ValidateRun, T!Same, T!At
  <2>3. CASE ~T!Valid(job[k].source, S)
    BY <2>1, <2>2, <2>3, OnlyTheJob, FreeIsSoundJob, FreeJob
  <2>4. CASE T!Valid(job[k].source, S)
    <3> DEFINE raced == S # T!Present
               j == [job[k] EXCEPT !.pc = "mark", !.raced = raced]
    <3>1. raced \in BOOLEAN /\ (raced = FALSE => S = T!Present)
      OBVIOUS
    <3>2. job' = [job EXCEPT ![k] = j]
      BY <2>1, <2>4
    <3> HIDE DEF raced
    <3>3. j \in JobRows /\ j.pc = "mark" /\ j.raced = raced /\ j.source = job[k].source /\ j.op = "validate"
      BY <1>1, <2>2, <3>1 DEF JobRows
    <3> HIDE DEF j
    <3>4. raced = FALSE => \A t \in T!Present : tests[t].input \in Accepts[job[k].source]
      BY <2>4, <3>1 DEF T!Valid
    <3>5. T!Present' = T!Present /\ tests' = tests
      BY <2>2 DEF T!Present
    <3>6. ASSUME job'[k] = j PROVE JobSound(k)'
      BY <3>3, <3>4, <3>5, <3>6 DEF JobSound, T!At
    <3> QED
      BY <2>2, <3>2, <3>3, <3>6, OnlyTheJob
  <2> QED
    BY <2>3, <2>4
<1>10. CASE T!Mark(k)
  <2>1. UNCHANGED tests /\ job' = [job EXCEPT ![k] = T!Free]
        /\ batches' \in [Batches -> {Nil, Gone, "new", "validated"}]
    BY <1>1, <1>10 DEF T!Mark, T!Done
  <2> QED
    BY <1>1, <2>1, OneJobGoes, SameTestsKept, FreeJob, FreeIsSoundJob DEF TestTypes
<1>11. CASE T!SolveRead(k)
  <2>1. PICK t \in T!Present :
          job' = [job EXCEPT ![k] = [T!Free EXCEPT !.op = "solve", !.pc = "write", !.test = t,
                                                   !.input = tests[t].input]]
    BY <1>11 DEF T!SolveRead
  <2> DEFINE j == [T!Free EXCEPT !.op = "solve", !.pc = "write", !.test = t, !.input = tests[t].input]
  <2>2. t \in Tests /\ tests[t].input \in Inputs
    BY <1>1, TestFields DEF TestRows
  <2>3. j \in JobRows /\ j.pc = "write" /\ j.test = t /\ j.input = tests[t].input
    BY <2>2, FreeJob DEF JobRows
  <2>4. job' = [job EXCEPT ![k] = j] /\ UNCHANGED <<tests, batches>>
    BY <1>11, <2>1 DEF T!SolveRead, T!Same
  <2> HIDE DEF j
  <2>5. ASSUME job'[k] = j PROVE JobSound(k)'
    BY <2>2, <2>3, <2>4, <2>5 DEF JobSound, T!At
  <2> QED
    BY <2>3, <2>4, <2>5, OnlyTheJob
<1>12. CASE T!SolveWrite(k)
  <2>1. /\ job' = [job EXCEPT ![k] = T!Free] /\ batches' = batches
        /\ tests' = [t \in Tests |-> IF t \in T!Solved(k) THEN [tests[t] EXCEPT !.output = job[k].input]
                                     ELSE tests[t]]
    BY <1>12 DEF T!SolveWrite, T!Done
  <2>2. job[k].input \in Inputs
    BY <1>1, <1>12 DEF JobSound, T!SolveWrite, T!At
  <2>3. \A t \in T!Solved(k) : t \in T!Present /\ t \in Tests /\ tests[t] \in TestRows
    BY <1>1, TestFields DEF T!Solved
  <2>4. \A t \in T!Solved(k) : tests'[t] \in TestRows /\ tests'[t].input = tests[t].input
    <3> SUFFICES ASSUME NEW t \in T!Solved(k)
                 PROVE  tests'[t] \in TestRows /\ tests'[t].input = tests[t].input
      OBVIOUS
    <3>1. tests'[t] = [tests[t] EXCEPT !.output = job[k].input]
      BY <2>1, <2>3
    <3> QED
      BY <2>2, <2>3, <3>1 DEF TestRows
  <2>5. \A t \in Tests \ T!Solved(k) : tests'[t] = tests[t]
    BY <2>1
  <2>6. tests' \in [Tests -> {Nil, Gone} \cup TestRows]
    BY <1>1, <2>1, <2>4, <2>5 DEF TestTypes
  <2>7. InputsKept({})
    BY <2>3, <2>4, <2>5 DEF InputsKept, T!Present
  <2> QED
    BY <1>1, <2>1, <2>6, <2>7, OneJobGoes, FreeJob, FreeIsSoundJob DEF TestTypes
<1> QED
  BY <1>2, <1>3, <1>4, <1>6, <1>7, <1>8, <1>9, <1>10, <1>11, <1>12 DEF T!Step, T!Begin

LEMMA TestsUntouched == ASSUME TestsInv, UNCHANGED testVars PROVE TestsInv'
BY TestsGo DEF testVars, TestsInv, TestTypes

LEMMA TestsNextKeeps == ASSUME TestsInv, ComponentsInv, [Next]_vars PROVE TestsInv'
<1>1. CASE UNCHANGED testVars
  BY <1>1, TestsUntouched
<1>2. CASE TestStep
  BY <1>2, TestsStepKeeps, TestsEditKeeps DEF TestStep
<1>3. CASE DeleteProblem
  BY <1>3, TestsWiped DEF DeleteProblem
<1>4. ASSUME NEW content \in Drafts, CreateQuestion(content) PROVE TestsInv'
  BY <1>4, AddKeeps, TestsUntouched DEF CreateQuestion, testVars
<1> QED
  BY <1>1, <1>2, <1>3, <1>4
     DEF Next, vars, CreateProblem, Prepare, RevisionStep, ComponentStep, UserStep

\* When batches are marked as validated, the validator accepts all the tests there are, unless
\* a test was added or changed while it ran, or the read of the tests broke off
\* (admin_tests.go:798).
THEOREM ValidatedIsCheckedHolds == Spec => ValidatedIsChecked
<1> DEFINE A == \A k \in Workers :
         T!At(k, "validate", "mark") /\ batches' # batches /\ job'[k] = T!Free /\ ~job[k].raced =>
            \A t \in T!Present : tests[t].input \in Accepts[job[k].source]
<1>1. TestsInv => A
  <2> SUFFICES ASSUME TestsInv, NEW k \in Workers, T!At(k, "validate", "mark"), ~job[k].raced
               PROVE  \A t \in T!Present : tests[t].input \in Accepts[job[k].source]
    OBVIOUS
  <2>1. job[k].raced = FALSE
    BY DEF TestsInv, TestTypes, JobRows
  <2> QED
    BY <2>1 DEF TestsInv, JobSound
<1>2. TestsInv /\ ComponentsInv /\ [Next]_vars => TestsInv' /\ ComponentsInv'
  BY TestsNextKeeps, ComponentsNextKeeps
<1>3. A => [A]_(T!vars)
  OBVIOUS
<1>4. TestsInv => [A]_(T!vars)
  BY <1>1, <1>3
<1> QED
  BY <1>2, <1>4, TestsInit, ComponentsInitInv, PTL DEF Spec, ValidatedIsChecked, T!ValidatedIsChecked

\* What a step may do to a test: the output is typed or computed from the input, or was there
\* before, or comes from a call that read another input.
Fits(t) ==
    T!IsRow(tests'[t]) /\ tests'[t].output # Typed /\ tests'[t].output # tests'[t].input
      => \/ tests'[t] = tests[t]
         \/ T!IsRow(tests[t]) /\ tests[t].input # tests'[t].input
         \/ \E k \in Workers : job[k].test = t /\ job[k].raced /\ job'[k] = T!Free

LEMMA UpdateFits ==
    ASSUME TestTypes, NEW q \in Tests, NEW input \in Inputs \cup {Nil}, NEW typed \in BOOLEAN,
           T!Update(q, input, typed), NEW t \in Tests
    PROVE  Fits(t)
<1>1. CASE t # q
  BY <1>1 DEF T!Update, TestTypes, Fits
<1>2. CASE t = q
  <2> DEFINE newInput == IF input = Nil THEN tests[t].input ELSE input
             newOutput == IF typed THEN Typed ELSE tests[t].output
  <2>1. t \in T!Present /\ tests[t] \in TestRows /\ T!IsRow(tests[t])
    BY <1>2, TestFields DEF T!Update, T!Present
  <2>2. tests'[t] = [tests[t] EXCEPT !.input = newInput, !.output = newOutput]
    BY <1>2, <2>1 DEF T!Update, TestRows, TestTypes
  <2>3. tests'[t].input = newInput /\ tests'[t].output = newOutput
    BY <2>1, <2>2 DEF TestRows
  <2>4. CASE newInput = tests[t].input /\ newOutput = tests[t].output
    <3>1. tests'[t] = [tests[t] EXCEPT !.input = tests[t].input, !.output = tests[t].output]
      BY <2>2, <2>4
    <3>2. [tests[t] EXCEPT !.input = tests[t].input, !.output = tests[t].output] = tests[t]
      BY <2>1 DEF TestRows
    <3> QED
      BY <3>1, <3>2 DEF Fits
  <2>5. CASE newOutput # tests[t].output
    BY <2>3, <2>5 DEF Fits
  <2>6. CASE newInput # tests[t].input
    BY <2>1, <2>3, <2>6 DEF Fits
  <2> QED
    BY <2>4, <2>5, <2>6
<1> QED
  BY <1>1, <1>2

LEMMA AddFits == ASSUME TestTypes, T!AddTests, NEW t \in Tests PROVE Fits(t)
<1>1. PICK S \in SUBSET {q \in Tests : tests[q] = Nil} : \E input \in [S -> Inputs] :
        tests' = [q \in Tests |-> IF q \in S THEN T!Test(input[q], Typed, Nil) ELSE tests[q]]
  BY DEF T!AddTests
<1>2. PICK input \in [S -> Inputs] :
        tests' = [q \in Tests |-> IF q \in S THEN T!Test(input[q], Typed, Nil) ELSE tests[q]]
  BY <1>1
<1> QED
  BY <1>2 DEF Fits, T!Test

LEMMA StepFits ==
    ASSUME TestsInv, NEW k \in Workers, T!Step(k) \/ T!Begin(k), NEW t \in Tests
    PROVE  Fits(t)
<1>1. TestTypes /\ JobSound(k) /\ job[k] \in JobRows
  BY DEF TestsInv, TestTypes
<1>2. CASE UNCHANGED tests
  BY <1>2 DEF Fits
<1>3. CASE T!InsertSeed(k)
  <2>1. PICK q \in Tests, input \in Inputs : \E output \in {input, Typed} :
          tests' = [tests EXCEPT ![q] = T!Test(input, output, job[k].batch)]
    BY <1>3 DEF T!InsertSeed
  <2>2. PICK output \in {input, Typed} : tests' = [tests EXCEPT ![q] = T!Test(input, output, job[k].batch)]
    BY <2>1
  <2> QED
    BY <1>1, <2>2 DEF Fits, T!Test, TestTypes
<1>4. CASE T!SolveWrite(k)
  <2>1. CASE t \notin T!Solved(k)
    BY <1>4, <2>1 DEF T!SolveWrite, Fits
  <2>2. CASE t \in T!Solved(k)
    <3>1. t \in T!Present /\ job[k].test = t /\ tests[t] \in TestRows
      BY <1>1, <2>2, TestFields DEF T!Solved
    <3>2. tests'[t] = [tests[t] EXCEPT !.output = job[k].input]
      BY <1>4, <2>2 DEF T!SolveWrite
    <3>3. tests'[t].input = tests[t].input /\ tests'[t].output = job[k].input
      BY <3>1, <3>2 DEF TestRows
    <3>4. job'[k] = T!Free
      BY <1>1, <1>4 DEF T!SolveWrite, T!Done, TestTypes
    <3>5. job[k].raced = FALSE => tests[t].input = job[k].input
      BY <1>1, <1>4, <3>1 DEF JobSound, T!SolveWrite
    <3>6. job[k].raced = TRUE \/ job[k].raced = FALSE
      BY <1>1 DEF JobRows
    <3> QED
      BY <3>1, <3>3, <3>4, <3>5, <3>6 DEF Fits
  <2> QED
    BY <2>1, <2>2
<1> QED
  BY <1>2, <1>3, <1>4
     DEF T!Step, T!Begin, T!Quit, T!InsertBatch, T!SkipSeed, T!ValidateRun, T!Mark, T!Resolve,
         T!ValidatorRead, T!SolveRead, T!Same

LEMMA NextFits == ASSUME TestsInv, [Next]_vars, NEW t \in Tests PROVE Fits(t)
<1>1. TestTypes
  BY DEF TestsInv
<1>2. CASE UNCHANGED tests
  BY <1>2 DEF Fits
<1>3. CASE T!Edit
  <2>1. CASE T!Create
    BY <1>1, <2>1, AddFits DEF T!Create
  <2>2. CASE T!Remove
    BY <2>2 DEF T!Remove, Fits, T!IsRow
  <2>3. CASE \E q \in Tests, input \in Inputs \cup {Nil}, typed \in BOOLEAN : T!Update(q, input, typed)
    BY <1>1, <2>3, UpdateFits
  <2> QED
    BY <1>3, <2>1, <2>2, <2>3 DEF T!Edit
<1>4. CASE TestStep
  BY <1>3, <1>4, StepFits DEF TestStep
<1>5. CASE DeleteProblem
  BY <1>5 DEF DeleteProblem, T!Wipe, Fits, T!IsRow
<1>6. ASSUME NEW content \in Drafts, CreateQuestion(content) PROVE Fits(t)
  BY <1>1, <1>2, <1>6, AddFits DEF CreateQuestion
<1> QED
  BY <1>2, <1>4, <1>5, <1>6
     DEF Next, vars, testVars, CreateProblem, Prepare, RevisionStep, ComponentStep, UserStep

\* An expected output that a solution computed was computed from the input that the test has,
\* unless the input was changed by an update that kept the output or while the solution ran
\* (admin_tests.go:819).
THEOREM OutputFitsInputHolds == Spec => OutputFitsInput
<1> DEFINE A == \A t \in Tests :
         /\ T!IsRow(tests'[t]) /\ tests'[t].output # Typed /\ tests'[t].output # tests'[t].input
         => \/ tests'[t] = tests[t]
            \/ T!IsRow(tests[t]) /\ tests[t].input # tests'[t].input
            \/ \E k \in Workers : job[k].test = t /\ job[k].raced /\ job'[k] = T!Free
<1>1. TestsInv /\ [Next]_vars => A
  BY NextFits DEF Fits
<1>2. TestsInv /\ ComponentsInv /\ [Next]_vars => TestsInv' /\ ComponentsInv'
  BY TestsNextKeeps, ComponentsNextKeeps
<1>3. A => [A]_(T!vars)
  OBVIOUS
<1>4. TestsInv /\ [Next]_vars => [A]_(T!vars)
  BY <1>1, <1>3
<1> QED
  BY <1>2, <1>4, TestsInit, ComponentsInitInv, PTL DEF Spec, OutputFitsInput, T!OutputFitsInput

-----------------------------------------------------------------------------
\* What a call of a user that was not overtaken has read is still so.
IsAttempt(a) ==
    /\ a = [pc |-> a.pc, stores |-> a.stores, admin |-> a.admin, subjective |-> a.subjective,
            content |-> a.content, tests |-> a.tests, raced |-> a.raced]
    /\ {a.stores, a.admin, a.subjective, a.raced} \subseteq BOOLEAN

Fresh(k) ==
    /\ ProblemThere
    /\ problem.published = TRUE \/ attempt[k].admin = TRUE
    /\ attempt[k].content = problem.content
    /\ attempt[k].subjective = TRUE <=> attempt[k].stores = TRUE /\ problem.type = "subjective"
    /\ attempt[k].pc = "store" => attempt[k].stores = TRUE
    /\ attempt[k].subjective = FALSE /\ attempt[k].pc \in {"judge", "store"} =>
          attempt[k].tests = Shown /\ Shown # {}

AttemptSound(k) ==
    /\ IsAttempt(attempt[k])
    /\ attempt[k].pc = "idle" => attempt[k] = Away
    /\ attempt[k].pc \in {"tests", "judge"} => attempt[k].subjective = FALSE
    /\ attempt[k].pc # "idle" /\ attempt[k].raced = FALSE => Fresh(k)

AttemptsSound == DOMAIN attempt = Workers /\ \A k \in Workers : AttemptSound(k)


LEMMA AwayIsAttempt == IsAttempt(Away) /\ Away.pc = "idle"
BY DEF IsAttempt, Away

LEMMA AttemptsInit == Init => AttemptsSound
BY AwayIsAttempt DEF Init, AttemptsSound, AttemptSound

LEMMA ReadAttempt ==
    ASSUME NEW a, IsAttempt(a), NEW shown, NEW raced
    PROVE  [a EXCEPT !.pc = "judge", !.tests = shown, !.raced = raced]
           = [pc |-> "judge", stores |-> a.stores, admin |-> a.admin,
              subjective |-> a.subjective, content |-> a.content, tests |-> shown, raced |-> raced]
<1> DEFINE b == [a EXCEPT !.pc = "judge", !.tests = shown, !.raced = raced]
<1>1. b \in [pc : {"judge"}, stores : {a.stores}, admin : {a.admin}, subjective : {a.subjective},
             content : {a.content}, tests : {shown}, raced : {raced}]
  BY DEF IsAttempt
<1> HIDE DEF b
<1>2. b = [pc |-> "judge", stores |-> a.stores, admin |-> a.admin,
           subjective |-> a.subjective, content |-> a.content, tests |-> shown, raced |-> raced]
  BY <1>1
<1> QED
  BY <1>2 DEF b

\* A step of an administrator overtakes the calls for which it makes a difference.
LEMMA WatchedKeeps == ASSUME AttemptsSound, Watched PROVE AttemptsSound'
<1> SUFFICES ASSUME NEW k \in Workers PROVE AttemptSound(k)'
  BY DEF AttemptsSound, Watched
<1> DEFINE a == attempt[k]
<1>1. IsAttempt(a) /\ AttemptSound(k)
  BY DEF AttemptsSound, AttemptSound
<1>2. attempt'[k] = IF a # Away /\ Overtaken(k) THEN [a EXCEPT !.raced = TRUE] ELSE a
  BY DEF Watched
<1>3. CASE a # Away /\ Overtaken(k)
  <2>1. attempt'[k] = [a EXCEPT !.raced = TRUE]
    BY <1>2, <1>3
  <2>2. /\ IsAttempt(attempt'[k]) /\ attempt'[k].raced = TRUE
        /\ attempt'[k].pc = a.pc /\ attempt'[k].subjective = a.subjective
    BY <1>1, <2>1 DEF IsAttempt
  <2>3. a.pc # "idle"
    BY <1>1, <1>3 DEF AttemptSound
  <2> QED
    BY <1>1, <2>2, <2>3 DEF AttemptSound
<1>4. CASE a = Away
  <2>1. attempt'[k] = Away
    BY <1>2, <1>4
  <2> QED
    BY <2>1, AwayIsAttempt DEF AttemptSound
<1>5. CASE a # Away /\ ~Overtaken(k)
  <2>1. attempt'[k] = attempt[k]
    BY <1>2, <1>5
  <2>2. /\ ProblemThere' /\ problem'.content = problem.content /\ problem'.type = problem.type
        /\ problem'.published = problem.published
        /\ attempt[k].tests # {} => Shown' = Shown
    BY <1>5 DEF Overtaken
  <2>3. Fresh(k) => Fresh(k)'
    BY <2>1, <2>2 DEF Fresh
  <2> QED
    BY <1>1, <2>1, <2>3 DEF AttemptSound
<1> QED
  BY <1>3, <1>4, <1>5

\* A step that changes neither the problem nor the tests.
LEMMA FreshStays ==
    ASSUME UNCHANGED <<problem, tests>>, NEW k \in Workers, attempt'[k] = attempt[k], AttemptSound(k)
    PROVE  AttemptSound(k)'
BY DEF AttemptSound, Fresh, ProblemThere, Shown, T!Present, T!IsRow

LEMMA AttemptsStay ==
    ASSUME AttemptsSound, UNCHANGED <<attempt, problem, tests>>
    PROVE  AttemptsSound'
BY FreshStays DEF AttemptsSound

LEMMA UserStepKeeps == ASSUME AttemptsSound, UserStep PROVE AttemptsSound'
<1>1. UNCHANGED <<problem, tests>> /\ Shown' = Shown /\ ProblemThere' = ProblemThere
  BY DEF UserStep, revisionVars, testVars, Shown, ProblemThere, T!Present, T!IsRow
<1>2. PICK k \in Workers : ReadProblem(k) \/ ReadTests(k) \/ JudgeSolution(k) \/ Store(k) \/ GiveUp(k)
  BY DEF UserStep
<1>3. ASSUME NEW b, attempt' = [attempt EXCEPT ![k] = b], DOMAIN attempt = Workers,
             attempt'[k] = b => AttemptSound(k)'
      PROVE  AttemptsSound'
  <2>1. attempt'[k] = b /\ DOMAIN attempt' = Workers
    BY <1>3
  <2>2. \A j \in Workers \ {k} : attempt'[j] = attempt[j]
    BY <1>3
  <2>3. \A j \in Workers : AttemptSound(j)'
    BY <1>1, <1>3, <2>1, <2>2, FreshStays DEF AttemptsSound
  <2> QED
    BY <2>1, <2>3 DEF AttemptsSound
<1> DEFINE a == attempt[k]
<1>4. IsAttempt(a) /\ AttemptSound(k) /\ DOMAIN attempt = Workers
  BY DEF AttemptsSound, AttemptSound
<1>5. attempt'[k] = Away => AttemptSound(k)'
  BY AwayIsAttempt DEF AttemptSound
<1>6. CASE Store(k) \/ GiveUp(k)
  BY <1>3, <1>4, <1>5, <1>6 DEF Store, GiveUp
<1>7. CASE ReadProblem(k)
  <2>1. PICK stores \in BOOLEAN, admin \in BOOLEAN :
          LET subjective == stores /\ problem.type = "subjective" IN
          /\ Visible(admin)
          /\ attempt' = [attempt EXCEPT ![k] =
                [Away EXCEPT !.pc = IF subjective THEN "store" ELSE "tests", !.stores = stores,
                             !.admin = admin, !.subjective = subjective, !.content = problem.content]]
    BY <1>7 DEF ReadProblem
  <2> DEFINE subjective == stores /\ problem.type = "subjective"
             pc == IF subjective THEN "store" ELSE "tests"
             b == [Away EXCEPT !.pc = pc, !.stores = stores, !.admin = admin,
                               !.subjective = subjective, !.content = problem.content]
  <2>2. subjective \in BOOLEAN /\ (subjective = TRUE <=> stores = TRUE /\ problem.type = "subjective")
    OBVIOUS
  <2>3. attempt' = [attempt EXCEPT ![k] = b] /\ Visible(admin) /\ ProblemThere
    BY <1>7, <2>1 DEF ReadProblem
  <2> HIDE DEF subjective
  <2>7. pc \in {"store", "tests"} /\ (pc = "store" <=> subjective = TRUE)
    BY <2>2
  <2> HIDE DEF pc
  <2>8. b \in [pc : {"store", "tests"}, stores : {stores}, admin : {admin}, subjective : BOOLEAN,
               content : {problem.content}, tests : {{}}, raced : {FALSE}]
    BY <2>2, <2>7 DEF Away
  <2>9. b.pc = pc /\ b.subjective = subjective
    BY DEF Away
  <2> HIDE DEF b
  <2>4. /\ IsAttempt(b) /\ b.pc \in {"store", "tests"} /\ b.raced = FALSE
        /\ b.content = problem.content /\ b.admin = admin /\ b.stores = stores
        /\ b.subjective = subjective /\ (b.pc = "store" <=> subjective = TRUE)
    BY <2>2, <2>7, <2>8, <2>9 DEF IsAttempt
  <2>5. problem.published = TRUE \/ admin = TRUE
    BY <2>3 DEF Visible
  <2>6. ASSUME attempt'[k] = b PROVE AttemptSound(k)'
    <3>1. Fresh(k)'
      BY <1>1, <2>2, <2>3, <2>4, <2>5, <2>6 DEF Fresh
    <3> QED
      BY <2>4, <2>6, <3>1 DEF AttemptSound
  <2> QED
    BY <1>3, <1>4, <2>3, <2>6
<1>8. CASE ReadTests(k)
  <2>1. PICK S \in SUBSET Shown :
          attempt' = [attempt EXCEPT ![k] =
             IF S = {} THEN Away
             ELSE [a EXCEPT !.pc = "judge", !.tests = S, !.raced = a.raced \/ S # Shown]]
    BY <1>8 DEF ReadTests
  <2> DEFINE raced == a.raced \/ S # Shown
             b == [a EXCEPT !.pc = "judge", !.tests = S, !.raced = raced]
  <2>2. CASE S = {}
    BY <1>3, <1>4, <1>5, <2>1, <2>2
  <2>3. CASE S # {}
    <3>1. attempt' = [attempt EXCEPT ![k] = b]
      BY <2>1, <2>3
    <3>2. raced \in BOOLEAN
      OBVIOUS
    <3>6. raced = FALSE => a.raced = FALSE /\ S = Shown
      BY <1>4 DEF IsAttempt
    <3> HIDE DEF raced
    <3>5. b = [pc |-> "judge", stores |-> a.stores, admin |-> a.admin,
               subjective |-> a.subjective, content |-> a.content, tests |-> S, raced |-> raced]
      BY <1>4, ReadAttempt, Zenon
    <3> HIDE DEF b
    <3>3. /\ IsAttempt(b) /\ b.pc = "judge" /\ b.tests = S
          /\ b.raced = FALSE => a.raced = FALSE /\ S = Shown
          /\ b.stores = a.stores /\ b.admin = a.admin /\ b.subjective = a.subjective
          /\ b.content = a.content
      BY <1>4, <3>2, <3>5, <3>6 DEF IsAttempt
    <3>4. ASSUME attempt'[k] = b PROVE AttemptSound(k)'
      <4>1. a.pc = "tests"
        BY <1>8 DEF ReadTests
      <4> QED
        BY <1>1, <1>4, <2>3, <3>3, <3>4, <4>1 DEF AttemptSound, Fresh
    <3> QED
      BY <1>3, <1>4, <3>1, <3>4
  <2> QED
    BY <2>2, <2>3
<1>9. CASE JudgeSolution(k)
  <2>1. attempt' = [attempt EXCEPT ![k] = IF a.stores THEN [a EXCEPT !.pc = "store"] ELSE Away]
    BY <1>9 DEF JudgeSolution
  <2>2. CASE ~a.stores
    BY <1>3, <1>4, <1>5, <2>1, <2>2
  <2>3. CASE a.stores
    <3> DEFINE b == [a EXCEPT !.pc = "store"]
    <3>1. attempt' = [attempt EXCEPT ![k] = b]
      BY <2>1, <2>3
    <3>4. b = [pc |-> "store", stores |-> a.stores, admin |-> a.admin,
               subjective |-> a.subjective, content |-> a.content, tests |-> a.tests,
               raced |-> a.raced]
      BY <1>4 DEF IsAttempt
    <3> HIDE DEF b
    <3>5. a.stores = TRUE
      BY <1>4, <2>3 DEF IsAttempt
    <3>2. /\ IsAttempt(b) /\ b.pc = "store" /\ b.tests = a.tests /\ b.raced = a.raced
          /\ b.stores = TRUE /\ a.stores = TRUE /\ b.admin = a.admin /\ b.subjective = a.subjective
          /\ b.content = a.content
      BY <1>4, <3>4, <3>5 DEF IsAttempt
    <3>3. ASSUME attempt'[k] = b PROVE AttemptSound(k)'
      <4>1. a.pc = "judge"
        BY <1>9 DEF JudgeSolution
      <4> QED
        BY <1>1, <1>4, <3>2, <3>3, <4>1 DEF AttemptSound, Fresh
    <3> QED
      BY <1>3, <1>4, <3>1, <3>3
  <2> QED
    BY <2>2, <2>3
<1> QED
  BY <1>2, <1>6, <1>7, <1>8, <1>9

\* Before there is a problem there is no call of a user that counts.
LEMMA CreateKeeps ==
    ASSUME AttemptsSound, problem = Nil, UNCHANGED attempt
    PROVE  AttemptsSound'
BY DEF AttemptsSound, AttemptSound, Fresh, ProblemThere

LEMMA AttemptsNextKeeps == ASSUME AttemptsSound, [Next]_vars PROVE AttemptsSound'
<1>1. ASSUME NEW content \in Drafts, NEW type, CreateProblem(content, type) \/ CreateQuestion(content)
      PROVE  AttemptsSound'
  BY <1>1, CreateKeeps DEF CreateProblem, CreateQuestion, R!Create, userVars
<1>2. ASSUME NEW kinds \in Prepared, NEW source \in Codes, Prepare(kinds, source) PROVE AttemptsSound'
  BY <1>2, AttemptsStay DEF Prepare, userVars, revisionVars, testVars
<1>3. CASE DeleteProblem \/ RevisionStep \/ TestStep
  BY <1>3, WatchedKeeps DEF DeleteProblem, RevisionStep, TestStep
<1>4. CASE ComponentStep \/ UNCHANGED vars
  BY <1>4, AttemptsStay DEF ComponentStep, vars, userVars, revisionVars, testVars
<1>5. CASE UserStep
  BY <1>5, UserStepKeeps
<1> QED
  BY <1>1, <1>2, <1>3, <1>4, <1>5 DEF Next

\* A practice submission is stored for the problem as its author could see it, with what was
\* judged being the live row and all the tests (submissions.go:66, admin_problems.go:714).
THEOREM JudgedAsPublishedHolds == Spec => JudgedAsPublished
<1>1. AttemptsSound /\ [Next]_vars =>
        [\A k \in Workers :
           attempt[k].pc = "store" /\ attempt'[k] = Away /\ ~attempt[k].raced =>
              /\ problem.published \/ attempt[k].admin
              /\ attempt[k].subjective <=> problem.type = "subjective"
              /\ \/ attempt[k].subjective
                 \/ attempt[k].content = problem.content /\ attempt[k].tests = Shown]_vars
  <2> SUFFICES ASSUME AttemptsSound, NEW k \in Workers, attempt[k].pc = "store", ~attempt[k].raced
               PROVE  /\ problem.published \/ attempt[k].admin
                      /\ attempt[k].subjective <=> problem.type = "subjective"
                      /\ \/ attempt[k].subjective
                         \/ attempt[k].content = problem.content /\ attempt[k].tests = Shown
    OBVIOUS
  <2>1. IsAttempt(attempt[k]) /\ Fresh(k)
    BY DEF AttemptsSound, AttemptSound, IsAttempt
  <2> QED
    BY <2>1 DEF Fresh, IsAttempt
<1>2. AttemptsSound /\ [Next]_vars => AttemptsSound'
  BY AttemptsNextKeeps
<1> QED
  BY <1>1, <1>2, AttemptsInit, PTL DEF Spec, JudgedAsPublished

-----------------------------------------------------------------------------
\* What is proved of ProblemRevisions, for the problem as a whole: the instances are the same.
P == INSTANCE RevisionsProofs WITH Editors <- Workers, checkers <- C!ActiveSources("checkers")

LEMMA SameNext == [R!Next]_(R!vars) => [P!Next]_(P!vars)
BY
   DEF R!Next, P!Next, R!Create, P!Create, R!Row, P!Row, R!Revision, P!Revision, R!Contents,
       P!Contents, R!Types, P!Types, R!Unpublish, P!Unpublish, R!There, P!There, R!Delete,
       P!Delete, R!HoldsProblem, P!HoldsProblem, R!HoldsRevisions, P!HoldsRevisions, R!Begin,
       P!Begin, R!Idle, P!Idle, R!Same, P!Same, R!Step, P!Step, R!Fail, P!Fail, R!Return,
       P!Return, R!UpdateRead, P!UpdateRead, R!At, P!At, R!Applied, P!Applied, R!Or, P!Or,
       R!UpdateWrite, P!UpdateWrite, R!ProblemFree, P!ProblemFree, R!Go, P!Go,
       R!UpdateDeactivate, P!UpdateDeactivate, R!RevisionsFree, P!RevisionsFree,
       R!UpdateNumber, P!UpdateNumber, R!UpdateInsert, P!UpdateInsert, R!Commit, P!Commit,
       R!Rivals, P!Rivals, R!ActivateRead, P!ActivateRead, R!ActivateFind, P!ActivateFind,
       R!ActivateLock, P!ActivateLock, R!ActivateRestore, P!ActivateRestore, R!Chosen,
       P!Chosen, R!PublishRead, P!PublishRead, R!Active, P!Active, R!PublishChecker,
       P!PublishChecker, R!Publish, P!Publish, R!Environment, P!Environment, R!Checkers,
       P!Checkers, R!vars, P!vars, R!Maybe, P!Maybe

LEMMA SameInit == R!Init => P!Init
BY DEF R!Init, P!Init, R!Idle, P!Idle, R!Checkers, P!Checkers

LEMMA SameLive == P!LiveIsActive => LiveIsActive
BY DEF LiveIsActive, R!LiveIsActive, P!LiveIsActive, R!Active, P!Active, R!There, P!There, R!Or, P!Or

LEMMA SameAssumption == P!RevisionsAssumption
BY AuthoringAssumption
   DEF P!RevisionsAssumption, R!RevisionsAssumption, P!AllRequests, R!AllRequests, P!Maybe, R!Maybe,
       P!Numbers, R!Numbers, P!Checkers, R!Checkers, P!Types, R!Types, P!ProblemRows, R!ProblemRows,
       P!Contents, R!Contents

LEMMA AuthoringIsRevisionsToo == Spec => P!Spec
<1>1. R!Spec => P!Spec
  BY SameInit, SameNext, PTL DEF R!Spec, P!Spec
<1> QED
  BY <1>1, AuthoringIsRevisions, PTL

\* "AdminActivateRevision sets a specific revision as active and updates the problem"
\* (admin_problems.go:576): the live row is the active revision whatever is done to components
\* and tests, and whatever users ask for, unless calls of its editors overlapped.
THEOREM AuthoringLiveIsActive == Spec => []LiveIsActive
<1>1. P!Spec => []P!LiveIsActive
  BY SameAssumption, P!LiveIsActiveHolds
<1> QED
  BY <1>1, SameLive, AuthoringIsRevisionsToo, PTL

\* An update keeps the fields that its request leaves out (admin_problems.go:430), whatever is
\* done to components and tests.
THEOREM AuthoringEditsKept == Spec => EditsKept
<1>1. P!Spec => P!EditsKept
  BY SameAssumption, P!EditsKeptHolds
<1>2. P!EditsKept => EditsKept
  BY PTL DEF EditsKept, P!EditsKept, R!EditsKept, P!At, R!At, P!Or, R!Or, P!Idle, R!Idle, P!vars, R!vars
<1> QED
  BY <1>1, <1>2, AuthoringIsRevisionsToo, PTL

-----------------------------------------------------------------------------
\* What the calls of users have read, and what is stored of it.
AttemptRows ==
    [pc : {"idle", "tests", "judge", "store"}, stores : BOOLEAN, admin : BOOLEAN,
     subjective : BOOLEAN, content : R!Maybe(R!Contents), raced : BOOLEAN,
     tests : SUBSET [test : Tests, input : Inputs, output : Inputs \cup {Typed}]]

IsStored(s) == s.status = "judged" <=> s.content \in R!Contents

UserTypes ==
    /\ attempt \in [Workers -> AttemptRows]
    /\ \A k \in Workers : attempt[k].pc # "idle" => attempt[k].content \in R!Contents
    /\ \A s \in submissions : IsStored(s)
    /\ left \in [Parts -> Nat]

LEMMA AwayRow == Away \in AttemptRows /\ Away.pc = "idle"
BY DEF Away, AttemptRows, R!Maybe

LEMMA UsersInit == Init => UserTypes
BY AwayRow, AuthoringAssumption DEF Init, UserTypes

LEMMA ShownTypes == TestTypes => Shown \subseteq [test : Tests, input : Inputs, output : Inputs \cup {Typed}]
<1> SUFFICES ASSUME TestTypes, NEW t \in T!Present
             PROVE  [test |-> t, input |-> tests[t].input, output |-> tests[t].output]
                      \in [test : Tests, input : Inputs, output : Inputs \cup {Typed}]
  BY DEF Shown
<1> QED
  BY TestFields DEF TestRows

LEMMA CountedTypes == ASSUME UserTypes, NEW part \in Parts, Counted(part) PROVE left' \in [Parts -> Nat]
<1>1. left' = [left EXCEPT ![part] = left[part] - 1] /\ left[part] > 0 /\ left[part] \in Nat
  BY DEF Counted, UserTypes
<1>2. left[part] - 1 \in Nat
  BY <1>1
<1> QED
  BY <1>1, <1>2 DEF UserTypes

\* A call of a user after one step of it.
LEMMA OneAttemptGoes ==
    ASSUME UserTypes, NEW k \in Workers, NEW a \in AttemptRows, attempt' = [attempt EXCEPT ![k] = a],
           a.pc # "idle" => a.content \in R!Contents, left' \in [Parts -> Nat],
           \A s \in submissions' : IsStored(s)
    PROVE  UserTypes'
BY DEF UserTypes, IsStored

LEMMA UserTypesStep == ASSUME UserTypes, R!TypeOK, TestTypes, UserStep PROVE UserTypes'
<1>1. PICK k \in Workers :
          \/ Counted("user") /\ ReadProblem(k)
          \/ UNCHANGED left /\ (ReadTests(k) \/ JudgeSolution(k) \/ Store(k) \/ GiveUp(k))
  BY DEF UserStep
<1>2. left' \in [Parts -> Nat]
  BY <1>1, CountedTypes DEF UserTypes, Parts
<1> DEFINE a == attempt[k]
<1>3. a \in AttemptRows /\ (a.pc # "idle" => a.content \in R!Contents)
  BY DEF UserTypes
<1>4. UNCHANGED submissions => \A s \in submissions' : IsStored(s)
  BY DEF UserTypes
<1>5. CASE ReadProblem(k)
  <2>1. PICK stores \in BOOLEAN, admin \in BOOLEAN :
          LET subjective == stores /\ problem.type = "subjective" IN
          attempt' = [attempt EXCEPT ![k] =
                [Away EXCEPT !.pc = IF subjective THEN "store" ELSE "tests", !.stores = stores,
                             !.admin = admin, !.subjective = subjective, !.content = problem.content]]
    BY <1>5 DEF ReadProblem
  <2> DEFINE subjective == stores /\ problem.type = "subjective"
             pc == IF subjective THEN "store" ELSE "tests"
             b == [Away EXCEPT !.pc = pc, !.stores = stores, !.admin = admin,
                               !.subjective = subjective, !.content = problem.content]
  <2>2. subjective \in BOOLEAN /\ pc \in {"store", "tests"}
    OBVIOUS
  <2>3. attempt' = [attempt EXCEPT ![k] = b]
    BY <2>1
  <2>4. problem.content \in R!Contents
    BY <1>5 DEF ReadProblem, ProblemThere, R!TypeOK, R!ProblemRows
  <2> HIDE DEF subjective, pc
  <2>5. b \in AttemptRows /\ b.content = problem.content
    BY <2>2, <2>4, AwayRow DEF AttemptRows, R!Maybe
  <2> HIDE DEF b
  <2> QED
    BY <1>2, <1>4, <1>5, <2>3, <2>4, <2>5, OneAttemptGoes DEF ReadProblem
<1>6. CASE ReadTests(k)
  <2>1. PICK S \in SUBSET Shown :
          attempt' = [attempt EXCEPT ![k] =
             IF S = {} THEN Away
             ELSE [a EXCEPT !.pc = "judge", !.tests = S, !.raced = a.raced \/ S # Shown]]
    BY <1>6 DEF ReadTests
  <2> DEFINE raced == a.raced \/ S # Shown
             b == [a EXCEPT !.pc = "judge", !.tests = S, !.raced = raced]
  <2>2. CASE S = {}
    BY <1>2, <1>4, <1>6, <2>1, <2>2, AwayRow, OneAttemptGoes DEF ReadTests
  <2>3. CASE S # {}
    <3>1. attempt' = [attempt EXCEPT ![k] = b]
      BY <2>1, <2>3
    <3>2. raced \in BOOLEAN
      OBVIOUS
    <3>3. S \subseteq [test : Tests, input : Inputs, output : Inputs \cup {Typed}]
      BY ShownTypes
    <3>4. a.pc = "tests"
      BY <1>6 DEF ReadTests
    <3> HIDE DEF raced
    <3>5. b \in AttemptRows /\ b.content = a.content
      BY <1>3, <3>2, <3>3 DEF AttemptRows
    <3> HIDE DEF b
    <3> QED
      BY <1>2, <1>3, <1>4, <1>6, <3>1, <3>4, <3>5, OneAttemptGoes DEF ReadTests
  <2> QED
    BY <2>2, <2>3
<1>7. CASE JudgeSolution(k)
  <2> DEFINE b == [a EXCEPT !.pc = "store"]
  <2>1. attempt' = [attempt EXCEPT ![k] = IF a.stores THEN b ELSE Away]
    BY <1>7 DEF JudgeSolution
  <2>2. b \in AttemptRows /\ b.content = a.content /\ a.pc = "judge"
    BY <1>3, <1>7 DEF AttemptRows, JudgeSolution
  <2> HIDE DEF b
  <2>3. CASE a.stores
    BY <1>2, <1>3, <1>4, <1>7, <2>1, <2>2, <2>3, OneAttemptGoes DEF JudgeSolution
  <2>4. CASE ~a.stores
    BY <1>2, <1>4, <1>7, <2>1, <2>4, AwayRow, OneAttemptGoes DEF JudgeSolution
  <2> QED
    BY <2>3, <2>4
<1>8. CASE Store(k)
  <2>1. a.content \in R!Contents
    BY <1>3, <1>8 DEF Store
  <2>2. IsStored(Row(a))
    BY <2>1, AuthoringAssumption DEF IsStored, Row
  <2>3. \A s \in submissions' : IsStored(s)
    BY <1>8, <2>2 DEF Store, UserTypes
  <2> QED
    BY <1>2, <1>8, <2>3, AwayRow, OneAttemptGoes DEF Store
<1>9. CASE GiveUp(k)
  BY <1>2, <1>4, <1>9, AwayRow, OneAttemptGoes DEF GiveUp
<1> QED
  BY <1>1, <1>5, <1>6, <1>7, <1>8, <1>9

LEMMA WatchedTypes ==
    ASSUME UserTypes, Watched, left' \in [Parts -> Nat], UNCHANGED submissions \/ submissions' = {}
    PROVE  UserTypes'
<1>1. ASSUME NEW k \in Workers
      PROVE  attempt'[k] \in AttemptRows /\ (attempt'[k].pc # "idle" => attempt'[k].content \in R!Contents)
  <2>1. attempt[k] \in AttemptRows /\ (attempt[k].pc # "idle" => attempt[k].content \in R!Contents)
    BY DEF UserTypes
  <2>2. attempt'[k] = attempt[k] \/ attempt'[k] = [attempt[k] EXCEPT !.raced = TRUE]
    BY DEF Watched
  <2> QED
    BY <2>1, <2>2 DEF AttemptRows
<1>2. attempt' = [k \in Workers |-> attempt'[k]]
  BY DEF Watched
<1>3. attempt' \in [Workers -> AttemptRows]
  BY <1>1, <1>2
<1> QED
  BY <1>1, <1>3 DEF UserTypes, IsStored

LEMMA UserTypesKept == ASSUME UserTypes, R!TypeOK, TestTypes, [Next]_vars PROVE UserTypes'
<1>1. CASE UNCHANGED userVars /\ left' \in [Parts -> Nat]
  BY <1>1 DEF userVars, UserTypes, IsStored
<1>2. left' \in [Parts -> Nat]
  BY CountedTypes
     DEF Next, vars, UserTypes, Parts, CreateProblem, CreateQuestion, Prepare, DeleteProblem, RevisionStep,
         ComponentStep, TestStep, UserStep
<1>3. CASE DeleteProblem \/ RevisionStep \/ TestStep
  BY <1>2, <1>3, WatchedTypes DEF DeleteProblem, RevisionStep, TestStep
<1> QED
  BY <1>1, <1>2, <1>3, UserTypesStep
     DEF Next, vars, CreateProblem, CreateQuestion, Prepare, ComponentStep

LEMMA SameTypes == P!TypeOK => R!TypeOK
BY DEF P!TypeOK, R!TypeOK, P!ProblemRows, R!ProblemRows, P!Numbers, R!Numbers, P!Contents, R!Contents,
       P!Places, R!Places, P!Maybe, R!Maybe, P!Types, R!Types, P!Checkers, R!Checkers

\* Types of the problem as a whole: a judged submission has the checker and the limits it was
\* judged with, one that awaits review has none (submissions.go:84).
THEOREM AuthoringTypes == Spec => []TypeOK
<1>1. P!Spec => []P!TypeOK
  BY SameAssumption, P!RevisionsTypes
<1>2. Spec => []R!TypeOK
  BY <1>1, SameTypes, AuthoringIsRevisionsToo, PTL
<1>3. TestsInv /\ ComponentsInv /\ [Next]_vars => TestsInv' /\ ComponentsInv'
  BY TestsNextKeeps, ComponentsNextKeeps
<1>4. UserTypes /\ R!TypeOK /\ TestsInv /\ [Next]_vars => UserTypes'
  BY UserTypesKept DEF TestsInv
<1>5. ComponentsInv => C!TypeOK
  BY DEF ComponentsInv, C!TypeOK, ComponentTable, Components, TaskRows, Sources
<1>6. TestsInv => T!TypeOK
  <2>1. DOMAIN Accepts = Sources
    BY AuthoringAssumption DEF Sources
  <2> QED
    BY <2>1 DEF TestsInv, TestTypes, T!TypeOK, TestRows, JobRows
<1>7. UserTypes /\ R!TypeOK /\ C!TypeOK /\ T!TypeOK => TypeOK
  BY DEF TypeOK, UserTypes, AttemptRows, IsStored
<1> QED
  BY <1>2, <1>3, <1>4, <1>5, <1>6, <1>7, TestsInit, ComponentsInitInv, UsersInit, PTL DEF Spec
=============================================================================
