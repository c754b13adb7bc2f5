-------------------------- MODULE ProblemComponents --------------------------
(***************************************************************************)
(* The generators, validators and checkers of one problem                  *)
(* (admin_components.go): each kind has a table of sources, of which one   *)
(* should be active.  The first generator is activated when it is created, *)
(* by a count in one statement and an insert in another; an activation is  *)
(* a transaction.                                                          *)
(***************************************************************************)
EXTENDS Naturals, FiniteSets

CONSTANTS
    Kinds,       \* "generators", "validators", "checkers", "interactors"
    Ids,         \* ids of components of a kind
    Sources,     \* their source codes
    Authors,     \* goroutines that run one of the two longer handlers
    Nil,         \* no row yet, no call
    Gone         \* a row that has been deleted

\* What is assumed of the constants.
ComponentsAssumption == Kinds \subseteq {"generators", "validators", "checkers", "interactors"}

VARIABLES
    component,   \* the row of each id, Nil before its insert, Gone after its deletion
    task,        \* the calls in progress
    there        \* the problem exists; this module only reads it

vars == <<component, task, there>>

\* found: the ids that the UPDATE of an activation found.  first: the COUNT was zero.
\* raced is history: a component was inserted meanwhile, or the COUNT failed.
Free == [pc |-> "idle", kind |-> Nil, id |-> Nil, source |-> Nil, first |-> FALSE,
         found |-> {}, raced |-> FALSE]

IsRow(x) == x # Nil /\ x # Gone
Present(kind) == {i \in Ids : IsRow(component[kind][i])}
ActiveOf(kind) == {i \in Present(kind) : component[kind][i].active}
SourcesOf(kind, S) == {component[kind][i].source : i \in S}
ActiveSources(kind) == SourcesOf(kind, ActiveOf(kind))

Init ==
    /\ component = [kind \in Kinds |-> [i \in Ids |-> Nil]]
    /\ task = [k \in Authors |-> Free]

\* The calls in progress after an insert of a component of the kind.
Raced(kind) == [k \in Authors |-> [task[k] EXCEPT !.raced = @ \/ task[k].kind = kind]]
Done(k) == task' = [task EXCEPT ![k] = Free]
Unchanged == UNCHANGED <<component, there>>

-----------------------------------------------------------------------------
\* createComponent, but for generators: is_active has its default.
Insert(kind, source) ==
    /\ there /\ kind # "generators"
    /\ \E i \in Ids : /\ component[kind][i] = Nil
                      /\ component' = [component EXCEPT ![kind][i] = [source |-> source, active |-> FALSE]]
    /\ task' = Raced(kind)
    /\ UNCHANGED there

\* updateComponent and deleteComponent.
Change(kind, source) ==
    /\ \E i \in Present(kind) : component' = [component EXCEPT ![kind][i].source = source]
    /\ UNCHANGED <<task, there>>

Remove(kind) ==
    /\ \E i \in Present(kind) : component' = [component EXCEPT ![kind][i] = Gone]
    /\ UNCHANGED <<task, there>>

\* The rows go with the problem.
Wipe == component' = [kind \in Kinds |-> [i \in Ids |->
            IF component[kind][i] = Nil THEN Nil ELSE Gone]]

-----------------------------------------------------------------------------
\* createComponent for a generator: SELECT COUNT(*), which counts as zero when it fails.
First_M(counted) == TRUE
First(counted) == counted = {}

CountGenerators(k, source) ==
    /\ task[k] = Free /\ "generators" \in Kinds
    /\ \E failed \in BOOLEAN :
          task' = [task EXCEPT ![k] = [Free EXCEPT !.pc = "insert", !.kind = "generators",
                      !.source = source, !.raced = failed,
                      !.first = First(IF failed THEN {} ELSE Present("generators"))]]
    /\ Unchanged

InsertGenerator(k) ==
    /\ task[k].pc = "insert" /\ there
    /\ \E i \in Ids :
          /\ component["generators"][i] = Nil
          /\ component' = [component EXCEPT !["generators"][i] =
                              [source |-> task[k].source, active |-> task[k].first]]
    /\ task' = [Raced("generators") EXCEPT ![k] = Free]
    /\ UNCHANGED there

\* activateComponent.  The UPDATE of all rows finds those that are there when it starts ...
FindAll(k, kind) ==
    /\ task[k] = Free
    /\ \E i \in Ids : /\ component[kind][i] # Nil
                      /\ task' = [task EXCEPT ![k] = [Free EXCEPT !.pc = "activate", !.kind = kind,
                                      !.id = i, !.found = Present(kind)]]
    /\ Unchanged

\* ... and waits for those that are locked; then one row is activated, if it is still there.
Deactivated_M(k) == {task[k].id}
Deactivated(k) == task[k].found

Activate(k) ==
    /\ task[k].pc = "activate"
    /\ component' = [component EXCEPT ![task[k].kind] = [i \in Ids |->
          IF i \in Present(task[k].kind) /\ i \in Deactivated(k) \cup {task[k].id}
          THEN [component[task[k].kind][i] EXCEPT !.active = i = task[k].id]
          ELSE component[task[k].kind][i]]]
    /\ Done(k)
    /\ UNCHANGED there

Quit(k) == task[k] # Free /\ Done(k) /\ Unchanged

Step(k) == Quit(k) \/ InsertGenerator(k) \/ Activate(k)

Begin(k) ==
    \/ \E source \in Sources : CountGenerators(k, source)
    \/ \E kind \in Kinds : FindAll(k, kind)

Edit ==
    \/ \E kind \in Kinds, source \in Sources : Insert(kind, source) \/ Change(kind, source)
    \/ \E kind \in Kinds : Remove(kind)

-----------------------------------------------------------------------------
TypeOK ==
    /\ component \in [Kinds -> [Ids -> {Nil, Gone} \cup [source : Sources, active : BOOLEAN]]]
    /\ task \in [Authors -> [pc : {"idle", "insert", "activate"}, kind : Kinds \cup {Nil},
                             id : Ids \cup {Nil}, source : Sources \cup {Nil}, first : BOOLEAN,
                             found : SUBSET Ids, raced : BOOLEAN]]

\* "Auto-activate if this is the first generator" (admin_components.go:334), "Deactivate all
\* of this type ... Activate this one" (:582): a kind gets a second active component only from
\* a creation or an activation during which a component of the kind was inserted, or from a
\* creation whose count failed; an activation with no such overlap leaves its own component
\* active and no other.
OneActiveComponent ==
    [][\A kind \in Kinds :
         /\ Cardinality(ActiveOf(kind)) <= 1 /\ Cardinality(ActiveOf(kind)') > 1 =>
               \E k \in Authors : task[k].kind = kind /\ task[k].raced /\ task'[k] = Free
         /\ \A k \in Authors :
               task[k].pc = "activate" /\ task[k].kind = kind /\ task'[k] = Free /\ ~task[k].raced
               /\ component' # component => ActiveOf(kind)' \subseteq {task[k].id}]_vars
=============================================================================
