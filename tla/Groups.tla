------------------------------- MODULE Groups -------------------------------
(***************************************************************************)
(* One group: its members and their roles, and the requests to join it     *)
(* (groups.go).  Handlers run at the same time; each is a sequence of      *)
(* database statements, and what one has read may be out of date when it   *)
(* writes.  Only the decision of a request is a transaction that locks.    *)
(***************************************************************************)
EXTENDS Naturals, FiniteSets

CONSTANTS
    Users,
    SiteAdmins,     \* users whose site role is admin
    Requests,       \* ids of join requests
    Calls,          \* goroutines that run a handler, one call after the other
    Asks,           \* bound: the calls that are made
    NoRow

Roles == {"member", "admin"}
Decisions == {"approved", "rejected"}
Statuses == {"pending", "approved", "rejected", "deleted"}
Ops == {"join", "leave", "decide", "add", "update", "remove"}
AllAsks ==
    [op : {"join", "leave"}, user : Users] \cup
    [op : {"add", "update"}, user : Users, target : Users, role : Roles] \cup
    [op : {"remove"}, user : Users, target : Users] \cup
    [op : {"decide"}, user : Users, request : Requests, decision : Decisions]

ASSUME GroupsAssumption ==
    /\ IsFiniteSet(Users) /\ SiteAdmins \subseteq Users
    /\ Asks \subseteq AllAsks
    /\ NoRow \notin Roles \cup [user : Users, status : Statuses]

VARIABLES
    group,     \* "new", "there" or "deleted"
    member,    \* group_members: the role of each member
    join,      \* group_join_requests
    call,      \* the calls in progress
    added      \* history: users who were members by another way than a request

vars == <<group, member, join, call, added>>

\* clean: no other call was in progress since this one began, the group was there already,
\* and no read failed.
Idle == [pc |-> "idle", ask |-> NoRow, clean |-> FALSE]

Init ==
    /\ group = "new"
    /\ member = [u \in Users |-> NoRow]
    /\ join = [r \in Requests |-> NoRow]
    /\ call = [k \in Calls |-> Idle]
    /\ added = {}

Admins == {u \in Users : member[u] = "admin"}
Pending(u) == {r \in Requests : join[r] # NoRow /\ join[r].user = u /\ join[r].status = "pending"}

\* A request that a transaction has locked with FOR UPDATE.
Locked_M(r) == FALSE
Locked(r) == \E k \in Calls : call[k].pc = "commit" /\ call[k].ask.request = r

-----------------------------------------------------------------------------
\* AdminCreateGroup: one transaction adds the group, its creator and other admins.
Create(u, others) ==
    /\ group = "new" /\ u \in SiteAdmins
    /\ group' = "there"
    /\ member' = [v \in Users |-> IF v \in others \cup {u} THEN "admin" ELSE NoRow]
    /\ added' = others \cup {u}
    /\ call' = [k \in Calls |-> [call[k] EXCEPT !.clean = FALSE]]
    /\ UNCHANGED join

\* AdminDeleteGroup: the rows of the group go with it.
Delete ==
    /\ group = "there" /\ \A r \in Requests : ~Locked(r)
    /\ group' = "deleted"
    /\ member' = [u \in Users |-> NoRow]
    /\ join' = [r \in Requests |-> IF join[r] = NoRow THEN NoRow
                                   ELSE [join[r] EXCEPT !.status = "deleted"]]
    /\ added' = {}
    /\ UNCHANGED call

\* CancelJoinRequest: one statement; a row that is locked is looked at again later.
Cancel(u) ==
    /\ \A r \in Pending(u) : ~Locked(r)
    /\ join' = [r \in Requests |-> IF r \in Pending(u) THEN [join[r] EXCEPT !.status = "deleted"]
                                   ELSE join[r]]
    /\ UNCHANGED <<group, member, call, added>>

-----------------------------------------------------------------------------
\* The steps of the handlers that need more than one statement.
At(k, op, pc) == call[k].pc = pc /\ call[k].ask.op = op
Go(k, pc) == call' = [call EXCEPT ![k].pc = pc]
Return(k) == call' = [call EXCEPT ![k] = Idle]
GoIf(k, condition, pc) == IF condition THEN Go(k, pc) ELSE Return(k)
Same == UNCHANGED <<group, member, join, added>>

FirstStep(a) == CASE a.op = "join" -> "group" [] a.op = "leave" -> "role"
                  [] a.op \notin {"join", "leave"} -> "authorize"

Begin(k) ==
    /\ call[k] = Idle
    /\ \E a \in Asks :
          call' = [j \in Calls |->
              IF j = k THEN [pc |-> FirstStep(a), ask |-> a,
                             clean |-> \A i \in Calls \ {k} : call[i] = Idle]
              ELSE [call[j] EXCEPT !.clean = FALSE]]
    /\ Same

\* A statement fails: most handlers return an error.
Fail(k) == call[k] # Idle /\ Return(k) /\ Same

\* isGroupAdmin.
IsGroupAdmin(u) == u \in SiteAdmins \/ member[u] = "admin"

SelfDemotion(a) == a.op = "update" /\ a.target = a.user /\ a.role # "admin"

NextStep(a) == CASE a.op = "decide" -> "lock"
                 [] a.op = "remove" -> "role"
                 [] SelfDemotion(a) -> "count"
                 [] a.op = "add" \/ (a.op = "update" /\ ~SelfDemotion(a)) -> "write"

Authorize(k) ==
    /\ call[k].pc = "authorize"
    /\ GoIf(k, IsGroupAdmin(call[k].ask.user), NextStep(call[k].ask))
    /\ Same

\* RequestJoinGroup.
JoinGroup(k) ==
    /\ At(k, "join", "group") /\ GoIf(k, group = "there", "member") /\ Same

\* An error of this read is ignored: the user is taken for no member.
JoinMember(k) ==
    /\ At(k, "join", "member")
    /\ GoIf(k, member[call[k].ask.user] = NoRow, "write") \/ Go(k, "write")
    /\ Same

\* The index idx_gjr_one_pending allows one pending request per user and group; an
\* insert waits for a transaction that may change that request.
JoinInsert(k) ==
    /\ At(k, "join", "write")
    /\ LET u == call[k].ask.user IN
       /\ \A r \in Pending(u) : ~Locked(r)
       /\ IF group = "there" /\ Pending(u) = {}
          THEN \E r \in {x \in Requests : join[x] = NoRow} :
                  join' = [join EXCEPT ![r] = [user |-> u, status |-> "pending"]]
          ELSE join' = join
    /\ Return(k)
    /\ UNCHANGED <<group, member, added>>

\* LeaveGroup and AdminRemoveGroupMember read the role of the user who is to go.
Going(a) == IF a.op = "leave" THEN a.user ELSE a.target

LeaveRole(k) ==
    /\ At(k, "leave", "role")
    /\ LET role == member[call[k].ask.user] IN
       IF role = NoRow THEN Return(k)
       ELSE Go(k, IF role = "admin" THEN "count" ELSE "write")
    /\ Same

RemoveRole(k) ==
    /\ At(k, "remove", "role")
    /\ Go(k, IF member[call[k].ask.target] = "admin" THEN "count" ELSE "write")
    /\ Same

\* The error of that read is ignored: nobody is taken for an admin.
RemoveRoleFails(k) ==
    /\ At(k, "remove", "role")
    /\ call' = [call EXCEPT ![k].pc = "write", ![k].clean = FALSE]
    /\ Same

\* The number of admins is read to see whether another one remains.
EnoughAdmins_M(n) == n >= 1
EnoughAdmins(n) == n > 1

Count(k) ==
    /\ call[k].pc = "count"
    /\ GoIf(k, EnoughAdmins(Cardinality(Admins)), "write")
    /\ Same

Leave(k) ==
    /\ call[k].pc = "write" /\ call[k].ask.op \in {"leave", "remove"}
    /\ member' = [member EXCEPT ![Going(call[k].ask)] = NoRow]
    /\ Return(k)
    /\ UNCHANGED <<group, join, added>>

\* AdminUpdateGroupMember sets the role of a member, AdminAddGroupMember of anybody.
Update(k) ==
    /\ At(k, "update", "write")
    /\ LET a == call[k].ask IN
       member' = [member EXCEPT ![a.target] = IF @ = NoRow THEN NoRow ELSE a.role]
    /\ Return(k)
    /\ UNCHANGED <<group, join, added>>

Add(k) ==
    /\ At(k, "add", "write")
    /\ LET a == call[k].ask IN
       IF group = "there"
       THEN member' = [member EXCEPT ![a.target] = a.role] /\ added' = added \cup {a.target}
       ELSE UNCHANGED <<member, added>>
    /\ Return(k)
    /\ UNCHANGED <<group, join>>

-----------------------------------------------------------------------------
\* AdminDecideJoinRequest: the transaction locks the request and looks whether it is
\* pending, and then decides it and adds the member.
Decidable(r) == join[r] # NoRow /\ join[r].status = "pending"

DecideLock(k) ==
    /\ At(k, "decide", "lock")
    /\ LET r == call[k].ask.request IN ~Locked(r) /\ GoIf(k, Decidable(r), "commit")
    /\ Same

\* ON CONFLICT DO NOTHING: the role of a user who is a member already stays.
RoleAfter_M(u) == "approved"
RoleAfter(u) == IF member[u] = NoRow THEN "member" ELSE member[u]

Admits_M(a) == TRUE
Admits(a) == a.decision = "approved"

DecideCommit(k) ==
    /\ At(k, "decide", "commit")
    /\ LET a == call[k].ask
           u == join[a.request].user IN
       /\ join' = [join EXCEPT ![a.request].status = a.decision]
       /\ member' = IF Admits(a) THEN [member EXCEPT ![u] = RoleAfter(u)] ELSE member
    /\ Return(k)
    /\ UNCHANGED <<group, added>>

Handler(k) ==
    \/ Begin(k) \/ Fail(k) \/ Authorize(k) \/ Count(k)
    \/ JoinGroup(k) \/ JoinMember(k) \/ JoinInsert(k)
    \/ LeaveRole(k) \/ RemoveRole(k) \/ RemoveRoleFails(k) \/ Leave(k)
    \/ Update(k) \/ Add(k)
    \/ DecideLock(k) \/ DecideCommit(k)

Next ==
    \/ \E u \in Users, others \in SUBSET Users : Create(u, others)
    \/ Delete
    \/ \E u \in Users : Cancel(u)
    \/ \E k \in Calls : Handler(k)

Spec == Init /\ [][Next]_vars

-----------------------------------------------------------------------------
PCs == {"group", "member", "authorize", "role", "count", "lock", "commit", "write"}
CallRows == {Idle} \cup [pc : PCs, ask : Asks, clean : BOOLEAN]
JoinRows == {NoRow} \cup [user : Users, status : Statuses]

TypeOK ==
    /\ group \in {"new", "there", "deleted"}
    /\ member \in [Users -> Roles \cup {NoRow}]
    /\ join \in [Requests -> JoinRows]
    /\ call \in [Calls -> CallRows]
    /\ added \subseteq Users

\* "Request is not pending" (groups.go:594): a decision is final.  Two admins who decide
\* the same request at once, or a user who cancels meanwhile, do not change it.
DecisionIsFinal ==
    [][\A r \in Requests :
         join[r] # NoRow /\ join[r].status \in Decisions /\ group' = "there"
         => join'[r] = join[r]]_vars

\* Answers and members agree: a member who was never added by an admin has a request that
\* was approved; nobody is in whose requests were all rejected or cancelled.
MembersAreExplained ==
    \A u \in Users \ added : member[u] # NoRow =>
        \E r \in Requests : join[r] # NoRow /\ join[r].user = u /\ join[r].status = "approved"

\* The group loses its last admin only by a call that overlapped another one (or whose
\* read failed), by an add that demotes, by a site admin who demotes somebody else, or
\* with the group: leaving, removing and demoting oneself look for another admin.
LastAdminGuarded ==
    [][Admins # {} /\ Admins' = {} /\ group' = "there" =>
         \E k \in Calls :
            /\ call[k].pc = "write" /\ call'[k] = Idle
            /\ \/ ~call[k].clean
               \/ call[k].ask.op = "add"
               \/ call[k].ask.op = "update" /\ ~SelfDemotion(call[k].ask)]_vars

\* "Group admins who are the last admin in the group cannot leave" (groups.go:253).
LastAdminCannotLeave ==
    [][\A k \in Calls :
         At(k, "leave", "write") /\ call'[k] = Idle /\ Admins # {} => member' = member \/ Admins' # {}]_vars
=============================================================================
