------------------------------- MODULE Access -------------------------------
(***************************************************************************)
(* Permission checks of the API server: requirePermission in front of      *)
(* every handler, and the handlers of RoleService and StaffService that    *)
(* edit what it reads.                                                     *)
(*                                                                         *)
(* A request reads the tenant's roles, then the permissions of these       *)
(* roles, then the user's assignments: three statements that are not one   *)
(* snapshot.  evaluatePermissions decides on what was read, and the        *)
(* handler runs afterwards, with one statement of its own.                 *)
(*                                                                         *)
(* Data: a permission is its name without the scope; Covers says which     *)
(* names a row matches.  Scopes are their ranks, own 1 to any 4.  No       *)
(* service writes effective windows, thresholds or overrides of a user,    *)
(* and requirePermission passes no target: windows are always open, the    *)
(* target is the branch of the token, and nothing has an owner.            *)
(***************************************************************************)
EXTENDS Integers, FiniteSets, FiniteSetsExt

CONSTANTS
  Roles, Users, Branches,
  Perms,        \* names of permissions
  Covers,       \* Covers[p]: names that a row of p matches (itself, or by "manage")
  Scopes,       \* ranks in use
  Rows,         \* ids of permission rows
  Assigns,      \* ids of user_roles rows
  Requests,
  Needs,        \* Needs[h]: the permission that the route of handler h requires
  Starts,       \* contents of the three tables that earlier edits left
  MaxDepth,     \* maxDepth of resolveRoleInheritance (3)
  None

Handlers == {"serve", "createRole", "updateRole", "deleteRole", "assignPermission",
             "revokePermission", "assignRole", "revokeRole"}

RoleRows == [state : {"ABSENT", "LIVE", "DELETED"}, parent : Roles \cup {None}]
PermissionRows == [role : Roles \cup {None}, perm : Perms \cup {None}, deny : BOOLEAN,
                   scope : Scopes \cup {0}, live : BOOLEAN]
AssignRows == [user : Users \cup {None}, role : Roles \cup {None},
               branch : Branches \cup {None}, live : BOOLEAN]
Tables == [role : [Roles -> RoleRows], row : [Rows -> PermissionRows],
           assigned : [Assigns -> AssignRows]]

RolesRead == UNION {[S -> Roles \cup {None}] : S \in SUBSET Roles}
RequestRecords == [user : Users \cup {None}, branch : Branches \cup {None}, need : Perms \cup {None},
                   roles : RolesRead, rows : SUBSET PermissionRows]

ASSUME AccessAssumption ==
  /\ None \notin Roles \cup Users \cup Perms \cup Branches
  /\ Covers \in [Perms -> SUBSET Perms] /\ Needs \in [Handlers -> Perms]
  /\ Scopes \subseteq 1..4 /\ MaxDepth \in Nat
  /\ Starts \subseteq Tables
  /\ \A s \in Starts : \A i \in Rows : s.row[i].live => s.row[i].perm # None
ASSUME RowsAssumption == IsFiniteSet(Rows)

VARIABLES
  role,      \* roles: live, deleted or not created, and parent_id
  row,       \* permissions
  assigned,  \* user_roles; branch None: everywhere
  pc,        \* each request: next statement, or how it ended
  rq,        \* user, branch and needed permission of a request, and what it has read
  changed,   \* table changes between the reads of a request, up to two (history)
  verdicts   \* what the tables would have answered since it began (history)

tables == <<role, row, assigned>>
vars == <<role, row, assigned, pc, rq, changed, verdicts>>

NoRequest == [user |-> None, branch |-> None, need |-> None, roles |-> <<>>, rows |-> {}]

-----------------------------------------------------------------------------
(* getRbacMatrix: soft-deleted rows are not read. *)

\* Live roles, with their parents.
RolesOf(roles) ==
  [r \in {s \in Roles : roles[s].state = "LIVE"} |-> roles[r].parent]
PermissionsOf(rows, parents) ==
  {rows[i] : i \in {j \in Rows : rows[j].live /\ rows[j].role \in DOMAIN parents}}
AssignmentsOf(assignments, u) ==
  {assignments[a] : a \in {c \in Assigns : assignments[c].live /\ assignments[c].user = u}}

Matrix(parents, rows, assignments) ==
  [parents |-> parents, rows |-> rows, assignments |-> assignments]

-----------------------------------------------------------------------------
(* evaluatePermissions *)

NoGrant == [effect |-> "NONE", scope |-> 0]

\* Two rows of one name: DENY wins in either order, the broader ALLOW otherwise.
MergeLastWins(grant, old) ==  \* fault: the role closer to the user wins
  [effect |-> IF grant.deny THEN "DENY" ELSE "ALLOW", scope |-> grant.scope]
MergeGrant(grant, old) ==
  CASE grant.deny -> [effect |-> "DENY", scope |-> grant.scope]
    [] ~grant.deny /\ old.effect = "DENY" -> old
    [] OTHER -> [effect |-> "ALLOW",
                 scope |-> IF grant.scope > old.scope THEN grant.scope ELSE old.scope]

\* The role that resolveRoleInheritance visits at each depth; a role that was
\* not read ends the chain.
Lineage(m, r) ==
  LET at[d \in 0..MaxDepth] ==
        IF d = 0 THEN r
        ELSE IF at[d - 1] \in DOMAIN m.parents THEN m.parents[at[d - 1]] ELSE None
  IN at

\* CircularInheritanceError: a role is visited twice.
Circular(m, r) ==
  LET at == Lineage(m, r) IN
  \E d, e \in 0..MaxDepth : d < e /\ at[d] = at[e] /\ at[e] # None

\* The rows of name p, merged from the remotest ancestor down to the role.
ResolvedGrant(m, r, p) ==
  LET at == Lineage(m, r)
      merged[d \in 0..(MaxDepth + 1)] ==
        IF d = MaxDepth + 1 THEN NoGrant
        ELSE FoldSet(MergeGrant, merged[d + 1], {g \in m.rows : g.role = at[d] /\ g.perm = p})
  IN merged[0]

\* Assignments that count in branch b.
CountedRoles(m, b) == {a.role : a \in {c \in m.assignments : c.branch \in {None, b}}}

\* The target is the token's branch and has no owner: only "own" falls short.
ScopeSufficient(scope) == scope > 1

Evaluate(m, b, p) ==
  LET counted == CountedRoles(m, b)
      matching == {k \in Perms : p \in Covers[k]}
      grants == {ResolvedGrant(m, r, k) : r \in counted, k \in matching}
  IN
  /\ \A r \in counted : ~Circular(m, r)
  /\ \A g \in grants : g.effect # "DENY"
  /\ \E g \in grants : g.effect = "ALLOW" /\ ScopeSufficient(g.scope)

\* What the tables answer to a request, all read at once.
Answer(roles, rows, assignments, x) ==
  Evaluate(Matrix(RolesOf(roles), PermissionsOf(rows, RolesOf(roles)),
                  AssignmentsOf(assignments, x.user)), x.branch, x.need)

-----------------------------------------------------------------------------
Init ==
  /\ \E s \in Starts : role = s.role /\ row = s.row /\ assigned = s.assigned
  /\ pc = [q \in Requests |-> "off"]
  /\ rq = [q \in Requests |-> NoRequest]
  /\ changed = [q \in Requests |-> 0]
  /\ verdicts = [q \in Requests |-> {}]

Goto(q, from, to) == pc[q] = from /\ pc' = [pc EXCEPT ![q] = to]

Reading == {"permissions", "assignments"}
Checking == {"roles"} \cup Reading

(* The check of one request. *)

Begin(q) ==
  \E u \in Users, b \in Branches \cup {None}, p \in {Needs[h] : h \in Handlers} :
    LET x == [user |-> u, branch |-> b, need |-> p, roles |-> <<>>, rows |-> {}] IN
    /\ Goto(q, "off", "roles")
    /\ rq' = [rq EXCEPT ![q] = x]
    /\ verdicts' = [verdicts EXCEPT ![q] = {Answer(role, row, assigned, x)}]
    /\ UNCHANGED <<tables, changed>>

ReadDeletedRoles(q) ==  \* fault: soft-deleted roles are read
  /\ Goto(q, "roles", "permissions")
  /\ rq' = [rq EXCEPT ![q].roles =
       [r \in {s \in Roles : role[s].state # "ABSENT"} |-> role[r].parent]]
  /\ UNCHANGED <<tables, changed, verdicts>>

ReadRoles(q) ==
  /\ Goto(q, "roles", "permissions")
  /\ rq' = [rq EXCEPT ![q].roles = RolesOf(role)]
  /\ UNCHANGED <<tables, changed, verdicts>>

ReadPermissions(q) ==
  /\ Goto(q, "permissions", "assignments")
  /\ rq' = [rq EXCEPT ![q].rows = PermissionsOf(row, rq[q].roles)]
  /\ UNCHANGED <<tables, changed, verdicts>>

\* The last read, and the decision in the same turn of the event loop.
Decide(q) ==
  LET x == rq[q]
      m == Matrix(x.roles, x.rows, AssignmentsOf(assigned, x.user))
  IN
  /\ Goto(q, "assignments", IF Evaluate(m, x.branch, x.need) THEN "act" ELSE "refused")
  /\ rq' = [rq EXCEPT ![q].roles = <<>>, ![q].rows = {}]
  /\ UNCHANGED <<tables, changed, verdicts>>

\* A statement fails (403 while checking, 500 later) or the process ends.
Break(q) ==
  /\ pc[q] \in Checking \cup {"act"}
  /\ Goto(q, pc[q], "failed")
  /\ rq' = [rq EXCEPT ![q] = NoRequest]
  /\ UNCHANGED <<tables, changed, verdicts>>

-----------------------------------------------------------------------------
(* The handlers, after the check. *)

Run(q, h) == Goto(q, "act", "done") /\ rq[q].need = Needs[h] /\ UNCHANGED rq

\* A change as the checks in progress see it.
Noticed ==
  /\ changed' = [q \in Requests |->
       IF pc[q] \in Reading /\ changed[q] < 2 THEN changed[q] + 1 ELSE changed[q]]
  /\ verdicts' = [q \in Requests |->
       IF pc[q] \in Checking THEN verdicts[q] \cup {Answer(role', row', assigned', rq[q])}
                             ELSE verdicts[q]]

Created == {r \in Roles : role[r].state # "ABSENT"}

\* Every handler that edits none of the three tables.
Serve(q) == Run(q, "serve") /\ UNCHANGED <<tables, changed, verdicts>>

CreateRole(q) ==
  \E r \in Roles \ Created, p \in Created \cup {None} :
    /\ Run(q, "createRole")
    /\ role' = [role EXCEPT ![r] = [state |-> "LIVE", parent |-> p]]
    /\ UNCHANGED <<row, assigned>>
    /\ Noticed

\* Neither the role nor the parent need be live, and the parent may be a descendant.
UpdateRole(q) ==
  \E r \in Created, p \in Created \cup {None} :
    /\ Run(q, "updateRole")
    /\ role' = [role EXCEPT ![r].parent = p]
    /\ UNCHANGED <<row, assigned>>
    /\ Noticed

DeleteRole(q) ==
  \E r \in Created :
    /\ Run(q, "deleteRole")
    /\ role' = [role EXCEPT ![r].state = "DELETED"]
    /\ UNCHANGED <<row, assigned>>
    /\ Noticed

AssignPermission(q) ==
  \E i \in Rows, r \in Created, p \in Perms, deny \in BOOLEAN, s \in Scopes :
    /\ Run(q, "assignPermission")
    /\ row[i].role = None
    /\ row' = [row EXCEPT ![i] = [role |-> r, perm |-> p, deny |-> deny, scope |-> s, live |-> TRUE]]
    /\ UNCHANGED <<role, assigned>>
    /\ Noticed

RevokePermission(q) ==
  \E i \in Rows :
    /\ Run(q, "revokePermission")
    /\ row[i].role # None
    /\ row' = [row EXCEPT ![i].live = FALSE]
    /\ UNCHANGED <<role, assigned>>
    /\ Noticed

AssignRole(q) ==
  \E a \in Assigns, u \in Users, r \in Created, b \in Branches \cup {None} :
    /\ Run(q, "assignRole")
    /\ assigned[a].user = None
    /\ assigned' = [assigned EXCEPT ![a] = [user |-> u, role |-> r, branch |-> b, live |-> TRUE]]
    /\ UNCHANGED <<role, row>>
    /\ Noticed

RevokeRole(q) ==
  \E a \in Assigns :
    /\ Run(q, "revokeRole")
    /\ assigned[a].user # None
    /\ assigned' = [assigned EXCEPT ![a].live = FALSE]
    /\ UNCHANGED <<role, row>>
    /\ Noticed

-----------------------------------------------------------------------------
Check(q) == Begin(q) \/ ReadRoles(q) \/ ReadPermissions(q) \/ Decide(q) \/ Break(q)
Act(q) ==
  \/ Serve(q) \/ CreateRole(q) \/ UpdateRole(q) \/ DeleteRole(q)
  \/ AssignPermission(q) \/ RevokePermission(q) \/ AssignRole(q) \/ RevokeRole(q)

Next == \E q \in Requests : Check(q) \/ Act(q)

Spec == Init /\ [][Next]_vars

-----------------------------------------------------------------------------
(* Properties. *)

\* Tables, requests and histories keep their types.
TypeOK ==
  /\ role \in [Roles -> RoleRows]
  /\ row \in [Rows -> PermissionRows]
  /\ assigned \in [Assigns -> AssignRows]
  /\ pc \in [Requests -> Checking \cup {"off", "act", "done", "refused", "failed"}]
  /\ rq \in [Requests -> RequestRecords]
  /\ changed \in [Requests -> 0..2]
  /\ verdicts \in [Requests -> SUBSET BOOLEAN]

\* The answer to a request was the right one at some moment since it began,
\* although roles, permissions and assignments are read one after the other, if
\* at most one of them changed in between (rbac.middleware.ts, getRbacMatrix).
AnswerWasRight ==
  \A q \in Requests : changed[q] <= 1 =>
    /\ pc[q] \in {"act", "done"} => TRUE \in verdicts[q]
    /\ pc[q] = "refused" => FALSE \in verdicts[q]

\* A path of parents, all live except perhaps the last one.
Path(path, m, r, n) ==
  path[0] = r /\ \A i \in 0..(n - 1) : path[i] \in DOMAIN m.parents /\ path[i + 1] = m.parents[path[i]]
Family(m, r) ==
  {s \in Roles : \E n \in 0..MaxDepth : \E path \in [0..n -> Roles] : Path(path, m, r, n) /\ path[n] = s}
InCircle(m, r) ==
  \E n \in 1..MaxDepth : \E path \in [0..n -> Roles] :
    Path(path, m, r, n) /\ \E i \in 0..(n - 1) : path[i] = path[n]

\* What docs/RBAC.md says of a set of rows: a row of a counted role or of an
\* ancestor within the depth allows it at more than "own", and none denies it.
Declared(m, b) ==
  LET counted == CountedRoles(m, b)
      family == UNION {Family(m, r) : r \in counted}
      said == {g \in m.rows : g.role \in family}
  IN IF \E r \in counted : InCircle(m, r) THEN {}
     ELSE {p \in Perms : /\ \E g \in said : p \in Covers[g.perm] /\ ~g.deny /\ g.scope > 1
                         /\ \A g \in said : p \in Covers[g.perm] => ~g.deny}

\* For all roles, rows and assignments, resolving and merging along the chain of
\* parents comes to what the rows declare (rbacService.ts,
\* resolveRoleInheritance and evaluatePermissions).
DecisionIsDeclared ==
  \A u \in Users, b \in Branches \cup {None} :
    LET m == Matrix(RolesOf(role), PermissionsOf(row, RolesOf(role)), AssignmentsOf(assigned, u))
    IN {p \in Perms : Evaluate(m, b, p)} = Declared(m, b)
=============================================================================
