---------------------------- MODULE AccessProofs ----------------------------
(***************************************************************************)
(* Theorems on the permission checks, for any number of requests, roles,   *)
(* rows and assignments.                                                   *)
(*                                                                         *)
(* Of Evaluate the proof of AnswerWasRight uses only that it answers TRUE  *)
(* or FALSE; what it answers is the subject of the second half, which      *)
(* follows the chain of parents and the fold over the rows step by step.   *)
(*                                                                         *)
(* AnswerWasRight is not inductive: it says nothing of a check in          *)
(* progress.  Foreseen does: what a request will decide, if nothing more   *)
(* changes, is already among its verdicts.  A change after its read leaves *)
(* that decision as it is; a change before its read makes it the answer of *)
(* the new tables, provided that what it has read is still current, which  *)
(* one change at most guarantees.                                          *)
(***************************************************************************)
EXTENDS Access, SumLemmas

\* The decision once the roles, or the roles and the permissions, are read.
OnRoles(roles, rows, assignments, x) ==
  Evaluate(Matrix(roles, PermissionsOf(rows, roles), AssignmentsOf(assignments, x.user)),
           x.branch, x.need)
OnRows(roles, grants, assignments, x) ==
  Evaluate(Matrix(roles, grants, AssignmentsOf(assignments, x.user)), x.branch, x.need)

Foreseen(q) ==
  changed[q] <= 1 =>
    /\ pc[q] = "roles" => Answer(role, row, assigned, rq[q]) \in verdicts[q]
    /\ pc[q] = "permissions" =>
         /\ changed[q] = 0 => rq[q].roles = RolesOf(role)
         /\ OnRoles(rq[q].roles, row, assigned, rq[q]) \in verdicts[q]
    /\ pc[q] = "assignments" =>
         /\ changed[q] = 0 => /\ rq[q].roles = RolesOf(role)
                              /\ rq[q].rows = PermissionsOf(row, rq[q].roles)
         /\ OnRows(rq[q].roles, rq[q].rows, assigned, rq[q]) \in verdicts[q]
    /\ pc[q] \in {"act", "done"} => TRUE \in verdicts[q]
    /\ pc[q] = "refused" => FALSE \in verdicts[q]

IndInv == TypeOK /\ \A q \in Requests : Foreseen(q)

\* What the seven editing handlers have in common.
Edit(q) ==
  /\ pc[q] = "act"
  /\ pc' = [pc EXCEPT ![q] = "done"]
  /\ rq' = rq
  /\ Noticed
  /\ \/ UNCHANGED <<role, row>>
     \/ UNCHANGED <<role, assigned>>
     \/ UNCHANGED <<row, assigned>>

-----------------------------------------------------------------------------
(* The operators. *)

\* A decision is TRUE or FALSE.
LEMMA Decides == \A m, b, p : Evaluate(m, b, p) \in BOOLEAN
  BY DEF Evaluate

\* What is read has the type of what is kept.
LEMMA ReadsTyped ==
  ASSUME TypeOK
  PROVE  /\ RolesOf(role) \in RolesRead
         /\ \A parents : PermissionsOf(row, parents) \subseteq PermissionRows
  <1>1. RolesOf(role) \in [{s \in Roles : role[s].state = "LIVE"} -> Roles \cup {None}]
    BY DEF TypeOK, RolesOf, RoleRows
  <1>2. \A parents : PermissionsOf(row, parents) \subseteq PermissionRows
    BY DEF TypeOK, PermissionsOf
  <1> QED BY <1>1, <1>2 DEF RolesRead

\* A request that has read nothing is typed.
LEMMA NothingRead == <<>> \in RolesRead
  <1>1. <<>> \in [{} -> Roles \cup {None}]
    OBVIOUS
  <1> QED BY <1>1 DEF RolesRead

\* The three ways to state an answer agree.
LEMMA SameAnswer ==
  /\ \A roles, rows, assignments, x :
       Answer(roles, rows, assignments, x) = OnRoles(RolesOf(roles), rows, assignments, x)
  /\ \A roles, rows, assignments, x :
       OnRoles(roles, rows, assignments, x)
         = OnRows(roles, PermissionsOf(rows, roles), assignments, x)
  BY DEF Answer, OnRoles, OnRows

-----------------------------------------------------------------------------
(* Types. *)

\* Noticing a change keeps the types of the histories.
LEMMA NoticedTyped ==
  ASSUME TypeOK, Noticed
  PROVE  changed' \in [Requests -> 0..2] /\ verdicts' \in [Requests -> SUBSET BOOLEAN]
  <1>1. \A q \in Requests : Answer(role', row', assigned', rq[q]) \in BOOLEAN
    BY Decides DEF Answer
  <1> QED BY <1>1 DEF TypeOK, Noticed

\* Handlers keep the types of the tables.
LEMMA EditTyped ==
  ASSUME TypeOK, NEW q \in Requests, Act(q)
  PROVE  /\ role' \in [Roles -> RoleRows]
         /\ row' \in [Rows -> PermissionRows]
         /\ assigned' \in [Assigns -> AssignRows]
  <1>1. CASE Serve(q)
    BY <1>1 DEF Serve, TypeOK, tables
  <1>2. CASE CreateRole(q)
    BY <1>2 DEF CreateRole, TypeOK, RoleRows, Created
  <1>3. CASE UpdateRole(q)
    BY <1>3 DEF UpdateRole, TypeOK, RoleRows, Created
  <1>4. CASE DeleteRole(q)
    BY <1>4 DEF DeleteRole, TypeOK, RoleRows, Created
  <1>5. CASE AssignPermission(q)
    BY <1>5 DEF AssignPermission, TypeOK, PermissionRows, Created
  <1>6. CASE RevokePermission(q)
    <2>1. PICK i \in Rows : row' = [row EXCEPT ![i] = [row[i] EXCEPT !.live = FALSE]]
      BY <1>6 DEF RevokePermission
    <2>2. [row[i] EXCEPT !.live = FALSE] \in PermissionRows
      BY DEF TypeOK, PermissionRows
    <2> QED BY <1>6, <2>1, <2>2 DEF RevokePermission, TypeOK
  <1>7. CASE AssignRole(q)
    BY <1>7 DEF AssignRole, TypeOK, AssignRows, Created
  <1>8. CASE RevokeRole(q)
    <2>1. PICK a \in Assigns : assigned' = [assigned EXCEPT ![a] = [assigned[a] EXCEPT !.live = FALSE]]
      BY <1>8 DEF RevokeRole
    <2>2. [assigned[a] EXCEPT !.live = FALSE] \in AssignRows
      BY DEF TypeOK, AssignRows
    <2> QED BY <1>8, <2>1, <2>2 DEF RevokeRole, TypeOK
  <1> QED BY <1>1, <1>2, <1>3, <1>4, <1>5, <1>6, <1>7, <1>8 DEF Act

\* Every handler is Serve or an edit of one table.
LEMMA HandlersEdit ==
  ASSUME NEW q \in Requests, Act(q)
  PROVE  Serve(q) \/ Edit(q)
  BY DEF Act, Run, Goto, Edit, CreateRole, UpdateRole, DeleteRole, AssignPermission,
         RevokePermission, AssignRole, RevokeRole

\* A step keeps TypeOK.
LEMMA StepTyped ==
  ASSUME TypeOK, [Next]_vars
  PROVE  TypeOK'
  <1>1. ASSUME NEW q \in Requests, Begin(q) PROVE TypeOK'
    <2>1. PICK u \in Users, b \in Branches \cup {None}, p \in {Needs[h] : h \in Handlers} :
            LET x == [user |-> u, branch |-> b, need |-> p, roles |-> <<>>, rows |-> {}] IN
            /\ Goto(q, "off", "roles")
            /\ rq' = [rq EXCEPT ![q] = x]
            /\ verdicts' = [verdicts EXCEPT ![q] = {Answer(role, row, assigned, x)}]
            /\ UNCHANGED <<tables, changed>>
      BY <1>1 DEF Begin
    <2> DEFINE x == [user |-> u, branch |-> b, need |-> p, roles |-> <<>>, rows |-> {}]
    <2>2. p \in Perms
      BY AccessAssumption
    <2>3. Answer(role, row, assigned, x) \in BOOLEAN
      BY Decides DEF Answer
    <2>4. verdicts' \in [Requests -> SUBSET BOOLEAN]
      <3> HIDE DEF x
      <3> QED BY <2>1, <2>3 DEF TypeOK, x
    <2>5. x \in RequestRecords
      BY <2>2, NothingRead DEF RequestRecords
    <2>6. rq' \in [Requests -> RequestRecords]
      <3> HIDE DEF x
      <3> QED BY <2>1, <2>5 DEF TypeOK, x
    <2> QED BY <2>1, <2>4, <2>6 DEF TypeOK, Goto, tables, Checking
  <1>2. ASSUME NEW q \in Requests, ReadRoles(q) PROVE TypeOK'
    <2>1. [rq[q] EXCEPT !.roles = RolesOf(role)] \in RequestRecords
      BY ReadsTyped DEF TypeOK, RequestRecords
    <2>2. rq' = [rq EXCEPT ![q] = [rq[q] EXCEPT !.roles = RolesOf(role)]]
      BY <1>2 DEF ReadRoles
    <2>3. rq' \in [Requests -> RequestRecords]
      BY <2>1, <2>2 DEF TypeOK
    <2> QED BY <1>2, <2>3 DEF ReadRoles, TypeOK, Goto, tables, Checking, Reading
  <1>3. ASSUME NEW q \in Requests, ReadPermissions(q) PROVE TypeOK'
    <2>1. [rq[q] EXCEPT !.rows = PermissionsOf(row, rq[q].roles)] \in RequestRecords
      BY ReadsTyped DEF TypeOK, RequestRecords
    <2>2. rq' = [rq EXCEPT ![q] = [rq[q] EXCEPT !.rows = PermissionsOf(row, rq[q].roles)]]
      BY <1>3 DEF ReadPermissions
    <2>3. rq' \in [Requests -> RequestRecords]
      BY <2>1, <2>2 DEF TypeOK
    <2> QED BY <1>3, <2>3 DEF ReadPermissions, TypeOK, Goto, tables, Checking, Reading
  <1>4. ASSUME NEW q \in Requests, Decide(q) PROVE TypeOK'
    <2>1. [rq[q] EXCEPT !.roles = <<>>, !.rows = {}] \in RequestRecords
      BY NothingRead DEF TypeOK, RequestRecords
    <2>2. rq' = [rq EXCEPT ![q] = [rq[q] EXCEPT !.roles = <<>>, !.rows = {}]]
      BY <1>4 DEF Decide
    <2>3. rq' \in [Requests -> RequestRecords]
      BY <2>1, <2>2 DEF TypeOK
    <2>4. PICK to \in {"act", "refused"} : pc' = [pc EXCEPT ![q] = to]
      BY <1>4 DEF Decide, Goto
    <2> QED BY <1>4, <2>3, <2>4 DEF Decide, TypeOK, tables
  <1>5. ASSUME NEW q \in Requests, Break(q) PROVE TypeOK'
    <2>1. NoRequest \in RequestRecords
      BY NothingRead DEF NoRequest, RequestRecords
    <2> QED BY <1>5, <2>1 DEF Break, TypeOK, Goto, tables
  <1>6. ASSUME NEW q \in Requests, Act(q) PROVE TypeOK'
    <2>1. CASE Serve(q)
      BY <2>1 DEF Serve, Run, Goto, TypeOK, tables
    <2>2. CASE Edit(q)
      BY <1>6, <2>2, EditTyped, NoticedTyped DEF Edit, TypeOK
    <2> QED BY <1>6, <2>1, <2>2, HandlersEdit
  <1>7. CASE UNCHANGED vars
    BY <1>7 DEF TypeOK, vars, tables
  <1> QED BY <1>1, <1>2, <1>3, <1>4, <1>5, <1>6, <1>7 DEF Next, Check

-----------------------------------------------------------------------------
(* The invariant. *)

\* It holds at the start.
LEMMA Initially == Init => IndInv
  <1> SUFFICES ASSUME Init PROVE IndInv
    OBVIOUS
  <1>1. TypeOK
    <2>1. NoRequest \in RequestRecords
      BY NothingRead DEF NoRequest, RequestRecords
    <2>2. PICK s \in Tables : role = s.role /\ row = s.row /\ assigned = s.assigned
      BY AccessAssumption DEF Init
    <2> QED BY <2>1, <2>2 DEF Init, TypeOK, Tables
  <1>2. \A q \in Requests : Foreseen(q)
    BY DEF Init, Foreseen
  <1> QED BY <1>1, <1>2 DEF IndInv

\* A step of a check keeps it.
LEMMA CheckForeseen ==
  ASSUME IndInv, NEW q \in Requests, Check(q), NEW r \in Requests
  PROVE  Foreseen(r)'
  <1>t. TypeOK /\ Foreseen(r) /\ Foreseen(q)
    BY DEF IndInv
  <1>0. CASE r # q
    <2>1. /\ UNCHANGED <<role, row, assigned, changed>>
          /\ pc'[r] = pc[r] /\ rq'[r] = rq[r] /\ verdicts'[r] = verdicts[r]
      BY <1>0, <1>t DEF Check, Begin, ReadRoles, ReadPermissions, Decide, Break, Goto, TypeOK, tables
    <2> QED BY <2>1, <1>t DEF Foreseen
  <1>1. CASE r = q /\ Begin(q)
    <2>1. PICK x : /\ pc' = [pc EXCEPT ![q] = "roles"]
                   /\ rq' = [rq EXCEPT ![q] = x]
                   /\ verdicts' = [verdicts EXCEPT ![q] = {Answer(role, row, assigned, x)}]
                   /\ UNCHANGED <<role, row, assigned, changed>>
      BY <1>1 DEF Begin, Goto, tables
    <2> QED BY <2>1, <1>1, <1>t DEF TypeOK, Foreseen
  <1>2. CASE r = q /\ ReadRoles(q)
    <2>1. /\ pc'[q] = "permissions" /\ pc[q] = "roles"
          /\ rq'[q] = [rq[q] EXCEPT !.roles = RolesOf(role)]
          /\ UNCHANGED <<role, row, assigned, changed, verdicts>>
      BY <1>2, <1>t DEF ReadRoles, Goto, TypeOK, tables
    <2>2. /\ rq'[q].roles = RolesOf(role) /\ rq'[q].user = rq[q].user
          /\ rq'[q].branch = rq[q].branch /\ rq'[q].need = rq[q].need
      BY <2>1, <1>t DEF TypeOK
    <2>3. OnRoles(rq'[q].roles, row, assigned, rq'[q]) = Answer(role, row, assigned, rq[q])
      BY <2>2 DEF OnRoles, Answer
    <2> QED BY <2>1, <2>2, <2>3, <1>t, <1>2 DEF Foreseen
  <1>3. CASE r = q /\ ReadPermissions(q)
    <2>1. /\ pc'[q] = "assignments" /\ pc[q] = "permissions"
          /\ rq'[q] = [rq[q] EXCEPT !.rows = PermissionsOf(row, rq[q].roles)]
          /\ UNCHANGED <<role, row, assigned, changed, verdicts>>
      BY <1>3, <1>t DEF ReadPermissions, Goto, TypeOK, tables
    <2>2. /\ rq'[q].roles = rq[q].roles /\ rq'[q].user = rq[q].user
          /\ rq'[q].branch = rq[q].branch /\ rq'[q].need = rq[q].need
          /\ rq'[q].rows = PermissionsOf(row, rq[q].roles)
      BY <2>1, <1>t DEF TypeOK
    <2>3. OnRows(rq'[q].roles, rq'[q].rows, assigned, rq'[q])
            = OnRoles(rq[q].roles, row, assigned, rq[q])
      BY <2>2 DEF OnRoles, OnRows
    <2> QED BY <2>1, <2>2, <2>3, <1>t, <1>3 DEF Foreseen
  <1>4. CASE r = q /\ Decide(q)
    <2> DEFINE answer == OnRows(rq[q].roles, rq[q].rows, assigned, rq[q])
    <2>1. /\ pc[q] = "assignments"
          /\ pc'[q] = IF answer THEN "act" ELSE "refused"
          /\ UNCHANGED <<changed, verdicts>>
      BY <1>4, <1>t DEF Decide, Goto, TypeOK, OnRows
    <2>2. answer \in BOOLEAN
      BY Decides DEF OnRows
    <2>3. changed[q] <= 1 => answer \in verdicts[q]
      BY <2>1, <1>t DEF Foreseen
    <2> HIDE DEF answer
    <2>4. CASE answer = TRUE
      BY <2>1, <2>3, <2>4, <1>4 DEF Foreseen
    <2>5. CASE answer = FALSE
      BY <2>1, <2>3, <2>5, <1>4 DEF Foreseen
    <2> QED BY <2>2, <2>4, <2>5
  <1>5. CASE r = q /\ Break(q)
    <2>1. pc'[q] = "failed"
      BY <1>5, <1>t DEF Break, Goto, TypeOK
    <2> QED BY <2>1, <1>5 DEF Foreseen
  <1> QED BY <1>0, <1>1, <1>2, <1>3, <1>4, <1>5 DEF Check

\* An edit keeps it, whichever table it changes.
LEMMA EditForeseen ==
  ASSUME IndInv, NEW q \in Requests, Edit(q), NEW r \in Requests
  PROVE  Foreseen(r)'
  <1>t. TypeOK /\ Foreseen(r)
    BY DEF IndInv
  <1> DEFINE now == Answer(role', row', assigned', rq[r])
  <1>0. rq'[r] = rq[r] /\ rq' = rq
    BY DEF Edit
  <1>1. CASE pc[r] \notin Checking
    <2>1. /\ verdicts'[r] = verdicts[r] /\ changed'[r] = changed[r]
          /\ pc'[r] = pc[r] \/ (pc[r] = "act" /\ pc'[r] = "done")
      BY <1>1, <1>t DEF Edit, Noticed, TypeOK, Checking
    <2> QED BY <2>1, <1>1, <1>t DEF Foreseen, Checking, Reading
  <1>2. CASE pc[r] \in Checking
    <2>1. pc'[r] = pc[r] /\ verdicts'[r] = verdicts[r] \cup {now}
      BY <1>2, <1>t DEF Edit, Noticed, TypeOK, Checking, Reading
    <2>2. pc[r] \in Reading /\ changed'[r] <= 1 => changed[r] = 0 /\ changed'[r] = 1
      BY <1>t DEF Edit, Noticed, TypeOK
    <2> HIDE DEF now
    <2>3. CASE pc[r] = "roles"
      BY <2>1, <2>3, <1>0 DEF Foreseen, now
    <2>4. CASE pc[r] = "permissions"
      <3>1. changed'[r] <= 1 => OnRoles(rq[r].roles, row', assigned', rq[r]) \in verdicts'[r]
        <4> SUFFICES ASSUME changed'[r] <= 1
                     PROVE  OnRoles(rq[r].roles, row', assigned', rq[r]) \in verdicts'[r]
          OBVIOUS
        <4>1. /\ rq[r].roles = RolesOf(role) /\ changed[r] = 0
              /\ OnRoles(rq[r].roles, row, assigned, rq[r]) \in verdicts[r]
          BY <2>2, <2>4, <1>t DEF Foreseen, Reading
        <4>2. CASE role' = role
          BY <4>1, <4>2, <2>1, SameAnswer DEF now
        <4>3. CASE row' = row /\ assigned' = assigned
          BY <4>1, <4>3, <2>1
        <4> QED BY <4>2, <4>3 DEF Edit
      <3> QED BY <3>1, <2>1, <2>2, <2>4, <1>0 DEF Foreseen, Reading
    <2>5. CASE pc[r] = "assignments"
      <3>1. changed'[r] <= 1 => OnRows(rq[r].roles, rq[r].rows, assigned', rq[r]) \in verdicts'[r]
        <4> SUFFICES ASSUME changed'[r] <= 1
                     PROVE  OnRows(rq[r].roles, rq[r].rows, assigned', rq[r]) \in verdicts'[r]
          OBVIOUS
        <4>1. /\ rq[r].roles = RolesOf(role) /\ rq[r].rows = PermissionsOf(row, rq[r].roles)
              /\ OnRows(rq[r].roles, rq[r].rows, assigned, rq[r]) \in verdicts[r]
          BY <2>2, <2>5, <1>t DEF Foreseen, Reading
        <4>2. CASE role' = role /\ row' = row
          BY <4>1, <4>2, <2>1, SameAnswer DEF now
        <4>3. CASE assigned' = assigned
          BY <4>1, <4>3, <2>1
        <4> QED BY <4>2, <4>3 DEF Edit
      <3> QED BY <3>1, <2>1, <2>2, <2>5, <1>0 DEF Foreseen, Reading
    <2> QED BY <1>2, <2>3, <2>4, <2>5 DEF Checking, Reading
  <1> QED BY <1>1, <1>2

\* Every step keeps it.
LEMMA Step == IndInv /\ [Next]_vars => IndInv'
  <1> SUFFICES ASSUME IndInv, [Next]_vars PROVE IndInv'
    OBVIOUS
  <1>1. TypeOK'
    BY StepTyped DEF IndInv
  <1>2. ASSUME NEW r \in Requests PROVE Foreseen(r)'
    <2>1. ASSUME NEW q \in Requests, Check(q) PROVE Foreseen(r)'
      BY <2>1, CheckForeseen
    <2>2. ASSUME NEW q \in Requests, Act(q) PROVE Foreseen(r)'
      <3>1. CASE Serve(q)
        BY <3>1 DEF IndInv, TypeOK, Foreseen, Serve, Run, Goto, tables
      <3>2. CASE Edit(q)
        BY <3>2, EditForeseen
      <3> QED BY <2>2, <3>1, <3>2, HandlersEdit
    <2>3. CASE UNCHANGED vars
      BY <2>3 DEF IndInv, Foreseen, vars, tables
    <2> QED BY <2>1, <2>2, <2>3 DEF Next
  <1> QED BY <1>1, <1>2 DEF IndInv

-----------------------------------------------------------------------------
(* Theorems. *)

\* In every reachable state a check in progress will decide what some state
\* of the tables since its beginning decides (getRbacMatrix).
THEOREM Invariance == Spec => []IndInv
  BY Initially, Step, PTL DEF Spec

\* The tables, the requests and the histories keep their types.
THEOREM Typing == Spec => []TypeOK
  <1>1. IndInv => TypeOK
    BY DEF IndInv
  <1> QED BY <1>1, Invariance, PTL

\* With at most one change between its reads a request is answered as the
\* tables answered at some moment since it began, although the three reads of
\* getRbacMatrix are no snapshot.
THEOREM AnswerRight == Spec => []AnswerWasRight
  <1>1. IndInv => AnswerWasRight
    BY DEF IndInv, Foreseen, AnswerWasRight
  <1> QED BY <1>1, Invariance, PTL

-----------------------------------------------------------------------------
(* The decision.  A matrix that was read from the tables: live roles and   *)
(* their parents, and rows of these roles that name a permission.          *)
IsMatrix(m) ==
  /\ DOMAIN m.parents \subseteq Roles
  /\ \A r \in DOMAIN m.parents : m.parents[r] \in Roles \cup {None}
  /\ IsFiniteSet(m.rows) /\ m.rows \subseteq PermissionRows
  /\ \A g \in m.rows : g.role \in DOMAIN m.parents /\ g.perm \in Perms
  /\ \A a \in m.assignments : a.role \in Roles \cup {None}

-----------------------------------------------------------------------------
(* The chain of parents. *)

ParentOf(m, r) == IF r \in DOMAIN m.parents THEN m.parents[r] ELSE None
IsLine(m, r, n, f) == f = [d \in 0..n |-> IF d = 0 THEN r ELSE ParentOf(m, f[d - 1])]

\* The chain is what the recursive definition chooses.
LEMMA LineChosen ==
  ASSUME NEW m, NEW r
  PROVE  Lineage(m, r) = CHOOSE f : IsLine(m, r, MaxDepth, f)
  BY DEF Lineage, IsLine, ParentOf

\* A chain can be followed to any depth.
LEMMA LinesExist ==
  ASSUME NEW m, NEW r, NEW n \in Nat
  PROVE  \E f : IsLine(m, r, n, f)
  <1> DEFINE T == {k \in Nat : \E f : IsLine(m, r, k, f)}
  <1>1. 0 \in T
    <2> DEFINE f == [d \in 0..0 |-> r]
    <2>1. \A d \in 0..0 : d = 0
      OBVIOUS
    <2>2. f = [d \in 0..0 |-> IF d = 0 THEN r ELSE ParentOf(m, f[d - 1])]
      BY <2>1
    <2> HIDE DEF f
    <2>3. IsLine(m, r, 0, f)
      BY <2>2 DEF IsLine
    <2> QED BY <2>3
  <1>2. ASSUME NEW k \in T PROVE k + 1 \in T
    <2>1. PICK f : IsLine(m, r, k, f)
      OBVIOUS
    <2> DEFINE h == [d \in 0..(k + 1) |-> IF d = k + 1 THEN ParentOf(m, f[k]) ELSE f[d]]
    <2>2. ASSUME NEW d \in 0..(k + 1)
          PROVE  h[d] = IF d = 0 THEN r ELSE ParentOf(m, h[d - 1])
      <3>1. CASE d = k + 1
        <4>1. d # 0 /\ d - 1 = k /\ k \in 0..(k + 1) /\ k # k + 1
          BY <3>1
        <4> QED BY <3>1, <4>1
      <3>2. CASE d # k + 1
        <4>1. d \in 0..k
          BY <3>2
        <4>2. f[d] = IF d = 0 THEN r ELSE ParentOf(m, f[d - 1])
          BY <2>1, <4>1 DEF IsLine
        <4>3. d # 0 => d - 1 \in 0..(k + 1) /\ d - 1 # k + 1
          BY <4>1
        <4> QED BY <3>2, <4>2, <4>3
      <3> QED BY <3>1, <3>2
    <2>3. h = [d \in 0..(k + 1) |-> IF d = 0 THEN r ELSE ParentOf(m, h[d - 1])]
      BY <2>2
    <2> HIDE DEF h
    <2>4. IsLine(m, r, k + 1, h)
      BY <2>3 DEF IsLine
    <2> QED BY <2>4
  <1>3. T = Nat
    <2>1. T \in SUBSET Nat
      OBVIOUS
    <2> HIDE DEF T
    <2> QED BY <1>1, <1>2, <2>1, NatSets
  <1> QED BY <1>3

\* Each step of resolveRoleInheritance goes to the parent.
LEMMA LineageStep ==
  ASSUME NEW m, NEW r, NEW d \in 0..MaxDepth
  PROVE  Lineage(m, r)[d] = IF d = 0 THEN r ELSE ParentOf(m, Lineage(m, r)[d - 1])
  <1> DEFINE at == Lineage(m, r)
  <1>1. MaxDepth \in Nat
    BY AccessAssumption
  <1>2. IsLine(m, r, MaxDepth, at)
    BY <1>1, LineChosen, LinesExist
  <1> HIDE DEF at
  <1>3. at[d] = IF d = 0 THEN r ELSE ParentOf(m, at[d - 1])
    BY <1>2 DEF IsLine
  <1> QED BY <1>3 DEF at

\* Facts about a chain that pass from each depth to the next hold at all of them.
LEMMA DownTheLine ==
  ASSUME NEW G \in SUBSET (0..MaxDepth), 0 \in G,
         \A d \in G : d + 1 <= MaxDepth => d + 1 \in G
  PROVE  G = 0..MaxDepth
  <1> DEFINE T == {k \in Nat : k <= MaxDepth => k \in G}
  <1>1. T = Nat
    <2>1. 0 \in T /\ T \in SUBSET Nat
      OBVIOUS
    <2>2. ASSUME NEW k \in T PROVE k + 1 \in T
      <3>1. MaxDepth \in Nat /\ k + 1 \in Nat
        BY AccessAssumption
      <3>2. k + 1 <= MaxDepth => k \in G
        BY <3>1
      <3> QED BY <3>1, <3>2
    <2> HIDE DEF T
    <2> QED BY <2>1, <2>2, NatSets
  <1>2. \A d \in 0..MaxDepth : d \in T
    BY <1>1
  <1>3. \A d \in 0..MaxDepth : d <= MaxDepth
    BY AccessAssumption
  <1> QED BY <1>2, <1>3

\* Every place of a chain is a role, or None after its end.
LEMMA LineageTyped ==
  ASSUME NEW m, IsMatrix(m), NEW r \in Roles \cup {None}
  PROVE  \A d \in 0..MaxDepth : Lineage(m, r)[d] \in Roles \cup {None}
  <1> DEFINE G == {d \in 0..MaxDepth : Lineage(m, r)[d] \in Roles \cup {None}}
  <1>0. MaxDepth \in Nat
    BY AccessAssumption
  <1>1. 0 \in G
    BY <1>0, LineageStep
  <1>2. ASSUME NEW d \in G, d + 1 <= MaxDepth PROVE d + 1 \in G
    <2>1. d + 1 \in 0..MaxDepth /\ d + 1 # 0 /\ (d + 1) - 1 = d
      BY <1>0, <1>2
    <2>2. Lineage(m, r)[d + 1] = ParentOf(m, Lineage(m, r)[d])
      BY <2>1, LineageStep
    <2>3. ParentOf(m, Lineage(m, r)[d]) \in Roles \cup {None}
      BY DEF ParentOf, IsMatrix
    <2> QED BY <2>1, <2>2, <2>3
  <1>3. G = 0..MaxDepth
    <2>1. G \in SUBSET (0..MaxDepth)
      OBVIOUS
    <2> HIDE DEF G
    <2> QED BY <1>1, <1>2, <2>1, DownTheLine
  <1> QED BY <1>3

\* A chain that has ended stays ended; so every earlier role of one that has
\* not is live, and has the next one as its parent.
LEMMA LineageAlive ==
  ASSUME NEW m, IsMatrix(m), NEW r \in Roles \cup {None}, NEW e \in 0..MaxDepth,
         Lineage(m, r)[e] # None
  PROVE  Path([d \in 0..e |-> Lineage(m, r)[d]], m, r, e)
         /\ [d \in 0..e |-> Lineage(m, r)[d]] \in [0..e -> Roles]
  <1> DEFINE at == Lineage(m, r)
             G == {d \in 0..MaxDepth : d <= e \/ at[d] # None}
  <1>0. MaxDepth \in Nat /\ None \notin Roles
    BY AccessAssumption
  <1>1. \A d \in 0..MaxDepth : at[d] = IF d = 0 THEN r ELSE ParentOf(m, at[d - 1])
    BY LineageStep
  <1>2. \A d \in 0..MaxDepth : at[d] \in Roles \cup {None}
    BY LineageTyped
  <1>3. at[e] # None
    OBVIOUS
  <1> HIDE DEF at
  <1>4. ParentOf(m, None) = None
    BY <1>0 DEF ParentOf, IsMatrix
  <1>5. \A d \in 0..e : at[d] # None
    <2> DEFINE T == {k \in Nat : k <= e => at[e - k] # None}
    <2>1. 0 \in T
      BY <1>3
    <2>2. ASSUME NEW k \in T PROVE k + 1 \in T
      <3> SUFFICES ASSUME k + 1 <= e PROVE at[e - (k + 1)] # None
        OBVIOUS
      <3>1. k <= e /\ e - k \in 0..MaxDepth /\ e - k # 0 /\ (e - k) - 1 = e - (k + 1)
        BY <1>0
      <3>2. at[e - k] = ParentOf(m, at[e - (k + 1)])
        BY <1>1, <3>1
      <3> QED BY <1>4, <3>1, <3>2
    <2>3. T = Nat
      <3>1. T \in SUBSET Nat
        OBVIOUS
      <3> HIDE DEF T
      <3> QED BY <2>1, <2>2, <3>1, NatSets
    <2> SUFFICES ASSUME NEW d \in 0..e PROVE at[d] # None
      OBVIOUS
    <2>4. e - d \in Nat /\ e - d <= e /\ e - (e - d) = d
      BY <1>0
    <2> QED BY <2>3, <2>4
  <1> DEFINE path == [d \in 0..e |-> at[d]]
  <1>6. path \in [0..e -> Roles]
    <2>1. \A d \in 0..e : d \in 0..MaxDepth
      BY <1>0
    <2> QED BY <1>2, <1>5, <2>1
  <1>7. ASSUME NEW d \in 0..(e - 1) PROVE at[d] \in DOMAIN m.parents /\ at[d + 1] = m.parents[at[d]]
    <2>1. d + 1 \in 0..e /\ d + 1 \in 0..MaxDepth /\ d + 1 # 0 /\ (d + 1) - 1 = d
      BY <1>0
    <2>2. at[d + 1] = ParentOf(m, at[d]) /\ at[d + 1] # None
      BY <1>1, <1>5, <2>1
    <2> QED BY <2>2 DEF ParentOf
  <1>8. \A d \in 0..(e - 1) : path[d] = at[d] /\ path[d + 1] = at[d + 1]
    BY <1>0
  <1>9. path[0] = r
    BY <1>0, <1>1
  <1>10. Path(path, m, r, e)
    <2> HIDE DEF path
    <2> QED BY <1>7, <1>8, <1>9 DEF Path
  <1> QED BY <1>6, <1>10 DEF at

\* There is only one path of parents from a role: the chain.
LEMMA PathIsLineage ==
  ASSUME NEW m, NEW r, NEW n \in 0..MaxDepth, NEW path, Path(path, m, r, n)
  PROVE  \A d \in 0..n : path[d] = Lineage(m, r)[d]
  <1> DEFINE at == Lineage(m, r)
             G == {d \in 0..MaxDepth : d <= n => path[d] = at[d]}
  <1>0. MaxDepth \in Nat
    BY AccessAssumption
  <1>1. \A d \in 0..MaxDepth : at[d] = IF d = 0 THEN r ELSE ParentOf(m, at[d - 1])
    BY LineageStep
  <1> HIDE DEF at
  <1>2. 0 \in G
    BY <1>0, <1>1 DEF Path
  <1>3. ASSUME NEW d \in G, d + 1 <= MaxDepth PROVE d + 1 \in G
    <2> SUFFICES ASSUME d + 1 <= n PROVE path[d + 1] = at[d + 1]
      BY <1>0, <1>3
    <2>1. d + 1 \in 0..MaxDepth /\ d + 1 # 0 /\ (d + 1) - 1 = d /\ d \in 0..(n - 1) /\ d <= n
      BY <1>0
    <2>2. path[d] \in DOMAIN m.parents /\ path[d + 1] = m.parents[path[d]]
      BY <2>1 DEF Path
    <2>3. at[d + 1] = ParentOf(m, at[d]) /\ path[d] = at[d]
      BY <1>1, <2>1
    <2> QED BY <2>2, <2>3 DEF ParentOf
  <1>4. G = 0..MaxDepth
    <2>1. G \in SUBSET (0..MaxDepth)
      OBVIOUS
    <2> HIDE DEF G
    <2> QED BY <1>2, <1>3, <2>1, DownTheLine
  <1>5. \A d \in 0..n : d \in 0..MaxDepth /\ d <= n
    BY <1>0
  <1>6. \A d \in 0..n : path[d] = at[d]
    BY <1>4, <1>5
  <1> QED BY <1>6 DEF at

\* The family of a role are the roles on its chain.
LEMMA FamilyIsLineage ==
  ASSUME NEW m, IsMatrix(m), NEW r \in Roles \cup {None}
  PROVE  Family(m, r) = {s \in Roles : \E d \in 0..MaxDepth : Lineage(m, r)[d] = s}
  <1>1. ASSUME NEW s \in Family(m, r) PROVE \E d \in 0..MaxDepth : Lineage(m, r)[d] = s
    <2>1. PICK n \in 0..MaxDepth : \E path \in [0..n -> Roles] : Path(path, m, r, n) /\ path[n] = s
      BY DEF Family
    <2>2. PICK path \in [0..n -> Roles] : Path(path, m, r, n) /\ path[n] = s
      BY <2>1
    <2>3. n \in 0..n
      BY AccessAssumption
    <2> QED BY <2>2, <2>3, PathIsLineage
  <1>2. ASSUME NEW s \in Roles, NEW d \in 0..MaxDepth, Lineage(m, r)[d] = s
        PROVE  s \in Family(m, r)
    <2> DEFINE path == [e \in 0..d |-> Lineage(m, r)[e]]
    <2>1. s # None /\ d \in 0..d
      BY AccessAssumption
    <2>2. path \in [0..d -> Roles] /\ Path(path, m, r, d)
      BY <1>2, <2>1, LineageAlive
    <2>3. path[d] = s
      BY <1>2, <2>1
    <2> HIDE DEF path
    <2> QED BY <2>2, <2>3 DEF Family
  <1> QED BY <1>1, <1>2 DEF Family

\* A role visited twice closes a circle of parents, and the other way round.
LEMMA CircularIsCircle ==
  ASSUME NEW m, IsMatrix(m), NEW r \in Roles \cup {None}
  PROVE  Circular(m, r) <=> InCircle(m, r)
  <1> DEFINE at == Lineage(m, r)
  <1>0. MaxDepth \in Nat /\ None \notin Roles
    BY AccessAssumption
  <1>1. ASSUME Circular(m, r) PROVE InCircle(m, r)
    <2>1. PICK d \in 0..MaxDepth, e \in 0..MaxDepth : d < e /\ at[d] = at[e] /\ at[e] # None
      BY <1>1 DEF Circular
    <2> DEFINE path == [i \in 0..e |-> at[i]]
    <2>2. path \in [0..e -> Roles] /\ Path(path, m, r, e)
      BY <2>1, LineageAlive
    <2>3. d \in 0..(e - 1) /\ e \in 1..MaxDepth /\ d \in 0..e /\ e \in 0..e
      BY <1>0, <2>1
    <2>4. path[d] = path[e]
      BY <2>1, <2>3
    <2> HIDE DEF path
    <2> QED BY <2>2, <2>3, <2>4 DEF InCircle
  <1>2. ASSUME InCircle(m, r) PROVE Circular(m, r)
    <2>1. PICK n \in 1..MaxDepth : \E path \in [0..n -> Roles] :
             Path(path, m, r, n) /\ \E i \in 0..(n - 1) : path[i] = path[n]
      BY <1>2 DEF InCircle
    <2>2. PICK path \in [0..n -> Roles] :
             Path(path, m, r, n) /\ \E i \in 0..(n - 1) : path[i] = path[n]
      BY <2>1
    <2>3. PICK i \in 0..(n - 1) : path[i] = path[n]
      BY <2>2
    <2>4. i \in 0..n /\ n \in 0..n /\ i < n /\ n \in 0..MaxDepth /\ i \in 0..MaxDepth
      BY <1>0
    <2>5. path[i] = at[i] /\ path[n] = at[n]
      BY <2>2, <2>4, PathIsLineage
    <2>6. path[n] # None
      BY <1>0, <2>4
    <2>7. at[i] = at[n] /\ at[n] # None
      BY <2>3, <2>5, <2>6
    <2> HIDE DEF at
    <2> QED BY <2>4, <2>7 DEF Circular, at
  <1> QED BY <1>1, <1>2

-----------------------------------------------------------------------------
(* Merging rows into a grant. *)

\* What a grant says of the rows G that were merged into it: it denies if one
\* of them does, and else is as broad as the broadest.
Summary(e, G) ==
  /\ e.effect \in {"NONE", "ALLOW", "DENY"} /\ e.scope \in Int
  /\ e.effect = "DENY" <=> \E g \in G : g.deny
  /\ e.effect = "NONE" <=> G = {}
  /\ e.effect # "DENY" => (e.scope > 1 <=> \E g \in G : g.scope > 1)

\* No row says nothing.
LEMMA NothingMerged == Summary(NoGrant, {})
  BY DEF Summary, NoGrant

\* One more row (mergeGrant), in any order.
LEMMA MergeOne ==
  ASSUME NEW e, NEW G \in SUBSET PermissionRows, Summary(e, G), NEW g \in PermissionRows
  PROVE  Summary(MergeGrant(g, e), G \cup {g})
  <1>1. g.deny \in BOOLEAN /\ g.scope \in Int /\ \A h \in G : h.deny \in BOOLEAN
    <2>1. \A h \in PermissionRows : h.deny \in BOOLEAN /\ h.scope \in Scopes \cup {0}
      BY DEF PermissionRows
    <2>2. Scopes \subseteq 1..4
      BY AccessAssumption
    <2>3. g.scope \in Int
      <3>1. g.scope \in Scopes \cup {0}
        BY <2>1
      <3>2. \A s \in Scopes \cup {0} : s \in Int
        BY <2>2
      <3> QED BY <3>1, <3>2
    <2>4. g.deny \in BOOLEAN /\ \A h \in G : h.deny \in BOOLEAN
      BY <2>1
    <2> QED BY <2>3, <2>4
  <1>2. CASE g.deny
    <2>1. MergeGrant(g, e) = [effect |-> "DENY", scope |-> g.scope]
      BY <1>2 DEF MergeGrant
    <2> QED BY <1>1, <1>2, <2>1 DEF Summary
  <1>3. CASE ~g.deny /\ e.effect = "DENY"
    <2>1. MergeGrant(g, e) = e
      BY <1>3 DEF MergeGrant
    <2> QED BY <1>1, <1>3, <2>1 DEF Summary
  <1>4. CASE ~g.deny /\ e.effect # "DENY"
    <2>1. MergeGrant(g, e) = [effect |-> "ALLOW", scope |-> IF g.scope > e.scope THEN g.scope ELSE e.scope]
      BY <1>4 DEF MergeGrant
    <2> DEFINE w == IF g.scope > e.scope THEN g.scope ELSE e.scope
    <2>2. w \in Int /\ (w > 1 <=> g.scope > 1 \/ e.scope > 1)
      BY <1>1 DEF Summary
    <2>3. MergeGrant(g, e).effect = "ALLOW" /\ MergeGrant(g, e).scope = w
      BY <2>1
    <2> HIDE DEF w
    <2>4. (\E h \in G \cup {g} : h.scope > 1) <=> (w > 1)
      BY <1>4, <2>2 DEF Summary
    <2>5. ~\E h \in G \cup {g} : h.deny
      BY <1>4 DEF Summary
    <2> QED BY <2>2, <2>3, <2>4, <2>5 DEF Summary
  <1> QED BY <1>2, <1>3, <1>4, <1>1

\* f merges the rows of each subset of S into b, one row at a time.
IsMerge(b, S, f) ==
  f = [s \in SUBSET S |-> IF s = {} THEN b ELSE MergeGrant(Pick(s), f[s \ {Pick(s)}])]

Merged(b, S) == FoldSet(MergeGrant, b, S)

\* What the fold of the library computes.
LEMMA MergeChosen ==
  ASSUME NEW b, NEW S
  PROVE  Merged(b, S) = (CHOOSE f : IsMerge(b, S, f))[S]
  BY DEF Merged, FoldSet, MapThenFoldSet, Pick, IsMerge

\* Two ways of merging agree where both are defined.
LEMMA MergesAgree ==
  ASSUME NEW b, NEW S, NEW g, IsMerge(b, S, g), NEW U, NEW h, IsMerge(b, U, h),
         NEW s, s \in SUBSET S, s \in SUBSET U, IsFiniteSet(s)
  PROVE  g[s] = h[s]
  <1> DEFINE T == {n \in Nat : \A t : (t \in SUBSET S /\ t \in SUBSET U /\ OfSize(t, n)) => g[t] = h[t]}
  <1>1. 0 \in T
    BY SizeZero DEF IsMerge
  <1>2. ASSUME NEW n \in T PROVE n + 1 \in T
    <2> SUFFICES ASSUME NEW t, t \in SUBSET S, t \in SUBSET U, OfSize(t, n + 1) PROVE g[t] = h[t]
      OBVIOUS
    <2>1. t # {}
      BY SizeZero, FS_EmptySet DEF OfSize
    <2>2. OfSize(t \ {Pick(t)}, n)
      BY <2>1, PickIn, OneLess
    <2>3. g[t \ {Pick(t)}] = h[t \ {Pick(t)}]
      BY <1>2, <2>2
    <2>4. g[t] = MergeGrant(Pick(t), g[t \ {Pick(t)}])
      BY <2>1 DEF IsMerge
    <2>5. h[t] = MergeGrant(Pick(t), h[t \ {Pick(t)}])
      BY <2>1 DEF IsMerge
    <2> QED BY <2>3, <2>4, <2>5
  <1>3. T = Nat
    <2>1. T \in SUBSET Nat
      OBVIOUS
    <2> HIDE DEF T
    <2> QED BY <1>1, <1>2, <2>1, NatSets
  <1>4. Cardinality(s) \in T
    BY <1>3, FS_CardinalityType
  <1> QED BY <1>4 DEF OfSize

\* The rows of any finite set can be merged.
LEMMA MergesExist ==
  ASSUME NEW b, NEW S, IsFiniteSet(S)
  PROVE  \E f : IsMerge(b, S, f)
  <1> DEFINE T == {n \in Nat : \A s : OfSize(s, n) => \E f : IsMerge(b, s, f)}
  <1>1. 0 \in T
    <2> SUFFICES ASSUME NEW s, OfSize(s, 0) PROVE \E f : IsMerge(b, s, f)
      OBVIOUS
    <2>1. s = {}
      BY SizeZero
    <2> DEFINE f == [t \in SUBSET s |-> b]
    <2>2. f = [t \in SUBSET s |-> IF t = {} THEN b ELSE MergeGrant(Pick(t), f[t \ {Pick(t)}])]
      BY <2>1
    <2> HIDE DEF f
    <2> QED BY <2>2 DEF IsMerge
  <1>2. ASSUME NEW n \in T PROVE n + 1 \in T
    <2> SUFFICES ASSUME NEW s, OfSize(s, n + 1) PROVE \E f : IsMerge(b, s, f)
      OBVIOUS
    <2> DEFINE part(x) == CHOOSE f : IsMerge(b, s \ {x}, f)
               near(t) == part(CHOOSE x \in s : x \notin t)
               small == [t \in SUBSET s |-> IF t = s THEN b ELSE near(t)[t]]
               f == [t \in SUBSET s |-> IF t = s THEN MergeGrant(Pick(s), small[s \ {Pick(s)}])
                                        ELSE small[t]]
    <2>1. s # {} /\ IsFiniteSet(s)
      BY FS_EmptySet DEF OfSize
    <2>2. \A x \in s : IsMerge(b, s \ {x}, part(x))
      <3> SUFFICES ASSUME NEW x \in s PROVE IsMerge(b, s \ {x}, part(x))
        OBVIOUS
      <3>1. OfSize(s \ {x}, n)
        BY OneLess
      <3>2. \E h : IsMerge(b, s \ {x}, h)
        BY <1>2, <3>1
      <3> QED BY <3>2
    <2> HIDE DEF part
    <2>3. ASSUME NEW t \in SUBSET s, NEW x \in s, x \notin t
          PROVE  small[t] = part(x)[t]
      <3> DEFINE y == CHOOSE z \in s : z \notin t
      <3>1. y \in s /\ y \notin t
        BY <2>3
      <3>2. IsFiniteSet(t)
        BY <2>1, FS_Subset
      <3>3. t \in SUBSET (s \ {x}) /\ t \in SUBSET (s \ {y})
        BY <2>3, <3>1
      <3>4. small[t] = part(y)[t]
        BY <2>3 DEF small
      <3> HIDE DEF y
      <3>5. IsMerge(b, s \ {x}, part(x)) /\ IsMerge(b, s \ {y}, part(y))
        BY <2>2, <3>1
      <3>6. part(y)[t] = part(x)[t]
        BY <3>2, <3>3, <3>5, MergesAgree
      <3> QED BY <3>4, <3>6
    <2> HIDE DEF small
    <2>4. ASSUME NEW t \in SUBSET s
          PROVE  f[t] = IF t = {} THEN b ELSE MergeGrant(Pick(t), f[t \ {Pick(t)}])
      <3>1. CASE t = s
        <4>1. Pick(s) \in s
          BY <2>1, PickIn
        <4>2. f[t] = MergeGrant(Pick(s), small[s \ {Pick(s)}])
              /\ f[s \ {Pick(s)}] = small[s \ {Pick(s)}]
          BY <3>1, <4>1
        <4> QED BY <2>1, <3>1, <4>2
      <3>2. CASE t # s
        <4>1. PICK x \in s : x \notin t
          BY <3>2
        <4>2. f[t] = part(x)[t]
          BY <2>3, <3>2, <4>1
        <4>3. t \in SUBSET (s \ {x})
          BY <4>1
        <4>4. part(x)[t] = IF t = {} THEN b ELSE MergeGrant(Pick(t), part(x)[t \ {Pick(t)}])
          BY <2>2, <4>1, <4>3 DEF IsMerge
        <4>5. t # {} => f[t \ {Pick(t)}] = part(x)[t \ {Pick(t)}]
          BY <2>3, <3>2, <4>1
        <4> HIDE DEF f
        <4> QED BY <4>2, <4>4, <4>5
      <3> QED BY <3>1, <3>2
    <2>5. f = [t \in SUBSET s |-> IF t = {} THEN b ELSE MergeGrant(Pick(t), f[t \ {Pick(t)}])]
      BY <2>4
    <2> HIDE DEF f
    <2> QED BY <2>5 DEF IsMerge
  <1>3. T = Nat
    <2>1. T \in SUBSET Nat
      OBVIOUS
    <2> HIDE DEF T
    <2> QED BY <1>1, <1>2, <2>1, NatSets
  <1>4. Cardinality(S) \in T
    BY <1>3, FS_CardinalityType
  <1> QED BY <1>4 DEF OfSize

\* The fold takes one row off its set.
LEMMA MergeStep ==
  ASSUME NEW b, NEW S, IsFiniteSet(S)
  PROVE  Merged(b, S) = IF S = {} THEN b ELSE MergeGrant(Pick(S), Merged(b, S \ {Pick(S)}))
  <1> DEFINE g == CHOOSE h : IsMerge(b, S, h)
             R == S \ {Pick(S)}
             k == CHOOSE h : IsMerge(b, R, h)
  <1>1. IsMerge(b, S, g)
    BY MergesExist
  <1>2. IsFiniteSet(R)
    BY FS_Subset
  <1>3. IsMerge(b, R, k)
    BY <1>2, MergesExist
  <1>4. Merged(b, S) = g[S] /\ Merged(b, R) = k[R]
    BY MergeChosen
  <1> HIDE DEF g, k
  <1>5. g[S] = IF S = {} THEN b ELSE MergeGrant(Pick(S), g[R])
    BY <1>1 DEF IsMerge
  <1>6. g[R] = k[R]
    <2>1. R \in SUBSET S /\ R \in SUBSET R
      OBVIOUS
    <2> HIDE DEF R
    <2> QED BY <1>1, <1>2, <1>3, <2>1, MergesAgree
  <1> QED BY <1>4, <1>5, <1>6

\* A set of rows, in whatever order the fold takes them.
LEMMA MergeSummary ==
  ASSUME NEW b, NEW B \in SUBSET PermissionRows, Summary(b, B),
         NEW S \in SUBSET PermissionRows, IsFiniteSet(S)
  PROVE  Summary(Merged(b, S), B \cup S)
  <1> DEFINE T == {n \in Nat : \A s \in SUBSET S : OfSize(s, n) => Summary(Merged(b, s), B \cup s)}
  <1>1. 0 \in T
    <2> SUFFICES ASSUME NEW s \in SUBSET S, OfSize(s, 0) PROVE Summary(Merged(b, s), B \cup s)
      OBVIOUS
    <2>1. s = {} /\ B \cup s = B
      BY SizeZero
    <2>2. Merged(b, s) = b
      BY <2>1, MergeStep, FS_EmptySet
    <2> QED BY <2>1, <2>2
  <1>2. ASSUME NEW n \in T PROVE n + 1 \in T
    <2> SUFFICES ASSUME NEW s \in SUBSET S, OfSize(s, n + 1) PROVE Summary(Merged(b, s), B \cup s)
      OBVIOUS
    <2> DEFINE z == Pick(s)
               t == s \ {z}
    <2>1. s # {} /\ IsFiniteSet(s)
      BY FS_EmptySet DEF OfSize
    <2>2. z \in s /\ OfSize(t, n)
      BY <2>1, PickIn, OneLess
    <2>3. Merged(b, s) = MergeGrant(z, Merged(b, t))
      BY <2>1, MergeStep
    <2>4. Summary(Merged(b, t), B \cup t)
      BY <1>2, <2>2
    <2>5. (B \cup t) \cup {z} = B \cup s /\ B \cup t \in SUBSET PermissionRows /\ z \in PermissionRows
      BY <2>2
    <2> HIDE DEF z, t
    <2>6. Summary(MergeGrant(z, Merged(b, t)), (B \cup t) \cup {z})
      BY <2>4, <2>5, MergeOne
    <2> QED BY <2>3, <2>5, <2>6
  <1>3. T = Nat
    <2>1. T \in SUBSET Nat
      OBVIOUS
    <2> HIDE DEF T
    <2> QED BY <1>1, <1>2, <2>1, NatSets
  <1>4. Cardinality(S) \in T
    BY <1>3, FS_CardinalityType
  <1> QED BY <1>4 DEF OfSize

-----------------------------------------------------------------------------
(* Merging along the chain of parents. *)

RowsAt(m, r, p, d) == {g \in m.rows : g.role = Lineage(m, r)[d] /\ g.perm = p}
IsChain(m, r, p, n, f) ==
  f = [d \in n..(MaxDepth + 1) |->
         IF d = MaxDepth + 1 THEN NoGrant ELSE Merged(f[d + 1], RowsAt(m, r, p, d))]

\* A resolved grant is what the recursion along the chain chooses.
LEMMA ChainChosen ==
  ASSUME NEW m, NEW r, NEW p
  PROVE  ResolvedGrant(m, r, p) = (CHOOSE f : IsChain(m, r, p, 0, f))[0]
  BY DEF ResolvedGrant, IsChain, RowsAt, Merged

\* The chain can be merged from the remotest ancestor down to any depth.
LEMMA ChainsExist ==
  ASSUME NEW m, NEW r, NEW p
  PROVE  \E f : IsChain(m, r, p, 0, f)
  <1> DEFINE top == MaxDepth + 1
             T == {k \in Nat : k <= top => \E f : IsChain(m, r, p, top - k, f)}
             at(d, v) == IF d = top THEN NoGrant ELSE Merged(v, RowsAt(m, r, p, d))
  <1>0. top \in Nat
    BY AccessAssumption
  <1> HIDE DEF top, at
  <1>1. 0 \in T
    <2> DEFINE f == [d \in top..top |-> at(d, NoGrant)]
    <2>1. \A d \in top..top : f[d] = at(d, f[d + 1])
      <3> SUFFICES ASSUME NEW d \in top..top PROVE f[d] = at(d, f[d + 1])
        OBVIOUS
      <3>1. d = top
        BY <1>0
      <3>2. \A v, w : at(d, v) = at(d, w)
        BY <3>1 DEF at
      <3> QED BY <3>2
    <2>2. f = [d \in top..top |-> at(d, f[d + 1])]
      BY <2>1
    <2> HIDE DEF f
    <2>3. IsChain(m, r, p, top, f) /\ top - 0 = top
      BY <1>0, <2>2 DEF IsChain, at, top
    <2> QED BY <2>3
  <1>2. ASSUME NEW k \in T PROVE k + 1 \in T
    <2> SUFFICES ASSUME k + 1 <= top PROVE \E f : IsChain(m, r, p, top - (k + 1), f)
      OBVIOUS
    <2> DEFINE n == top - (k + 1)
    <2>1. k <= top /\ n \in Nat /\ n + 1 = top - k /\ n # top /\ n + 1 <= top
      BY <1>0
    <2>2. PICK f : IsChain(m, r, p, n + 1, f)
      BY <2>1
    <2> HIDE DEF n
    <2> DEFINE h == [d \in n..top |-> IF d = n THEN at(d, f[n + 1]) ELSE f[d]]
    <2>3. ASSUME NEW d \in n..top PROVE h[d] = at(d, h[d + 1])
      <3>1. CASE d = n
        <4>1. n + 1 \in n..top /\ n + 1 # n
          BY <1>0, <2>1
        <4> QED BY <3>1, <4>1
      <3>2. CASE d # n /\ d # top
        <4>1. d \in (n + 1)..top /\ d + 1 \in n..top /\ d + 1 # n
          BY <1>0, <2>1, <3>2
        <4>2. f[d] = at(d, f[d + 1])
          BY <2>2, <4>1 DEF IsChain, at, top
        <4> QED BY <3>2, <4>1, <4>2
      <3>3. CASE d # n /\ d = top
        <4>1. d \in (n + 1)..top
          BY <1>0, <2>1, <3>3
        <4>2. f[d] = at(d, f[d + 1])
          BY <2>2, <4>1 DEF IsChain, at, top
        <4>3. \A v, w : at(d, v) = at(d, w)
          BY <3>3 DEF at
        <4>4. h[d] = f[d]
          BY <3>3
        <4> HIDE DEF h
        <4> QED BY <4>2, <4>3, <4>4
      <3> QED BY <3>1, <3>2, <3>3
    <2>4. h = [d \in n..top |-> at(d, h[d + 1])]
      BY <2>3
    <2> HIDE DEF h
    <2>5. IsChain(m, r, p, n, h)
      BY <2>4 DEF IsChain, at, top
    <2> QED BY <2>5 DEF n
  <1>3. T = Nat
    <2>1. T \in SUBSET Nat
      OBVIOUS
    <2> HIDE DEF T
    <2> QED BY <1>1, <1>2, <2>1, NatSets
  <1>4. top - top = 0 /\ top <= top
    BY <1>0
  <1> QED BY <1>0, <1>3, <1>4

\* A resolved grant sums up the rows of the name on the whole chain.
LEMMA ChainSummary ==
  ASSUME NEW m, IsMatrix(m), NEW r, NEW p
  PROVE  Summary(ResolvedGrant(m, r, p),
                 {g \in m.rows : g.perm = p /\ \E d \in 0..MaxDepth : g.role = Lineage(m, r)[d]})
  <1> DEFINE top == MaxDepth + 1
             f == CHOOSE h : IsChain(m, r, p, 0, h)
             from(n) == {g \in m.rows : g.perm = p /\ \E d \in n..MaxDepth : g.role = Lineage(m, r)[d]}
             T == {k \in Nat : k <= top => Summary(f[top - k], from(top - k))}
  <1>0. top \in Nat /\ MaxDepth \in Nat /\ top = MaxDepth + 1
    BY AccessAssumption
  <1>1. IsChain(m, r, p, 0, f)
    BY ChainsExist
  <1>2. ResolvedGrant(m, r, p) = f[0]
    BY ChainChosen
  <1> HIDE DEF f
  <1>3. \A d \in 0..top : f[d] = IF d = top THEN NoGrant ELSE Merged(f[d + 1], RowsAt(m, r, p, d))
    BY <1>1 DEF IsChain
  <1>4. \A d : RowsAt(m, r, p, d) \in SUBSET PermissionRows /\ IsFiniteSet(RowsAt(m, r, p, d))
    <2>1. \A d : RowsAt(m, r, p, d) \subseteq m.rows
      BY DEF RowsAt
    <2>2. IsFiniteSet(m.rows) /\ m.rows \subseteq PermissionRows
      BY DEF IsMatrix
    <2> QED BY <2>1, <2>2, FS_Subset
  <1>5. \A n : from(n) \in SUBSET PermissionRows
    BY DEF IsMatrix
  <1>6. 0 \in T
    <2>1. from(top) = {}
      BY <1>0
    <2>2. f[top] = NoGrant /\ top - 0 = top
      BY <1>0, <1>3
    <2> HIDE DEF from, top
    <2> QED BY <2>1, <2>2, NothingMerged
  <1>7. ASSUME NEW k \in T PROVE k + 1 \in T
    <2> SUFFICES ASSUME k + 1 <= top PROVE Summary(f[top - (k + 1)], from(top - (k + 1)))
      OBVIOUS
    <2> DEFINE n == top - (k + 1)
    <2>1. n \in 0..top /\ n # top /\ n + 1 = top - k /\ k <= top /\ n \in 0..MaxDepth
      BY <1>0
    <2>2. Summary(f[n + 1], from(n + 1))
      BY <2>1
    <2>3. f[n] = Merged(f[n + 1], RowsAt(m, r, p, n))
      BY <1>3, <2>1
    <2>4. from(n) = from(n + 1) \cup RowsAt(m, r, p, n)
      <3> HIDE DEF n, top
      <3>1. \A d : d \in n..MaxDepth <=> d = n \/ d \in (n + 1)..MaxDepth
        BY <1>0, <2>1
      <3> QED BY <3>1 DEF RowsAt
    <2> HIDE DEF from, n
    <2>5. Summary(Merged(f[n + 1], RowsAt(m, r, p, n)), from(n + 1) \cup RowsAt(m, r, p, n))
      BY <1>4, <1>5, <2>2, MergeSummary
    <2>6. Summary(f[n], from(n))
      BY <2>3, <2>4, <2>5
    <2> QED BY <2>6 DEF n
  <1>8. T = Nat
    <2>1. T \in SUBSET Nat
      OBVIOUS
    <2> HIDE DEF T
    <2> QED BY <1>6, <1>7, <2>1, NatSets
  <1>9. top - top = 0 /\ top <= top
    BY <1>0
  <1>10. Summary(f[0], from(0))
    <2>1. top \in T
      BY <1>0, <1>8
    <2> HIDE DEF from
    <2> QED BY <1>9, <2>1
  <1> QED BY <1>2, <1>10

\* A resolved grant sums up the rows of the name in the family of the role.
LEMMA GrantSummary ==
  ASSUME NEW m, IsMatrix(m), NEW r \in Roles \cup {None}, NEW p
  PROVE  Summary(ResolvedGrant(m, r, p), {g \in m.rows : g.perm = p /\ g.role \in Family(m, r)})
  <1>1. \A g \in m.rows : g.role \in Family(m, r) <=> \E d \in 0..MaxDepth : g.role = Lineage(m, r)[d]
    BY FamilyIsLineage DEF IsMatrix
  <1>2. {g \in m.rows : g.perm = p /\ g.role \in Family(m, r)}
        = {g \in m.rows : g.perm = p /\ \E d \in 0..MaxDepth : g.role = Lineage(m, r)[d]}
    BY <1>1
  <1> QED BY <1>2, ChainSummary

-----------------------------------------------------------------------------
(* The decision on a matrix. *)

\* evaluatePermissions decides what the rows of the matrix declare.
LEMMA EvaluateIsDeclared ==
  ASSUME NEW m, IsMatrix(m), NEW b
  PROVE  {p \in Perms : Evaluate(m, b, p)} = Declared(m, b)
  <1> DEFINE counted == CountedRoles(m, b)
             of(r) == {g \in m.rows : g.role \in Family(m, r)}
             said == {g \in m.rows : \E r \in counted : g.role \in Family(m, r)}
             circle == \E r \in counted : InCircle(m, r)
  <1>1. \A r \in counted : r \in Roles \cup {None}
    BY DEF CountedRoles, IsMatrix
  <1>2. (\A r \in counted : ~Circular(m, r)) <=> ~circle
    BY <1>1, CircularIsCircle
  <1>3. ASSUME NEW r \in counted, NEW k \in Perms
        PROVE  Summary(ResolvedGrant(m, r, k), {g \in m.rows : g.perm = k /\ g.role \in Family(m, r)})
    BY <1>1, GrantSummary
  <1>4. \A g \in m.rows : g.perm \in Perms /\ g.deny \in BOOLEAN
    BY DEF IsMatrix, PermissionRows
  <1>5. ASSUME NEW p \in Perms
        PROVE  Evaluate(m, b, p) <=>
                 /\ ~circle
                 /\ \E g \in said : p \in Covers[g.perm] /\ ~g.deny /\ g.scope > 1
                 /\ \A g \in said : p \in Covers[g.perm] => ~g.deny
    <2> DEFINE matching == {k \in Perms : p \in Covers[k]}
    <2>1. Evaluate(m, b, p) <=>
            /\ \A r \in counted : ~Circular(m, r)
            /\ \A r \in counted : \A k \in matching : ResolvedGrant(m, r, k).effect # "DENY"
            /\ \E r \in counted : \E k \in matching :
                  /\ ResolvedGrant(m, r, k).effect = "ALLOW"
                  /\ ResolvedGrant(m, r, k).scope > 1
      BY DEF Evaluate, ScopeSufficient
    <2> HIDE DEF counted
    <2>2. ASSUME NEW r \in counted, NEW k \in matching
          PROVE  ResolvedGrant(m, r, k).effect # "DENY" <=>
                   \A g \in m.rows : g.perm = k /\ g.role \in Family(m, r) => ~g.deny
      BY <1>3 DEF Summary
    <2>3. ASSUME NEW r \in counted, NEW k \in matching, ResolvedGrant(m, r, k).effect # "DENY"
          PROVE  (/\ ResolvedGrant(m, r, k).effect = "ALLOW"
                  /\ ResolvedGrant(m, r, k).scope > 1) <=>
                   \E g \in m.rows : g.perm = k /\ g.role \in Family(m, r) /\ g.scope > 1
      <3> DEFINE G == {g \in m.rows : g.perm = k /\ g.role \in Family(m, r)}
                 e == ResolvedGrant(m, r, k)
      <3>1. Summary(e, G) /\ e.effect # "DENY"
        BY <1>3, <2>3
      <3>2. (\E g \in G : g.scope > 1) <=> \E g \in m.rows : g.perm = k /\ g.role \in Family(m, r) /\ g.scope > 1
        OBVIOUS
      <3> HIDE DEF G, e
      <3>3. (e.effect = "ALLOW" /\ e.scope > 1) <=> \E g \in G : g.scope > 1
        BY <3>1 DEF Summary
      <3> QED BY <3>2, <3>3 DEF e
    <2>4. (\A r \in counted : \A k \in matching : ResolvedGrant(m, r, k).effect # "DENY") <=>
            \A g \in said : p \in Covers[g.perm] => ~g.deny
      BY <1>4, <2>2
    <2>5. ASSUME \A r \in counted : \A k \in matching : ResolvedGrant(m, r, k).effect # "DENY"
          PROVE  (\E r \in counted : \E k \in matching :
                    /\ ResolvedGrant(m, r, k).effect = "ALLOW"
                    /\ ResolvedGrant(m, r, k).scope > 1) <=>
                 \E g \in said : p \in Covers[g.perm] /\ g.scope > 1
      BY <1>4, <2>3, <2>5
    <2> HIDE DEF said, matching, circle
    <2>6. (\A g \in said : p \in Covers[g.perm] => ~g.deny) =>
            ((\E g \in said : p \in Covers[g.perm] /\ g.scope > 1) <=>
             (\E g \in said : p \in Covers[g.perm] /\ ~g.deny /\ g.scope > 1))
      OBVIOUS
    <2> QED BY <1>2, <2>1, <2>4, <2>5, <2>6
  <1>6. said = {g \in m.rows : g.role \in UNION {Family(m, r) : r \in counted}}
    OBVIOUS
  <1>7. Declared(m, b) = IF circle THEN {}
          ELSE {p \in Perms : /\ \E g \in said : p \in Covers[g.perm] /\ ~g.deny /\ g.scope > 1
                              /\ \A g \in said : p \in Covers[g.perm] => ~g.deny}
    BY <1>6 DEF Declared
  <1> HIDE DEF counted, said, circle
  <1> QED BY <1>5, <1>7

\* A live row names a permission: rows are inserted whole (assignPermission).
RowsNamed == \A i \in Rows : row[i].live => row[i].perm \in Perms

\* Only assignPermission fills a row, with the name of a permission.
LEMMA RowsStayNamed == TypeOK /\ RowsNamed /\ [Next]_vars => RowsNamed'
  <1> SUFFICES ASSUME TypeOK, RowsNamed, [Next]_vars PROVE RowsNamed'
    OBVIOUS
  <1>0. row \in [Rows -> PermissionRows]
    BY DEF TypeOK
  <1>1. ASSUME NEW q \in Requests, AssignPermission(q) PROVE RowsNamed'
    <2>1. PICK i \in Rows, r \in Created, p \in Perms, deny \in BOOLEAN, s \in Scopes :
            row' = [row EXCEPT ![i] = [role |-> r, perm |-> p, deny |-> deny, scope |-> s, live |-> TRUE]]
      BY <1>1 DEF AssignPermission
    <2>2. \A j \in Rows : j # i => row'[j] = row[j]
      BY <1>0, <2>1
    <2>3. row'[i].perm = p
      BY <1>0, <2>1
    <2> QED BY <2>2, <2>3 DEF RowsNamed
  <1>2. ASSUME NEW q \in Requests, RevokePermission(q) PROVE RowsNamed'
    <2>1. PICK i \in Rows : row' = [row EXCEPT ![i].live = FALSE]
      BY <1>2 DEF RevokePermission
    <2>2. \A j \in Rows : j # i => row'[j] = row[j]
      BY <1>0, <2>1
    <2>3. row'[i].live = FALSE
      BY <1>0, <2>1 DEF PermissionRows
    <2> QED BY <2>2, <2>3 DEF RowsNamed
  <1>3. ASSUME row' = row PROVE RowsNamed'
    BY <1>3 DEF RowsNamed
  <1>4. ASSUME NEW q \in Requests, Check(q) PROVE row' = row
    BY <1>4 DEF Check, Begin, ReadRoles, ReadPermissions, Decide, Break, tables
  <1>5. ASSUME NEW q \in Requests,
               Serve(q) \/ CreateRole(q) \/ UpdateRole(q) \/ DeleteRole(q) \/ AssignRole(q) \/ RevokeRole(q)
        PROVE  row' = row
    BY <1>5 DEF Serve, CreateRole, UpdateRole, DeleteRole, AssignRole, RevokeRole, tables
  <1>6. ASSUME UNCHANGED vars PROVE row' = row
    BY <1>6 DEF vars, tables
  <1> QED BY <1>1, <1>2, <1>3, <1>4, <1>5, <1>6 DEF Next, Act

\* What the tables hold is such a matrix.
LEMMA TablesMatrix ==
  ASSUME TypeOK, RowsNamed, NEW u
  PROVE  IsMatrix(Matrix(RolesOf(role), PermissionsOf(row, RolesOf(role)), AssignmentsOf(assigned, u)))
  <1> DEFINE parents == RolesOf(role)
             rows == PermissionsOf(row, parents)
             assignments == AssignmentsOf(assigned, u)
             m == Matrix(parents, rows, assignments)
  <1>1. DOMAIN parents \subseteq Roles /\ \A r \in DOMAIN parents : parents[r] \in Roles \cup {None}
    BY DEF RolesOf, TypeOK, RoleRows
  <1> HIDE DEF parents
  <1>2. rows \subseteq PermissionRows /\ \A g \in rows : g.role \in DOMAIN parents /\ g.perm \in Perms
    BY DEF PermissionsOf, TypeOK, RowsNamed
  <1>3. IsFiniteSet(rows)
    <2> DEFINE S == {j \in Rows : row[j].live /\ row[j].role \in DOMAIN parents}
               f == [i \in S |-> row[i]]
    <2>1. IsFiniteSet(S)
      BY RowsAssumption, FS_Subset
    <2>2. f \in Surjection(S, rows)
      <3>1. rows = {row[i] : i \in S}
        BY DEF PermissionsOf
      <3> QED BY <3>1 DEF Surjection
    <2> HIDE DEF S, f, rows
    <2> QED BY <2>1, <2>2, FS_Surjection
  <1>4. \A a \in assignments : a.role \in Roles \cup {None}
    BY DEF AssignmentsOf, TypeOK, AssignRows
  <1>5. m.parents = parents /\ m.rows = rows /\ m.assignments = assignments
    BY DEF Matrix
  <1> HIDE DEF rows, assignments, m
  <1>6. IsMatrix(m)
    BY <1>1, <1>2, <1>3, <1>4, <1>5 DEF IsMatrix
  <1> QED BY <1>6 DEF m, rows, assignments, parents

\* Whatever the roles, rows and assignments have become, the decision of
\* evaluatePermissions is what they declare: a row of a counted role or of an
\* ancestor within the depth allows, none denies, and no counted role is in a
\* circle.  So the order in which rows are merged does not matter, and a role
\* nearer to the user does not win over its ancestor.
THEOREM Declaration == Spec => []DecisionIsDeclared
  <1>1. Init => RowsNamed
    <2> SUFFICES ASSUME Init PROVE RowsNamed
      OBVIOUS
    <2>1. PICK s \in Starts : row = s.row
      BY DEF Init
    <2>2. s.row \in [Rows -> PermissionRows] /\ \A i \in Rows : s.row[i].live => s.row[i].perm # None
      BY AccessAssumption DEF Tables
    <2> QED BY <2>1, <2>2 DEF RowsNamed, PermissionRows
  <1>2. TypeOK /\ RowsNamed => DecisionIsDeclared
    <2> SUFFICES ASSUME TypeOK, RowsNamed PROVE DecisionIsDeclared
      OBVIOUS
    <2> SUFFICES ASSUME NEW u \in Users, NEW b \in Branches \cup {None}
                 PROVE  LET m == Matrix(RolesOf(role), PermissionsOf(row, RolesOf(role)), AssignmentsOf(assigned, u))
                        IN {p \in Perms : Evaluate(m, b, p)} = Declared(m, b)
      BY DEF DecisionIsDeclared
    <2> DEFINE m == Matrix(RolesOf(role), PermissionsOf(row, RolesOf(role)), AssignmentsOf(assigned, u))
    <2>1. IsMatrix(m)
      BY TablesMatrix
    <2> HIDE DEF m
    <2>2. {p \in Perms : Evaluate(m, b, p)} = Declared(m, b)
      BY <2>1, EvaluateIsDeclared
    <2> QED BY <2>2 DEF m
  <1> QED BY <1>1, <1>2, RowsStayNamed, Typing, PTL DEF Spec
=============================================================================
