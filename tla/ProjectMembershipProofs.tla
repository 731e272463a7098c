------------------------ MODULE ProjectMembershipProofs ------------------------
(***************************************************************************)
(* Theorems about ProjectMembership, for every number of users, custom     *)
(* roles and concurrent requests.                                          *)
(***************************************************************************)
EXTENDS ProjectMembership, TLAPS

--------------------------------------------------------------------------------
(* The inductive invariant                                                 *)

\* What a handler about to change a member relies on: another owner than its
\* target remains, and a transfer still has the row of its target.
OwnerReady(r) ==
    req[r].step = "write" =>
        /\ req[r].op = "remove" \/ (req[r].op = "update" /\ req[r].role # "owner") =>
             \E v \in Users : memberRole[v] = "owner" /\ v # req[r].target
        /\ req[r].op = "transfer" => req[r].target \in req[r].rows

OwnerSafe ==
    "owner" \notin clashed =>
        /\ \E v \in Users : memberRole[v] = "owner"
        /\ \A r \in Requests : OwnerReady(r)

\* What a handler about to assign or to delete a role relies on.
RoleReady(r) ==
    /\ req[r].op \in {"invite", "update"} /\ req[r].step # "role" => RoleLive(req[r].role)
    /\ req[r].op = "deleterole" /\ req[r].step = "write" =>
         \A u \in Users : memberRole[u] # req[r].role

RoleSafe ==
    "role" \notin clashed =>
        /\ \A u \in Users : memberRole[u] # None => RoleLive(memberRole[u])
        /\ \A r \in Requests : RoleReady(r)

IInv == TypeOK /\ OwnerSafe /\ RoleSafe

--------------------------------------------------------------------------------
(* How a handler's record changes                                          *)

Others(r) == \A q \in Requests : q # r => req'[q] = req[q]

\* Goto replaces the step of one record.
LEMMA GotoStep ==
    ASSUME TypeOK, NEW r \in Requests, NEW s \in Steps, Goto(r, s)
    PROVE  /\ req' \in [Requests -> RequestRecords]
           /\ req'[r] = [req[r] EXCEPT !.step = s]
           /\ req'[r].step = s /\ req'[r].op = req[r].op /\ req'[r].role = req[r].role
           /\ req'[r].actor = req[r].actor /\ req'[r].target = req[r].target
           /\ req'[r].rows = req[r].rows
           /\ Others(r)
    BY DEF TypeOK, Goto, RequestRecords, Others

\* Finish makes one slot idle, which nothing relies on.
LEMMA FinishStep ==
    ASSUME TypeOK, NEW r \in Requests, Finish(r)
    PROVE  /\ req' \in [Requests -> RequestRecords]
           /\ Others(r)
           /\ req'[r] = Idle
           /\ RequestOK(r)' /\ OwnerReady(r)' /\ RoleReady(r)'
    <1>1. req' \in [Requests -> RequestRecords] /\ Others(r) /\ req'[r] = Idle
        BY DEF TypeOK, Finish, RequestRecords, Idle, Others, Steps
    <1> QED
        BY <1>1, MembershipNone
        DEF RequestOK, OwnerReady, RoleReady, Idle, MemberOps, RoleOps, Roles, Predefined

\* What every request starts with.
Opening(o, s, a, u, k) ==
    \/ /\ o \in {"invite", "update"} /\ s = "role"
       /\ a \in Users \cup {None} /\ u \in Users /\ k \in Roles /\ (k = "owner" => a \in Users)
    \/ o = "remove" /\ s = "target" /\ a = None /\ u \in Users /\ k = None
    \/ o = "transfer" /\ s = "target" /\ a \in Users /\ u \in Users /\ k = None
    \/ o = "createrole" /\ s = "write" /\ a = None /\ u = None /\ k = None
    \/ o \in {"updaterole", "deleterole"} /\ s = "role" /\ a = None /\ u = None /\ k \in CustomRoles

\* A fresh record is well formed and relies on nothing yet.
LEMMA BeginStep ==
    ASSUME TypeOK, NEW r \in Requests, NEW o, NEW s, NEW a, NEW u, NEW k,
           Opening(o, s, a, u, k), Begin(r, o, s, a, u, k),
           UNCHANGED <<memberRole, roleRow>>
    PROVE  /\ req' \in [Requests -> RequestRecords]
           /\ Others(r)
           /\ req'[r].step = s /\ req'[r].op = o /\ req'[r].role = k
           /\ RequestOK(r)' /\ OwnerReady(r)' /\ RoleReady(r)'
    <1> DEFINE n == [op |-> o, step |-> s, actor |-> a, target |-> u, role |-> k, rows |-> {}]
    <1>1. n \in RequestRecords
        BY MembershipNone DEF Opening, RequestRecords, MemberOps, RoleOps, Steps, Roles
    <1>2. req' = [req EXCEPT ![r] = n]
        BY DEF Begin
    <1>3. req' \in [Requests -> RequestRecords] /\ Others(r) /\ req'[r] = n
        BY <1>1, <1>2 DEF TypeOK, Others
    <1>4. RequestOK(r)'
        BY <1>3, MembershipNone, CustomRolesAreNew
        DEF RequestOK, Opening, MemberOps, RoleOps, Roles, Predefined
    <1>5. OwnerReady(r)' /\ RoleReady(r)'
        BY <1>3 DEF Opening, OwnerReady, RoleReady
    <1> QED
        BY <1>3, <1>4, <1>5

\* A step that only moves one handler keeps the invariant when that handler's new
\* record is well formed and what it relies on holds.
LEMMA MoveSafe ==
    ASSUME IInv, NEW r \in Requests, UNCHANGED <<memberRole, roleRow, grants, clashed>>,
           req' \in [Requests -> RequestRecords], Others(r), RequestOK(r)',
           "owner" \notin clashed => OwnerReady(r)',
           "role" \notin clashed => RoleReady(r)'
    PROVE  IInv'
    <1>1. \A q \in Requests : q # r =>
             /\ RequestOK(q) => RequestOK(q)'
             /\ OwnerReady(q) => OwnerReady(q)'
             /\ RoleReady(q) => RoleReady(q)'
        BY DEF Others, RequestOK, OwnerReady, RoleReady, RoleLive
    <1>2. TypeOK'
        BY <1>1 DEF IInv, TypeOK
    <1>3. OwnerSafe'
        BY <1>1 DEF IInv, OwnerSafe
    <1>4. RoleSafe'
        BY <1>1 DEF IInv, RoleSafe, RoleLive
    <1> QED
        BY <1>2, <1>3, <1>4 DEF IInv

\* A handler that gives up.
LEMMA FinishSafe ==
    ASSUME IInv, NEW r \in Requests, Finish(r), UNCHANGED <<memberRole, roleRow, grants, clashed>>
    PROVE  IInv'
    BY FinishStep, MoveSafe DEF IInv

--------------------------------------------------------------------------------
(* Arrivals and reads                                                      *)

\* Every arrival is an Opening.
LEMMA ArriveOpens ==
    ASSUME NEW r \in Requests, Arrive(r)
    PROVE  \E o, s, a, u, k : Opening(o, s, a, u, k) /\ Begin(r, o, s, a, u, k)
    <1> PICK b \in Users :
          \/ \E u \in Users, k \in Roles : InviteMember(r, b, u, k) \/ UpdateMemberRole(r, b, u, k)
          \/ \E u \in Users : RemoveMember(r, b, u) \/ TransferOwnership(r, b, u)
          \/ CreateCustomRole(r, b)
          \/ \E k \in CustomRoles : UpdateCustomRole(r, b, k) \/ DeleteCustomRole(r, b, k)
        BY DEF Arrive
    <1>1. ASSUME NEW u \in Users, NEW k \in Roles, InviteMember(r, b, u, k)
          PROVE  Opening("invite", "role", IfOwner(b, k), u, k) /\ Begin(r, "invite", "role", IfOwner(b, k), u, k)
        BY <1>1 DEF InviteMember, Opening, IfOwner
    <1>2. ASSUME NEW u \in Users, NEW k \in Roles, UpdateMemberRole(r, b, u, k)
          PROVE  Opening("update", "role", IfOwner(b, k), u, k) /\ Begin(r, "update", "role", IfOwner(b, k), u, k)
        BY <1>2 DEF UpdateMemberRole, Opening, IfOwner
    <1>3. ASSUME NEW u \in Users, RemoveMember(r, b, u)
          PROVE  Opening("remove", "target", None, u, None) /\ Begin(r, "remove", "target", None, u, None)
        BY <1>3 DEF RemoveMember, Opening
    <1>4. ASSUME NEW u \in Users, TransferOwnership(r, b, u)
          PROVE  Opening("transfer", "target", b, u, None) /\ Begin(r, "transfer", "target", b, u, None)
        BY <1>4 DEF TransferOwnership, Opening
    <1>5. ASSUME CreateCustomRole(r, b)
          PROVE  Opening("createrole", "write", None, None, None) /\ Begin(r, "createrole", "write", None, None, None)
        BY <1>5 DEF CreateCustomRole, Opening
    <1>6. ASSUME NEW k \in CustomRoles, UpdateCustomRole(r, b, k)
          PROVE  Opening("updaterole", "role", None, None, k) /\ Begin(r, "updaterole", "role", None, None, k)
        BY <1>6 DEF UpdateCustomRole, Opening
    <1>7. ASSUME NEW k \in CustomRoles, DeleteCustomRole(r, b, k)
          PROVE  Opening("deleterole", "role", None, None, k) /\ Begin(r, "deleterole", "role", None, None, k)
        BY <1>7 DEF DeleteCustomRole, Opening
    <1> QED
        BY <1>1, <1>2, <1>3, <1>4, <1>5, <1>6, <1>7

\* Arrivals keep the invariant.
LEMMA ArriveSafe ==
    ASSUME IInv, NEW r \in Requests, Arrive(r)
    PROVE  IInv'
    <1>1. PICK o, s, a, u, k : Opening(o, s, a, u, k) /\ Begin(r, o, s, a, u, k)
        BY ArriveOpens
    <1>2. UNCHANGED <<memberRole, roleRow, grants, clashed>>
        BY DEF Arrive
    <1> QED
        BY <1>1, <1>2, BeginStep, MoveSafe DEF IInv

\* Moving on to step s keeps the invariant when the record with that step is in
\* order and what it relies on holds.
LEMMA GotoSafe ==
    ASSUME IInv, NEW r \in Requests, NEW s \in Steps, Goto(r, s),
           UNCHANGED <<memberRole, roleRow, grants, clashed>>,
           RequestOK(r)',
           "owner" \notin clashed => OwnerReady(r)',
           "role" \notin clashed => RoleReady(r)'
    PROVE  IInv'
    BY GotoStep, MoveSafe DEF IInv

\* Reading the role: from here on a role to be assigned is live.
LEMMA ReadRoleSafe ==
    ASSUME IInv, NEW r \in Requests, ReadRole(r)
    PROVE  IInv'
    <1>0. TypeOK /\ RequestOK(r) /\ req[r].step = "role"
        BY DEF IInv, TypeOK, ReadRole
    <1>1. PICK s \in Steps : AfterRole(req[r], s) /\ GoIf(r, RoleLive(req[r].role), s)
        BY DEF ReadRole
    <1>2. UNCHANGED <<memberRole, roleRow, grants, clashed>>
        BY DEF ReadRole
    <1>3. CASE ~RoleLive(req[r].role)
        BY <1>1, <1>2, <1>3, FinishSafe DEF GoIf
    <1>4. CASE RoleLive(req[r].role)
        <2>1. Goto(r, s)
            BY <1>1, <1>4 DEF GoIf
        <2>2. /\ req'[r].step = s /\ req'[r].op = req[r].op /\ req'[r].role = req[r].role
              /\ req'[r].actor = req[r].actor /\ req'[r].target = req[r].target
              /\ req'[r].rows = req[r].rows
            BY <1>0, <2>1, GotoStep
        <2>3. RequestOK(r)'
            BY <1>0, <1>1, <1>2, <1>4, <2>2, CustomRolesAreNew
            DEF RequestOK, AfterRole, RoleLive, MemberOps, RoleOps, Predefined
        <2>4. OwnerReady(r)'
            BY <1>0, <1>1, <2>2 DEF RequestOK, AfterRole, OwnerReady
        <2>5. RoleReady(r)'
            BY <1>0, <1>1, <1>2, <1>4, <2>2 DEF RequestOK, AfterRole, RoleReady, RoleLive
        <2> QED
            BY <1>2, <2>1, <2>3, <2>4, <2>5, GotoSafe
    <1> QED
        BY <1>3, <1>4

\* Finding the actor to be an owner.
LEMMA ReadActorSafe ==
    ASSUME IInv, NEW r \in Requests, ReadActor(r)
    PROVE  IInv'
    <1> DEFINE s == IF req[r].op = "invite" THEN "target" ELSE "write"
    <1>0. TypeOK /\ RequestOK(r) /\ req[r].step = "actor" /\ s \in Steps
        BY DEF IInv, TypeOK, ReadActor, Steps
    <1>2. UNCHANGED <<memberRole, roleRow, grants, clashed>>
        BY DEF ReadActor
    <1>3. CASE Finish(r)
        BY <1>2, <1>3, FinishSafe
    <1>4. CASE Goto(r, s)
        <2>2. /\ req'[r].step = s /\ req'[r].op = req[r].op /\ req'[r].role = req[r].role
              /\ req'[r].actor = req[r].actor /\ req'[r].target = req[r].target
              /\ req'[r].rows = req[r].rows
            BY <1>0, <1>4, GotoStep
        <2>3. RequestOK(r)'
            BY <1>0, <1>2, <2>2 DEF RequestOK, MemberOps, RoleOps
        <2>4. OwnerReady(r)'
            BY <1>0, <2>2 DEF RequestOK, OwnerReady
        <2>5. "role" \notin clashed => RoleReady(r)'
            BY <1>0, <1>2, <2>2 DEF IInv, RoleSafe, RequestOK, RoleReady, RoleLive
        <2> QED
            BY <1>0, <1>2, <1>4, <2>3, <2>4, <2>5, GotoSafe
    <1> QED
        BY <1>3, <1>4 DEF ReadActor, GoIf

\* Reading the target: when it is no owner, the owner there is is somebody else.
LEMMA ReadTargetSafe ==
    ASSUME IInv, NEW r \in Requests, ReadTarget(r)
    PROVE  IInv'
    <1>0. TypeOK /\ RequestOK(r) /\ req[r].step = "target"
        BY DEF IInv, TypeOK, ReadTarget
    <1>1. PICK s \in Steps : AfterTarget(req[r], s) /\ GoIf(r, TargetOK(req[r]), s)
        BY DEF ReadTarget
    <1>2. UNCHANGED <<memberRole, roleRow, grants, clashed>>
        BY DEF ReadTarget
    <1>3. CASE Finish(r)
        BY <1>2, <1>3, FinishSafe
    <1>4. CASE Goto(r, s)
        <2>2. /\ req'[r].step = s /\ req'[r].op = req[r].op /\ req'[r].role = req[r].role
              /\ req'[r].actor = req[r].actor /\ req'[r].target = req[r].target
              /\ req'[r].rows = req[r].rows
            BY <1>0, <1>4, GotoStep
        <2>3. RequestOK(r)'
            BY <1>0, <1>1, <1>2, <2>2, MembershipNone
            DEF RequestOK, AfterTarget, MemberOps, RoleOps, Roles, Predefined
        <2>4. "owner" \notin clashed => OwnerReady(r)'
            BY <1>0, <1>1, <1>2, <2>2 DEF IInv, OwnerSafe, RequestOK, AfterTarget, OwnerReady
        <2>5. "role" \notin clashed => RoleReady(r)'
            BY <1>0, <1>1, <1>2, <2>2 DEF IInv, RoleSafe, RequestOK, AfterTarget, RoleReady, RoleLive
        <2> QED
            BY <1>2, <1>4, <2>3, <2>4, <2>5, GotoSafe
    <1> QED
        BY <1>1, <1>3, <1>4 DEF GoIf

\* Counting: two owners are one more than the target, and a role nobody has may go.
LEMMA CountSafe ==
    ASSUME IInv, NEW r \in Requests, CountOwners(r) \/ CountMembersWithRole(r)
    PROVE  IInv'
    <1>0. TypeOK /\ RequestOK(r) /\ req[r].step = "count" /\ "write" \in Steps
        BY DEF IInv, TypeOK, CountOwners, CountMembersWithRole, Steps
    <1>2. UNCHANGED <<memberRole, roleRow, grants, clashed>>
        BY DEF CountOwners, CountMembersWithRole
    <1>3. CASE Finish(r)
        BY <1>2, <1>3, FinishSafe
    <1>4. CASE /\ Goto(r, "write")
               /\ \/ req[r].op \in MemberOps /\ \E u, v \in Owners : u # v
                  \/ req[r].op = "deleterole" /\ \A u \in Users : memberRole[u] # req[r].role
        <2>2. /\ req'[r].step = "write" /\ req'[r].op = req[r].op /\ req'[r].role = req[r].role
              /\ req'[r].actor = req[r].actor /\ req'[r].target = req[r].target
              /\ req'[r].rows = req[r].rows
            BY <1>0, <1>4, GotoStep
        <2>3. RequestOK(r)'
            BY <1>0, <1>2, <2>2 DEF RequestOK, MemberOps, RoleOps
        <2>4. OwnerReady(r)'
            BY <1>0, <1>2, <1>4, <2>2 DEF RequestOK, OwnerReady, Owners, MemberOps
        <2>5. "role" \notin clashed => RoleReady(r)'
            BY <1>0, <1>2, <1>4, <2>2 DEF IInv, RoleSafe, RequestOK, RoleReady, RoleLive, MemberOps
        <2> QED
            BY <1>0, <1>2, <1>4, <2>3, <2>4, <2>5, GotoSafe
    <1> QED
        BY <1>3, <1>4 DEF CountOwners, CountMembersWithRole, GoIf

\* The reads of a transfer: it holds the rows it is going to update.
LEMMA TransferReadSafe ==
    ASSUME IInv, NEW r \in Requests, TransferRead(r)
    PROVE  IInv'
    <1> DEFINE R == {req[r].actor, req[r].target}
    <1>0. TypeOK /\ RequestOK(r) /\ req[r].step = "tx" /\ req[r].op = "transfer"
        BY DEF IInv, TypeOK, TransferRead, RequestOK
    <1>2. UNCHANGED <<memberRole, roleRow, grants, clashed>>
        BY DEF TransferRead
    <1>3. CASE Finish(r)
        BY <1>2, <1>3, FinishSafe
    <1>4. CASE req' = [req EXCEPT ![r].step = "write", ![r].rows = R]
        <2>1. R \in SUBSET Users
            BY <1>0 DEF RequestOK, MemberOps
        <2>2. /\ req' \in [Requests -> RequestRecords] /\ Others(r)
              /\ req'[r].step = "write" /\ req'[r].op = req[r].op /\ req'[r].role = req[r].role
              /\ req'[r].actor = req[r].actor /\ req'[r].target = req[r].target
              /\ req'[r].rows = R
            BY <1>0, <1>4, <2>1 DEF TypeOK, RequestRecords, Steps, Others
        <2>3. RequestOK(r)'
            BY <1>0, <1>2, <2>2 DEF RequestOK, MemberOps, RoleOps
        <2>4. OwnerReady(r)' /\ RoleReady(r)'
            BY <1>0, <2>2 DEF OwnerReady, RoleReady
        <2> QED
            BY <1>2, <2>2, <2>3, <2>4, MoveSafe
    <1> QED
        BY <1>3, <1>4 DEF TransferRead

--------------------------------------------------------------------------------
(* Writes                                                                  *)

\* The well-formedness of the records survives a write that creates no handler
\* and takes no role id back.
LEMMA RecordsKept ==
    ASSUME TypeOK, NEW r \in Requests, Finish(r),
           \A k \in CustomRoles : roleRow[k] # "none" => roleRow'[k] # "none"
    PROVE  /\ req' \in [Requests -> RequestRecords]
           /\ \A q \in Requests : RequestOK(q)'
    <1>1. /\ req' \in [Requests -> RequestRecords] /\ Others(r) /\ RequestOK(r)'
        BY FinishStep
    <1>2. ASSUME NEW q \in Requests, q # r PROVE RequestOK(q)'
        BY <1>1, <1>2 DEF TypeOK, Others, RequestOK
    <1> QED
        BY <1>1, <1>2

\* New roles and new permissions disturb nobody.
LEMMA RoleRowsMayGrow ==
    ASSUME IInv, NEW r \in Requests, Finish(r), UNCHANGED <<memberRole, clashed>>,
           roleRow' \in [CustomRoles -> {"none", "live", "deleted"}],
           grants' \in [CustomRoles -> SUBSET Keys],
           \A k \in CustomRoles : roleRow[k] # "none" => roleRow'[k] = roleRow[k]
    PROVE  IInv'
    <1>0. TypeOK
        BY DEF IInv
    <1>1. /\ req' \in [Requests -> RequestRecords]
          /\ \A q \in Requests : RequestOK(q)'
        BY <1>0, RecordsKept
    <1>2. Others(r) /\ OwnerReady(r)' /\ RoleReady(r)'
        BY <1>0, FinishStep
    <1>3. \A k : RoleLive(k) => RoleLive(k)'
        BY DEF RoleLive
    <1>4. ASSUME NEW q \in Requests, q # r
          PROVE  (OwnerReady(q) => OwnerReady(q)') /\ (RoleReady(q) => RoleReady(q)')
        BY <1>2, <1>3, <1>4 DEF Others, OwnerReady, RoleReady, RoleLive
    <1>5. TypeOK'
        BY <1>0, <1>1 DEF TypeOK
    <1>6. OwnerSafe'
        BY <1>2, <1>4 DEF IInv, OwnerSafe
    <1>7. RoleSafe'
        BY <1>2, <1>4 DEF IInv, RoleSafe, RoleLive
    <1> QED
        BY <1>5, <1>6, <1>7 DEF IInv

\* CreateMembership.
LEMMA WriteInviteSafe ==
    ASSUME IInv, NEW r \in Requests, WriteInvite(r)
    PROVE  IInv'
    <1> DEFINE u == req[r].target
               k == req[r].role
    <1>0. /\ TypeOK /\ RequestOK(r) /\ u \in Users /\ k \in Roles
          /\ req[r].step = "write" /\ req[r].op = "invite"
          /\ k \in CustomRoles => roleRow[k] # "none"
        BY DEF IInv, TypeOK, WriteInvite, RequestOK, MemberOps
    <1>1. /\ memberRole' = [memberRole EXCEPT ![u] = IF @ = None THEN k ELSE @]
          /\ UNCHANGED <<roleRow, grants>> /\ Finish(r)
          /\ clashed' = IF OthersUse(r, k) THEN clashed \cup {"role"} ELSE clashed
        BY DEF WriteInvite, Clash
    <1>2. /\ Others(r) /\ OwnerReady(r)' /\ RoleReady(r)'
        BY <1>0, <1>1, FinishStep
    <1>3. TypeOK'
        BY <1>0, <1>1, RecordsKept DEF TypeOK
    <1>4. \A v \in Users : memberRole[v] = "owner" => memberRole'[v] = "owner"
        BY <1>0, <1>1, MembershipNone DEF TypeOK, Roles, Predefined
    <1>5. OwnerSafe'
        <2> SUFFICES ASSUME "owner" \notin clashed' PROVE OwnerSafe'
            BY DEF OwnerSafe
        <2>1. "owner" \notin clashed
            BY <1>1
        <2>2. \E v \in Users : memberRole'[v] = "owner"
            BY <1>4, <2>1 DEF IInv, OwnerSafe
        <2>3. ASSUME NEW q \in Requests, q # r PROVE OwnerReady(q)'
            BY <1>2, <1>4, <2>1, <2>3 DEF IInv, OwnerSafe, OwnerReady, Others
        <2> QED
            BY <1>2, <2>2, <2>3 DEF OwnerSafe
    <1>6. RoleSafe'
        <2> SUFFICES ASSUME "role" \notin clashed' PROVE RoleSafe'
            BY DEF RoleSafe
        <2>1. "role" \notin clashed /\ ~OthersUse(r, k)
            BY <1>1
        <2>2. RoleLive(k) /\ \A v \in Users : memberRole[v] # None => RoleLive(memberRole[v])
            BY <1>0, <2>1 DEF IInv, RoleSafe, RoleReady
        <2>3. \A v \in Users : (memberRole[v] # None => RoleLive(memberRole[v]))'
            BY <1>0, <1>1, <2>2 DEF RoleLive, TypeOK
        <2>4. ASSUME NEW q \in Requests, q # r PROVE RoleReady(q)'
            BY <1>0, <1>1, <1>2, <2>1, <2>4
            DEF IInv, RoleSafe, RoleReady, RoleLive, Others, OthersUse, TypeOK, RequestOK
        <2> QED
            BY <1>2, <2>3, <2>4 DEF RoleSafe
    <1> QED
        BY <1>3, <1>5, <1>6 DEF IInv

\* When nobody else has decided, no other handler relies on the owners.
LEMMA NobodyDecided ==
    ASSUME NEW r \in Requests, NEW q \in Requests, q # r, ~OthersDecided(r),
           req'[q].step = req[q].step, req'[q].op = req[q].op
    PROVE  OwnerReady(q)'
    BY DEF OthersDecided, OwnerReady

\* UpdateMembershipRole.
LEMMA WriteUpdateSafe ==
    ASSUME IInv, NEW r \in Requests, WriteUpdate(r)
    PROVE  IInv'
    <1> DEFINE u == req[r].target
               k == req[r].role
    <1>0. /\ TypeOK /\ RequestOK(r) /\ u \in Users /\ k \in Roles
          /\ req[r].step = "write" /\ req[r].op = "update"
          /\ k \in CustomRoles => roleRow[k] # "none"
        BY DEF IInv, TypeOK, WriteUpdate, RequestOK, MemberOps
    <1>1. /\ memberRole' = [memberRole EXCEPT ![u] = IF @ = None THEN @ ELSE k]
          /\ UNCHANGED <<roleRow, grants>> /\ Finish(r)
          /\ clashed' = clashed \cup (IF OthersUse(r, k) THEN {"role"} ELSE {})
                                \cup (IF OthersDecided(r) THEN {"owner"} ELSE {})
        BY DEF WriteUpdate
    <1>2. /\ Others(r) /\ OwnerReady(r)' /\ RoleReady(r)'
        BY <1>0, <1>1, FinishStep
    <1>3. TypeOK'
        BY <1>0, <1>1, RecordsKept DEF TypeOK
    <1>4. OwnerSafe'
        <2> SUFFICES ASSUME "owner" \notin clashed' PROVE OwnerSafe'
            BY DEF OwnerSafe
        <2>1. "owner" \notin clashed /\ ~OthersDecided(r)
            BY <1>1
        <2>2. PICK v \in Users : memberRole[v] = "owner" /\ (k # "owner" => v # u)
            BY <1>0, <2>1 DEF IInv, OwnerSafe, OwnerReady
        <2>3. memberRole'[v] = "owner"
            BY <1>0, <1>1, <2>2 DEF TypeOK
        <2>4. ASSUME NEW q \in Requests, q # r PROVE OwnerReady(q)'
            BY <1>2, <2>1, <2>4, NobodyDecided DEF Others
        <2> QED
            BY <1>2, <2>3, <2>4 DEF OwnerSafe
    <1>5. RoleSafe'
        <2> SUFFICES ASSUME "role" \notin clashed' PROVE RoleSafe'
            BY DEF RoleSafe
        <2>1. "role" \notin clashed /\ ~OthersUse(r, k)
            BY <1>1
        <2>2. RoleLive(k) /\ \A v \in Users : memberRole[v] # None => RoleLive(memberRole[v])
            BY <1>0, <2>1 DEF IInv, RoleSafe, RoleReady
        <2>3. \A v \in Users : (memberRole[v] # None => RoleLive(memberRole[v]))'
            BY <1>0, <1>1, <2>2 DEF RoleLive, TypeOK
        <2>4. ASSUME NEW q \in Requests, q # r PROVE RoleReady(q)'
            BY <1>0, <1>1, <1>2, <2>1, <2>4
            DEF IInv, RoleSafe, RoleReady, RoleLive, Others, OthersUse, TypeOK, RequestOK
        <2> QED
            BY <1>2, <2>3, <2>4 DEF RoleSafe
    <1> QED
        BY <1>3, <1>4, <1>5 DEF IInv

\* DeleteMembership.
LEMMA WriteRemoveSafe ==
    ASSUME IInv, NEW r \in Requests, WriteRemove(r)
    PROVE  IInv'
    <1> DEFINE u == req[r].target
    <1>0. /\ TypeOK /\ RequestOK(r) /\ u \in Users
          /\ req[r].step = "write" /\ req[r].op = "remove"
        BY DEF IInv, TypeOK, WriteRemove, RequestOK, MemberOps
    <1>1. /\ memberRole' = [memberRole EXCEPT ![u] = None]
          /\ UNCHANGED <<roleRow, grants>>
          /\ req' = [q \in Requests |-> IF q = r THEN Idle ELSE [req[q] EXCEPT !.rows = @ \ {u}]]
          /\ clashed' = IF OthersDecided(r) THEN clashed \cup {"owner"} ELSE clashed
        BY DEF WriteRemove, Clash
    <1>2. /\ req'[r] = Idle /\ RequestOK(r)' /\ OwnerReady(r)' /\ RoleReady(r)'
        BY <1>1, MembershipNone
        DEF Idle, RequestOK, OwnerReady, RoleReady, MemberOps, RoleOps, Roles, Predefined
    <1>3. ASSUME NEW q \in Requests, q # r
          PROVE  /\ req'[q] \in RequestRecords
                 /\ req'[q].op = req[q].op /\ req'[q].step = req[q].step
                 /\ req'[q].role = req[q].role /\ req'[q].actor = req[q].actor
                 /\ req'[q].target = req[q].target /\ req'[q].rows = req[q].rows \ {u}
                 /\ req[q] = Idle => req'[q] = Idle
        <2>1. req[q] \in RequestRecords
            BY <1>0 DEF TypeOK
        <2>2. req'[q] = [req[q] EXCEPT !.rows = req[q].rows \ {u}]
            BY <1>1, <1>3
        <2>3. req[q] = Idle => req'[q] = Idle
            BY <2>2 DEF Idle
        <2> QED
            BY <2>1, <2>2, <2>3 DEF RequestRecords
    <1>4. ASSUME NEW q \in Requests PROVE RequestOK(q)'
        <2>1. CASE q = r
            BY <1>2, <2>1
        <2>2. CASE q # r
            <3>1. RequestOK(q)
                BY <1>0 DEF TypeOK
            <3>2. /\ req'[q].op = req[q].op /\ req'[q].step = req[q].step
                  /\ req'[q].role = req[q].role /\ req'[q].actor = req[q].actor
                  /\ req'[q].target = req[q].target /\ req'[q].rows \subseteq req[q].rows
                  /\ req[q] = Idle => req'[q] = Idle
                BY <1>3, <2>2
            <3>3. roleRow' = roleRow
                BY <1>1
            <3> QED
                BY <3>1, <3>2, <3>3 DEF RequestOK
        <2> QED
            BY <2>1, <2>2
    <1>5. req' \in [Requests -> RequestRecords]
        <2>1. Idle \in RequestRecords
            BY DEF Idle, RequestRecords, Steps
        <2> QED
            BY <1>1, <1>2, <1>3, <2>1
    <1>6. TypeOK'
        BY <1>0, <1>1, <1>4, <1>5, MembershipNone DEF TypeOK, Roles
    <1>7. OwnerSafe'
        <2> SUFFICES ASSUME "owner" \notin clashed' PROVE OwnerSafe'
            BY DEF OwnerSafe
        <2>1. "owner" \notin clashed /\ ~OthersDecided(r)
            BY <1>1
        <2>2. PICK v \in Users : memberRole[v] = "owner" /\ v # u
            BY <1>0, <2>1 DEF IInv, OwnerSafe, OwnerReady
        <2>3. memberRole'[v] = "owner"
            BY <1>0, <1>1, <2>2 DEF TypeOK
        <2>4. ASSUME NEW q \in Requests, q # r PROVE OwnerReady(q)'
            BY <1>3, <2>1, <2>4, NobodyDecided
        <2> QED
            BY <1>2, <2>3, <2>4 DEF OwnerSafe
    <1>8. RoleSafe'
        <2> SUFFICES ASSUME "role" \notin clashed' PROVE RoleSafe'
            BY DEF RoleSafe
        <2>1. "role" \notin clashed
            BY <1>1
        <2>2. \A v \in Users : (memberRole[v] # None => RoleLive(memberRole[v]))'
            BY <1>0, <1>1, <2>1 DEF IInv, RoleSafe, RoleLive, TypeOK
        <2>3. ASSUME NEW q \in Requests, q # r PROVE RoleReady(q)'
            <3>1. RoleReady(q) /\ RequestOK(q)
                BY <1>0, <2>1 DEF IInv, RoleSafe, TypeOK
            <3>2. /\ req'[q].op = req[q].op /\ req'[q].step = req[q].step
                  /\ req'[q].role = req[q].role
                BY <1>3, <2>3
            <3>3. req[q].op = "deleterole" => req[q].role # None
                BY <3>1, MembershipNone DEF RequestOK, Roles
            <3>4. \A v \in Users : memberRole'[v] = memberRole[v] \/ memberRole'[v] = None
                BY <1>0, <1>1 DEF TypeOK
            <3> QED
                BY <1>1, <3>1, <3>2, <3>3, <3>4 DEF RoleReady, RoleLive
        <2> QED
            BY <1>2, <2>2, <2>3 DEF RoleSafe
    <1> QED
        BY <1>6, <1>7, <1>8 DEF IInv

\* The two updates of a transfer.
LEMMA WriteTransferSafe ==
    ASSUME IInv, NEW r \in Requests, WriteTransfer(r)
    PROVE  IInv'
    <1> DEFINE u == req[r].target
    <1>0. /\ TypeOK /\ RequestOK(r) /\ u \in Users
          /\ req[r].step = "write" /\ req[r].op = "transfer"
        BY DEF IInv, TypeOK, WriteTransfer, RequestOK, MemberOps
    <1>1. /\ memberRole' = [v \in Users |->
                               IF v \notin req[r].rows THEN memberRole[v]
                               ELSE IF v = u THEN "owner" ELSE "admin"]
          /\ UNCHANGED <<roleRow, grants>> /\ Finish(r)
          /\ clashed' = IF OthersDecided(r) THEN clashed \cup {"owner"} ELSE clashed
        BY DEF WriteTransfer, Clash
    <1>2. /\ Others(r) /\ OwnerReady(r)' /\ RoleReady(r)'
        BY <1>0, <1>1, FinishStep
    <1>3. "owner" \in Predefined /\ "admin" \in Predefined /\ Predefined \subseteq Roles
        BY DEF Predefined, Roles
    <1>4. TypeOK'
        BY <1>0, <1>1, <1>3, RecordsKept, CustomRolesAreNew DEF TypeOK
    <1>5. OwnerSafe'
        <2> SUFFICES ASSUME "owner" \notin clashed' PROVE OwnerSafe'
            BY DEF OwnerSafe
        <2>1. "owner" \notin clashed /\ ~OthersDecided(r)
            BY <1>1
        <2>2. u \in req[r].rows
            BY <1>0, <2>1 DEF IInv, OwnerSafe, OwnerReady
        <2>3. memberRole'[u] = "owner"
            BY <1>0, <1>1, <2>2
        <2>4. ASSUME NEW q \in Requests, q # r PROVE OwnerReady(q)'
            BY <1>2, <2>1, <2>4, NobodyDecided DEF Others
        <2> QED
            BY <1>0, <1>2, <2>3, <2>4 DEF OwnerSafe
    <1>6. RoleSafe'
        <2> SUFFICES ASSUME "role" \notin clashed' PROVE RoleSafe'
            BY DEF RoleSafe
        <2>1. "role" \notin clashed
            BY <1>1
        <2>2. \A v \in Users : (memberRole[v] # None => RoleLive(memberRole[v]))'
            BY <1>0, <1>1, <1>3, <2>1 DEF IInv, RoleSafe, RoleLive, TypeOK
        <2>3. ASSUME NEW q \in Requests, q # r PROVE RoleReady(q)'
            BY <1>0, <1>1, <1>2, <1>3, <2>1, <2>3, CustomRolesAreNew
            DEF IInv, RoleSafe, RoleReady, RoleLive, Others, TypeOK, RequestOK
        <2> QED
            BY <1>2, <2>2, <2>3 DEF RoleSafe
    <1> QED
        BY <1>4, <1>5, <1>6 DEF IInv

\* Creating a role, or being refused.
LEMMA WriteCreateRoleSafe ==
    ASSUME IInv, NEW r \in Requests, WriteCreateRole(r)
    PROVE  IInv'
    <1>0. TypeOK
        BY DEF IInv
    <1>1. UNCHANGED <<memberRole, clashed>> /\ Finish(r)
        BY DEF WriteCreateRole
    <1>2. /\ roleRow' \in [CustomRoles -> {"none", "live", "deleted"}]
          /\ grants' \in [CustomRoles -> SUBSET Keys]
          /\ \A k \in CustomRoles : roleRow[k] # "none" => roleRow'[k] = roleRow[k]
        BY <1>0 DEF TypeOK, WriteCreateRole
    <1> QED
        BY <1>0, <1>1, <1>2, RoleRowsMayGrow

\* Replacing the permissions of a role.
LEMMA WriteUpdateRoleSafe ==
    ASSUME IInv, NEW r \in Requests, WriteUpdateRole(r)
    PROVE  IInv'
    <1>0. TypeOK
        BY DEF IInv
    <1>1. UNCHANGED <<memberRole, roleRow, clashed>> /\ Finish(r)
        BY DEF WriteUpdateRole
    <1>2. grants' \in [CustomRoles -> SUBSET Keys]
        BY <1>0 DEF TypeOK, WriteUpdateRole
    <1> QED
        BY <1>0, <1>1, <1>2, RoleRowsMayGrow DEF TypeOK

\* Deleting a role.
LEMMA WriteDeleteRoleSafe ==
    ASSUME IInv, NEW r \in Requests, WriteDeleteRole(r)
    PROVE  IInv'
    <1> DEFINE k == req[r].role
    <1>0. /\ TypeOK /\ RequestOK(r) /\ k \in CustomRoles
          /\ req[r].step = "write" /\ req[r].op = "deleterole"
        BY DEF IInv, TypeOK, WriteDeleteRole, RequestOK
    <1>1. /\ roleRow' = [roleRow EXCEPT ![k] = "deleted"]
          /\ UNCHANGED <<memberRole, grants>> /\ Finish(r)
          /\ clashed' = IF OthersUse(r, k) THEN clashed \cup {"role"} ELSE clashed
        BY DEF WriteDeleteRole, Clash
    <1>2. /\ Others(r) /\ OwnerReady(r)' /\ RoleReady(r)'
        BY <1>0, <1>1, FinishStep
    <1>3. TypeOK'
        <2>1. /\ roleRow' \in [CustomRoles -> {"none", "live", "deleted"}]
              /\ \A j \in CustomRoles : roleRow[j] # "none" => roleRow'[j] # "none"
            BY <1>0, <1>1 DEF TypeOK
        <2>2. /\ req' \in [Requests -> RequestRecords]
              /\ \A q \in Requests : RequestOK(q)'
            BY <1>0, <1>1, <2>1, RecordsKept
        <2> QED
            BY <1>0, <1>1, <2>1, <2>2 DEF TypeOK
    <1>4. OwnerSafe'
        <2> SUFFICES ASSUME "owner" \notin clashed' PROVE OwnerSafe'
            BY DEF OwnerSafe
        <2>1. "owner" \notin clashed
            BY <1>1
        <2>2. ASSUME NEW q \in Requests, q # r PROVE OwnerReady(q)'
            BY <1>1, <1>2, <2>1, <2>2 DEF IInv, OwnerSafe, OwnerReady, Others
        <2> QED
            BY <1>1, <1>2, <2>1, <2>2 DEF IInv, OwnerSafe
    <1>5. RoleSafe'
        <2> SUFFICES ASSUME "role" \notin clashed' PROVE RoleSafe'
            BY DEF RoleSafe
        <2>1. "role" \notin clashed /\ ~OthersUse(r, k)
            BY <1>1
        <2>3. \A v \in Users : memberRole[v] # k /\ (memberRole[v] # None => RoleLive(memberRole[v]))
            BY <1>0, <2>1 DEF IInv, RoleSafe, RoleReady
        <2>4. \A v \in Users : (memberRole[v] # None => RoleLive(memberRole[v]))'
            BY <1>0, <1>1, <2>3 DEF RoleLive, TypeOK
        <2>5. ASSUME NEW q \in Requests, q # r PROVE RoleReady(q)'
            <3>1. RoleReady(q) /\ RequestOK(q) /\ req'[q] = req[q]
                BY <1>0, <1>2, <2>1, <2>5 DEF IInv, RoleSafe, TypeOK, Others
            <3>2. req[q].op \in {"invite", "update"} /\ req[q].step # "role" => req[q].role # k
                BY <1>0, <2>1, <2>5 DEF OthersUse
            <3> QED
                BY <1>0, <1>1, <3>1, <3>2 DEF RoleReady, RoleLive, TypeOK
        <2> QED
            BY <1>2, <2>4, <2>5 DEF RoleSafe
    <1> QED
        BY <1>3, <1>4, <1>5 DEF IInv

--------------------------------------------------------------------------------
(* The theorems                                                            *)

\* A new project has its founder as the owner and no request yet.
LEMMA InitSafe ==
    ASSUME Init PROVE IInv
    <1>1. \A r \in Requests : RequestOK(r) /\ OwnerReady(r) /\ RoleReady(r)
        BY MembershipNone
        DEF Init, Idle, RequestOK, OwnerReady, RoleReady, MemberOps, RoleOps, Roles, Predefined
    <1>2. Idle \in RequestRecords
        BY DEF Idle, RequestRecords, Steps
    <1>3. \A u \in Users : memberRole[u] = "owner" \/ memberRole[u] = None
        BY DEF Init
    <1>4. "owner" \notin CustomRoles /\ None \notin CustomRoles /\ "owner" \in Roles
        BY MembershipNone, CustomRolesAreNew DEF Roles, Predefined
    <1>5. TypeOK
        BY <1>1, <1>2, <1>3, <1>4 DEF Init, TypeOK
    <1>6. OwnerSafe
        BY <1>1, FounderIsUser DEF Init, OwnerSafe
    <1>7. RoleSafe
        BY <1>1, <1>3 DEF RoleSafe, RoleLive, Predefined
    <1> QED
        BY <1>5, <1>6, <1>7 DEF IInv

\* Every step keeps the invariant.
LEMMA NextSafe ==
    ASSUME IInv, [Next]_vars PROVE IInv'
    <1>1. CASE UNCHANGED vars
        BY <1>1
        DEF vars, IInv, TypeOK, OwnerSafe, RoleSafe, RequestOK, OwnerReady, RoleReady, RoleLive
    <1>2. ASSUME NEW r \in Requests, Arrive(r) PROVE IInv'
        BY <1>2, ArriveSafe
    <1>3. ASSUME NEW r \in Requests, Serve(r) PROVE IInv'
        BY <1>3, ReadRoleSafe, ReadActorSafe, ReadTargetSafe, TransferReadSafe, CountSafe,
           WriteInviteSafe, WriteUpdateSafe, WriteRemoveSafe, WriteTransferSafe,
           WriteCreateRoleSafe, WriteUpdateRoleSafe, WriteDeleteRoleSafe
        DEF Serve
    <1> QED
        BY <1>1, <1>2, <1>3 DEF Next

\* The inductive invariant holds in every reachable state.
LEMMA Invariance == Spec => []IInv
    BY InitSafe, NextSafe, PTL DEF Spec

\* Members have roles that were created, and every handler of project_service.go
\* holds at each of its steps what that step needs.
THEOREM MembershipTypeCorrect == Spec => []TypeOK
    <1>1. IInv => TypeOK
        BY DEF IInv
    <1> QED
        BY <1>1, Invariance, PTL

\* The checks of UpdateMemberRole, RemoveMember and TransferOwnership keep an owner
\* in the project as long as no two of them overlap in their deciding sections.
THEOREM OwnerIsKept == Spec => []OwnerUnlessClash
    <1>1. IInv => OwnerUnlessClash
        BY DEF IInv, OwnerSafe, OwnerUnlessClash, Owners
    <1> QED
        BY <1>1, Invariance, PTL

\* The check of DeleteCustomRole keeps every member's role alive as long as no
\* deletion overlaps an assignment.
THEOREM RolesAreLive == Spec => []RolesLiveUnlessClash
    <1>1. IInv => RolesLiveUnlessClash
        BY DEF IInv, RoleSafe, RolesLiveUnlessClash, Members
    <1> QED
        BY <1>1, Invariance, PTL

--------------------------------------------------------------------------------
(* Only owners make owners                                                 *)

\* A step that makes nobody an owner and arms at most one handler, which then may
\* not make one either.
LEMMA StaysOrphaned ==
    ASSUME Orphaned, NEW r \in Requests, ~MakesOwner(r)',
           \A q \in Requests : q # r =>
               req'[q].op = req[q].op /\ req'[q].role = req[q].role /\ req'[q].step = req[q].step,
           \A u \in Users : memberRole'[u] = "owner" => memberRole[u] = "owner"
    PROVE  Orphaned'
    BY DEF Orphaned, Owners, MakesOwner

\* The reads arm a handler to make an owner only when its actor is one.
LEMMA ReadsStayOrphaned ==
    ASSUME TypeOK, Orphaned, NEW r \in Requests,
           ReadRole(r) \/ ReadActor(r) \/ ReadTarget(r) \/ TransferRead(r)
             \/ CountOwners(r) \/ CountMembersWithRole(r)
    PROVE  Orphaned'
    <1>0. RequestOK(r) /\ ~MakesOwner(r) /\ \A u \in Users : memberRole[u] # "owner"
        BY DEF TypeOK, Orphaned, Owners
    <1>1. \A u \in Users : memberRole'[u] = memberRole[u]
        BY DEF ReadRole, ReadActor, ReadTarget, TransferRead, CountOwners, CountMembersWithRole
    <1>2. CASE Finish(r)
        BY <1>1, <1>2, FinishStep, StaysOrphaned DEF Others, MakesOwner, Idle
    <1>3. ASSUME NEW s \in Steps, Goto(r, s),
                 \/ s \in {"actor", "count", "tx"}
                 \/ req[r].role # "owner" /\ req[r].op # "transfer"
          PROVE  Orphaned'
        <2>1. /\ req'[r].step = s /\ req'[r].op = req[r].op /\ req'[r].role = req[r].role
              /\ Others(r)
            BY <1>3, GotoStep
        <2>2. ~MakesOwner(r)'
            BY <1>3, <2>1 DEF MakesOwner
        <2> QED
            BY <1>1, <2>1, <2>2, StaysOrphaned DEF Others
    <1>4. CASE ReadRole(r)
        <2>1. PICK s \in Steps : AfterRole(req[r], s) /\ GoIf(r, RoleLive(req[r].role), s)
            BY <1>4 DEF ReadRole
        <2>2. CASE Goto(r, s) /\ req[r].op = "update" /\ req[r].role = "owner"
            <3>1. req'[r].step = "target" /\ req'[r].op = "update" /\ Others(r)
                BY <2>1, <2>2, GotoStep DEF AfterRole
            <3> QED
                BY <1>1, <3>1, StaysOrphaned DEF Others, MakesOwner
        <2>3. CASE Goto(r, s) /\ ~(req[r].op = "update" /\ req[r].role = "owner")
            BY <1>0, <1>3, <1>4, <2>1, <2>3, CustomRolesAreNew
            DEF AfterRole, RequestOK, ReadRole, Predefined
        <2> QED
            BY <1>2, <2>1, <2>2, <2>3 DEF GoIf
    <1>5. CASE ReadActor(r)
        BY <1>0, <1>2, <1>5 DEF ReadActor, GoIf, RequestOK
    <1>6. CASE ReadTarget(r)
        <2>1. PICK s \in Steps : AfterTarget(req[r], s) /\ GoIf(r, TargetOK(req[r]), s)
            BY <1>6 DEF ReadTarget
        <2>2. CASE Goto(r, s)
            BY <1>0, <1>3, <1>6, <2>1, <2>2, MembershipNone
            DEF AfterTarget, MakesOwner, RequestOK, ReadTarget, Roles, Predefined
        <2> QED
            BY <1>2, <2>1, <2>2 DEF GoIf
    <1>7. CASE TransferRead(r)
        BY <1>0, <1>2, <1>7 DEF TransferRead, RequestOK
    <1>8. CASE CountOwners(r) \/ CountMembersWithRole(r)
        <2>1. /\ Finish(r) \/ Goto(r, "write")
              /\ req[r].role # "owner" /\ req[r].op # "transfer" /\ "write" \in Steps
            BY <1>0, <1>8 DEF CountOwners, CountMembersWithRole, GoIf, RequestOK, Steps
        <2> QED
            BY <1>2, <1>3, <2>1
    <1> QED
        BY <1>4, <1>5, <1>6, <1>7, <1>8

\* The writes of handlers that may not make an owner make none.
LEMMA WritesStayOrphaned ==
    ASSUME TypeOK, Orphaned, NEW r \in Requests,
           WriteInvite(r) \/ WriteUpdate(r) \/ WriteRemove(r) \/ WriteTransfer(r)
             \/ WriteCreateRole(r) \/ WriteUpdateRole(r) \/ WriteDeleteRole(r)
    PROVE  Orphaned'
    <1>0. RequestOK(r) /\ ~MakesOwner(r)
        BY DEF TypeOK, Orphaned
    <1>1. ASSUME Finish(r), \A u \in Users : memberRole'[u] = "owner" => memberRole[u] = "owner"
          PROVE  Orphaned'
        BY <1>1, FinishStep, StaysOrphaned DEF Others, MakesOwner, Idle
    <1>2. CASE WriteInvite(r)
        BY <1>0, <1>1, <1>2 DEF WriteInvite, MakesOwner, TypeOK
    <1>3. CASE WriteUpdate(r)
        BY <1>0, <1>1, <1>3 DEF WriteUpdate, MakesOwner, TypeOK
    <1>4. CASE WriteRemove(r)
        <2>1. \A u \in Users : memberRole'[u] = "owner" => memberRole[u] = "owner"
            BY <1>4, MembershipNone DEF WriteRemove, TypeOK, Roles, Predefined
        <2>2. ASSUME NEW q \in Requests, q # r
              PROVE  req'[q].op = req[q].op /\ req'[q].role = req[q].role /\ req'[q].step = req[q].step
            <3>1. req[q] \in RequestRecords
                BY DEF TypeOK
            <3>2. req'[q] = [req[q] EXCEPT !.rows = req[q].rows \ {req[r].target}]
                BY <1>4, <2>2 DEF WriteRemove
            <3> QED
                BY <3>1, <3>2 DEF RequestRecords
        <2>3. req'[r] = Idle
            BY <1>4 DEF WriteRemove
        <2> QED
            BY <2>1, <2>2, <2>3, StaysOrphaned DEF MakesOwner, Idle
    <1>5. CASE WriteTransfer(r)
        BY <1>0, <1>5 DEF WriteTransfer, MakesOwner
    <1>6. CASE WriteCreateRole(r) \/ WriteUpdateRole(r) \/ WriteDeleteRole(r)
        BY <1>1, <1>6 DEF WriteCreateRole, WriteUpdateRole, WriteDeleteRole
    <1> QED
        BY <1>2, <1>3, <1>4, <1>5, <1>6

\* MustBeOwner and the authorization of TransferOwnership: a project that lost its
\* owners gets none back, whatever its admins and custom roles are allowed to do.
THEOREM OnlyOwnersGrantOwnership == Spec => OnlyOwnersMakeOwners
    <1>1. ASSUME TypeOK, [Next]_vars, Orphaned PROVE Orphaned'
        <2>1. CASE UNCHANGED vars
            BY <1>1, <2>1 DEF vars, Orphaned, Owners, MakesOwner
        <2>2. ASSUME NEW r \in Requests, Arrive(r) PROVE Orphaned'
            <3>1. PICK o, s, a, u, k : Opening(o, s, a, u, k) /\ Begin(r, o, s, a, u, k)
                BY <2>2, ArriveOpens
            <3>2. UNCHANGED <<memberRole, roleRow>>
                BY <2>2 DEF Arrive
            <3>3. Others(r) /\ req'[r].step = s /\ req'[r].op = o /\ req'[r].role = k
                BY <1>1, <3>1, <3>2, BeginStep
            <3>4. ~MakesOwner(r)'
                BY <3>1, <3>3 DEF Opening, MakesOwner
            <3> QED
                BY <1>1, <3>2, <3>3, <3>4, StaysOrphaned DEF Others
        <2>3. ASSUME NEW r \in Requests, Serve(r) PROVE Orphaned'
            BY <1>1, <2>3, ReadsStayOrphaned, WritesStayOrphaned DEF Serve
        <2> QED
            BY <1>1, <2>1, <2>2, <2>3 DEF Next
    <1>2. TypeOK /\ [Next]_vars => [Orphaned => Orphaned']_vars
        BY <1>1
    <1> QED
        BY <1>2, MembershipTypeCorrect, PTL DEF Spec, OnlyOwnersMakeOwners

--------------------------------------------------------------------------------
(* Requests one after another                                              *)

OneAtATime == \A p, q \in Requests : req[p].step # "idle" /\ req[q].step # "idle" => p = q

NoRaces == clashed = {}

\* A write finds no other handler to clash with.
LEMMA SerialWrite ==
    ASSUME IInv, OneAtATime, NEW r \in Requests, req[r].step = "write"
    PROVE  ~OthersDecided(r) /\ \A k \in Roles \cup {None} : ~OthersUse(r, k)
    <1>1. \A q \in Requests \ {r} : req[q].op = "none"
        BY DEF OneAtATime, IInv, TypeOK, RequestOK
    <1> QED
        BY <1>1 DEF OthersDecided, OthersUse

LEMMA SerialNext == IInv /\ OneAtATime /\ NoRaces /\ [Next]_vars => NoRaces'
    <1> SUFFICES ASSUME IInv, OneAtATime, clashed = {}, [Next]_vars PROVE clashed' = {}
        BY DEF NoRaces
    <1>1. CASE UNCHANGED vars
        BY <1>1 DEF vars
    <1>2. ASSUME NEW r \in Requests, Arrive(r) PROVE clashed' = {}
        BY <1>2 DEF Arrive
    <1>3. ASSUME NEW r \in Requests, Serve(r) PROVE clashed' = {}
        <2>1. req[r].role \in Roles \cup {None}
            BY DEF IInv, TypeOK, RequestRecords
        <2>2. CASE ReadRole(r) \/ ReadActor(r) \/ ReadTarget(r) \/ TransferRead(r) \/ CountOwners(r)
                   \/ CountMembersWithRole(r) \/ WriteCreateRole(r) \/ WriteUpdateRole(r)
            BY <2>2 DEF ReadRole, ReadActor, ReadTarget, TransferRead, CountOwners, CountMembersWithRole,
                        WriteCreateRole, WriteUpdateRole
        <2>3. CASE WriteInvite(r) \/ WriteDeleteRole(r)
            BY <2>1, <2>3, SerialWrite DEF WriteInvite, WriteDeleteRole, Clash
        <2>4. CASE WriteUpdate(r)
            BY <2>1, <2>4, SerialWrite DEF WriteUpdate
        <2>5. CASE WriteRemove(r) \/ WriteTransfer(r)
            BY <2>5, SerialWrite DEF WriteRemove, WriteTransfer, Clash
        <2> QED
            BY <1>3, <2>2, <2>3, <2>4, <2>5 DEF Serve
    <1> QED
        BY <1>1, <1>2, <1>3 DEF Next

\* The exceptions of OwnerUnlessClash and RolesLiveUnlessClash are races and nothing else:
\* when requests are served one after another, the checks of UpdateMemberRole,
\* RemoveMember, TransferOwnership and DeleteCustomRole keep an owner and the roles of
\* all members.
THEOREM SerialRequestsAreClean ==
    Spec /\ []OneAtATime => [](Owners # {} /\ \A u \in Members : RoleLive(memberRole[u]))
    <1> DEFINE Clean == Owners # {} /\ \A u \in Members : RoleLive(memberRole[u])
    <1>1. Init => NoRaces
        BY DEF Init, NoRaces
    <1>2. IInv /\ NoRaces => Clean
        BY DEF NoRaces, IInv, OwnerSafe, RoleSafe, Owners, Members
    <1> HIDE DEF Clean
    <1>3. Spec /\ []OneAtATime => []Clean
        BY <1>1, <1>2, SerialNext, Invariance, PTL DEF Spec
    <1> QED
        BY <1>3 DEF Clean

================================================================================
