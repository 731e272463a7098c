--------------------------- MODULE ProjectMembership ---------------------------
(***************************************************************************)
(* The members and roles of one project: internal/domain/rbac.             *)
(*                                                                         *)
(* Every operation reads (the actor's permission, the role, the target, a  *)
(* count) in statements of their own and ends in one write that relies on  *)
(* what was read.  Handlers interleave between any two statements; one     *)
(* that dies writes nothing and is a handler that takes no further step.   *)
(***************************************************************************)
CONSTANTS
    Users,          \* registered users
    Founder,        \* the user who created the project
    CustomRoles,    \* ids of custom roles (a fresh one for every creation)
    Requests,       \* slots for requests being served at the same time
    None            \* no value

\* The predefined roles; "viewer" stands for developer as well, neither of which
\* has a permission that matters here.
Predefined == {"owner", "admin", "viewer"}
Roles == Predefined \cup CustomRoles

ASSUME FounderIsUser == Founder \in Users
ASSUME MembershipNone == None \notin Users \cup Roles
ASSUME CustomRolesAreNew == CustomRoles \cap Predefined = {}

VARIABLES
    memberRole,     \* project_memberships.role_id; None without a row
    roleRow,        \* custom roles rows: "none", "live" or "deleted" (deleted_at set)
    grants,         \* role_permissions of the custom roles
    req,            \* the requests in flight
    clashed         \* history: "owner" or "role" once two handlers got in each other's way

vars == <<memberRole, roleRow, grants, req, clashed>>

\* Permission keys by their group: member.invite, .update_role and .remove;
\* role.create, .update and .delete.
Keys == {"member", "role"}

MemberOps == {"invite", "update", "remove", "transfer"}
RoleOps == {"createrole", "updaterole", "deleterole"}
Steps == {"idle", "role", "actor", "target", "count", "tx", "write"}

\* rows: the users whose membership rows a transfer has read and will update by id.
RequestRecords ==
    [op : MemberOps \cup RoleOps \cup {"none"}, step : Steps, actor : Users \cup {None},
     target : Users \cup {None}, role : Roles \cup {None}, rows : SUBSET Users]

Idle == [op |-> "none", step |-> "idle", actor |-> None, target |-> None, role |-> None, rows |-> {}]

Begin(r, o, s, a, u, k) ==
    /\ req[r].step = "idle"
    /\ req' = [req EXCEPT ![r] =
                 [op |-> o, step |-> s, actor |-> a, target |-> u, role |-> k, rows |-> {}]]
Goto(r, s) == req' = [req EXCEPT ![r].step = s]
Finish(r) == req' = [req EXCEPT ![r] = Idle]
GoIf(r, cond, s) == IF cond THEN Goto(r, s) ELSE Finish(r)

Owners == {u \in Users : memberRole[u] = "owner"}
Members == {u \in Users : memberRole[u] # None}

\* GetRole finds no soft-deleted role.
RoleLive(k) == k \in Predefined \/ (k \in CustomRoles /\ roleRow[k] = "live")

\* The permissions of a member's role; a deleted role is preloaded as empty.
Permissions(u) ==
    IF memberRole[u] \in {"owner", "admin"} THEN Keys
    ELSE IF memberRole[u] \in CustomRoles /\ RoleLive(memberRole[u]) THEN grants[memberRole[u]]
    ELSE {}

AuthorizeProject(u, key) == key \in Permissions(u)

\* CreateProject: the founder is the owner.
Init ==
    /\ memberRole = [u \in Users |-> IF u = Founder THEN "owner" ELSE None]
    /\ roleRow = [k \in CustomRoles |-> "none"]
    /\ grants = [k \in CustomRoles |-> {}]
    /\ req = [r \in Requests |-> Idle]
    /\ clashed = {}

--------------------------------------------------------------------------------
(* Requests arrive: the actor is authorized.  The actor is remembered when a *)
(* later statement reads it again.                                          *)

IfOwner(a, k) == IF k = "owner" THEN a ELSE None

InviteMember(r, a, u, k) ==
    AuthorizeProject(a, "member") /\ Begin(r, "invite", "role", IfOwner(a, k), u, k)

UpdateMemberRole(r, a, u, k) ==
    AuthorizeProject(a, "member") /\ Begin(r, "update", "role", IfOwner(a, k), u, k)

RemoveMember(r, a, u) ==
    AuthorizeProject(a, "member") /\ Begin(r, "remove", "target", None, u, None)

TransferOwnership(r, a, u) ==
    memberRole[a] = "owner" /\ Begin(r, "transfer", "target", a, u, None)

CreateCustomRole(r, a) ==
    AuthorizeProject(a, "role") /\ Begin(r, "createrole", "write", None, None, None)

UpdateCustomRole(r, a, k) ==
    AuthorizeProject(a, "role") /\ Begin(r, "updaterole", "role", None, None, k)

DeleteCustomRole(r, a, k) ==
    AuthorizeProject(a, "role") /\ Begin(r, "deleterole", "role", None, None, k)

Arrive(r) ==
    /\ \E a \in Users :
         \/ \E u \in Users, k \in Roles : InviteMember(r, a, u, k) \/ UpdateMemberRole(r, a, u, k)
         \/ \E u \in Users : RemoveMember(r, a, u) \/ TransferOwnership(r, a, u)
         \/ CreateCustomRole(r, a)
         \/ \E k \in CustomRoles : UpdateCustomRole(r, a, k) \/ DeleteCustomRole(r, a, k)
    /\ UNCHANGED <<memberRole, roleRow, grants, clashed>>

--------------------------------------------------------------------------------
(* The statements that read                                                *)

AfterRole(q, s) ==
    \/ q.op = "invite" /\ s = IF q.role = "owner" THEN "actor" ELSE "target"
    \/ q.op = "update" /\ s = "target"
    \/ q.op = "updaterole" /\ s = "write"
    \/ q.op = "deleterole" /\ s = "count"

MutReadRole(r) ==
    /\ req[r].step = "role"
    /\ \E s \in Steps : AfterRole(req[r], s) /\ Goto(r, s)
    /\ UNCHANGED <<memberRole, roleRow, grants, clashed>>

\* GetRole with ValidateAssignableRole, or validateMutableCustomRole.
ReadRole(r) ==
    /\ req[r].step = "role"
    /\ \E s \in Steps : AfterRole(req[r], s) /\ GoIf(r, RoleLive(req[r].role), s)
    /\ UNCHANGED <<memberRole, roleRow, grants, clashed>>

MutReadActor(r) ==
    /\ req[r].step = "actor"
    /\ Goto(r, IF req[r].op = "invite" THEN "target" ELSE "write")
    /\ UNCHANGED <<memberRole, roleRow, grants, clashed>>

\* MustBeOwner: only an owner makes owners.
ReadActor(r) ==
    /\ req[r].step = "actor"
    /\ GoIf(r, memberRole[req[r].actor] = "owner",
            IF req[r].op = "invite" THEN "target" ELSE "write")
    /\ UNCHANGED <<memberRole, roleRow, grants, clashed>>

\* An invited user must not be a member, any other target must be one, and to
\* change or remove a member its role must be found (a role that is gone stays
\* gone, so the two reads are one step).
TargetOK(q) ==
    /\ q.op = "invite" => memberRole[q.target] = None
    /\ q.op = "transfer" => memberRole[q.target] # None
    /\ q.op \in {"update", "remove"} => RoleLive(memberRole[q.target])

AfterTarget(q, s) ==
    \/ q.op = "invite" /\ s = "write"
    \/ q.op = "transfer" /\ s = "tx"
    \/ q.op = "update" /\ q.role = "owner" /\ s = "actor"
    \/ /\ q.op = "remove" \/ (q.op = "update" /\ q.role # "owner")
       /\ s = IF memberRole[q.target] = "owner" THEN "count" ELSE "write"

ReadTarget(r) ==
    /\ req[r].step = "target"
    /\ \E s \in Steps : AfterTarget(req[r], s) /\ GoIf(r, TargetOK(req[r]), s)
    /\ UNCHANGED <<memberRole, roleRow, grants, clashed>>

MutCountOwners(r) ==
    /\ req[r].step = "count" /\ req[r].op \in MemberOps
    /\ GoIf(r, Owners # {}, "write")
    /\ UNCHANGED <<memberRole, roleRow, grants, clashed>>

\* Before an owner is demoted or removed: n <= 1 refuses.
CountOwners(r) ==
    /\ req[r].step = "count" /\ req[r].op \in MemberOps
    /\ GoIf(r, \E u, v \in Owners : u # v, "write")
    /\ UNCHANGED <<memberRole, roleRow, grants, clashed>>

MutCountMembersWithRole(r) ==
    /\ req[r].step = "count" /\ req[r].op = "deleterole"
    /\ GoIf(r, RoleLive(req[r].role), "write")
    /\ UNCHANGED <<memberRole, roleRow, grants, clashed>>

\* The repository's DeleteCustomRole: the role is found again and nobody has it.
CountMembersWithRole(r) ==
    /\ req[r].step = "count" /\ req[r].op = "deleterole"
    /\ GoIf(r, RoleLive(req[r].role) /\ \A u \in Users : memberRole[u] # req[r].role, "write")
    /\ UNCHANGED <<memberRole, roleRow, grants, clashed>>

\* The reads of the transfer's transaction: the actor is still an owner, the
\* target still a member and somebody else.
TransferRead(r) ==
    LET q == req[r] IN
    /\ q.step = "tx"
    /\ IF /\ memberRole[q.actor] = "owner"
          /\ memberRole[q.target] # None
          /\ q.actor # q.target
       THEN req' = [req EXCEPT ![r].step = "write", ![r].rows = {q.actor, q.target}]
       ELSE Finish(r)
    /\ UNCHANGED <<memberRole, roleRow, grants, clashed>>

--------------------------------------------------------------------------------
(* The statements that write                                               *)

\* Some other handler has decided to change an existing member.
OthersDecided(r) ==
    \E q \in Requests \ {r} :
        req[q].op \in {"update", "remove", "transfer"} /\ req[q].step = "write"

\* Some other handler has found custom role k live and will assign it, or has
\* found it unused and will delete it.
OthersUse(r, k) ==
    \E q \in Requests \ {r} :
        /\ req[q].role = k /\ k \in CustomRoles
        /\ \/ req[q].op \in {"invite", "update"} /\ req[q].step # "role"
           \/ req[q].op = "deleterole" /\ req[q].step = "write"

Clash(c, kind) == clashed' = IF c THEN clashed \cup {kind} ELSE clashed

\* CreateMembership; the unique index on (project, user) refuses a second row.
WriteInvite(r) ==
    LET q == req[r] IN
    /\ q.step = "write" /\ q.op = "invite"
    /\ memberRole' = [memberRole EXCEPT ![q.target] = IF @ = None THEN q.role ELSE @]
    /\ Finish(r)
    /\ Clash(OthersUse(r, q.role), "role")
    /\ UNCHANGED <<roleRow, grants>>

\* UpdateMembershipRole: no condition on the role that was read.
WriteUpdate(r) ==
    LET q == req[r] IN
    /\ q.step = "write" /\ q.op = "update"
    /\ memberRole' = [memberRole EXCEPT ![q.target] = IF @ = None THEN @ ELSE q.role]
    /\ Finish(r)
    /\ clashed' = clashed \cup (IF OthersUse(r, q.role) THEN {"role"} ELSE {})
                          \cup (IF OthersDecided(r) THEN {"owner"} ELSE {})
    /\ UNCHANGED <<roleRow, grants>>

\* DeleteMembership: a transfer that has read the row will not find it again.
WriteRemove(r) ==
    LET u == req[r].target IN
    /\ req[r].step = "write" /\ req[r].op = "remove"
    /\ memberRole' = [memberRole EXCEPT ![u] = None]
    /\ req' = [q \in Requests |->
                 IF q = r THEN Idle ELSE [req[q] EXCEPT !.rows = @ \ {u}]]
    /\ Clash(OthersDecided(r), "owner")
    /\ UNCHANGED <<roleRow, grants>>

\* Two updates by row id and the commit.
WriteTransfer(r) ==
    LET q == req[r] IN
    /\ q.step = "write" /\ q.op = "transfer"
    /\ memberRole' = [u \in Users |->
                        IF u \notin q.rows THEN memberRole[u]
                        ELSE IF u = q.target THEN "owner" ELSE "admin"]
    /\ Finish(r)
    /\ Clash(OthersDecided(r), "owner")
    /\ UNCHANGED <<roleRow, grants>>

\* A new role with any permissions, or a refusal (name taken, unknown key).
WriteCreateRole(r) ==
    /\ req[r].step = "write" /\ req[r].op = "createrole"
    /\ \/ \E k \in CustomRoles, p \in SUBSET Keys :
            /\ roleRow[k] = "none"
            /\ roleRow' = [roleRow EXCEPT ![k] = "live"]
            /\ grants' = [grants EXCEPT ![k] = p]
       \/ UNCHANGED <<roleRow, grants>>
    /\ Finish(r)
    /\ UNCHANGED <<memberRole, clashed>>

\* The role is read again and its permissions are replaced.
WriteUpdateRole(r) ==
    LET k == req[r].role IN
    /\ req[r].step = "write" /\ req[r].op = "updaterole"
    /\ \E p \in SUBSET Keys :
         grants' = [grants EXCEPT ![k] = IF RoleLive(k) THEN p ELSE @]
    /\ Finish(r)
    /\ UNCHANGED <<memberRole, roleRow, clashed>>

WriteDeleteRole(r) ==
    LET k == req[r].role IN
    /\ req[r].step = "write" /\ req[r].op = "deleterole"
    /\ roleRow' = [roleRow EXCEPT ![k] = "deleted"]
    /\ Finish(r)
    /\ Clash(OthersUse(r, k), "role")
    /\ UNCHANGED <<memberRole, grants>>

--------------------------------------------------------------------------------

Serve(r) ==
    \/ ReadRole(r) \/ ReadActor(r) \/ ReadTarget(r) \/ TransferRead(r)
    \/ CountOwners(r) \/ CountMembersWithRole(r)
    \/ WriteInvite(r) \/ WriteUpdate(r) \/ WriteRemove(r) \/ WriteTransfer(r)
    \/ WriteCreateRole(r) \/ WriteUpdateRole(r) \/ WriteDeleteRole(r)

Next == \E r \in Requests : Arrive(r) \/ Serve(r)

Spec == Init /\ [][Next]_vars

--------------------------------------------------------------------------------
(* Properties                                                              *)

\* What a handler holds at each of its steps.
RequestOK(r) ==
    LET q == req[r] IN
    /\ q.step = "idle" <=> q.op = "none"
    /\ q.op = "none" => q = Idle
    /\ q.op \in MemberOps => q.target \in Users
    /\ q.op \in {"invite", "update"} => q.role \in Roles
    /\ q.op \in {"updaterole", "deleterole"} => q.role \in CustomRoles
    /\ q.op \in {"remove", "transfer", "createrole"} => q.role = None
    /\ q.op = "transfer" \/ q.role = "owner" => q.actor \in Users
    /\ q.op \in RoleOps => q.step \in {"role", "count", "write"}
    /\ q.step = "role" => q.op \in {"invite", "update", "updaterole", "deleterole"}
    /\ q.step = "actor" => q.op \in {"invite", "update"} /\ q.role = "owner"
    /\ q.step = "count" => q.op \in {"update", "remove", "deleterole"} /\ q.role # "owner"
    /\ q.step \in {"target", "tx"} => q.op \in MemberOps
    /\ q.step = "tx" => q.op = "transfer"
    /\ q.rows # {} => /\ q.op = "transfer" /\ q.step = "write"
                     /\ q.rows \subseteq {q.actor, q.target}
    /\ q.step # "role" /\ q.role \in CustomRoles => roleRow[q.role] # "none"

\* Type invariant: members have roles that were created, handlers hold what their
\* step needs.
TypeOK ==
    /\ memberRole \in [Users -> Roles \cup {None}]
    /\ roleRow \in [CustomRoles -> {"none", "live", "deleted"}]
    /\ grants \in [CustomRoles -> SUBSET Keys]
    /\ req \in [Requests -> RequestRecords]
    /\ clashed \subseteq {"owner", "role"}
    /\ \A u \in Users : memberRole[u] \in CustomRoles => roleRow[memberRole[u]] # "none"
    /\ \A r \in Requests : RequestOK(r)

\* A project has an owner unless one handler changed a member while another had
\* already decided to: the counts and checks of UpdateMemberRole, RemoveMember and
\* TransferOwnership are right, and invitations, role changes and handlers that
\* have not finished their reads may run at any time.
OwnerUnlessClash == "owner" \notin clashed => Owners # {}

\* A member's role exists as long as no deletion of a custom role overlaps an
\* assignment of it (DeleteCustomRole: "role is assigned to members").
RolesLiveUnlessClash ==
    "role" \notin clashed =>
        \A u \in Members : RoleLive(memberRole[u])

\* A handler that has found its actor to be an owner and may still make an owner.
MakesOwner(r) ==
    \/ req[r].op = "invite" /\ req[r].role = "owner" /\ req[r].step \in {"target", "write"}
    \/ req[r].op = "update" /\ req[r].role = "owner" /\ req[r].step = "write"
    \/ req[r].op = "transfer" /\ req[r].step = "write"

\* There is no owner, and no handler that can make one.
Orphaned == Owners = {} /\ \A r \in Requests : ~MakesOwner(r)

\* Only owners make owners: whatever members with the member and role permissions
\* do, they cannot give a project without an owner a new one.
OnlyOwnersMakeOwners == [][Orphaned => Orphaned']_vars

================================================================================
