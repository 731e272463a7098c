------------------------------ MODULE DeviceGroups ------------------------------
(***************************************************************************)
(* Custom device types, device groups and their members, and the bulk      *)
(* operations on devices, of one project: device_groups_bulk.go, groups.go *)
(* and the device types of internal/domain/device.                         *)
(*                                                                         *)
(* Requests interleave between their statements.  Names are left out (a    *)
(* partial unique index refuses a second one), and so is the order of      *)
(* created_at: a bulk request may get any of the devices that match.       *)
(***************************************************************************)
EXTENDS Naturals, FiniteSets

CONSTANTS
    Devices,    \* ids of devices, registered or not
    Types,      \* ids of custom device types
    Groups,     \* ids of device groups
    Requests,   \* slots for requests being served at the same time
    SyncCap,    \* MaxBulkDevicesSync
    None        \* no value

ASSUME GroupsNone == None \notin Types \cup Groups \cup Devices
ASSUME DevicesFinite == IsFiniteSet(Devices)
ASSUME SyncCapPositive == SyncCap \in Nat \ {0}

VARIABLES
    type,       \* types: "none", "live" or "deleted" (soft)
    group,      \* groups, likewise
    typeOf,     \* the type of a device, None when it is not registered
    members,    \* pairs of group and device: the device_group_memberships rows
    blocked,    \* devices with blocked set
    req,        \* the requests in flight
    typeRaced,  \* history: devices inserted while their type was being deleted
    addRaced    \* history: members inserted while their group was being deleted

rows == <<type, group, typeOf, members, blocked>>
history == <<typeRaced, addRaced>>
vars == <<rows, req, history>>

Row == {"none", "live", "deleted"}
\* rotate_tokens has the loop of block; its effect is in DeviceRegistry.
BulkActions == {"add", "remove", "block", "unblock"}
Ops == {"register", "deltype", "delgroup"} \cup BulkActions
\* What a filter of a bulk request asks for.
Filters == {"all", "unblocked"}
ASSUME FiltersNone == None \notin Filters

\* ids: the devices that a request works on; ok and bad: those it is done with, with
\* success or failure; seen: the members that the deletion of a group found.
RequestRecords ==
    [op : Ops \cup {"none"}, step : {"idle", "list", "work", "write"},
     type : Types \cup {None}, group : Groups \cup {None},
     filter : Filters \cup {None}, matched : 0..SyncCap,
     ids : SUBSET Devices, ok : SUBSET Devices, bad : SUBSET Devices, seen : SUBSET Devices]

Blank == [op |-> "none", step |-> "idle", type |-> None, group |-> None, filter |-> None,
          matched |-> 0, ids |-> {}, ok |-> {}, bad |-> {}, seen |-> {}]

Open(r, o, st, t, g, f, n, ids, seen) ==
    /\ req[r].step = "idle"
    /\ req' = [req EXCEPT ![r] =
                 [op |-> o, step |-> st, type |-> t, group |-> g, filter |-> f,
                  matched |-> n, ids |-> ids, ok |-> {}, bad |-> {}, seen |-> seen]]
Finish(r) == req' = [req EXCEPT ![r] = Blank]
At(r, o, st) == req[r].op = o /\ req[r].step = st

Init ==
    /\ type = [t \in Types |-> "none"]
    /\ group = [g \in Groups |-> "none"]
    /\ typeOf = [d \in Devices |-> None]
    /\ members = {} /\ blocked = {}
    /\ req = [r \in Requests |-> Blank]
    /\ typeRaced = {} /\ addRaced = {}

Registered == {d \in Devices : typeOf[d] # None}
MembersOf(g) == {d \in Devices : <<g, d>> \in members}

\* The devices of a request that it has still to work on.
Left(r) == req[r].ids \ (req[r].ok \cup req[r].bad)

--------------------------------------------------------------------------------
(* Device types and registration                                           *)

CreateCustomDeviceType(t) ==
    /\ type[t] = "none" /\ type' = [type EXCEPT ![t] = "live"]
    /\ UNCHANGED <<group, typeOf, members, blocked, req, history>>

MutDeleteCustomDeviceType(r, t) ==
    /\ type[t] = "live"
    /\ Open(r, "deltype", "write", t, None, None, 0, {}, {})
    /\ UNCHANGED <<rows, history>>

\* The type is found, and the count of its devices is zero.
DeleteCustomDeviceType(r, t) ==
    /\ type[t] = "live"
    /\ ~ \E d \in Devices : typeOf[d] = t
    /\ Open(r, "deltype", "write", t, None, None, 0, {}, {})
    /\ UNCHANGED <<rows, history>>

SoftDeleteType(r) ==
    /\ At(r, "deltype", "write")
    /\ type' = [type EXCEPT ![req[r].type] = "deleted"]
    /\ Finish(r)
    /\ UNCHANGED <<group, typeOf, members, blocked, history>>

\* GetDeviceType finds the type.
RegisterDevice(r, d, t) ==
    /\ type[t] = "live" /\ d \notin Registered
    /\ Open(r, "register", "write", t, None, None, 0, {d}, {})
    /\ UNCHANGED <<rows, history>>

\* The type is gone, or a deletion of it has counted its devices.
TypeGoing(t) ==
    type[t] # "live" \/ \E p \in Requests : At(p, "deltype", "write") /\ req[p].type = t

\* The insert does not look at the type again.
CreateDevice(r) ==
    LET t == req[r].type IN
    /\ At(r, "register", "write")
    /\ typeOf' = [d \in Devices |-> IF d \in req[r].ids \ Registered THEN t ELSE typeOf[d]]
    /\ typeRaced' = IF TypeGoing(t) THEN typeRaced \cup (req[r].ids \ Registered) ELSE typeRaced
    /\ Finish(r)
    /\ UNCHANGED <<type, group, members, blocked, addRaced>>

--------------------------------------------------------------------------------
(* Groups                                                                  *)

CreateDeviceGroup(g) ==
    /\ group[g] = "none" /\ group' = [group EXCEPT ![g] = "live"]
    /\ UNCHANGED <<type, typeOf, members, blocked, req, history>>

\* GetDeviceGroup does not find a deleted group.
GetDeviceGroup(g) == group[g] = "live"

\* The reads of the transaction: the group, and the members its DELETE finds.
DeleteDeviceGroup(r, g) ==
    /\ GetDeviceGroup(g)
    /\ Open(r, "delgroup", "write", None, g, None, 0, {}, MembersOf(g))
    /\ UNCHANGED <<rows, history>>

MutCommitGroupDelete(r) ==
    LET g == req[r].group IN
    /\ At(r, "delgroup", "write")
    /\ group' = [group EXCEPT ![g] = "deleted"]
    /\ Finish(r)
    /\ UNCHANGED <<type, typeOf, members, blocked, history>>

CommitGroupDelete(r) ==
    LET g == req[r].group IN
    /\ At(r, "delgroup", "write")
    /\ group' = [group EXCEPT ![g] = "deleted"]
    /\ members' = members \ ({g} \X req[r].seen)
    /\ addRaced' = addRaced \cap members'
    /\ Finish(r)
    /\ UNCHANGED <<type, typeOf, blocked, typeRaced>>

\* The group, and every device is one of the project (DevicesBelongToProject).
AddDevicesToGroup(r, g, ids) ==
    /\ GetDeviceGroup(g) /\ ids \subseteq Registered
    /\ Open(r, "add", "write", None, g, None, 0, ids, {})
    /\ UNCHANGED <<rows, history>>

\* The group is gone, or a deletion of it has found its members.
GroupGoing(g) ==
    group[g] # "live" \/ \E p \in Requests : At(p, "delgroup", "write") /\ req[p].group = g

\* One INSERT for each device, without a transaction around them.
InsertMembership(r) ==
    LET g == req[r].group IN
    /\ At(r, "add", "write")
    /\ \E d \in Left(r) :
         /\ members' = members \cup {<<g, d>>}
         /\ req' = [req EXCEPT ![r].ok = @ \cup {d}]
         /\ addRaced' = IF GroupGoing(g) /\ <<g, d>> \notin members
                        THEN addRaced \cup {<<g, d>>} ELSE addRaced
    /\ UNCHANGED <<type, group, typeOf, blocked, typeRaced>>

\* Remove does not look at the devices.
RemoveDevicesFromGroup(r, g, ids) ==
    /\ GetDeviceGroup(g)
    /\ Open(r, "remove", "write", None, g, None, 0, ids, {})
    /\ UNCHANGED <<rows, history>>

DeleteMemberships(r) ==
    /\ At(r, "remove", "write")
    /\ Left(r) # {}
    /\ members' = members \ ({req[r].group} \X Left(r))
    /\ addRaced' = addRaced \cap members'
    /\ req' = [req EXCEPT ![r].ok = @ \cup Left(r)]
    /\ UNCHANGED <<type, group, typeOf, blocked, typeRaced>>

--------------------------------------------------------------------------------
(* Bulk requests                                                           *)

\* applyDeviceListFilter.
Matching(f) == IF f = "all" THEN Registered ELSE Registered \ blocked

\* The group is required, and looked up, for the actions on groups.
BulkGroup(o, g) == IF o \in {"add", "remove"} THEN g \in Groups /\ GetDeviceGroup(g) ELSE g = None

\* BulkDevices with device_ids.
BulkIds(r, o, g, ids) ==
    /\ BulkGroup(o, g)
    /\ ids # {} /\ Cardinality(ids) <= SyncCap
    /\ Open(r, o, "work", None, g, None, 0, ids, {})
    /\ UNCHANGED <<rows, history>>

\* BulkDevices with a filter: the matching devices are counted, ...
BulkFilter(r, o, g, f) ==
    LET n == Cardinality(Matching(f)) IN
    /\ BulkGroup(o, g)
    /\ n <= SyncCap
    /\ Open(r, o, "list", None, g, f, n, {}, {})
    /\ UNCHANGED <<rows, history>>

MutListLimit(n) == SyncCap

\* ... and listed in another statement, with the count as its limit; a limit of
\* zero stands for the cap.
ListLimit(n) == IF n < 1 THEN SyncCap ELSE n

ListDeviceIDsWithFilter(r) ==
    LET found == Matching(req[r].filter)
        limit == ListLimit(req[r].matched)
    IN
    /\ req[r].step = "list"
    /\ \E ids \in SUBSET found :
         /\ Cardinality(ids) <= limit
         /\ ids = found \/ Cardinality(ids) = limit
         /\ req' = [req EXCEPT ![r].step = "work", ![r].filter = None, ![r].ids = ids]
    /\ UNCHANGED <<rows, history>>

MutFilterDevicesInProject(r) ==
    /\ req[r].op \in {"add", "remove"} /\ req[r].step = "work"
    /\ req' = [req EXCEPT ![r].step = "write"]
    /\ UNCHANGED <<rows, history>>

\* The devices that are not of the project fail, the others go on to the group.
FilterDevicesInProject(r) ==
    /\ req[r].op \in {"add", "remove"} /\ req[r].step = "work"
    /\ req' = [req EXCEPT ![r].step = "write", ![r].bad = req[r].ids \ Registered]
    /\ UNCHANGED <<rows, history>>

\* The next device is blocked or unblocked (SetDeviceBlockedTx), or it fails, always
\* so when it is not of the project, and the loop goes on.
BulkEach(r) ==
    /\ req[r].op \in {"block", "unblock"} /\ req[r].step = "work"
    /\ \E d \in Left(r) :
         \/ /\ d \in Registered
            /\ blocked' = IF req[r].op = "block" THEN blocked \cup {d} ELSE blocked \ {d}
            /\ req' = [req EXCEPT ![r].ok = @ \cup {d}]
         \/ /\ req' = [req EXCEPT ![r].bad = @ \cup {d}]
            /\ UNCHANGED blocked
    /\ UNCHANGED <<type, group, typeOf, members, history>>

\* Every device is done.
Respond(r) ==
    /\ req[r].op \in BulkActions
    /\ \/ req[r].step = "write"
       \/ req[r].step = "work" /\ req[r].op \notin {"add", "remove"}
    /\ Left(r) = {}
    /\ Finish(r)
    /\ UNCHANGED <<rows, history>>

\* A statement fails: the request answers an error and leaves what it has written.
RequestFails(r) ==
    /\ req[r].step # "idle"
    /\ Finish(r)
    /\ UNCHANGED <<rows, history>>

--------------------------------------------------------------------------------

TypeRequest(r) ==
    \/ \E t \in Types : DeleteCustomDeviceType(r, t) \/ \E d \in Devices : RegisterDevice(r, d, t)
    \/ SoftDeleteType(r) \/ CreateDevice(r)

GroupRequest(r) ==
    \/ \E g \in Groups :
          \/ DeleteDeviceGroup(r, g)
          \/ \E ids \in SUBSET Devices :
                ids # {} /\ (AddDevicesToGroup(r, g, ids) \/ RemoveDevicesFromGroup(r, g, ids))
    \/ CommitGroupDelete(r) \/ InsertMembership(r) \/ DeleteMemberships(r)

BulkDevices(r) ==
    \/ \E o \in BulkActions, g \in Groups \cup {None} :
          \/ \E ids \in SUBSET Devices : BulkIds(r, o, g, ids)
          \/ \E f \in Filters : BulkFilter(r, o, g, f)
    \/ ListDeviceIDsWithFilter(r) \/ FilterDevicesInProject(r) \/ BulkEach(r)
    \/ Respond(r) \/ RequestFails(r)

Next ==
    \/ \E t \in Types : CreateCustomDeviceType(t)
    \/ \E g \in Groups : CreateDeviceGroup(g)
    \/ \E r \in Requests : TypeRequest(r) \/ GroupRequest(r) \/ BulkDevices(r)

Spec == Init /\ [][Next]_vars

--------------------------------------------------------------------------------
(* Properties                                                              *)

RequestOK(r) ==
    LET q == req[r] IN
    /\ q.step = "idle" <=> q.op = "none"
    /\ q.op \in {"register", "deltype", "delgroup"} => q.step = "write"
    /\ q.op \in {"block", "unblock"} => q.step \in {"list", "work"}
    /\ q.op \in {"register", "deltype"} => q.type \in Types /\ type[q.type] # "none"
    /\ q.op \in {"add", "remove", "delgroup"} => q.group \in Groups /\ group[q.group] # "none"
    /\ q.step = "list" <=> q.filter # None
    /\ q.step = "list" => q.op \in BulkActions /\ q.ids = {} /\ q.ok = {} /\ q.bad = {}
    /\ At(r, "add", "write") => Left(r) \subseteq Registered

\* Type invariant; members are registered devices of groups that existed.
TypeOK ==
    /\ type \in [Types -> Row] /\ group \in [Groups -> Row]
    /\ typeOf \in [Devices -> Types \cup {None}]
    /\ members \subseteq Groups \X Registered
    /\ blocked \subseteq Registered
    /\ req \in [Requests -> RequestRecords]
    /\ typeRaced \subseteq Devices /\ addRaced \subseteq members
    /\ \A d \in Registered : type[typeOf[d]] # "none"
    /\ \A r \in Requests : RequestOK(r)

\* A type in use is not deleted: a registered device has a live type, unless it was
\* inserted after the deletion of the type had counted its devices.
UsedTypesLive == \A d \in Registered \ typeRaced : type[typeOf[d]] = "live"

\* A deleted group has no members, but for those inserted while it was being deleted.
MembersOfLiveGroups == \A m \in members \ addRaced : group[m[1]] = "live"

\* A bulk request works on no more devices than the cap, and on no more than its
\* filter matched, unless the filter had matched none and the listing, without a
\* limit then, found devices that match by now.
BulkWithinCap ==
    \A r \in Requests : req[r].op \in BulkActions /\ req[r].step = "work" =>
        /\ Cardinality(req[r].ids) <= SyncCap
        /\ req[r].matched > 0 => Cardinality(req[r].ids) <= req[r].matched

================================================================================
