--------------------------- MODULE DeviceGroupsProofs ---------------------------
(***************************************************************************)
(* Theorems about DeviceGroups, for every number of devices, types, groups *)
(* and requests, and every cap.                                            *)
(***************************************************************************)
EXTENDS DeviceGroups, FiniteSetTheorems, TLAPS

--------------------------------------------------------------------------------
(* The inductive invariant                                                 *)

\* A deletion of a type that has counted its devices: those of the type were inserted
\* since.
TypeDeletion(r) ==
    req[r].op = "deltype" => \A d \in Devices : typeOf[d] = req[r].type => d \in typeRaced

\* A deletion of a group that has found its members: the others were inserted since.
GroupDeletion(r) ==
    req[r].op = "delgroup" =>
        \A d \in Devices : <<req[r].group, d>> \in members \ addRaced => d \in req[r].seen

\* What BulkWithinCap says of one request.
WithinCap(r) ==
    req[r].op \in BulkActions /\ req[r].step = "work" =>
        /\ Cardinality(req[r].ids) <= SyncCap
        /\ req[r].matched > 0 => Cardinality(req[r].ids) <= req[r].matched

RequestsSafe == \A r \in Requests : TypeDeletion(r) /\ GroupDeletion(r) /\ WithinCap(r)

IInv == TypeOK /\ UsedTypesLive /\ MembersOfLiveGroups /\ RequestsSafe

--------------------------------------------------------------------------------
(* How a request's record changes                                          *)

Others(r) == \A p \in Requests : p # r => req'[p] = req[p]

LEMMA OpenStep ==
    ASSUME TypeOK, NEW r \in Requests, NEW q \in RequestRecords, req' = [req EXCEPT ![r] = q]
    PROVE  req' \in [Requests -> RequestRecords] /\ Others(r) /\ req'[r] = q
    BY DEF TypeOK, Others

LEMMA BlankRecord == Blank \in RequestRecords /\ Blank.op = "none" /\ Blank.step = "idle" /\ Blank.filter = None
    BY SyncCapPositive DEF Blank, RequestRecords

LEMMA FinishStep ==
    ASSUME TypeOK, NEW r \in Requests, Finish(r)
    PROVE  /\ req' \in [Requests -> RequestRecords] /\ Others(r)
           /\ req'[r].op = "none" /\ req'[r].step = "idle" /\ req'[r].filter = None
    <1>1. req' \in [Requests -> RequestRecords] /\ Others(r) /\ req'[r] = Blank
        BY BlankRecord DEF TypeOK, Finish, Others
    <1> QED
        BY <1>1, BlankRecord

\* A request without an operation holds nothing.
LEMMA DoneOK ==
    ASSUME NEW r \in Requests, req'[r].op = "none", req'[r].step = "idle", req'[r].filter = None
    PROVE  RequestOK(r)' /\ TypeDeletion(r)' /\ GroupDeletion(r)' /\ WithinCap(r)'
    BY DEF RequestOK, TypeDeletion, GroupDeletion, WithinCap, BulkActions, At

\* What the other requests hold stays good while rows only appear or are deleted softly.
LEMMA OtherRequestsOK ==
    ASSUME TypeOK, NEW r \in Requests, Others(r), Registered \subseteq Registered',
           \A t \in Types : type[t] # "none" => type'[t] # "none",
           \A g \in Groups : group[g] # "none" => group'[g] # "none"
    PROVE  \A p \in Requests : p # r => RequestOK(p)'
    BY DEF TypeOK, RequestOK, Others, At, Left

LEMMA OtherCaps ==
    ASSUME IInv, NEW r \in Requests, Others(r)
    PROVE  \A p \in Requests : p # r => WithinCap(p)'
    BY DEF IInv, RequestsSafe, WithinCap, Others

\* A step that only changes the record of its request.
LEMMA RecordKeeps ==
    ASSUME IInv, NEW r \in Requests, Others(r), req' \in [Requests -> RequestRecords],
           UNCHANGED <<rows, history>>,
           RequestOK(r)', TypeDeletion(r)', GroupDeletion(r)', WithinCap(r)'
    PROVE  IInv'
    <1>0. TypeOK
        BY DEF IInv
    <1>1. Registered' = Registered
        BY DEF Registered, rows
    <1>2. \A p \in Requests : RequestOK(p)'
        BY <1>0, <1>1, OtherRequestsOK DEF rows
    <1>3. TypeOK'
        BY <1>0, <1>1, <1>2 DEF TypeOK, rows, history
    <1>4. UsedTypesLive' /\ MembersOfLiveGroups'
        BY <1>1 DEF IInv, UsedTypesLive, MembersOfLiveGroups, rows, history
    <1>5. RequestsSafe'
        <2>1. \A p \in Requests : p # r => TypeDeletion(p)' /\ GroupDeletion(p)'
            BY DEF IInv, RequestsSafe, TypeDeletion, GroupDeletion, Others, rows, history
        <2> QED
            BY <2>1, OtherCaps DEF RequestsSafe
    <1> QED
        BY <1>3, <1>4, <1>5 DEF IInv

\* A request that ends without another effect.
LEMMA EndKeeps ==
    ASSUME IInv, NEW r \in Requests, Finish(r), UNCHANGED <<rows, history>>
    PROVE  IInv'
    BY FinishStep, DoneOK, RecordKeeps DEF IInv

--------------------------------------------------------------------------------
(* Device types and registration                                           *)

LEMMA CreateTypeKeeps ==
    ASSUME IInv, NEW t \in Types, CreateCustomDeviceType(t)
    PROVE  IInv'
    <1>0. /\ TypeOK /\ UNCHANGED <<group, typeOf, members, blocked, req, history>>
          /\ type[t] = "none" /\ type' = [type EXCEPT ![t] = "live"]
        BY DEF IInv, CreateCustomDeviceType
    <1>1. Registered' = Registered
        BY <1>0 DEF Registered
    <1>2. \A p \in Requests : RequestOK(p)'
        BY <1>0, <1>1 DEF TypeOK, RequestOK, At, Left
    <1>3. TypeOK'
        BY <1>0, <1>1, <1>2 DEF TypeOK, history, Row, Registered
    <1>4. UsedTypesLive'
        BY <1>0, <1>1 DEF IInv, UsedTypesLive, TypeOK, history, Registered
    <1>5. MembersOfLiveGroups' /\ RequestsSafe'
        BY <1>0 DEF IInv, MembersOfLiveGroups, RequestsSafe, TypeDeletion, GroupDeletion, WithinCap, history
    <1> QED
        BY <1>3, <1>4, <1>5 DEF IInv

\* The count of the type's devices is zero, so there is none to be inserted before.
LEMMA DeleteTypeArrives ==
    ASSUME IInv, NEW r \in Requests, NEW t \in Types, DeleteCustomDeviceType(r, t)
    PROVE  IInv'
    <1>1. /\ req' \in [Requests -> RequestRecords] /\ Others(r)
          /\ req'[r].op = "deltype" /\ req'[r].step = "write" /\ req'[r].type = t /\ req'[r].filter = None
        <2> DEFINE q == [op |-> "deltype", step |-> "write", type |-> t, group |-> None, filter |-> None,
                         matched |-> 0, ids |-> {}, ok |-> {}, bad |-> {},
                         seen |-> {}]
        <2>1. TypeOK /\ req' = [req EXCEPT ![r] = q]
            BY DEF IInv, DeleteCustomDeviceType, Open
        <2>2. q \in RequestRecords
            BY SyncCapPositive DEF RequestRecords, Ops
        <2> HIDE DEF q
        <2>3. req' \in [Requests -> RequestRecords] /\ Others(r) /\ req'[r] = q
            BY <2>1, <2>2, OpenStep
        <2> QED
            BY <2>3 DEF q
    <1>2. UNCHANGED <<rows, history>> /\ type[t] = "live" /\ ~ \E d \in Devices : typeOf[d] = t
        BY DEF DeleteCustomDeviceType
    <1>3. RequestOK(r)' /\ GroupDeletion(r)' /\ WithinCap(r)'
        BY <1>1, <1>2 DEF RequestOK, GroupDeletion, WithinCap, BulkActions, At, rows
    <1>4. TypeDeletion(r)'
        BY <1>1, <1>2 DEF TypeDeletion, rows
    <1> QED
        BY <1>1, <1>2, <1>3, <1>4, RecordKeeps

\* The devices of the type were all inserted after the count.
LEMMA SoftDeleteTypeKeeps ==
    ASSUME IInv, NEW r \in Requests, SoftDeleteType(r)
    PROVE  IInv'
    <1> DEFINE t == req[r].type
    <1>0. /\ TypeOK /\ UNCHANGED <<group, typeOf, members, blocked, history>>
          /\ req[r].op = "deltype" /\ t \in Types /\ type' = [type EXCEPT ![t] = "deleted"]
        BY DEF IInv, SoftDeleteType, At, TypeOK, RequestOK
    <1>1. /\ req' \in [Requests -> RequestRecords] /\ Others(r)
          /\ RequestOK(r)' /\ TypeDeletion(r)' /\ GroupDeletion(r)' /\ WithinCap(r)'
        BY <1>0, FinishStep, DoneOK DEF SoftDeleteType
    <1>2. Registered' = Registered
        BY <1>0 DEF Registered
    <1>3. TypeOK'
        <2>1. \A x \in Types : type[x] # "none" => type'[x] # "none"
            BY <1>0 DEF TypeOK
        <2>2. \A p \in Requests : RequestOK(p)'
            BY <1>0, <1>1, <1>2, <2>1, OtherRequestsOK
        <2> QED
            BY <1>0, <1>1, <1>2, <2>1, <2>2 DEF TypeOK, history, Row, Registered
    <1>4. UsedTypesLive'
        <2>1. \A d \in Devices : typeOf[d] = t => d \in typeRaced
            BY <1>0 DEF IInv, RequestsSafe, TypeDeletion
        <2> QED
            BY <1>0, <1>2, <2>1 DEF IInv, UsedTypesLive, TypeOK, history, Registered
    <1>5. MembersOfLiveGroups'
        BY <1>0 DEF IInv, MembersOfLiveGroups, history
    <1>6. RequestsSafe'
        <2>1. \A p \in Requests : p # r => TypeDeletion(p)' /\ GroupDeletion(p)'
            BY <1>0, <1>1 DEF IInv, RequestsSafe, TypeDeletion, GroupDeletion, Others, history
        <2> QED
            BY <1>1, <2>1, OtherCaps DEF RequestsSafe
    <1> QED
        BY <1>3, <1>4, <1>5, <1>6 DEF IInv

LEMMA RegisterArrives ==
    ASSUME IInv, NEW r \in Requests, NEW d \in Devices, NEW t \in Types, RegisterDevice(r, d, t)
    PROVE  IInv'
    <1>1. /\ req' \in [Requests -> RequestRecords] /\ Others(r)
          /\ req'[r].op = "register" /\ req'[r].step = "write" /\ req'[r].type = t /\ req'[r].filter = None
        <2> DEFINE q == [op |-> "register", step |-> "write", type |-> t, group |-> None, filter |-> None,
                         matched |-> 0, ids |-> {d}, ok |-> {}, bad |-> {},
                         seen |-> {}]
        <2>1. TypeOK /\ req' = [req EXCEPT ![r] = q]
            BY DEF IInv, RegisterDevice, Open
        <2>2. q \in RequestRecords
            BY SyncCapPositive DEF RequestRecords, Ops
        <2> HIDE DEF q
        <2>3. req' \in [Requests -> RequestRecords] /\ Others(r) /\ req'[r] = q
            BY <2>1, <2>2, OpenStep
        <2> QED
            BY <2>3 DEF q
    <1>2. UNCHANGED <<rows, history>> /\ type[t] = "live"
        BY DEF RegisterDevice
    <1>3. RequestOK(r)' /\ TypeDeletion(r)' /\ GroupDeletion(r)' /\ WithinCap(r)'
        BY <1>1, <1>2 DEF RequestOK, TypeDeletion, GroupDeletion, WithinCap, BulkActions, At, rows
    <1> QED
        BY <1>1, <1>2, <1>3, RecordKeeps

\* A device is inserted with a live type that nobody deletes, or it is a late one.
LEMMA CreateDeviceKeeps ==
    ASSUME IInv, NEW r \in Requests, CreateDevice(r)
    PROVE  IInv'
    <1> DEFINE t == req[r].type
               new == req[r].ids \ Registered
    <1>0. /\ TypeOK /\ UNCHANGED <<type, group, members, blocked, addRaced>>
          /\ t \in Types /\ type[t] # "none" /\ new \subseteq Devices
          /\ typeOf' = [d \in Devices |-> IF d \in new THEN t ELSE typeOf[d]]
          /\ typeRaced' = IF TypeGoing(t) THEN typeRaced \cup new ELSE typeRaced
        BY DEF IInv, CreateDevice, At, TypeOK, RequestOK, RequestRecords
    <1>1. /\ req' \in [Requests -> RequestRecords] /\ Others(r)
          /\ RequestOK(r)' /\ TypeDeletion(r)' /\ GroupDeletion(r)' /\ WithinCap(r)'
        BY <1>0, FinishStep, DoneOK DEF CreateDevice
    <1>2. Registered' = Registered \cup new
        BY <1>0, GroupsNone DEF Registered
    <1>3. TypeOK'
        <2>1. \A p \in Requests : RequestOK(p)'
            BY <1>0, <1>1, <1>2, OtherRequestsOK
        <2>2. typeOf' \in [Devices -> Types \cup {None}] /\ typeRaced' \subseteq Devices
            BY <1>0 DEF TypeOK
        <2>3. \A d \in Registered' : type'[typeOf'[d]] # "none"
            BY <1>0, <1>2 DEF TypeOK, Registered
        <2>4. members' \subseteq Groups \X Registered' /\ blocked' \subseteq Registered'
            BY <1>0, <1>2 DEF TypeOK
        <2> QED
            BY <1>0, <1>1, <2>1, <2>2, <2>3, <2>4 DEF TypeOK
    <1>4. UsedTypesLive'
        <2> SUFFICES ASSUME NEW d \in Registered', d \notin typeRaced' PROVE type'[typeOf'[d]] = "live"
            BY DEF UsedTypesLive
        <2>1. CASE d \in new
            BY <1>0, <2>1 DEF TypeGoing
        <2>2. CASE d \notin new
            BY <1>0, <1>2, <2>2 DEF IInv, UsedTypesLive, Registered
        <2> QED
            BY <2>1, <2>2
    <1>5. MembersOfLiveGroups'
        BY <1>0 DEF IInv, MembersOfLiveGroups
    <1>6. RequestsSafe'
        <2>1. ASSUME NEW p \in Requests, p # r PROVE TypeDeletion(p)'
            <3> SUFFICES ASSUME req[p].op = "deltype", NEW d \in Devices, typeOf'[d] = req[p].type
                         PROVE  d \in typeRaced'
                BY <1>1, <2>1 DEF TypeDeletion, Others
            <3>1. req[p].step = "write"
                BY <1>0 DEF TypeOK, RequestOK
            <3>2. CASE d \in new
                BY <1>0, <3>1, <3>2 DEF TypeGoing, At
            <3>3. CASE d \notin new
                BY <1>0, <3>3 DEF IInv, RequestsSafe, TypeDeletion
            <3> QED
                BY <3>2, <3>3
        <2>2. \A p \in Requests : p # r => GroupDeletion(p)'
            BY <1>0, <1>1 DEF IInv, RequestsSafe, GroupDeletion, Others
        <2> QED
            BY <1>1, <2>1, <2>2, OtherCaps DEF RequestsSafe
    <1> QED
        BY <1>3, <1>4, <1>5, <1>6 DEF IInv

--------------------------------------------------------------------------------
(* Groups                                                                  *)

LEMMA CreateGroupKeeps ==
    ASSUME IInv, NEW g \in Groups, CreateDeviceGroup(g)
    PROVE  IInv'
    <1>0. /\ TypeOK /\ UNCHANGED <<type, typeOf, members, blocked, req, history>>
          /\ group[g] = "none" /\ group' = [group EXCEPT ![g] = "live"]
        BY DEF IInv, CreateDeviceGroup
    <1>1. Registered' = Registered
        BY <1>0 DEF Registered
    <1>2. \A p \in Requests : RequestOK(p)'
        BY <1>0, <1>1 DEF TypeOK, RequestOK, At, Left
    <1>3. TypeOK'
        BY <1>0, <1>1, <1>2 DEF TypeOK, history, Row, Registered
    <1>4. UsedTypesLive'
        BY <1>0, <1>1 DEF IInv, UsedTypesLive, history
    <1>5. MembersOfLiveGroups'
        BY <1>0 DEF IInv, MembersOfLiveGroups, TypeOK, history
    <1>6. RequestsSafe'
        BY <1>0 DEF IInv, RequestsSafe, TypeDeletion, GroupDeletion, WithinCap, history
    <1> QED
        BY <1>3, <1>4, <1>5, <1>6 DEF IInv

\* The deletion of a group finds all its members.
LEMMA DeleteGroupArrives ==
    ASSUME IInv, NEW r \in Requests, NEW g \in Groups, DeleteDeviceGroup(r, g)
    PROVE  IInv'
    <1>1. /\ req' \in [Requests -> RequestRecords] /\ Others(r)
          /\ req'[r].op = "delgroup" /\ req'[r].step = "write" /\ req'[r].group = g
          /\ req'[r].filter = None /\ req'[r].seen = MembersOf(g)
        <2> DEFINE q == [op |-> "delgroup", step |-> "write", type |-> None, group |-> g, filter |-> None,
                         matched |-> 0, ids |-> {}, ok |-> {}, bad |-> {},
                         seen |-> MembersOf(g)]
        <2>1. TypeOK /\ req' = [req EXCEPT ![r] = q]
            BY DEF IInv, DeleteDeviceGroup, Open
        <2>2. q \in RequestRecords
            BY SyncCapPositive DEF RequestRecords, Ops, MembersOf
        <2> HIDE DEF q
        <2>3. req' \in [Requests -> RequestRecords] /\ Others(r) /\ req'[r] = q
            BY <2>1, <2>2, OpenStep
        <2> QED
            BY <2>3 DEF q
    <1>2. UNCHANGED <<rows, history>> /\ group[g] = "live"
        BY DEF DeleteDeviceGroup, GetDeviceGroup
    <1>3. RequestOK(r)' /\ TypeDeletion(r)' /\ WithinCap(r)'
        BY <1>1, <1>2 DEF RequestOK, TypeDeletion, WithinCap, BulkActions, At, rows
    <1>4. GroupDeletion(r)'
        BY <1>1, <1>2 DEF GroupDeletion, MembersOf, rows
    <1> QED
        BY <1>1, <1>2, <1>3, <1>4, RecordKeeps

\* Rows of memberships go away: the invariant after a step that only removes some.
LEMMA FewerMembers ==
    ASSUME IInv, NEW r \in Requests, Others(r), req' \in [Requests -> RequestRecords],
           UNCHANGED <<type, typeOf, blocked, typeRaced>>,
           members' \subseteq members, addRaced' = addRaced \cap members',
           group' \in [Groups -> Row], \A g \in Groups : group[g] # "none" => group'[g] # "none",
           \A m \in members' \ addRaced' : group'[m[1]] = "live",
           RequestOK(r)', TypeDeletion(r)', GroupDeletion(r)', WithinCap(r)'
    PROVE  IInv'
    <1>0. TypeOK
        BY DEF IInv
    <1>1. Registered' = Registered
        BY DEF Registered
    <1>2. \A p \in Requests : RequestOK(p)'
        BY <1>0, <1>1, OtherRequestsOK
    <1>3. TypeOK'
        BY <1>0, <1>1, <1>2 DEF TypeOK
    <1>4. UsedTypesLive' /\ MembersOfLiveGroups'
        BY <1>1 DEF IInv, UsedTypesLive, MembersOfLiveGroups
    <1>5. RequestsSafe'
        <2>1. \A p \in Requests : p # r => TypeDeletion(p)' /\ GroupDeletion(p)'
            BY DEF IInv, RequestsSafe, TypeDeletion, GroupDeletion, Others
        <2> QED
            BY <2>1, OtherCaps DEF RequestsSafe
    <1> QED
        BY <1>3, <1>4, <1>5 DEF IInv

LEMMA CommitGroupDeleteKeeps ==
    ASSUME IInv, NEW r \in Requests, CommitGroupDelete(r)
    PROVE  IInv'
    <1> DEFINE g == req[r].group
    <1>0. /\ TypeOK /\ UNCHANGED <<type, typeOf, blocked, typeRaced>>
          /\ req[r].op = "delgroup" /\ g \in Groups /\ group' = [group EXCEPT ![g] = "deleted"]
          /\ members' = members \ ({g} \X req[r].seen) /\ addRaced' = addRaced \cap members'
        BY DEF IInv, CommitGroupDelete, At, TypeOK, RequestOK
    <1>1. /\ req' \in [Requests -> RequestRecords] /\ Others(r)
          /\ RequestOK(r)' /\ TypeDeletion(r)' /\ GroupDeletion(r)' /\ WithinCap(r)'
        BY <1>0, FinishStep, DoneOK DEF CommitGroupDelete
    <1>2. group' \in [Groups -> Row] /\ \A x \in Groups : group[x] # "none" => group'[x] # "none"
        BY <1>0 DEF TypeOK, Row
    <1>3. ASSUME NEW m \in members' \ addRaced' PROVE group'[m[1]] = "live"
        <2>1. m \in members \ addRaced /\ m \notin {g} \X req[r].seen
            BY <1>0, <1>3
        <2>2. PICK x \in Groups, d \in Devices : m = <<x, d>>
            BY <1>0, <2>1 DEF TypeOK, Registered
        <2>3. x # g
            BY <1>0, <2>1, <2>2 DEF IInv, RequestsSafe, GroupDeletion
        <2>4. group[m[1]] = "live"
            BY <2>1 DEF IInv, MembersOfLiveGroups
        <2> QED
            BY <1>0, <2>2, <2>3, <2>4 DEF TypeOK
    <1> QED
        BY <1>0, <1>1, <1>2, <1>3, FewerMembers

LEMMA AddArrives ==
    ASSUME IInv, NEW r \in Requests, NEW g \in Groups, NEW ids \in SUBSET Devices,
           AddDevicesToGroup(r, g, ids)
    PROVE  IInv'
    <1>1. /\ req' \in [Requests -> RequestRecords] /\ Others(r)
          /\ req'[r].op = "add" /\ req'[r].step = "write" /\ req'[r].group = g
          /\ req'[r].filter = None /\ req'[r].ids = ids
        <2> DEFINE q == [op |-> "add", step |-> "write", type |-> None, group |-> g, filter |-> None,
                         matched |-> 0, ids |-> ids, ok |-> {}, bad |-> {},
                         seen |-> {}]
        <2>1. TypeOK /\ req' = [req EXCEPT ![r] = q]
            BY DEF IInv, AddDevicesToGroup, Open
        <2>2. q \in RequestRecords
            BY SyncCapPositive DEF RequestRecords, Ops, BulkActions
        <2> HIDE DEF q
        <2>3. req' \in [Requests -> RequestRecords] /\ Others(r) /\ req'[r] = q
            BY <2>1, <2>2, OpenStep
        <2> QED
            BY <2>3 DEF q
    <1>2. UNCHANGED <<rows, history>> /\ group[g] = "live" /\ ids \subseteq Registered
        BY DEF AddDevicesToGroup, GetDeviceGroup
    <1>3. Registered' = Registered
        BY <1>2 DEF Registered, rows
    <1>4. RequestOK(r)' /\ TypeDeletion(r)' /\ GroupDeletion(r)' /\ WithinCap(r)'
        BY <1>1, <1>2, <1>3 DEF RequestOK, TypeDeletion, GroupDeletion, WithinCap, At, Left, rows
    <1> QED
        BY <1>1, <1>2, <1>4, RecordKeeps

LEMMA RemoveArrives ==
    ASSUME IInv, NEW r \in Requests, NEW g \in Groups, NEW ids \in SUBSET Devices,
           RemoveDevicesFromGroup(r, g, ids)
    PROVE  IInv'
    <1>1. /\ req' \in [Requests -> RequestRecords] /\ Others(r)
          /\ req'[r].op = "remove" /\ req'[r].step = "write" /\ req'[r].group = g
          /\ req'[r].filter = None
        <2> DEFINE q == [op |-> "remove", step |-> "write", type |-> None, group |-> g, filter |-> None,
                         matched |-> 0, ids |-> ids, ok |-> {}, bad |-> {},
                         seen |-> {}]
        <2>1. TypeOK /\ req' = [req EXCEPT ![r] = q]
            BY DEF IInv, RemoveDevicesFromGroup, Open
        <2>2. q \in RequestRecords
            BY SyncCapPositive DEF RequestRecords, Ops, BulkActions
        <2> HIDE DEF q
        <2>3. req' \in [Requests -> RequestRecords] /\ Others(r) /\ req'[r] = q
            BY <2>1, <2>2, OpenStep
        <2> QED
            BY <2>3 DEF q
    <1>2. UNCHANGED <<rows, history>> /\ group[g] = "live"
        BY DEF RemoveDevicesFromGroup, GetDeviceGroup
    <1>3. RequestOK(r)' /\ TypeDeletion(r)' /\ GroupDeletion(r)' /\ WithinCap(r)'
        BY <1>1, <1>2 DEF RequestOK, TypeDeletion, GroupDeletion, WithinCap, At, rows
    <1> QED
        BY <1>1, <1>2, <1>3, RecordKeeps

\* A step of a request's loop: only the devices it is done with change.
LEMMA DoneStep ==
    ASSUME TypeOK, NEW r \in Requests, NEW D \in SUBSET Devices, NEW B \in SUBSET Devices,
           req' = [req EXCEPT ![r].ok = D] \/ req' = [req EXCEPT ![r].bad = B]
    PROVE  /\ req' \in [Requests -> RequestRecords] /\ Others(r)
           /\ req'[r].op = req[r].op /\ req'[r].step = req[r].step /\ req'[r].type = req[r].type
           /\ req'[r].group = req[r].group /\ req'[r].filter = req[r].filter
           /\ req'[r].matched = req[r].matched /\ req'[r].ids = req[r].ids
           /\ req'[r].seen = req[r].seen
           /\ req'[r].ok \in {req[r].ok, D} /\ req'[r].bad \in {req[r].bad, B}
    <1>1. req[r] \in RequestRecords
        BY DEF TypeOK
    <1>2. CASE req' = [req EXCEPT ![r].ok = D]
        BY <1>1, <1>2 DEF TypeOK, RequestRecords, Others
    <1>3. CASE req' = [req EXCEPT ![r].bad = B]
        BY <1>1, <1>3 DEF TypeOK, RequestRecords, Others
    <1> QED
        BY <1>2, <1>3

\* A member is inserted into a live group that nobody deletes, or it is a late one.
LEMMA InsertKeeps ==
    ASSUME IInv, NEW r \in Requests, InsertMembership(r)
    PROVE  IInv'
    <1> DEFINE g == req[r].group
    <1>0. /\ TypeOK /\ UNCHANGED <<type, group, typeOf, blocked, typeRaced>>
          /\ req[r].op = "add" /\ req[r].step = "write" /\ g \in Groups /\ Left(r) \subseteq Registered
        BY DEF IInv, InsertMembership, At, TypeOK, RequestOK
    <1>1. PICK d \in Left(r) :
            /\ members' = members \cup {<<g, d>>}
            /\ req' = [req EXCEPT ![r].ok = @ \cup {d}]
            /\ addRaced' = IF GroupGoing(g) /\ <<g, d>> \notin members
                           THEN addRaced \cup {<<g, d>>} ELSE addRaced
        BY DEF InsertMembership
    <1>2. d \in Registered /\ d \in Devices
        BY <1>0, <1>1 DEF Registered
    <1>3. /\ req' \in [Requests -> RequestRecords] /\ Others(r)
          /\ req'[r].op = "add" /\ req'[r].step = "write" /\ req'[r].group = g
          /\ req'[r].filter = req[r].filter /\ req'[r].ids = req[r].ids
          /\ req'[r].ok \in {req[r].ok, req[r].ok \cup {d}} /\ req'[r].bad = req[r].bad
        <2> DEFINE D == req[r].ok \cup {d}
                   B == req[r].bad
        <2>1. D \in SUBSET Devices /\ B \in SUBSET Devices
            BY <1>0, <1>2 DEF TypeOK, RequestRecords
        <2>2. req' = [req EXCEPT ![r].ok = D]
            BY <1>1
        <2> HIDE DEF D
        <2>3. /\ req' \in [Requests -> RequestRecords] /\ Others(r)
              /\ req'[r].op = req[r].op /\ req'[r].step = req[r].step /\ req'[r].group = req[r].group
              /\ req'[r].filter = req[r].filter /\ req'[r].ids = req[r].ids
              /\ req'[r].ok \in {req[r].ok, D} /\ req'[r].bad \in {req[r].bad, B}
            BY <1>0, <2>1, <2>2, DoneStep
        <2> QED
            BY <1>0, <2>3 DEF D
    <1>4. Registered' = Registered
        BY <1>0 DEF Registered
    <1>5. RequestOK(r)' /\ TypeDeletion(r)' /\ GroupDeletion(r)' /\ WithinCap(r)'
        BY <1>0, <1>3, <1>4 DEF TypeOK, RequestOK, TypeDeletion, GroupDeletion, WithinCap, At, Left
    <1>6. TypeOK'
        <2>1. \A p \in Requests : RequestOK(p)'
            BY <1>0, <1>3, <1>4, <1>5, OtherRequestsOK
        <2>2. members' \subseteq Groups \X Registered' /\ addRaced' \subseteq members'
            BY <1>0, <1>1, <1>2, <1>4 DEF TypeOK
        <2> QED
            BY <1>0, <1>3, <1>4, <2>1, <2>2 DEF TypeOK
    <1>7. UsedTypesLive'
        BY <1>0, <1>4 DEF IInv, UsedTypesLive
    <1>8. MembersOfLiveGroups'
        <2> SUFFICES ASSUME NEW m \in members' \ addRaced' PROVE group'[m[1]] = "live"
            BY DEF MembersOfLiveGroups
        <2>1. CASE m \in members
            BY <1>0, <1>1, <2>1 DEF IInv, MembersOfLiveGroups
        <2>2. CASE m \notin members
            BY <1>0, <1>1, <2>2 DEF GroupGoing
        <2> QED
            BY <2>1, <2>2
    <1>9. RequestsSafe'
        <2>1. \A p \in Requests : p # r => TypeDeletion(p)'
            BY <1>0, <1>3 DEF IInv, RequestsSafe, TypeDeletion, Others
        <2>2. ASSUME NEW p \in Requests, p # r PROVE GroupDeletion(p)'
            <3> SUFFICES ASSUME req[p].op = "delgroup", NEW x \in Devices,
                                <<req[p].group, x>> \in members' \ addRaced'
                         PROVE  x \in req[p].seen
                BY <1>3, <2>2 DEF GroupDeletion, Others
            <3>1. req[p].step = "write"
                BY <1>0 DEF TypeOK, RequestOK
            <3>2. <<req[p].group, x>> \in members
                BY <1>1, <3>1 DEF GroupGoing, At
            <3> QED
                BY <1>1, <3>2 DEF IInv, RequestsSafe, GroupDeletion
        <2> QED
            BY <1>3, <1>5, <2>1, <2>2, OtherCaps DEF RequestsSafe
    <1> QED
        BY <1>6, <1>7, <1>8, <1>9 DEF IInv

LEMMA DeleteMembershipsKeeps ==
    ASSUME IInv, NEW r \in Requests, DeleteMemberships(r)
    PROVE  IInv'
    <1>0. /\ TypeOK /\ UNCHANGED <<type, group, typeOf, blocked, typeRaced>>
          /\ req[r].op = "remove" /\ req[r].step = "write"
          /\ members' \subseteq members /\ addRaced' = addRaced \cap members'
          /\ req' = [req EXCEPT ![r].ok = @ \cup Left(r)]
        BY DEF IInv, DeleteMemberships, At
    <1>1. /\ req' \in [Requests -> RequestRecords] /\ Others(r)
          /\ req'[r].op = "remove" /\ req'[r].step = "write" /\ req'[r].group = req[r].group
          /\ req'[r].filter = req[r].filter
        <2>1. req[r].ok \cup Left(r) \in SUBSET Devices /\ req[r].bad \in SUBSET Devices
            BY <1>0 DEF TypeOK, RequestRecords, Left
        <2> QED
            BY <1>0, <2>1, DoneStep
    <1>2. RequestOK(r)' /\ TypeDeletion(r)' /\ GroupDeletion(r)' /\ WithinCap(r)'
        BY <1>0, <1>1 DEF TypeOK, RequestOK, TypeDeletion, GroupDeletion, WithinCap, At
    <1>3. \A m \in members' \ addRaced' : group'[m[1]] = "live"
        BY <1>0 DEF IInv, MembersOfLiveGroups
    <1> QED
        BY <1>0, <1>1, <1>2, <1>3, FewerMembers DEF TypeOK

--------------------------------------------------------------------------------
(* Bulk requests                                                           *)

\* A bulk request names its group when the action needs one, and the group is live.
LEMMA BulkGroupOK ==
    ASSUME NEW o \in BulkActions, NEW g \in Groups \cup {None}, BulkGroup(o, g)
    PROVE  o \in {"add", "remove"} => g \in Groups /\ group[g] = "live"
    BY DEF BulkGroup, GetDeviceGroup

LEMMA BulkIdsArrives ==
    ASSUME IInv, NEW r \in Requests, NEW o \in BulkActions, NEW g \in Groups \cup {None},
           NEW ids \in SUBSET Devices, BulkIds(r, o, g, ids)
    PROVE  IInv'
    <1>1. /\ req' \in [Requests -> RequestRecords] /\ Others(r)
          /\ req'[r].op = o /\ req'[r].step = "work" /\ req'[r].group = g
          /\ req'[r].filter = None /\ req'[r].ids = ids /\ req'[r].matched = 0
        <2> DEFINE q == [op |-> o, step |-> "work", type |-> None, group |-> g, filter |-> None,
                         matched |-> 0, ids |-> ids, ok |-> {}, bad |-> {},
                         seen |-> {}]
        <2>1. TypeOK /\ req' = [req EXCEPT ![r] = q]
            BY DEF IInv, BulkIds, Open
        <2>2. q \in RequestRecords
            BY SyncCapPositive DEF RequestRecords, Ops
        <2> HIDE DEF q
        <2>3. req' \in [Requests -> RequestRecords] /\ Others(r) /\ req'[r] = q
            BY <2>1, <2>2, OpenStep
        <2> QED
            BY <2>3 DEF q
    <1>2. UNCHANGED <<rows, history>> /\ Cardinality(ids) <= SyncCap
        BY DEF BulkIds
    <1>3. o \in {"add", "remove"} => g \in Groups /\ group[g] = "live"
        BY BulkGroupOK DEF BulkIds
    <1>4. RequestOK(r)'
        BY <1>1, <1>2, <1>3 DEF RequestOK, BulkActions, At, rows
    <1>5. TypeDeletion(r)' /\ GroupDeletion(r)' /\ WithinCap(r)'
        BY <1>1, <1>2 DEF TypeDeletion, GroupDeletion, WithinCap, BulkActions
    <1> QED
        BY <1>1, <1>2, <1>4, <1>5, RecordKeeps

\* The devices that match a filter are finitely many.
LEMMA MatchingCount ==
    ASSUME NEW f
    PROVE  Cardinality(Matching(f)) \in Nat
    <1>1. Matching(f) \subseteq Devices
        BY DEF Matching, Registered
    <1> QED
        BY <1>1, DevicesFinite, FS_Subset, FS_CardinalityType

LEMMA BulkFilterArrives ==
    ASSUME IInv, NEW r \in Requests, NEW o \in BulkActions, NEW g \in Groups \cup {None},
           NEW f \in Filters, BulkFilter(r, o, g, f)
    PROVE  IInv'
    <1>0. Cardinality(Matching(f)) \in 0..SyncCap
        BY MatchingCount, SyncCapPositive DEF BulkFilter
    <1>1. UNCHANGED <<rows, history>>
        BY DEF BulkFilter
    <1>2. /\ req' \in [Requests -> RequestRecords] /\ Others(r)
          /\ req'[r].op = o /\ req'[r].step = "list" /\ req'[r].group = g /\ req'[r].filter = f
          /\ req'[r].ids = {} /\ req'[r].ok = {} /\ req'[r].bad = {}
        <2> DEFINE q == [op |-> o, step |-> "list", type |-> None, group |-> g, filter |-> f,
                         matched |-> Cardinality(Matching(f)), ids |-> {}, ok |-> {}, bad |-> {},
                         seen |-> {}]
        <2>1. TypeOK /\ req' = [req EXCEPT ![r] = q]
            BY DEF IInv, BulkFilter, Open
        <2>2. q \in RequestRecords
            BY <1>0 DEF RequestRecords, Ops
        <2> HIDE DEF q
        <2>3. req' \in [Requests -> RequestRecords] /\ Others(r) /\ req'[r] = q
            BY <2>1, <2>2, OpenStep
        <2> QED
            BY <2>3 DEF q
    <1>3. o \in {"add", "remove"} => g \in Groups /\ group[g] = "live"
        BY BulkGroupOK DEF BulkFilter
    <1>4. RequestOK(r)'
        BY <1>1, <1>2, <1>3, FiltersNone DEF RequestOK, BulkActions, At, rows
    <1>5. TypeDeletion(r)' /\ GroupDeletion(r)' /\ WithinCap(r)'
        BY <1>2 DEF TypeDeletion, GroupDeletion, WithinCap, BulkActions
    <1> QED
        BY <1>1, <1>2, <1>4, <1>5, RecordKeeps

\* The limit of the listing is the number counted, and never more than the cap.
LEMMA ListLimitBound ==
    ASSUME NEW n \in 0..SyncCap
    PROVE  ListLimit(n) \in 1..SyncCap /\ (n > 0 => ListLimit(n) = n)
    BY SyncCapPositive DEF ListLimit

\* The listing is another statement than the count, but it keeps to the count.
LEMMA ListKeeps ==
    ASSUME IInv, NEW r \in Requests, ListDeviceIDsWithFilter(r)
    PROVE  IInv'
    <1>0. /\ TypeOK /\ UNCHANGED <<rows, history>> /\ req[r].step = "list"
          /\ req[r] \in RequestRecords /\ req[r].op \in BulkActions /\ RequestOK(r)
        BY DEF IInv, ListDeviceIDsWithFilter, TypeOK, RequestOK
    <1>1. PICK ids \in SUBSET Matching(req[r].filter) :
            /\ Cardinality(ids) <= ListLimit(req[r].matched)
            /\ req' = [req EXCEPT ![r].step = "work", ![r].filter = None, ![r].ids = ids]
        BY DEF ListDeviceIDsWithFilter
    <1>2. ids \subseteq Devices
        BY DEF Matching, Registered
    <1>3. /\ req' \in [Requests -> RequestRecords] /\ Others(r)
          /\ req'[r].op = req[r].op /\ req'[r].step = "work" /\ req'[r].group = req[r].group
          /\ req'[r].filter = None /\ req'[r].ids = ids /\ req'[r].matched = req[r].matched
        BY <1>0, <1>1, <1>2 DEF TypeOK, RequestRecords, Others
    <1>4. RequestOK(r)' /\ TypeDeletion(r)' /\ GroupDeletion(r)'
        BY <1>0, <1>3 DEF RequestOK, TypeDeletion, GroupDeletion, BulkActions, At, rows
    <1>5. WithinCap(r)'
        <2>1. ids \subseteq Devices /\ Cardinality(ids) \in Nat /\ req[r].matched \in 0..SyncCap
            BY <1>0, <1>2, DevicesFinite, FS_Subset, FS_CardinalityType DEF RequestRecords
        <2>2. ListLimit(req[r].matched) \in 1..SyncCap
              /\ (req[r].matched > 0 => ListLimit(req[r].matched) = req[r].matched)
            BY <2>1, ListLimitBound
        <2> QED
            BY <1>1, <1>3, <2>1, <2>2, SyncCapPositive DEF WithinCap
    <1> QED
        BY <1>0, <1>3, <1>4, <1>5, RecordKeeps

\* The devices left for the group are of the project.
LEMMA FilterKeeps ==
    ASSUME IInv, NEW r \in Requests, FilterDevicesInProject(r)
    PROVE  IInv'
    <1>0. /\ TypeOK /\ UNCHANGED <<rows, history>> /\ req[r] \in RequestRecords /\ RequestOK(r)
          /\ req[r].op \in {"add", "remove"} /\ req[r].step = "work"
        BY DEF IInv, FilterDevicesInProject, TypeOK
    <1> DEFINE B == req[r].ids \ Registered
    <1>1. req' = [req EXCEPT ![r].step = "write", ![r].bad = B] /\ B \subseteq Devices
        BY <1>0 DEF FilterDevicesInProject, RequestRecords
    <1> HIDE DEF B
    <1>2. /\ req' \in [Requests -> RequestRecords] /\ Others(r)
          /\ req'[r].op = req[r].op /\ req'[r].step = "write" /\ req'[r].group = req[r].group
          /\ req'[r].filter = req[r].filter /\ req'[r].ids = req[r].ids /\ req'[r].bad = B
        BY <1>0, <1>1 DEF TypeOK, RequestRecords, Others
    <1>3. Left(r)' \subseteq Registered /\ Registered' = Registered
        BY <1>0, <1>2 DEF Left, Registered, B, rows
    <1>4. RequestOK(r)' /\ TypeDeletion(r)' /\ GroupDeletion(r)' /\ WithinCap(r)'
        BY <1>0, <1>2, <1>3 DEF RequestOK, TypeDeletion, GroupDeletion, WithinCap, At, rows
    <1> QED
        BY <1>0, <1>2, <1>4, RecordKeeps

\* Blocking is a matter of the device: types, groups and members stay as they are.
LEMMA BulkEachKeeps ==
    ASSUME IInv, NEW r \in Requests, BulkEach(r)
    PROVE  IInv'
    <1>0. /\ TypeOK /\ UNCHANGED <<type, group, typeOf, members, history>>
          /\ req[r].op \in {"block", "unblock"} /\ req[r].step = "work" /\ RequestOK(r) /\ WithinCap(r)
        BY DEF IInv, BulkEach, TypeOK, RequestsSafe
    <1>1. PICK d \in Left(r) :
            \/ /\ d \in Registered
               /\ blocked' = IF req[r].op = "block" THEN blocked \cup {d} ELSE blocked \ {d}
               /\ req' = [req EXCEPT ![r].ok = @ \cup {d}]
            \/ req' = [req EXCEPT ![r].bad = @ \cup {d}] /\ UNCHANGED blocked
        BY DEF BulkEach
    <1>2. /\ req' \in [Requests -> RequestRecords] /\ Others(r)
          /\ req'[r].op = req[r].op /\ req'[r].step = req[r].step /\ req'[r].filter = req[r].filter
          /\ req'[r].matched = req[r].matched /\ req'[r].ids = req[r].ids
        <2> DEFINE D == req[r].ok \cup {d}
                   B == req[r].bad \cup {d}
        <2>1. D \in SUBSET Devices /\ B \in SUBSET Devices
            BY <1>0, <1>1 DEF TypeOK, RequestRecords, Left
        <2>2. req' = [req EXCEPT ![r].ok = D] \/ req' = [req EXCEPT ![r].bad = B]
            BY <1>1
        <2> HIDE DEF D, B
        <2> QED
            BY <1>0, <2>1, <2>2, DoneStep
    <1>3. Registered' = Registered /\ blocked' \subseteq Registered
        BY <1>0, <1>1 DEF TypeOK, Registered
    <1>4. RequestOK(r)' /\ TypeDeletion(r)' /\ GroupDeletion(r)' /\ WithinCap(r)'
        BY <1>0, <1>2 DEF RequestOK, TypeDeletion, GroupDeletion, WithinCap, At
    <1>5. TypeOK'
        <2>1. \A p \in Requests : RequestOK(p)'
            BY <1>0, <1>2, <1>3, <1>4, OtherRequestsOK
        <2> QED
            BY <1>0, <1>2, <1>3, <2>1 DEF TypeOK, history
    <1>6. UsedTypesLive' /\ MembersOfLiveGroups'
        BY <1>0, <1>3 DEF IInv, UsedTypesLive, MembersOfLiveGroups, history
    <1>7. RequestsSafe'
        <2>1. \A p \in Requests : p # r => TypeDeletion(p)' /\ GroupDeletion(p)'
            BY <1>0, <1>2 DEF IInv, RequestsSafe, TypeDeletion, GroupDeletion, Others, history
        <2> QED
            BY <1>2, <1>4, <2>1, OtherCaps DEF RequestsSafe
    <1> QED
        BY <1>5, <1>6, <1>7 DEF IInv

--------------------------------------------------------------------------------
(* The invariant                                                           *)

LEMMA InitIInv == Init => IInv
    <1> SUFFICES ASSUME Init PROVE IInv
        OBVIOUS
    <1>1. \A r \in Requests : req[r] = Blank
        BY DEF Init
    <1>2. Registered = {}
        BY DEF Init, Registered
    <1>3. TypeOK
        <2>1. req \in [Requests -> RequestRecords]
            BY BlankRecord DEF Init
        <2>2. \A r \in Requests : RequestOK(r)
            BY <1>1, BlankRecord DEF RequestOK, BulkActions, At
        <2> QED
            BY <1>2, <2>1, <2>2 DEF Init, TypeOK, Row
    <1>4. UsedTypesLive /\ MembersOfLiveGroups
        BY <1>2 DEF Init, UsedTypesLive, MembersOfLiveGroups
    <1>5. RequestsSafe
        BY <1>1, BlankRecord DEF RequestsSafe, TypeDeletion, GroupDeletion, WithinCap, BulkActions
    <1> QED
        BY <1>3, <1>4, <1>5 DEF IInv

LEMMA NextIInv == IInv /\ [Next]_vars => IInv'
    <1> SUFFICES ASSUME IInv, [Next]_vars PROVE IInv'
        OBVIOUS
    <1>1. CASE UNCHANGED vars
        BY <1>1 DEF vars, rows, history, IInv, TypeOK, RequestOK, Registered, Left, At,
                    UsedTypesLive, MembersOfLiveGroups, RequestsSafe, TypeDeletion, GroupDeletion, WithinCap
    <1>2. CASE \E t \in Types : CreateCustomDeviceType(t)
        BY <1>2, CreateTypeKeeps
    <1>3. CASE \E g \in Groups : CreateDeviceGroup(g)
        BY <1>3, CreateGroupKeeps
    <1>4. ASSUME NEW r \in Requests, TypeRequest(r) PROVE IInv'
        BY <1>4, DeleteTypeArrives, RegisterArrives, SoftDeleteTypeKeeps, CreateDeviceKeeps DEF TypeRequest
    <1>5. ASSUME NEW r \in Requests, GroupRequest(r) PROVE IInv'
        BY <1>5, DeleteGroupArrives, AddArrives, RemoveArrives, CommitGroupDeleteKeeps, InsertKeeps,
           DeleteMembershipsKeeps DEF GroupRequest
    <1>6. ASSUME NEW r \in Requests, BulkDevices(r) PROVE IInv'
        <2>1. CASE Respond(r) \/ RequestFails(r)
            BY <2>1, EndKeeps DEF Respond, RequestFails
        <2> QED
            BY <1>6, <2>1, BulkIdsArrives, BulkFilterArrives, ListKeeps, FilterKeeps, BulkEachKeeps
               DEF BulkDevices
    <1> QED
        BY <1>1, <1>2, <1>3, <1>4, <1>5, <1>6 DEF Next

\* Every state of every behaviour satisfies the inductive invariant.
THEOREM Inductive == Spec => []IInv
    BY InitIInv, NextIInv, PTL DEF Spec

--------------------------------------------------------------------------------
(* The properties                                                          *)

\* Rows and requests stay well formed: a member or a blocked device is a registered
\* device, and what an add to a group has still to insert is of the project
\* (DevicesBelongToProject, FilterDevicesInProject), as no device is ever deleted.
THEOREM GroupsTypeCorrect == Spec => []TypeOK
    BY Inductive, PTL DEF IInv

\* DeleteCustomDeviceType counts the devices of the type before it deletes the type: the
\* only devices of a deleted type are those that RegisterDevice inserts after the count.
THEOREM TypesInUseAreLive == Spec => []UsedTypesLive
    BY Inductive, PTL DEF IInv

\* DeleteDeviceGroup deletes the memberships of a group with the group: the only members of
\* a deleted group are those that an add inserts after the deletion has found the others.
THEOREM MembersAreOfLiveGroups == Spec => []MembersOfLiveGroups
    BY Inductive, PTL DEF IInv

\* BulkDevices works on at most MaxBulkDevicesSync devices, whatever is registered, blocked
\* or unblocked between its count and its listing.
THEOREM BulkKeepsToCap == Spec => []BulkWithinCap
    <1>1. IInv => BulkWithinCap
        BY DEF IInv, RequestsSafe, WithinCap, BulkWithinCap
    <1> QED
        BY <1>1, Inductive, PTL

--------------------------------------------------------------------------------
(* Requests one after another                                              *)

OneAtATime == \A p, q \in Requests : req[p].step # "idle" /\ req[q].step # "idle" => p = q

\* The type or group that an insert relies on is live.
Current(r) ==
    /\ req[r].op = "register" => type[req[r].type] = "live"
    /\ req[r].op = "add" => group[req[r].group] = "live"

NoRaces == typeRaced = {} /\ addRaced = {} /\ \A r \in Requests : Current(r)

\* A step of a request is its alone.
LEMMA RequestStep ==
    ASSUME TypeOK, NEW r \in Requests, TypeRequest(r) \/ GroupRequest(r) \/ BulkDevices(r)
    PROVE  Others(r) /\ (req[r].step # "idle" \/ req'[r].step # "idle")
    <1>1. CASE TypeRequest(r)
        BY <1>1 DEF TypeRequest, DeleteCustomDeviceType, RegisterDevice, SoftDeleteType, CreateDevice,
                    Open, Finish, At, TypeOK, Others
    <1>2. CASE GroupRequest(r)
        <2>1. CASE \E g \in Groups : DeleteDeviceGroup(r, g)
            BY <2>1 DEF DeleteDeviceGroup, Open, TypeOK, Others
        <2>2. CASE \E g \in Groups, ids \in SUBSET Devices :
                      AddDevicesToGroup(r, g, ids) \/ RemoveDevicesFromGroup(r, g, ids)
            BY <2>2 DEF AddDevicesToGroup, RemoveDevicesFromGroup, Open, TypeOK, Others
        <2>3. CASE CommitGroupDelete(r) \/ InsertMembership(r) \/ DeleteMemberships(r)
            BY <2>3 DEF CommitGroupDelete, InsertMembership, DeleteMemberships, Finish, At, TypeOK, Others
        <2> QED
            BY <1>2, <2>1, <2>2, <2>3 DEF GroupRequest
    <1>3. CASE BulkDevices(r)
        <2>1. CASE \E o \in BulkActions, g \in Groups \cup {None} :
                      \/ \E ids \in SUBSET Devices : BulkIds(r, o, g, ids)
                      \/ \E f \in Filters : BulkFilter(r, o, g, f)
            BY <2>1 DEF BulkIds, BulkFilter, Open, TypeOK, Others
        <2>2. CASE ListDeviceIDsWithFilter(r) \/ FilterDevicesInProject(r) \/ BulkEach(r)
            BY <2>2 DEF ListDeviceIDsWithFilter, FilterDevicesInProject, BulkEach, TypeOK, Others
        <2>3. CASE Respond(r) \/ RequestFails(r)
            BY <2>3 DEF Respond, RequestFails, Finish, TypeOK, Others
        <2> QED
            BY <1>3, <2>1, <2>2, <2>3 DEF BulkDevices
    <1> QED
        BY <1>1, <1>2, <1>3

\* When requests do not overlap, the others are idle before and after a step of one.
LEMMA OthersIdle ==
    ASSUME TypeOK, OneAtATime, OneAtATime', NEW r \in Requests,
           Others(r), req[r].step # "idle" \/ req'[r].step # "idle"
    PROVE  \A p \in Requests : p # r => req[p].op = "none" /\ req'[p].op = "none"
    <1> SUFFICES ASSUME NEW p \in Requests, p # r PROVE req[p].op = "none" /\ req'[p].op = "none"
        OBVIOUS
    <1>1. req'[p] = req[p] /\ req[p].step = "idle"
        BY DEF OneAtATime, Others
    <1> QED
        BY <1>1 DEF TypeOK, RequestOK

LEMMA SerialStep ==
    ASSUME IInv, NoRaces, OneAtATime, OneAtATime', NEW r \in Requests,
           TypeRequest(r) \/ GroupRequest(r) \/ BulkDevices(r)
    PROVE  NoRaces'
    <1>0. TypeOK /\ RequestOK(r) /\ req[r] \in RequestRecords
        BY DEF IInv, TypeOK
    <1>1. \A p \in Requests : p # r => req[p].op = "none" /\ req'[p].op = "none"
        BY <1>0, RequestStep, OthersIdle
    <1>2. ASSUME UNCHANGED history, Current(r)' PROVE NoRaces'
        BY <1>1, <1>2 DEF NoRaces, Current, history
    <1>3. ASSUME UNCHANGED history, Finish(r) PROVE NoRaces'
        BY <1>0, <1>2, <1>3, FinishStep DEF Current
    <1>4. CASE TypeRequest(r)
        <2>1. CASE \E t \in Types : DeleteCustomDeviceType(r, t)
            BY <1>0, <1>2, <2>1 DEF DeleteCustomDeviceType, Open, Current, TypeOK
        <2>2. CASE \E t \in Types, d \in Devices : RegisterDevice(r, d, t)
            BY <1>0, <1>2, <2>2 DEF RegisterDevice, Open, Current, TypeOK, rows
        <2>3. CASE SoftDeleteType(r)
            BY <1>3, <2>3 DEF SoftDeleteType
        <2>4. CASE CreateDevice(r)
            <3>1. ~TypeGoing(req[r].type)
                BY <1>1, <2>4 DEF CreateDevice, At, NoRaces, Current, TypeGoing
            <3>2. UNCHANGED history /\ Finish(r)
                BY <2>4, <3>1 DEF CreateDevice, history
            <3> QED
                BY <1>3, <3>2
        <2> QED
            BY <1>4, <2>1, <2>2, <2>3, <2>4 DEF TypeRequest
    <1>5. CASE GroupRequest(r)
        <2>1. CASE \E g \in Groups : DeleteDeviceGroup(r, g)
            BY <1>0, <1>2, <2>1 DEF DeleteDeviceGroup, Open, Current, TypeOK
        <2>2. CASE \E g \in Groups, ids \in SUBSET Devices :
                      AddDevicesToGroup(r, g, ids) \/ RemoveDevicesFromGroup(r, g, ids)
            BY <1>0, <1>2, <2>2 DEF AddDevicesToGroup, RemoveDevicesFromGroup, GetDeviceGroup, Open,
                                    Current, TypeOK, rows
        <2>3. CASE CommitGroupDelete(r)
            BY <1>3, <2>3 DEF CommitGroupDelete, NoRaces, history
        <2>4. CASE InsertMembership(r)
            <3>1. ~GroupGoing(req[r].group)
                BY <1>1, <2>4 DEF InsertMembership, At, NoRaces, Current, GroupGoing
            <3>2. PICK d \in Left(r) : req' = [req EXCEPT ![r].ok = @ \cup {d}] /\ addRaced' = addRaced
                BY <2>4, <3>1 DEF InsertMembership
            <3>3. UNCHANGED <<type, group, history>>
                BY <2>4, <3>2 DEF InsertMembership, history
            <3> QED
                BY <1>0, <1>2, <3>2, <3>3 DEF NoRaces, Current, TypeOK
        <2>5. CASE DeleteMemberships(r)
            <3>1. UNCHANGED <<type, group, history>> /\ req[r].op = "remove"
                BY <2>5 DEF DeleteMemberships, NoRaces, history, At
            <3> QED
                BY <1>0, <1>2, <2>5, <3>1 DEF DeleteMemberships, Current, TypeOK
        <2> QED
            BY <1>5, <2>1, <2>2, <2>3, <2>4, <2>5 DEF GroupRequest
    <1>6. CASE BulkDevices(r)
        <2>1. ASSUME NEW o \in BulkActions, NEW g \in Groups \cup {None},
                     \/ \E ids \in SUBSET Devices : BulkIds(r, o, g, ids)
                     \/ \E f \in Filters : BulkFilter(r, o, g, f)
              PROVE  NoRaces'
            <3>1. o = "add" => group[g] = "live"
                BY <2>1, BulkGroupOK DEF BulkIds, BulkFilter
            <3> QED
                BY <1>0, <1>2, <2>1, <3>1 DEF BulkIds, BulkFilter, Open, Current, TypeOK, rows, BulkActions
        <2>2. CASE ListDeviceIDsWithFilter(r) \/ FilterDevicesInProject(r) \/ BulkEach(r)
            <3>1. UNCHANGED <<type, group, history>>
                BY <2>2 DEF ListDeviceIDsWithFilter, FilterDevicesInProject, BulkEach, rows
            <3>2. req'[r].op = req[r].op /\ req'[r].group = req[r].group /\ req'[r].type = req[r].type
                BY <1>0, <2>2 DEF ListDeviceIDsWithFilter, FilterDevicesInProject, BulkEach, TypeOK, RequestRecords
            <3> QED
                BY <1>2, <3>1, <3>2 DEF NoRaces, Current
        <2>3. CASE Respond(r) \/ RequestFails(r)
            BY <1>3, <2>3 DEF Respond, RequestFails
        <2> QED
            BY <1>6, <2>1, <2>2, <2>3 DEF BulkDevices
    <1> QED
        BY <1>4, <1>5, <1>6

LEMMA SerialNext == IInv /\ NoRaces /\ OneAtATime /\ OneAtATime' /\ [Next]_vars => NoRaces'
    <1> SUFFICES ASSUME IInv, NoRaces, OneAtATime, OneAtATime', [Next]_vars PROVE NoRaces'
        OBVIOUS
    <1>1. CASE UNCHANGED vars
        BY <1>1 DEF vars, rows, history, NoRaces, Current
    <1>2. CASE \E t \in Types : CreateCustomDeviceType(t)
        BY <1>2 DEF CreateCustomDeviceType, IInv, TypeOK, RequestOK, NoRaces, Current, history
    <1>3. CASE \E g \in Groups : CreateDeviceGroup(g)
        BY <1>3 DEF CreateDeviceGroup, IInv, TypeOK, RequestOK, NoRaces, Current, history
    <1> QED
        BY <1>1, <1>2, <1>3, SerialStep DEF Next

\* The exceptions of UsedTypesLive and MembersOfLiveGroups are races and nothing else: when
\* requests are served one after another, failures included, every device has a live type
\* and every member a live group.
THEOREM SerialRequestsAreClean ==
    Spec /\ []OneAtATime => [](/\ \A d \in Registered : type[typeOf[d]] = "live"
                               /\ \A m \in members : group[m[1]] = "live")
    <1> DEFINE Clean == /\ \A d \in Registered : type[typeOf[d]] = "live"
                        /\ \A m \in members : group[m[1]] = "live"
    <1>1. Init => NoRaces
        BY BlankRecord DEF Init, NoRaces, Current
    <1>2. IInv /\ NoRaces => Clean
        BY DEF IInv, NoRaces, UsedTypesLive, MembersOfLiveGroups
    <1> HIDE DEF Clean
    <1>3. Spec /\ []OneAtATime => []Clean
        BY <1>1, <1>2, SerialNext, Inductive, PTL DEF Spec
    <1> QED
        BY <1>3 DEF Clean

================================================================================
