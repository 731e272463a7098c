------------------------- MODULE CampaignRolloutProofs -------------------------
(***************************************************************************)
(* Theorems about CampaignRollout, for every set of campaigns, devices,    *)
(* firmwares and request slots: its invariants, and what a step may do -   *)
(* progress only moves forward, statuses follow the transition table, and  *)
(* the whole implements CampaignLifecycle.                                 *)
(***************************************************************************)
EXTENDS CampaignRollout, FiniteSetTheorems, TLAPS

--------------------------------------------------------------------------------
(* The devices of a campaign                                               *)

\* The product in takeStablePercentage, divided and rounded up.
LEMMA ShareArithmetic ==
    ASSUME NEW n \in Nat \ {0}, NEW p \in 1..100
    PROVE  /\ StableShare(n, p) \in 1..n
           /\ n * p <= 100 * StableShare(n, p) /\ 100 * StableShare(n, p) < n * p + 100
    <1> DEFINE m == n * p
               k == (m + 99) \div 100
    <1>1. m \in Nat /\ 1 <= m /\ m <= 100 * n
        OBVIOUS
    <1>2. StableShare(n, p) = Clamp(k, 1, n)
        BY DEF StableShare, Clamp
    <1> HIDE DEF m
    <1>3. k \in Nat /\ m <= 100 * k /\ 100 * k < m + 100
        BY <1>1
    <1>4. 1 <= k /\ k <= n
        BY <1>1, <1>3
    <1> HIDE DEF k
    <1>5. StableShare(n, p) = k
        BY <1>2, <1>3, <1>4 DEF Clamp
    <1> QED
        BY <1>3, <1>4, <1>5 DEF m

\* takeStablePercentage takes the least number of devices that reaches the percentage, as
\* its comment says (ceil(len*percent/100)): somebody of any fleet, never more than there
\* are, and everybody at 100 percent.
THEOREM ShareIsLeast ==
    ASSUME NEW n \in Nat \ {0}, NEW p \in 1..100
    PROVE  /\ StableShare(n, p) \in 1..n
           /\ n * p <= 100 * StableShare(n, p)
           /\ \A k \in Nat : n * p <= 100 * k => StableShare(n, p) <= k
           /\ p = 100 => StableShare(n, p) = n
    <1> DEFINE m == n * p
               k == StableShare(n, p)
    <1>1. k \in 1..n /\ m <= 100 * k /\ 100 * k < m + 100
        BY ShareArithmetic
    <1>2. m \in Nat /\ (p = 100 => m = 100 * n)
        OBVIOUS
    <1> HIDE DEF m, k
    <1>3. \A j \in Nat : m <= 100 * j => k <= j
        BY <1>1, <1>2
    <1>4. p = 100 => k = n
        BY <1>1, <1>2
    <1> QED
        BY <1>1, <1>3, <1>4 DEF m, k

\* A larger percentage takes no fewer devices, and a larger fleet gives no fewer: the ids
\* being sorted, raising the percentage of a scope keeps the devices it had.
THEOREM ShareIsMonotone ==
    ASSUME NEW n \in Nat \ {0}, NEW o \in Nat \ {0}, NEW p \in 1..100, NEW q \in 1..100,
           n <= o, p <= q
    PROVE  StableShare(n, p) <= StableShare(o, q)
    <1>1. n * p <= o * q
        <2>1. n * p <= o * p
            OBVIOUS
        <2>2. o * p <= o * q
            OBVIOUS
        <2> QED
            BY <2>1, <2>2
    <1>2. StableShare(o, q) \in 1..o /\ o * q <= 100 * StableShare(o, q)
        BY ShareIsLeast
    <1>3. PICK k \in Nat : k = StableShare(o, q)
        BY <1>2
    <1>4. n * p <= 100 * k
        BY <1>1, <1>2, <1>3
    <1>5. \A j \in Nat : n * p <= 100 * j => StableShare(n, p) <= j
        BY ShareIsLeast
    <1> QED
        BY <1>3, <1>4, <1>5

\* A campaign that finds a compatible device has one to update.
LEMMA SomeoneAssigned ==
    ASSUME NEW compatible \in (SUBSET Devices) \ {{}}, NEW T \in Assigned(compatible)
    PROVE  T # {} /\ T \subseteq Devices
    <1>1. Cardinality(compatible) \in Nat \ {0}
        BY DevicesFinite, FS_Subset, FS_CardinalityType, FS_EmptySet
    <1>2. CASE T = compatible
        BY <1>2
    <1>3. ASSUME NEW p \in Percents, Cardinality(T) = StableShare(Cardinality(compatible), p)
          PROVE  T # {}
        <2>1. PICK n \in Nat \ {0} : n = Cardinality(compatible)
            BY <1>1
        <2>2. StableShare(n, p) \in 1..n
            BY PercentsAssumption, ShareArithmetic
        <2>3. Cardinality(T) # 0
            BY <1>3, <2>1, <2>2
        <2> QED
            BY <2>3, FS_EmptySet
    <1> QED
        BY <1>2, <1>3 DEF Assigned

LEMMA CreateAssigns ==
    ASSUME NEW c \in Campaigns, NEW f \in Firmwares, NEW T \in SUBSET Devices, NEW s \in BOOLEAN,
           CreateCampaign(c, f, T, s)
    PROVE  T # {}
    BY SomeoneAssigned DEF CreateCampaign

--------------------------------------------------------------------------------
(* How a handler's record changes                                          *)

\* Goto replaces the step of one record.
LEMMA GotoStep ==
    ASSUME TypeOK, NEW r \in Requests, NEW s \in Steps, Goto(r, s)
    PROVE  /\ req' \in [Requests -> RequestRecords]
           /\ req'[r].step = s
           /\ req'[r].camp = req[r].camp
           /\ req'[r].dev = req[r].dev
           /\ req'[r].arg = req[r].arg
           /\ \A q \in Requests : q # r => req'[q] = req[q]
    BY DEF TypeOK, Goto, RequestRecords

\* Finish makes one slot idle.
LEMMA FinishStep ==
    ASSUME TypeOK, NEW r \in Requests, Finish(r)
    PROVE  /\ req' \in [Requests -> RequestRecords]
           /\ req'[r] = Idle
           /\ req'[r].step = "idle"
           /\ \A q \in Requests : q # r => req'[q] = req[q]
    BY DEF TypeOK, Finish, RequestRecords, Idle, Steps

\* Begin fills an idle slot.
LEMMA BeginStep ==
    ASSUME TypeOK, NEW r \in Requests, NEW s \in Steps,
           NEW c \in Campaigns \cup {None}, NEW d \in Devices,
           NEW a \in Firmwares \cup ReportStatuses \cup {None},
           Begin(r, s, c, d, a)
    PROVE  /\ req[r].step = "idle"
           /\ req' \in [Requests -> RequestRecords]
           /\ req'[r].step = s
           /\ req'[r].camp = c
           /\ req'[r].dev = d
           /\ req'[r].arg = a
           /\ \A q \in Requests : q # r => req'[q] = req[q]
    BY DEF TypeOK, Begin, RequestRecords

\* A handler past its first statement works on an existing assignment.
LEMMA Bound ==
    ASSUME TypeOK, NEW r \in Requests, req[r].step \in BoundSteps
    PROVE  /\ req[r].camp \in Campaigns
           /\ req[r].dev \in Devices
           /\ asg[req[r].camp][req[r].dev] # "none"
           /\ status[req[r].camp] # "none"
    BY DEF TypeOK, RequestOK, RowOK, BoundSteps, Steps

\* An UPDATE of one assignment row.
LEMMA AssignmentStep ==
    ASSUME TypeOK, NEW c \in Campaigns, NEW d \in Devices, asg[c][d] # "none",
           NEW s \in AssignmentStatuses, asg' = [asg EXCEPT ![c][d] = s]
    PROVE  /\ asg' \in [Campaigns -> [Devices -> AssignmentStatuses \cup {"none"}]]
           /\ asg'[c][d] = s
           /\ \A e \in Campaigns, x \in Devices : e # c \/ x # d => asg'[e][x] = asg[e][x]
           /\ \A e \in Campaigns, x \in Devices : asg'[e][x] = "none" <=> asg[e][x] = "none"
    BY DEF TypeOK, AssignmentStatuses

--------------------------------------------------------------------------------
(* The type invariant                                                      *)

\* What every step of a handler keeps: typed columns and no row removed.
RowsKept ==
    /\ status' \in [Campaigns -> Statuses \cup {"none"}]
    /\ \A c \in Campaigns : status'[c] = "none" <=> status[c] = "none"
    /\ asg' \in [Campaigns -> [Devices -> AssignmentStatuses \cup {"none"}]]
    /\ \A c \in Campaigns, d \in Devices : asg'[c][d] = "none" <=> asg[c][d] = "none"
    /\ missed' \subseteq Campaigns
    /\ UNCHANGED <<firmware, due, live, plucked>>

\* A step of slot r that keeps the rows preserves the type invariant when its
\* own new record is in order.
LEMMA ServeFrame ==
    ASSUME TypeOK, RowsKept, NEW r \in Requests,
           req' \in [Requests -> RequestRecords],
           \A q \in Requests : q # r => req'[q] = req[q],
           RequestOK(r)'
    PROVE  TypeOK'
    <1>1. \A c \in Campaigns : RowOK(c)'
        BY DEF TypeOK, RowOK, RowsKept
    <1>2. \A q \in Requests : q # r => RequestOK(q)'
        BY DEF TypeOK, RequestOK, BoundSteps, Steps, RowsKept
    <1> QED
        BY <1>1, <1>2 DEF TypeOK, RowsKept

\* The same for a handler that moves on to a step without an argument ...
LEMMA GotoType ==
    ASSUME TypeOK, RowsKept, NEW r \in Requests, req[r].step \in BoundSteps,
           NEW s \in CompletionSteps, Goto(r, s)
    PROVE  TypeOK'
    <1>1. s \in Steps /\ s # "idle" /\ s # "report" /\ s # "check" /\ s # "apply"
        BY DEF CompletionSteps, Steps
    <1>2. /\ req' \in [Requests -> RequestRecords]
          /\ \A q \in Requests : q # r => req'[q] = req[q]
          /\ req'[r].step = s
          /\ req'[r].camp = req[r].camp
          /\ req'[r].dev = req[r].dev
        BY <1>1, GotoStep
    <1>3. RequestOK(r)'
        BY <1>1, <1>2, Bound DEF RequestOK, RowsKept
    <1> QED
        BY <1>2, <1>3, ServeFrame

\* ... and for a handler that ends.
LEMMA FinishType ==
    ASSUME TypeOK, RowsKept, NEW r \in Requests, Finish(r)
    PROVE  TypeOK'
    <1>1. RequestOK(r)'
        BY FinishStep DEF RequestOK, BoundSteps
    <1> QED
        BY <1>1, FinishStep, ServeFrame

\* A step that changes no column keeps the rows.
LEMMA ReadOnly ==
    ASSUME TypeOK, UNCHANGED <<campaignVars, plucked>>, missed' \subseteq Campaigns
    PROVE  RowsKept
    BY DEF TypeOK, RowsKept, campaignVars

\* So does an UPDATE of one existing assignment.
LEMMA WriteAssignment ==
    ASSUME TypeOK, UNCHANGED <<status, firmware, due, live, plucked, missed>>,
           NEW c \in Campaigns, NEW d \in Devices, asg[c][d] # "none",
           NEW s \in AssignmentStatuses, asg' = [asg EXCEPT ![c][d] = s]
    PROVE  RowsKept
    BY AssignmentStep DEF TypeOK, RowsKept

\* The sets of step names, spelled out.
LEMMA StepNames ==
    /\ CompletionSteps \subseteq BoundSteps
    /\ BoundSteps \subseteq Steps
    /\ {"offer", "set", "check", "apply", "get", "count", "mark", "firmware"} = BoundSteps
    /\ {"get", "count", "mark", "firmware"} = CompletionSteps
    /\ {"idle", "report"} \subseteq Steps
    BY DEF CompletionSteps, BoundSteps, Steps

\* The offer's conditional UPDATE keeps the types.
LEMMA PollOfferType ==
    ASSUME TypeOK, NEW r \in Requests, PollOffer(r)
    PROVE  TypeOK'
    <1> DEFINE c == req[r].camp
               d == req[r].dev
    <1>1. req[r].step \in BoundSteps
        BY StepNames DEF PollOffer
    <1>2. CASE asg[c][d] = "pending"
        <2>1. asg' = [asg EXCEPT ![c][d] = "offered"] /\ Goto(r, "get")
            BY <1>2 DEF PollOffer
        <2>2. RowsKept
            BY <1>1, <2>1, Bound, WriteAssignment DEF AssignmentStatuses, PollOffer
        <2> QED
            BY <1>1, <2>1, <2>2, StepNames, GotoType
    <1>3. CASE asg[c][d] # "pending"
        <2>1. RowsKept /\ Finish(r)
            BY <1>3, ReadOnly DEF PollOffer, campaignVars, TypeOK
        <2> QED
            BY <2>1, FinishType
    <1> QED
        BY <1>2, <1>3

\* So does the unconditional UPDATE of an HTTP report.
LEMMA HttpReportSetType ==
    ASSUME TypeOK, NEW r \in Requests, HttpReportSet(r)
    PROVE  TypeOK'
    <1>1. req[r].step \in BoundSteps
        BY StepNames DEF HttpReportSet
    <1>2. RowsKept
        BY <1>1, Bound, WriteAssignment DEF HttpReportSet, AssignmentStatuses
    <1> QED
        BY <1>1, <1>2, StepNames, GotoType DEF HttpReportSet

\* A failed UPDATE writes nothing.
LEMMA HttpReportSetFailsType ==
    ASSUME TypeOK, NEW r \in Requests, HttpReportSetFails(r)
    PROVE  TypeOK'
    <1>1. req[r].step \in BoundSteps
        BY StepNames DEF HttpReportSetFails
    <1>2. RowsKept
        BY ReadOnly DEF HttpReportSetFails, TypeOK
    <1> QED
        BY <1>1, <1>2, StepNames, GotoType DEF HttpReportSetFails

\* So does the conditional UPDATE of a TCP report.
LEMMA TcpReportApplyType ==
    ASSUME TypeOK, NEW r \in Requests, TcpReportApply(r)
    PROVE  TypeOK'
    <1> DEFINE c == req[r].camp
               d == req[r].dev
               st == req[r].arg
    <1>1. req[r].step \in BoundSteps
        BY StepNames DEF TcpReportApply
    <1>2. st \in AssignmentStatuses
        BY DEF TcpReportApply, TypeOK, RequestOK, ReportStatuses, AssignmentStatuses
    <1>3. CASE asg[c][d] \in AppliesFrom(st)
        <2>1. /\ asg' = [asg EXCEPT ![c][d] = st]
              /\ Goto(r, IF st = "installed" THEN "firmware" ELSE "get")
            BY <1>3 DEF TcpReportApply
        <2>2. RowsKept
            BY <1>1, <1>2, <2>1, Bound, WriteAssignment DEF TcpReportApply
        <2> QED
            BY <1>1, <2>1, <2>2, StepNames, GotoType
    <1>4. CASE asg[c][d] \notin AppliesFrom(st)
        <2>1. RowsKept /\ Goto(r, "get")
            BY <1>4, ReadOnly DEF TcpReportApply, campaignVars, TypeOK
        <2> QED
            BY <1>1, <2>1, StepNames, GotoType
    <1> QED
        BY <1>3, <1>4

\* The firmware lookup writes nothing and goes on to the completion check.
LEMMA TcpReportFirmwareType ==
    ASSUME TypeOK, NEW r \in Requests, TcpReportFirmware(r)
    PROVE  TypeOK'
    <1>1. req[r].step \in BoundSteps
        BY StepNames DEF TcpReportFirmware
    <1>2. RowsKept
        BY <1>1, Bound, ReadOnly DEF TcpReportFirmware, TypeOK
    <1> QED
        BY <1>1, <1>2, StepNames, GotoType, FinishType DEF TcpReportFirmware

\* The activity check hands its campaign, device and report on.
LEMMA TcpReportCheckType ==
    ASSUME TypeOK, NEW r \in Requests, TcpReportCheck(r)
    PROVE  TypeOK'
    <1>1. req[r].step \in BoundSteps /\ req[r].step = "check"
        BY StepNames DEF TcpReportCheck
    <1>2. RowsKept
        BY ReadOnly DEF TcpReportCheck, TypeOK
    <1>3. CASE status[req[r].camp] = "active"
        <2>1. Goto(r, "apply")
            BY <1>3 DEF TcpReportCheck
        <2>2. /\ req' \in [Requests -> RequestRecords]
              /\ \A q \in Requests : q # r => req'[q] = req[q]
              /\ req'[r].step = "apply"
              /\ req'[r].camp = req[r].camp
              /\ req'[r].dev = req[r].dev
              /\ req'[r].arg = req[r].arg
            BY <2>1, StepNames, GotoStep
        <2>3. req[r].arg \in ReportStatuses
            BY <1>1 DEF TypeOK, RequestOK
        <2>4. RequestOK(r)'
            BY <1>1, <1>2, <2>2, <2>3, Bound DEF RequestOK, RowsKept
        <2> QED
            BY <1>2, <2>2, <2>4, ServeFrame
    <1>4. CASE status[req[r].camp] # "active"
        BY <1>1, <1>2, <1>4, StepNames, GotoType DEF TcpReportCheck
    <1> QED
        BY <1>3, <1>4

\* The campaign an HTTP report selects targets the reporting device.
LEMMA HttpReportFindType ==
    ASSUME TypeOK, NEW r \in Requests, HttpReportFind(r)
    PROVE  TypeOK'
    <1> DEFINE rows == ActiveRows(req[r].dev, {"offered", "downloaded"})
    <1>1. RowsKept
        BY ReadOnly DEF HttpReportFind, TypeOK
    <1>2. ASSUME NEW c \in rows, req' = [req EXCEPT ![r].step = "set", ![r].camp = c]
          PROVE  TypeOK'
        <2>1. req[r].dev \in Devices
            BY DEF HttpReportFind, TypeOK, RequestOK
        <2>2. c \in Campaigns /\ asg[c][req[r].dev] # "none"
            BY <1>2, <2>1 DEF ActiveRows
        <2>3. /\ req' \in [Requests -> RequestRecords]
              /\ \A q \in Requests : q # r => req'[q] = req[q]
              /\ req'[r].step = "set"
              /\ req'[r].camp = c
              /\ req'[r].dev = req[r].dev
            <3>1. req[r] \in RequestRecords /\ req \in [Requests -> RequestRecords]
                BY DEF TypeOK
            <3> QED
                BY <1>2, <2>2, <3>1 DEF RequestRecords, Steps
        <2>4. RequestOK(r)'
            BY <1>1, <2>1, <2>2, <2>3 DEF RequestOK, RowsKept
        <2> QED
            BY <1>1, <2>3, <2>4, ServeFrame
    <1>3. CASE Finish(r)
        BY <1>1, <1>3, FinishType
    <1> QED
        BY <1>2, <1>3 DEF HttpReportFind

\* The three statements of tryAutoComplete keep the types.
LEMMA AutoCompleteType ==
    ASSUME TypeOK, NEW r \in Requests,
           AutoCompleteGet(r) \/ AutoCompleteCount(r) \/ MarkCampaignCompleted(r)
    PROVE  TypeOK'
    <1> DEFINE c == req[r].camp
    <1>1. req[r].step \in BoundSteps
        BY StepNames DEF AutoCompleteGet, AutoCompleteCount, MarkCampaignCompleted
    <1>2. c \in Campaigns
        BY <1>1, Bound
    <1>3. missed' \subseteq Campaigns
        BY <1>2 DEF AutoCompleteGet, AutoCompleteCount, MarkCampaignCompleted,
                    MissedIfPaused, TypeOK
    <1>4. CASE AutoCompleteGet(r) \/ AutoCompleteCount(r)
        <2>1. RowsKept
            BY <1>3, <1>4, ReadOnly DEF AutoCompleteGet, AutoCompleteCount
        <2> QED
            BY <1>1, <1>4, <2>1, StepNames, GotoType, FinishType
            DEF AutoCompleteGet, AutoCompleteCount
    <1>5. CASE MarkCampaignCompleted(r)
        <2>1. RowsKept
            BY <1>2, <1>3, <1>5 DEF MarkCampaignCompleted, RowsKept, TypeOK, Statuses
        <2> QED
            BY <1>5, <2>1, FinishType DEF MarkCampaignCompleted
    <1> QED
        BY <1>4, <1>5

\* A new request is bound to an assignment that exists.
LEMMA ArriveType ==
    ASSUME TypeOK, NEW r \in Requests, Arrive(r)
    PROVE  TypeOK'
    <1>1. ASSUME NEW d \in Devices, PollFind(r, d)
          PROVE  TypeOK'
        <2>1. RowsKept
            BY <1>1, ReadOnly DEF PollFind, TypeOK
        <2>2. PICK c \in Campaigns :
                /\ IsFirst(c, OfferRows(d))
                /\ Begin(r, IF asg[c][d] = "pending" THEN "offer" ELSE "get", c, d, None)
            BY <1>1 DEF PollFind
        <2>3. asg[c][d] # "none"
            BY <2>2 DEF IsFirst, OfferRows, ActiveRows
        <2>4. PICK s \in {"offer", "get"} : Begin(r, s, c, d, None)
            BY <2>2
        <2>5. /\ req' \in [Requests -> RequestRecords]
              /\ \A q \in Requests : q # r => req'[q] = req[q]
              /\ req'[r].step = s /\ req'[r].camp = c /\ req'[r].dev = d
            BY <2>4, BeginStep, StepNames
        <2>6. RequestOK(r)'
            BY <2>1, <2>3, <2>5 DEF RequestOK, RowsKept
        <2> QED
            BY <2>1, <2>5, <2>6, ServeFrame
    <1>2. ASSUME NEW d \in Devices, NEW v \in Firmwares, HttpReport(r, d, v)
          PROVE  TypeOK'
        <2>1. RowsKept
            BY <1>2, ReadOnly DEF HttpReport, TypeOK
        <2>2. /\ req' \in [Requests -> RequestRecords]
              /\ \A q \in Requests : q # r => req'[q] = req[q]
              /\ req'[r].step = "report" /\ req'[r].dev = d /\ req'[r].arg = v
            BY <1>2, BeginStep, StepNames DEF HttpReport
        <2>3. RequestOK(r)'
            BY <2>2 DEF RequestOK, BoundSteps
        <2> QED
            BY <2>1, <2>2, <2>3, ServeFrame
    <1>3. ASSUME NEW d \in Devices, NEW c \in Campaigns, NEW st \in ReportStatuses,
                 TcpReport(r, d, c, st)
          PROVE  TypeOK'
        <2>1. RowsKept
            BY <1>3, ReadOnly DEF TcpReport, TypeOK
        <2>2. /\ req' \in [Requests -> RequestRecords]
              /\ \A q \in Requests : q # r => req'[q] = req[q]
              /\ req'[r].step = "check" /\ req'[r].camp = c
              /\ req'[r].dev = d /\ req'[r].arg = st
            BY <1>3, BeginStep, StepNames DEF TcpReport
        <2>3. RequestOK(r)'
            BY <1>3, <2>1, <2>2 DEF RequestOK, RowsKept, TcpReport
        <2> QED
            BY <2>1, <2>2, <2>3, ServeFrame
    <1> QED
        BY <1>1, <1>2, <1>3 DEF Arrive

\* Abandoning a handler frees its slot.
LEMMA AbandonType ==
    ASSUME TypeOK, NEW r \in Requests, Abandon(r)
    PROVE  TypeOK'
    <1>1. missed' \subseteq Campaigns
        BY Bound, StepNames DEF Abandon, TypeOK
    <1>2. RowsKept
        BY <1>1, ReadOnly DEF Abandon
    <1> QED
        BY <1>2, FinishType DEF Abandon

\* Management and scheduler steps do not touch the handlers.
LEMMA ManageType ==
    ASSUME TypeOK,
           Manage \/ (\E c \in Campaigns : StartTimePasses(c)) \/ Tick
    PROVE  TypeOK'
    <1>1. ASSUME NEW c \in Campaigns, NEW f \in Firmwares, NEW T \in SUBSET Devices,
                 NEW s \in BOOLEAN, CreateCampaign(c, f, T, s)
          PROVE  TypeOK'
        <2>1. /\ status' \in [Campaigns -> Statuses \cup {"none"}]
              /\ status'[c] # "none"
              /\ \A e \in Campaigns : e # c => status'[e] = status[e]
            BY <1>1 DEF CreateCampaign, TypeOK, Statuses
        <2>2. /\ firmware' \in [Campaigns -> Firmwares \cup {None}]
              /\ firmware'[c] \in Firmwares
              /\ \A e \in Campaigns : e # c => firmware'[e] = firmware[e]
            BY <1>1 DEF CreateCampaign, TypeOK
        <2>3. /\ asg' \in [Campaigns -> [Devices -> AssignmentStatuses \cup {"none"}]]
              /\ \E d \in Devices : asg'[c][d] # "none"
              /\ \A e \in Campaigns : e # c => asg'[e] = asg[e]
            BY <1>1, CreateAssigns DEF CreateCampaign, TypeOK, AssignmentStatuses
        <2>4. \A e \in Campaigns : RowOK(e)'
            BY <2>1, <2>2, <2>3 DEF TypeOK, RowOK
        <2>5. \A d \in Devices : asg[c][d] = "none"
            BY <1>1 DEF CreateCampaign, TypeOK, RowOK
        <2>6. \A q \in Requests : RequestOK(q)'
            BY <1>1, <2>3, <2>5 DEF CreateCampaign, TypeOK, RequestOK, BoundSteps, Steps
        <2> QED
            BY <1>1, <2>1, <2>2, <2>3, <2>4, <2>6 DEF CreateCampaign, TypeOK
    <1>2. ASSUME UNCHANGED <<firmware, asg, req, missed>>,
                 status' \in [Campaigns -> Statuses \cup {"none"}],
                 \A c \in Campaigns : status'[c] = "none" <=> status[c] = "none",
                 due' \subseteq Campaigns, live' \subseteq Firmwares, plucked' \subseteq Campaigns
          PROVE  TypeOK'
        <2>1. \A e \in Campaigns : RowOK(e)'
            BY <1>2 DEF TypeOK, RowOK
        <2>2. \A q \in Requests : RequestOK(q)'
            BY <1>2 DEF TypeOK, RequestOK
        <2> QED
            BY <1>2, <2>1, <2>2 DEF TypeOK
    <1>3. ASSUME NEW c \in Campaigns,
                 PauseCampaign(c) \/ ResumeCampaign(c) \/ CancelCampaign(c)
          PROVE  TypeOK'
        BY <1>2, <1>3 DEF PauseCampaign, ResumeCampaign, CancelCampaign, Cancellable,
                          TypeOK, Statuses
    <1>4. ASSUME NEW f \in Firmwares, DeleteFirmware(f)
          PROVE  TypeOK'
        BY <1>2, <1>4 DEF DeleteFirmware, TypeOK
    <1>5. ASSUME NEW c \in Campaigns, StartTimePasses(c)
          PROVE  TypeOK'
        BY <1>2, <1>5 DEF StartTimePasses, TypeOK
    <1>6. CASE ActivateDuePluck
        BY <1>2, <1>6 DEF ActivateDuePluck, DueIds, campaignVars, TypeOK
    <1>7. CASE ActivateDueUpdate
        BY <1>2, <1>7 DEF ActivateDueUpdate, TypeOK, Statuses
    <1>8. CASE ActivateDueRollback
        BY <1>2, <1>8 DEF ActivateDueRollback, campaignVars, TypeOK
    <1> QED
        BY <1>1, <1>3, <1>4, <1>5, <1>6, <1>7, <1>8 DEF Manage, Tick

\* A stuttering step keeps the types.
LEMMA StutterType == TypeOK /\ UNCHANGED vars => TypeOK'
    BY DEF TypeOK, vars, RowOK, RequestOK

\* Every step keeps the types.
LEMMA NextType == TypeOK /\ [Next]_vars => TypeOK'
    <1>1. ASSUME TypeOK, NEW r \in Requests, Serve(r)
          PROVE  TypeOK'
        BY <1>1, PollOfferType, HttpReportFindType, HttpReportSetType, HttpReportSetFailsType,
           TcpReportCheckType, TcpReportApplyType, TcpReportFirmwareType, AutoCompleteType DEF Serve
    <1> QED
        BY <1>1, ManageType, ArriveType, AbandonType, StutterType DEF Next

\* The empty database is well typed.
LEMMA InitType == Init => TypeOK
    BY StepNames DEF Init, TypeOK, RowOK, RequestOK, RequestRecords, Idle, BoundSteps, Steps

\* Every campaign row is whole and every handler is bound to an existing
\* assignment, whatever handlers, users and scheduler interleave.
THEOREM TypeCorrect == Spec => []TypeOK
    BY InitType, NextType, PTL DEF Spec

--------------------------------------------------------------------------------
(* Safety: the inductive invariant                                         *)

Started == {"active", "paused", "cancelled", "completed"}

\* A handler about to write an assignment saw its campaign active.
RequestsStarted ==
    \A r \in Requests :
        req[r].step \in {"offer", "set", "apply"} => status[req[r].camp] \in Started

\* A handler about to mark its campaign completed counted no open assignment, and
\* none has been opened since.
MarkSafe ==
    \A r \in Requests : req[r].step = "mark" => AllTerminal(req[r].camp)

\* No code path writes the reserved status.
NeverDraft == \A c \in Campaigns : status[c] # "draft"

Safe ==
    /\ CompletedAllTerminal
    /\ PristineUntilActive
    /\ NoLostCompletion
    /\ RequestsStarted
    /\ MarkSafe
    /\ NeverDraft

IInv == TypeOK /\ Safe

\* Every assignment that is terminal stays so.
TerminalKept ==
    \A c \in Campaigns, d \in Devices :
        TerminalAssignment(asg[c][d]) => TerminalAssignment(asg'[c][d])

\* Campaigns change status only by being completed with all assignments terminal.
OnlyCompleted ==
    \A c \in Campaigns :
        \/ status'[c] = status[c]
        \/ status[c] = "active" /\ status'[c] = "completed" /\ AllTerminal(c)'

\* Slot r alone moves; it writes only assignments of its own campaign, which has
\* been started; a write that may settle the campaign is followed by the
\* completion check, and the check is left only for a reason.
HandlerStep(r) ==
    /\ \A q \in Requests : q # r => req'[q] = req[q]
    /\ \A c \in Campaigns, d \in Devices : asg'[c][d] = "none" <=> asg[c][d] = "none"
    /\ TerminalKept
    /\ OnlyCompleted
    /\ missed \subseteq missed'
    /\ \A c \in Campaigns : asg'[c] # asg[c] =>
         /\ status[c] \in Started
         /\ AllTerminal(c)' => req'[r].camp = c /\ req'[r].step \in CompletionSteps
    /\ \A c \in Campaigns :
         req[r].camp = c /\ req[r].step \in CompletionSteps =>
            \/ req'[r].camp = c /\ req'[r].step \in CompletionSteps
            \/ c \in missed'
            \/ status'[c] \notin {"active", "paused"}
            \/ ~AllTerminal(c)'
    /\ req'[r].step \in {"offer", "set", "apply"} => status[req'[r].camp] \in Started
    /\ \A c \in Campaigns : req'[r].step = "mark" /\ req'[r].camp = c => AllTerminal(c)'

\* Terminal campaigns stay terminal while no assignment is created.
LEMMA AllTerminalKept ==
    ASSUME TypeOK, TerminalKept, NEW c \in Campaigns, AllTerminal(c),
           \A d \in Devices : asg'[c][d] = "none" <=> asg[c][d] = "none"
    PROVE  AllTerminal(c)'
    BY DEF AllTerminal, Targets, TerminalKept

\* Every such step preserves the safety part of the inductive invariant.
LEMMA HandlerSafe ==
    ASSUME IInv, TypeOK', NEW r \in Requests, HandlerStep(r)
    PROVE  Safe'
    <1>1. CompletedAllTerminal'
        BY AllTerminalKept DEF IInv, Safe, CompletedAllTerminal, HandlerStep, OnlyCompleted
    <1>2. PristineUntilActive'
        <2> SUFFICES ASSUME NEW c \in Campaigns, status'[c] = "scheduled", NEW d \in Devices
                     PROVE  asg'[c][d] \in {"none", "pending"}
            BY DEF PristineUntilActive
        <2>1. status[c] = "scheduled"
            BY DEF HandlerStep, OnlyCompleted
        <2>2. asg'[c] = asg[c]
            BY <2>1 DEF HandlerStep, Started
        <2> QED
            BY <2>1, <2>2 DEF IInv, Safe, PristineUntilActive
    <1>3. NoLostCompletion'
        <2> SUFFICES ASSUME NEW c \in Campaigns, status'[c] \in {"active", "paused"},
                            AllTerminal(c)', c \notin missed'
                     PROVE  \E q \in Requests : req'[q].camp = c /\ req'[q].step \in CompletionSteps
            BY DEF NoLostCompletion, CompletionSteps
        <2>1. status[c] \in {"active", "paused"} /\ c \notin missed
            BY DEF HandlerStep, OnlyCompleted
        <2>2. CASE asg'[c] # asg[c]
            BY <2>2 DEF HandlerStep
        <2>3. CASE asg'[c] = asg[c]
            <3>1. AllTerminal(c)
                BY <2>3 DEF AllTerminal, Targets
            <3>2. PICK q \in Requests : req[q].camp = c /\ req[q].step \in CompletionSteps
                BY <2>1, <3>1 DEF IInv, Safe, NoLostCompletion
            <3> QED
                BY <3>2 DEF HandlerStep
        <2> QED
            BY <2>2, <2>3
    <1>4. RequestsStarted'
        <2>1. \A c \in Campaigns : status[c] \in Started => status'[c] \in Started
            BY DEF HandlerStep, OnlyCompleted, Started
        <2>2. ASSUME NEW q \in Requests, req'[q].step \in {"offer", "set", "apply"}
              PROVE  status'[req'[q].camp] \in Started
            <3>1. req'[q].camp \in Campaigns
                BY <2>2, StepNames DEF TypeOK, RequestOK
            <3>2. status[req'[q].camp] \in Started
                BY <2>2 DEF HandlerStep, IInv, Safe, RequestsStarted
            <3> QED
                BY <2>1, <3>1, <3>2
        <2> QED
            BY <2>2 DEF RequestsStarted, Started
    <1>5. MarkSafe'
        <2>1. ASSUME NEW q \in Requests, NEW c \in Campaigns,
                     req'[q].step = "mark", req'[q].camp = c
              PROVE  AllTerminal(c)'
            <3>1. CASE q = r
                BY <2>1, <3>1 DEF HandlerStep
            <3>2. CASE q # r
                <4>1. req[q].step = "mark" /\ req[q].camp = c
                    BY <2>1, <3>2 DEF HandlerStep
                <4>2. AllTerminal(c)
                    BY <4>1 DEF IInv, Safe, MarkSafe
                <4> QED
                    BY <4>2, AllTerminalKept DEF IInv, HandlerStep
            <3> QED
                BY <3>1, <3>2
        <2>2. \A q \in Requests : req'[q].step = "mark" => req'[q].camp \in Campaigns
            BY StepNames DEF TypeOK, RequestOK
        <2> QED
            BY <2>1, <2>2 DEF MarkSafe, AllTerminal, Targets
    <1>6. NeverDraft'
        BY DEF IInv, Safe, NeverDraft, HandlerStep, OnlyCompleted
    <1> QED
        BY <1>1, <1>2, <1>3, <1>4, <1>5, <1>6 DEF Safe

\* A statement that only reads is a handler step when its slot's record moves as
\* HandlerStep demands.
LEMMA ReadHandler ==
    ASSUME TypeOK, NEW r \in Requests, UNCHANGED campaignVars, missed \subseteq missed',
           \A q \in Requests : q # r => req'[q] = req[q],
           \A c \in Campaigns :
              req[r].camp = c /\ req[r].step \in CompletionSteps =>
                \/ req'[r].camp = c /\ req'[r].step \in CompletionSteps
                \/ c \in missed'
                \/ status[c] \notin {"active", "paused"}
                \/ ~AllTerminal(c),
           req'[r].step \in {"offer", "set", "apply"} => status[req'[r].camp] \in Started,
           \A c \in Campaigns : req'[r].step = "mark" /\ req'[r].camp = c => AllTerminal(c)
    PROVE  HandlerStep(r)
    <1>1. \A c \in Campaigns : AllTerminal(c)' <=> AllTerminal(c)
        BY DEF campaignVars, AllTerminal, Targets
    <1>2. status' = status /\ asg' = asg
        BY DEF campaignVars
    <1>3. TerminalKept
        BY <1>2 DEF TerminalKept
    <1>4. OnlyCompleted
        BY <1>2 DEF OnlyCompleted
    <1>5. \A c \in Campaigns :
            req[r].camp = c /\ req[r].step \in CompletionSteps =>
                \/ req'[r].camp = c /\ req'[r].step \in CompletionSteps
                \/ c \in missed'
                \/ status'[c] \notin {"active", "paused"}
                \/ ~AllTerminal(c)'
        BY <1>1, <1>2
    <1>6. \A c \in Campaigns : req'[r].step = "mark" /\ req'[r].camp = c => AllTerminal(c)'
        BY <1>1
    <1> QED
        BY <1>2, <1>3, <1>4, <1>5, <1>6 DEF HandlerStep

\* An UPDATE that moves the handler's own assignment forward and leads to the
\* completion check is a handler step.
LEMMA WriteHandler ==
    ASSUME TypeOK, NEW r \in Requests, req[r].step \in {"offer", "set", "apply"},
           NEW c \in Campaigns, NEW d \in Devices, asg[c][d] # "none", req[r].camp = c,
           status[c] \in Started,
           NEW s \in AssignmentStatuses, asg' = [asg EXCEPT ![c][d] = s],
           TerminalAssignment(asg[c][d]) => TerminalAssignment(s),
           NEW t \in {"get", "firmware"}, Goto(r, t), UNCHANGED <<status, missed>>
    PROVE  HandlerStep(r)
    <1>1. /\ req'[r].step = t /\ req'[r].camp = c
          /\ \A q \in Requests : q # r => req'[q] = req[q]
        BY GotoStep, StepNames
    <1>2. /\ asg'[c][d] = s
          /\ \A e \in Campaigns, x \in Devices : e # c \/ x # d => asg'[e][x] = asg[e][x]
          /\ \A e \in Campaigns, x \in Devices : asg'[e][x] = "none" <=> asg[e][x] = "none"
        BY DEF TypeOK, AssignmentStatuses
    <1>3. \A e \in Campaigns : e # c => asg'[e] = asg[e]
        BY DEF TypeOK
    <1>4. TerminalKept
        BY <1>2 DEF TerminalKept
    <1>5. t \in CompletionSteps /\ req[r].step \notin CompletionSteps
        BY DEF CompletionSteps
    <1>6. OnlyCompleted
        BY DEF OnlyCompleted
    <1> QED
        BY <1>1, <1>2, <1>3, <1>4, <1>5, <1>6 DEF HandlerStep

\* The statements of polls and reports are handler steps.
LEMMA ReportHandler ==
    ASSUME IInv, NEW r \in Requests,
           \/ PollOffer(r) \/ HttpReportFind(r) \/ HttpReportSet(r) \/ HttpReportSetFails(r)
           \/ TcpReportCheck(r) \/ TcpReportApply(r) \/ TcpReportFirmware(r)
    PROVE  HandlerStep(r)
    <1> DEFINE c == req[r].camp
               d == req[r].dev
    <1>0. TypeOK /\ RequestsStarted
        BY DEF IInv, Safe
    <1>1. CASE PollOffer(r)
        <2>1. c \in Campaigns /\ d \in Devices /\ asg[c][d] # "none" /\ status[c] \in Started
            BY <1>0, <1>1, Bound, StepNames DEF PollOffer, RequestsStarted
        <2>2. CASE asg[c][d] = "pending"
            BY <1>0, <1>1, <2>1, <2>2, WriteHandler
            DEF PollOffer, TerminalAssignment, AssignmentStatuses
        <2>3. CASE asg[c][d] # "pending"
            BY <1>0, <1>1, <2>3, FinishStep, ReadHandler DEF PollOffer, campaignVars, CompletionSteps
        <2> QED
            BY <2>2, <2>3
    <1>2. CASE HttpReportFind(r)
        <2> DEFINE rows == ActiveRows(d, {"offered", "downloaded"})
        <2>1. ASSUME NEW e \in rows, req' = [req EXCEPT ![r].step = "set", ![r].camp = e]
              PROVE  HandlerStep(r)
            <3>1. e \in Campaigns /\ status[e] \in Started
                BY <2>1 DEF ActiveRows, Started
            <3>2. /\ req'[r].step = "set" /\ req'[r].camp = e
                  /\ \A q \in Requests : q # r => req'[q] = req[q]
                BY <1>0, <2>1 DEF TypeOK, RequestRecords
            <3> QED
                BY <1>0, <1>2, <3>1, <3>2, ReadHandler DEF HttpReportFind, CompletionSteps
        <2>2. CASE Finish(r)
            BY <1>0, <1>2, <2>2, FinishStep, ReadHandler DEF HttpReportFind, CompletionSteps
        <2> QED
            BY <1>2, <2>1, <2>2 DEF HttpReportFind
    <1>3. CASE HttpReportSet(r)
        <2>1. c \in Campaigns /\ d \in Devices /\ asg[c][d] # "none" /\ status[c] \in Started
            BY <1>0, <1>3, Bound, StepNames DEF HttpReportSet, RequestsStarted
        <2> QED
            BY <1>0, <1>3, <2>1, WriteHandler
            DEF HttpReportSet, TerminalAssignment, AssignmentStatuses
    <1>4. CASE TcpReportCheck(r)
        <2>1. PICK s \in {"apply", "get"} :
                Goto(r, s) /\ (s = "apply" => status[c] = "active")
            BY <1>4 DEF TcpReportCheck
        <2>2. /\ req'[r].step = s /\ req'[r].camp = c
              /\ \A q \in Requests : q # r => req'[q] = req[q]
            BY <1>0, <2>1, GotoStep, StepNames
        <2> QED
            BY <1>0, <1>4, <2>1, <2>2, ReadHandler DEF TcpReportCheck, CompletionSteps, Started
    <1>5. CASE TcpReportApply(r)
        <2> DEFINE st == req[r].arg
        <2>1. c \in Campaigns /\ d \in Devices /\ asg[c][d] # "none" /\ status[c] \in Started
            BY <1>0, <1>5, Bound, StepNames DEF TcpReportApply, RequestsStarted
        <2>2. st \in ReportStatuses
            BY <1>0, <1>5 DEF TcpReportApply, TypeOK, RequestOK
        <2>3. CASE asg[c][d] \in AppliesFrom(st)
            <3>1. PICK t \in {"get", "firmware"} : Goto(r, t)
                BY <1>5, <2>3 DEF TcpReportApply
            <3>2. TerminalAssignment(asg[c][d]) => TerminalAssignment(st)
                BY <2>2, <2>3 DEF AppliesFrom, TerminalAssignment, ReportStatuses
            <3>3. st \in AssignmentStatuses
                BY <2>2 DEF ReportStatuses, AssignmentStatuses
            <3> QED
                BY <1>0, <1>5, <2>1, <2>3, <3>1, <3>2, <3>3, WriteHandler DEF TcpReportApply
        <2>4. CASE asg[c][d] \notin AppliesFrom(st)
            <3>1. Goto(r, "get") /\ UNCHANGED <<campaignVars, missed>>
                BY <1>5, <2>4 DEF TcpReportApply, campaignVars
            <3>2. /\ req'[r].step = "get" /\ req'[r].camp = c
                  /\ \A q \in Requests : q # r => req'[q] = req[q]
                BY <1>0, <3>1, GotoStep, StepNames
            <3> QED
                BY <1>0, <1>5, <3>1, <3>2, ReadHandler DEF TcpReportApply, CompletionSteps
        <2> QED
            BY <2>3, <2>4
    <1>6. CASE TcpReportFirmware(r)
        <2>1. CASE firmware[c] \in live
            <3>1. /\ req'[r].step = "get" /\ req'[r].camp = c
                  /\ \A q \in Requests : q # r => req'[q] = req[q]
                BY <1>0, <1>6, <2>1, GotoStep, StepNames DEF TcpReportFirmware
            <3> QED
                BY <1>0, <1>6, <2>1, <3>1, ReadHandler DEF TcpReportFirmware, CompletionSteps
        <2>2. CASE firmware[c] \notin live
            BY <1>0, <1>6, <2>2, FinishStep, ReadHandler DEF TcpReportFirmware, CompletionSteps
        <2> QED
            BY <2>1, <2>2
    <1>7. CASE HttpReportSetFails(r)
        <2>1. /\ req'[r].step = "get" /\ req'[r].camp = c
              /\ \A q \in Requests : q # r => req'[q] = req[q]
            BY <1>0, <1>7, GotoStep, StepNames DEF HttpReportSetFails
        <2> QED
            BY <1>0, <1>7, <2>1, ReadHandler DEF HttpReportSetFails, CompletionSteps
    <1> QED
        BY <1>1, <1>2, <1>3, <1>4, <1>5, <1>6, <1>7

\* So are the three statements of tryAutoComplete.
LEMMA AutoCompleteHandler ==
    ASSUME IInv, NEW r \in Requests,
           AutoCompleteGet(r) \/ AutoCompleteCount(r) \/ MarkCampaignCompleted(r)
    PROVE  HandlerStep(r)
    <1> DEFINE c == req[r].camp
    <1>0. TypeOK /\ RequestsStarted /\ MarkSafe
        BY DEF IInv, Safe
    <1>1. c \in Campaigns
        BY <1>0, Bound, StepNames DEF AutoCompleteGet, AutoCompleteCount, MarkCampaignCompleted
    <1>2. CASE AutoCompleteGet(r)
        <2>1. CASE status[c] = "active"
            <3>1. /\ req'[r].step = "count" /\ req'[r].camp = c
                  /\ \A q \in Requests : q # r => req'[q] = req[q]
                BY <1>0, <1>2, <2>1, GotoStep, StepNames DEF AutoCompleteGet
            <3> QED
                BY <1>0, <1>2, <2>1, <3>1, ReadHandler
                DEF AutoCompleteGet, CompletionSteps, MissedIfPaused
        <2>2. CASE status[c] # "active"
            BY <1>0, <1>2, <2>2, FinishStep, ReadHandler
            DEF AutoCompleteGet, CompletionSteps, MissedIfPaused
        <2> QED
            BY <2>1, <2>2
    <1>3. CASE AutoCompleteCount(r)
        <2>1. NonTerminalAssignments(c) = {} <=> AllTerminal(c)
            BY DEF NonTerminalAssignments, AllTerminal, TerminalAssignment
        <2>2. Targets(c) # {}
            BY <1>0, <1>3, Bound, StepNames DEF AutoCompleteCount, Targets
        <2>3. CASE AllTerminal(c)
            <3>1. /\ req'[r].step = "mark" /\ req'[r].camp = c
                  /\ \A q \in Requests : q # r => req'[q] = req[q]
                BY <1>0, <1>3, <2>1, <2>2, <2>3, GotoStep, StepNames DEF AutoCompleteCount
            <3> QED
                BY <1>0, <1>3, <2>3, <3>1, ReadHandler DEF AutoCompleteCount, CompletionSteps
        <2>4. CASE ~AllTerminal(c)
            BY <1>0, <1>3, <2>1, <2>4, FinishStep, ReadHandler DEF AutoCompleteCount, CompletionSteps
        <2> QED
            BY <2>3, <2>4
    <1>4. CASE MarkCampaignCompleted(r)
        <2>1. /\ req'[r].step = "idle"
              /\ \A q \in Requests : q # r => req'[q] = req[q]
            BY <1>0, <1>4, FinishStep DEF MarkCampaignCompleted
        <2>2. \A e \in Campaigns : AllTerminal(e)' <=> AllTerminal(e)
            BY <1>4 DEF MarkCampaignCompleted, AllTerminal, Targets
        <2>3. AllTerminal(c)
            BY <1>0, <1>4 DEF MarkSafe, MarkCampaignCompleted
        <2>4. \A e \in Campaigns :
                status'[e] = IF e = c /\ status[e] = "active" THEN "completed" ELSE status[e]
            BY <1>0, <1>1, <1>4 DEF MarkCampaignCompleted, TypeOK
        <2>5. OnlyCompleted
            BY <2>2, <2>3, <2>4 DEF OnlyCompleted
        <2>6. TerminalKept /\ missed \subseteq missed' /\ asg' = asg
            BY <1>4 DEF MarkCampaignCompleted, MissedIfPaused, TerminalKept
        <2>7. c \in missed' \/ status'[c] \notin {"active", "paused"}
            BY <1>1, <1>4, <2>4 DEF MarkCampaignCompleted, MissedIfPaused
        <2> QED
            BY <2>1, <2>5, <2>6, <2>7 DEF HandlerStep
    <1> QED
        BY <1>2, <1>3, <1>4

\* A request that arrives, or whose handler is abandoned, writes nothing.
LEMMA ArriveHandler ==
    ASSUME TypeOK, NEW r \in Requests, Arrive(r)
    PROVE  HandlerStep(r)
    <1>1. ASSUME NEW d \in Devices, PollFind(r, d)
          PROVE  HandlerStep(r)
        <2>1. PICK c \in Campaigns :
                /\ IsFirst(c, OfferRows(d))
                /\ Begin(r, IF asg[c][d] = "pending" THEN "offer" ELSE "get", c, d, None)
            BY <1>1 DEF PollFind
        <2>2. status[c] \in Started
            BY <2>1 DEF IsFirst, OfferRows, ActiveRows, Started
        <2>3. PICK s \in {"offer", "get"} : Begin(r, s, c, d, None)
            BY <2>1
        <2>4. /\ req[r].step = "idle" /\ req'[r].step = s /\ req'[r].camp = c
              /\ \A q \in Requests : q # r => req'[q] = req[q]
            BY <2>3, BeginStep, StepNames
        <2> QED
            BY <1>1, <2>2, <2>4, ReadHandler DEF PollFind, CompletionSteps
    <1>2. ASSUME NEW d \in Devices, NEW v \in Firmwares, HttpReport(r, d, v)
          PROVE  HandlerStep(r)
        <2>1. /\ req[r].step = "idle" /\ req'[r].step = "report"
              /\ \A q \in Requests : q # r => req'[q] = req[q]
            BY <1>2, BeginStep, StepNames DEF HttpReport
        <2> QED
            BY <1>2, <2>1, ReadHandler DEF HttpReport, CompletionSteps
    <1>3. ASSUME NEW d \in Devices, NEW c \in Campaigns, NEW st \in ReportStatuses,
                 TcpReport(r, d, c, st)
          PROVE  HandlerStep(r)
        <2>1. /\ req[r].step = "idle" /\ req'[r].step = "check"
              /\ \A q \in Requests : q # r => req'[q] = req[q]
            BY <1>3, BeginStep, StepNames DEF TcpReport
        <2> QED
            BY <1>3, <2>1, ReadHandler DEF TcpReport, CompletionSteps
    <1> QED
        BY <1>1, <1>2, <1>3 DEF Arrive

\* Abandoning a handler on its way to the completion mark is recorded in missed.
LEMMA AbandonHandler ==
    ASSUME TypeOK, NEW r \in Requests, Abandon(r)
    PROVE  HandlerStep(r)
    <1>1. req'[r].step = "idle" /\ \A q \in Requests : q # r => req'[q] = req[q]
        BY FinishStep DEF Abandon
    <1>2. missed \subseteq missed' /\ UNCHANGED campaignVars
        BY DEF Abandon
    <1>3. \A c \in Campaigns :
            req[r].camp = c /\ req[r].step \in CompletionSteps => c \in missed'
        BY DEF Abandon
    <1> QED
        BY <1>1, <1>2, <1>3, ReadHandler

--------------------------------------------------------------------------------
(* Safety: users and the scheduler                                         *)

\* A step that leaves assignments, handlers and history alone preserves Safe when
\* every campaign moves along a path of the lifecycle other than completion.
LEMMA StatusSafe ==
    ASSUME IInv, TypeOK', UNCHANGED <<asg, req, missed>>,
           \A c \in Campaigns :
              \/ status'[c] = status[c]
              \/ status[c] = "scheduled" /\ status'[c] = "active"
              \/ status[c] \in {"active", "paused"} /\ status'[c] \in {"active", "paused"}
              \/ status'[c] = "cancelled" /\ status[c] # "none"
    PROVE  Safe'
    <1>0. TypeOK /\ Safe
        BY DEF IInv
    <1>1. \A c \in Campaigns : AllTerminal(c)' <=> AllTerminal(c)
        BY DEF AllTerminal, Targets
    <1>2. CompletedAllTerminal'
        BY <1>0, <1>1 DEF Safe, CompletedAllTerminal
    <1>3. PristineUntilActive'
        BY <1>0 DEF Safe, PristineUntilActive
    <1>4. NoLostCompletion'
        <2> SUFFICES ASSUME NEW c \in Campaigns, status'[c] \in {"active", "paused"},
                            AllTerminal(c)', c \notin missed'
                     PROVE  \E q \in Requests : req'[q].camp = c /\ req'[q].step \in CompletionSteps
            BY DEF NoLostCompletion, CompletionSteps
        <2>1. AllTerminal(c)
            BY <1>1
        <2>2. status[c] # "scheduled"
            <3> SUFFICES ASSUME status[c] = "scheduled" PROVE FALSE
                OBVIOUS
            <3>1. PICK d \in Devices : asg[c][d] # "none"
                BY <1>0 DEF TypeOK, RowOK
            <3>2. asg[c][d] = "pending"
                BY <1>0, <3>1 DEF Safe, PristineUntilActive
            <3> QED
                BY <2>1, <3>2 DEF AllTerminal, Targets, TerminalAssignment
        <2>3. status[c] \in {"active", "paused"}
            BY <2>2
        <2> QED
            BY <1>0, <2>1, <2>3 DEF Safe, NoLostCompletion
    <1>5. RequestsStarted'
        <2>1. \A c \in Campaigns : status[c] \in Started => status'[c] \in Started
            BY DEF Started
        <2>2. \A q \in Requests : req[q].step \in {"offer", "set", "apply"} =>
                 req[q].camp \in Campaigns /\ status[req[q].camp] \in Started
            BY <1>0, Bound, StepNames DEF Safe, RequestsStarted
        <2> QED
            BY <2>1, <2>2 DEF RequestsStarted, Started
    <1>6. MarkSafe'
        <2>1. \A q \in Requests : req[q].step = "mark" =>
                 req[q].camp \in Campaigns /\ AllTerminal(req[q].camp)
            BY <1>0, Bound, StepNames DEF Safe, MarkSafe
        <2> QED
            BY <2>1 DEF MarkSafe, AllTerminal, Targets
    <1>7. NeverDraft'
        BY <1>0 DEF Safe, NeverDraft
    <1> QED
        BY <1>2, <1>3, <1>4, <1>5, <1>6, <1>7 DEF Safe

\* A new campaign starts with open assignments only, and no handler knows it.
LEMMA CreateSafe ==
    ASSUME IInv, TypeOK', NEW c \in Campaigns, NEW f \in Firmwares, NEW T \in SUBSET Devices,
           NEW s \in BOOLEAN, CreateCampaign(c, f, T, s)
    PROVE  Safe'
    <1>0. TypeOK /\ Safe
        BY DEF IInv
    <1>1. /\ status'[c] \in {"scheduled", "active"}
          /\ \A e \in Campaigns : e # c => status'[e] = status[e]
          /\ \A e \in Campaigns : e # c => asg'[e] = asg[e]
          /\ \A d \in Devices : asg'[c][d] \in {"none", "pending"}
          /\ \E d \in Devices : asg'[c][d] = "pending"
          /\ req' = req /\ missed' = missed
        <2>1. PICK x \in Devices : x \in T
            BY CreateAssigns
        <2>2. asg'[c][x] = "pending"
            BY <1>0, <2>1 DEF CreateCampaign, TypeOK
        <2> QED
            BY <1>0, <2>2 DEF CreateCampaign, TypeOK
    <1>2. ~AllTerminal(c)'
        BY <1>1 DEF AllTerminal, Targets, TerminalAssignment
    <1>3. \A e \in Campaigns : e # c => (AllTerminal(e)' <=> AllTerminal(e))
        BY <1>1 DEF AllTerminal, Targets
    <1>4. \A q \in Requests : req[q].step \in BoundSteps =>
             req[q].camp \in Campaigns /\ req[q].camp # c
        BY <1>0, Bound DEF CreateCampaign
    <1>5. CompletedAllTerminal'
        BY <1>0, <1>1, <1>3 DEF Safe, CompletedAllTerminal
    <1>6. PristineUntilActive'
        BY <1>0, <1>1 DEF Safe, PristineUntilActive
    <1>7. NoLostCompletion'
        <2> SUFFICES ASSUME NEW e \in Campaigns, status'[e] \in {"active", "paused"},
                            AllTerminal(e)', e \notin missed'
                     PROVE  \E q \in Requests : req'[q].camp = e /\ req'[q].step \in CompletionSteps
            BY DEF NoLostCompletion, CompletionSteps
        <2>1. e # c /\ AllTerminal(e) /\ status[e] \in {"active", "paused"} /\ e \notin missed
            BY <1>1, <1>2, <1>3
        <2> QED
            BY <1>0, <1>1, <2>1 DEF Safe, NoLostCompletion
    <1>8. RequestsStarted'
        BY <1>0, <1>1, <1>4, StepNames DEF Safe, RequestsStarted, Started
    <1>9. MarkSafe'
        <2> SUFFICES ASSUME NEW q \in Requests, req[q].step = "mark"
                     PROVE  (\A e \in Campaigns : req[q].camp = e => AllTerminal(e)')
            BY <1>1, <1>4, StepNames DEF MarkSafe, AllTerminal, Targets
        <2> QED
            BY <1>0, <1>3, <1>4, StepNames DEF Safe, MarkSafe
    <1>10. NeverDraft'
        BY <1>0, <1>1 DEF Safe, NeverDraft
    <1> QED
        BY <1>5, <1>6, <1>7, <1>8, <1>9, <1>10 DEF Safe

\* Users and the scheduler preserve the safety part of the invariant.
LEMMA ManageSafe ==
    ASSUME IInv, TypeOK', Manage \/ (\E c \in Campaigns : StartTimePasses(c)) \/ Tick
    PROVE  Safe'
    <1>0. TypeOK /\ NeverDraft
        BY DEF IInv, Safe
    <1>1. ASSUME NEW c \in Campaigns,
                 PauseCampaign(c) \/ ResumeCampaign(c) \/ CancelCampaign(c)
          PROVE  Safe'
        BY <1>0, <1>1, StatusSafe DEF PauseCampaign, ResumeCampaign, CancelCampaign,
                                      Cancellable, TypeOK
    <1>2. ASSUME NEW f \in Firmwares, DeleteFirmware(f)
          PROVE  Safe'
        BY <1>2, StatusSafe DEF DeleteFirmware
    <1>3. ASSUME NEW c \in Campaigns, StartTimePasses(c)
          PROVE  Safe'
        BY <1>3, StatusSafe DEF StartTimePasses
    <1>4. CASE ActivateDuePluck \/ ActivateDueRollback
        BY <1>4, StatusSafe DEF ActivateDuePluck, ActivateDueRollback, campaignVars
    <1>5. CASE ActivateDueUpdate
        BY <1>5, StatusSafe DEF ActivateDueUpdate
    <1> QED
        BY <1>1, <1>2, <1>3, <1>4, <1>5, CreateSafe DEF Manage, Tick

\* Every step of a request slot is a handler step.
LEMMA SlotHandler ==
    ASSUME IInv, NEW r \in Requests, Arrive(r) \/ Serve(r) \/ Abandon(r)
    PROVE  HandlerStep(r)
    BY ReportHandler, AutoCompleteHandler, ArriveHandler, AbandonHandler DEF Serve, IInv

\* The invariant holds at first ...
LEMMA InitInductive == Init => IInv
    <1> SUFFICES ASSUME Init PROVE Safe
        BY InitType DEF IInv
    <1>1. /\ \A c \in Campaigns : status[c] = "none"
          /\ \A r \in Requests : req[r].step = "idle"
        BY DEF Init, Idle
    <1> QED
        BY <1>1 DEF Safe, CompletedAllTerminal, PristineUntilActive, NoLostCompletion,
                    RequestsStarted, MarkSafe, NeverDraft

\* ... and is preserved by every step.
LEMMA NextInductive == IInv /\ [Next]_vars => IInv'
    <1> SUFFICES ASSUME IInv, [Next]_vars PROVE Safe'
        BY NextType DEF IInv
    <1>1. TypeOK'
        BY NextType DEF IInv
    <1>2. ASSUME NEW r \in Requests, Arrive(r) \/ Serve(r) \/ Abandon(r)
          PROVE  Safe'
        BY <1>1, <1>2, SlotHandler, HandlerSafe
    <1>3. CASE UNCHANGED vars
        BY <1>1, <1>3, StatusSafe DEF vars
    <1> QED
        BY <1>1, <1>2, <1>3, ManageSafe DEF Next

\* The inductive invariant behind the three safety theorems.
THEOREM Inductive == Spec => []IInv
    BY InitInductive, NextInductive, PTL DEF Spec

\* A completed campaign has only terminal assignments, although counting and
\* marking are two statements of concurrent handlers.
THEOREM CompletionIsSound == Spec => []CompletedAllTerminal
    <1>1. IInv => CompletedAllTerminal
        BY DEF IInv, Safe
    <1> QED
        BY <1>1, Inductive, PTL

\* No report or poll reaches the assignments of a campaign that is still scheduled.
THEOREM ScheduledIsPristine == Spec => []PristineUntilActive
    <1>1. IInv => PristineUntilActive
        BY DEF IInv, Safe
    <1> QED
        BY <1>1, Inductive, PTL

\* Concurrent last reports cannot each leave the completion to the other.
THEOREM CompletionNotLost == Spec => []NoLostCompletion
    <1>1. IInv => NoLostCompletion
        BY DEF IInv, Safe
    <1> QED
        BY <1>1, Inductive, PTL

--------------------------------------------------------------------------------
(* What each step writes                                                   *)

\* The writes to assignment rows.
AssignmentWrite(c, d, s) ==
    /\ status[c] \in Started
    /\ asg[c][d] # "none"
    /\ asg' = [asg EXCEPT ![c][d] = s]
    /\ \/ asg[c][d] = "pending" /\ s = "offered"
       \/ s = "downloaded" /\ asg[c][d] \in {"offered", "downloaded"}
       \/ s = "failed" /\ asg[c][d] \in {"pending", "offered", "downloaded", "failed"}
       \/ s = "installed"

\* A handler writes at most one assignment, forward, of a started campaign, or
\* completes a campaign without open assignments.
LEMMA HandlerWrites ==
    ASSUME IInv, NEW r \in Requests, Arrive(r) \/ Serve(r) \/ Abandon(r)
    PROVE  \/ UNCHANGED <<status, asg>>
           \/ /\ UNCHANGED status
              /\ \E c \in Campaigns, d \in Devices, s \in AssignmentStatuses : AssignmentWrite(c, d, s)
           \/ /\ UNCHANGED asg
              /\ \E c \in Campaigns :
                    /\ status[c] = "active" /\ AllTerminal(c)
                    /\ status' = [status EXCEPT ![c] = "completed"]
    <1> DEFINE c == req[r].camp
               d == req[r].dev
    <1>0. TypeOK /\ RequestsStarted /\ MarkSafe
        BY DEF IInv, Safe
    <1>1. ASSUME req[r].step \in {"offer", "set", "apply"}
          PROVE  c \in Campaigns /\ d \in Devices /\ asg[c][d] # "none" /\ status[c] \in Started
        BY <1>0, <1>1, Bound, StepNames DEF RequestsStarted
    <1>2. CASE PollOffer(r)
        <2>1. (asg[c][d] = "pending" /\ asg' = [asg EXCEPT ![c][d] = "offered"]) \/ UNCHANGED asg
            BY <1>2 DEF PollOffer
        <2> QED
            BY <1>1, <1>2, <2>1 DEF PollOffer, AssignmentWrite, AssignmentStatuses
    <1>3. CASE HttpReportSet(r)
        BY <1>1, <1>3 DEF HttpReportSet, AssignmentWrite, AssignmentStatuses
    <1>4. CASE TcpReportApply(r)
        <2> DEFINE st == req[r].arg
        <2>1. st \in ReportStatuses
            BY <1>0, <1>4 DEF TcpReportApply, TypeOK, RequestOK
        <2>2. CASE asg[c][d] \in AppliesFrom(st)
            <3>1. \/ st = "downloaded" /\ asg[c][d] \in {"offered", "downloaded"}
                  \/ st = "failed" /\ asg[c][d] \in {"pending", "offered", "downloaded", "failed"}
                  \/ st = "installed"
                BY <2>1, <2>2 DEF AppliesFrom, ReportStatuses
            <3>2. st \in AssignmentStatuses
                BY <2>1 DEF ReportStatuses, AssignmentStatuses
            <3>3. AssignmentWrite(c, d, st)
                BY <1>1, <1>4, <2>2, <3>1 DEF TcpReportApply, AssignmentWrite
            <3> QED
                BY <1>1, <1>4, <3>2, <3>3 DEF TcpReportApply
        <2>3. CASE asg[c][d] \notin AppliesFrom(st)
            BY <1>4, <2>3 DEF TcpReportApply
        <2> QED
            BY <2>2, <2>3
    <1>5. CASE MarkCampaignCompleted(r)
        <2>1. c \in Campaigns /\ AllTerminal(c)
            BY <1>0, <1>5, Bound, StepNames DEF MarkCampaignCompleted, MarkSafe
        <2>2. CASE status[c] = "active"
            BY <1>5, <2>1, <2>2 DEF MarkCampaignCompleted
        <2>3. CASE status[c] # "active"
            <3>1. status' = status
                BY <1>0, <1>5, <2>1, <2>3 DEF MarkCampaignCompleted, TypeOK
            <3> QED
                BY <1>5, <3>1 DEF MarkCampaignCompleted
        <2> QED
            BY <2>2, <2>3
    <1>6. CASE \/ HttpReportFind(r) \/ HttpReportSetFails(r) \/ TcpReportCheck(r)
               \/ TcpReportFirmware(r) \/ AutoCompleteGet(r) \/ AutoCompleteCount(r) \/ Abandon(r)
        BY <1>6 DEF HttpReportFind, HttpReportSetFails, TcpReportCheck, TcpReportFirmware,
                    AutoCompleteGet, AutoCompleteCount, Abandon, campaignVars
    <1>7. CASE Arrive(r)
        BY <1>7 DEF Arrive, PollFind, HttpReport, TcpReport, campaignVars
    <1> QED
        BY <1>2, <1>3, <1>4, <1>5, <1>6, <1>7 DEF Serve

\* Users and the scheduler write assignments only to create them.
LEMMA ManageWrites ==
    ASSUME IInv, Manage \/ (\E c \in Campaigns : StartTimePasses(c)) \/ Tick
    PROVE  \/ UNCHANGED <<status, asg>>
           \/ \E c \in Campaigns, f \in Firmwares, T \in SUBSET Devices, s \in BOOLEAN :
                CreateCampaign(c, f, T, s)
           \/ /\ UNCHANGED asg
              /\ \E c \in Campaigns : PauseCampaign(c) \/ ResumeCampaign(c) \/ CancelCampaign(c)
           \/ UNCHANGED asg /\ ActivateDueUpdate
    BY DEF Manage, Tick, StartTimePasses, PauseCampaign, ResumeCampaign, CancelCampaign,
           DeleteFirmware, ActivateDuePluck, ActivateDueUpdate, ActivateDueRollback, campaignVars

--------------------------------------------------------------------------------
(* Action properties                                                       *)

\* A write of one assignment changes that one and no other.
LEMMA AssignmentWritten ==
    ASSUME TypeOK, NEW c \in Campaigns, NEW d \in Devices, NEW s \in AssignmentStatuses,
           AssignmentWrite(c, d, s)
    PROVE  /\ asg'[c][d] = s
           /\ \A e \in Campaigns, x \in Devices : e # c \/ x # d => asg'[e][x] = asg[e][x]
    <1>1. asg \in [Campaigns -> [Devices -> AssignmentStatuses \cup {"none"}]]
        BY DEF TypeOK
    <1>2. asg' = [asg EXCEPT ![c][d] = s]
        BY DEF AssignmentWrite
    <1> QED
        BY <1>1, <1>2

\* Every write moves the device's progress forward.
LEMMA WriteMonotone ==
    ASSUME TypeOK, NEW c \in Campaigns, NEW d \in Devices, NEW s \in AssignmentStatuses,
           AssignmentWrite(c, d, s), NEW e \in Campaigns, NEW x \in Devices
    PROVE  Rank(asg[e][x]) <= Rank(asg'[e][x])
    <1>1. asg[e][x] \in AssignmentStatuses \cup {"none"}
        BY DEF TypeOK
    <1>2. Rank(asg[e][x]) \in Nat
        BY <1>1 DEF Rank, AssignmentStatuses
    <1>3. CASE e = c /\ x = d
        <2>1. asg'[e][x] = s
            BY <1>3, AssignmentWritten
        <2> QED
            BY <1>1, <1>3, <2>1 DEF AssignmentWrite, Rank, AssignmentStatuses
    <1>4. CASE e # c \/ x # d
        <2>1. asg'[e][x] = asg[e][x]
            BY <1>4, AssignmentWritten
        <2> QED
            BY <1>2, <2>1
    <1> QED
        BY <1>3, <1>4

\* The rollout progress of a device never goes back, whatever the order in which
\* stale polls and reports are applied.
THEOREM ProgressIsMonotone == Spec => ProgressMonotone
    <1> DEFINE Forward == \A c \in Campaigns, d \in Devices : Rank(asg[c][d]) <= Rank(asg'[c][d])
    <1>1. IInv /\ [Next]_vars => [Forward]_asg
        <2> SUFFICES ASSUME IInv, [Next]_vars, asg' # asg PROVE Forward
            OBVIOUS
        <2>0. TypeOK
            BY DEF IInv
        <2>1. ASSUME NEW r \in Requests, Arrive(r) \/ Serve(r) \/ Abandon(r)
              PROVE  Forward
            BY <2>0, <2>1, HandlerWrites, WriteMonotone
        <2>2. ASSUME NEW c \in Campaigns, NEW f \in Firmwares, NEW T \in SUBSET Devices,
                     NEW s \in BOOLEAN, CreateCampaign(c, f, T, s)
              PROVE  Forward
            <3> SUFFICES ASSUME NEW e \in Campaigns, NEW x \in Devices
                         PROVE  Rank(asg[e][x]) <= Rank(asg'[e][x])
                OBVIOUS
            <3>1. asg[e][x] \in AssignmentStatuses \cup {"none"}
                BY <2>0 DEF TypeOK
            <3>2. Rank(asg[e][x]) \in Nat
                BY <3>1 DEF Rank, AssignmentStatuses
            <3>3. CASE e = c
                BY <2>0, <2>2, <3>3 DEF CreateCampaign, TypeOK, RowOK, Rank
            <3>4. CASE e # c
                BY <2>0, <2>2, <3>2, <3>4 DEF CreateCampaign, TypeOK
            <3> QED
                BY <3>3, <3>4
        <2>3. CASE Manage \/ (\E c \in Campaigns : StartTimePasses(c)) \/ Tick
            BY <2>2, <2>3, ManageWrites
        <2>4. CASE UNCHANGED vars
            BY <2>4 DEF vars
        <2> QED
            BY <2>1, <2>3, <2>4 DEF Next
    <1> QED
        BY <1>1, Inductive, PTL DEF Spec, ProgressMonotone

\* The WHERE clauses of the separate UPDATEs keep to the table of state.go.
THEOREM StatusFollowsTable == Spec => StatusFollowsCanTransition
    <1> DEFINE Legal == \A c \in Campaigns :
                           status[c] # "none" => CanTransition(status[c], status'[c])
    <1>1. IInv /\ [Next]_vars => [Legal]_status
        <2> SUFFICES ASSUME IInv, [Next]_vars, status' # status PROVE Legal
            OBVIOUS
        <2>0. TypeOK
            BY DEF IInv
        <2>1. ASSUME NEW r \in Requests, Arrive(r) \/ Serve(r) \/ Abandon(r)
              PROVE  Legal
            BY <2>0, <2>1, HandlerWrites DEF CanTransition, TypeOK
        <2>2. CASE Manage \/ (\E c \in Campaigns : StartTimePasses(c)) \/ Tick
            BY <2>0, <2>2, ManageWrites
            DEF CanTransition, TypeOK, CreateCampaign, PauseCampaign, ResumeCampaign,
                CancelCampaign, Cancellable, ActivateDueUpdate
        <2>3. CASE UNCHANGED vars
            BY <2>3 DEF vars
        <2> QED
            BY <2>1, <2>2, <2>3 DEF Next
    <1> QED
        BY <1>1, Inductive, PTL DEF Spec, StatusFollowsCanTransition

--------------------------------------------------------------------------------
(* Refinement of CampaignLifecycle                                         *)

\* The refinement mapping of one campaign.
Open(c)      == {d \in Devices : asg[c][d] \in {"pending", "offered", "downloaded"}}
Failed(c)    == {d \in Devices : asg[c][d] = "failed"}
Installed(c) == {d \in Devices : asg[c][d] = "installed"}

\* Steps that leave the assignments alone leave the outcome alone.
LEMMA SameOutcome == UNCHANGED asg => UNCHANGED Lifecycle!outcome
    BY DEF Lifecycle!outcome

\* A write of one assignment settles its device, turns a failure into an
\* installation, or is not visible.
LEMMA WriteRefines ==
    ASSUME TypeOK, CompletedAllTerminal, NEW c \in Campaigns, NEW d \in Devices,
           NEW s \in AssignmentStatuses, AssignmentWrite(c, d, s), UNCHANGED status
    PROVE  [Lifecycle!Next]_(Lifecycle!vars)
    <1> DEFINE open == [e \in Campaigns |-> Open(e)]
               failed == [e \in Campaigns |-> Failed(e)]
               installed == [e \in Campaigns |-> Installed(e)]
    <1>1. /\ asg'[c][d] = s
          /\ \A e \in Campaigns, x \in Devices : e # c \/ x # d => asg'[e][x] = asg[e][x]
        BY AssignmentWritten
    <1>2. \A e \in Campaigns : e # c =>
             Open(e)' = Open(e) /\ Failed(e)' = Failed(e) /\ Installed(e)' = Installed(e)
        BY <1>1 DEF Open, Failed, Installed
    <1>3. asg[c][d] \in AssignmentStatuses
        BY DEF TypeOK, AssignmentWrite
    <1>4. CASE s \in {"offered", "downloaded"} \/ s = asg[c][d]
        <2>1. \/ asg[c][d] \in {"pending", "offered", "downloaded"} /\ s \in {"offered", "downloaded"}
              \/ s = asg[c][d]
            BY <1>3, <1>4 DEF AssignmentWrite
        <2>2. Open(c)' = Open(c) /\ Failed(c)' = Failed(c) /\ Installed(c)' = Installed(c)
            BY <1>1, <2>1 DEF Open, Failed, Installed
        <2>3. open' = open /\ failed' = failed /\ installed' = installed
            BY <1>2, <2>2
        <2> QED
            BY <2>3 DEF Lifecycle!vars, Open, Failed, Installed
    <1>5. CASE asg[c][d] \in {"pending", "offered", "downloaded"} /\ s \in {"failed", "installed"}
        <2>1. /\ d \in Open(c)
              /\ Open(c)' = Open(c) \ {d}
              /\ Failed(c)' = IF s = "failed" THEN Failed(c) \cup {d} ELSE Failed(c)
              /\ Installed(c)' = IF s = "installed" THEN Installed(c) \cup {d} ELSE Installed(c)
            BY <1>1, <1>5 DEF Open, Failed, Installed
        <2>2. status[c] \in {"active", "paused", "cancelled"}
            BY <1>5 DEF AssignmentWrite, Started, CompletedAllTerminal, AllTerminal, Targets,
                        TerminalAssignment
        <2>3. open' = [open EXCEPT ![c] = open[c] \ {d}]
            BY <1>2, <2>1
        <2>4. \/ failed' = [failed EXCEPT ![c] = failed[c] \cup {d}] /\ installed' = installed
              \/ installed' = [installed EXCEPT ![c] = installed[c] \cup {d}] /\ failed' = failed
            BY <1>2, <1>5, <2>1
        <2>5. Lifecycle!Settle(c, d)
            BY <2>1, <2>2, <2>3, <2>4 DEF Lifecycle!Settle, Open, Failed, Installed
        <2> QED
            BY <2>5 DEF Lifecycle!Next
    <1>6. CASE asg[c][d] = "failed" /\ s = "installed"
        <2>1. /\ d \in Failed(c)
              /\ Open(c)' = Open(c)
              /\ Failed(c)' = Failed(c) \ {d}
              /\ Installed(c)' = Installed(c) \cup {d}
            BY <1>1, <1>6 DEF Open, Failed, Installed
        <2>2. /\ open' = open
              /\ failed' = [failed EXCEPT ![c] = failed[c] \ {d}]
              /\ installed' = [installed EXCEPT ![c] = installed[c] \cup {d}]
            BY <1>2, <2>1
        <2>3. Lifecycle!Recover(c, d)
            BY <2>1, <2>2 DEF Lifecycle!Recover, Open, Failed, Installed
        <2> QED
            BY <2>3 DEF Lifecycle!Next
    <1> QED
        BY <1>3, <1>4, <1>5, <1>6 DEF AssignmentWrite, AssignmentStatuses

\* The committed bundle of CreateCampaign creates the abstract campaign.
LEMMA CreateRefines ==
    ASSUME TypeOK, NEW c \in Campaigns, NEW f \in Firmwares, NEW T \in SUBSET Devices,
           NEW s \in BOOLEAN, CreateCampaign(c, f, T, s)
    PROVE  Lifecycle!Create(c)
    <1> DEFINE open == [e \in Campaigns |-> Open(e)]
               failed == [e \in Campaigns |-> Failed(e)]
               installed == [e \in Campaigns |-> Installed(e)]
    <1>1. /\ \A e \in Campaigns : e # c => asg'[e] = asg[e]
          /\ \A d \in Devices : asg'[c][d] = IF d \in T THEN "pending" ELSE "none"
          /\ \A d \in Devices : asg[c][d] = "none"
        BY DEF CreateCampaign, TypeOK, RowOK
    <1>2. \A e \in Campaigns : e # c => Open(e)' = Open(e)
        BY <1>1 DEF Open
    <1>3. \A e \in Campaigns : Failed(e)' = Failed(e) /\ Installed(e)' = Installed(e)
        BY <1>1 DEF Failed, Installed
    <1>4. Open(c)' = T
        BY <1>1 DEF Open
    <1>5. open' = [open EXCEPT ![c] = T] /\ failed' = failed /\ installed' = installed
        BY <1>2, <1>3, <1>4
    <1>6. PICK t \in {"scheduled", "active"} : status' = [status EXCEPT ![c] = t]
        BY DEF CreateCampaign
    <1>7. T \in (SUBSET Devices) \ {{}} /\ status[c] = "none"
        BY CreateAssigns DEF CreateCampaign
    <1> QED
        BY <1>5, <1>6, <1>7 DEF Lifecycle!Create, Open, Failed, Installed

\* A step that only changes statuses is a step of the abstract lifecycle.
LEMMA StatusRefines ==
    ASSUME IInv, UNCHANGED asg,
           \/ \E c \in Campaigns : PauseCampaign(c) \/ ResumeCampaign(c) \/ CancelCampaign(c)
           \/ ActivateDueUpdate
           \/ \E c \in Campaigns :
                /\ status[c] = "active" /\ AllTerminal(c)
                /\ status' = [status EXCEPT ![c] = "completed"]
    PROVE  Lifecycle!Next
    <1>0. UNCHANGED Lifecycle!outcome
        BY SameOutcome
    <1>1. ASSUME NEW c \in Campaigns, PauseCampaign(c)
          PROVE  Lifecycle!Pause(c)
        BY <1>0, <1>1 DEF PauseCampaign, Lifecycle!Pause, Lifecycle!Move
    <1>2. ASSUME NEW c \in Campaigns, ResumeCampaign(c)
          PROVE  Lifecycle!Resume(c)
        BY <1>0, <1>2 DEF ResumeCampaign, Lifecycle!Resume, Lifecycle!Move
    <1>3. ASSUME NEW c \in Campaigns, CancelCampaign(c)
          PROVE  Lifecycle!Cancel(c)
        <2>1. status[c] # "draft"
            BY DEF IInv, Safe, NeverDraft
        <2> QED
            BY <1>0, <1>3, <2>1 DEF CancelCampaign, Cancellable, Lifecycle!Cancel, Lifecycle!Move
    <1>4. CASE ActivateDueUpdate
        <2> DEFINE S == {c \in plucked : status[c] = "scheduled"}
        <2>1. S \in SUBSET {c \in Campaigns : status[c] = "scheduled"}
            BY DEF IInv, TypeOK
        <2>2. status' = [c \in Campaigns |-> IF c \in S THEN "active" ELSE status[c]]
            BY <1>4 DEF ActivateDueUpdate
        <2>3. Lifecycle!Start
            BY <1>0, <2>1, <2>2 DEF Lifecycle!Start
        <2> QED
            BY <2>3 DEF Lifecycle!Next
    <1>5. ASSUME NEW c \in Campaigns, status[c] = "active", AllTerminal(c),
                 status' = [status EXCEPT ![c] = "completed"]
          PROVE  Lifecycle!Complete(c)
        <2>1. {d \in Devices : asg[c][d] \in {"pending", "offered", "downloaded"}} = {}
            BY <1>5 DEF AllTerminal, Targets, TerminalAssignment
        <2> QED
            BY <1>0, <1>5, <2>1 DEF Lifecycle!Complete, Lifecycle!Move
    <1> QED
        BY <1>1, <1>2, <1>3, <1>4, <1>5 DEF Lifecycle!Next

\* A step without effect on statuses and assignments is a stutter.
LEMMA StutterRefines == UNCHANGED <<status, asg>> => UNCHANGED Lifecycle!vars
    BY DEF Lifecycle!vars

\* Every interleaving of handlers, users and scheduler is a run of the abstract
\* lifecycle: only campaigns without open devices complete, outcomes are recorded
\* only for started campaigns and only failures are revised.
THEOREM RolloutImplementsLifecycle == Spec => ImplementsLifecycle
    <1>1. Init => Lifecycle!Init
        <2> SUFFICES ASSUME Init PROVE Lifecycle!Init
            OBVIOUS
        <2>1. \A c \in Campaigns, d \in Devices : asg[c][d] = "none"
            BY DEF Init
        <2> QED
            BY <2>1 DEF Init, Lifecycle!Init
    <1>2. IInv /\ [Next]_vars => [Lifecycle!Next]_(Lifecycle!vars)
        <2> SUFFICES ASSUME IInv, [Next]_vars PROVE [Lifecycle!Next]_(Lifecycle!vars)
            OBVIOUS
        <2>0. TypeOK /\ CompletedAllTerminal
            BY DEF IInv, Safe
        <2>1. ASSUME NEW r \in Requests, Arrive(r) \/ Serve(r) \/ Abandon(r)
              PROVE  [Lifecycle!Next]_(Lifecycle!vars)
            BY <2>0, <2>1, HandlerWrites, StutterRefines, WriteRefines, StatusRefines
        <2>2. ASSUME NEW c \in Campaigns, NEW f \in Firmwares, NEW T \in SUBSET Devices,
                     NEW s \in BOOLEAN, CreateCampaign(c, f, T, s)
              PROVE  Lifecycle!Next
            BY <2>0, <2>2, CreateRefines DEF Lifecycle!Next
        <2>3. CASE Manage \/ (\E c \in Campaigns : StartTimePasses(c)) \/ Tick
            BY <2>2, <2>3, ManageWrites, StutterRefines, StatusRefines
        <2>4. CASE UNCHANGED vars
            BY <2>4, StutterRefines DEF vars
        <2> QED
            BY <2>1, <2>3, <2>4 DEF Next
    <1> QED
        BY <1>1, <1>2, Inductive, PTL DEF Spec, ImplementsLifecycle, Lifecycle!Spec

================================================================================
