---------------------------- MODULE CampaignRollout ----------------------------
(***************************************************************************)
(* The OTA rollout engine: internal/domain/campaign driven by concurrent   *)
(* HTTP handlers, device TCP sessions and the scheduler goroutine.         *)
(*                                                                         *)
(* The database rows are the variables status, firmware, asg, due and      *)
(* live.  Every SQL statement is one atomic step (PostgreSQL, READ         *)
(* COMMITTED); a handler that issues several statements outside a          *)
(* transaction is several actions, and what it remembers between two       *)
(* statements is its request record in req.                                *)
(***************************************************************************)
EXTENDS Naturals, FiniteSets

CONSTANTS
    Campaigns,      \* campaign ids; < is ORDER BY campaigns.created_at, campaigns.id
    Devices,        \* devices of the project
    Firmwares,      \* firmware rows; a row stands for its version string as well
    Requests,       \* slots for device requests being served at the same time
    Percents,       \* the rollout_percent values that requests ask for
    Interruptible,  \* the slots whose handler may die between two statements
    None            \* SQL NULL

ASSUME CampaignsAssumption == Campaigns \subseteq Nat
ASSUME DevicesFinite == IsFiniteSet(Devices)
ASSUME PercentsAssumption == Percents \subseteq 1..100
ASSUME InterruptibleAssumption == Interruptible \subseteq Requests
ASSUME NoneAssumption == None \notin Campaigns \cup Firmwares

VARIABLES
    status,         \* campaigns.status; "none" while there is no such row
    firmware,       \* campaigns.firmware_id
    due,            \* the campaigns whose scheduled_start_at has passed
    asg,            \* campaign_device_assignments.status; "none" without a row
    live,           \* the firmware rows with deleted_at IS NULL
    req,            \* the device requests in flight
    plucked,        \* ids read by the scheduler's transaction, {} between ticks
    missed          \* history: campaigns for which a completion check was cut short

campaignVars == <<status, firmware, due, asg, live>>
vars == <<status, firmware, due, asg, live, req, plucked, missed>>

--------------------------------------------------------------------------------

Statuses == {"draft", "scheduled", "active", "paused", "cancelled", "completed"}
AssignmentStatuses == {"pending", "offered", "downloaded", "installed", "failed"}
ReportStatuses == {"downloaded", "installed", "failed"}

TerminalAssignment(s) == s \in {"installed", "failed"}

\* The campaign state machine of state.go.
CanTransition(from, to) ==
    \/ from = to
    \/ from = "draft"     /\ to \in {"scheduled", "active", "cancelled"}
    \/ from = "scheduled" /\ to \in {"active", "cancelled"}
    \/ from = "active"    /\ to \in {"paused", "cancelled", "completed"}
    \/ from = "paused"    /\ to \in {"active", "cancelled"}

\* What a handler remembers: the statement it issues next, the campaign and the
\* device it works on, and its argument (reported version or report status).
Steps == {"idle", "offer", "report", "set", "check", "apply", "firmware",
          "get", "count", "mark"}
RequestRecords ==
    [step : Steps, camp : Campaigns \cup {None}, dev : Devices \cup {None},
     arg : Firmwares \cup ReportStatuses \cup {None}]

\* The steps that hold a campaign and a device, one of whose assignments exists.
BoundSteps == Steps \ {"idle", "report"}

\* The steps of a handler that is on its way to MarkCampaignCompleted.
CompletionSteps == {"firmware", "get", "count", "mark"}

Idle == [step |-> "idle", camp |-> None, dev |-> None, arg |-> None]

Goto(r, s) == req' = [req EXCEPT ![r].step = s]
Begin(r, s, c, d, a) ==
    /\ req[r].step = "idle"
    /\ req' = [req EXCEPT ![r] = [step |-> s, camp |-> c, dev |-> d, arg |-> a]]
Finish(r) == req' = [req EXCEPT ![r] = Idle]

Targets(c) == {d \in Devices : asg[c][d] # "none"}
AllTerminal(c) == \A d \in Targets(c) : TerminalAssignment(asg[c][d])

MutNonTerminalAssignments(c) == {d \in Devices : asg[c][d] \in {"pending", "offered"}}

\* The rows CountNonTerminalAssignments counts: status NOT IN (installed, failed).
NonTerminalAssignments(c) ==
    {d \in Targets(c) : asg[c][d] \notin {"installed", "failed"}}

\* ORDER BY created_at, id LIMIT 1
IsFirst(c, S) == c \in S /\ \A e \in S : c <= e

\* Rows of the three-way join of assignments, active campaigns, live firmware.
ActiveRows(d, wanted) ==
    {c \in Campaigns : /\ status[c] = "active"
                       /\ firmware[c] \in live
                       /\ asg[c][d] \in wanted}

Init ==
    /\ status = [c \in Campaigns |-> "none"]
    /\ firmware = [c \in Campaigns |-> None]
    /\ due = {}
    /\ asg = [c \in Campaigns |-> [d \in Devices |-> "none"]]
    /\ live = Firmwares
    /\ req = [r \in Requests |-> Idle]
    /\ plucked = {}
    /\ missed = {}

--------------------------------------------------------------------------------
(* Campaign management: authenticated users of the project                 *)

Clamp(x, low, high) == IF x < low THEN low ELSE IF x > high THEN high ELSE x

MutStableShare(n, percent) == (n * percent) \div 100

\* How many of n devices takeStablePercentage takes.
StableShare(n, percent) ==
    LET p == Clamp(percent, 1, 100)
    IN  IF n = 0 THEN 0 ELSE Clamp((n * p + 99) \div 100, 1, n)

\* What a campaign assigns of the compatible devices: all of them or, for a percentage
\* rollout, the first ones in the order of ids, which is any order here.
Assigned(compatible) ==
    {T \in SUBSET compatible :
        \/ T = compatible
        \/ \E p \in Percents : Cardinality(T) = StableShare(Cardinality(compatible), p)}

\* CreateCampaign commits its bundle (campaign, targets, pending assignments) in
\* one transaction.  GetFirmware ran in an earlier statement, so the firmware may
\* have been deleted since: f need not be in live.  Some device is compatible.
CreateCampaign(c, f, T, scheduled) ==
    /\ status[c] = "none"
    /\ \E compatible \in (SUBSET Devices) \ {{}} : T \in Assigned(compatible)
    /\ status' = [status EXCEPT ![c] = IF scheduled THEN "scheduled" ELSE "active"]
    /\ firmware' = [firmware EXCEPT ![c] = f]
    /\ asg' = [asg EXCEPT ![c] = [d \in Devices |-> IF d \in T THEN "pending" ELSE "none"]]
    /\ UNCHANGED <<due, live, req, plucked, missed>>

PauseCampaign(c) ==
    /\ status[c] = "active"
    /\ status' = [status EXCEPT ![c] = "paused"]
    /\ UNCHANGED <<firmware, due, asg, live, req, plucked, missed>>

ResumeCampaign(c) ==
    /\ status[c] = "paused"
    /\ status' = [status EXCEPT ![c] = "active"]
    /\ UNCHANGED <<firmware, due, asg, live, req, plucked, missed>>

\* The statuses of CancelCampaign's WHERE clause.
Cancellable == {"draft", "scheduled", "active", "paused"}

CancelCampaign(c) ==
    /\ status[c] \in Cancellable
    /\ status' = [status EXCEPT ![c] = "cancelled"]
    /\ UNCHANGED <<firmware, due, asg, live, req, plucked, missed>>

\* Soft delete of the firmware row; no campaign is consulted.
DeleteFirmware(f) ==
    /\ f \in live
    /\ live' = live \ {f}
    /\ UNCHANGED <<status, firmware, due, asg, req, plucked, missed>>

--------------------------------------------------------------------------------
(* The scheduler goroutine                                                 *)

\* The clock passes scheduled_start_at.
StartTimePasses(c) ==
    /\ status[c] = "scheduled"
    /\ c \notin due
    /\ due' = due \cup {c}
    /\ UNCHANGED <<status, firmware, asg, live, req, plucked, missed>>

MutDueIds == {c \in due : status[c] = "draft"}

DueIds == {c \in due : status[c] = "scheduled"}

\* First statement of the tick's transaction: read the due ids.  A tick that
\* finds none changes nothing.
ActivateDuePluck ==
    /\ plucked = {}
    /\ DueIds # {}
    /\ plucked' = DueIds
    /\ UNCHANGED <<campaignVars, req, missed>>

\* Second statement and commit: rows that left "scheduled" meanwhile are skipped.
ActivateDueUpdate ==
    /\ plucked # {}
    /\ status' = [c \in Campaigns |->
                    IF c \in plucked /\ status[c] = "scheduled" THEN "active" ELSE status[c]]
    /\ plucked' = {}
    /\ UNCHANGED <<firmware, due, asg, live, req, missed>>

\* The transaction fails and is rolled back; the next tick tries again.
ActivateDueRollback ==
    /\ plucked # {}
    /\ plucked' = {}
    /\ UNCHANGED <<campaignVars, req, missed>>

--------------------------------------------------------------------------------
(* tryAutoComplete: three statements at the end of every device request    *)

\* The check finds its campaign paused and gives up.
MissedIfPaused(c) == missed' = IF status[c] = "paused" THEN missed \cup {c} ELSE missed

AutoCompleteGet(r) ==
    LET c == req[r].camp IN
    /\ req[r].step = "get"
    /\ IF status[c] = "active" THEN Goto(r, "count") ELSE Finish(r)
    /\ MissedIfPaused(c)
    /\ UNCHANGED <<campaignVars, plucked>>

AutoCompleteCount(r) ==
    LET c == req[r].camp IN
    /\ req[r].step = "count"
    /\ IF NonTerminalAssignments(c) = {} /\ Targets(c) # {} THEN Goto(r, "mark") ELSE Finish(r)
    /\ UNCHANGED <<campaignVars, plucked, missed>>

MutMarkCampaignCompleted(r) ==
    /\ req[r].step = "mark"
    /\ status' = [status EXCEPT ![req[r].camp] = "completed"]
    /\ Finish(r)
    /\ UNCHANGED <<firmware, due, asg, live, plucked, missed>>

\* UPDATE ... WHERE status = 'active'
MarkCampaignCompleted(r) ==
    LET c == req[r].camp IN
    /\ req[r].step = "mark"
    /\ status' = [status EXCEPT ![c] = IF @ = "active" THEN "completed" ELSE @]
    /\ Finish(r)
    /\ MissedIfPaused(c)
    /\ UNCHANGED <<firmware, due, asg, live, plucked>>

--------------------------------------------------------------------------------
(* Poll (HTTP and TCP): BuildPollOffer                                     *)

MutOfferRows(d) == ActiveRows(d, {"pending", "offered"})

\* ORDER BY CASE WHEN a.status = 'pending' THEN 0 ELSE 1 END, before the age.
OfferRows(d) ==
    LET pending == ActiveRows(d, {"pending"})
    IN  IF pending # {} THEN pending ELSE ActiveRows(d, {"offered"})

\* FindActivePendingOffer.  Without a row the poll answers "no update" and no
\* state changes, so only a poll that finds a row occupies a slot.
PollFind(r, d) ==
    /\ \E c \in Campaigns :
         /\ IsFirst(c, OfferRows(d))
         /\ Begin(r, IF asg[c][d] = "pending" THEN "offer" ELSE "get", c, d, None)
    /\ UNCHANGED <<campaignVars, plucked, missed>>

\* UpdateAssignmentStatus pending -> offered; no row updated is an error reply.
PollOffer(r) ==
    LET c == req[r].camp
        d == req[r].dev
    IN
    /\ req[r].step = "offer"
    /\ \/ /\ asg[c][d] = "pending"
          /\ asg' = [asg EXCEPT ![c][d] = "offered"]
          /\ Goto(r, "get")
       \/ /\ asg[c][d] # "pending"
          /\ Finish(r)
          /\ UNCHANGED asg
    /\ UNCHANGED <<status, firmware, due, live, plucked, missed>>

--------------------------------------------------------------------------------
(* HTTP report: DeviceReport, then OnDeviceReportFirmware                  *)

\* The device row has been updated; v is the reported version.
HttpReport(r, d, v) ==
    /\ Begin(r, "report", None, d, v)
    /\ UNCHANGED <<campaignVars, plucked, missed>>

\* The oldest active campaign that offered something decides: on a version
\* mismatch, or without a row, the report ends here.
HttpReportFind(r) ==
    LET rows == ActiveRows(req[r].dev, {"offered", "downloaded"}) IN
    /\ req[r].step = "report"
    /\ \/ \E c \in rows :
            /\ IsFirst(c, rows)
            /\ firmware[c] = req[r].arg
            /\ req' = [req EXCEPT ![r].step = "set", ![r].camp = c]
       \/ /\ ~\E c \in rows : IsFirst(c, rows) /\ firmware[c] = req[r].arg
          /\ Finish(r)
    /\ UNCHANGED <<campaignVars, plucked, missed>>

MutHttpReportSet(r) ==
    /\ req[r].step = "set"
    /\ asg' = [asg EXCEPT ![req[r].camp][req[r].dev] = "installed"]
    /\ Finish(r)
    /\ UNCHANGED <<status, firmware, due, live, plucked, missed>>

\* SetAssignmentStatus has no condition on the current status.
HttpReportSet(r) ==
    /\ req[r].step = "set"
    /\ asg' = [asg EXCEPT ![req[r].camp][req[r].dev] = "installed"]
    /\ Goto(r, "get")
    /\ UNCHANGED <<status, firmware, due, live, plucked, missed>>

\* The UPDATE fails: its error is dropped and the completion check runs all the same.
HttpReportSetFails(r) ==
    /\ r \in Interruptible
    /\ req[r].step = "set"
    /\ Goto(r, "get")
    /\ UNCHANGED <<campaignVars, plucked, missed>>

--------------------------------------------------------------------------------
(* TCP report: ApplyOtaDeviceReport                                        *)

MutAppliesFrom(st) ==
    IF st = "failed" THEN AssignmentStatuses ELSE {"offered", "downloaded", "installed"}

\* The statuses from which each report is applied (ApplyOta*).
AppliesFrom(st) ==
    CASE st = "downloaded" -> {"offered", "downloaded"}
      [] st = "installed"  -> {"offered", "downloaded", "installed"}
      [] st = "failed"     -> {"pending", "offered", "downloaded", "failed"}

\* GetDeviceAssignment: the report names its campaign, which must target the device.
TcpReport(r, d, c, st) ==
    /\ asg[c][d] # "none"
    /\ Begin(r, "check", c, d, st)
    /\ UNCHANGED <<campaignVars, plucked, missed>>

MutTcpReportCheck(r) ==
    /\ req[r].step = "check"
    /\ Goto(r, "apply")
    /\ UNCHANGED <<campaignVars, plucked, missed>>

\* isCampaignActiveInProject, a statement of its own.
TcpReportCheck(r) ==
    /\ req[r].step = "check"
    /\ Goto(r, IF status[req[r].camp] = "active" THEN "apply" ELSE "get")
    /\ UNCHANGED <<campaignVars, plucked, missed>>

\* The conditional UPDATE; an applied install looks the firmware up next.
TcpReportApply(r) ==
    LET c  == req[r].camp
        d  == req[r].dev
        st == req[r].arg
    IN
    /\ req[r].step = "apply"
    /\ \/ /\ asg[c][d] \in AppliesFrom(st)
          /\ asg' = [asg EXCEPT ![c][d] = st]
          /\ Goto(r, IF st = "installed" THEN "firmware" ELSE "get")
       \/ /\ asg[c][d] \notin AppliesFrom(st)
          /\ Goto(r, "get")
          /\ UNCHANGED asg
    /\ UNCHANGED <<status, firmware, due, live, plucked, missed>>

\* GetFirmware for the device row's version.  A deleted firmware is an error
\* that returns before tryAutoComplete.
TcpReportFirmware(r) ==
    LET c == req[r].camp IN
    /\ req[r].step = "firmware"
    /\ \/ firmware[c] \in live /\ Goto(r, "get") /\ UNCHANGED missed
       \/ firmware[c] \notin live /\ Finish(r) /\ missed' = missed \cup {c}
    /\ UNCHANGED <<campaignVars, plucked>>

--------------------------------------------------------------------------------

\* The handler stops between two statements: the client closes the connection
\* and cancels the request context, a statement fails, or the server restarts.
Abandon(r) ==
    /\ r \in Interruptible
    /\ req[r].step # "idle"
    /\ Finish(r)
    /\ missed' = IF req[r].step \in CompletionSteps THEN missed \cup {req[r].camp} ELSE missed
    /\ UNCHANGED <<campaignVars, plucked>>

Manage ==
    \/ \E c \in Campaigns, f \in Firmwares, T \in SUBSET Devices, s \in BOOLEAN :
         CreateCampaign(c, f, T, s)
    \/ \E c \in Campaigns : PauseCampaign(c) \/ ResumeCampaign(c) \/ CancelCampaign(c)
    \/ \E f \in Firmwares : DeleteFirmware(f)

Tick == ActivateDuePluck \/ ActivateDueUpdate \/ ActivateDueRollback

Arrive(r) ==
    \/ \E d \in Devices : PollFind(r, d)
    \/ \E d \in Devices, v \in Firmwares : HttpReport(r, d, v)
    \/ \E d \in Devices, c \in Campaigns, st \in ReportStatuses : TcpReport(r, d, c, st)

\* The next statement of the handler in slot r.
Serve(r) ==
    \/ PollOffer(r)
    \/ HttpReportFind(r) \/ HttpReportSet(r) \/ HttpReportSetFails(r)
    \/ TcpReportCheck(r) \/ TcpReportApply(r) \/ TcpReportFirmware(r)
    \/ AutoCompleteGet(r) \/ AutoCompleteCount(r) \/ MarkCampaignCompleted(r)

Next ==
    \/ Manage
    \/ \E c \in Campaigns : StartTimePasses(c)
    \/ Tick
    \/ \E r \in Requests : Arrive(r) \/ Serve(r) \/ Abandon(r)

Spec == Init /\ [][Next]_vars

\* Go runs every handler and the ticker; ticks do not fail for ever.  Users and
\* devices owe nothing.
Fairness ==
    /\ \A r \in Requests : WF_vars(Serve(r))
    /\ WF_vars(ActivateDuePluck)
    /\ SF_vars(ActivateDueUpdate)

FairSpec == Spec /\ Fairness

\* The same with devices that keep polling, which is what devices do.
PollingSpec ==
    FairSpec /\ \A d \in Devices : SF_vars(\E r \in Requests : PollFind(r, d))

--------------------------------------------------------------------------------
(* Properties                                                              *)

\* A campaign row has its firmware and at least one assignment from its creation
\* on (CreateCampaignBundle).
RowOK(c) ==
    /\ status[c] = "none" <=> \A d \in Devices : asg[c][d] = "none"
    /\ status[c] # "none" => firmware[c] \in Firmwares

\* A handler that works on an assignment works on one that exists.
RequestOK(r) ==
    /\ req[r].step = "idle" => req[r] = Idle
    /\ req[r].step # "idle" => req[r].dev \in Devices
    /\ req[r].step = "report" => req[r].arg \in Firmwares
    /\ req[r].step \in {"check", "apply"} => req[r].arg \in ReportStatuses
    /\ req[r].step \in BoundSteps =>
         req[r].camp \in Campaigns /\ asg[req[r].camp][req[r].dev] # "none"

\* Type invariant: the columns, whole campaign rows, and handlers bound to
\* existing assignments.
TypeOK ==
    /\ status \in [Campaigns -> Statuses \cup {"none"}]
    /\ firmware \in [Campaigns -> Firmwares \cup {None}]
    /\ due \subseteq Campaigns
    /\ asg \in [Campaigns -> [Devices -> AssignmentStatuses \cup {"none"}]]
    /\ live \subseteq Firmwares
    /\ req \in [Requests -> RequestRecords]
    /\ plucked \subseteq Campaigns
    /\ missed \subseteq Campaigns
    /\ \A c \in Campaigns : RowOK(c)
    /\ \A r \in Requests : RequestOK(r)

\* A completed campaign has no assignment that is not installed or failed, for ever
\* after: tryAutoComplete counts in one statement and marks in another, and late
\* polls, reports and report retries of other handlers run in between.
CompletedAllTerminal ==
    \A c \in Campaigns : status[c] = "completed" => AllTerminal(c)

\* Nothing happens to an assignment before its campaign is activated, although
\* TCP reports may name any campaign and check its status in a statement of
\* their own: a scheduled campaign has only pending assignments.
PristineUntilActive ==
    \A c \in Campaigns : status[c] = "scheduled" =>
        \A d \in Devices : asg[c][d] \in {"none", "pending"}

\* The last report completes the campaign even when the last reports of several
\* devices run side by side: while all assignments of a started campaign are
\* terminal, some handler is still on its way to MarkCampaignCompleted, unless a
\* completion check was cut short by a pause, by the deletion of the firmware
\* under an install report, or because its handler was abandoned.
NoLostCompletion ==
    \A c \in Campaigns :
        status[c] \in {"active", "paused"} /\ AllTerminal(c) /\ c \notin missed =>
            \E r \in Requests : req[r].camp = c /\ req[r].step \in CompletionSteps

Rank(s) ==
    CASE s = "none" -> 0 [] s = "pending" -> 1 [] s = "offered" -> 2
      [] s = "downloaded" -> 3 [] s = "failed" -> 4 [] s = "installed" -> 5

\* Rollout progress of a device never goes back, whatever the order in which
\* stale polls, HTTP reports and TCP reports are applied; in particular an
\* install is never undone ("terminal install should not regress to failed",
\* campaign/service/ota_report_test.go).
ProgressMonotone ==
    [][\A c \in Campaigns, d \in Devices : Rank(asg[c][d]) <= Rank(asg'[c][d])]_asg

\* No handler ever consults CanTransition: the WHERE clauses of the separate
\* UPDATEs alone must keep to its table, so that completed and cancelled
\* campaigns stay as they are.
StatusFollowsCanTransition ==
    [][\A c \in Campaigns :
         status[c] # "none" => CanTransition(status[c], status'[c])]_status

Lifecycle == INSTANCE CampaignLifecycle WITH
    open      <- [c \in Campaigns |-> {d \in Devices : asg[c][d] \in {"pending", "offered", "downloaded"}}],
    failed    <- [c \in Campaigns |-> {d \in Devices : asg[c][d] = "failed"}],
    installed <- [c \in Campaigns |-> {d \in Devices : asg[c][d] = "installed"}]

\* The interleaved handlers implement CampaignLifecycle: among other things a
\* campaign completes only when no device is open, outcomes are recorded only
\* after the campaign was started, and only a failure is ever revised.
ImplementsLifecycle == Lifecycle!Spec

\* A scheduled campaign whose start time has passed leaves "scheduled" (the
\* scheduler's tick, or a user's cancel).
DueIsActivated ==
    \A c \in Campaigns : (c \in due /\ status[c] = "scheduled") ~> status[c] # "scheduled"

\* A campaign whose assignments are all terminal is completed (or cancelled or
\* paused before that), unless a completion check was cut short.
UndisturbedCompletes ==
    \A c \in Campaigns :
        (status[c] = "active" /\ AllTerminal(c)) ~> (status[c] # "active" \/ c \in missed)

\* An older campaign a device never finishes cannot keep newer campaigns from it:
\* a pending assignment of an active campaign with a live firmware is offered as
\* long as the device polls.
PendingIsOffered ==
    \A c \in Campaigns, d \in Devices :
        (c \in ActiveRows(d, {"pending"})) ~> (c \notin ActiveRows(d, {"pending"}))

\* docs/api.md on reports: "the campaign completes when all assignments are
\* terminal".  Stated without any excuse.
CompletesWhenAllTerminal ==
    \A c \in Campaigns : (status[c] = "active" /\ AllTerminal(c)) ~> status[c] # "active"

\* docs/api.md on reports: a report whose version matches an offered or downloaded
\* assignment of an active campaign marks that assignment installed.
ReportCreditsMatchingCampaign ==
    [][\A r \in Requests :
         HttpReportFind(r) /\ (\E c \in ActiveRows(req[r].dev, {"offered", "downloaded"}) :
                                  firmware[c] = req[r].arg)
            => req'[r].step = "set"]_req

================================================================================
