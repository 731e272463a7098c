----------------------------- MODULE DeviceRegistry -----------------------------
(***************************************************************************)
(* The devices of one project, their tokens, and the project's archival    *)
(* and deletion: internal/domain/device and the project operations of      *)
(* internal/domain/rbac that gate devices or are gated by campaigns.       *)
(* Blocking and the serving of devices are in DeviceChannels.              *)
(*                                                                         *)
(* The statements of a handler are steps of their own.  A transaction has  *)
(* the step in which its statements read (each sees what was committed     *)
(* then) and the step that commits what it writes.                         *)
(***************************************************************************)
EXTENDS Naturals

CONSTANTS
    Devices,    \* hardware identifiers: ux_project_device_hw allows one row for each
    Tokens,     \* ids of device_auth_tokens rows
    Campaigns,  \* ids of campaigns
    Requests,   \* slots for requests being served at the same time
    None        \* no value

ASSUME RegistryNone == None \notin Devices \cup Tokens \cup Campaigns

VARIABLES
    project,    \* "active", "archived" or "deleted" (soft)
    registered, \* devices with a row
    disabled,   \* devices with polling_disabled_at set
    revoked,    \* devices with token_revoked_at set
    token,      \* tokens: "free" (no row), "live" or "revoked"
    owner,      \* the device_id of a token
    active,     \* active_auth_token_id of a device
    campaign,   \* campaigns: "none", "open" (not in a terminal status) or "closed"
    req,        \* the requests in flight
    late,       \* history: devices inserted after the archival they missed
    missed,     \* history: devices inserted during or after a deletion
    spare,      \* history: tokens inserted while another rotation was under way
    stray,      \* history: campaigns inserted during or after a deletion
    torn        \* history: an archival failed halfway, or two of them overlapped

deviceRows == <<registered, disabled, revoked>>
tokenRows == <<token, owner, active>>
history == <<late, missed, spare, stray, torn>>
vars == <<project, deviceRows, tokenRows, campaign, req, history>>

Archivals == {"archive", "unarchive"}
Ops == {"register", "rotate", "delete", "campaign"} \cup Archivals
Steps == {"idle", "write", "project", "polling", "revoke", "commit"}

\* seen: the rows that an UPDATE of a transaction found.  alone: no other archival
\* has been in flight since this one began.
RequestRecords ==
    [op : Ops \cup {"none"}, step : Steps, subject : Devices \cup Campaigns \cup {None},
     seen : SUBSET (Devices \cup Tokens), alone : BOOLEAN]

Idle == [op |-> "none", step |-> "idle", subject |-> None, seen |-> {}, alone |-> FALSE]

MoveTo(r, o, st, x, seen) ==
    req' = [req EXCEPT ![r] = [op |-> o, step |-> st, subject |-> x, seen |-> seen, alone |-> FALSE]]
Open(r, o, st, x, seen) == req[r].step = "idle" /\ MoveTo(r, o, st, x, seen)
Finish(r) == req' = [req EXCEPT ![r] = Idle]
At(r, o, st) == req[r].op = o /\ req[r].step = st

Init ==
    /\ project = "active"
    /\ registered = {} /\ disabled = {} /\ revoked = {}
    /\ token = [t \in Tokens |-> "free"]
    /\ owner = [t \in Tokens |-> None]
    /\ active = [d \in Devices |-> None]
    /\ campaign = [c \in Campaigns |-> "none"]
    /\ req = [r \in Requests |-> Idle]
    /\ late = {} /\ missed = {} /\ spare = {} /\ stray = {} /\ torn = FALSE

LiveTokens(d) == {t \in Tokens : token[t] = "live" /\ owner[t] = d}

\* ensureProjectNotArchived; a deleted project is not found.
ensureProjectNotArchived == project = "active"

\* A deletion that has read and not yet committed.
Deleting == \E r \in Requests : At(r, "delete", "commit")

--------------------------------------------------------------------------------
(* Registration and token rotation                                         *)

\* The checks: project, device type, and no device with the hardware identifier.
RegisterDevice(r, d) ==
    /\ ensureProjectNotArchived /\ d \notin registered
    /\ Open(r, "register", "write", d, {})
    /\ UNCHANGED <<project, deviceRows, tokenRows, campaign, history>>

\* One transaction; the unique index refuses a hardware identifier that was
\* registered since the check.
CreateDeviceAndAuthTokenTx(r) ==
    LET d == req[r].subject IN
    /\ At(r, "register", "write")
    /\ \/ /\ d \in registered
          /\ UNCHANGED <<deviceRows, tokenRows, late, missed>>
       \/ /\ d \notin registered
          /\ registered' = registered \cup {d}
          /\ \E t \in Tokens :
               /\ token[t] = "free"
               /\ token' = [token EXCEPT ![t] = "live"]
               /\ owner' = [owner EXCEPT ![t] = d]
               /\ active' = [active EXCEPT ![d] = t]
          /\ late' = IF project = "active" THEN late ELSE late \cup {d}
          /\ missed' = IF project = "deleted" \/ Deleting THEN missed \cup {d} ELSE missed
          /\ UNCHANGED <<disabled, revoked>>
    /\ Finish(r)
    /\ UNCHANGED <<project, campaign, spare, stray, torn>>

MutRotateDeviceToken(r, d) ==
    /\ ensureProjectNotArchived
    /\ Open(r, "rotate", "revoke", d, {})
    /\ UNCHANGED <<project, deviceRows, tokenRows, campaign, history>>

\* The checks: project and device.
RotateDeviceToken(r, d) ==
    /\ ensureProjectNotArchived /\ d \in registered
    /\ Open(r, "rotate", "revoke", d, {})
    /\ UNCHANGED <<project, deviceRows, tokenRows, campaign, history>>

MutRevokeActiveTokens(r) ==
    /\ At(r, "rotate", "revoke")
    /\ MoveTo(r, "rotate", "commit", req[r].subject,
              LiveTokens(req[r].subject) \ {active[req[r].subject]})
    /\ UNCHANGED <<project, deviceRows, tokenRows, campaign, history>>

\* The UPDATE of RotateDeviceAuthTokenTx: the unrevoked tokens when it starts.
RevokeActiveTokens(r) ==
    /\ At(r, "rotate", "revoke")
    /\ MoveTo(r, "rotate", "commit", req[r].subject, LiveTokens(req[r].subject))
    /\ UNCHANGED <<project, deviceRows, tokenRows, campaign, history>>

\* Another rotation of the device has read its tokens and not yet committed.
Rotating(r, d) == \E p \in Requests \ {r} : At(p, "rotate", "commit") /\ req[p].subject = d

CommitRotation(r) ==
    LET d == req[r].subject IN
    /\ At(r, "rotate", "commit")
    /\ \E n \in Tokens :
         /\ token[n] = "free"
         /\ token' = [t \in Tokens |-> IF t = n THEN "live"
                                       ELSE IF t \in req[r].seen THEN "revoked" ELSE token[t]]
         /\ owner' = [owner EXCEPT ![n] = d]
         /\ active' = [active EXCEPT ![d] = n]
         /\ spare' = IF Rotating(r, d) THEN spare \cup {n} ELSE spare
    /\ Finish(r)
    /\ UNCHANGED <<project, deviceRows, campaign, late, missed, stray, torn>>

--------------------------------------------------------------------------------
(* Archival: two statements, no transaction                                *)

OtherArchivals(r) == {p \in Requests \ {r} : req[p].op \in Archivals}

\* GetProject, and nothing to do when the project already is as asked.
ArchiveProject(r, o) ==
    /\ project = (IF o = "archive" THEN "active" ELSE "archived")
    /\ req[r].step = "idle"
    /\ req' = [p \in Requests |->
                 IF p = r THEN [op |-> o, step |-> "project", subject |-> None, seen |-> {},
                                alone |-> OtherArchivals(r) = {}]
                 ELSE [req[p] EXCEPT !.alone = FALSE]]
    /\ UNCHANGED <<project, deviceRows, tokenRows, campaign, history>>

\* An UPDATE that does not see a soft-deleted project.
SetProjectArchived(r) ==
    /\ req[r].op \in Archivals /\ req[r].step = "project"
    /\ project' = IF project = "deleted" THEN "deleted"
                  ELSE IF req[r].op = "archive" THEN "archived" ELSE "active"
    /\ req' = [req EXCEPT ![r].step = "polling"]
    /\ torn' = (torn \/ ~req[r].alone)
    /\ UNCHANGED <<deviceRows, tokenRows, campaign, late, missed, spare, stray>>

MutSetDevicesPollingForArchive(r) ==
    /\ req[r].op \in Archivals /\ req[r].step = "polling"
    /\ disabled' = IF req[r].op = "archive" THEN registered ELSE disabled
    /\ late' = {}
    /\ torn' = (torn /\ ~req[r].alone)
    /\ Finish(r)
    /\ UNCHANGED <<project, registered, revoked, tokenRows, campaign, missed, spare, stray>>

\* Every device of the project, whatever state the project is in by now.
SetDevicesPollingForArchive(r) ==
    /\ req[r].op \in Archivals /\ req[r].step = "polling"
    /\ disabled' = IF req[r].op = "archive" THEN registered ELSE {}
    /\ late' = {}
    /\ torn' = (torn /\ ~req[r].alone)
    /\ Finish(r)
    /\ UNCHANGED <<project, registered, revoked, tokenRows, campaign, missed, spare, stray>>

\* The second statement fails: the caller gets the error, the project stays as the
\* first one left it.
PollingUpdateFails(r) ==
    /\ req[r].op \in Archivals /\ req[r].step = "polling"
    /\ torn' = TRUE
    /\ Finish(r)
    /\ UNCHANGED <<project, deviceRows, tokenRows, campaign, late, missed, spare, stray>>

--------------------------------------------------------------------------------
(* Deletion, and the campaigns that stand in its way                       *)

\* Counted by countBlockingCampaignsTx.
Blocking(c) == campaign[c] = "open"

MutDeleteProject(r) ==
    /\ Open(r, "delete", "commit", None, registered)
    /\ UNCHANGED <<project, deviceRows, tokenRows, campaign, history>>

\* The reads of DeleteProjectSoft.  Memberships outlive the project, so an owner
\* may delete it again.
DeleteProject(r) ==
    /\ ~ \E c \in Campaigns : Blocking(c)
    /\ Open(r, "delete", "commit", None, registered)
    /\ UNCHANGED <<project, deviceRows, tokenRows, campaign, history>>

\* RevokeDevicesAndDisablePolling and the soft delete.
DeleteProjectSoft(r) ==
    /\ At(r, "delete", "commit")
    /\ project' = "deleted"
    /\ revoked' = revoked \cup req[r].seen
    /\ disabled' = disabled \cup req[r].seen
    /\ Finish(r)
    /\ UNCHANGED <<registered, tokenRows, campaign, history>>

\* The check, long before the insert: scope, firmware and devices are read between.
CreateCampaign(r, c) ==
    /\ ensureProjectNotArchived /\ campaign[c] = "none"
    /\ Open(r, "campaign", "write", c, {})
    /\ UNCHANGED <<project, deviceRows, tokenRows, campaign, history>>

CreateCampaignBundle(r) ==
    LET c == req[r].subject IN
    /\ At(r, "campaign", "write")
    /\ IF campaign[c] = "none"
       THEN /\ campaign' = [campaign EXCEPT ![c] = "open"]
            /\ stray' = IF project = "deleted" \/ Deleting THEN stray \cup {c} ELSE stray
       ELSE UNCHANGED <<campaign, stray>>
    /\ Finish(r)
    /\ UNCHANGED <<project, deviceRows, tokenRows, late, missed, spare, torn>>

\* A campaign is cancelled, or completed by the last report (see CampaignRollout).
CloseCampaign(c) ==
    /\ Blocking(c) /\ campaign' = [campaign EXCEPT ![c] = "closed"]
    /\ UNCHANGED <<project, deviceRows, tokenRows, req, history>>

--------------------------------------------------------------------------------

DeviceRequest(r) ==
    \/ \E d \in Devices : RegisterDevice(r, d) \/ RotateDeviceToken(r, d)
    \/ CreateDeviceAndAuthTokenTx(r) \/ RevokeActiveTokens(r) \/ CommitRotation(r)

ProjectRequest(r) ==
    \/ \E o \in Archivals : ArchiveProject(r, o)
    \/ SetProjectArchived(r) \/ SetDevicesPollingForArchive(r) \/ PollingUpdateFails(r)
    \/ DeleteProject(r) \/ DeleteProjectSoft(r)

CampaignRequest(r) == (\E c \in Campaigns : CreateCampaign(r, c)) \/ CreateCampaignBundle(r)

Next ==
    \/ \E r \in Requests : DeviceRequest(r) \/ ProjectRequest(r) \/ CampaignRequest(r)
    \/ \E c \in Campaigns : CloseCampaign(c)

Spec == Init /\ [][Next]_vars

--------------------------------------------------------------------------------
(* Properties                                                              *)

RequestOK(r) ==
    LET q == req[r] IN
    /\ q.step = "idle" <=> q.op = "none"
    /\ q.op \in {"register", "campaign"} => q.step = "write"
    /\ q.op \in Archivals <=> q.step \in {"project", "polling"}
    /\ q.op = "rotate" => q.step \in {"revoke", "commit"} /\ q.subject \in registered
    /\ q.op = "delete" => q.step = "commit" /\ q.seen \subseteq registered
    /\ q.op = "register" => q.subject \in Devices
    /\ q.op = "campaign" => q.subject \in Campaigns
    /\ At(r, "rotate", "commit") =>
           q.seen \subseteq {t \in Tokens : token[t] # "free" /\ owner[t] = q.subject}

\* Type invariant; only devices with a row are gated or have tokens.
TypeOK ==
    /\ project \in {"active", "archived", "deleted"}
    /\ registered \subseteq Devices /\ disabled \subseteq registered /\ revoked \subseteq registered
    /\ token \in [Tokens -> {"free", "live", "revoked"}]
    /\ owner \in [Tokens -> Devices \cup {None}]
    /\ active \in [Devices -> Tokens \cup {None}]
    /\ campaign \in [Campaigns -> {"none", "open", "closed"}]
    /\ req \in [Requests -> RequestRecords]
    /\ late \subseteq registered /\ missed \subseteq registered
    /\ spare \subseteq Tokens /\ stray \subseteq Campaigns /\ torn \in BOOLEAN
    /\ \A t \in Tokens : token[t] # "free" => owner[t] \in registered
    /\ \A r \in Requests : RequestOK(r)

\* A rotation replaces the device's token: the token a device row names is live and
\* its own, and the device has no other live token but those inserted while another
\* rotation of it was under way.
RotationReplaces ==
    \A d \in registered :
        /\ active[d] \in LiveTokens(d)
        /\ LiveTokens(d) \ spare \subseteq {active[d]}

\* When no archival is between its two statements, none failed there and no two of
\* them overlapped, the devices that may poll are those of an active project: an
\* archived one has only the devices registered behind the archival's back, and an
\* unarchived one has no device left disabled.
PollingFollowsArchive ==
    ~torn /\ (\A r \in Requests : req[r].step # "polling") =>
        /\ project = "archived" => registered \ late \subseteq disabled
        /\ project = "active" => disabled = {}

\* A deleted project is sealed: its devices' tokens are revoked and no campaign of it
\* is open, but for what was inserted during or after the deletion, whatever
\* archival, rotation or second deletion was in flight.
DeletedIsSealed ==
    project = "deleted" =>
        /\ registered \ missed \subseteq revoked
        /\ {c \in Campaigns : Blocking(c)} \subseteq stray

================================================================================
