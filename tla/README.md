# firmflow: TLA+ models, model checking and proofs

firmflow is an over-the-air firmware server in Go: users upload firmware and
start campaigns, devices poll for offers over HTTP or a binary TCP protocol,
download the binary and report what became of it. State lives in PostgreSQL and
in an object store; the server is a set of concurrent handlers and one scheduler
goroutine around them. There is no in-memory state worth the name and almost no
locking: what keeps the system correct is the shape of single SQL statements,
the order in which handlers issue them, and a few unique indexes. This project
models exactly that.

## Inventory

| Component | State | Operations | Hard behaviour | Correct when |
|---|---|---|---|---|
| Campaign rollout (`domain/campaign`) | `campaigns.status`, assignments per device, start time | create, pause, resume, cancel, scheduler tick, poll, HTTP report, TCP report, completion check | several statements per handler, none in a common transaction; reports late, repeated, out of order; handler dies in between | progress never goes back; completion exactly when everything is terminal; statuses follow `CanTransition` |
| Campaign targeting (`selection.go`, `campaign_scope.go`) | none (pure) | stable percentage of the compatible devices | rounding at the edges | the least number that reaches the percentage, never nobody |
| Firmware artifacts (`domain/firmware`) | row and blob per firmware | upload, delete, user download | row and blob are written apart; check and insert are apart | a live row has its blob; live versions are unique; no unexplained leak |
| Object store (`platform/storage`) | files | Put, Open, Delete | failure of each | Put leaves all or nothing |
| OTA download tokens (`ota_download*.go`) | token rows | issue, consume, open | two requests with one token; delete between consumption and open | at most one stream per token |
| Device registry (`domain/device`) | device rows, auth tokens, activity | register, block, rotate, revoke, poll/report touch | rotations that overlap; a gate that closes after it was read | a device has one usable token; an archived or deleted project has no usable device |
| Device groups and bulk (`device_groups_bulk.go`) | groups, memberships | group changes, bulk block/rotate/assign | a set that changes under the loop, one device of many failing | the result says what was done |
| Device TCP protocol (`transport/devotcp`) | a session per connection | auth frame, poll, report, shutdown | authentication once per connection; reads of up to 90 s under a shutdown | a block reaches open sessions; a report has both its effects; the shutdown ends |
| Projects and membership (`domain/rbac`) | projects, memberships, roles | create, archive, delete, invite, change role, remove, transfer | counts and updates in separate statements | at least one owner; archived projects are quiet |
| User authentication (`domain/auth`) | users, sessions, one-time tokens, throttle, 2FA | register, login, refresh, reset, change, 2FA | rotation and reset racing; throttle window | a revoked session is never refreshed; tokens work once |
| Handlers, middleware, wiring | none | parse, authorize, call, reply | - | - |

Interactions: the device handlers (HTTP `DevicePoll`, `DeviceReport`; TCP
`handlePoll`, `handleReport`) call the campaign service; the TCP poll then asks
the firmware service for a download token, which the download endpoint consumes;
deleting a firmware is not coordinated with the campaigns that use it; archiving
and deleting a project reach into devices and campaigns. All interaction between
handlers goes through the database and the object store.

## How the code becomes a model

* One SQL statement is one atomic step (PostgreSQL, READ COMMITTED, which
  `database/postgres.go` leaves at its default). A transaction of several
  statements is several steps too when its statements can see other commits in
  between and its writes are at its end (the scheduler's tick, the consumption of
  a token); a transaction that only inserts (`CreateCampaignBundle`,
  `CreateFirmwareWithTypes`) is one step.
* A handler is a record in `req`: the statement it issues next and what it
  remembers from earlier ones. `Arrive` starts one, `Serve` issues its next
  statement. A handler that ends without having changed anything (no offer, an
  unknown token, a refused request) need not occupy a slot.
* `Abandon` ends a handler between two statements: the client hangs up and
  cancels the request context, a statement fails, or the server restarts. It is
  allowed for the slots in `Interruptible`. Restart needs nothing else, because no
  state is kept outside the database and the store.
* Authorization (except in ProjectMembership), validation of request bodies, audit log rows, timestamps and
  report texts are left out: no modelled decision reads them.

### CampaignRollout

`status`, `firmware` and `asg` are the columns of `campaigns` and
`campaign_device_assignments`; `due` says whether `scheduled_start_at` has
passed; `live` are the firmware rows without `deleted_at`; `plucked` is what the
scheduler's transaction has read. `missed` is a history variable: the campaigns
for which a completion check was cut short. Management actions are one statement
each. A new campaign assigns all compatible devices or, for a percentage rollout,
as many of them as `takeStablePercentage` takes (`StableShare`, with the
percentages of the constant `Percents`); that somebody is assigned is a
consequence of that arithmetic and not a guard. The scope queries may yield any
non-empty set of compatible devices, and ids have any order. A poll is `PollFind` then `PollOffer`; an HTTP report is `HttpReport`,
`HttpReportFind`, `HttpReportSet`; a TCP report is `TcpReport`, `TcpReportCheck`,
`TcpReportApply`, `TcpReportFirmware`; all of them end in the three statements of
`tryAutoComplete`: `AutoCompleteGet`, `AutoCompleteCount`,
`MarkCampaignCompleted`. A firmware row stands for its version string; that is
sound because live rows have distinct versions (`LiveVersionsUnique` below).

`CampaignLifecycle` is the promise without statements and handlers: a status and
the open, failed and installed devices of each campaign. `ImplementsLifecycle`
states that CampaignRollout implements it.

### FirmwareDelivery

`row`, `version` and `blob` are the two halves of each firmware; `token`,
`expired` and `blocked` are what a download reads; `opens` counts the streams a
token has opened and `leaked` records the blobs given up by a dead handler or a
failed removal (both history). Upload is `UploadCheck`, `UploadPut`,
`UploadCreate`, `UploadCleanup`; delete is `DeleteFind`, `DeleteRow`,
`DeleteBlob`; a TCP poll issues a token with `IssueFind`, `IssueInsert`; a download
is `DownloadRead`, `DownloadDevice`, `DownloadConsume`, `DownloadFirmware`,
`DownloadOpen`. The object store stands for what `LocalObjectStore` does: a
rename makes Put atomic, Delete of a missing object is no error.

### ProjectMembership

The members and custom roles of one project. `memberRole` is
`project_memberships.role_id`, `roleRow` and `grants` the custom `roles` and their
permissions. Each service operation authorizes its actor when it arrives and then
issues its reads (`ReadRole`, `ReadActor`, `ReadTarget`, `CountOwners`,
`CountMembersWithRole`, `TransferRead`) and one `Write...`. `clashed` is a history
variable: "owner" once a member was changed while another handler had finished
its reads and was about to change a member too, "role" once an assignment and a
deletion of the same custom role overlapped. It says exactly which overlaps the
code is exposed to; everything else may interleave freely. Permission keys are
grouped (member.*, role.*), which allows custom roles more than the real keys
would; the archived check, which only refuses, and role names are left out. A
handler that fails or dies writes nothing and is one that takes no further step.

### AuthSessions

One user: `account`, `password` (how often it was set), `vtoken` and `rtoken` (the
mailed tokens), `status` of the `auth_sessions` rows. A handler is found in `req`
between its statements: registration is `Register`, `WriteVerificationToken`; login
`Login`, `IssueSession`; refresh `Refresh`, `RotateSession`; logout `Logout`,
`RevokeSession`; the operations that revoke many sessions (`ResetPassword`,
`ChangePassword`, `RevokeOtherSessions`, `DeleteAccount`) take the snapshot of
their UPDATE in one step and commit it in another, because the statement does not
see sessions that are committed while it runs. Histories: `login` and `born` tell
from which login, and which password, a session descends; `ended` the logins that
were revoked; `overlapped` the sessions inserted by a login or refresh that a
revocation, a new password or another refresh overtook after it had read. The
properties except these only: everything else may interleave freely.

### LoginFactors

The throttle (`failed`, `window`, `lock`) and the second factor (`enabled`,
`setting`, `confirmed`, `owner` and `used` of the recovery codes) of one user. A
login passes `IsEmailLocked`, `Login`, then `CreateOrIncrementThrottle` (and
`InsertThrottle` for the first failure, whose loser is refused by the unique
index) or `GetTwoFactorByUser`, `ConsumeRecoveryCode`, `ResetThrottle`; `Tick` lets
the lock or the window pass. Setting up is `UpsertTwoFactor`, `ConfirmEnable2FA`,
`ReplaceRecoveryCodes`, `MarkTwoFactorEnabled`; `Disable2FA` checks and
`DisableTwoFactor` writes. One code stands for the set of a confirmation. Histories
count wrong passwords (`guesses`) and accepted codes (`uses`), and remember the
code answered last (`handed`) and whether the factor was replaced under an overlap
(`loose`).

### DeviceRegistry

The devices of one project with their tokens, and the project's own row.
Registration is `RegisterDevice`, `CreateDeviceAndAuthTokenTx`; rotation
`RotateDeviceToken`, `RevokeActiveTokens` (the rows its UPDATE sees),
`CommitRotation`; archival `ArchiveProject`, `SetProjectArchived`,
`SetDevicesPollingForArchive`, of which the last may fail; deletion `DeleteProject`,
`DeleteProjectSoft`; `CreateCampaign`, `CreateCampaignBundle` insert what the
deletion counts. The histories `late`, `missed`, `spare`, `stray` and `torn` name
what was inserted, or left halfway, by an overlap.

### DeviceChannels

A channel is an HTTP request or a TCP session of a device. `PresentToken` and
`GetDeviceByActiveTokenHash` let it in; `ServeConn`, `readFrame`, `ReadDeadline`
are the loop of a session, and `BadFrame` a frame that does not decode; a poll is
`recordDeviceConnection`, `UpdateDeviceSeenAndFirmware`, `CreateDeviceConnectionLog`,
`handlePoll`. A report has two effects: `updated`, the version in the device's row, and
`installed`, the campaign's assignment. Their order depends on the transport. An HTTP
report does the steps of a poll and then goes to the campaign (`TakeReport`, or
`PassReport` when the campaign does not take it). A TCP report goes to the campaign
first; if it was taken, `RecordInstalled` writes the row, all in
`ApplyOtaDeviceReport`, and only then `recordDeviceConnection` looks at `blocked`, so a
blocked device is answered an error for a report that has had its effects. Every
statement may fail. `AcceptFails`, `CancelOTA`, `CloseListener`, `WaitOTA`, `Shutdown`
are `Serve`, `main` and `StopOTA`. Histories: `passed`, `unblocked` (moments at which
the device was let in, or not blocked), `unwritten` (a TCP report was cut off before
`RecordInstalled`) and `untaken` (a report of the new version that the campaign did not
take or that was cut off before it got there). Archival and deletion close their gates
in one step here; DeviceRegistry has their statements. Campaigns are modelled in
CampaignRollout: here a device has one assignment, reports are of its firmware's
version or of none, and reports that name another version, which only overwrite the
row, are left out.

### DeviceGroups

Custom device types, groups, memberships and the bulk requests. Deleting a type
(`DeleteCustomDeviceType`, `SoftDeleteType`) and registering a device of it
(`RegisterDevice`, `CreateDevice`), deleting a group (`DeleteDeviceGroup`,
`CommitGroupDelete`) and inserting its members one by one (`InsertMembership`) are
apart. A bulk request comes with ids (`BulkIds`) or a filter (`BulkFilter`, which
counts, then `ListDeviceIDsWithFilter`, which lists with the count as its limit);
its loop is `FilterDevicesInProject` and one group statement, or `BulkEach` device by
device. Histories `typeRaced` and `addRaced` name what was inserted during a
deletion. The order of a listing is left out (any of the matching devices), and
`rotate_tokens` has the loop of the other actions on devices, with its effect in
DeviceRegistry.

## Runs

| Run | Result | What it shows |
|---|---|---|
| `rollout_safety` | pass | One campaign, three devices, two handlers that may die anywhere: completion is sound (`CompletedAllTerminal`) and not lost (`NoLostCompletion`), scheduled campaigns are untouched, progress is monotone, and the refinement of `CampaignLifecycle` holds. |
| `rollout_completion` | pass | Under fairness a campaign with only terminal assignments completes, unless a pause or a deleted firmware cut a check short. |
| `rollout_fairness` | pass | Two campaigns on one polling device: due campaigns start, pending assignments are offered. |
| `report_oldest_only` | violation | `docs/api.md`: a report that matches an offered assignment of an active campaign marks it installed. With two such campaigns only the oldest is looked at. |
| `completion_lost` | violation | `docs/api.md`: "the campaign completes when all assignments are terminal". A last report around a pause leaves the resumed campaign active for ever. |
| `delivery_safety` | pass | Three firmwares of two versions, three handlers that may die or fail: live rows have blobs, live versions are unique, blobs are accounted for, a token opens at most one stream. |
| `membership_safety` | pass | Two users, one custom role, two requests: an owner remains and members' roles exist unless two handlers overlap between decision and write; only owners make owners. |
| `auth_sessions` | pass | Three sessions, two requests: after a reset, a change or a deletion the sessions of the old password are gone, a login has one session at a time and an ended login stays ended, but for sessions inserted by a handler that the revocation overtook. |
| `login_factors` | pass | Two requests: wrong passwords are bounded although throttle and check are apart, a recovery code is accepted once, and an enabled second factor can be used. |
| `device_registry` | pass | Two devices, three requests: a rotation leaves one live token, polling follows the archival, a deleted project has no usable device and no open campaign, each but for what an overlap or a failure halfway explains. |
| `device_channels` | pass | Two channels and a shutdown: who is served was let in, a block reaches open sessions at their next check, assignment and device row agree but for reports cut off between their writes or not taken, and a shutdown waits for every session and ends. |
| `device_groups` | pass | Two devices, two requests: types in use and groups with members are live but for what was inserted during their deletion; a bulk request keeps to its cap and to its count. |

Bounds. Two handler slots suffice for every race between two handlers; three
devices let two of them finish while a third lags behind, and with them the
percentages 1, 34 and 100 assign one, two and all of the compatible devices. The safety properties
of CampaignRollout speak of one campaign at a time and no statement writes the
rows of two campaigns except the scheduler's tick, so one campaign is enough
there; the two-campaign cases (the ordering of offers, the matching of reports)
have runs of their own. For FirmwareDelivery three uploads of two versions let
two compete while a third row is live or deleted, and one token with three
requests has every race on it. For ProjectMembership two users and two requests
hold every race of two handlers over an owner and another member; a third user
only multiplies the states.

AuthSessions has three sessions, so that a login, its successor and a session of
another login exist together, one reset token, two requests and two changes of
the password (`MaxPassword`). LoginFactors locks at two failures
(`MaxLoginAttempts`) and lets six wrong passwords be tried (`GuessBound`), one more
than `GuessesBounded` allows for its two requests, so the bound on guesses is not
the one that is hit; two settings and three codes let a setting be replaced and
its codes be replaced again. DeviceRegistry has three requests: two rotations of
one device, or two archivals, with a third handler in between; four tokens serve
two devices with a spare each. DeviceChannels has one device on two channels of
either kind, all that its properties relate. DeviceGroups has two devices, one
type, one group, two requests and a cap of two (`SyncCap`): a listing may find
more devices than the count that limits it, but no request is refused for
exceeding the cap, which would take three devices and more states than a run can
visit; the proof of `BulkWithinCap` covers it.

The proofs below do away with these bounds for every safety property.

Fairness. `FairSpec` is weak fairness of every handler in flight (Go runs every
goroutine), weak fairness of the tick's first statement and strong fairness of its
second: a tick's transaction may be rolled back again and again but not for ever.
Users and devices are not fair. `PollingSpec` adds, only for `PendingIsOffered`,
that each device keeps polling and is served again and again. The liveness runs
have no abandoned handlers, for which nothing is promised. `FairSpec` of
DeviceChannels is weak fairness of the handler of each channel, of the read
deadline that every TCP session sets (the device itself need not send anything),
and of the goroutines that close the listener, wait for the sessions and shut
down: all of them run or are waiting in Go's runtime. New requests, frames and
administrators are not fair.

Every property of a passing run has a mutant (`Mut...`, next to the definition it
replaces): a plausible slip in that code, such as a dropped condition of a WHERE
clause, that makes the property fail.

## Proofs

TLAPS proves every invariant and every action property of the passing runs, and
the refinement, for all values of the constants: any number of campaigns, devices,
firmwares, tokens, sessions, channels and handlers. The only assumptions are those
of the modules: campaign ids are numbers (their order is the age), the devices of
a project are finitely many, percentages are those the request's validation lets
through (1 to 100), the interruptible slots are slots, the founder is a user,
custom role ids are not predefined roles, the concurrent logins are finitely many
(`GuessesBounded` counts them), the cap of a bulk request and the login attempts
are positive, the bounds on passwords and guesses are numbers, and `None` is no id
and no filter.

* `CampaignRolloutProofs`: `TypeCorrect`, `CompletionIsSound`,
  `ScheduledIsPristine`, `CompletionNotLost`, all from one inductive invariant
  `IInv`. `CompletedAllTerminal` alone is not inductive: `MarkCampaignCompleted`
  relies on a count taken earlier, so the invariant says that a handler at that
  step works on a campaign whose assignments are all terminal, and that this
  cannot be undone: no report is applied *from* a terminal status except to a
  terminal one and the poll's update requires `pending`. Likewise handlers that
  have passed a status check work on a campaign that has been started.
  `ProgressIsMonotone`, `StatusFollowsTable` and `RolloutImplementsLifecycle`
  follow action by action from `IInv`: each step is a step of `CampaignLifecycle`
  or leaves its variables alone. Both need that a new campaign has an assignment,
  which rests on `ShareIsLeast`: `StableShare` is the least number of devices that
  reaches the percentage, lies between one and all of them, and is all of them at
  100 percent. The proof goes through the quotient and remainder of the division
  (`ShareArithmetic`). `ShareIsMonotone` adds that a larger percentage or fleet
  never takes fewer.
* `FirmwareDeliveryProofs`: `DeliveryTypeCorrect`, `LiveFirmwareIsStored`,
  `LiveVersionsAreUnique`, `BlobsAreAccounted`, `TokenIsOneTime`. The invariant
  adds that an upload owns its id alone and has no row (so that its cleanup never
  removes the blob of a live row), that a handler about to erase works on a
  deleted row, and that consuming a token admits one request to the stream.
* `ProjectMembershipProofs`: `MembershipTypeCorrect`, `OwnerIsKept`,
  `RolesAreLive`, `OnlyOwnersGrantOwnership`. `OwnerUnlessClash` is not inductive:
  the invariant adds what each handler at its write relies on (another owner than
  its target exists; a transfer still has its target's row; a role to be assigned
  is live; a role to be deleted is unused), and a write that does not clash finds
  no other handler that relies on anything. The action property follows from the
  type invariant: an invitation or update to "owner" passes `MustBeOwner` first.
* `AuthSessionsProofs`: `TypeCorrect`, `PasswordSafe`, `RotationSafe`,
  `LogoutFinal`, `ResetOnce`, `VerificationSafe`. None of the three session
  properties is inductive: a revocation relies on the snapshot of its statement. The
  invariant adds that the snapshot of a running revocation holds every unrevoked
  session but the current one and those marked as overlapped, and that the login of
  an inserted session, and a login that was ended, is a session that was inserted, so
  that a new row never takes up an old login.
* `DeviceRegistryProofs`: `RegistryTypeCorrect`, `RotationSafe`, `PollingSafe`,
  `DeletionSeals`, from the conjunction of three invariants: what a rotation between
  its UPDATE and its commit has seen of the device's tokens, what an archival between
  its statements knows of the project when no other one overlaps, and what a
  deletion has counted and revoked.
* `DeviceChannelsProofs`: `ChannelsTypeCorrect`, `ServiceWasLetIn`, `BlockIsSeen`,
  `BothSidesOfReports`, `StopWaits`. `GatesOK` carries the moments at which a
  channel's device was let in or not blocked from the step that read them to the
  step that relies on them; `ReportOK` says which effect of its report a channel has
  brought about so far, so that the other one, or the mark of a cut-off, restores
  agreement.
* `LoginFactorsProofs`: `FactorsTypeCorrect`, `ThrottleHolds`,
  `RecoveryCodeIsOneTime`, `EnabledFactorUsable`. `GuessesBounded` compares a number
  with what the throttle's row says, and between the two are the handlers that have
  tried a wrong password and not counted it yet. `Counted` adds them up: as long as
  there is no row, guesses are exactly the handlers still to count; with an open
  window, guesses are at most the failures of the row, those handlers, and the
  losers of the race for the first insert, who are lost for the count but no more
  than there are requests; once the row is locked only handlers that passed
  `IsEmailLocked` before can still guess. The lemmas on cardinalities say how that
  set changes when one handler moves. `UsedOnce` and `Confirming` carry what a
  handler knows of the code it consumes or hands out.
* `DeviceGroupsProofs`: `GroupsTypeCorrect`, `TypesInUseAreLive`,
  `MembersAreOfLiveGroups`, `BulkKeepsToCap`. The invariant adds what a deletion
  knows between its two statements: a type under deletion has only devices that
  `typeRaced` names (`TypeDeletion`), a group under deletion only members that are in
  the deletion's snapshot or that `addRaced` names (`GroupDeletion`); and that what a
  bulk request has listed keeps to its limit, and its limit to the cap (`WithinCap`).

Four of the models except in their properties what an overlap of two requests
brought about, recorded by a history variable. A history that grew in any other
case would hide a fault, so `SerialRequestsAreClean` (ProjectMembership,
AuthSessions, DeviceRegistry, DeviceGroups) states what the properties amount to
when no two requests are in flight together (`[]OneAtATime`): all that they say,
without the exceptions. The one that remains is an archival whose second statement
fails, `torn` in DeviceRegistry, which needs no second request. A handler
that dies keeps its slot in all of these but DeviceGroups, so for the others the
theorem speaks of what is served up to the first such handler; in DeviceGroups a
failed request frees its slot and the next one follows.

Only model-checked: the liveness properties (`UndisturbedCompletes`,
`DueIsActivated`, `PendingIsOffered`, `ShutdownCompletes`), which are beyond the
prover, and the violations. Proved and without a run of their own are
`StatusFollowsTable`, which follows from the refinement that a run checks,
`ResetOnce` and `VerificationSafe`, parts of the inductive invariant of
AuthSessions, the two facts about `StableShare`, and `SerialRequestsAreClean`.

## Where documents and code differ

Two differences have a run (`report_oldest_only`, `completion_lost`). Four more
are cases whose extent the properties state instead:

* `docs/api.md`: "Paused or cancelled campaigns never offer". A pause between the
  two statements of a poll still yields an offer (`PollFind`, `PauseCampaign`,
  `PollOffer`).
* `docs/api.md`: "the first successful open of the object stream marks the token
  consumed". The token is consumed before the open; if the firmware is deleted in
  between, it is spent without a stream.
* `project_service.go`: "cannot remove the last owner". Removing a member while
  ownership is being transferred to it removes the last owner; `OwnerUnlessClash`
  shows that such an overlap is what it takes.
* `docs/onboarding.md`: "Blocked devices and revoked tokens are rejected at middleware
  (HTTP) or the same lookup (TCP)". A TCP session makes that lookup once, so archival,
  deletion of the project and rotation of the token never reach an open session
  (`ServedWasLetIn`); a block does, where `recordDeviceConnection` reads the row again
  (`BlockReachesSessions`), but the writes of a TCP report come before that.

## Not modelled

Operations that change only a name, a description or a profile (`UpdateProject`,
`UpdateDeviceGroup`, `UpdateCustomDeviceType`, `UpdateProfile`): no decision reads
them, and a partial unique index keeps names apart. The single sign-on stub, which
always answers that it is not implemented. Listings and views, audit logs, mail, logging, configuration, start-up and
migrations (pure I/O, or run once before any request); hashing, signing and
one-time-password arithmetic (their results are taken as unforgeable values);
JSON and the wire format of frames. A transaction whose commit succeeds while its
answer is lost is not modelled either; for an upload that would remove the blob of
a live row (hazard list).

## Plan

The eight models are done and every safety property that a run checks is proved.
What is left are refinements of what is stated:

1. Serial corollaries for CampaignRollout and DeviceChannels: a completion check is
   cut short (`missed`) only by a dead handler, a pause or a deleted firmware, and a
   report has one effect only (`unwritten`, `untaken`) after a failed statement, a
   shutdown, or a campaign that did not take it.
2. An abstract specification of the download token (issued, spent, opened) that
   FirmwareDelivery implements, with the refinement proved.
3. Action properties of AuthSessions and DeviceRegistry: a revoked session and a
   revoked token never come back.
