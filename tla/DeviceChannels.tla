----------------------------- MODULE DeviceChannels -----------------------------
(***************************************************************************)
(* How devices are served: device requests over HTTP (RequireDeviceAuth    *)
(* and the device handlers) and sessions of the TCP protocol               *)
(* (internal/transport/devotcp), against the gates that administrators     *)
(* open and close meanwhile, up to the shutdown of the server.             *)
(*                                                                         *)
(* A channel is an HTTP request or a TCP connection.  Every statement of   *)
(* its handler is a step, and each may fail.  The gates of archival and    *)
(* deletion close in a single step here (DeviceRegistry has their own      *)
(* interleavings); a rotation changes nothing that is read again once the  *)
(* token's row was found.  Reports are about the firmware of one campaign; *)
(* one that names another version only overwrites the row and is left out, *)
(* and why a campaign does not take a report is in CampaignRollout.        *)
(***************************************************************************)
CONSTANTS
    Devices,
    Channels,   \* slots for HTTP requests and TCP connections
    None        \* no value

ASSUME ChannelNone == None \notin Devices

VARIABLES
    blocked,    \* devices.blocked
    disabled,   \* polling_disabled_at is set
    revoked,    \* token_revoked_at is set
    updated,    \* devices whose row has the version of the new firmware
    installed,  \* devices whose campaign assignment is installed
    ch,         \* the channels
    phase,      \* "running", "stopping" (the OTA context is cancelled), "closing"
                \* (the HTTP server shuts down) or "stopped"
    listening,  \* the TCP server accepts connections
    passed,     \* history: channels whose device was let in by every gate at some
                \* moment since they presented its token
    unblocked,  \* history: channels whose device was not blocked at some moment
                \* since their present request or frame began
    unwritten,  \* history: devices with a report that installed the assignment and was
                \* cut off before it wrote the row
    untaken     \* history: devices with a report of the new version that the campaign did
                \* not take, or that was cut off before it got there

gates == <<blocked, disabled, revoked>>
reports == <<updated, installed, unwritten, untaken>>
server == <<phase, listening>>
vars == <<gates, reports, ch, server, passed, unblocked>>

Kinds == {"http", "tcp"}
\* "report" names the new version; "bare" is a TCP report without a version, which its
\* payload may leave out.
Messages == {"poll", "report", "bare"}
\* "auth": waiting for the auth frame; "device": the token's row was found; "loop" and
\* "read": a session between two frames; the rest are the steps of one request.
Steps == {"idle", "auth", "device", "loop", "read", "touch", "seen", "log", "offer", "apply",
          "record"}

ChannelRecords ==
    [kind : Kinds \cup {"none"}, step : Steps, device : Devices \cup {None},
     message : Messages \cup {"none"}]

Idle == [kind |-> "none", step |-> "idle", device |-> None, message |-> "none"]

Init ==
    /\ blocked = {} /\ disabled = {} /\ revoked = {}
    /\ updated = {} /\ installed = {} /\ unwritten = {} /\ untaken = {}
    /\ ch = [c \in Channels |-> Idle]
    /\ phase = "running" /\ listening = TRUE
    /\ passed = {} /\ unblocked = {}

Goto(c, st) == ch' = [ch EXCEPT ![c].step = st]

\* The gates of GetDeviceByActiveTokenHash.
LetIn(d) == d \notin blocked \cup disabled \cup revoked

\* The channels that serve one of these devices.
Serving(ds) == {c \in Channels : ch[c].device \in ds}

\* An HTTP request is answered; a TCP session goes on with its next frame.
Answer(c) ==
    ch' = [ch EXCEPT ![c] = IF ch[c].kind = "tcp"
                            THEN [kind |-> "tcp", step |-> "loop", device |-> ch[c].device,
                                  message |-> "none"]
                            ELSE Idle]

--------------------------------------------------------------------------------
(* Authentication                                                          *)

\* The token's row is looked up: revoked_at is null, so it is the present token.
PresentToken(c, k, d, m) ==
    /\ ch' = [ch EXCEPT ![c] = [kind |-> k, step |-> "device", device |-> d, message |-> m]]
    /\ passed' = IF LetIn(d) THEN passed \cup {c} ELSE passed \ {c}
    /\ unblocked' = IF d \in blocked THEN unblocked \ {c} ELSE unblocked \cup {c}

\* A device request arrives at RequireDeviceAuth.
RequireDeviceAuth(c, d, m) ==
    /\ ch[c].step = "idle" /\ phase \in {"running", "stopping"} /\ m # "bare"
    /\ PresentToken(c, "http", d, m)
    /\ UNCHANGED <<gates, reports, server>>

MutAccept(c) ==
    /\ ch[c].step = "idle" /\ listening
    /\ ch' = [ch EXCEPT ![c] = [kind |-> "tcp", step |-> "loop", device |-> None,
                                message |-> "none"]]
    /\ UNCHANGED <<gates, reports, server, passed, unblocked>>

\* Accept of the TCP server; the first frame has to be the auth frame.
Accept(c) ==
    /\ ch[c].step = "idle" /\ listening
    /\ ch' = [ch EXCEPT ![c] = [kind |-> "tcp", step |-> "auth", device |-> None,
                                message |-> "none"]]
    /\ UNCHANGED <<gates, reports, server, passed, unblocked>>

\* The first frame of a connection.
authenticateDevice(c, d) ==
    /\ ch[c].step = "auth"
    /\ PresentToken(c, "tcp", d, "none")
    /\ UNCHANGED <<gates, reports, server>>

MutGetDeviceByActiveTokenHash(c) ==
    LET q == ch[c] IN
    /\ q.step = "device"
    /\ IF q.device \in blocked \cup revoked THEN ch' = [ch EXCEPT ![c] = Idle]
       ELSE Goto(c, IF q.kind = "http" THEN "touch" ELSE "loop")
    /\ UNCHANGED <<gates, reports, server, passed, unblocked>>

\* The device's row is read in a second statement, and the gates are applied to it.
GetDeviceByActiveTokenHash(c) ==
    LET q == ch[c] IN
    /\ q.step = "device"
    /\ IF ~LetIn(q.device) THEN ch' = [ch EXCEPT ![c] = Idle]
       ELSE Goto(c, IF q.kind = "http" THEN "touch" ELSE "loop")
    /\ UNCHANGED <<gates, reports, server, passed, unblocked>>

--------------------------------------------------------------------------------
(* The loop of a TCP session                                               *)

MutServeConn(c) ==
    /\ ch[c].step = "loop"
    /\ Goto(c, "read")
    /\ UNCHANGED <<gates, reports, server, passed, unblocked>>

\* The top of the loop: a cancelled context ends the session.
ServeConn(c) ==
    /\ ch[c].step = "loop"
    /\ IF phase = "running" THEN Goto(c, "read") ELSE ch' = [ch EXCEPT ![c] = Idle]
    /\ UNCHANGED <<gates, reports, server, passed, unblocked>>

\* A frame is read and handled: handlePoll begins with the connection's record,
\* handleReport with the campaign.
readFrame(c, m) ==
    /\ ch[c].step = "read"
    /\ ch' = [ch EXCEPT ![c] = [kind |-> "tcp", step |-> IF m = "poll" THEN "touch" ELSE "apply",
                                device |-> ch[c].device, message |-> m]]
    /\ unblocked' = IF ch[c].device \in blocked THEN unblocked \ {c} ELSE unblocked \cup {c}
    /\ UNCHANGED <<gates, reports, server, passed>>

\* A frame with an unknown type or a payload that does not decode.
BadFrame(c) ==
    /\ ch[c].step = "read"
    /\ Goto(c, "loop")
    /\ UNCHANGED <<gates, reports, server, passed, unblocked>>

\* The deadline of the read passes, or the device hangs up.
ReadDeadline(c) ==
    /\ ch[c].step \in {"auth", "read"}
    /\ ch' = [ch EXCEPT ![c] = Idle]
    /\ UNCHANGED <<gates, reports, server, passed, unblocked>>

--------------------------------------------------------------------------------
(* Serving                                                                 *)

\* An HTTP report that has written the row and not reached the campaign yet.
RowFirst(c) ==
    ch[c].kind = "http" /\ ch[c].message = "report" /\ ch[c].step \in {"log", "apply"}

\* A TCP report that has installed the assignment and not written the row yet.
AssignmentFirst(c) == ch[c].step = "record"

\* The request of c ends where it is.
CutOff(c) ==
    /\ unwritten' = IF AssignmentFirst(c) THEN unwritten \cup {ch[c].device} ELSE unwritten
    /\ untaken' = IF RowFirst(c) THEN untaken \cup {ch[c].device} ELSE untaken

MutrecordDeviceConnection(c) ==
    /\ ch[c].step = "touch"
    /\ Goto(c, "seen")
    /\ UNCHANGED <<gates, reports, server, passed, unblocked>>

\* GetDevice and the check of Blocked.
recordDeviceConnection(c) ==
    /\ ch[c].step = "touch"
    /\ IF ch[c].device \in blocked THEN Answer(c) ELSE Goto(c, "seen")
    /\ UNCHANGED <<gates, reports, server, passed, unblocked>>

\* last_seen_at and the version, if there is one (of a TCP report that was taken,
\* RecordInstalled has written it before).
UpdateDeviceSeenAndFirmware(c) ==
    /\ ch[c].step = "seen"
    /\ updated' = IF ch[c].message = "report" THEN updated \cup {ch[c].device} ELSE updated
    /\ Goto(c, "log")
    /\ UNCHANGED <<gates, installed, unwritten, untaken, server, passed, unblocked>>

\* The connection log; what follows it depends on the request.
CreateDeviceConnectionLog(c) ==
    LET q == ch[c] IN
    /\ q.step = "log"
    /\ \/ q.message = "poll" /\ Goto(c, "offer")
       \/ q.message # "poll" /\ q.kind = "http" /\ Goto(c, "apply")
       \/ q.message # "poll" /\ q.kind = "tcp" /\ Answer(c)
    /\ UNCHANGED <<gates, reports, server, passed, unblocked>>

\* The campaign takes a report: OnDeviceReportFirmware (HTTP, the last step) or the
\* UPDATE of ApplyOtaInstalled (TCP, the first step).
TakeReport(c) ==
    /\ ch[c].step = "apply"
    /\ installed' = installed \cup {ch[c].device}
    /\ IF ch[c].kind = "tcp" THEN Goto(c, "record") ELSE Answer(c)
    /\ UNCHANGED <<gates, updated, unwritten, untaken, server, passed, unblocked>>

\* It does not: it is not active, its assignment or its firmware does not match, or
\* the report is of a download or a failure.  No row is updated, and this is no error.
PassReport(c) ==
    /\ ch[c].step = "apply"
    /\ untaken' = IF ch[c].message = "report" THEN untaken \cup {ch[c].device} ELSE untaken
    /\ IF ch[c].kind = "tcp" THEN Goto(c, "touch") ELSE Answer(c)
    /\ UNCHANGED <<gates, updated, installed, unwritten, server, passed, unblocked>>

MutRecordInstalled(c) ==
    /\ ch[c].step = "record"
    /\ Goto(c, "touch")
    /\ UNCHANGED <<gates, reports, server, passed, unblocked>>

\* ApplyOtaDeviceReport looks the campaign's firmware up and writes its version to the
\* device's row.  DeviceOtaReportTouch, which checks Blocked, comes after it.
RecordInstalled(c) ==
    /\ ch[c].step = "record"
    /\ updated' = updated \cup {ch[c].device}
    /\ Goto(c, "touch")
    /\ UNCHANGED <<gates, installed, unwritten, untaken, server, passed, unblocked>>

\* BuildPollOffer, for TCP IssueOtaDownloadToken, and the answer.
handlePoll(c) ==
    /\ ch[c].step = "offer"
    /\ Answer(c)
    /\ UNCHANGED <<gates, reports, server, passed, unblocked>>

\* A statement fails, or at "record" the firmware has been deleted: an error is
\* answered (not for the campaign's side of an HTTP report, whose error is dropped), and
\* a session that is past its authentication goes on.
StatementFails(c) ==
    /\ ch[c].step \in {"device", "touch", "seen", "log", "offer", "apply", "record"}
    /\ IF ch[c].step = "device" THEN ch' = [ch EXCEPT ![c] = Idle] ELSE Answer(c)
    /\ CutOff(c)
    /\ UNCHANGED <<gates, updated, installed, server, passed, unblocked>>

--------------------------------------------------------------------------------
(* The gates                                                               *)

SetDeviceBlocked(d, b) ==
    /\ blocked' = IF b THEN blocked \cup {d} ELSE blocked \ {d}
    /\ unblocked' = IF b THEN unblocked ELSE unblocked \cup Serving({d})
    /\ passed' = IF b \/ d \in disabled \cup revoked THEN passed ELSE passed \cup Serving({d})
    /\ UNCHANGED <<disabled, revoked, reports, ch, server>>

\* Archival and unarchival.
SetDevicesPolling(disable) ==
    /\ disabled' = IF disable THEN Devices ELSE {}
    /\ passed' = IF disable THEN passed
                 ELSE passed \cup Serving(Devices \ (blocked \cup revoked))
    /\ UNCHANGED <<blocked, revoked, reports, ch, server, unblocked>>

\* Deletion of the project.
RevokeDevices ==
    /\ revoked' = Devices /\ disabled' = Devices
    /\ UNCHANGED <<blocked, reports, ch, server, passed, unblocked>>

--------------------------------------------------------------------------------
(* Shutdown                                                                *)

\* main: StopOTA cancels the context of the TCP server.
CancelOTA ==
    /\ phase = "running" /\ phase' = "stopping"
    /\ UNCHANGED <<gates, reports, ch, listening, passed, unblocked>>

\* The goroutine of Serve.  Until it runs, connections are still accepted.
CloseListener ==
    /\ phase # "running" /\ listening /\ listening' = FALSE
    /\ UNCHANGED <<gates, reports, ch, phase, passed, unblocked>>

\* Accept fails for another reason than the cancel: Serve stops accepting for good.
AcceptFails ==
    /\ phase = "running" /\ listening /\ listening' = FALSE
    /\ UNCHANGED <<gates, reports, ch, phase, passed, unblocked>>

Sessions == {c \in Channels : ch[c].kind = "tcp"}

MutWaitOTA ==
    /\ phase = "stopping" /\ Sessions = {} /\ phase' = "closing"
    /\ UNCHANGED <<gates, reports, ch, listening, passed, unblocked>>

\* StopOTA returns when Serve has, and Serve waits for its sessions.
WaitOTA ==
    /\ phase = "stopping" /\ ~listening /\ Sessions = {}
    /\ phase' = "closing"
    /\ UNCHANGED <<gates, reports, ch, listening, passed, unblocked>>

\* HTTPServer.Shutdown returns when the requests are answered, or when its context,
\* which runs since before StopOTA, expires; then main returns and they are cut off.
Shutdown ==
    /\ phase = "closing" /\ phase' = "stopped"
    /\ ch' = [c \in Channels |-> Idle]
    /\ untaken' = untaken \cup {ch[c].device : c \in {x \in Channels : RowFirst(x)}}
    /\ UNCHANGED <<gates, updated, installed, unwritten, listening, passed, unblocked>>

--------------------------------------------------------------------------------

Arrive(c) ==
    \/ Accept(c)
    \/ \E d \in Devices : authenticateDevice(c, d)
    \/ \E d \in Devices, m \in Messages : RequireDeviceAuth(c, d, m)
    \/ \E m \in Messages : readFrame(c, m)
    \/ BadFrame(c)

\* What the server does by itself once a channel has something for it.
Serve(c) ==
    \/ GetDeviceByActiveTokenHash(c) \/ ServeConn(c)
    \/ recordDeviceConnection(c) \/ UpdateDeviceSeenAndFirmware(c)
    \/ CreateDeviceConnectionLog(c) \/ TakeReport(c) \/ PassReport(c) \/ RecordInstalled(c)
    \/ handlePoll(c) \/ StatementFails(c)

Gate ==
    \/ \E d \in Devices, b \in BOOLEAN : SetDeviceBlocked(d, b)
    \/ \E disable \in BOOLEAN : SetDevicesPolling(disable)
    \/ RevokeDevices

Next ==
    \/ \E c \in Channels : Arrive(c) \/ Serve(c) \/ ReadDeadline(c)
    \/ Gate \/ CancelOTA \/ CloseListener \/ AcceptFails \/ WaitOTA \/ Shutdown

\* Handlers run to their answer, a read ends at its deadline, and the goroutines of
\* the shutdown run.  Nothing obliges a device to send, or an operator to stop.
Fairness ==
    /\ \A c \in Channels : WF_vars(Serve(c)) /\ WF_vars(ReadDeadline(c))
    /\ WF_vars(CloseListener) /\ WF_vars(WaitOTA) /\ WF_vars(Shutdown)

Spec == Init /\ [][Next]_vars
FairSpec == Spec /\ Fairness

--------------------------------------------------------------------------------
(* Properties                                                              *)

ChannelOK(c) ==
    LET q == ch[c] IN
    /\ q.step = "idle" <=> q.kind = "none"
    /\ q.step \in {"idle", "auth"} <=> q.device = None
    /\ q.step \in {"auth", "loop", "read"} => q.kind = "tcp"
    /\ q.step \in {"touch", "seen", "log", "offer", "apply", "record"} => q.message # "none"
    /\ q.kind = "http" => q.message \in {"poll", "report"} /\ q.step # "record"
    /\ q.step = "offer" => q.message = "poll"
    /\ q.step \in {"apply", "record"} => q.message # "poll"

\* Type invariant, with what a channel holds at each step.
TypeOK ==
    /\ blocked \subseteq Devices /\ disabled \subseteq Devices /\ revoked \subseteq Devices
    /\ updated \subseteq Devices /\ installed \subseteq Devices
    /\ unwritten \subseteq Devices /\ untaken \subseteq Devices
    /\ ch \in [Channels -> ChannelRecords]
    /\ phase \in {"running", "stopping", "closing", "stopped"} /\ listening \in BOOLEAN
    /\ passed \subseteq Channels /\ unblocked \subseteq Channels
    /\ \A c \in Channels : ChannelOK(c)

\* A channel that is served was let in: at some moment since its token was presented
\* the device passed every gate.  For an HTTP request that is this request; a TCP
\* session lives on that moment for as long as its device keeps sending, whatever
\* archival, deletion or rotation do meanwhile.
ServedWasLetIn ==
    \A c \in Channels :
        ch[c].step \in {"loop", "read", "touch", "seen", "log", "offer", "apply", "record"}
            => c \in passed

\* A block reaches open TCP sessions: a poll that is recorded, logged or offered
\* something, an HTTP report that is recorded or applied, and a TCP report that is
\* logged are of a device that was not blocked at some moment since the request or the
\* frame began.  It does not stop the effects of a TCP report on the assignment and the
\* row ("apply" and "record" of a session): these come before the check.
BlockReachesSessions ==
    \A c \in Channels :
        (ch[c].step \in {"seen", "log", "offer"} \/ (ch[c].kind = "http" /\ ch[c].step = "apply"))
            => c \in unblocked

\* The two places that tell what a device runs agree, however reports on several
\* channels interleave and also when a block refuses a TCP report that has been applied.
\* An installed assignment has the version in the device's row, but while
\* ApplyOtaDeviceReport is between its two writes and where it failed there; a row with
\* the version has its assignment installed, but for reports that the campaign did not
\* take, and HTTP reports that have not reached it or were cut off before.
ReportsAgree ==
    \A d \in Devices :
        /\ d \in installed \ unwritten =>
               d \in updated \/ (\E c \in Channels : ch[c].device = d /\ AssignmentFirst(c))
        /\ d \in updated \ untaken =>
               d \in installed \/ (\E c \in Channels : ch[c].device = d /\ RowFirst(c))

\* When StopOTA has returned there is no TCP session, and none can begin.
QuietAfterWait == phase \in {"closing", "stopped"} => ~listening /\ Sessions = {}

\* A shutdown comes to its end, although devices may go on sending frames.
ShutdownCompletes == phase = "stopping" ~> phase = "stopped"

================================================================================
