--------------------------- MODULE FirmwareDelivery ----------------------------
(***************************************************************************)
(* Firmware artifacts from upload to download: internal/domain/firmware,   *)
(* the one-time OTA download tokens of internal/domain/device/repository,  *)
(* and the object store of internal/platform/storage.                      *)
(*                                                                         *)
(* A firmware is a database row and a blob in the object store, written    *)
(* and removed by different statements; handlers interleave between any    *)
(* two of them and may die there.                                          *)
(***************************************************************************)
EXTENDS Naturals

CONSTANTS
    Firmwares,      \* firmware ids (a fresh one for every upload)
    Versions,       \* normalized version strings
    Devices,        \* devices of the project
    Tokens,         \* OTA download tokens (a fresh one for every poll)
    Requests,       \* slots for requests being served at the same time
    Interruptible,  \* the slots whose handler may die, or meet an error, at any statement
    None            \* no value

ASSUME DeliveryInterruptible == Interruptible \subseteq Requests
ASSUME DeliveryNone == None \notin Firmwares \cup Versions \cup Devices \cup Tokens

VARIABLES
    row,            \* firmwares row: "none", "live" or "deleted" (deleted_at set)
    version,        \* firmwares.version_normalized; None while the id is not drawn
    blob,           \* the firmwares whose object is in the store
    blocked,        \* devices.blocked
    token,          \* ota_download_tokens: state, firmware_id, device_id
    expired,        \* the tokens whose expires_at has passed
    opens,          \* history: how often each token has opened an object stream
    leaked,         \* history: firmwares whose blob removal was cut short
    req             \* the requests in flight

vars == <<row, version, blob, blocked, token, expired, opens, leaked, req>>
artifacts == <<row, version, blob, leaked>>
downloads == <<blocked, token, expired, opens>>

--------------------------------------------------------------------------------

\* Upload: put, create, cleanup.  Delete: softdelete, erase.  Poll: insert.
\* Download: device, consume, firmware, open.
Steps == {"idle", "put", "create", "cleanup", "softdelete", "erase",
          "insert", "device", "consume", "firmware", "open"}
DownloadSteps == {"device", "consume", "firmware", "open"}

\* The handlers that will still create the row of their blob or remove the blob.
Responsible == {"create", "cleanup", "erase"}

RequestRecords ==
    [step : Steps, fw : Firmwares \cup {None}, dev : Devices \cup {None}, tok : Tokens \cup {None}]
TokenRecords ==
    [state : {"none", "issued", "consumed"}, fw : Firmwares \cup {None}, dev : Devices \cup {None}]

Idle == [step |-> "idle", fw |-> None, dev |-> None, tok |-> None]
NoToken == [state |-> "none", fw |-> None, dev |-> None]

Goto(r, s) == req' = [req EXCEPT ![r].step = s]
Begin(r, s, f, d, t) ==
    /\ req[r].step = "idle"
    /\ req' = [req EXCEPT ![r] = [step |-> s, fw |-> f, dev |-> d, tok |-> t]]
Finish(r) == req' = [req EXCEPT ![r] = Idle]

Init ==
    /\ row = [f \in Firmwares |-> "none"]
    /\ version = [f \in Firmwares |-> None]
    /\ blob = {}
    /\ blocked = {}
    /\ token = [t \in Tokens |-> NoToken]
    /\ expired = {}
    /\ opens = [t \in Tokens |-> 0]
    /\ leaked = {}
    /\ req = [r \in Requests |-> Idle]

\* FirmwareVersionExists: soft-deleted rows do not count.
VersionExists(v) == \E f \in Firmwares : row[f] = "live" /\ version[f] = v

--------------------------------------------------------------------------------
(* UploadFirmware                                                          *)

\* The version is free in this statement; the id is drawn.  A taken version is
\* refused without a change of state.
UploadCheck(r, f, v) ==
    /\ version[f] = None
    /\ ~VersionExists(v)
    /\ version' = [version EXCEPT ![f] = v]
    /\ Begin(r, "put", f, None, None)
    /\ UNCHANGED <<row, blob, leaked, downloads>>

\* The blob is written under a temporary name and renamed, or Put fails and
\* leaves nothing.  An empty file is stored first and removed again.
UploadPut(r) ==
    /\ req[r].step = "put"
    /\ \/ \E s \in {"create", "cleanup"} : Goto(r, s) /\ blob' = blob \cup {req[r].fw}
       \/ Finish(r) /\ UNCHANGED blob
    /\ UNCHANGED <<row, version, leaked, downloads>>

MutIndexRejects(f) == FALSE

\* The partial unique index on the versions of live rows.
IndexRejects(f) == VersionExists(version[f])

MutUploadCreate(r) ==
    LET f == req[r].fw IN
    /\ req[r].step = "create"
    /\ row' = [row EXCEPT ![f] = IF IndexRejects(f) THEN @ ELSE "live"]
    /\ Finish(r)
    /\ UNCHANGED <<version, blob, leaked, downloads>>

\* CreateFirmwareWithTypes: one transaction, refused by the index or failed.
UploadCreate(r) ==
    LET f == req[r].fw IN
    /\ req[r].step = "create"
    /\ \/ /\ ~IndexRejects(f)
          /\ row' = [row EXCEPT ![f] = "live"]
          /\ Finish(r)
       \/ /\ IndexRejects(f) \/ r \in Interruptible
          /\ Goto(r, "cleanup")
          /\ UNCHANGED row
    /\ UNCHANGED <<version, blob, leaked, downloads>>

\* Removal of the blob.  Its error is ignored, which leaks the blob.
RemoveBlob(r) ==
    \/ blob' = blob \ {req[r].fw} /\ UNCHANGED leaked
    \/ r \in Interruptible /\ leaked' = leaked \cup {req[r].fw} /\ UNCHANGED blob

UploadCleanup(r) ==
    /\ req[r].step = "cleanup"
    /\ RemoveBlob(r)
    /\ Finish(r)
    /\ UNCHANGED <<row, version, downloads>>

--------------------------------------------------------------------------------
(* DeleteFirmware                                                          *)

MutDeleteFind(r, f) ==
    /\ row[f] = "live"
    /\ Begin(r, "erase", f, None, None)
    /\ UNCHANGED <<artifacts, downloads>>

DeleteFind(r, f) ==
    /\ row[f] = "live"
    /\ Begin(r, "softdelete", f, None, None)
    /\ UNCHANGED <<artifacts, downloads>>

\* A second delete of the same row goes on to the blob as well.
DeleteRow(r) ==
    /\ req[r].step = "softdelete"
    /\ row' = [row EXCEPT ![req[r].fw] = "deleted"]
    /\ Goto(r, "erase")
    /\ UNCHANGED <<version, blob, leaked, downloads>>

DeleteBlob(r) ==
    /\ req[r].step = "erase"
    /\ RemoveBlob(r)
    /\ Finish(r)
    /\ UNCHANGED <<row, version, downloads>>

--------------------------------------------------------------------------------
(* Download tokens                                                         *)

\* IssueOtaDownloadToken for the firmware of an offer: the row is live in this
\* statement ...
IssueFind(r, d, f) ==
    /\ row[f] = "live"
    /\ Begin(r, "insert", f, d, None)
    /\ UNCHANGED <<artifacts, downloads>>

\* ... and the token is inserted in the next.
IssueInsert(r, t) ==
    /\ req[r].step = "insert"
    /\ token[t].state = "none"
    /\ token' = [token EXCEPT ![t] = [state |-> "issued", fw |-> req[r].fw, dev |-> req[r].dev]]
    /\ Finish(r)
    /\ UNCHANGED <<artifacts, blocked, expired, opens>>

\* The clock passes expires_at.
Expire(t) ==
    /\ token[t].state # "none"
    /\ t \notin expired
    /\ expired' = expired \cup {t}
    /\ UNCHANGED <<artifacts, blocked, token, opens, req>>

\* SetDeviceBlockedTx
SetBlocked(d) ==
    /\ blocked' = IF d \in blocked THEN blocked \ {d} ELSE blocked \cup {d}
    /\ UNCHANGED <<artifacts, token, expired, opens, req>>

--------------------------------------------------------------------------------
(* OpenFirmwareWithOtaDownloadToken                                        *)

MutDownloadRead(r, t) ==
    /\ token[t].state # "none"
    /\ Begin(r, "device", token[t].fw, token[t].dev, None)
    /\ UNCHANGED <<artifacts, downloads>>

\* ConsumeOtaDownloadTokenTx, first statement.  An unknown, consumed or expired
\* token is refused without a change of state.
DownloadRead(r, t) ==
    /\ token[t].state = "issued"
    /\ t \notin expired
    /\ Begin(r, "device", token[t].fw, token[t].dev, t)
    /\ UNCHANGED <<artifacts, downloads>>

DownloadDevice(r) ==
    /\ req[r].step = "device"
    /\ IF req[r].dev \in blocked THEN Finish(r) ELSE Goto(r, "consume")
    /\ UNCHANGED <<artifacts, downloads>>

MutDownloadConsume(r) ==
    /\ req[r].step = "consume"
    /\ token' = [token EXCEPT ![req[r].tok].state = "consumed"]
    /\ Goto(r, "firmware")
    /\ UNCHANGED <<artifacts, blocked, expired, opens>>

\* UPDATE ... WHERE consumed_at IS NULL, and the commit.
DownloadConsume(r) ==
    LET t == req[r].tok IN
    /\ req[r].step = "consume"
    /\ \/ /\ token[t].state = "issued"
          /\ token' = [token EXCEPT ![t].state = "consumed"]
          /\ Goto(r, "firmware")
       \/ /\ token[t].state # "issued"
          /\ Finish(r)
          /\ UNCHANGED token
    /\ UNCHANGED <<artifacts, blocked, expired, opens>>

DownloadFirmware(r) ==
    /\ req[r].step = "firmware"
    /\ IF row[req[r].fw] = "live" THEN Goto(r, "open") ELSE Finish(r)
    /\ UNCHANGED <<artifacts, downloads>>

\* objects.Open
DownloadOpen(r) ==
    /\ req[r].step = "open"
    /\ opens' = IF req[r].fw \in blob THEN [opens EXCEPT ![req[r].tok] = @ + 1] ELSE opens
    /\ Finish(r)
    /\ UNCHANGED <<artifacts, blocked, token, expired>>

--------------------------------------------------------------------------------

\* The handler dies between two statements; nobody takes over its clean-up.
Abandon(r) ==
    /\ r \in Interruptible
    /\ req[r].step # "idle"
    /\ Finish(r)
    /\ leaked' = IF req[r].step \in Responsible THEN leaked \cup {req[r].fw} ELSE leaked
    /\ UNCHANGED <<row, version, blob, downloads>>

Arrive(r) ==
    \/ \E f \in Firmwares, v \in Versions : UploadCheck(r, f, v)
    \/ \E f \in Firmwares : DeleteFind(r, f)
    \/ \E d \in Devices, f \in Firmwares : IssueFind(r, d, f)
    \/ \E t \in Tokens : DownloadRead(r, t)

Serve(r) ==
    \/ UploadPut(r) \/ UploadCreate(r) \/ UploadCleanup(r)
    \/ DeleteRow(r) \/ DeleteBlob(r)
    \/ \E t \in Tokens : IssueInsert(r, t)
    \/ DownloadDevice(r) \/ DownloadConsume(r) \/ DownloadFirmware(r) \/ DownloadOpen(r)

Next ==
    \/ \E t \in Tokens : Expire(t)
    \/ \E d \in Devices : SetBlocked(d)
    \/ \E r \in Requests : Arrive(r) \/ Serve(r) \/ Abandon(r)

Spec == Init /\ [][Next]_vars

--------------------------------------------------------------------------------
(* Properties                                                              *)

\* A handler knows the firmware, device and token that its step works on.
RequestOK(r) ==
    /\ req[r].step = "idle" => req[r] = Idle
    /\ req[r].step # "idle" => req[r].fw \in Firmwares /\ version[req[r].fw] # None
    /\ req[r].step \in DownloadSteps \cup {"insert"} => req[r].dev \in Devices
    /\ req[r].step \in DownloadSteps =>
         req[r].tok \in Tokens /\ token[req[r].tok].state # "none"

\* Type invariant: the columns, ids drawn before they are used, and bound handlers.
TypeOK ==
    /\ row \in [Firmwares -> {"none", "live", "deleted"}]
    /\ version \in [Firmwares -> Versions \cup {None}]
    /\ \A f \in Firmwares : row[f] # "none" => version[f] # None
    /\ blob \subseteq Firmwares
    /\ blocked \subseteq Devices
    /\ token \in [Tokens -> TokenRecords]
    /\ \A t \in Tokens : token[t].state # "none" =>
         token[t].fw \in Firmwares /\ token[t].dev \in Devices /\ version[token[t].fw] # None
    /\ expired \subseteq Tokens
    /\ opens \in [Tokens -> Nat]
    /\ leaked \subseteq Firmwares
    /\ req \in [Requests -> RequestRecords]
    /\ \A r \in Requests : RequestOK(r)

\* A firmware that can be offered can be served: the blob is stored before the
\* row and removed after it, so whatever uploads, failed uploads and deletes of
\* other handlers do in between, a live row has its blob.
LiveHasBlob == \A f \in Firmwares : row[f] = "live" => f \in blob

\* Uploads of one version at the same time both pass FirmwareVersionExists, yet
\* at most one of them ends with a live row; a version is free again after a delete.
LiveVersionsUnique ==
    \A f, g \in Firmwares :
        row[f] = "live" /\ row[g] = "live" /\ version[f] = version[g] => f = g

\* Storage leaks only through a handler that died or a failed removal: any other
\* blob without a live row still has a handler that will use or remove it.
NoUnaccountedBlob ==
    \A f \in blob :
        \/ row[f] = "live"
        \/ f \in leaked
        \/ \E r \in Requests : req[r].fw = f /\ req[r].step \in Responsible

\* A download token opens an object stream at most once, however many requests
\* present it at the same time ("marks the token consumed exactly once",
\* device/repository/ota_download_token.go).
OpenedAtMostOnce == \A t \in Tokens : opens[t] <= 1

================================================================================
