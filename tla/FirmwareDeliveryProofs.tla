------------------------ MODULE FirmwareDeliveryProofs -------------------------
(***************************************************************************)
(* Theorems about FirmwareDelivery, for every number of firmwares,         *)
(* versions, devices, tokens and concurrent requests.                      *)
(***************************************************************************)
EXTENDS FirmwareDelivery, TLAPS

--------------------------------------------------------------------------------
(* The inductive invariant                                                 *)

UploadSteps == {"put", "create", "cleanup"}
OpeningSteps == {"firmware", "open"}

\* An upload owns its id alone and has no row yet; every other handler works on a
\* firmware that has, or had, its row.
UploadsOwn ==
    \A r \in Requests :
        /\ req[r].step \in UploadSteps => row[req[r].fw] = "none"
        /\ req[r].step \in Steps \ (UploadSteps \cup {"idle"}) => row[req[r].fw] # "none"
        /\ \A q \in Requests : req[r].step \in UploadSteps /\ req[q].step \in UploadSteps
                                 /\ req[r].fw = req[q].fw => r = q

\* A token names a firmware that has, or had, its row.
TokensNameRows == \A t \in Tokens : token[t].state # "none" => row[token[t].fw] # "none"

\* The blob is there when its row is to be created, the row is gone when its blob
\* is to be removed.
StepsOrdered ==
    \A r \in Requests :
        /\ req[r].step = "create" => req[r].fw \in blob
        /\ req[r].step = "erase" => row[req[r].fw] = "deleted"

\* Consuming a token admits one request to the stream, once.
OneOpener ==
    \A t \in Tokens :
        /\ opens[t] <= 1
        /\ token[t].state # "consumed" => opens[t] = 0
        /\ \A r \in Requests : req[r].tok = t /\ req[r].step \in OpeningSteps =>
              /\ opens[t] = 0
              /\ token[t].state = "consumed"
              /\ \A q \in Requests : req[q].tok = t /\ req[q].step \in OpeningSteps => q = r

Safe ==
    /\ UploadsOwn
    /\ TokensNameRows
    /\ StepsOrdered
    /\ OneOpener
    /\ LiveHasBlob
    /\ LiveVersionsUnique
    /\ NoUnaccountedBlob

IInv == TypeOK /\ Safe

--------------------------------------------------------------------------------
(* How a handler's record changes                                          *)

\* Goto replaces the step of one record.
LEMMA GotoStep ==
    ASSUME TypeOK, NEW r \in Requests, NEW s \in Steps, Goto(r, s)
    PROVE  /\ req' \in [Requests -> RequestRecords]
           /\ req'[r].step = s
           /\ req'[r].fw = req[r].fw /\ req'[r].dev = req[r].dev /\ req'[r].tok = req[r].tok
           /\ \A q \in Requests : q # r => req'[q] = req[q]
    BY DEF TypeOK, Goto, RequestRecords

\* Finish makes one slot idle.
LEMMA FinishStep ==
    ASSUME TypeOK, NEW r \in Requests, Finish(r)
    PROVE  /\ req' \in [Requests -> RequestRecords]
           /\ req'[r] = Idle /\ req'[r].step = "idle"
           /\ \A q \in Requests : q # r => req'[q] = req[q]
    BY DEF TypeOK, Finish, RequestRecords, Idle, Steps

\* Begin fills an idle slot.
LEMMA BeginStep ==
    ASSUME TypeOK, NEW r \in Requests, NEW s \in Steps, NEW f \in Firmwares,
           NEW d \in Devices \cup {None}, NEW t \in Tokens \cup {None}, Begin(r, s, f, d, t)
    PROVE  /\ req[r].step = "idle"
           /\ req' \in [Requests -> RequestRecords]
           /\ req'[r].step = s
           /\ req'[r].fw = f /\ req'[r].dev = d /\ req'[r].tok = t
           /\ \A q \in Requests : q # r => req'[q] = req[q]
    BY DEF TypeOK, Begin, RequestRecords

\* What a handler that is not idle knows.
LEMMA Bound ==
    ASSUME TypeOK, NEW r \in Requests, req[r].step # "idle"
    PROVE  /\ req[r].fw \in Firmwares /\ version[req[r].fw] # None
           /\ req[r].step \in DownloadSteps \cup {"insert"} => req[r].dev \in Devices
           /\ req[r].step \in DownloadSteps =>
                req[r].tok \in Tokens /\ token[req[r].tok].state # "none"
    BY DEF TypeOK, RequestOK

--------------------------------------------------------------------------------
(* Steps on artifacts: uploads and deletes                                 *)

\* A step that touches neither versions nor tokens keeps the types when the
\* columns and the moving record are in order.
LEMMA ArtifactType ==
    ASSUME TypeOK, NEW r \in Requests, UNCHANGED <<version, downloads>>,
           row' \in [Firmwares -> {"none", "live", "deleted"}],
           \A f \in Firmwares : row'[f] # "none" => version[f] # None,
           blob' \subseteq Firmwares, leaked' \subseteq Firmwares,
           req' \in [Requests -> RequestRecords],
           \A q \in Requests : q # r => req'[q] = req[q],
           RequestOK(r)'
    PROVE  TypeOK'
    <1>1. \A q \in Requests : RequestOK(q)'
        <2> SUFFICES ASSUME NEW q \in Requests, q # r PROVE RequestOK(q)'
            OBVIOUS
        <2> QED
            BY DEF TypeOK, RequestOK, downloads
    <1> QED
        BY <1>1 DEF TypeOK, downloads

\* A handler step that keeps the tokens keeps OneOpener when the slot opens nothing.
LEMMA ArtifactOpener ==
    ASSUME OneOpener, NEW r \in Requests, UNCHANGED <<token, opens>>,
           \A q \in Requests : q # r => req'[q] = req[q],
           req'[r].step \notin OpeningSteps
    PROVE  OneOpener'
    BY DEF OneOpener, OpeningSteps

\* Storing the blob.
LEMMA UploadPutSafe ==
    ASSUME IInv, NEW r \in Requests, UploadPut(r)
    PROVE  IInv'
    <1> DEFINE f == req[r].fw
    <1>0. TypeOK /\ Safe /\ f \in Firmwares /\ row[f] = "none" /\ version[f] # None
        BY Bound DEF IInv, Safe, UploadPut, UploadsOwn, UploadSteps
    <1>1. CASE Finish(r) /\ UNCHANGED blob
        <2>1. /\ req' \in [Requests -> RequestRecords]
              /\ req'[r] = Idle /\ req'[r].step = "idle"
              /\ \A q \in Requests : q # r => req'[q] = req[q]
            BY <1>0, <1>1, FinishStep
        <2>2. RequestOK(r)'
            BY <2>1 DEF RequestOK, DownloadSteps
        <2>3. TypeOK'
            BY <1>0, <1>1, <2>1, <2>2, ArtifactType DEF UploadPut, TypeOK
        <2>4. OneOpener'
            BY <1>0, <2>1, ArtifactOpener DEF Safe, UploadPut, downloads, OpeningSteps
        <2>5. UploadsOwn' /\ TokensNameRows' /\ StepsOrdered'
            BY <1>0, <1>1, <2>1
            DEF Safe, UploadPut, downloads, UploadsOwn, TokensNameRows, StepsOrdered, UploadSteps
        <2>6. LiveHasBlob' /\ LiveVersionsUnique' /\ NoUnaccountedBlob'
            BY <1>0, <1>1, <2>1
            DEF Safe, UploadPut, LiveHasBlob, LiveVersionsUnique, NoUnaccountedBlob, Responsible
        <2> QED
            BY <2>3, <2>4, <2>5, <2>6 DEF IInv, Safe
    <1>2. ASSUME NEW s \in {"create", "cleanup"}, Goto(r, s), blob' = blob \cup {f}
          PROVE  IInv'
        <2>1. /\ req' \in [Requests -> RequestRecords]
              /\ req'[r].step = s /\ req'[r].fw = f
              /\ \A q \in Requests : q # r => req'[q] = req[q]
            BY <1>0, <1>2, GotoStep DEF Steps
        <2>2. RequestOK(r)'
            BY <1>0, <2>1 DEF RequestOK, DownloadSteps, UploadPut
        <2>3. TypeOK'
            BY <1>0, <1>2, <2>1, <2>2, ArtifactType DEF UploadPut, TypeOK
        <2>4. OneOpener'
            BY <1>0, <2>1, ArtifactOpener DEF Safe, UploadPut, downloads, OpeningSteps
        <2>5. UploadsOwn' /\ TokensNameRows' /\ StepsOrdered'
            BY <1>0, <1>2, <2>1
            DEF Safe, UploadPut, downloads, UploadsOwn, TokensNameRows, StepsOrdered, UploadSteps
        <2>6. LiveHasBlob' /\ LiveVersionsUnique'
            BY <1>0, <1>2 DEF Safe, UploadPut, LiveHasBlob, LiveVersionsUnique
        <2>7. NoUnaccountedBlob'
            BY <1>0, <1>2, <2>1 DEF Safe, UploadPut, NoUnaccountedBlob, Responsible
        <2> QED
            BY <2>3, <2>4, <2>5, <2>6, <2>7 DEF IInv, Safe
    <1> QED
        BY <1>1, <1>2 DEF UploadPut

\* Creating the row: the index refuses a version that became taken meanwhile.
LEMMA UploadCreateSafe ==
    ASSUME IInv, NEW r \in Requests, UploadCreate(r)
    PROVE  IInv'
    <1> DEFINE f == req[r].fw
    <1>0. /\ TypeOK /\ Safe /\ f \in Firmwares /\ row[f] = "none" /\ version[f] # None
          /\ f \in blob
        BY Bound DEF IInv, Safe, UploadCreate, UploadsOwn, UploadSteps, StepsOrdered
    <1>1. CASE ~IndexRejects(f) /\ row' = [row EXCEPT ![f] = "live"] /\ Finish(r)
        <2>1. /\ req' \in [Requests -> RequestRecords]
              /\ req'[r] = Idle /\ req'[r].step = "idle"
              /\ \A q \in Requests : q # r => req'[q] = req[q]
            BY <1>0, <1>1, FinishStep
        <2>2. /\ row' \in [Firmwares -> {"none", "live", "deleted"}]
              /\ row'[f] = "live" /\ \A g \in Firmwares : g # f => row'[g] = row[g]
            BY <1>0, <1>1 DEF TypeOK
        <2>3. RequestOK(r)'
            BY <2>1 DEF RequestOK, DownloadSteps
        <2>4. TypeOK'
            BY <1>0, <2>1, <2>2, <2>3, ArtifactType DEF UploadCreate, TypeOK
        <2>5. OneOpener'
            BY <1>0, <2>1, ArtifactOpener DEF Safe, UploadCreate, downloads, OpeningSteps
        <2>6. \A q \in Requests : q # r /\ req[q].step \in UploadSteps => req[q].fw # f
            BY <1>0 DEF Safe, UploadsOwn, UploadCreate, UploadSteps
        <2>7. \A q \in Requests : req[q].step # "idle" => req[q].fw \in Firmwares
            BY <1>0, Bound
        <2>8. UploadsOwn'
            BY <1>0, <2>1, <2>2, <2>6, <2>7 DEF Safe, UploadsOwn, UploadSteps, Steps
        <2>9. TokensNameRows'
            BY <1>0, <2>2 DEF Safe, TokensNameRows, UploadCreate, downloads, TypeOK
        <2>10. StepsOrdered'
            BY <1>0, <2>1, <2>2, <2>7 DEF Safe, StepsOrdered, UploadCreate
        <2>11. LiveHasBlob'
            BY <1>0, <2>2 DEF Safe, LiveHasBlob, UploadCreate
        <2>12. LiveVersionsUnique'
            BY <1>0, <1>1, <2>2 DEF Safe, LiveVersionsUnique, UploadCreate, IndexRejects, VersionExists
        <2>13. NoUnaccountedBlob'
            BY <1>0, <2>1, <2>2 DEF Safe, NoUnaccountedBlob, UploadCreate, Responsible, TypeOK
        <2> QED
            BY <2>4, <2>5, <2>8, <2>9, <2>10, <2>11, <2>12, <2>13 DEF IInv, Safe
    <1>2. CASE Goto(r, "cleanup") /\ UNCHANGED row
        <2>1. /\ req' \in [Requests -> RequestRecords]
              /\ req'[r].step = "cleanup" /\ req'[r].fw = f
              /\ \A q \in Requests : q # r => req'[q] = req[q]
            BY <1>0, <1>2, GotoStep DEF Steps
        <2>2. RequestOK(r)'
            BY <1>0, <2>1 DEF RequestOK, DownloadSteps, UploadCreate
        <2>3. TypeOK'
            BY <1>0, <1>2, <2>1, <2>2, ArtifactType DEF UploadCreate, TypeOK
        <2>4. OneOpener'
            BY <1>0, <2>1, ArtifactOpener DEF Safe, UploadCreate, downloads, OpeningSteps
        <2>5. UploadsOwn' /\ TokensNameRows' /\ StepsOrdered'
            BY <1>0, <1>2, <2>1
            DEF Safe, UploadCreate, downloads, UploadsOwn, TokensNameRows, StepsOrdered, UploadSteps
        <2>6. LiveHasBlob' /\ LiveVersionsUnique' /\ NoUnaccountedBlob'
            BY <1>0, <1>2, <2>1
            DEF Safe, UploadCreate, LiveHasBlob, LiveVersionsUnique, NoUnaccountedBlob, Responsible
        <2> QED
            BY <2>3, <2>4, <2>5, <2>6 DEF IInv, Safe
    <1> QED
        BY <1>1, <1>2 DEF UploadCreate

\* Removing a blob whose row was never created or is deleted, or failing to.
LEMMA RemoveBlobSafe ==
    ASSUME IInv, NEW r \in Requests, UploadCleanup(r) \/ DeleteBlob(r)
    PROVE  IInv'
    <1> DEFINE f == req[r].fw
    <1>0. /\ TypeOK /\ Safe /\ f \in Firmwares /\ row[f] # "live"
          /\ req[r].step \in {"cleanup", "erase"}
          /\ RemoveBlob(r) /\ Finish(r) /\ UNCHANGED <<row, version, downloads>>
        BY Bound DEF IInv, Safe, UploadCleanup, DeleteBlob, UploadsOwn, UploadSteps, StepsOrdered
    <1>1. /\ req' \in [Requests -> RequestRecords]
          /\ req'[r] = Idle /\ req'[r].step = "idle"
          /\ \A q \in Requests : q # r => req'[q] = req[q]
        BY <1>0, FinishStep
    <1>2. /\ blob' \subseteq blob /\ blob \ {f} \subseteq blob'
          /\ leaked \subseteq leaked' /\ leaked' \subseteq leaked \cup {f}
          /\ f \in blob' => f \in leaked'
        BY <1>0 DEF RemoveBlob
    <1>3. RequestOK(r)'
        BY <1>1 DEF RequestOK, DownloadSteps
    <1>4. TypeOK'
        BY <1>0, <1>1, <1>2, <1>3, ArtifactType DEF TypeOK
    <1>5. OneOpener'
        BY <1>0, <1>1, ArtifactOpener DEF Safe, downloads, OpeningSteps
    <1>6. UploadsOwn' /\ TokensNameRows'
        BY <1>0, <1>1 DEF Safe, downloads, UploadsOwn, TokensNameRows, UploadSteps
    <1>7. StepsOrdered'
        <2>1. \A q \in Requests : q # r /\ req[q].step = "create" => req[q].fw # f
            BY <1>0 DEF Safe, UploadsOwn, StepsOrdered, UploadSteps
        <2> QED
            BY <1>0, <1>1, <1>2, <2>1 DEF Safe, StepsOrdered
    <1>8. LiveHasBlob' /\ LiveVersionsUnique'
        BY <1>0, <1>2 DEF Safe, LiveHasBlob, LiveVersionsUnique
    <1>9. NoUnaccountedBlob'
        BY <1>0, <1>1, <1>2 DEF Safe, NoUnaccountedBlob, Responsible
    <1> QED
        BY <1>4, <1>5, <1>6, <1>7, <1>8, <1>9 DEF IInv, Safe

\* Soft-deleting the row leaves its blob to the same handler.
LEMMA DeleteRowSafe ==
    ASSUME IInv, NEW r \in Requests, DeleteRow(r)
    PROVE  IInv'
    <1> DEFINE f == req[r].fw
    <1>0. TypeOK /\ Safe /\ f \in Firmwares /\ row[f] # "none" /\ version[f] # None
        BY Bound DEF IInv, Safe, DeleteRow, UploadsOwn, UploadSteps, Steps
    <1>1. /\ req' \in [Requests -> RequestRecords]
          /\ req'[r].step = "erase" /\ req'[r].fw = f
          /\ \A q \in Requests : q # r => req'[q] = req[q]
        BY <1>0, GotoStep DEF Steps, DeleteRow
    <1>2. /\ row' \in [Firmwares -> {"none", "live", "deleted"}]
          /\ row'[f] = "deleted" /\ \A g \in Firmwares : g # f => row'[g] = row[g]
        BY <1>0 DEF TypeOK, DeleteRow
    <1>3. RequestOK(r)'
        BY <1>0, <1>1 DEF RequestOK, DownloadSteps, DeleteRow
    <1>4. TypeOK'
        BY <1>0, <1>1, <1>2, <1>3, ArtifactType DEF TypeOK, DeleteRow
    <1>5. OneOpener'
        BY <1>0, <1>1, ArtifactOpener DEF Safe, DeleteRow, downloads, OpeningSteps
    <1>6. \A q \in Requests : req[q].step # "idle" => req[q].fw \in Firmwares
        BY <1>0, Bound
    <1>7. UploadsOwn'
        BY <1>0, <1>1, <1>2, <1>6 DEF Safe, UploadsOwn, UploadSteps, Steps
    <1>8. TokensNameRows'
        BY <1>0, <1>2 DEF Safe, TokensNameRows, DeleteRow, downloads, TypeOK
    <1>9. StepsOrdered'
        BY <1>0, <1>1, <1>2, <1>6 DEF Safe, StepsOrdered, DeleteRow
    <1>10. LiveHasBlob' /\ LiveVersionsUnique'
        BY <1>0, <1>2 DEF Safe, LiveHasBlob, LiveVersionsUnique, DeleteRow
    <1>11. NoUnaccountedBlob'
        BY <1>0, <1>1, <1>2 DEF Safe, NoUnaccountedBlob, DeleteRow, Responsible, TypeOK
    <1> QED
        BY <1>4, <1>5, <1>7, <1>8, <1>9, <1>10, <1>11 DEF IInv, Safe

\* Drawing a fresh id for an upload.
LEMMA UploadCheckSafe ==
    ASSUME IInv, NEW r \in Requests, NEW f \in Firmwares, NEW v \in Versions, UploadCheck(r, f, v)
    PROVE  IInv'
    <1>0. TypeOK /\ Safe /\ row[f] = "none" /\ version[f] = None
        BY DEF IInv, UploadCheck, TypeOK
    <1>1. /\ req[r].step = "idle"
          /\ req' \in [Requests -> RequestRecords]
          /\ req'[r].step = "put" /\ req'[r].fw = f
          /\ \A q \in Requests : q # r => req'[q] = req[q]
        BY <1>0, BeginStep DEF UploadCheck, Steps
    <1>2. /\ version' \in [Firmwares -> Versions \cup {None}]
          /\ version'[f] = v /\ v # None
          /\ \A g \in Firmwares : g # f => version'[g] = version[g]
        BY <1>0, DeliveryNone DEF UploadCheck, TypeOK
    <1>3. \A q \in Requests : req[q].step # "idle" => req[q].fw \in Firmwares /\ req[q].fw # f
        BY <1>0, Bound
    <1>4. TypeOK'
        <2>1. \A q \in Requests : q # r => RequestOK(q)'
            <3> SUFFICES ASSUME NEW q \in Requests, q # r PROVE RequestOK(q)'
                OBVIOUS
            <3> QED
                BY <1>0, <1>1, <1>2 DEF TypeOK, RequestOK, UploadCheck, downloads
        <2>2. RequestOK(r)'
            BY <1>1, <1>2 DEF RequestOK, DownloadSteps
        <2>3. \A t \in Tokens : token[t].state # "none" => version'[token[t].fw] # None
            BY <1>0, <1>2 DEF TypeOK
        <2> QED
            BY <1>0, <1>1, <1>2, <2>1, <2>2, <2>3 DEF TypeOK, UploadCheck, downloads
    <1>5. OneOpener'
        BY <1>0, <1>1, ArtifactOpener DEF Safe, UploadCheck, downloads, OpeningSteps
    <1>6. UploadsOwn'
        BY <1>0, <1>1, <1>3 DEF Safe, UploadsOwn, UploadSteps, Steps, UploadCheck
    <1>7. TokensNameRows' /\ StepsOrdered'
        BY <1>0, <1>1 DEF Safe, TokensNameRows, StepsOrdered, UploadCheck, downloads
    <1>8. LiveHasBlob' /\ LiveVersionsUnique'
        BY <1>0, <1>2 DEF Safe, LiveHasBlob, LiveVersionsUnique, UploadCheck
    <1>9. NoUnaccountedBlob'
        BY <1>0, <1>1 DEF Safe, NoUnaccountedBlob, UploadCheck, Responsible
    <1> QED
        BY <1>4, <1>5, <1>6, <1>7, <1>8, <1>9 DEF IInv, Safe

--------------------------------------------------------------------------------
(* Steps that only read, and the steps on tokens                           *)

\* A statement that only reads is safe when its slot goes to a step on a firmware
\* that has its row, and to no step that opens unless it was admitted before.
LEMMA ReadSafe ==
    ASSUME IInv, NEW r \in Requests, UNCHANGED <<artifacts, downloads>>,
           req' \in [Requests -> RequestRecords],
           \A q \in Requests : q # r => req'[q] = req[q],
           RequestOK(r)',
           req[r].step \notin Responsible,
           req'[r].step \notin UploadSteps \cup {"erase"},
           req'[r].step # "idle" => row[req'[r].fw] # "none",
           req'[r].step \in OpeningSteps => req[r].step \in OpeningSteps /\ req'[r].tok = req[r].tok
    PROVE  IInv'
    <1>0. TypeOK /\ Safe
        BY DEF IInv
    <1>1. TypeOK'
        BY <1>0, ArtifactType DEF artifacts, TypeOK
    <1>2. OneOpener'
        BY <1>0 DEF Safe, OneOpener, downloads
    <1>3. UploadsOwn'
        BY <1>0 DEF Safe, UploadsOwn, artifacts
    <1>4. TokensNameRows'
        BY <1>0 DEF Safe, TokensNameRows, artifacts, downloads
    <1>5. StepsOrdered'
        BY <1>0 DEF Safe, StepsOrdered, artifacts, UploadSteps
    <1>6. LiveHasBlob' /\ LiveVersionsUnique'
        BY <1>0 DEF Safe, LiveHasBlob, LiveVersionsUnique, artifacts
    <1>7. NoUnaccountedBlob'
        BY <1>0 DEF Safe, NoUnaccountedBlob, artifacts, Responsible
    <1> QED
        BY <1>1, <1>2, <1>3, <1>4, <1>5, <1>6, <1>7 DEF IInv, Safe

\* A delete or a poll that finds a live row.
LEMMA FindSafe ==
    ASSUME IInv, NEW r \in Requests,
           \/ \E f \in Firmwares : DeleteFind(r, f)
           \/ \E d \in Devices, f \in Firmwares : IssueFind(r, d, f)
    PROVE  IInv'
    <1>0. TypeOK
        BY DEF IInv
    <1>1. ASSUME NEW f \in Firmwares, NEW d \in Devices \cup {None},
                 NEW s \in {"softdelete", "insert"}, Begin(r, s, f, d, None),
                 s = "insert" => d \in Devices, row[f] = "live", UNCHANGED <<artifacts, downloads>>
          PROVE  IInv'
        <2>1. /\ req[r].step = "idle"
              /\ req' \in [Requests -> RequestRecords]
              /\ req'[r].step = s /\ req'[r].fw = f /\ req'[r].dev = d
              /\ \A q \in Requests : q # r => req'[q] = req[q]
            BY <1>0, <1>1, BeginStep DEF Steps
        <2>2. RequestOK(r)'
            BY <1>0, <1>1, <2>1 DEF RequestOK, DownloadSteps, TypeOK, artifacts
        <2> QED
            BY <1>1, <2>1, <2>2, ReadSafe DEF Responsible, UploadSteps, OpeningSteps
    <1>2. ASSUME NEW f \in Firmwares, DeleteFind(r, f)
          PROVE  IInv'
        BY <1>1, <1>2 DEF DeleteFind
    <1>3. ASSUME NEW f \in Firmwares, NEW d \in Devices, IssueFind(r, d, f)
          PROVE  IInv'
        BY <1>1, <1>3 DEF IssueFind
    <1> QED
        BY <1>2, <1>3

\* Reading the token, the device and the firmware of a download.
LEMMA DownloadReadSafe ==
    ASSUME IInv, NEW r \in Requests,
           (\E t \in Tokens : DownloadRead(r, t)) \/ DownloadDevice(r) \/ DownloadFirmware(r)
    PROVE  IInv'
    <1>0. TypeOK /\ Safe
        BY DEF IInv
    <1>1. ASSUME NEW t \in Tokens, DownloadRead(r, t)
          PROVE  IInv'
        <2>1. /\ token[t].fw \in Firmwares /\ token[t].dev \in Devices
              /\ version[token[t].fw] # None /\ row[token[t].fw] # "none"
            BY <1>0, <1>1 DEF DownloadRead, TypeOK, Safe, TokensNameRows
        <2>2. /\ req[r].step = "idle"
              /\ req' \in [Requests -> RequestRecords]
              /\ req'[r].step = "device" /\ req'[r].fw = token[t].fw
              /\ req'[r].dev = token[t].dev /\ req'[r].tok = t
              /\ \A q \in Requests : q # r => req'[q] = req[q]
            BY <1>0, <1>1, <2>1, BeginStep DEF DownloadRead, Steps
        <2>3. RequestOK(r)'
            BY <1>1, <2>1, <2>2 DEF RequestOK, DownloadRead, artifacts, downloads
        <2> QED
            BY <1>1, <2>1, <2>2, <2>3, ReadSafe DEF DownloadRead, Responsible, UploadSteps, OpeningSteps
    <1>2. CASE DownloadDevice(r) \/ DownloadFirmware(r)
        <2>1. /\ req[r].step \in {"device", "firmware"} /\ UNCHANGED <<artifacts, downloads>>
              /\ \/ Finish(r)
                 \/ req[r].step = "device" /\ Goto(r, "consume")
                 \/ req[r].step = "firmware" /\ Goto(r, "open")
            BY <1>2 DEF DownloadDevice, DownloadFirmware
        <2>2. /\ req[r].fw \in Firmwares /\ version[req[r].fw] # None /\ req[r].dev \in Devices
              /\ req[r].tok \in Tokens /\ token[req[r].tok].state # "none"
            BY <1>0, <2>1, Bound DEF DownloadSteps
        <2>3. row[req[r].fw] # "none"
            BY <1>0, <2>1 DEF Safe, UploadsOwn, Steps, UploadSteps
        <2>4. CASE Finish(r)
            <3>1. /\ req' \in [Requests -> RequestRecords]
                  /\ req'[r] = Idle /\ req'[r].step = "idle"
                  /\ \A q \in Requests : q # r => req'[q] = req[q]
                BY <1>0, <2>4, FinishStep
            <3>2. RequestOK(r)'
                BY <3>1 DEF RequestOK, DownloadSteps
            <3> QED
                BY <2>1, <3>1, <3>2, ReadSafe DEF Responsible, UploadSteps, OpeningSteps
        <2>5. ASSUME NEW s \in {"consume", "open"}, Goto(r, s), s = "open" => req[r].step = "firmware"
              PROVE  IInv'
            <3>1. /\ req' \in [Requests -> RequestRecords]
                  /\ req'[r].step = s /\ req'[r].fw = req[r].fw
                  /\ req'[r].dev = req[r].dev /\ req'[r].tok = req[r].tok
                  /\ \A q \in Requests : q # r => req'[q] = req[q]
                BY <1>0, <2>5, GotoStep DEF Steps
            <3>2. RequestOK(r)'
                BY <2>1, <2>2, <2>5, <3>1 DEF RequestOK, artifacts, downloads
            <3> QED
                BY <2>1, <2>3, <2>5, <3>1, <3>2, ReadSafe DEF Responsible, UploadSteps, OpeningSteps
        <2> QED
            BY <2>1, <2>4, <2>5
    <1> QED
        BY <1>1, <1>2

\* A step on tokens leaves the artifacts in order.
LEMMA TokenArtifacts ==
    ASSUME Safe, NEW r \in Requests, UNCHANGED artifacts,
           \A q \in Requests : q # r => req'[q] = req[q],
           req[r].step \notin Responsible,
           req'[r].step \notin UploadSteps \cup {"erase"},
           req'[r].step # "idle" => row[req'[r].fw] # "none"
    PROVE  UploadsOwn' /\ StepsOrdered' /\ LiveHasBlob' /\ LiveVersionsUnique' /\ NoUnaccountedBlob'
    <1>1. UploadsOwn'
        BY DEF Safe, UploadsOwn, artifacts
    <1>2. StepsOrdered'
        BY DEF Safe, StepsOrdered, artifacts, UploadSteps
    <1>3. LiveHasBlob' /\ LiveVersionsUnique'
        BY DEF Safe, LiveHasBlob, LiveVersionsUnique, artifacts
    <1>4. NoUnaccountedBlob'
        BY DEF Safe, NoUnaccountedBlob, artifacts, Responsible
    <1> QED
        BY <1>1, <1>2, <1>3, <1>4

\* Inserting a fresh token.
LEMMA IssueInsertSafe ==
    ASSUME IInv, NEW r \in Requests, NEW t \in Tokens, IssueInsert(r, t)
    PROVE  IInv'
    <1>0. /\ TypeOK /\ Safe /\ req[r].fw \in Firmwares /\ req[r].dev \in Devices
          /\ version[req[r].fw] # None /\ row[req[r].fw] # "none"
        BY Bound DEF IInv, IssueInsert, Safe, UploadsOwn, UploadSteps, Steps
    <1>1. /\ req' \in [Requests -> RequestRecords]
          /\ req'[r] = Idle /\ req'[r].step = "idle"
          /\ \A q \in Requests : q # r => req'[q] = req[q]
        BY <1>0, FinishStep DEF IssueInsert
    <1>2. /\ token' \in [Tokens -> TokenRecords]
          /\ token'[t].state = "issued" /\ token'[t].fw = req[r].fw /\ token'[t].dev = req[r].dev
          /\ \A u \in Tokens : u # t => token'[u] = token[u]
        BY <1>0 DEF IssueInsert, TypeOK, TokenRecords
    <1>3. TypeOK'
        <2>1. \A q \in Requests : RequestOK(q)'
            <3> SUFFICES ASSUME NEW q \in Requests, q # r PROVE RequestOK(q)'
                BY <1>1 DEF RequestOK, DownloadSteps
            <3> QED
                BY <1>0, <1>1, <1>2 DEF TypeOK, RequestOK, IssueInsert, artifacts
        <2> QED
            BY <1>0, <1>1, <1>2, <2>1 DEF TypeOK, IssueInsert, artifacts
    <1>4. OneOpener'
        BY <1>0, <1>1, <1>2 DEF Safe, OneOpener, OpeningSteps, IssueInsert
    <1>5. TokensNameRows'
        BY <1>0, <1>2 DEF Safe, TokensNameRows, IssueInsert, artifacts
    <1>6. UNCHANGED artifacts /\ req[r].step = "insert"
        BY DEF IssueInsert
    <1> QED
        BY <1>0, <1>1, <1>3, <1>4, <1>5, <1>6, TokenArtifacts DEF IInv, Safe, Responsible, UploadSteps

\* Consuming a token: the conditional UPDATE admits one request.
LEMMA DownloadConsumeSafe ==
    ASSUME IInv, NEW r \in Requests, DownloadConsume(r)
    PROVE  IInv'
    <1> DEFINE t == req[r].tok
    <1>0. /\ TypeOK /\ Safe /\ req[r].fw \in Firmwares /\ req[r].dev \in Devices
          /\ version[req[r].fw] # None /\ row[req[r].fw] # "none"
          /\ t \in Tokens /\ token[t].state # "none"
        BY Bound DEF IInv, DownloadConsume, Safe, UploadsOwn, UploadSteps, Steps, DownloadSteps
    <1>1. UNCHANGED <<artifacts, blocked, expired, opens>> /\ req[r].step = "consume"
        BY DEF DownloadConsume
    <1>2. CASE Finish(r) /\ UNCHANGED token
        <2>1. /\ req' \in [Requests -> RequestRecords]
              /\ req'[r] = Idle /\ req'[r].step = "idle"
              /\ \A q \in Requests : q # r => req'[q] = req[q]
            BY <1>0, <1>2, FinishStep
        <2>2. RequestOK(r)'
            BY <2>1 DEF RequestOK, DownloadSteps
        <2> QED
            BY <1>1, <1>2, <2>1, <2>2, ReadSafe DEF Responsible, UploadSteps, OpeningSteps, downloads
    <1>3. CASE /\ token[t].state = "issued" /\ Goto(r, "firmware")
               /\ token' = [token EXCEPT ![t].state = "consumed"]
        <2>1. /\ req' \in [Requests -> RequestRecords]
              /\ req'[r].step = "firmware" /\ req'[r].fw = req[r].fw
              /\ req'[r].dev = req[r].dev /\ req'[r].tok = t
              /\ \A q \in Requests : q # r => req'[q] = req[q]
            BY <1>0, <1>3, GotoStep DEF Steps
        <2>2. /\ token' \in [Tokens -> TokenRecords]
              /\ token'[t].state = "consumed"
              /\ token'[t].fw = token[t].fw /\ token'[t].dev = token[t].dev
              /\ \A u \in Tokens : u # t => token'[u] = token[u]
            BY <1>0, <1>3 DEF TypeOK, TokenRecords
        <2>3. TypeOK'
            <3>1. \A q \in Requests : q # r => RequestOK(q)'
                <4> SUFFICES ASSUME NEW q \in Requests, q # r PROVE RequestOK(q)'
                    OBVIOUS
                <4> QED
                    BY <1>0, <1>1, <2>1, <2>2 DEF TypeOK, RequestOK, artifacts
            <3>2. RequestOK(r)'
                BY <1>0, <1>1, <2>1, <2>2 DEF RequestOK, artifacts
            <3> QED
                BY <1>0, <1>1, <2>1, <2>2, <3>1, <3>2 DEF TypeOK, artifacts
        <2>4. OneOpener'
            BY <1>0, <1>1, <1>3, <2>1, <2>2 DEF Safe, OneOpener, OpeningSteps
        <2>5. TokensNameRows'
            BY <1>0, <1>1, <2>2 DEF Safe, TokensNameRows, artifacts
        <2> QED
            BY <1>0, <1>1, <2>1, <2>3, <2>4, <2>5, TokenArtifacts DEF IInv, Safe, Responsible, UploadSteps
    <1> QED
        BY <1>2, <1>3 DEF DownloadConsume

\* Opening the stream ends the admitted request.
LEMMA DownloadOpenSafe ==
    ASSUME IInv, NEW r \in Requests, DownloadOpen(r)
    PROVE  IInv'
    <1> DEFINE t == req[r].tok
    <1>0. TypeOK /\ Safe /\ t \in Tokens
        BY Bound DEF IInv, DownloadOpen, DownloadSteps
    <1>1. UNCHANGED <<artifacts, blocked, token, expired>> /\ req[r].step = "open"
        BY DEF DownloadOpen
    <1>2. /\ req' \in [Requests -> RequestRecords]
          /\ req'[r] = Idle /\ req'[r].step = "idle"
          /\ \A q \in Requests : q # r => req'[q] = req[q]
        BY <1>0, FinishStep DEF DownloadOpen
    <1>3. /\ opens[t] = 0 /\ token[t].state = "consumed"
          /\ \A q \in Requests : req[q].tok = t /\ req[q].step \in OpeningSteps => q = r
        BY <1>0, <1>1 DEF Safe, OneOpener, OpeningSteps
    <1>4. /\ opens' \in [Tokens -> Nat] /\ opens'[t] <= 1
          /\ \A u \in Tokens : u # t => opens'[u] = opens[u]
        BY <1>0, <1>3 DEF DownloadOpen, TypeOK
    <1>5. TypeOK'
        <2>1. \A q \in Requests : RequestOK(q)'
            <3> SUFFICES ASSUME NEW q \in Requests, q # r PROVE RequestOK(q)'
                BY <1>2 DEF RequestOK, DownloadSteps
            <3> QED
                BY <1>0, <1>1, <1>2 DEF TypeOK, RequestOK, artifacts
        <2> QED
            BY <1>0, <1>1, <1>2, <1>4, <2>1 DEF TypeOK, artifacts
    <1>6. OneOpener'
        BY <1>0, <1>1, <1>2, <1>3, <1>4 DEF Safe, OneOpener, OpeningSteps
    <1>7. TokensNameRows'
        BY <1>0, <1>1 DEF Safe, TokensNameRows, artifacts
    <1> QED
        BY <1>0, <1>1, <1>2, <1>5, <1>6, <1>7, TokenArtifacts DEF IInv, Safe, Responsible, UploadSteps

\* A handler that dies leaves at most a recorded leak.
LEMMA AbandonSafe ==
    ASSUME IInv, NEW r \in Requests, Abandon(r)
    PROVE  IInv'
    <1>0. TypeOK /\ Safe /\ req[r].fw \in Firmwares
        BY Bound DEF IInv, Abandon
    <1>1. /\ req' \in [Requests -> RequestRecords]
          /\ req'[r] = Idle /\ req'[r].step = "idle"
          /\ \A q \in Requests : q # r => req'[q] = req[q]
        BY <1>0, FinishStep DEF Abandon
    <1>2. /\ leaked \subseteq leaked' /\ leaked' \subseteq Firmwares
          /\ req[r].step \in Responsible => req[r].fw \in leaked'
          /\ UNCHANGED <<row, version, blob, downloads>>
        BY <1>0 DEF Abandon, TypeOK
    <1>3. RequestOK(r)'
        BY <1>1 DEF RequestOK, DownloadSteps
    <1>4. TypeOK'
        BY <1>0, <1>1, <1>2, <1>3, ArtifactType DEF TypeOK
    <1>5. OneOpener'
        BY <1>0, <1>1, <1>2, ArtifactOpener DEF Safe, downloads, OpeningSteps
    <1>6. UploadsOwn' /\ TokensNameRows' /\ StepsOrdered'
        BY <1>0, <1>1, <1>2
        DEF Safe, downloads, UploadsOwn, TokensNameRows, StepsOrdered, UploadSteps
    <1>7. LiveHasBlob' /\ LiveVersionsUnique'
        BY <1>0, <1>2 DEF Safe, LiveHasBlob, LiveVersionsUnique
    <1>8. NoUnaccountedBlob'
        BY <1>0, <1>1, <1>2 DEF Safe, NoUnaccountedBlob
    <1> QED
        BY <1>4, <1>5, <1>6, <1>7, <1>8 DEF IInv, Safe

\* Time, blocking and stuttering touch no artifact, token or handler.
LEMMA OutsideSafe ==
    ASSUME IInv, UNCHANGED <<artifacts, token, opens, req>>,
           blocked' \subseteq Devices, expired' \subseteq Tokens
    PROVE  IInv'
    <1>1. TypeOK'
        BY DEF IInv, TypeOK, RequestOK, artifacts
    <1>2. UploadsOwn' /\ TokensNameRows' /\ StepsOrdered' /\ OneOpener'
        BY DEF IInv, Safe, UploadsOwn, TokensNameRows, StepsOrdered, OneOpener, artifacts
    <1>3. LiveHasBlob' /\ LiveVersionsUnique' /\ NoUnaccountedBlob'
        BY DEF IInv, Safe, LiveHasBlob, LiveVersionsUnique, NoUnaccountedBlob, artifacts
    <1> QED
        BY <1>1, <1>2, <1>3 DEF IInv, Safe

--------------------------------------------------------------------------------
(* Theorems                                                                *)

\* The empty store satisfies the invariant.
LEMMA InitInductive == Init => IInv
    <1> SUFFICES ASSUME Init PROVE IInv
        OBVIOUS
    <1>1. TypeOK
        BY DEF Init, TypeOK, RequestOK, RequestRecords, TokenRecords, NoToken, Idle, Steps, DownloadSteps
    <1>2. /\ \A r \in Requests : req[r].step = "idle"
          /\ \A t \in Tokens : token[t].state = "none" /\ opens[t] = 0
          /\ \A f \in Firmwares : row[f] = "none"
          /\ blob = {}
        BY DEF Init, Idle, NoToken
    <1>3. Safe
        BY <1>2 DEF Safe, UploadsOwn, TokensNameRows, StepsOrdered, OneOpener, LiveHasBlob,
                    LiveVersionsUnique, NoUnaccountedBlob, UploadSteps, OpeningSteps
    <1> QED
        BY <1>1, <1>3 DEF IInv

\* Every step preserves it.
LEMMA NextInductive == IInv /\ [Next]_vars => IInv'
    <1> SUFFICES ASSUME IInv, [Next]_vars PROVE IInv'
        OBVIOUS
    <1>1. ASSUME NEW r \in Requests, Arrive(r)
          PROVE  IInv'
        BY <1>1, UploadCheckSafe, FindSafe, DownloadReadSafe DEF Arrive
    <1>2. ASSUME NEW r \in Requests, Serve(r)
          PROVE  IInv'
        BY <1>2, UploadPutSafe, UploadCreateSafe, RemoveBlobSafe, DeleteRowSafe, IssueInsertSafe,
           DownloadReadSafe, DownloadConsumeSafe, DownloadOpenSafe DEF Serve
    <1>3. ASSUME NEW t \in Tokens, Expire(t)
          PROVE  IInv'
        BY <1>3, OutsideSafe DEF Expire, IInv, TypeOK
    <1>4. ASSUME NEW d \in Devices, SetBlocked(d)
          PROVE  IInv'
        BY <1>4, OutsideSafe DEF SetBlocked, IInv, TypeOK
    <1>5. CASE UNCHANGED vars
        BY <1>5, OutsideSafe DEF vars, artifacts, IInv, TypeOK
    <1> QED
        BY <1>1, <1>2, <1>3, <1>4, <1>5, AbandonSafe DEF Next

\* The inductive invariant behind the theorems below.
THEOREM DeliveryInductive == Spec => []IInv
    BY InitInductive, NextInductive, PTL DEF Spec

\* Every handler is bound to drawn firmware ids, known devices and existing tokens.
THEOREM DeliveryTypeCorrect == Spec => []TypeOK
    <1>1. IInv => TypeOK
        BY DEF IInv
    <1> QED
        BY <1>1, DeliveryInductive, PTL

\* A live firmware row always has its blob.
THEOREM LiveFirmwareIsStored == Spec => []LiveHasBlob
    <1>1. IInv => LiveHasBlob
        BY DEF IInv, Safe
    <1> QED
        BY <1>1, DeliveryInductive, PTL

\* Concurrent uploads never leave two live rows of one version.
THEOREM LiveVersionsAreUnique == Spec => []LiveVersionsUnique
    <1>1. IInv => LiveVersionsUnique
        BY DEF IInv, Safe
    <1> QED
        BY <1>1, DeliveryInductive, PTL

\* Only dead handlers and failed removals leak blobs.
THEOREM BlobsAreAccounted == Spec => []NoUnaccountedBlob
    <1>1. IInv => NoUnaccountedBlob
        BY DEF IInv, Safe
    <1> QED
        BY <1>1, DeliveryInductive, PTL

\* A download token opens at most one stream.
THEOREM TokenIsOneTime == Spec => []OpenedAtMostOnce
    <1>1. IInv => OpenedAtMostOnce
        BY DEF IInv, Safe, OneOpener, OpenedAtMostOnce
    <1> QED
        BY <1>1, DeliveryInductive, PTL

================================================================================
