-------------------------- MODULE DeviceRegistryProofs --------------------------
(***************************************************************************)
(* Theorems about DeviceRegistry, for every number of devices, tokens,     *)
(* campaigns and concurrent requests.                                      *)
(***************************************************************************)
EXTENDS DeviceRegistry, TLAPS

--------------------------------------------------------------------------------
(* The inductive invariant                                                 *)

\* A rotation that is about to commit has seen every live token of its device but
\* those of the rotations it overlaps.
RotationOK(r) ==
    At(r, "rotate", "commit") => LiveTokens(req[r].subject) \ spare \subseteq req[r].seen

\* An archival that says it is alone is, and the project is as the last archival left
\* it, if that one is alone or none overlapped.
ArchivalOK(r) ==
    req[r].op \in Archivals =>
        /\ req[r].alone => OtherArchivals(r) = {}
        /\ req[r].step = "polling" /\ (req[r].alone \/ ~torn) =>
               project \in {"deleted", IF req[r].op = "archive" THEN "archived" ELSE "active"}

\* A deletion that is about to commit has seen every device, and no campaign is in its
\* way, but for what was inserted meanwhile.
DeletionOK(r) ==
    At(r, "delete", "commit") =>
        /\ registered \ missed \subseteq req[r].seen
        /\ {c \in Campaigns : Blocking(c)} \subseteq stray

Rotations == RotationReplaces /\ \A r \in Requests : RotationOK(r)
ArchivalsInv == PollingFollowsArchive /\ \A r \in Requests : ArchivalOK(r)
Deletions == DeletedIsSealed /\ \A r \in Requests : DeletionOK(r)

IInv == TypeOK /\ Rotations /\ ArchivalsInv /\ Deletions

Others(r) == \A p \in Requests : p # r => req'[p] = req[p]

--------------------------------------------------------------------------------
(* Handlers' records                                                       *)

LEMMA FinishStep ==
    ASSUME TypeOK, NEW r \in Requests, Finish(r)
    PROVE  /\ req' \in [Requests -> RequestRecords] /\ Others(r)
           /\ req'[r].op = "none" /\ req'[r].step = "idle" /\ RequestOK(r)'
    <1>1. Idle \in RequestRecords
        BY DEF Idle, RequestRecords, Steps
    <1>2. req' \in [Requests -> RequestRecords] /\ Others(r) /\ req'[r] = Idle
        BY <1>1 DEF TypeOK, Finish, Others
    <1>3. req'[r].op = "none" /\ req'[r].step = "idle"
        BY <1>2 DEF Idle
    <1>4. RequestOK(r)'
        BY <1>3 DEF RequestOK, At, Archivals
    <1> QED
        BY <1>2, <1>3, <1>4

LEMMA MoveStep ==
    ASSUME TypeOK, NEW r \in Requests, NEW n \in RequestRecords, req' = [req EXCEPT ![r] = n]
    PROVE  req' \in [Requests -> RequestRecords] /\ Others(r) /\ req'[r] = n
    BY DEF TypeOK, Others

\* TypeOK after a step that changes one handler's record: the other handlers keep what
\* they hold as long as no device or token row goes away.
LEMMA TypeMove ==
    ASSUME TypeOK, NEW r \in Requests, req' \in [Requests -> RequestRecords], Others(r),
           RequestOK(r)', registered \subseteq registered',
           \A t \in Tokens : token[t] # "free" => token'[t] # "free" /\ owner'[t] = owner[t]
    PROVE  \A p \in Requests : RequestOK(p)'
    <1> SUFFICES ASSUME NEW p \in Requests, p # r PROVE RequestOK(p)'
        OBVIOUS
    <1>1. RequestOK(p) /\ req'[p] = req[p]
        BY DEF TypeOK, Others
    <1> QED
        BY <1>1 DEF RequestOK, At, TypeOK

\* The invariants after a step that keeps the rows and histories and moves one handler
\* that is not an archival: only that handler's own part has to be looked at.
LEMMA MoveKeeps ==
    ASSUME IInv, NEW r \in Requests, req' \in [Requests -> RequestRecords], Others(r),
           UNCHANGED <<project, deviceRows, tokenRows, campaign, history>>,
           req[r].op \notin Archivals, req'[r].op \notin Archivals, RequestOK(r)',
           RotationOK(r)', DeletionOK(r)'
    PROVE  IInv'
    <1>1. \A p \in Requests : RequestOK(p)'
        BY TypeMove DEF IInv, deviceRows, tokenRows, history
    <1>2. TypeOK'
        BY <1>1 DEF IInv, TypeOK, deviceRows, tokenRows, history
    <1>3. RotationReplaces'
        BY DEF IInv, Rotations, RotationReplaces, LiveTokens, deviceRows, tokenRows, history
    <1>4. ASSUME NEW p \in Requests PROVE RotationOK(p)' /\ DeletionOK(p)'
        <2>1. CASE p = r
            BY <2>1
        <2>2. CASE p # r
            <3>1. RotationOK(p) /\ DeletionOK(p) /\ req'[p] = req[p]
                BY <2>2 DEF IInv, Rotations, Deletions, Others
            <3> QED
                BY <3>1 DEF RotationOK, DeletionOK, At, LiveTokens, Blocking, deviceRows, tokenRows, history
        <2> QED
            BY <2>1, <2>2
    <1>5. PollingFollowsArchive'
        <2>1. req[r].step # "polling" /\ req'[r].step # "polling"
            BY DEF IInv, TypeOK, RequestOK
        <2> QED
            BY <2>1 DEF IInv, ArchivalsInv, PollingFollowsArchive, Others, deviceRows, history
    <1>6. ASSUME NEW p \in Requests PROVE ArchivalOK(p)'
        <2>1. CASE p = r
            BY <2>1 DEF ArchivalOK
        <2>2. CASE p # r
            <3>1. ArchivalOK(p) /\ req'[p] = req[p] /\ OtherArchivals(p)' = OtherArchivals(p)
                BY <2>2 DEF IInv, ArchivalsInv, Others, OtherArchivals
            <3> QED
                BY <3>1 DEF ArchivalOK, history
        <2> QED
            BY <2>1, <2>2
    <1>7. DeletedIsSealed'
        BY DEF IInv, Deletions, DeletedIsSealed, Blocking, deviceRows, history
    <1> QED
        BY <1>2, <1>3, <1>4, <1>5, <1>6, <1>7 DEF IInv, Rotations, ArchivalsInv, Deletions

\* The archivals' part after a step of another request that keeps the project, the
\* gates and the history of archivals.
LEMMA ArchivalsKeep ==
    ASSUME IInv, NEW r \in Requests, Others(r), req[r].op \notin Archivals,
           req'[r].op \notin Archivals, req[r].step # "polling", req'[r].step # "polling",
           UNCHANGED torn,
           \/ project' = project /\ disabled' = disabled
              /\ (project = "archived" => registered' \ late' \subseteq registered \ late)
           \/ project' = "deleted"
    PROVE  ArchivalsInv'
    <1>1. PollingFollowsArchive'
        BY DEF IInv, ArchivalsInv, PollingFollowsArchive, Others
    <1>2. ASSUME NEW p \in Requests PROVE ArchivalOK(p)'
        <2>1. CASE p = r
            BY <2>1 DEF ArchivalOK
        <2>2. CASE p # r
            <3>1. ArchivalOK(p) /\ req'[p] = req[p] /\ OtherArchivals(p)' = OtherArchivals(p)
                BY <2>2 DEF IInv, ArchivalsInv, Others, OtherArchivals
            <3> QED
                BY <3>1 DEF ArchivalOK
        <2> QED
            BY <2>1, <2>2
    <1> QED
        BY <1>1, <1>2 DEF ArchivalsInv

--------------------------------------------------------------------------------
(* Registration and rotation                                               *)

LEMMA ArrivalsKeep ==
    ASSUME IInv, NEW r \in Requests,
           \/ \E d \in Devices : RegisterDevice(r, d) \/ RotateDeviceToken(r, d)
           \/ \E c \in Campaigns : CreateCampaign(r, c)
    PROVE  IInv'
    <1>0. PICK seen : seen = {}
        OBVIOUS
    <1>1. PICK x \in Devices \cup Campaigns :
            /\ UNCHANGED <<project, deviceRows, tokenRows, campaign, history>>
            /\ \/ x \in Devices /\ Open(r, "register", "write", x, seen)
               \/ x \in registered /\ Open(r, "rotate", "revoke", x, seen)
               \/ x \in Campaigns /\ Open(r, "campaign", "write", x, seen)
        BY <1>0 DEF RegisterDevice, RotateDeviceToken, CreateCampaign
    <1>2. /\ "register" \in Ops /\ "rotate" \in Ops /\ "campaign" \in Ops
          /\ "write" \in Steps /\ "revoke" \in Steps
        BY DEF Ops, Steps
    <1>3. /\ req' \in [Requests -> RequestRecords] /\ Others(r) /\ req[r].op = "none"
          /\ req'[r].subject = x
          /\ \/ req'[r].op = "register" /\ req'[r].step = "write" /\ x \in Devices
             \/ req'[r].op = "rotate" /\ req'[r].step = "revoke" /\ x \in registered
             \/ req'[r].op = "campaign" /\ req'[r].step = "write" /\ x \in Campaigns
        <2>1. PICK o \in Ops, st \in Steps :
                /\ Open(r, o, st, x, seen)
                /\ \/ o = "register" /\ st = "write" /\ x \in Devices
                   \/ o = "rotate" /\ st = "revoke" /\ x \in registered
                   \/ o = "campaign" /\ st = "write" /\ x \in Campaigns
            BY <1>1, <1>2
        <2>2. TypeOK /\ x \in Devices \cup Campaigns \cup {None} /\ seen \in SUBSET (Devices \cup Tokens)
            BY <1>0, <1>1 DEF IInv
        <2> DEFINE n == [op |-> o, step |-> st, subject |-> x, seen |-> seen, alone |-> FALSE]
        <2>4. n \in RequestRecords
            BY <2>1, <2>2 DEF RequestRecords
        <2>5. req' = [req EXCEPT ![r] = n] /\ req[r].op = "none"
            BY <2>1, <2>2 DEF Open, MoveTo, TypeOK, RequestOK
        <2>6. req' \in [Requests -> RequestRecords] /\ Others(r) /\ req'[r] = n
            BY <2>2, <2>4, <2>5, MoveStep
        <2>3. /\ req' \in [Requests -> RequestRecords] /\ Others(r) /\ req[r].op = "none"
              /\ req'[r].op = o /\ req'[r].step = st /\ req'[r].subject = x
            BY <2>5, <2>6
        <2> QED
            BY <2>1, <2>3
    <1>4. RequestOK(r)'
        BY <1>1, <1>3 DEF RequestOK, At, Archivals, deviceRows
    <1>5. RotationOK(r)' /\ DeletionOK(r)'
        BY <1>3 DEF RotationOK, DeletionOK, At
    <1> QED
        BY <1>1, <1>3, <1>4, <1>5, MoveKeeps DEF Archivals

LEMMA SnapshotKeeps ==
    ASSUME IInv, NEW r \in Requests, RevokeActiveTokens(r)
    PROVE  IInv'
    <1>0. PICK d : d = req[r].subject
        OBVIOUS
    <1>1. /\ req[r].op = "rotate" /\ MoveTo(r, "rotate", "commit", d, LiveTokens(d))
          /\ UNCHANGED <<project, deviceRows, tokenRows, campaign, history>>
        BY <1>0 DEF RevokeActiveTokens, At
    <1>2. d \in registered
        BY <1>0, <1>1 DEF IInv, TypeOK, RequestOK
    <1>3. /\ LiveTokens(d) \in SUBSET (Devices \cup Tokens) /\ "commit" \in Steps /\ "rotate" \in Ops
          /\ d \in Devices \cup Campaigns \cup {None}
        BY <1>2 DEF LiveTokens, Steps, Ops, IInv, TypeOK
    <1>4. /\ req' \in [Requests -> RequestRecords] /\ Others(r)
          /\ req'[r].op = "rotate" /\ req'[r].step = "commit" /\ req'[r].subject = d
          /\ req'[r].seen = LiveTokens(d)
        <2> DEFINE n == [op |-> "rotate", step |-> "commit", subject |-> d, seen |-> LiveTokens(d),
                         alone |-> FALSE]
        <2>1. n \in RequestRecords
            BY <1>3 DEF RequestRecords
        <2>2. TypeOK /\ req' = [req EXCEPT ![r] = n]
            BY <1>1 DEF IInv, MoveTo
        <2>3. req' \in [Requests -> RequestRecords] /\ Others(r) /\ req'[r] = n
            BY <2>1, <2>2, MoveStep
        <2> QED
            BY <2>3
    <1>5. d \in registered
        BY <1>0, <1>1 DEF IInv, TypeOK, RequestOK
    <1>6. LiveTokens(d)' = LiveTokens(d)
        BY <1>0, <1>1 DEF LiveTokens, tokenRows
    <1>7. RequestOK(r)'
        BY <1>0, <1>1, <1>4, <1>5 DEF RequestOK, At, Archivals, LiveTokens, deviceRows, tokenRows
    <1>8. RotationOK(r)' /\ DeletionOK(r)'
        BY <1>4, <1>6 DEF RotationOK, DeletionOK, At
    <1> QED
        BY <1>0, <1>1, <1>4, <1>7, <1>8, MoveKeeps DEF Archivals

\* A new row for a device, or the refusal of a second one.
LEMMA RegisterKeeps ==
    ASSUME IInv, NEW r \in Requests, CreateDeviceAndAuthTokenTx(r)
    PROVE  IInv'
    <1>0. PICK d : d = req[r].subject
        OBVIOUS
    <1>1. /\ req[r].op = "register" /\ req[r].step = "write" /\ d \in Devices /\ Finish(r)
          /\ UNCHANGED <<project, campaign, spare, stray, torn>>
        BY <1>0 DEF CreateDeviceAndAuthTokenTx, At, IInv, TypeOK, RequestOK
    <1>2. /\ req' \in [Requests -> RequestRecords] /\ Others(r)
          /\ req'[r].op = "none" /\ req'[r].step = "idle" /\ RequestOK(r)'
        BY <1>0, <1>1, FinishStep DEF IInv
    <1>3. CASE d \in registered /\ UNCHANGED <<deviceRows, tokenRows, late, missed>>
        <2>1. RotationOK(r)' /\ DeletionOK(r)'
            BY <1>2 DEF RotationOK, DeletionOK, At
        <2> QED
            BY <1>0, <1>1, <1>2, <1>3, <2>1, MoveKeeps DEF Archivals, history
    <1>4. CASE d \notin registered
        <2>1. PICK t \in Tokens :
                /\ token[t] = "free" /\ token' = [token EXCEPT ![t] = "live"]
                /\ owner' = [owner EXCEPT ![t] = d] /\ active' = [active EXCEPT ![d] = t]
                /\ registered' = registered \cup {d} /\ UNCHANGED <<disabled, revoked>>
                /\ late' = IF project = "active" THEN late ELSE late \cup {d}
                /\ missed' = IF project = "deleted" \/ Deleting THEN missed \cup {d} ELSE missed
            BY <1>0, <1>4 DEF CreateDeviceAndAuthTokenTx
        <2>11. \A u \in Tokens : token[u] # "free" => token'[u] # "free" /\ owner'[u] = owner[u]
            BY <2>1 DEF IInv, TypeOK
        <2>12. registered \subseteq registered'
            BY <2>1
        <2>2. \A p \in Requests : RequestOK(p)'
            BY <1>2, <2>11, <2>12, TypeMove DEF IInv
        <2>13. /\ token' \in [Tokens -> {"free", "live", "revoked"}]
              /\ owner' \in [Tokens -> Devices \cup {None}]
              /\ active' \in [Devices -> Tokens \cup {None}]
            BY <1>0, <1>1, <2>1 DEF IInv, TypeOK
        <2>14. \A u \in Tokens : token'[u] # "free" => owner'[u] \in registered'
            BY <2>1 DEF IInv, TypeOK
        <2>15. late' \subseteq registered' /\ missed' \subseteq registered'
            BY <2>1 DEF IInv, TypeOK
        <2>3. TypeOK'
            BY <1>0, <1>1, <1>2, <2>1, <2>2, <2>13, <2>14, <2>15 DEF IInv, TypeOK
        <2>4. /\ LiveTokens(d)' = {t}
              /\ \A e \in registered : e # d /\ LiveTokens(e)' = LiveTokens(e)
            BY <1>0, <1>1, <1>4, <2>1, RegistryNone DEF LiveTokens, IInv, TypeOK
        <2>5. RotationReplaces'
            <3>1. \A e \in registered : active'[e] = active[e]
                BY <2>1, <2>4 DEF IInv, TypeOK
            <3>2. active'[d] = t
                BY <1>0, <1>1, <2>1 DEF IInv, TypeOK
            <3>3. ASSUME NEW e \in registered
                  PROVE  active'[e] \in LiveTokens(e)' /\ LiveTokens(e)' \ spare' \subseteq {active'[e]}
                BY <1>0, <1>1, <2>4, <3>1 DEF IInv, Rotations, RotationReplaces
            <3>4. active'[d] \in LiveTokens(d)' /\ LiveTokens(d)' \ spare' \subseteq {active'[d]}
                BY <2>4, <3>2
            <3> QED
                BY <2>1, <3>3, <3>4 DEF RotationReplaces
        <2>6. ASSUME NEW p \in Requests PROVE RotationOK(p)'
            <3>1. CASE p = r
                BY <1>2, <3>1 DEF RotationOK, At
            <3>2. CASE p # r
                <4>1. RotationOK(p) /\ RequestOK(p) /\ req'[p] = req[p]
                    BY <1>2, <3>2 DEF IInv, TypeOK, Rotations, Others
                <4> QED
                    BY <1>0, <1>1, <2>4, <4>1 DEF RotationOK, RequestOK, At
            <3> QED
                BY <3>1, <3>2
        <2>7. ArchivalsInv'
            BY <1>0, <1>1, <1>2, <2>1, ArchivalsKeep DEF Archivals
        <2>8. DeletedIsSealed'
            BY <1>0, <1>1, <2>1 DEF IInv, Deletions, DeletedIsSealed, Blocking
        <2>9. ASSUME NEW p \in Requests PROVE DeletionOK(p)'
            <3>1. CASE p = r
                BY <1>2, <3>1 DEF DeletionOK, At
            <3>2. CASE p # r
                <4>1. DeletionOK(p) /\ req'[p] = req[p]
                    BY <1>2, <3>2 DEF IInv, Deletions, Others
                <4>2. At(p, "delete", "commit") => Deleting
                    BY DEF Deleting
                <4> QED
                    BY <1>0, <1>1, <2>1, <4>1, <4>2 DEF DeletionOK, At, Blocking
            <3> QED
                BY <3>1, <3>2
        <2> QED
            BY <2>3, <2>5, <2>6, <2>7, <2>8, <2>9 DEF IInv, Rotations, Deletions
    <1>5. CASE d \in registered
        BY <1>0, <1>3, <1>5 DEF CreateDeviceAndAuthTokenTx
    <1> QED
        BY <1>4, <1>5

\* The commit of a rotation: the tokens it saw are revoked, the new one is live, and a
\* rotation that overlaps it will find the new one spare.
LEMMA CommitRotationKeeps ==
    ASSUME IInv, NEW r \in Requests, CommitRotation(r)
    PROVE  IInv'
    <1>0. PICK d : d = req[r].subject
        OBVIOUS
    <1>1. /\ req[r].op = "rotate" /\ req[r].step = "commit" /\ d \in registered /\ Finish(r)
          /\ UNCHANGED <<project, deviceRows, campaign, late, missed, stray, torn>>
        BY <1>0 DEF CommitRotation, At, IInv, TypeOK, RequestOK
    <1>2. /\ req' \in [Requests -> RequestRecords] /\ Others(r)
          /\ req'[r].op = "none" /\ req'[r].step = "idle" /\ RequestOK(r)'
        BY <1>0, <1>1, FinishStep DEF IInv
    <1>3. PICK n \in Tokens :
            /\ token[n] = "free"
            /\ token' = [t \in Tokens |-> IF t = n THEN "live"
                            ELSE IF t \in req[r].seen THEN "revoked" ELSE token[t]]
            /\ owner' = [owner EXCEPT ![n] = d] /\ active' = [active EXCEPT ![d] = n]
            /\ spare' = IF Rotating(r, d) THEN spare \cup {n} ELSE spare
        BY <1>0 DEF CommitRotation
    <1>4. /\ req[r].seen \subseteq {t \in Tokens : token[t] # "free" /\ owner[t] = d}
          /\ LiveTokens(d) \ spare \subseteq req[r].seen
        BY <1>0, <1>1 DEF IInv, TypeOK, RequestOK, Rotations, RotationOK, At
    <1>5. \A t \in Tokens : token[t] # "free" => token'[t] # "free" /\ owner'[t] = owner[t]
        BY <1>3 DEF IInv, TypeOK
    <1>6. \A p \in Requests : RequestOK(p)'
        BY <1>0, <1>1, <1>2, <1>5, TypeMove DEF IInv, deviceRows
    <1>21. /\ token' \in [Tokens -> {"free", "live", "revoked"}]
          /\ owner' \in [Tokens -> Devices \cup {None}]
          /\ active' \in [Devices -> Tokens \cup {None}]
        <2>1. d \in Devices
            BY <1>1 DEF IInv, TypeOK
        <2>2. token' \in [Tokens -> {"free", "live", "revoked"}]
            BY <1>3 DEF IInv, TypeOK
        <2>3. owner' \in [Tokens -> Devices \cup {None}]
            BY <1>3, <2>1 DEF IInv, TypeOK
        <2>4. active' \in [Devices -> Tokens \cup {None}]
            BY <1>3, <2>1 DEF IInv, TypeOK
        <2> QED
            BY <2>2, <2>3, <2>4
    <1>24. \A t \in Tokens : t # n => owner'[t] = owner[t]
        BY <1>3 DEF IInv, TypeOK
    <1>25. owner'[n] = d /\ token'[n] = "live"
        BY <1>3 DEF IInv, TypeOK
    <1>22. \A t \in Tokens : token'[t] # "free" => owner'[t] \in registered
        <2>1. ASSUME NEW t \in Tokens, token'[t] # "free", t # n PROVE owner'[t] \in registered
            <3>1. token[t] # "free"
                BY <1>3, <1>4, <2>1
            <3> QED
                BY <1>24, <2>1, <3>1 DEF IInv, TypeOK
        <2> QED
            BY <1>1, <1>25, <2>1
    <1>23. spare' \subseteq Tokens
        BY <1>3 DEF IInv, TypeOK
    <1>7. TypeOK'
        BY <1>0, <1>1, <1>2, <1>6, <1>21, <1>22, <1>23 DEF IInv, TypeOK, deviceRows
    <1>26. \A t \in Tokens : t # n =>
            (token'[t] = "live" <=> token[t] = "live" /\ t \notin req[r].seen)
        BY <1>3
    <1>27. LiveTokens(d)' = (LiveTokens(d) \ req[r].seen) \cup {n}
        BY <1>3, <1>24, <1>25, <1>26 DEF LiveTokens
    <1>28. ASSUME NEW e \in registered, e # d PROVE LiveTokens(e)' = LiveTokens(e)
        <2>1. \A t \in req[r].seen : owner[t] = d
            BY <1>4
        <2> QED
            BY <1>3, <1>24, <1>25, <1>26, <1>28, <2>1 DEF LiveTokens
    <1>8. /\ LiveTokens(d)' = (LiveTokens(d) \ req[r].seen) \cup {n}
          /\ \A e \in registered : e # d => LiveTokens(e)' = LiveTokens(e)
        BY <1>27, <1>28
    <1>9. RotationReplaces'
        <2>1. active'[d] = n /\ \A e \in registered : e # d => active'[e] = active[e]
            BY <1>0, <1>1, <1>3 DEF IInv, TypeOK
        <2>2. LiveTokens(d)' \ spare' \subseteq {n}
            BY <1>3, <1>4, <1>8
        <2>3. spare \subseteq spare' /\ registered' = registered
            BY <1>0, <1>1, <1>3 DEF deviceRows
        <2>4. ASSUME NEW e \in registered, e # d
              PROVE  active'[e] \in LiveTokens(e)' /\ LiveTokens(e)' \ spare' \subseteq {active'[e]}
            BY <1>8, <2>1, <2>3, <2>4 DEF IInv, Rotations, RotationReplaces
        <2>5. active'[d] \in LiveTokens(d)' /\ LiveTokens(d)' \ spare' \subseteq {active'[d]}
            BY <1>8, <2>1, <2>2
        <2> QED
            BY <2>3, <2>4, <2>5 DEF RotationReplaces
    <1>10. ASSUME NEW p \in Requests PROVE RotationOK(p)'
        <2>1. CASE p = r
            BY <1>2, <2>1 DEF RotationOK, At
        <2>2. CASE p # r
            <3>1. RotationOK(p) /\ RequestOK(p) /\ req'[p] = req[p]
                BY <1>2, <2>2 DEF IInv, TypeOK, Rotations, Others
            <3>2. CASE req[p].subject = d /\ At(p, "rotate", "commit")
                <4>1. spare' = spare \cup {n}
                    BY <1>3, <2>2, <3>2 DEF Rotating
                <4> QED
                    BY <1>8, <3>1, <3>2, <4>1 DEF RotationOK, At
            <3>3. CASE req[p].subject # d /\ At(p, "rotate", "commit")
                BY <1>3, <1>8, <3>1, <3>3 DEF RotationOK, RequestOK, At
            <3>4. CASE ~At(p, "rotate", "commit")
                BY <3>1, <3>4 DEF RotationOK, At
            <3> QED
                BY <3>2, <3>3, <3>4
        <2> QED
            BY <2>1, <2>2
    <1>11. ArchivalsInv'
        BY <1>0, <1>1, <1>2, ArchivalsKeep DEF Archivals, deviceRows
    <1>12. DeletedIsSealed' /\ \A p \in Requests : DeletionOK(p)'
        BY <1>0, <1>1, <1>2 DEF IInv, Deletions, DeletedIsSealed, DeletionOK, At, Blocking, Others, deviceRows
    <1> QED
        BY <1>7, <1>9, <1>10, <1>11, <1>12 DEF IInv, Rotations, Deletions

--------------------------------------------------------------------------------
(* Campaigns, archival and deletion                                        *)

\* What a handler's record says of a rotation or deletion about to commit.
SameCommits ==
    \A p \in Requests :
        /\ req'[p].op \in {"rotate", "delete"} => req'[p].op = req[p].op
        /\ req'[p].op \in {"rotate", "delete"} => req'[p].step = req[p].step
        /\ req'[p].op \in {"rotate", "delete"} => req'[p].subject = req[p].subject
        /\ req'[p].op \in {"rotate", "delete"} => req'[p].seen = req[p].seen

LEMMA FinishCommits ==
    ASSUME NEW r \in Requests, Others(r), req'[r].op = "none"
    PROVE  SameCommits
    BY DEF SameCommits, Others

LEMMA RotationsKeep ==
    ASSUME IInv, SameCommits, UNCHANGED <<registered, tokenRows, spare>>
    PROVE  Rotations'
    <1>1. RotationReplaces'
        BY DEF IInv, Rotations, RotationReplaces, LiveTokens, tokenRows
    <1>2. ASSUME NEW p \in Requests, At(p, "rotate", "commit")' PROVE RotationOK(p)'
        <2>1. At(p, "rotate", "commit") /\ req'[p].subject = req[p].subject /\ req'[p].seen = req[p].seen
            BY <1>2 DEF SameCommits, At
        <2>2. LiveTokens(req[p].subject) \ spare \subseteq req[p].seen
            BY <2>1 DEF IInv, Rotations, RotationOK
        <2> QED
            BY <2>1, <2>2 DEF RotationOK, LiveTokens, tokenRows
    <1> QED
        BY <1>1, <1>2 DEF Rotations, RotationOK

LEMMA DeletionsKeep ==
    ASSUME IInv, SameCommits, UNCHANGED <<registered, missed>>, revoked \subseteq revoked',
           project' = "deleted" => project = "deleted",
           \A c \in Campaigns : campaign'[c] = "open" => campaign[c] = "open",
           stray \subseteq stray'
    PROVE  Deletions'
    <1>1. DeletedIsSealed'
        BY DEF IInv, Deletions, DeletedIsSealed, Blocking
    <1>2. ASSUME NEW p \in Requests, At(p, "delete", "commit")' PROVE DeletionOK(p)'
        <2>1. At(p, "delete", "commit") /\ req'[p].seen = req[p].seen
            BY <1>2 DEF SameCommits, At
        <2> QED
            BY <2>1 DEF IInv, Deletions, DeletionOK, Blocking
    <1> QED
        BY <1>1, <1>2 DEF Deletions, DeletionOK

\* A campaign is inserted; one that a deletion did not count is stray.
LEMMA BundleKeeps ==
    ASSUME IInv, NEW r \in Requests, CreateCampaignBundle(r)
    PROVE  IInv'
    <1>0. PICK c : c = req[r].subject
        OBVIOUS
    <1>1. /\ req[r].op = "campaign" /\ req[r].step = "write" /\ c \in Campaigns /\ Finish(r)
          /\ UNCHANGED <<project, deviceRows, tokenRows, late, missed, spare, torn>>
        BY <1>0 DEF CreateCampaignBundle, At, IInv, TypeOK, RequestOK
    <1>2. /\ req' \in [Requests -> RequestRecords] /\ Others(r)
          /\ req'[r].op = "none" /\ req'[r].step = "idle" /\ RequestOK(r)'
        BY <1>1, FinishStep DEF IInv
    <1>3. \/ UNCHANGED <<campaign, stray>>
          \/ /\ campaign' = [campaign EXCEPT ![c] = "open"]
             /\ stray' = IF project = "deleted" \/ Deleting THEN stray \cup {c} ELSE stray
        BY <1>0 DEF CreateCampaignBundle
    <1>4. \A p \in Requests : RequestOK(p)'
        BY <1>1, <1>2, TypeMove DEF IInv, deviceRows, tokenRows
    <1>5. stray \subseteq stray' /\ stray' \subseteq Campaigns
        BY <1>1, <1>3 DEF IInv, TypeOK
    <1>6. campaign' \in [Campaigns -> {"none", "open", "closed"}]
        BY <1>1, <1>3 DEF IInv, TypeOK
    <1>7. TypeOK'
        BY <1>1, <1>2, <1>4, <1>5, <1>6 DEF IInv, TypeOK, deviceRows, tokenRows
    <1>8. SameCommits
        BY <1>2, FinishCommits
    <1>9. Rotations'
        BY <1>1, <1>8, RotationsKeep DEF deviceRows
    <1>10. ArchivalsInv'
        BY <1>1, <1>2, ArchivalsKeep DEF Archivals, deviceRows
    <1>11. project = "deleted" \/ Deleting =>
              \A b \in Campaigns : campaign'[b] = "open" => campaign[b] = "open" \/ b \in stray'
        BY <1>1, <1>3 DEF IInv, TypeOK
    <1>12. DeletedIsSealed'
        BY <1>1, <1>5, <1>11 DEF IInv, Deletions, DeletedIsSealed, Blocking, deviceRows
    <1>13. ASSUME NEW p \in Requests, At(p, "delete", "commit")' PROVE DeletionOK(p)'
        <2>1. At(p, "delete", "commit") /\ req'[p].seen = req[p].seen
            BY <1>8, <1>13 DEF SameCommits, At
        <2>2. Deleting
            BY <2>1 DEF Deleting
        <2> QED
            BY <1>1, <1>5, <1>11, <2>1, <2>2 DEF IInv, Deletions, DeletionOK, Blocking, deviceRows
    <1> QED
        BY <1>7, <1>9, <1>10, <1>12, <1>13 DEF IInv, Deletions, DeletionOK

LEMMA CloseKeeps ==
    ASSUME IInv, NEW c \in Campaigns, CloseCampaign(c)
    PROVE  IInv'
    <1>1. /\ campaign' = [campaign EXCEPT ![c] = "closed"]
          /\ UNCHANGED <<project, registered, disabled, revoked, tokenRows, req, late, missed, spare,
                         stray, torn>>
        BY DEF CloseCampaign, deviceRows, history
    <1>2. campaign' \in [Campaigns -> {"none", "open", "closed"}]
        BY <1>1 DEF IInv, TypeOK
    <1>3. TypeOK'
        BY <1>1, <1>2 DEF IInv, TypeOK, RequestOK, At, tokenRows
    <1>4. SameCommits
        BY <1>1 DEF SameCommits
    <1>5. \A b \in Campaigns : campaign'[b] = "open" => campaign[b] = "open"
        BY <1>1 DEF IInv, TypeOK
    <1>6. Rotations' /\ Deletions'
        BY <1>1, <1>4, <1>5, RotationsKeep, DeletionsKeep
    <1>7. ArchivalsInv'
        BY <1>1 DEF IInv, ArchivalsInv, PollingFollowsArchive, ArchivalOK, OtherArchivals
    <1> QED
        BY <1>3, <1>6, <1>7 DEF IInv

LEMMA DeleteStartKeeps ==
    ASSUME IInv, NEW r \in Requests, DeleteProject(r)
    PROVE  IInv'
    <1>0. PICK seen : seen = registered
        OBVIOUS
    <1>1. /\ Open(r, "delete", "commit", None, seen) /\ ~ \E c \in Campaigns : Blocking(c)
          /\ UNCHANGED <<project, deviceRows, tokenRows, campaign, history>>
        BY <1>0 DEF DeleteProject
    <1>2. /\ TypeOK /\ "delete" \in Ops /\ "commit" \in Steps
          /\ None \in Devices \cup Campaigns \cup {None} /\ seen \in SUBSET (Devices \cup Tokens)
        BY <1>0 DEF IInv, TypeOK, Ops, Steps
    <1>3. /\ req' \in [Requests -> RequestRecords] /\ Others(r) /\ req[r].op = "none"
          /\ req'[r].op = "delete" /\ req'[r].step = "commit" /\ req'[r].seen = seen
        <2> DEFINE n == [op |-> "delete", step |-> "commit", subject |-> None, seen |-> seen,
                         alone |-> FALSE]
        <2>1. n \in RequestRecords
            BY <1>2 DEF RequestRecords
        <2>2. req' = [req EXCEPT ![r] = n] /\ req[r].op = "none"
            BY <1>1, <1>2 DEF Open, MoveTo, TypeOK, RequestOK
        <2>3. req' \in [Requests -> RequestRecords] /\ Others(r) /\ req'[r] = n
            BY <1>2, <2>1, <2>2, MoveStep
        <2> QED
            BY <2>2, <2>3
    <1>4. RequestOK(r)'
        BY <1>0, <1>1, <1>3 DEF RequestOK, At, Archivals, deviceRows
    <1>5. RotationOK(r)' /\ DeletionOK(r)'
        BY <1>0, <1>1, <1>3 DEF RotationOK, DeletionOK, At, Blocking, deviceRows, history
    <1> QED
        BY <1>1, <1>3, <1>4, <1>5, MoveKeeps DEF Archivals

LEMMA DeleteCommitKeeps ==
    ASSUME IInv, NEW r \in Requests, DeleteProjectSoft(r)
    PROVE  IInv'
    <1>1. /\ At(r, "delete", "commit") /\ Finish(r) /\ project' = "deleted"
          /\ revoked' = revoked \cup req[r].seen /\ disabled' = disabled \cup req[r].seen
          /\ UNCHANGED <<registered, tokenRows, campaign, late, missed, spare, stray, torn>>
        BY DEF DeleteProjectSoft, history
    <1>2. /\ req' \in [Requests -> RequestRecords] /\ Others(r)
          /\ req'[r].op = "none" /\ req'[r].step = "idle" /\ RequestOK(r)'
        BY <1>1, FinishStep DEF IInv
    <1>3. \A p \in Requests : RequestOK(p)'
        BY <1>1, <1>2, TypeMove DEF IInv, tokenRows
    <1>4. req[r].seen \subseteq registered /\ req[r].op \notin Archivals /\ req[r].step # "polling"
        BY <1>1 DEF IInv, TypeOK, RequestOK, At, Archivals
    <1>5. TypeOK'
        BY <1>1, <1>2, <1>3, <1>4 DEF IInv, TypeOK, tokenRows
    <1>6. SameCommits
        BY <1>2, FinishCommits
    <1>7. Rotations'
        BY <1>1, <1>6, RotationsKeep
    <1>8. ArchivalsInv'
        BY <1>1, <1>2, <1>4, ArchivalsKeep DEF Archivals
    <1>9. DeletedIsSealed'
        BY <1>1 DEF IInv, Deletions, DeletionOK, DeletedIsSealed, Blocking
    <1>10. ASSUME NEW p \in Requests, At(p, "delete", "commit")' PROVE DeletionOK(p)'
        <2>1. At(p, "delete", "commit") /\ req'[p].seen = req[p].seen
            BY <1>6, <1>10 DEF SameCommits, At
        <2> QED
            BY <1>1, <2>1 DEF IInv, Deletions, DeletionOK, Blocking
    <1> QED
        BY <1>5, <1>7, <1>8, <1>9, <1>10 DEF IInv, Deletions, DeletionOK

\* An archival arrives and takes the others' claim to be alone from them.
LEMMA ArchiveStartKeeps ==
    ASSUME IInv, NEW r \in Requests, NEW o \in Archivals, ArchiveProject(r, o)
    PROVE  IInv'
    <1>1. /\ req[r].step = "idle"
          /\ UNCHANGED <<project, registered, disabled, revoked, tokenRows, campaign, late, missed, spare,
                         stray, torn>>
          /\ req' = [p \in Requests |->
                       IF p = r THEN [op |-> o, step |-> "project", subject |-> None, seen |-> {},
                                      alone |-> OtherArchivals(r) = {}]
                       ELSE [req[p] EXCEPT !.alone = FALSE]]
        BY DEF ArchiveProject, deviceRows, history
    <1>2. /\ req'[r].op = o /\ req'[r].step = "project" /\ req'[r].seen = {}
          /\ req'[r].alone = (OtherArchivals(r) = {})
        BY <1>1
    <1>3. req'[r] \in RequestRecords
        <2>1. o \in Ops \cup {"none"} /\ "project" \in Steps
            BY DEF Ops, Steps
        <2> QED
            BY <1>1, <2>1 DEF RequestRecords
    <1>4. ASSUME NEW p \in Requests, p # r
          PROVE  /\ req'[p] \in RequestRecords /\ req'[p].op = req[p].op /\ req'[p].step = req[p].step
                 /\ req'[p].subject = req[p].subject /\ req'[p].seen = req[p].seen /\ req'[p].alone = FALSE
        <2>1. req[p] \in RequestRecords /\ req'[p] = [req[p] EXCEPT !.alone = FALSE]
            BY <1>1, <1>4 DEF IInv, TypeOK
        <2> QED
            BY <2>1 DEF RequestRecords
    <1>5. req' \in [Requests -> RequestRecords]
        <2>1. \A p \in Requests : req'[p] \in RequestRecords
            BY <1>3, <1>4
        <2>2. req' = [p \in Requests |-> req'[p]]
            BY <1>1
        <2> QED
            BY <2>1, <2>2
    <1>6. req[r].op = "none" /\ req[r].op \notin Archivals
        BY <1>1 DEF IInv, TypeOK, RequestOK, Archivals
    <1>7. ASSUME NEW p \in Requests PROVE RequestOK(p)'
        <2>1. CASE p = r
            BY <1>2, <2>1 DEF RequestOK, At, Archivals
        <2>2. CASE p # r
            <3>1. RequestOK(p)
                BY DEF IInv, TypeOK
            <3> QED
                <4>1. /\ req'[p].op = req[p].op /\ req'[p].step = req[p].step
                      /\ req'[p].subject = req[p].subject /\ req'[p].seen = req[p].seen
                    BY <1>4, <2>2
                <4> QED
                    BY <1>1, <3>1, <4>1 DEF RequestOK, At, tokenRows
        <2> QED
            BY <2>1, <2>2
    <1>8. TypeOK'
        BY <1>1, <1>5, <1>7 DEF IInv, TypeOK, tokenRows
    <1>9. SameCommits
        BY <1>2, <1>4 DEF SameCommits, Archivals
    <1>10. Rotations' /\ Deletions'
        BY <1>1, <1>9, RotationsKeep, DeletionsKeep
    <1>11. PollingFollowsArchive'
        <2>1. \A p \in Requests : req[p].step = "polling" => req'[p].step = "polling"
            BY <1>1, <1>4
        <2> QED
            BY <1>1, <2>1 DEF IInv, ArchivalsInv, PollingFollowsArchive
    <1>12. ASSUME NEW p \in Requests PROVE ArchivalOK(p)'
        <2>1. CASE p = r
            <3>1. OtherArchivals(r)' = OtherArchivals(r)
                BY <1>4 DEF OtherArchivals
            <3> QED
                BY <1>2, <2>1, <3>1 DEF ArchivalOK
        <2>2. CASE p # r
            <3>1. ArchivalOK(p)
                BY DEF IInv, ArchivalsInv
            <3>2. /\ req'[p].op = req[p].op /\ req'[p].step = req[p].step /\ ~req'[p].alone
                  /\ project' = project /\ torn' = torn
                BY <1>1, <1>4, <2>2
            <3> QED
                BY <3>1, <3>2 DEF ArchivalOK
        <2> QED
            BY <2>1, <2>2
    <1> QED
        BY <1>8, <1>10, <1>11, <1>12 DEF IInv, ArchivalsInv

\* No other archival is alone while this one is in flight.
LEMMA NotAlone ==
    ASSUME IInv, NEW r \in Requests, NEW p \in Requests, p # r,
           req[r].op \in Archivals, req[p].op \in Archivals
    PROVE  ~req[p].alone /\ ~req[r].alone
    <1>1. r \in OtherArchivals(p) /\ p \in OtherArchivals(r)
        BY DEF OtherArchivals
    <1> QED
        BY <1>1 DEF IInv, ArchivalsInv, ArchivalOK

LEMMA ArchiveProjectKeeps ==
    ASSUME IInv, NEW r \in Requests, SetProjectArchived(r)
    PROVE  IInv'
    <1>1. /\ req[r].op \in Archivals /\ req[r].step = "project"
          /\ req' = [req EXCEPT ![r].step = "polling"] /\ torn' = (torn \/ ~req[r].alone)
          /\ UNCHANGED <<registered, disabled, revoked, tokenRows, campaign, late, missed, spare, stray>>
        BY DEF SetProjectArchived, deviceRows
    <1>2. /\ project' \in {"active", "archived", "deleted"} /\ (project' = "deleted" => project = "deleted")
          /\ project' \in {"deleted", IF req[r].op = "archive" THEN "archived" ELSE "active"}
        BY DEF SetProjectArchived, IInv, TypeOK
    <1>3. /\ req' \in [Requests -> RequestRecords] /\ Others(r) /\ req'[r].step = "polling"
          /\ req'[r].op = req[r].op /\ req'[r].alone = req[r].alone
        <2>1. req[r] \in RequestRecords /\ "polling" \in Steps
            BY DEF IInv, TypeOK, Steps
        <2>2. req' \in [Requests -> RequestRecords] /\ Others(r)
            BY <1>1, <2>1 DEF IInv, TypeOK, RequestRecords, Others
        <2>3. req'[r] = [req[r] EXCEPT !.step = "polling"]
            BY <1>1 DEF IInv, TypeOK
        <2> QED
            BY <2>1, <2>2, <2>3 DEF RequestRecords
    <1>4. RequestOK(r)'
        BY <1>1, <1>3 DEF RequestOK, At, Archivals
    <1>5. \A p \in Requests : RequestOK(p)'
        BY <1>1, <1>3, <1>4, TypeMove DEF IInv, tokenRows
    <1>6. TypeOK'
        BY <1>1, <1>2, <1>3, <1>5 DEF IInv, TypeOK, tokenRows, RequestRecords
    <1>7. SameCommits
        BY <1>1, <1>3 DEF SameCommits, Others, Archivals
    <1>8. Rotations' /\ Deletions'
        BY <1>1, <1>2, <1>7, RotationsKeep, DeletionsKeep
    <1>9. PollingFollowsArchive'
        BY <1>3 DEF PollingFollowsArchive
    <1>10. ASSUME NEW p \in Requests PROVE ArchivalOK(p)'
        <2>1. CASE p = r
            <3>1. OtherArchivals(r)' = OtherArchivals(r)
                BY <1>3 DEF OtherArchivals, Others
            <3> QED
                BY <1>1, <1>2, <1>3, <2>1, <3>1 DEF IInv, ArchivalsInv, ArchivalOK
        <2>2. CASE p # r /\ req[p].op \in Archivals
            <3>1. ~req[p].alone /\ torn' /\ req'[p] = req[p]
                BY <1>1, <1>3, <2>2, NotAlone DEF Others
            <3> QED
                BY <3>1 DEF ArchivalOK
        <2>3. CASE p # r /\ req[p].op \notin Archivals
            BY <1>3, <2>3 DEF ArchivalOK, Others
        <2> QED
            BY <2>1, <2>2, <2>3
    <1> QED
        BY <1>6, <1>8, <1>9, <1>10 DEF IInv, ArchivalsInv

\* The second statement of an archival, or its failure.
LEMMA ArchivePollingKeeps ==
    ASSUME IInv, NEW r \in Requests, SetDevicesPollingForArchive(r) \/ PollingUpdateFails(r)
    PROVE  IInv'
    <1>1. /\ req[r].op \in Archivals /\ req[r].step = "polling" /\ Finish(r)
          /\ UNCHANGED <<project, registered, revoked, tokenRows, campaign, missed, spare, stray>>
          /\ \/ /\ disabled' = IF req[r].op = "archive" THEN registered ELSE {}
                /\ late' = {} /\ torn' = (torn /\ ~req[r].alone)
             \/ torn' /\ torn' \in BOOLEAN /\ UNCHANGED <<disabled, late>>
        BY DEF SetDevicesPollingForArchive, PollingUpdateFails, deviceRows
    <1>2. /\ req' \in [Requests -> RequestRecords] /\ Others(r)
          /\ req'[r].op = "none" /\ req'[r].step = "idle" /\ RequestOK(r)'
        BY <1>1, FinishStep DEF IInv
    <1>3. \A p \in Requests : RequestOK(p)'
        BY <1>1, <1>2, TypeMove DEF IInv, tokenRows
    <1>4. disabled' \subseteq registered /\ late' \subseteq registered /\ torn' \in BOOLEAN
        BY <1>1 DEF IInv, TypeOK, RequestRecords
    <1>5. TypeOK'
        BY <1>1, <1>2, <1>3, <1>4 DEF IInv, TypeOK, tokenRows
    <1>6. SameCommits
        BY <1>2, FinishCommits
    <1>7. Rotations' /\ Deletions'
        BY <1>1, <1>6, RotationsKeep, DeletionsKeep
    <1>8. PollingFollowsArchive'
        BY <1>1 DEF IInv, ArchivalsInv, ArchivalOK, PollingFollowsArchive, Archivals
    <1>9. ASSUME NEW p \in Requests PROVE ArchivalOK(p)'
        <2>1. CASE p = r
            BY <1>2, <2>1 DEF ArchivalOK, Archivals
        <2>2. CASE p # r /\ req[p].op \in Archivals
            <3>1. ~req[p].alone /\ ~req[r].alone /\ req'[p] = req[p]
                BY <1>1, <1>2, <2>2, NotAlone DEF Others
            <3>2. torn => torn'
                BY <1>1, <3>1
            <3> QED
                BY <1>1, <3>1, <3>2 DEF IInv, ArchivalsInv, ArchivalOK
        <2>3. CASE p # r /\ req[p].op \notin Archivals
            BY <1>2, <2>3 DEF ArchivalOK, Others
        <2> QED
            BY <2>1, <2>2, <2>3
    <1> QED
        BY <1>5, <1>7, <1>8, <1>9 DEF IInv, ArchivalsInv

--------------------------------------------------------------------------------
(* The theorems                                                            *)

LEMMA InitIInv == Init => IInv
    <1> SUFFICES ASSUME Init PROVE IInv
        OBVIOUS
    <1>1. Idle \in RequestRecords
        BY DEF Idle, RequestRecords, Steps
    <1>2. \A r \in Requests : req[r].op = "none" /\ req[r].step = "idle"
        BY DEF Init, Idle
    <1>3. \A r \in Requests : RequestOK(r)
        BY <1>2 DEF RequestOK, At, Archivals
    <1>4. TypeOK
        BY <1>1, <1>3 DEF Init, TypeOK
    <1>5. Rotations
        BY <1>2 DEF Init, Rotations, RotationReplaces, RotationOK, At
    <1>6. ArchivalsInv
        BY <1>2 DEF Init, ArchivalsInv, PollingFollowsArchive, ArchivalOK, Archivals
    <1>7. Deletions
        BY <1>2 DEF Init, Deletions, DeletedIsSealed, DeletionOK, At
    <1> QED
        BY <1>4, <1>5, <1>6, <1>7 DEF IInv

LEMMA NextIInv == IInv /\ [Next]_vars => IInv'
    <1> SUFFICES ASSUME IInv, [Next]_vars PROVE IInv'
        OBVIOUS
    <1>1. CASE UNCHANGED vars
        BY <1>1 DEF IInv, TypeOK, RequestOK, Rotations, RotationReplaces, RotationOK, LiveTokens, At,
                    ArchivalsInv, PollingFollowsArchive, ArchivalOK, OtherArchivals, Deletions,
                    DeletedIsSealed, DeletionOK, Blocking, vars, deviceRows, tokenRows, history
    <1>2. ASSUME NEW r \in Requests, DeviceRequest(r) PROVE IInv'
        BY <1>2, ArrivalsKeep, RegisterKeeps, SnapshotKeeps, CommitRotationKeeps DEF DeviceRequest
    <1>3. ASSUME NEW r \in Requests, ProjectRequest(r) PROVE IInv'
        BY <1>3, ArchiveStartKeeps, ArchiveProjectKeeps, ArchivePollingKeeps, DeleteStartKeeps,
           DeleteCommitKeeps DEF ProjectRequest
    <1>4. ASSUME NEW r \in Requests, CampaignRequest(r) PROVE IInv'
        BY <1>4, ArrivalsKeep, BundleKeeps DEF CampaignRequest
    <1>5. ASSUME NEW c \in Campaigns, CloseCampaign(c) PROVE IInv'
        BY <1>5, CloseKeeps
    <1> QED
        BY <1>1, <1>2, <1>3, <1>4, <1>5 DEF Next

\* The invariant with what the handlers in flight hold is kept by every step.
THEOREM Inductive == Spec => []IInv
    BY InitIInv, NextIInv, PTL DEF Spec

\* Only devices with a row are gated or own tokens, for every device.Service and
\* project handler in flight.
THEOREM RegistryTypeCorrect == Spec => []TypeOK
    <1>1. IInv => TypeOK
        BY DEF IInv
    <1> QED
        BY <1>1, Inductive, PTL

\* RotateDeviceAuthTokenTx leaves a device one live token, the one its row names, but
\* for tokens of rotations that overlapped.
THEOREM RotationSafe == Spec => []RotationReplaces
    <1>1. IInv => RotationReplaces
        BY DEF IInv, Rotations
    <1> QED
        BY <1>1, Inductive, PTL

\* ArchiveProject leaves the devices' polling as the project's archival says, unless
\* its second statement failed or two archivals overlapped.
THEOREM PollingSafe == Spec => []PollingFollowsArchive
    <1>1. IInv => PollingFollowsArchive
        BY DEF IInv, ArchivalsInv
    <1> QED
        BY <1>1, Inductive, PTL

\* DeleteProjectSoft leaves no device of the project unrevoked and no campaign open but
\* those inserted during or after it.
THEOREM DeletionSeals == Spec => []DeletedIsSealed
    <1>1. IInv => DeletedIsSealed
        BY DEF IInv, Deletions
    <1> QED
        BY <1>1, Inductive, PTL

--------------------------------------------------------------------------------
(* Requests one after another                                              *)

OneAtATime == \A p, q \in Requests : req[p].step # "idle" /\ req[q].step # "idle" => p = q

\* What a request has checked still holds, and no archival has had company.
Unovertaken(r) ==
    /\ req[r].op \in {"register", "campaign"} => project = "active"
    /\ req[r].op \in Archivals => req[r].alone

NoRaces ==
    /\ late = {} /\ missed = {} /\ spare = {} /\ stray = {}
    /\ \A r \in Requests : Unovertaken(r)

\* A step of a request leaves the step of every other one alone.
LEMMA RequestStep ==
    ASSUME TypeOK, NEW r \in Requests, DeviceRequest(r) \/ ProjectRequest(r) \/ CampaignRequest(r)
    PROVE  /\ \A p \in Requests : p # r => req'[p].op = req[p].op /\ req'[p].step = req[p].step
           /\ req[r].step # "idle" \/ req'[r].step # "idle"
    <1>1. CASE DeviceRequest(r)
        BY <1>1 DEF DeviceRequest, RegisterDevice, RotateDeviceToken, CreateDeviceAndAuthTokenTx,
                    RevokeActiveTokens, CommitRotation, Open, MoveTo, Finish, At, TypeOK
    <1>2. CASE \E o \in Archivals : ArchiveProject(r, o)
        <2>1. PICK o \in Archivals : ArchiveProject(r, o)
            BY <1>2
        <2>2. \A p \in Requests : p # r => req'[p] = [req[p] EXCEPT !.alone = FALSE]
            BY <2>1 DEF ArchiveProject
        <2>3. \A p \in Requests : req[p] \in RequestRecords
            BY DEF TypeOK
        <2>4. \A p \in Requests : p # r => req'[p].op = req[p].op /\ req'[p].step = req[p].step
            BY <2>2, <2>3 DEF RequestRecords
        <2>5. req'[r].step = "project"
            BY <2>1 DEF ArchiveProject
        <2> QED
            BY <2>4, <2>5
    <1>3. CASE \/ SetProjectArchived(r) \/ SetDevicesPollingForArchive(r) \/ PollingUpdateFails(r)
               \/ DeleteProject(r) \/ DeleteProjectSoft(r)
        BY <1>3 DEF SetProjectArchived, SetDevicesPollingForArchive, PollingUpdateFails, DeleteProject,
                    DeleteProjectSoft, Open, MoveTo, Finish, At, TypeOK
    <1>4. CASE CampaignRequest(r)
        BY <1>4 DEF CampaignRequest, CreateCampaign, CreateCampaignBundle, Open, MoveTo, Finish, At, TypeOK
    <1> QED
        BY <1>1, <1>2, <1>3, <1>4 DEF ProjectRequest

\* When requests do not overlap, the others are idle before and after a step of one.
LEMMA OthersIdle ==
    ASSUME TypeOK, OneAtATime, OneAtATime', NEW r \in Requests,
           DeviceRequest(r) \/ ProjectRequest(r) \/ CampaignRequest(r)
    PROVE  \A p \in Requests : p # r => req[p].op = "none" /\ req'[p].op = "none"
    <1> SUFFICES ASSUME NEW p \in Requests, p # r PROVE req[p].op = "none" /\ req'[p].op = "none"
        OBVIOUS
    <1>1. req'[p].op = req[p].op /\ req'[p].step = req[p].step /\ req[p].step = "idle"
        BY RequestStep DEF OneAtATime
    <1> QED
        BY <1>1 DEF TypeOK, RequestOK

LEMMA SerialStep ==
    ASSUME IInv, NoRaces, OneAtATime, OneAtATime', NEW r \in Requests,
           DeviceRequest(r) \/ ProjectRequest(r) \/ CampaignRequest(r)
    PROVE  NoRaces'
    <1>0. TypeOK /\ RequestOK(r)
        BY DEF IInv, TypeOK
    <1>1. \A p \in Requests : p # r => req[p].op = "none" /\ req'[p].op = "none"
        BY <1>0, OthersIdle
    <1>2. ASSUME late' = {}, missed' = {}, spare' = {}, stray' = {}, Unovertaken(r)' PROVE NoRaces'
        BY <1>1, <1>2 DEF NoRaces, Unovertaken, Archivals
    <1>3. ASSUME late' = {}, missed' = {}, spare' = {}, stray' = {}, Finish(r) PROVE NoRaces'
        <2>1. req'[r].op = "none"
            BY <1>0, <1>3 DEF Finish, Idle, TypeOK
        <2> QED
            BY <1>2, <1>3, <2>1 DEF Unovertaken, Archivals
    <1>4. late = {} /\ missed = {} /\ spare = {} /\ stray = {} /\ Unovertaken(r)
        BY DEF NoRaces
    <1>5. ASSUME UNCHANGED history, Unovertaken(r)' PROVE NoRaces'
        BY <1>2, <1>4, <1>5 DEF history
    <1>6. CASE DeviceRequest(r)
        <2>1. CASE \E d \in Devices : RegisterDevice(r, d) \/ RotateDeviceToken(r, d)
            BY <1>0, <1>5, <2>1 DEF RegisterDevice, RotateDeviceToken, ensureProjectNotArchived, Open, MoveTo,
                                    Unovertaken, TypeOK, Archivals
        <2>2. CASE CreateDeviceAndAuthTokenTx(r)
            <3>1. project = "active" /\ ~Deleting
                BY <1>1, <1>4, <2>2 DEF CreateDeviceAndAuthTokenTx, Unovertaken, Deleting, At
            <3> QED
                BY <1>3, <1>4, <2>2, <3>1 DEF CreateDeviceAndAuthTokenTx
        <2>3. CASE RevokeActiveTokens(r)
            BY <1>0, <1>5, <2>3 DEF RevokeActiveTokens, MoveTo, Unovertaken, TypeOK, Archivals
        <2>4. CASE CommitRotation(r)
            <3>1. ~Rotating(r, req[r].subject)
                BY <1>1 DEF Rotating, At
            <3> QED
                BY <1>3, <1>4, <2>4, <3>1 DEF CommitRotation
        <2> QED
            BY <1>6, <2>1, <2>2, <2>3, <2>4 DEF DeviceRequest
    <1>7. CASE ProjectRequest(r)
        <2>1. ASSUME NEW o \in Archivals, ArchiveProject(r, o) PROVE NoRaces'
            <3>1. OtherArchivals(r) = {}
                BY <1>1 DEF OtherArchivals, Archivals
            <3>2. req'[r].op = o /\ req'[r].alone /\ UNCHANGED history
                BY <2>1, <3>1 DEF ArchiveProject
            <3> QED
                BY <1>5, <3>2 DEF Unovertaken, Archivals
        <2>2. CASE SetProjectArchived(r)
            <3>1. req'[r].op = req[r].op /\ req'[r].alone = req[r].alone /\ req[r].op \in Archivals
                BY <1>0, <2>2 DEF SetProjectArchived, TypeOK, RequestRecords
            <3>2. UNCHANGED <<late, missed, spare, stray>>
                BY <2>2 DEF SetProjectArchived
            <3> QED
                BY <1>2, <1>4, <3>1, <3>2 DEF Unovertaken, Archivals
        <2>3. CASE SetDevicesPollingForArchive(r) \/ PollingUpdateFails(r)
            BY <1>3, <1>4, <2>3 DEF SetDevicesPollingForArchive, PollingUpdateFails
        <2>4. CASE DeleteProject(r)
            BY <1>0, <1>5, <2>4 DEF DeleteProject, Open, MoveTo, Unovertaken, TypeOK, Archivals
        <2>5. CASE DeleteProjectSoft(r)
            BY <1>3, <1>4, <2>5 DEF DeleteProjectSoft, history
        <2> QED
            BY <1>7, <2>1, <2>2, <2>3, <2>4, <2>5 DEF ProjectRequest
    <1>8. CASE CampaignRequest(r)
        <2>1. CASE \E c \in Campaigns : CreateCampaign(r, c)
            BY <1>0, <1>5, <2>1 DEF CreateCampaign, ensureProjectNotArchived, Open, MoveTo, Unovertaken,
                                    TypeOK, Archivals
        <2>2. CASE CreateCampaignBundle(r)
            <3>1. project = "active" /\ ~Deleting
                BY <1>1, <1>4, <2>2 DEF CreateCampaignBundle, Unovertaken, Deleting, At
            <3> QED
                BY <1>3, <1>4, <2>2, <3>1 DEF CreateCampaignBundle
        <2> QED
            BY <1>8, <2>1, <2>2 DEF CampaignRequest
    <1> QED
        BY <1>6, <1>7, <1>8

LEMMA SerialNext == IInv /\ NoRaces /\ OneAtATime /\ OneAtATime' /\ [Next]_vars => NoRaces'
    <1> SUFFICES ASSUME IInv, NoRaces, OneAtATime, OneAtATime', [Next]_vars PROVE NoRaces'
        OBVIOUS
    <1>1. CASE UNCHANGED vars
        BY <1>1 DEF vars, history, NoRaces, Unovertaken
    <1>2. CASE \E c \in Campaigns : CloseCampaign(c)
        BY <1>2 DEF CloseCampaign, history, NoRaces, Unovertaken
    <1> QED
        BY <1>1, <1>2, SerialStep DEF Next

\* The exceptions of RotationReplaces, PollingFollowsArchive and DeletedIsSealed are races,
\* but for an archival whose second statement fails: when requests are served one after
\* another, a device has one live token, an archived project no device that may poll, and
\* a deleted one no usable device and no open campaign.
THEOREM SerialRequestsAreClean ==
    Spec /\ []OneAtATime =>
        [](/\ \A d \in registered : LiveTokens(d) = {active[d]}
           /\ project = "deleted" => registered \subseteq revoked /\ ~ \E c \in Campaigns : Blocking(c)
           /\ project = "archived" /\ ~torn /\ (\A r \in Requests : req[r].step # "polling") =>
                  registered \subseteq disabled)
    <1> DEFINE Clean ==
            /\ \A d \in registered : LiveTokens(d) = {active[d]}
            /\ project = "deleted" => registered \subseteq revoked /\ ~ \E c \in Campaigns : Blocking(c)
            /\ project = "archived" /\ ~torn /\ (\A r \in Requests : req[r].step # "polling") =>
                   registered \subseteq disabled
    <1>1. Init => NoRaces
        BY DEF Init, NoRaces, Unovertaken, Idle, Archivals
    <1>2. RotationReplaces /\ PollingFollowsArchive /\ DeletedIsSealed /\ NoRaces => Clean
        BY DEF NoRaces, RotationReplaces, PollingFollowsArchive, DeletedIsSealed
    <1> HIDE DEF Clean
    <1>3. Spec /\ []OneAtATime => []Clean
        BY <1>1, <1>2, SerialNext, Inductive, RotationSafe, PollingSafe, DeletionSeals, PTL DEF Spec
    <1> QED
        BY <1>3 DEF Clean

================================================================================
