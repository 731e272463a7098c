--------------------------- MODULE AuthSessionsProofs ---------------------------
(***************************************************************************)
(* Theorems about AuthSessions, for every number of sessions, reset tokens *)
(* and concurrent requests and every bound on the password changes.        *)
(***************************************************************************)
EXTENDS AuthSessions, TLAPS

--------------------------------------------------------------------------------
(* The inductive invariant                                                 *)

\* Sessions that are not revoked and were not inserted behind a revocation's back.
Clean == Unrevoked \ overlapped

\* A statement that revokes many has seen every such session but the current one.
SnapshotComplete ==
    \A r \in Requests : req[r].step = "commit" =>
        \A s \in Clean : s = req[r].session \/ s \in req[r].seen

\* A session's login is a session with a row, and so is a login that was ended.
LoginsExist ==
    /\ \A s \in Sessions : HasAccess(s) => HasAccess(login[s])
    /\ \A s \in ended : HasAccess(s)

Safe ==
    /\ SurvivorsKnowPassword
    /\ OneSessionPerLogin
    /\ EndedStaysEnded
    /\ SnapshotComplete
    /\ LoginsExist

IInv == TypeOK /\ Safe /\ ResetTokenSpentOnce /\ RegisteredCanVerify

Others(r) == \A p \in Requests : p # r => req'[p] = req[p]

--------------------------------------------------------------------------------
(* Handlers' records                                                       *)

\* Finish leaves an idle slot.
LEMMA FinishStep ==
    ASSUME TypeOK, NEW r \in Requests, Finish(r)
    PROVE  /\ req' \in [Requests -> RequestRecords]
           /\ Others(r) /\ req'[r] = Idle
    <1>1. Idle \in RequestRecords
        BY MaxPasswordNat DEF Idle, RequestRecords, Ops, Steps
    <1> QED
        BY <1>1 DEF TypeOK, Finish, Others

\* Open makes the record of a new request.
LEMMA OpenStep ==
    ASSUME TypeOK, NEW r \in Requests, NEW o \in Ops, NEW st \in Steps,
           NEW s \in Sessions \cup {None}, NEW t \in ResetTokens \cup {None},
           NEW w \in 0..MaxPassword, NEW seen \in SUBSET Sessions,
           Open(r, o, st, s, t, w, seen)
    PROVE  /\ req' \in [Requests -> RequestRecords]
           /\ Others(r) /\ req[r].op = "none"
           /\ req'[r] = [op |-> o, step |-> st, session |-> s, token |-> t,
                         password |-> w, seen |-> seen]
    <1> DEFINE n == [op |-> o, step |-> st, session |-> s, token |-> t,
                     password |-> w, seen |-> seen]
    <1>1. n \in RequestRecords
        BY DEF RequestRecords
    <1>2. req' = [req EXCEPT ![r] = n] /\ req[r].step = "idle"
        BY DEF Open
    <1> QED
        BY <1>1, <1>2 DEF TypeOK, Others, RequestOK

\* TypeOK after a step that changes one handler's record and keeps the rows: only
\* that record has to be looked at.
LEMMA TypeMove ==
    ASSUME TypeOK, NEW r \in Requests, UNCHANGED <<rows, history>>,
           req' \in [Requests -> RequestRecords], Others(r), RequestOK(r)'
    PROVE  TypeOK'
    <1>1. ASSUME NEW p \in Requests PROVE RequestOK(p)'
        <2>1. CASE p = r
            BY <2>1
        <2>2. CASE p # r
            <3>1. RequestOK(p) /\ req'[p] = req[p]
                BY <2>2 DEF TypeOK, Others
            <3> QED
                BY <3>1 DEF RequestOK, HasAccess, rows
        <2> QED
            BY <2>1, <2>2
    <1> QED
        BY <1>1 DEF TypeOK, rows, history

\* Safe after such a step, when a handler that starts to revoke has a complete
\* snapshot and no change of the password stops short of its revocations.
LEMMA SafeMove ==
    ASSUME TypeOK, Safe, NEW r \in Requests, UNCHANGED <<password, status, history>>,
           account' = "deleted" => account = "deleted", Others(r),
           req'[r].step = "commit" =>
               \A s \in Clean : s = req'[r].session \/ s \in req'[r].seen,
           \A s \in Clean : req[r].op = "change" /\ req[r].step \in {"revoke", "commit"}
                                /\ req[r].session # s =>
               /\ req'[r].op = "change" /\ req'[r].session # s
               /\ req'[r].step = "commit" /\ s \in req'[r].seen
    PROVE  Safe'
    <1>1. Unrevoked' = Unrevoked /\ Clean' = Clean
        BY DEF Unrevoked, Clean, history
    <1>2. SnapshotComplete'
        BY <1>1 DEF Safe, SnapshotComplete, Others
    <1>3. LoginsExist' /\ OneSessionPerLogin' /\ EndedStaysEnded'
        BY <1>1 DEF Safe, LoginsExist, OneSessionPerLogin, EndedStaysEnded, HasAccess, Unrevoked, history
    <1>4. SurvivorsKnowPassword'
        <2> SUFFICES ASSUME NEW s \in Clean
                     PROVE  /\ account' # "deleted"
                            /\ born[login[s]] = password \/ ChangePending(s)'
            BY <1>1 DEF SurvivorsKnowPassword, Clean, history
        <2>1. account # "deleted" /\ (born[login[s]] = password \/ ChangePending(s))
            BY DEF Safe, SurvivorsKnowPassword, Clean
        <2>2. ASSUME ChangePending(s) PROVE ChangePending(s)'
            <3> PICK p \in Requests :
                  /\ req[p].op = "change" /\ req[p].session # s
                  /\ \/ req[p].step = "revoke"
                     \/ req[p].step = "commit" /\ s \in req[p].seen
                BY <2>2 DEF ChangePending
            <3>1. CASE p = r
                BY <3>1 DEF ChangePending
            <3>2. CASE p # r
                BY <3>2 DEF ChangePending, Others
            <3> QED
                BY <3>1, <3>2
        <2> QED
            BY <2>1, <2>2
    <1> QED
        BY <1>2, <1>3, <1>4 DEF Safe

\* The properties of the mailed tokens after such a step.
LEMMA TokensMove ==
    ASSUME IInv, NEW r \in Requests, UNCHANGED <<rows, history>>, Others(r), RequestOK(r)',
           req[r].op # "register", req'[r].token # None => req'[r].token = req[r].token
    PROVE  ResetTokenSpentOnce' /\ RegisteredCanVerify'
    <1>1. \A p \in Requests : req'[p].op = "reset" => req[p].token = req'[p].token
        BY SessionNone DEF IInv, TypeOK, RequestOK, Others
    <1>2. \A p \in Requests : req'[p].op = "reset" => req[p].op = "reset" /\ req'[p].token # None
        BY <1>1, SessionNone DEF IInv, TypeOK, RequestOK, Others
    <1>3. \A p \in Requests : req'[p].token # None => req'[p].token = req[p].token
        BY DEF Others
    <1>4. ResetTokenSpentOnce'
        BY <1>1, <1>2, <1>3 DEF IInv, ResetTokenSpentOnce, rows
    <1>5. RegisteredCanVerify'
        BY DEF IInv, RegisteredCanVerify, Others, rows
    <1> QED
        BY <1>4, <1>5

--------------------------------------------------------------------------------
(* Arrivals and snapshots                                                  *)

\* What every request but a registration and a reset starts with.
Opening(o, st, s, w, seen) ==
    \/ o = "login" /\ st = "write" /\ s = None /\ w = password /\ seen = {}
    \/ o = "refresh" /\ st = "write" /\ s \in Sessions /\ HasAccess(s) /\ w = 0 /\ seen = {s}
    \/ /\ \/ o \in {"logout", "change"} /\ st = "write"
          \/ o = "others" /\ st = "revoke"
       /\ s \in Sessions /\ HasAccess(s) /\ w = 0 /\ seen = {}
    \/ o = "delete" /\ st = "revoke" /\ s = None /\ w = 0 /\ seen = {}

\* Such a request holds no reset token and has no snapshot of what it will revoke.
LEMMA ArriveKeeps ==
    ASSUME IInv, NEW r \in Requests, NEW o, NEW st, NEW s, NEW w, NEW seen,
           Opening(o, st, s, w, seen), Open(r, o, st, s, None, w, seen),
           UNCHANGED <<rows, history>>
    PROVE  IInv'
    <1>1. /\ o \in Ops /\ st \in {"write", "revoke"} /\ s \in Sessions \cup {None}
          /\ w \in 0..MaxPassword /\ seen \in SUBSET Sessions
        BY MaxPasswordNat DEF Opening, Ops, IInv, TypeOK
    <1>2. /\ req' \in [Requests -> RequestRecords]
          /\ Others(r) /\ req[r].op = "none"
          /\ req'[r] = [op |-> o, step |-> st, session |-> s, token |-> None,
                        password |-> w, seen |-> seen]
        BY <1>1, OpenStep DEF IInv, Steps
    <1>3. RequestOK(r)'
        BY <1>2, MaxPasswordNat DEF Opening, RequestOK, HasAccess, IInv, TypeOK, rows
    <1>4. TypeOK'
        BY <1>2, <1>3, TypeMove DEF IInv
    <1>5. Safe'
        BY <1>1, <1>2, SafeMove DEF IInv, rows
    <1>6. ResetTokenSpentOnce' /\ RegisteredCanVerify'
        BY <1>2, <1>3, TokensMove
    <1> QED
        BY <1>4, <1>5, <1>6 DEF IInv

\* The snapshot of the transaction of a reset.
LEMMA ResetKeeps ==
    ASSUME IInv, NEW r \in Requests, NEW t \in ResetTokens, ResetPassword(r, t)
    PROVE  IInv'
    <1>1. /\ req' \in [Requests -> RequestRecords]
          /\ Others(r) /\ req[r].op = "none"
          /\ req'[r] = [op |-> "reset", step |-> "commit", session |-> None, token |-> t,
                        password |-> 0, seen |-> Unrevoked]
        <2>1. /\ "reset" \in Ops /\ "commit" \in Steps /\ 0 \in 0..MaxPassword
              /\ Unrevoked \in SUBSET Sessions
            BY MaxPasswordNat DEF Ops, Steps, Unrevoked
        <2> QED
            BY <2>1, OpenStep DEF IInv, ResetPassword
    <1>2. UNCHANGED <<rows, history>>
        BY DEF ResetPassword
    <1>3. RequestOK(r)'
        BY <1>1, <1>2, SessionNone, MaxPasswordNat DEF RequestOK, HasAccess, Unrevoked, IInv, TypeOK, rows
    <1>4. TypeOK'
        BY <1>1, <1>2, <1>3, TypeMove DEF IInv
    <1>5. Safe'
        BY <1>1, <1>2, SafeMove DEF IInv, Clean, rows
    <1>6. ResetTokenSpentOnce'
        <2>1. rtoken[t] = "live" /\ \A p \in Requests : req[p].token # t
            BY DEF ResetPassword
        <2> QED
            BY <1>1, <1>2, <2>1 DEF IInv, ResetTokenSpentOnce, Others, rows
    <1>7. RegisteredCanVerify'
        BY <1>1, <1>2 DEF IInv, RegisteredCanVerify, Others, rows
    <1> QED
        BY <1>4, <1>5, <1>6, <1>7 DEF IInv

\* The snapshot of RevokeAllOtherSessions and SoftDeleteUser.
LEMMA SnapshotKeeps ==
    ASSUME IInv, NEW r \in Requests, RevokeAllOtherSessions(r)
    PROVE  IInv'
    <1> DEFINE seen == Unrevoked \ {req[r].session}
    <1>1. req[r] \in RequestRecords /\ RequestOK(r) /\ req[r].step = "revoke"
        BY DEF IInv, TypeOK, RevokeAllOtherSessions
    <1>2. seen \in SUBSET Sessions /\ "commit" \in Steps
        BY DEF Unrevoked, Steps
    <1>3. /\ Others(r)
          /\ req'[r].op = req[r].op /\ req'[r].session = req[r].session
          /\ req'[r].token = req[r].token /\ req'[r].password = req[r].password
          /\ req'[r].step = "commit" /\ req'[r].seen = seen
        BY <1>1 DEF RevokeAllOtherSessions, RequestRecords, IInv, TypeOK, Others
    <1>4. req' \in [Requests -> RequestRecords]
        BY <1>1, <1>2 DEF RevokeAllOtherSessions, RequestRecords, IInv, TypeOK
    <1>5. UNCHANGED <<rows, history>>
        BY DEF RevokeAllOtherSessions
    <1>6. RequestOK(r)'
        BY <1>1, <1>3, <1>4, <1>5 DEF RequestOK, HasAccess, Unrevoked, rows
    <1>7. TypeOK'
        BY <1>3, <1>4, <1>5, <1>6, TypeMove DEF IInv
    <1>8. Safe'
        BY <1>1, <1>3, <1>4, <1>5, SafeMove DEF IInv, Clean, rows
    <1>9. ResetTokenSpentOnce' /\ RegisteredCanVerify'
        BY <1>1, <1>3, <1>4, <1>5, <1>6, TokensMove DEF RequestOK
    <1> QED
        BY <1>7, <1>8, <1>9 DEF IInv

\* All requests but a registration and a reset.
LEMMA ArrivalsKeep ==
    ASSUME IInv, NEW r \in Requests,
           \/ Login(r)
           \/ \E s \in Sessions : Refresh(r, s) \/ Logout(r, s)
           \/ AuthenticatedRequest(r)
    PROVE  IInv'
    <1>1. CASE Login(r)
        BY <1>1, ArriveKeeps DEF Login, Opening
    <1>2. ASSUME NEW s \in Sessions, Refresh(r, s) PROVE IInv'
        <2>1. HasAccess(s) /\ {s} \cap Unrevoked = {s}
            BY <1>2 DEF Refresh, GetSessionByRefreshHash, HasAccess, Unrevoked
        <2>2. Open(r, "refresh", "write", s, None, 0, {s}) /\ UNCHANGED <<rows, history>>
            BY <1>2, <2>1 DEF Refresh
        <2> QED
            BY <2>1, <2>2, ArriveKeeps DEF Opening
    <1>3. ASSUME NEW s \in Sessions, Logout(r, s) PROVE IInv'
        <2>1. HasAccess(s)
            BY <1>3 DEF Logout, HasAccess, Unrevoked
        <2> QED
            BY <1>3, <2>1, ArriveKeeps DEF Logout, Opening, Begin
    <1>4. ASSUME NEW s \in Sessions, ChangePassword(r, s) PROVE IInv'
        BY <1>4, ArriveKeeps DEF ChangePassword, Opening, Begin
    <1>5. ASSUME NEW s \in Sessions, RevokeOtherSessions(r, s) PROVE IInv'
        BY <1>5, ArriveKeeps DEF RevokeOtherSessions, Opening, Begin
    <1>6. ASSUME NEW s \in Sessions, DeleteAccount(r, s) PROVE IInv'
        BY <1>6, ArriveKeeps DEF DeleteAccount, Opening, Begin
    <1> QED
        BY <1>1, <1>2, <1>3, <1>4, <1>5, <1>6 DEF AuthenticatedRequest

--------------------------------------------------------------------------------
(* Steps that write                                                        *)

\* Rows and histories stay in their types, sessions keep their rows and the number
\* of passwords grows: TypeOK needs only the record of the handler that moved.
LEMMA TypeWrite ==
    ASSUME TypeOK, NEW r \in Requests,
           account' \in {"none", "unverified", "verified", "deleted"},
           password' \in 0..MaxPassword, password <= password',
           vtoken' \in TokenStates, rtoken' \in [ResetTokens -> TokenStates],
           status' \in [Sessions -> {"free", "live", "expired", "revoked"}],
           \A s \in Sessions : HasAccess(s) => HasAccess(s)',
           login' \in [Sessions -> Sessions], born' \in [Sessions -> 0..MaxPassword],
           ended' \subseteq Sessions, overlapped' \subseteq Sessions,
           req' \in [Requests -> RequestRecords], Others(r), RequestOK(r)'
    PROVE  TypeOK'
    <1>1. ASSUME NEW p \in Requests PROVE RequestOK(p)'
        <2>1. CASE p = r
            BY <2>1
        <2>2. CASE p # r
            <3>1. RequestOK(p) /\ req'[p] = req[p] /\ req[p] \in RequestRecords
                BY <2>2 DEF TypeOK, Others
            <3>2. req[p].password \in 0..MaxPassword /\ password \in 0..MaxPassword
                BY <3>1 DEF RequestRecords, TypeOK
            <3>3. req[p].password <= password'
                BY <3>1, <3>2, MaxPasswordNat DEF RequestOK
            <3>4. \A s \in req[p].seen : HasAccess(s)'
                BY <3>1 DEF RequestOK, RequestRecords
            <3> QED
                BY <3>1, <3>3, <3>4 DEF RequestOK
        <2> QED
            BY <2>1, <2>2
    <1> QED
        BY <1>1 DEF TypeOK

\* A slot that was not a reset and becomes idle holds no token.
LEMMA TokensFinish ==
    ASSUME IInv, NEW r \in Requests, Others(r), req'[r] = Idle,
           UNCHANGED rtoken
    PROVE  ResetTokenSpentOnce'
    <1>1. \A p \in Requests : req'[p].op = "reset" => p # r
        BY DEF Idle
    <1>2. \A t \in ResetTokens : req'[r].token # t
        BY SessionNone DEF Idle
    <1>3. \A p \in Requests : req'[p].op = "reset" => req[p].token \in ResetTokens
        BY <1>1 DEF IInv, TypeOK, RequestOK, RequestRecords, Others
    <1> QED
        BY <1>1, <1>2, <1>3 DEF IInv, ResetTokenSpentOnce, Others

\* Tokens and lifetimes: the sessions that are not revoked stay the same.
LEMMA RowsKeep ==
    ASSUME IInv, UNCHANGED <<password, req, history>>,
           account' \in {"none", "unverified", "verified", "deleted"},
           account' = "deleted" => account = "deleted",
           vtoken' \in TokenStates, rtoken' \in [ResetTokens -> TokenStates],
           status' \in [Sessions -> {"free", "live", "expired", "revoked"}],
           \A s \in Sessions : HasAccess(s) <=> HasAccess(s)',
           Unrevoked' = Unrevoked,
           \A t \in ResetTokens : rtoken[t] \in {"live", "expired"} =>
                                      rtoken'[t] \in {"live", "expired"},
           RegisteredCanVerify'
    PROVE  IInv'
    <1>1. TypeOK'
        BY DEF IInv, TypeOK, RequestOK, RequestRecords, history
    <1>2. SurvivorsKnowPassword'
        BY DEF IInv, Safe, SurvivorsKnowPassword, ChangePending, history
    <1>3. OneSessionPerLogin' /\ EndedStaysEnded'
        BY DEF IInv, Safe, OneSessionPerLogin, EndedStaysEnded, history
    <1>4. SnapshotComplete'
        BY DEF IInv, Safe, SnapshotComplete, Clean, history
    <1>5. LoginsExist'
        BY DEF IInv, TypeOK, Safe, LoginsExist, history
    <1>6. ResetTokenSpentOnce'
        BY SessionNone DEF IInv, TypeOK, RequestOK, RequestRecords, ResetTokenSpentOnce
    <1> QED
        BY <1>1, <1>2, <1>3, <1>4, <1>5, <1>6 DEF IInv, Safe

LEMMA VerifyKeeps ==
    ASSUME IInv, VerifyEmail
    PROVE  IInv'
    <1>1. UNCHANGED <<password, req, history, rtoken, status>> /\ account' = "verified" /\ vtoken' = "used"
        BY DEF VerifyEmail
    <1>2. Unrevoked' = Unrevoked /\ \A s \in Sessions : HasAccess(s) <=> HasAccess(s)'
        BY <1>1 DEF Unrevoked, HasAccess
    <1>3. RegisteredCanVerify'
        BY <1>1 DEF RegisteredCanVerify
    <1> QED
        BY <1>1, <1>2, <1>3, RowsKeep DEF IInv, TypeOK, TokenStates

LEMMA ForgotKeeps ==
    ASSUME IInv, NEW t \in ResetTokens, ForgotPassword(t) \/ ExpireResetToken(t)
    PROVE  IInv'
    <1>1. /\ UNCHANGED <<account, password, req, history, vtoken, status>>
          /\ \/ rtoken' = [rtoken EXCEPT ![t] = "live"]
             \/ rtoken' = [rtoken EXCEPT ![t] = "expired"]
        BY DEF ForgotPassword, ExpireResetToken
    <1>2. Unrevoked' = Unrevoked /\ \A s \in Sessions : HasAccess(s) <=> HasAccess(s)'
        BY <1>1 DEF Unrevoked, HasAccess
    <1>3. RegisteredCanVerify'
        BY <1>1 DEF IInv, RegisteredCanVerify
    <1>4. /\ rtoken' \in [ResetTokens -> TokenStates]
          /\ \A u \in ResetTokens : rtoken[u] \in {"live", "expired"} =>
                                        rtoken'[u] \in {"live", "expired"}
        BY <1>1 DEF IInv, TypeOK, TokenStates
    <1> QED
        BY <1>1, <1>2, <1>3, <1>4, RowsKeep DEF IInv, TypeOK

LEMMA ExpireKeeps ==
    ASSUME IInv, ExpireVerificationToken \/ \E s \in Sessions : ExpireSession(s)
    PROVE  IInv'
    <1>1. CASE ExpireVerificationToken
        <2>1. UNCHANGED <<account, password, req, history, rtoken, status>> /\ vtoken' = "expired"
            BY <1>1 DEF ExpireVerificationToken
        <2>2. Unrevoked' = Unrevoked /\ \A s \in Sessions : HasAccess(s) <=> HasAccess(s)'
            BY <2>1 DEF Unrevoked, HasAccess
        <2>3. RegisteredCanVerify'
            BY <2>1 DEF RegisteredCanVerify
        <2> QED
            BY <2>1, <2>2, <2>3, RowsKeep DEF IInv, TypeOK, TokenStates
    <1>2. ASSUME NEW s \in Sessions, ExpireSession(s) PROVE IInv'
        <2>1. /\ UNCHANGED <<account, password, req, history, rtoken, vtoken>>
              /\ status[s] = "live" /\ status' = [status EXCEPT ![s] = "expired"]
            BY <1>2 DEF ExpireSession
        <2>2. /\ status' \in [Sessions -> {"free", "live", "expired", "revoked"}]
              /\ \A t \in Sessions : HasAccess(t) <=> HasAccess(t)'
              /\ \A t \in Sessions : status[t] \in {"live", "expired"} <=>
                                     status'[t] \in {"live", "expired"}
            BY <2>1 DEF IInv, TypeOK, HasAccess
        <2>3. Unrevoked' = Unrevoked
            BY <2>2 DEF Unrevoked
        <2>4. RegisteredCanVerify'
            BY <2>1 DEF IInv, RegisteredCanVerify
        <2> QED
            BY <2>1, <2>2, <2>3, <2>4, RowsKeep DEF IInv, TypeOK
    <1> QED
        BY <1>1, <1>2

\* The registration's two statements.
LEMMA RegisterKeeps ==
    ASSUME IInv, NEW r \in Requests, Register(r) \/ WriteVerificationToken(r)
    PROVE  IInv'
    <1>1. /\ UNCHANGED <<password, rtoken, status, history>>
          /\ account' \in {account, "unverified"} /\ vtoken' \in {vtoken, "live"}
        BY DEF Register, WriteVerificationToken
    <1>2. CASE Register(r)
        <2>1. /\ req' \in [Requests -> RequestRecords]
              /\ Others(r) /\ req[r].op = "none"
              /\ req'[r] = [op |-> "register", step |-> "write", session |-> None,
                            token |-> None, password |-> 0, seen |-> {}]
            <3>1. "register" \in Ops /\ "write" \in Steps /\ 0 \in 0..MaxPassword
                BY MaxPasswordNat DEF Ops, Steps
            <3> QED
                BY <1>2, <3>1, OpenStep DEF Register, Begin, IInv
        <2>a. /\ req'[r].op = "register" /\ req'[r].step = "write" /\ req'[r].token = None
              /\ req'[r].session = None /\ req'[r].password = 0 /\ req'[r].seen = {}
            BY <2>1
        <2>b. 0 <= password'
            BY <1>1, MaxPasswordNat DEF IInv, TypeOK
        <2>2. RequestOK(r)'
            BY <2>a, <2>b DEF RequestOK
        <2>3. ResetTokenSpentOnce'
            <3>1. \A q \in Requests : req[q].op = "reset" => req[q].token # None
                BY DEF IInv, TypeOK, RequestOK
            <3>2. Others(r) /\ rtoken' = rtoken
                BY <1>1, <2>1
            <3> QED
                BY <2>a, <3>1, <3>2 DEF IInv, ResetTokenSpentOnce, Others
        <2>4. RegisteredCanVerify'
            BY <2>1 DEF RegisteredCanVerify
        <2>5. TypeOK'
            BY <1>1, <2>1, <2>2, TypeWrite, MaxPasswordNat
            DEF IInv, TypeOK, TokenStates, HasAccess, history
        <2>6. Safe'
            BY <1>1, <2>1, SafeMove DEF IInv
        <2> QED
            BY <2>3, <2>4, <2>5, <2>6 DEF IInv
    <1>3. CASE WriteVerificationToken(r)
        <2>1. Finish(r) /\ vtoken' = "live" /\ req[r].op = "register"
            BY <1>3 DEF WriteVerificationToken, At
        <2>2. req' \in [Requests -> RequestRecords] /\ Others(r) /\ req'[r] = Idle
            BY <2>1, FinishStep DEF IInv
        <2>3. RequestOK(r)'
            BY <1>1, <2>2, MaxPasswordNat, SessionNone DEF RequestOK, Idle, IInv, TypeOK
        <2>4. ResetTokenSpentOnce' /\ RegisteredCanVerify'
            BY <1>1, <2>1, <2>2, TokensFinish DEF RegisteredCanVerify
        <2>5. TypeOK'
            BY <1>1, <2>2, <2>3, TypeWrite, MaxPasswordNat
            DEF IInv, TypeOK, TokenStates, HasAccess, history
        <2>6. Safe'
            BY <1>1, <2>1, <2>2, SafeMove DEF IInv, Idle
        <2> QED
            BY <2>4, <2>5, <2>6 DEF IInv
    <1> QED
        BY <1>2, <1>3

\* What a handler that is at its last write leaves behind.
LEMMA FinishRecords ==
    ASSUME IInv, NEW r \in Requests, Finish(r), password' \in 0..MaxPassword
    PROVE  /\ req' \in [Requests -> RequestRecords] /\ Others(r) /\ req'[r] = Idle
           /\ RequestOK(r)' /\ req'[r].op = "none" /\ req'[r].step = "idle"
    <1>1. req' \in [Requests -> RequestRecords] /\ Others(r) /\ req'[r] = Idle
        BY FinishStep DEF IInv
    <1> QED
        BY <1>1, MaxPasswordNat, SessionNone DEF RequestOK, Idle

\* A handler other than a registration does not take the token of one away.
LEMMA VerifyFinish ==
    ASSUME IInv, NEW r \in Requests, Others(r), req[r].op # "register",
           account' = "unverified" => account = "unverified", UNCHANGED vtoken
    PROVE  RegisteredCanVerify'
    BY DEF IInv, RegisteredCanVerify, Others

\* A new session is clean when nothing overtook the login.
LEMMA IssueKeeps ==
    ASSUME IInv, NEW r \in Requests, IssueSession(r)
    PROVE  IInv'
    <1> PICK n \in Sessions :
          /\ status[n] = "free"
          /\ status' = [status EXCEPT ![n] = "live"]
          /\ login' = [login EXCEPT ![n] = n]
          /\ born' = [born EXCEPT ![n] = req[r].password]
          /\ overlapped' = IF LoginOvertaken(r) THEN overlapped \cup {n} ELSE overlapped
        BY DEF IssueSession
    <1>1. /\ UNCHANGED <<account, password, vtoken, rtoken, ended>> /\ Finish(r)
          /\ req[r].op = "login" /\ req[r].step = "write"
        BY DEF IssueSession, At
    <1>2. /\ req' \in [Requests -> RequestRecords] /\ Others(r) /\ req'[r] = Idle
          /\ RequestOK(r)' /\ req'[r].op = "none" /\ req'[r].step = "idle"
        BY <1>1, FinishRecords DEF IInv, TypeOK
    <1>3. /\ status \in [Sessions -> {"free", "live", "expired", "revoked"}]
          /\ login \in [Sessions -> Sessions] /\ born \in [Sessions -> 0..MaxPassword]
          /\ overlapped \subseteq Sessions /\ req[r].password \in 0..MaxPassword
        BY DEF IInv, TypeOK, RequestRecords
    <1>4. /\ status'[n] = "live" /\ login'[n] = n /\ born'[n] = req[r].password
          /\ \A s \in Sessions : s # n =>
               status'[s] = status[s] /\ login'[s] = login[s] /\ born'[s] = born[s]
        BY <1>3
    <1>5. TypeOK'
        BY <1>1, <1>2, <1>3, <1>4, TypeWrite, MaxPasswordNat DEF IInv, TypeOK, HasAccess
    <1>6. \A s \in Sessions : HasAccess(s) => login[s] # n /\ s # n
        BY DEF IInv, Safe, LoginsExist, HasAccess
    <1>7. \A s \in Clean' : s = n \/ (s \in Clean /\ login'[s] = login[s] /\ login[s] # n
                                        /\ born'[login[s]] = born[login[s]])
        <2> SUFFICES ASSUME NEW s \in Clean', s # n
                     PROVE  s \in Clean /\ login'[s] = login[s] /\ login[s] # n
                                /\ born'[login[s]] = born[login[s]]
            OBVIOUS
        <2>1. s \in Sessions /\ s \in Clean /\ HasAccess(s)
            BY <1>4 DEF Clean, Unrevoked, HasAccess
        <2>2. login[s] \in Sessions
            BY <1>3, <2>1
        <2> QED
            BY <1>4, <1>6, <2>1, <2>2
    <1>8. ASSUME n \in Clean'
          PROVE  account = "verified" /\ req[r].password = password /\ ~Revoking(r)
        BY <1>8 DEF Clean, LoginOvertaken
    <1>9. SurvivorsKnowPassword'
        <2> SUFFICES ASSUME NEW s \in Clean'
                     PROVE  /\ account # "deleted"
                            /\ born'[login'[s]] = password \/ ChangePending(s)'
            BY <1>1 DEF SurvivorsKnowPassword, Clean
        <2>1. CASE s = n
            BY <1>4, <1>8, <2>1
        <2>2. CASE s # n
            <3>1. /\ s \in Clean /\ account # "deleted"
                  /\ born'[login'[s]] = password \/ ChangePending(s)
                BY <1>7, <2>2 DEF IInv, Safe, SurvivorsKnowPassword, Clean
            <3> QED
                BY <1>1, <1>2, <3>1 DEF ChangePending, Others
        <2> QED
            BY <2>1, <2>2
    <1>10. OneSessionPerLogin'
        BY <1>4, <1>7 DEF IInv, Safe, OneSessionPerLogin, Clean
    <1>11. EndedStaysEnded' /\ LoginsExist'
        BY <1>1, <1>3, <1>4, <1>6, <1>7 DEF IInv, TypeOK, Safe, EndedStaysEnded, LoginsExist, HasAccess, Clean
    <1>12. SnapshotComplete'
        BY <1>1, <1>2, <1>7, <1>8 DEF IInv, Safe, SnapshotComplete, Revoking, Others
    <1>13. ResetTokenSpentOnce' /\ RegisteredCanVerify'
        BY <1>1, <1>2, TokensFinish, VerifyFinish
    <1> QED
        BY <1>5, <1>9, <1>10, <1>11, <1>12, <1>13 DEF IInv, Safe

\* The successor of a clean session is clean when nothing overtook the refresh; the
\* session it replaces is revoked.
LEMMA RotateKeeps ==
    ASSUME IInv, NEW r \in Requests, RotateSession(r)
    PROVE  IInv'
    <1> DEFINE o == req[r].session
    <1> PICK n \in Sessions :
          /\ status[n] = "free"
          /\ status' = [status EXCEPT ![n] = "live", ![o] = "revoked"]
          /\ login' = [login EXCEPT ![n] = login[o]]
          /\ overlapped' = IF o \in overlapped \/ RefreshOvertaken(r)
                           THEN overlapped \cup {n} ELSE overlapped
        BY DEF RotateSession
    <1>1. /\ UNCHANGED <<account, password, vtoken, rtoken, born, ended>> /\ Finish(r)
          /\ req[r].op = "refresh" /\ req[r].step = "write"
        BY DEF RotateSession, At
    <1>2. /\ req' \in [Requests -> RequestRecords] /\ Others(r) /\ req'[r] = Idle
          /\ RequestOK(r)' /\ req'[r].op = "none" /\ req'[r].step = "idle"
        BY <1>1, FinishRecords DEF IInv, TypeOK
    <1>3. /\ status \in [Sessions -> {"free", "live", "expired", "revoked"}]
          /\ login \in [Sessions -> Sessions] /\ overlapped \subseteq Sessions
        BY DEF IInv, TypeOK
    <1>4. o \in Sessions /\ HasAccess(o) /\ o # n /\ req[r].seen = {o}
        BY <1>1 DEF IInv, TypeOK, RequestOK, HasAccess
    <1>5. /\ status'[n] = "live" /\ status'[o] = "revoked" /\ login'[n] = login[o]
          /\ \A s \in Sessions : s # n => login'[s] = login[s]
          /\ \A s \in Sessions : s # n /\ s # o => status'[s] = status[s]
        BY <1>3, <1>4
    <1>6. TypeOK'
        BY <1>1, <1>2, <1>3, <1>4, <1>5, TypeWrite, MaxPasswordNat DEF IInv, TypeOK, HasAccess
    <1>7. \A s \in Clean' : s = n \/ (s \in Clean /\ s # o /\ login'[s] = login[s])
        BY <1>5 DEF Clean, Unrevoked
    <1>8. ASSUME n \in Clean'
          PROVE  o \in Clean /\ ~Revoking(r)
        <2>1. o \notin overlapped /\ status[o] # "revoked" /\ ~Revoking(r)
            BY <1>4, <1>8 DEF Clean, RefreshOvertaken
        <2> QED
            BY <1>3, <1>4, <2>1 DEF Clean, Unrevoked, HasAccess
    <1>9. SurvivorsKnowPassword'
        <2> SUFFICES ASSUME NEW s \in Clean'
                     PROVE  /\ account # "deleted"
                            /\ born[login'[s]] = password \/ ChangePending(s)'
            BY <1>1 DEF SurvivorsKnowPassword, Clean
        <2>1. CASE s = n
            <3>1. /\ account # "deleted"
                  /\ born[login'[n]] = password \/ ChangePending(o)
                BY <1>5, <1>8, <2>1 DEF IInv, Safe, SurvivorsKnowPassword, Clean
            <3>2. ASSUME ChangePending(o) PROVE ChangePending(n)'
                <4> PICK p \in Requests :
                      /\ req[p].op = "change" /\ req[p].session # o
                      /\ \/ req[p].step = "revoke"
                         \/ req[p].step = "commit" /\ o \in req[p].seen
                    BY <3>2 DEF ChangePending
                <4>1. p # r /\ req'[p] = req[p]
                    BY <1>1, <1>2 DEF Others
                <4>2. req[p].step = "revoke"
                    BY <1>8, <2>1, <4>1 DEF Revoking
                <4>3. req[p].session # n
                    BY DEF IInv, TypeOK, RequestOK, HasAccess
                <4> QED
                    BY <4>1, <4>2, <4>3 DEF ChangePending
            <3> QED
                BY <2>1, <3>1, <3>2
        <2>2. CASE s # n
            <3>1. /\ s \in Clean /\ account # "deleted"
                  /\ born[login'[s]] = password \/ ChangePending(s)
                BY <1>7, <2>2 DEF IInv, Safe, SurvivorsKnowPassword, Clean
            <3> QED
                BY <1>1, <1>2, <3>1 DEF ChangePending, Others
        <2> QED
            BY <2>1, <2>2
    <1>10. OneSessionPerLogin'
        BY <1>5, <1>7, <1>8 DEF IInv, Safe, OneSessionPerLogin, Clean
    <1>11. EndedStaysEnded'
        BY <1>1, <1>5, <1>7, <1>8 DEF IInv, Safe, EndedStaysEnded, Clean
    <1>12. LoginsExist'
        BY <1>1, <1>3, <1>4, <1>5 DEF IInv, TypeOK, Safe, LoginsExist, HasAccess
    <1>13. SnapshotComplete'
        BY <1>1, <1>2, <1>7, <1>8 DEF IInv, Safe, SnapshotComplete, Revoking, Others
    <1>14. ResetTokenSpentOnce' /\ RegisteredCanVerify'
        BY <1>1, <1>2, TokensFinish, VerifyFinish
    <1> QED
        BY <1>6, <1>9, <1>10, <1>11, <1>12, <1>13, <1>14 DEF IInv, Safe

\* A handler revokes the sessions gone and finishes.  A new password or a deletion
\* comes only with the revocation of all clean sessions, and a change of the
\* password revokes all that it has seen.
LEMMA RevokeSafe ==
    ASSUME IInv, NEW r \in Requests, NEW gone \in SUBSET Sessions,
           \A s \in gone : HasAccess(s),
           status' = [s \in Sessions |-> IF s \in gone THEN "revoked" ELSE status[s]],
           ended' = ended \cup Ends(gone), UNCHANGED <<login, born, overlapped>>,
           Others(r), req'[r].step = "idle",
           Clean \subseteq gone \/ UNCHANGED <<account, password>>,
           req[r].op = "change" => req[r].step = "commit" /\ req[r].seen \subseteq gone
    PROVE  Safe'
    <1>1. \A s \in Clean' : s \in Clean /\ s \notin gone
        BY DEF Clean, Unrevoked
    <1>2. SurvivorsKnowPassword'
        <2> SUFFICES ASSUME NEW s \in Clean'
                     PROVE  /\ account' # "deleted"
                            /\ born[login[s]] = password' \/ ChangePending(s)'
            BY DEF SurvivorsKnowPassword, Clean
        <2>1. s \in Clean /\ s \notin gone /\ UNCHANGED <<account, password>>
            BY <1>1
        <2>2. account # "deleted" /\ (born[login[s]] = password \/ ChangePending(s))
            BY <2>1 DEF IInv, Safe, SurvivorsKnowPassword, Clean
        <2>3. ASSUME ChangePending(s) PROVE ChangePending(s)'
            <3> PICK p \in Requests :
                  /\ req[p].op = "change" /\ req[p].session # s
                  /\ \/ req[p].step = "revoke"
                     \/ req[p].step = "commit" /\ s \in req[p].seen
                BY <2>3 DEF ChangePending
            <3>1. p # r
                BY <2>1
            <3> QED
                BY <3>1 DEF ChangePending, Others
        <2> QED
            BY <2>1, <2>2, <2>3
    <1>3. OneSessionPerLogin'
        BY <1>1 DEF IInv, Safe, OneSessionPerLogin, Clean
    <1>4. EndedStaysEnded'
        <2> SUFFICES ASSUME NEW s \in Clean', login[s] \in ended' PROVE FALSE
            BY DEF EndedStaysEnded, Clean
        <2>1. s \in Clean /\ s \notin gone /\ login[s] \notin ended
            BY <1>1 DEF IInv, Safe, EndedStaysEnded, Clean
        <2>2. PICK t \in gone : t \in Clean /\ login[t] = login[s]
            BY <2>1 DEF Ends, Clean
        <2>3. t = s
            BY <2>1, <2>2 DEF IInv, Safe, OneSessionPerLogin, Clean
        <2> QED
            BY <2>1, <2>2, <2>3
    <1>5. SnapshotComplete'
        BY <1>1 DEF IInv, Safe, SnapshotComplete, Others
    <1>6. LoginsExist'
        <2>1. \A s \in Sessions : HasAccess(s) <=> HasAccess(s)'
            BY DEF HasAccess
        <2>2. \A s \in Ends(gone) : s \in Sessions /\ HasAccess(s)
            BY DEF Ends, Unrevoked, IInv, TypeOK, Safe, LoginsExist, HasAccess
        <2> QED
            BY <2>1, <2>2 DEF IInv, TypeOK, Safe, LoginsExist
    <1> QED
        BY <1>2, <1>3, <1>4, <1>5, <1>6 DEF Safe

\* TypeOK after a revocation.
LEMMA RevokeType ==
    ASSUME IInv, NEW r \in Requests, NEW gone \in SUBSET Sessions,
           status' = [s \in Sessions |-> IF s \in gone THEN "revoked" ELSE status[s]],
           ended' = ended \cup Ends(gone), UNCHANGED <<login, born, overlapped, vtoken>>,
           rtoken' \in [ResetTokens -> TokenStates],
           account' \in {"none", "unverified", "verified", "deleted"},
           password' \in 0..MaxPassword, password <= password', Finish(r)
    PROVE  TypeOK'
    <1>1. /\ req' \in [Requests -> RequestRecords] /\ Others(r) /\ req'[r] = Idle
          /\ RequestOK(r)' /\ req'[r].op = "none" /\ req'[r].step = "idle"
        BY FinishRecords
    <1>2. Ends(gone) \subseteq Sessions
        BY DEF Ends, Unrevoked, IInv, TypeOK
    <1>3. status' \in [Sessions -> {"free", "live", "expired", "revoked"}]
        BY DEF IInv, TypeOK
    <1>4. \A s \in Sessions : HasAccess(s) => HasAccess(s)'
        BY DEF HasAccess
    <1> QED
        BY <1>1, <1>2, <1>3, <1>4, TypeWrite DEF IInv, TypeOK

LEMMA LogoutKeeps ==
    ASSUME IInv, NEW r \in Requests, RevokeSession(r)
    PROVE  IInv'
    <1> DEFINE s == req[r].session
    <1>1. /\ req[r].op = "logout" /\ status' = [status EXCEPT ![s] = "revoked"]
          /\ ended' = ended \cup Ends({s}) /\ Finish(r)
          /\ UNCHANGED <<account, password, vtoken, rtoken, login, born, overlapped>>
        BY DEF RevokeSession, At
    <1>2. s \in Sessions /\ HasAccess(s)
        BY <1>1 DEF IInv, TypeOK, RequestOK
    <1>3. status' = [t \in Sessions |-> IF t \in {s} THEN "revoked" ELSE status[t]]
        BY <1>1, <1>2 DEF IInv, TypeOK
    <1>4. /\ Others(r) /\ req'[r] = Idle /\ req'[r].step = "idle"
        BY <1>1, FinishRecords DEF IInv, TypeOK
    <1> HIDE DEF s
    <1>a. /\ rtoken' \in [ResetTokens -> TokenStates] /\ password' \in 0..MaxPassword
          /\ account' \in {"none", "unverified", "verified", "deleted"}
          /\ password <= password' /\ {s} \subseteq Sessions
        BY <1>1, <1>2, MaxPasswordNat DEF IInv, TypeOK
    <1>5. TypeOK'
        BY <1>1, <1>3, <1>a, RevokeType
    <1>6. Safe'
        BY <1>1, <1>2, <1>3, <1>4, RevokeSafe
    <1>7. ResetTokenSpentOnce' /\ RegisteredCanVerify'
        BY <1>1, <1>4, TokensFinish, VerifyFinish
    <1> QED
        BY <1>5, <1>6, <1>7 DEF IInv

\* What a handler's snapshot holds at its commit.
LEMMA SeenFacts ==
    ASSUME IInv, NEW r \in Requests, req[r].step = "commit"
    PROVE  /\ req[r].seen \in SUBSET Sessions
           /\ \A s \in req[r].seen : HasAccess(s)
           /\ req[r].session = None => Clean \subseteq req[r].seen
    <1>1. req[r].seen \in SUBSET Sessions /\ \A s \in req[r].seen : HasAccess(s)
        BY DEF IInv, TypeOK, RequestOK, RequestRecords
    <1>2. req[r].session = None => Clean \subseteq req[r].seen
        BY SessionNone DEF IInv, Safe, SnapshotComplete, Clean, Unrevoked
    <1> QED
        BY <1>1, <1>2

LEMMA CommitOthersKeeps ==
    ASSUME IInv, NEW r \in Requests, CommitRevokeOthers(r)
    PROVE  IInv'
    <1> DEFINE gone == req[r].seen
    <1>1. /\ req[r].op \in {"change", "others"} /\ req[r].step = "commit"
          /\ status' = [s \in Sessions |-> IF s \in gone THEN "revoked" ELSE status[s]]
          /\ ended' = ended \cup Ends(gone) /\ Finish(r)
          /\ UNCHANGED <<account, password, vtoken, rtoken, login, born, overlapped>>
        BY DEF CommitRevokeOthers, RevokeSeen
    <1>2. gone \in SUBSET Sessions /\ \A s \in gone : HasAccess(s)
        BY <1>1, SeenFacts
    <1>3. /\ Others(r) /\ req'[r] = Idle /\ req'[r].step = "idle"
        BY <1>1, FinishRecords DEF IInv, TypeOK
    <1>4. gone = req[r].seen
        OBVIOUS
    <1> HIDE DEF gone
    <1>5. TypeOK'
        BY <1>1, <1>2, RevokeType, MaxPasswordNat DEF IInv, TypeOK
    <1>6. Safe'
        BY <1>1, <1>2, <1>3, <1>4, RevokeSafe
    <1>7. ResetTokenSpentOnce' /\ RegisteredCanVerify'
        BY <1>1, <1>3, TokensFinish, VerifyFinish
    <1> QED
        BY <1>5, <1>6, <1>7 DEF IInv

LEMMA CommitDeleteKeeps ==
    ASSUME IInv, NEW r \in Requests, CommitDelete(r)
    PROVE  IInv'
    <1> DEFINE gone == req[r].seen
    <1>1. /\ req[r].op = "delete" /\ req[r].step = "commit" /\ account' = "deleted"
          /\ status' = [s \in Sessions |-> IF s \in gone THEN "revoked" ELSE status[s]]
          /\ ended' = ended \cup Ends(gone) /\ Finish(r)
          /\ UNCHANGED <<password, vtoken, rtoken, login, born, overlapped>>
        BY DEF CommitDelete, RevokeSeen, At
    <1>2. req[r].session = None
        BY <1>1 DEF IInv, TypeOK, RequestOK
    <1>3. gone \in SUBSET Sessions /\ Clean \subseteq gone /\ \A s \in gone : HasAccess(s)
        BY <1>1, <1>2, SeenFacts
    <1>4. /\ Others(r) /\ req'[r] = Idle /\ req'[r].step = "idle"
        BY <1>1, FinishRecords DEF IInv, TypeOK
    <1> HIDE DEF gone
    <1>5. TypeOK'
        BY <1>1, <1>3, RevokeType, MaxPasswordNat DEF IInv, TypeOK
    <1>6. Safe'
        BY <1>1, <1>3, <1>4, RevokeSafe
    <1>7. ResetTokenSpentOnce' /\ RegisteredCanVerify'
        BY <1>1, <1>4, TokensFinish DEF RegisteredCanVerify
    <1> QED
        BY <1>5, <1>6, <1>7 DEF IInv

LEMMA CommitResetKeeps ==
    ASSUME IInv, NEW r \in Requests, CommitReset(r)
    PROVE  IInv'
    <1> DEFINE gone == req[r].seen
               t == req[r].token
    <1>1. /\ req[r].op = "reset" /\ req[r].step = "commit"
          /\ rtoken' = [rtoken EXCEPT ![t] = "used"]
          /\ status' = [s \in Sessions |-> IF s \in gone THEN "revoked" ELSE status[s]]
          /\ ended' = ended \cup Ends(gone) /\ Finish(r)
          /\ UNCHANGED <<account, vtoken, login, born, overlapped>>
        BY DEF CommitReset, RevokeSeen, At
    <1>2. password' \in 0..MaxPassword /\ password <= password'
        BY MaxPasswordNat DEF CommitReset, IInv, TypeOK
    <1>3. req[r].session = None /\ t \in ResetTokens
        BY <1>1 DEF IInv, TypeOK, RequestOK, RequestRecords
    <1>4. gone \in SUBSET Sessions /\ Clean \subseteq gone /\ \A s \in gone : HasAccess(s)
        BY <1>1, <1>3, SeenFacts
    <1>5. /\ Others(r) /\ req'[r] = Idle /\ req'[r].step = "idle"
        BY <1>1, <1>2, FinishRecords
    <1>6. rtoken' \in [ResetTokens -> TokenStates]
        BY <1>1 DEF IInv, TypeOK, TokenStates
    <1>7. ResetTokenSpentOnce'
        <2> SUFFICES ASSUME NEW p \in Requests, req'[p].op = "reset"
                     PROVE  /\ rtoken'[req'[p].token] \in {"live", "expired"}
                            /\ \A q \in Requests : req'[q].token = req'[p].token => q = p
            BY DEF ResetTokenSpentOnce
        <2>1. p # r /\ req'[p] = req[p]
            BY <1>5 DEF Idle, Others
        <2>2. /\ req[p].token \in ResetTokens /\ rtoken[req[p].token] \in {"live", "expired"}
              /\ \A q \in Requests : req[q].token = req[p].token => q = p
            BY <2>1 DEF IInv, TypeOK, RequestOK, RequestRecords, ResetTokenSpentOnce
        <2>3. req[p].token # t
            BY <2>1, <2>2
        <2>4. rtoken'[req[p].token] = rtoken[req[p].token]
            BY <1>1, <2>2, <2>3 DEF IInv, TypeOK
        <2>5. \A q \in Requests : req'[q].token = req[p].token => q = p
            BY <1>5, <2>2, SessionNone DEF Idle, Others
        <2> QED
            BY <2>1, <2>2, <2>4, <2>5
    <1> HIDE DEF gone
    <1>8. TypeOK'
        BY <1>1, <1>2, <1>4, <1>6, RevokeType DEF IInv, TypeOK
    <1>9. Safe'
        BY <1>1, <1>4, <1>5, RevokeSafe
    <1>10. RegisteredCanVerify'
        BY <1>1, <1>5, VerifyFinish
    <1> QED
        BY <1>7, <1>8, <1>9, <1>10 DEF IInv

\* A stored password leaves the sessions of other logins to the revocation that
\* the handler still owes.
LEMMA UpdateKeeps ==
    ASSUME IInv, NEW r \in Requests, UpdatePassword(r)
    PROVE  IInv'
    <1> DEFINE o == req[r].session
    <1>1. /\ req[r].op = "change" /\ req[r].step = "write" /\ req[r] \in RequestRecords /\ RequestOK(r)
          /\ UNCHANGED <<account, vtoken, rtoken, status, login, ended, overlapped>>
          /\ Goto(r, "revoke")
        BY DEF UpdatePassword, At, IInv, TypeOK
    <1>2. o \in Sessions /\ login[o] \in Sessions
        BY <1>1 DEF IInv, TypeOK, RequestOK
    <1>3. \/ UNCHANGED <<password, born>>
          \/ /\ password < MaxPassword /\ password' = password + 1
             /\ born' = [born EXCEPT ![login[o]] = password + 1]
        BY DEF UpdatePassword
    <1>4. /\ password' \in 0..MaxPassword /\ password <= password'
          /\ born' \in [Sessions -> 0..MaxPassword]
        BY <1>3, MaxPasswordNat DEF IInv, TypeOK
    <1>5. /\ req' \in [Requests -> RequestRecords] /\ Others(r)
          /\ req'[r].op = "change" /\ req'[r].session = o /\ req'[r].step = "revoke"
          /\ req'[r].token = req[r].token /\ req'[r].password = req[r].password
          /\ req'[r].seen = req[r].seen
        BY <1>1 DEF Goto, IInv, TypeOK, RequestRecords, Steps, Others
    <1>6. RequestOK(r)'
        <2>1. req[r].password \in 0..MaxPassword /\ password \in 0..MaxPassword
            BY <1>1 DEF RequestRecords, IInv, TypeOK
        <2>2. req[r].password <= password'
            BY <1>1, <1>4, <2>1, MaxPasswordNat DEF RequestOK
        <2> QED
            BY <1>1, <1>5, <2>2 DEF RequestOK, HasAccess
    <1>7. TypeOK'
        BY <1>1, <1>4, <1>5, <1>6, TypeWrite DEF IInv, TypeOK, HasAccess
    <1>8. Clean' = Clean /\ Unrevoked' = Unrevoked
        BY <1>1 DEF Clean, Unrevoked
    <1>9. SurvivorsKnowPassword'
        <2> SUFFICES ASSUME NEW s \in Clean
                     PROVE  /\ account # "deleted"
                            /\ born'[login[s]] = password' \/ ChangePending(s)'
            BY <1>1, <1>8 DEF SurvivorsKnowPassword, Clean
        <2>1. account # "deleted" /\ s \in Sessions /\ login[s] \in Sessions
            BY DEF IInv, TypeOK, Safe, SurvivorsKnowPassword, Clean, Unrevoked
        <2>2. CASE s # o
            BY <1>5, <2>1, <2>2 DEF ChangePending
        <2>3. CASE s = o /\ UNCHANGED <<password, born>>
            <3>1. born[login[s]] = password \/ ChangePending(s)
                BY DEF IInv, Safe, SurvivorsKnowPassword, Clean
            <3> QED
                BY <1>1, <1>5, <2>1, <2>3, <3>1 DEF ChangePending, Others
        <2>4. CASE s = o /\ password' = password + 1 /\ born' = [born EXCEPT ![login[o]] = password + 1]
            BY <1>2, <2>1, <2>4 DEF IInv, TypeOK
        <2> QED
            BY <1>3, <2>2, <2>3, <2>4
    <1>10. SnapshotComplete' /\ OneSessionPerLogin' /\ EndedStaysEnded' /\ LoginsExist'
        BY <1>1, <1>5, <1>8
        DEF IInv, Safe, SnapshotComplete, OneSessionPerLogin, EndedStaysEnded, LoginsExist, HasAccess, Others
    <1>11. ResetTokenSpentOnce'
        BY <1>1, <1>5 DEF IInv, ResetTokenSpentOnce, Others
    <1>12. RegisteredCanVerify'
        BY <1>1, <1>5, VerifyFinish
    <1> QED
        BY <1>7, <1>9, <1>10, <1>11, <1>12 DEF IInv, Safe

--------------------------------------------------------------------------------
(* The theorems                                                            *)

LEMMA InitIInv ==
    ASSUME Init
    PROVE  IInv
    <1> USE MaxPasswordNat, SessionNone DEF Init
    <1>1. Idle \in RequestRecords
        BY DEF Idle, RequestRecords, Steps
    <1>2. \A r \in Requests : RequestOK(r)
        BY DEF RequestOK, Idle
    <1>3. TypeOK
        BY <1>1, <1>2 DEF TypeOK, TokenStates
    <1>4. Unrevoked = {} /\ Clean = {}
        BY DEF Unrevoked, Clean
    <1>5. Safe
        BY <1>4 DEF Safe, SurvivorsKnowPassword, OneSessionPerLogin, EndedStaysEnded,
                    SnapshotComplete, LoginsExist, HasAccess
    <1>6. ResetTokenSpentOnce /\ RegisteredCanVerify
        BY DEF ResetTokenSpentOnce, RegisteredCanVerify, Idle
    <1> QED
        BY <1>3, <1>5, <1>6 DEF IInv

LEMMA NextIInv ==
    ASSUME IInv, [Next]_vars
    PROVE  IInv'
    <1>1. CASE UNCHANGED vars
        BY <1>1 DEF vars, rows, history, IInv, TypeOK, RequestOK, HasAccess, Safe,
                    SurvivorsKnowPassword, ChangePending, Unrevoked, OneSessionPerLogin,
                    EndedStaysEnded, SnapshotComplete, Clean, LoginsExist,
                    ResetTokenSpentOnce, RegisteredCanVerify
    <1>2. ASSUME NEW r \in Requests, PublicRequest(r) PROVE IInv'
        BY <1>2, RegisterKeeps, ArrivalsKeep, ResetKeeps DEF PublicRequest
    <1>3. ASSUME NEW r \in Requests, AuthenticatedRequest(r) PROVE IInv'
        BY <1>3, ArrivalsKeep
    <1>4. ASSUME NEW r \in Requests, Serve(r) PROVE IInv'
        BY <1>4, RegisterKeeps, IssueKeeps, RotateKeeps, LogoutKeeps, UpdateKeeps,
           SnapshotKeeps, CommitResetKeeps, CommitOthersKeeps, CommitDeleteKeeps DEF Serve
    <1>5. ASSUME NEW t \in ResetTokens, ForgotPassword(t) \/ ExpireResetToken(t) PROVE IInv'
        BY <1>5, ForgotKeeps
    <1>6. ASSUME NEW s \in Sessions, ExpireSession(s) PROVE IInv'
        BY <1>6, ExpireKeeps
    <1>7. CASE VerifyEmail \/ ExpireVerificationToken
        BY <1>7, VerifyKeeps, ExpireKeeps
    <1> QED
        BY <1>1, <1>2, <1>3, <1>4, <1>5, <1>6, <1>7 DEF Next

\* IInv is inductive: the handlers of internal/domain/auth keep it from any state
\* that satisfies it.
THEOREM Inductive == Spec => []IInv
    BY InitIInv, NextIInv, PTL DEF Spec

\* Rows, histories and what the handlers hold have their types.
THEOREM TypeCorrect == Spec => []TypeOK
    BY Inductive, PTL DEF IInv

\* Reset, change of the password and deletion leave no session of the earlier
\* password, but for sessions inserted by handlers they overtook.
THEOREM PasswordSafe == Spec => []SurvivorsKnowPassword
    <1>1. IInv => SurvivorsKnowPassword
        BY DEF IInv, Safe
    <1> QED
        BY <1>1, Inductive, PTL

\* A refresh token is rotated, not multiplied, but for overtaken refreshes.
THEOREM RotationSafe == Spec => []OneSessionPerLogin
    <1>1. IInv => OneSessionPerLogin
        BY DEF IInv, Safe
    <1> QED
        BY <1>1, Inductive, PTL

\* A login that was ended stays ended, but for overtaken refreshes.
THEOREM LogoutFinal == Spec => []EndedStaysEnded
    <1>1. IInv => EndedStaysEnded
        BY DEF IInv, Safe
    <1> QED
        BY <1>1, Inductive, PTL

\* A reset token resets the password at most once.
THEOREM ResetOnce == Spec => []ResetTokenSpentOnce
    <1>1. IInv => ResetTokenSpentOnce
        BY DEF IInv
    <1> QED
        BY <1>1, Inductive, PTL

\* No verification token is spent without verifying its account.
THEOREM VerificationSafe == Spec => []RegisteredCanVerify
    <1>1. IInv => RegisteredCanVerify
        BY DEF IInv
    <1> QED
        BY <1>1, Inductive, PTL
--------------------------------------------------------------------------------
(* Requests one after another                                              *)

OneAtATime == \A p, q \in Requests : req[p].step # "idle" /\ req[q].step # "idle" => p = q

\* What a login or a refresh has read still holds.
Unovertaken(r) ==
    /\ req[r].op = "login" => account = "verified" /\ req[r].password = password
    /\ req[r].op = "refresh" => \A s \in req[r].seen : status[s] # "revoked"

NoRaces == overlapped = {} /\ \A r \in Requests : Unovertaken(r)

\* A step of a request is its alone.
LEMMA RequestStep ==
    ASSUME TypeOK, NEW r \in Requests, PublicRequest(r) \/ AuthenticatedRequest(r) \/ Serve(r)
    PROVE  Others(r) /\ (req[r].step # "idle" \/ req'[r].step # "idle")
    <1>1. CASE PublicRequest(r)
        BY <1>1 DEF PublicRequest, Register, Login, Refresh, Logout, ResetPassword, Begin, Open, TypeOK, Others
    <1>2. CASE AuthenticatedRequest(r)
        BY <1>2 DEF AuthenticatedRequest, ChangePassword, RevokeOtherSessions, DeleteAccount, Begin, Open,
                    TypeOK, Others
    <1>3. CASE Serve(r)
        <2>1. CASE UpdatePassword(r) \/ RevokeAllOtherSessions(r)
            BY <2>1 DEF UpdatePassword, RevokeAllOtherSessions, Goto, At, TypeOK, Others
        <2>2. CASE \/ WriteVerificationToken(r) \/ IssueSession(r) \/ RotateSession(r) \/ RevokeSession(r)
                   \/ CommitReset(r) \/ CommitRevokeOthers(r) \/ CommitDelete(r)
            <3>1. Finish(r) /\ req[r].step # "idle"
                BY <2>2 DEF WriteVerificationToken, IssueSession, RotateSession, RevokeSession, CommitReset,
                            CommitRevokeOthers, CommitDelete, RevokeSeen, At
            <3> QED
                BY <3>1, FinishStep
        <2> QED
            BY <1>3, <2>1, <2>2 DEF Serve
    <1> QED
        BY <1>1, <1>2, <1>3

\* When requests do not overlap, the others are idle before and after a step of one.
LEMMA OthersIdle ==
    ASSUME TypeOK, OneAtATime, OneAtATime', NEW r \in Requests,
           PublicRequest(r) \/ AuthenticatedRequest(r) \/ Serve(r)
    PROVE  \A p \in Requests : p # r =>
               req[p].op = "none" /\ req[p].step = "idle" /\ req'[p].op = "none"
    <1> SUFFICES ASSUME NEW p \in Requests, p # r
                 PROVE  req[p].op = "none" /\ req[p].step = "idle" /\ req'[p].op = "none"
        OBVIOUS
    <1>1. req'[p] = req[p] /\ req[p].step = "idle"
        BY RequestStep DEF OneAtATime, Others
    <1> QED
        BY <1>1 DEF TypeOK, RequestOK

LEMMA SerialStep ==
    ASSUME IInv, NoRaces, OneAtATime, OneAtATime', NEW r \in Requests,
           PublicRequest(r) \/ AuthenticatedRequest(r) \/ Serve(r)
    PROVE  NoRaces'
    <1>0. TypeOK /\ RequestOK(r) /\ overlapped = {} /\ Unovertaken(r)
        BY DEF IInv, TypeOK, NoRaces
    <1>1. \A p \in Requests : p # r =>
              req[p].op = "none" /\ req[p].step = "idle" /\ req'[p].op = "none"
        BY <1>0, OthersIdle
    <1>2. ASSUME overlapped' = {}, Unovertaken(r)' PROVE NoRaces'
        BY <1>1, <1>2 DEF NoRaces, Unovertaken
    <1>3. ASSUME overlapped' = {}, Finish(r) PROVE NoRaces'
        BY <1>0, <1>2, <1>3, FinishStep DEF Unovertaken, Idle
    <1>4. ~Revoking(r)
        BY <1>1 DEF Revoking
    <1>5. CASE PublicRequest(r)
        <2>1. UNCHANGED overlapped
            BY <1>5 DEF PublicRequest, Register, Login, Refresh, Logout, ResetPassword, history
        <2>2. CASE Login(r)
            BY <1>0, <1>2, <2>1, <2>2 DEF Login, Open, Unovertaken, TypeOK, rows
        <2>3. ASSUME NEW s \in Sessions, Refresh(r, s) PROVE NoRaces'
            <3>1. status'[s] # "revoked" /\ req'[r].op = "refresh" /\ req'[r].seen \subseteq {s}
                BY <1>0, <2>3 DEF Refresh, GetSessionByRefreshHash, Open, TypeOK, rows
            <3> QED
                BY <1>0, <1>2, <2>1, <3>1 DEF Unovertaken
        <2>4. CASE Register(r) \/ (\E s \in Sessions : Logout(r, s)) \/ \E t \in ResetTokens : ResetPassword(r, t)
            BY <1>0, <1>2, <2>1, <2>4 DEF Register, Logout, ResetPassword, Begin, Open, Unovertaken, TypeOK
        <2> QED
            BY <1>5, <2>2, <2>3, <2>4 DEF PublicRequest
    <1>6. CASE AuthenticatedRequest(r)
        BY <1>0, <1>2, <1>6 DEF AuthenticatedRequest, ChangePassword, RevokeOtherSessions, DeleteAccount,
                                Begin, Open, Unovertaken, TypeOK, history
    <1>7. CASE Serve(r)
        <2>1. CASE UpdatePassword(r) \/ RevokeAllOtherSessions(r)
            <3>1. req[r].step \in {"write", "revoke"} /\ req[r].op \notin {"login", "refresh"}
                BY <1>0, <2>1 DEF UpdatePassword, RevokeAllOtherSessions, At, RequestOK
            <3>2. req'[r].op = req[r].op /\ overlapped' = {}
                BY <1>0, <2>1 DEF UpdatePassword, RevokeAllOtherSessions, Goto, TypeOK, RequestRecords, history
            <3> QED
                BY <1>2, <3>1, <3>2 DEF Unovertaken
        <2>2. CASE IssueSession(r)
            <3>1. ~LoginOvertaken(r)
                BY <1>0, <1>4, <2>2 DEF IssueSession, At, LoginOvertaken, Unovertaken
            <3> QED
                BY <1>0, <1>3, <2>2, <3>1 DEF IssueSession
        <2>3. CASE RotateSession(r)
            <3>1. ~RefreshOvertaken(r)
                BY <1>0, <1>4, <2>3 DEF RotateSession, At, RefreshOvertaken, Unovertaken
            <3> QED
                BY <1>0, <1>3, <2>3, <3>1 DEF RotateSession
        <2>4. CASE \/ WriteVerificationToken(r) \/ RevokeSession(r)
                   \/ CommitReset(r) \/ CommitRevokeOthers(r) \/ CommitDelete(r)
            BY <1>0, <1>3, <2>4 DEF WriteVerificationToken, RevokeSession, CommitReset, CommitRevokeOthers,
                                    CommitDelete, RevokeSeen, history
        <2> QED
            BY <1>7, <2>1, <2>2, <2>3, <2>4 DEF Serve
    <1> QED
        BY <1>5, <1>6, <1>7

LEMMA SerialNext == IInv /\ NoRaces /\ OneAtATime /\ OneAtATime' /\ [Next]_vars => NoRaces'
    <1> SUFFICES ASSUME IInv, NoRaces, OneAtATime, OneAtATime', [Next]_vars PROVE NoRaces'
        OBVIOUS
    <1>1. CASE UNCHANGED vars
        BY <1>1 DEF vars, rows, history, NoRaces, Unovertaken
    <1>2. CASE \/ \E t \in ResetTokens : ForgotPassword(t) \/ ExpireResetToken(t)
               \/ VerifyEmail \/ ExpireVerificationToken
        BY <1>2 DEF ForgotPassword, ExpireResetToken, VerifyEmail, ExpireVerificationToken, history,
                    NoRaces, Unovertaken
    <1>3. ASSUME NEW s \in Sessions, ExpireSession(s) PROVE NoRaces'
        <2>1. \A x \in Sessions : status'[x] = "revoked" => status[x] = "revoked"
            BY <1>3 DEF ExpireSession, IInv, TypeOK
        <2>2. \A r \in Requests : req[r].seen \subseteq Sessions
            BY DEF IInv, TypeOK, RequestRecords
        <2> QED
            BY <1>3, <2>1, <2>2 DEF ExpireSession, history, NoRaces, Unovertaken
    <1> QED
        BY <1>1, <1>2, <1>3, SerialStep DEF Next

\* The exceptions of SurvivorsKnowPassword, OneSessionPerLogin and EndedStaysEnded are races
\* and nothing else: when requests are served one after another, every session that is not
\* revoked belongs to an existing account and to its present password (or is about to be
\* revoked by the change of it), is the only one of its login, and its login was not ended.
THEOREM SerialRequestsAreClean ==
    Spec /\ []OneAtATime =>
        [](\A s \in Unrevoked :
              /\ account # "deleted" /\ (born[login[s]] = password \/ ChangePending(s))
              /\ login[s] \notin ended
              /\ \A t \in Unrevoked : login[s] = login[t] => s = t)
    <1> DEFINE Sound ==
            \A s \in Unrevoked :
              /\ account # "deleted" /\ (born[login[s]] = password \/ ChangePending(s))
              /\ login[s] \notin ended
              /\ \A t \in Unrevoked : login[s] = login[t] => s = t
    <1>1. Init => NoRaces
        BY DEF Init, NoRaces, Unovertaken, Idle
    <1>2. IInv /\ NoRaces => Sound
        BY DEF IInv, Safe, NoRaces, SurvivorsKnowPassword, OneSessionPerLogin, EndedStaysEnded
    <1> HIDE DEF Sound
    <1>3. Spec /\ []OneAtATime => []Sound
        BY <1>1, <1>2, SerialNext, Inductive, PTL DEF Spec
    <1> QED
        BY <1>3 DEF Sound

================================================================================
