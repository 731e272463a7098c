------------------------------ MODULE AuthSessions ------------------------------
(***************************************************************************)
(* The account of one user and its refresh-token sessions:                 *)
(* internal/domain/auth without the second factor and the login throttle.  *)
(*                                                                         *)
(* A handler reads and writes in statements of their own, and any number   *)
(* of handlers interleave; one that dies is one that takes no further      *)
(* step.  A statement that revokes many sessions works on the rows it sees *)
(* when it starts (read committed), so it has two steps: its snapshot and  *)
(* its commit, which is also the commit of the transaction it ends.        *)
(***************************************************************************)
EXTENDS Integers

CONSTANTS
    Sessions,       \* ids of auth_sessions rows, a fresh one for every insert
    ResetTokens,    \* ids of password_reset_tokens rows
    Requests,       \* slots for requests being served at the same time
    MaxPassword,    \* bound on the number of password changes
    None            \* no value

ASSUME SessionNone == None \notin Sessions \cup ResetTokens
ASSUME MaxPasswordNat == MaxPassword \in Nat

VARIABLES
    account,    \* the users row: "none", "unverified", "verified" or "deleted"
    password,   \* users.password_hash, as the number of times it was set
    vtoken,     \* the email verification token, in a state of TokenStates
    rtoken,     \* the reset tokens, likewise
    status,     \* sessions: "free" (no row), "live", "expired" or "revoked"
    req,        \* the requests in flight
    login,      \* history: the session that the login of a session created
    born,       \* history: the password a login was made with, or last changed
    ended,      \* history: logins ended by a logout or a revocation
    overlapped  \* history: sessions inserted by a handler that a revocation overtook

rows == <<account, password, vtoken, rtoken, status>>
history == <<login, born, ended, overlapped>>
vars == <<rows, req, history>>

\* Not issued, usable, past expires_at, and with consumed_at set.
TokenStates == {"none", "live", "expired", "used"}

Ops == {"register", "login", "refresh", "logout", "reset", "change", "others", "delete"}
Steps == {"idle", "write", "revoke", "commit"}

\* seen: the sessions that the handler's last read found unrevoked, for a statement
\* that revokes many its snapshot.
RequestRecords ==
    [op : Ops \cup {"none"}, step : Steps, session : Sessions \cup {None},
     token : ResetTokens \cup {None}, password : 0..MaxPassword, seen : SUBSET Sessions]

Idle == [op |-> "none", step |-> "idle", session |-> None, token |-> None,
         password |-> 0, seen |-> {}]

Open(r, o, st, s, t, w, seen) ==
    /\ req[r].step = "idle"
    /\ req' = [req EXCEPT ![r] = [op |-> o, step |-> st, session |-> s, token |-> t,
                                  password |-> w, seen |-> seen]]
Begin(r, o, st, s) == Open(r, o, st, s, None, 0, {})
Goto(r, st) == req' = [req EXCEPT ![r].step = st]
Finish(r) == req' = [req EXCEPT ![r] = Idle]
At(r, o, st) == req[r].op = o /\ req[r].step = st

Init ==
    /\ account = "none" /\ password = 0 /\ vtoken = "none"
    /\ rtoken = [t \in ResetTokens |-> "none"]
    /\ status = [s \in Sessions |-> "free"]
    /\ req = [r \in Requests |-> Idle]
    /\ login = [s \in Sessions |-> s]
    /\ born = [s \in Sessions |-> 0]
    /\ ended = {} /\ overlapped = {}

\* Rows with revoked_at NULL, expired or not.
Unrevoked == {s \in Sessions : status[s] \in {"live", "expired"}}

\* FindUserByEmail and FindUserByID do not find a soft-deleted user.
FindUser == account \in {"unverified", "verified"}

MutGetSessionByRefreshHash(s) == status[s] \in {"live", "revoked"}

\* GetSessionByRefreshHash: neither revoked nor expired.
GetSessionByRefreshHash(s) == status[s] = "live"

\* RequireAuth: the access token of any session that was ever issued; the session
\* itself is not looked up.
HasAccess(s) == status[s] # "free"

\* A statement that revokes many sessions is running in another handler.
Revoking(r) == \E p \in Requests \ {r} : req[p].step = "commit"

--------------------------------------------------------------------------------
(* Registration and verification                                           *)

\* CreateUserWithProfile; the unique email refuses every later registration.
Register(r) ==
    /\ account = "none" /\ account' = "unverified"
    /\ Begin(r, "register", "write", None)
    /\ UNCHANGED <<password, vtoken, rtoken, status, history>>

\* CreateEmailVerificationToken, a statement of its own.
WriteVerificationToken(r) ==
    /\ At(r, "register", "write")
    /\ vtoken' = "live"
    /\ Finish(r)
    /\ UNCHANGED <<account, password, rtoken, status, history>>

\* One transaction that locks the token's row; without the user it is rolled back.
VerifyEmail ==
    /\ vtoken = "live" /\ FindUser
    /\ vtoken' = "used" /\ account' = "verified"
    /\ UNCHANGED <<password, rtoken, status, req, history>>

--------------------------------------------------------------------------------
(* Sessions: login, refresh, logout                                        *)

\* The user's row is read and the password (and the second factor) is right.
Login(r) ==
    /\ account = "verified"
    /\ Open(r, "login", "write", None, None, password, {})
    /\ UNCHANGED <<rows, history>>

\* A login that was overtaken by a new password, the deletion of the account or a
\* revocation that is still running.
LoginOvertaken(r) == account # "verified" \/ req[r].password # password \/ Revoking(r)

\* CreateSession does not look at the user again.
IssueSession(r) ==
    /\ At(r, "login", "write")
    /\ \E n \in Sessions :
         /\ status[n] = "free"
         /\ status' = [status EXCEPT ![n] = "live"]
         /\ login' = [login EXCEPT ![n] = n]
         /\ born' = [born EXCEPT ![n] = req[r].password]
         /\ overlapped' = IF LoginOvertaken(r) THEN overlapped \cup {n} ELSE overlapped
    /\ Finish(r)
    /\ UNCHANGED <<account, password, vtoken, rtoken, ended>>

Refresh(r, s) ==
    /\ GetSessionByRefreshHash(s)
    /\ Open(r, "refresh", "write", s, None, 0, {s} \cap Unrevoked)
    /\ UNCHANGED <<rows, history>>

\* A refresh that was overtaken by a revocation of the session it found, or by one
\* that is still running.
RefreshOvertaken(r) ==
    \/ \E s \in req[r].seen : status[s] = "revoked"
    \/ Revoking(r)

MutRotateSession(r) ==
    LET s == req[r].session IN
    /\ At(r, "refresh", "write")
    /\ \E n \in Sessions :
         /\ status[n] = "free"
         /\ status' = [status EXCEPT ![n] = "live"]
         /\ login' = [login EXCEPT ![n] = login[s]]
         /\ overlapped' = IF s \in overlapped \/ RefreshOvertaken(r)
                          THEN overlapped \cup {n} ELSE overlapped
    /\ Finish(r)
    /\ UNCHANGED <<account, password, vtoken, rtoken, born, ended>>

\* RotateSession inserts the successor and revokes the old row if it is not revoked
\* yet; the number of rows revoked is not looked at.
RotateSession(r) ==
    LET s == req[r].session IN
    /\ At(r, "refresh", "write")
    /\ \E n \in Sessions :
         /\ status[n] = "free"
         /\ status' = [status EXCEPT ![n] = "live", ![s] = "revoked"]
         /\ login' = [login EXCEPT ![n] = login[s]]
         /\ overlapped' = IF s \in overlapped \/ RefreshOvertaken(r)
                          THEN overlapped \cup {n} ELSE overlapped
    /\ Finish(r)
    /\ UNCHANGED <<account, password, vtoken, rtoken, born, ended>>

\* Logout with a refresh token, or RevokeSession with an id of ListActiveSessions.
Logout(r, s) ==
    /\ s \in Unrevoked
    /\ Begin(r, "logout", "write", s)
    /\ UNCHANGED <<rows, history>>

\* Which logins end when these sessions are revoked.
Ends(revoked) == {login[s] : s \in (revoked \cap Unrevoked) \ overlapped}

\* The repository's RevokeSession: an UPDATE by id.
RevokeSession(r) ==
    LET s == req[r].session IN
    /\ At(r, "logout", "write")
    /\ status' = [status EXCEPT ![s] = "revoked"]
    /\ ended' = ended \cup Ends({s})
    /\ Finish(r)
    /\ UNCHANGED <<account, password, vtoken, rtoken, login, born, overlapped>>

\* The lifetime of a refresh token or of a mailed token ends.
ExpireSession(s) ==
    /\ status[s] = "live" /\ status' = [status EXCEPT ![s] = "expired"]
    /\ UNCHANGED <<account, password, vtoken, rtoken, req, history>>

ExpireVerificationToken ==
    /\ vtoken = "live" /\ vtoken' = "expired"
    /\ UNCHANGED <<account, password, rtoken, status, req, history>>

ExpireResetToken(t) ==
    /\ rtoken[t] = "live" /\ rtoken' = [rtoken EXCEPT ![t] = "expired"]
    /\ UNCHANGED <<account, password, vtoken, status, req, history>>

--------------------------------------------------------------------------------
(* Operations that revoke many sessions                                    *)

ForgotPassword(t) ==
    /\ FindUser
    /\ rtoken[t] = "none" /\ rtoken' = [rtoken EXCEPT ![t] = "live"]
    /\ UNCHANGED <<account, password, vtoken, status, req, history>>

\* The reads of ConsumeResetTokenAndSetPassword: a live token, whose row stays
\* locked until the commit, and the snapshot of the UPDATE of the sessions.
ResetPassword(r, t) ==
    /\ rtoken[t] = "live"
    /\ \A p \in Requests : req[p].token # t
    /\ Open(r, "reset", "commit", None, t, 0, Unrevoked)
    /\ UNCHANGED <<rows, history>>

\* The current password was right; s is the session of the access token.
ChangePassword(r, s) ==
    /\ FindUser /\ HasAccess(s)
    /\ Begin(r, "change", "write", s)
    /\ UNCHANGED <<rows, history>>

\* The session that changes the password goes on with the new one.
UpdatePassword(r) ==
    /\ At(r, "change", "write")
    /\ IF FindUser
       THEN /\ password < MaxPassword
            /\ password' = password + 1
            /\ born' = [born EXCEPT ![login[req[r].session]] = password + 1]
       ELSE UNCHANGED <<password, born>>
    /\ Goto(r, "revoke")
    /\ UNCHANGED <<account, vtoken, rtoken, status, login, ended, overlapped>>

RevokeOtherSessions(r, s) ==
    /\ HasAccess(s)
    /\ Begin(r, "others", "revoke", s)
    /\ UNCHANGED <<rows, history>>

DeleteAccount(r, s) ==
    /\ FindUser /\ HasAccess(s)
    /\ Begin(r, "delete", "revoke", None)
    /\ UNCHANGED <<rows, history>>

\* The statement sees every unrevoked session but the current one (None for a
\* deletion).
RevokeAllOtherSessions(r) ==
    /\ req[r].step = "revoke"
    /\ req' = [req EXCEPT ![r].step = "commit",
                          ![r].seen = Unrevoked \ {req[r].session}]
    /\ UNCHANGED <<rows, history>>

RevokeSeen(r) ==
    /\ status' = [s \in Sessions |-> IF s \in req[r].seen THEN "revoked" ELSE status[s]]
    /\ ended' = ended \cup Ends(req[r].seen)
    /\ Finish(r)

MutCommitReset(r) ==
    /\ At(r, "reset", "commit")
    /\ rtoken' = [rtoken EXCEPT ![req[r].token] = "used"]
    /\ IF FindUser THEN password < MaxPassword /\ password' = password + 1
                   ELSE UNCHANGED password
    /\ Finish(r)
    /\ UNCHANGED <<account, vtoken, status, history>>

\* Token, password (of a user who is not deleted) and sessions in one transaction.
CommitReset(r) ==
    /\ At(r, "reset", "commit")
    /\ rtoken' = [rtoken EXCEPT ![req[r].token] = "used"]
    /\ IF FindUser THEN password < MaxPassword /\ password' = password + 1
                   ELSE UNCHANGED password
    /\ RevokeSeen(r)
    /\ UNCHANGED <<account, vtoken, login, born, overlapped>>

CommitRevokeOthers(r) ==
    /\ req[r].op \in {"change", "others"} /\ req[r].step = "commit"
    /\ RevokeSeen(r)
    /\ UNCHANGED <<account, password, vtoken, rtoken, login, born, overlapped>>

\* SoftDeleteUser.
CommitDelete(r) ==
    /\ At(r, "delete", "commit")
    /\ account' = "deleted"
    /\ RevokeSeen(r)
    /\ UNCHANGED <<password, vtoken, rtoken, login, born, overlapped>>

--------------------------------------------------------------------------------

\* The handlers of the public endpoints.
PublicRequest(r) ==
    \/ Register(r) \/ Login(r)
    \/ \E s \in Sessions : Refresh(r, s) \/ Logout(r, s)
    \/ \E t \in ResetTokens : ResetPassword(r, t)

\* The handlers behind RequireAuth.
AuthenticatedRequest(r) ==
    \E s \in Sessions :
        ChangePassword(r, s) \/ RevokeOtherSessions(r, s) \/ DeleteAccount(r, s)

Serve(r) ==
    \/ WriteVerificationToken(r) \/ IssueSession(r) \/ RotateSession(r) \/ RevokeSession(r)
    \/ UpdatePassword(r) \/ RevokeAllOtherSessions(r)
    \/ CommitReset(r) \/ CommitRevokeOthers(r) \/ CommitDelete(r)

Next ==
    \/ \E r \in Requests : PublicRequest(r) \/ AuthenticatedRequest(r) \/ Serve(r)
    \/ \E t \in ResetTokens : ForgotPassword(t) \/ ExpireResetToken(t)
    \/ \E s \in Sessions : ExpireSession(s)
    \/ VerifyEmail \/ ExpireVerificationToken

Spec == Init /\ [][Next]_vars

--------------------------------------------------------------------------------
(* Properties                                                              *)

\* What a handler holds at each of its steps.
RequestOK(r) ==
    LET q == req[r] IN
    /\ q.step = "idle" <=> q.op = "none"
    /\ q.op \in {"refresh", "logout", "change", "others"} =>
           q.session \in Sessions /\ HasAccess(q.session)
    /\ q.op \in {"register", "login", "refresh", "logout"} => q.step = "write"
    /\ q.op = "reset" => q.step = "commit" /\ q.session = None
    /\ q.op = "reset" <=> q.token # None
    /\ q.op \in {"delete", "others"} => q.step \in {"revoke", "commit"}
    /\ q.op = "delete" => q.session = None
    /\ q.password <= password
    /\ q.op = "refresh" => q.seen = {q.session}
    /\ q.step # "commit" /\ q.op # "refresh" => q.seen = {}
    /\ \A s \in q.seen : HasAccess(s)

\* Type invariant: rows, histories and what the handlers hold.
TypeOK ==
    /\ account \in {"none", "unverified", "verified", "deleted"}
    /\ password \in 0..MaxPassword
    /\ vtoken \in TokenStates
    /\ rtoken \in [ResetTokens -> TokenStates]
    /\ status \in [Sessions -> {"free", "live", "expired", "revoked"}]
    /\ req \in [Requests -> RequestRecords]
    /\ login \in [Sessions -> Sessions]
    /\ born \in [Sessions -> 0..MaxPassword]
    /\ ended \subseteq Sessions /\ overlapped \subseteq Sessions
    /\ \A r \in Requests : RequestOK(r)

\* A change of the password that has stored it and has still to revoke session s.
ChangePending(s) ==
    \E r \in Requests :
        /\ req[r].op = "change" /\ req[r].session # s
        /\ \/ req[r].step = "revoke"
           \/ req[r].step = "commit" /\ s \in req[r].seen

\* After a password reset, a change of the password or the deletion of the account
\* the sessions of the earlier password are gone: every session that is not
\* revoked was logged in with the present password of an existing account (or
\* changed it), or its ChangePassword has not revoked it yet, or it was inserted
\* by a login or a refresh that the revocation overtook.
SurvivorsKnowPassword ==
    \A s \in Unrevoked \ overlapped :
        /\ account # "deleted"
        /\ born[login[s]] = password \/ ChangePending(s)

\* Refresh rotates: a login has one unrevoked session at a time, but for the
\* successors inserted by refreshes that were overtaken by another refresh of the
\* same token or by a revocation.
OneSessionPerLogin ==
    \A s, t \in Unrevoked \ overlapped : login[s] = login[t] => s = t

\* A login that was ended, by a logout or by revoking its session, does not come
\* back through a refresh, unless the refresh was in flight.
EndedStaysEnded == \A s \in Unrevoked \ overlapped : login[s] \notin ended

\* A reset token is spent by one reset: no two transactions hold the same token,
\* and a spent token is held by none.
ResetTokenSpentOnce ==
    \A r \in Requests : req[r].op = "reset" =>
        /\ rtoken[req[r].token] \in {"live", "expired"}
        /\ \A p \in Requests : req[p].token = req[r].token => p = r

\* An account that is not verified still has its token, usable or expired by now, or
\* the registration that creates it has not got there yet: no token is spent in
\* vain, for no operation creates another one.
RegisteredCanVerify ==
    account = "unverified" =>
        vtoken \in {"live", "expired"} \/ \E r \in Requests : req[r].op = "register"

================================================================================
