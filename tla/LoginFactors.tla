------------------------------ MODULE LoginFactors ------------------------------
(***************************************************************************)
(* What stands between a password and a session: the throttle of failed    *)
(* logins and the second factor, of one account with a verified address    *)
(* (internal/domain/auth).  The sessions are in AuthSessions.              *)
(*                                                                         *)
(* Every statement of a handler is a step, a transaction is one, and each  *)
(* may fail.  A batch of recovery codes is one code here: they are written *)
(* and deleted together, and each is used alone.                           *)
(***************************************************************************)
EXTENDS Naturals, FiniteSets

CONSTANTS
    Requests,         \* slots for requests being served at the same time
    Settings,         \* ids of two_factor_settings rows
    Codes,            \* recovery codes
    MaxLoginAttempts,
    GuessBound,       \* bound on the wrong passwords that are tried
    None              \* no value

ASSUME FactorsNone == None \notin Settings \cup Codes
ASSUME MaxLoginAttemptsPositive == MaxLoginAttempts \in Nat \ {0}
ASSUME GuessBoundNat == GuessBound \in Nat
ASSUME RequestsFinite == IsFiniteSet(Requests)

VARIABLES
    failed,     \* auth_throttles.failed_attempts, 0 when there is no row
    window,     \* first_failed_at: "none", "open" or "over" (longer ago than the window)
    lock,       \* lock_until: "none", "on" or "past"
    enabled,    \* users.two_factor_enabled
    setting,    \* the id of the user's two_factor_settings row
    confirmed,  \* its enabled_at is set
    owner,      \* the setting a recovery code belongs to, None without a row
    used,       \* recovery codes with used_at set
    req,        \* the requests in flight
    guesses,    \* history: wrong passwords tried since the row was last absent, or the
                \* window over, but for those whose statement of the throttle failed
    uses,       \* history: how often a recovery code was accepted
    handed,     \* history: the code answered by the last confirmation
    made,       \* history: settings and codes that were inserted
    loose       \* history: the setting or its codes were replaced while enabled, or the
                \* last confirmation overlapped another change of them

throttle == <<failed, window, lock>>
factor == <<enabled, setting, confirmed>>
codes == <<owner, used>>
vars == <<throttle, factor, codes, req, guesses, uses, handed, made, loose>>

Ops == {"login", "confirm", "disable"}
Steps == {"idle", "password", "fail", "insert", "factor", "consume", "reset",
          "codes", "mark", "disable"}

\* stale: the setting or its codes were changed since this confirmation read or wrote
\* them.
RequestRecords ==
    [op : Ops \cup {"none"}, step : Steps, setting : Settings \cup {None},
     code : Codes \cup {None}, stale : BOOLEAN]

Idle == [op |-> "none", step |-> "idle", setting |-> None, code |-> None, stale |-> FALSE]

Init ==
    /\ failed = 0 /\ window = "none" /\ lock = "none"
    /\ enabled = FALSE /\ setting = None /\ confirmed = FALSE
    /\ owner = [k \in Codes |-> None] /\ used = {}
    /\ req = [r \in Requests |-> Idle]
    /\ guesses = 0 /\ uses = [k \in Codes |-> 0]
    /\ handed = None /\ made = {} /\ loose = FALSE

MoveTo(r, o, st, s, k) ==
    req' = [req EXCEPT ![r] = [op |-> o, step |-> st, setting |-> s, code |-> k, stale |-> FALSE]]
Finish(r) == req' = [req EXCEPT ![r] = Idle]

\* The requests that tried a wrong password and have still to count it.
Uncounted == {p \in Requests : req[p].step \in {"fail", "insert"}}

--------------------------------------------------------------------------------
(* The throttle                                                            *)

\* IsEmailLocked; a locked account is refused here.
IsEmailLocked(r) ==
    /\ req[r].step = "idle" /\ lock # "on"
    /\ MoveTo(r, "login", "password", None, None)
    /\ UNCHANGED <<throttle, factor, codes, guesses, uses, handed, made, loose>>

\* FindUserByEmail and ComparePassword.
Login(r) ==
    /\ req[r].step = "password"
    /\ \/ /\ guesses < GuessBound /\ guesses' = guesses + 1
          /\ MoveTo(r, "login", "fail", None, None)
       \/ /\ MoveTo(r, "login", IF enabled THEN "factor" ELSE "reset", None, None)
          /\ UNCHANGED guesses
    /\ UNCHANGED <<throttle, factor, codes, uses, handed, made, loose>>

MutLocks(n) == n > MaxLoginAttempts

Locks(n) == n >= MaxLoginAttempts

\* The SELECT ... FOR UPDATE of CreateOrIncrementThrottle.  A row that is found is
\* locked and saved in the same transaction.
CreateOrIncrementThrottle(r) ==
    /\ req[r].step = "fail"
    /\ \/ /\ failed = 0
          /\ MoveTo(r, "login", "insert", None, None)
          /\ UNCHANGED <<throttle, guesses>>
       \/ /\ failed > 0 /\ window # "open"
          /\ failed' = 1 /\ window' = "open" /\ lock' = "none"
          /\ guesses' = IF window = "over" THEN Cardinality(Uncounted) ELSE guesses
          /\ Finish(r)
       \/ /\ failed > 0 /\ window = "open"
          /\ failed' = failed + 1
          /\ lock' = IF Locks(failed + 1) THEN "on" ELSE lock
          /\ Finish(r)
          /\ UNCHANGED <<window, guesses>>
    /\ UNCHANGED <<factor, codes, uses, handed, made, loose>>

\* The INSERT, without first_failed_at; the unique index refuses a second row and the
\* caller drops the error.
InsertThrottle(r) ==
    /\ req[r].step = "insert"
    /\ failed' = IF failed = 0 THEN 1 ELSE failed
    /\ Finish(r)
    /\ UNCHANGED <<window, lock, factor, codes, guesses, uses, handed, made, loose>>

\* The row is deleted and the session issued (see AuthSessions).
ResetThrottle(r) ==
    /\ req[r].step = "reset"
    /\ failed' = 0 /\ window' = "none" /\ lock' = "none"
    /\ guesses' = Cardinality(Uncounted)
    /\ Finish(r)
    /\ UNCHANGED <<factor, codes, uses, handed, made, loose>>

\* A lock is set after the window began and lasts as long, so it ends later.
Tick ==
    /\ \/ /\ window = "open" /\ window' = "over"
          /\ guesses' = Cardinality(Uncounted)
          /\ UNCHANGED lock
       \/ /\ window = "over" /\ lock = "on" /\ lock' = "past"
          /\ UNCHANGED <<window, guesses>>
    /\ UNCHANGED <<failed, factor, codes, req, uses, handed, made, loose>>

--------------------------------------------------------------------------------
(* The second factor                                                       *)

\* What a request gives for the second factor: a TOTP code that verifies against the
\* setting that was read, or a recovery code.
Verify(r, o, s, next) ==
    \/ MoveTo(r, o, next, s, None)
    \/ \E k \in Codes : MoveTo(r, o, "consume", s, k)

MutGetTwoFactorByUser(r) ==
    /\ req[r].step = "factor"
    /\ Verify(r, "login", setting, "reset")
    /\ UNCHANGED <<throttle, factor, codes, guesses, uses, handed, made, loose>>

\* Login with the second factor: without a setting it is refused.
GetTwoFactorByUser(r) ==
    /\ req[r].step = "factor"
    /\ IF setting = None THEN Finish(r) ELSE Verify(r, "login", setting, "reset")
    /\ UNCHANGED <<throttle, factor, codes, guesses, uses, handed, made, loose>>

MutConsumable(k, s) == owner[k] = s

Consumable(k, s) == owner[k] = s /\ k \notin used

\* One UPDATE; without a row the request is refused.
ConsumeRecoveryCode(r) ==
    LET q == req[r] IN
    /\ q.step = "consume"
    /\ IF Consumable(q.code, q.setting)
       THEN /\ used' = used \cup {q.code}
            /\ uses' = [uses EXCEPT ![q.code] = @ + 1]
            /\ MoveTo(r, q.op, IF q.op = "login" THEN "reset" ELSE "disable", q.setting, q.code)
       ELSE Finish(r) /\ UNCHANGED <<used, uses>>
    /\ UNCHANGED <<throttle, factor, owner, guesses, handed, made, loose>>

\* The confirmations in flight, but for r, miss a change of the setting or its codes.
Outdate(r, st) ==
    req' = [p \in Requests |->
              IF p = r THEN st
              ELSE [req[p] EXCEPT !.stale = (@ \/ req[p].op = "confirm")]]

\* BeginEnable2FA: the setting is replaced, also one that is in use.  The codes of the
\* old one stay behind.
UpsertTwoFactor(r) ==
    /\ req[r].step = "idle"
    /\ \E s \in Settings \ made : setting' = s /\ made' = made \cup {s}
    /\ confirmed' = FALSE
    /\ loose' = (loose \/ enabled)
    /\ Outdate(r, Idle)
    /\ UNCHANGED <<throttle, enabled, codes, guesses, uses, handed>>

\* The setting is read and the TOTP code verified against it.
ConfirmEnable2FA(r) ==
    /\ req[r].step = "idle" /\ setting # None
    /\ MoveTo(r, "confirm", "codes", setting, None)
    /\ UNCHANGED <<throttle, factor, codes, guesses, uses, handed, made, loose>>

\* One transaction, for the setting that was read.
ReplaceRecoveryCodes(r) ==
    LET s == req[r].setting IN
    /\ req[r].step = "codes"
    /\ \E k \in Codes \ made :
         /\ owner' = [c \in Codes |-> IF c = k THEN s ELSE IF owner[c] = s THEN None ELSE owner[c]]
         /\ made' = made \cup {k}
         /\ Outdate(r, [op |-> "confirm", step |-> "mark", setting |-> s, code |-> k,
                        stale |-> req[r].stale])
    /\ loose' = (loose \/ enabled)
    /\ UNCHANGED <<throttle, factor, used, guesses, uses, handed>>

\* One transaction: the user's setting, whichever it is now, and the user.  The codes
\* are answered.
MarkTwoFactorEnabled(r) ==
    /\ req[r].step = "mark"
    /\ enabled' = TRUE
    /\ confirmed' = (setting # None)
    /\ handed' = req[r].code
    /\ loose' = req[r].stale
    /\ Finish(r)
    /\ UNCHANGED <<throttle, setting, codes, guesses, uses, made>>

\* The password, the setting, and the second factor.
Disable2FA(r) ==
    /\ req[r].step = "idle" /\ setting # None
    /\ Verify(r, "disable", setting, "disable")
    /\ UNCHANGED <<throttle, factor, codes, guesses, uses, handed, made, loose>>

MutDisableTwoFactor(r) ==
    /\ req[r].step = "disable" /\ setting # None
    /\ owner' = [c \in Codes |-> IF owner[c] = setting THEN None ELSE owner[c]]
    /\ setting' = None /\ confirmed' = FALSE
    /\ loose' = FALSE
    /\ Outdate(r, Idle)
    /\ UNCHANGED <<throttle, enabled, used, guesses, uses, handed, made>>

\* One transaction on the setting there is now.
DisableTwoFactor(r) ==
    /\ req[r].step = "disable" /\ setting # None
    /\ owner' = [c \in Codes |-> IF owner[c] = setting THEN None ELSE owner[c]]
    /\ enabled' = FALSE /\ setting' = None /\ confirmed' = FALSE
    /\ loose' = FALSE
    /\ Outdate(r, Idle)
    /\ UNCHANGED <<throttle, used, guesses, uses, handed, made>>

\* A statement fails, a TOTP code is wrong or missing: the request is refused and what
\* was written stays.  The caller of the throttle drops its error.
Refused(r) ==
    /\ req[r].step # "idle"
    /\ guesses' = IF r \in Uncounted THEN guesses - 1 ELSE guesses
    /\ Finish(r)
    /\ UNCHANGED <<throttle, factor, codes, uses, handed, made, loose>>

--------------------------------------------------------------------------------

LoginRequest(r) ==
    \/ IsEmailLocked(r) \/ Login(r) \/ CreateOrIncrementThrottle(r) \/ InsertThrottle(r)
    \/ ResetThrottle(r) \/ GetTwoFactorByUser(r) \/ ConsumeRecoveryCode(r)

FactorRequest(r) ==
    \/ UpsertTwoFactor(r) \/ ConfirmEnable2FA(r) \/ ReplaceRecoveryCodes(r)
    \/ MarkTwoFactorEnabled(r) \/ Disable2FA(r) \/ DisableTwoFactor(r)

Next ==
    \/ \E r \in Requests : LoginRequest(r) \/ FactorRequest(r) \/ Refused(r)
    \/ Tick

Spec == Init /\ [][Next]_vars

--------------------------------------------------------------------------------
(* Properties                                                              *)

RequestOK(r) ==
    LET q == req[r] IN
    /\ q.step = "idle" <=> q.op = "none"
    /\ q.op = "login" => q.step \in {"password", "fail", "insert", "factor", "consume", "reset"}
    /\ q.op = "confirm" => q.step \in {"codes", "mark"}
    /\ q.op = "disable" => q.step \in {"consume", "disable"}
    /\ q.step \in {"consume", "codes", "mark", "disable"} => q.setting \in made
    /\ q.step \in {"consume", "mark"} => q.code \in Codes

\* Type invariant; a request holds the setting and code that its step works on.
TypeOK ==
    /\ failed \in Nat /\ window \in {"none", "open", "over"} /\ lock \in {"none", "on", "past"}
    /\ failed = 0 => window = "none" /\ lock = "none"
    /\ enabled \in BOOLEAN /\ confirmed \in BOOLEAN /\ setting \in (Settings \cap made) \cup {None}
    /\ owner \in [Codes -> (Settings \cap made) \cup {None}] /\ used \subseteq Codes
    /\ req \in [Requests -> RequestRecords]
    /\ guesses \in 0..GuessBound /\ uses \in [Codes -> Nat]
    /\ handed \in Codes \cup {None} /\ made \subseteq Settings \cup Codes /\ loose \in BOOLEAN
    /\ \A r \in Requests : RequestOK(r)

\* The first failure only creates the row and the second restarts its count, so the
\* lock comes one failure late, and not before the third.
CountedFailures == 1 + IF MaxLoginAttempts < 2 THEN 2 ELSE MaxLoginAttempts

\* The throttle holds against concurrent logins: beyond the failures that it counts
\* until the lock, only the requests that overlap the first failure and those that
\* overlap the last can try another password.
GuessesBounded == guesses <= CountedFailures + 2 * (Cardinality(Requests) - 1)

\* A recovery code is accepted once, by a login or by Disable2FA, however requests that
\* present it overlap with each other and with changes of the setting.
RecoveryCodeOnce == \A k \in Codes : uses[k] <= 1

\* An account with the second factor enabled can be used: it has a confirmed setting,
\* and the recovery codes that were answered last belong to it, unless the setting or its
\* codes were replaced while enabled and no confirmation answered since, or the last one
\* overlapped another change of them.
FactorsUsable ==
    enabled /\ ~loose => setting # None /\ confirmed /\ handed # None /\ owner[handed] = setting

================================================================================
