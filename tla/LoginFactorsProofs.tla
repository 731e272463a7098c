--------------------------- MODULE LoginFactorsProofs ---------------------------
(***************************************************************************)
(* Theorems about LoginFactors, for every number of requests, settings,    *)
(* codes and login attempts.                                               *)
(***************************************************************************)
EXTENDS LoginFactors, FiniteSetTheorems, TLAPS

--------------------------------------------------------------------------------
(* The inductive invariant                                                 *)

\* The number of requests at one of these steps.
Number(S) == Cardinality({p \in Requests : req[p].step \in S})

\* All requests.
All == Cardinality(Requests)

\* The failure that locks, counted from the one that opens the window.
LockAt == IF MaxLoginAttempts < 2 THEN 2 ELSE MaxLoginAttempts

\* How the columns of the throttle's row go together.
RowOK ==
    /\ window = "none" => failed \in {0, 1} /\ lock = "none"
    /\ window = "open" => lock \in {"none", "on"}
    /\ window = "open" /\ lock = "none" => failed < LockAt

\* Without a row every wrong password is still to be counted.  With one, all that are
\* neither counted nor about to be are of requests that lost the race to insert it.
\* Once locked, only requests that passed IsEmailLocked before can try another one.
Counted ==
    /\ Number({"fail", "insert"}) <= guesses
    /\ failed = 0 => guesses = Number({"fail", "insert"})
    /\ failed > 0 /\ window # "open" => guesses <= Number({"fail"}) + All
    /\ window = "open" /\ lock = "none" => guesses <= Number({"fail"}) + All + failed
    /\ window = "open" /\ lock = "on" => guesses + Number({"password"}) <= 2 * All + LockAt - 1

\* A code was accepted as often as its used_at says.
UsedOnce == \A k \in Codes : uses[k] = IF k \in used THEN 1 ELSE 0

\* A confirmation that missed no change holds the setting there is, and its codes.
Confirming ==
    \A r \in Requests : req[r].op = "confirm" /\ ~req[r].stale =>
        /\ req[r].setting = setting
        /\ req[r].step = "mark" => owner[req[r].code] = setting

IInv == TypeOK /\ RowOK /\ Counted /\ UsedOnce /\ Confirming /\ FactorsUsable

--------------------------------------------------------------------------------
(* How a request's record changes                                          *)

Others(r) == \A p \in Requests : p # r => req'[p] = req[p]

LEMMA MoveStep ==
    ASSUME TypeOK, NEW r \in Requests, NEW o \in Ops, NEW st \in Steps,
           NEW s \in Settings \cup {None}, NEW k \in Codes \cup {None}, MoveTo(r, o, st, s, k)
    PROVE  /\ req' \in [Requests -> RequestRecords] /\ Others(r)
           /\ req'[r].op = o /\ req'[r].step = st /\ req'[r].setting = s /\ req'[r].code = k
           /\ ~req'[r].stale
    <1> DEFINE n == [op |-> o, step |-> st, setting |-> s, code |-> k, stale |-> FALSE]
    <1>1. n \in RequestRecords
        BY DEF RequestRecords
    <1>2. req' = [req EXCEPT ![r] = n]
        BY DEF MoveTo
    <1> HIDE DEF n
    <1>3. req' \in [Requests -> RequestRecords] /\ Others(r) /\ req'[r] = n
        BY <1>1, <1>2 DEF TypeOK, Others
    <1> QED
        BY <1>3 DEF n

LEMMA FinishStep ==
    ASSUME TypeOK, NEW r \in Requests, Finish(r)
    PROVE  /\ req' \in [Requests -> RequestRecords] /\ Others(r)
           /\ req'[r].op = "none" /\ req'[r].step = "idle"
    <1>1. Idle \in RequestRecords
        BY DEF Idle, RequestRecords, Steps
    <1>2. req' \in [Requests -> RequestRecords] /\ Others(r) /\ req'[r] = Idle
        BY <1>1 DEF TypeOK, Finish, Others
    <1> QED
        BY <1>2 DEF Idle

\* Outdate changes nothing of the other requests but stale.
LEMMA OutdateStep ==
    ASSUME TypeOK, NEW r \in Requests, NEW n \in RequestRecords, Outdate(r, n)
    PROVE  /\ req' \in [Requests -> RequestRecords] /\ req'[r] = n
           /\ \A p \in Requests : p # r =>
                 /\ req'[p].op = req[p].op /\ req'[p].step = req[p].step
                 /\ req'[p].setting = req[p].setting /\ req'[p].code = req[p].code
                 /\ req'[p].op = "confirm" => req'[p].stale
    <1>1. \A p \in Requests : req[p] \in RequestRecords
        BY DEF TypeOK
    <1>2. ASSUME NEW p \in Requests
          PROVE  [req[p] EXCEPT !.stale = (@ \/ req[p].op = "confirm")] \in RequestRecords
        BY <1>1 DEF RequestRecords
    <1>3. req' \in [Requests -> RequestRecords] /\ req'[r] = n
        BY <1>2 DEF Outdate
    <1>4. ASSUME NEW p \in Requests, p # r
          PROVE  /\ req'[p].op = req[p].op /\ req'[p].step = req[p].step
                 /\ req'[p].setting = req[p].setting /\ req'[p].code = req[p].code
                 /\ req'[p].op = "confirm" => req'[p].stale
        <2>1. req'[p] = [req[p] EXCEPT !.stale = (@ \/ req[p].op = "confirm")]
            BY <1>4 DEF Outdate
        <2> QED
            BY <1>1, <2>1 DEF RequestRecords
    <1> QED
        BY <1>3, <1>4

\* What a request holds depends on its own record and on made, which only grows.
LEMMA OtherRequestsOK ==
    ASSUME TypeOK, NEW r \in Requests, made \subseteq made',
           \A p \in Requests : p # r =>
                 /\ req'[p].op = req[p].op /\ req'[p].step = req[p].step
                 /\ req'[p].setting = req[p].setting /\ req'[p].code = req[p].code
    PROVE  \A p \in Requests : p # r => RequestOK(p)'
    BY DEF TypeOK, RequestOK

LEMMA OtherSteps ==
    ASSUME NEW r \in Requests, Others(r)
    PROVE  \A p \in Requests : p # r =>
                 /\ req'[p].op = req[p].op /\ req'[p].step = req[p].step
                 /\ req'[p].setting = req[p].setting /\ req'[p].code = req[p].code
    BY DEF Others

--------------------------------------------------------------------------------
(* Counting requests                                                       *)

LEMMA NumberType ==
    ASSUME NEW S
    PROVE  Number(S) \in Nat /\ All \in Nat /\ Number(S) <= All
    <1> DEFINE T == {p \in Requests : req[p].step \in S}
    <1>1. T \in SUBSET Requests
        OBVIOUS
    <1>2. IsFiniteSet(T) /\ Cardinality(T) <= Cardinality(Requests)
        BY <1>1, RequestsFinite, FS_Subset
    <1>3. Cardinality(T) \in Nat /\ Cardinality(Requests) \in Nat
        BY <1>2, RequestsFinite, FS_CardinalityType
    <1> QED
        BY <1>2, <1>3 DEF Number, All

LEMMA NumberPrimed ==
    ASSUME NEW S
    PROVE  Number(S)' \in Nat
    <1>1. IsFiniteSet({p \in Requests : req'[p].step \in S})
        BY RequestsFinite, FS_Subset
    <1> QED
        BY <1>1, FS_CardinalityType DEF Number

LEMMA NumberSplit ==
    ASSUME NEW a, NEW b, a # b
    PROVE  Number({a, b}) = Number({a}) + Number({b})
    <1> DEFINE T(S) == {p \in Requests : req[p].step \in S}
    <1>1. IsFiniteSet(T({a})) /\ IsFiniteSet(T({b}))
        BY RequestsFinite, FS_Subset
    <1>2. Cardinality(T({a}) \cup T({b})) =
              Cardinality(T({a})) + Cardinality(T({b})) - Cardinality(T({a}) \cap T({b}))
        BY <1>1, FS_Union
    <1>3. T({a}) \cap T({b}) = {} /\ T({a}) \cup T({b}) = T({a, b})
        OBVIOUS
    <1>4. Cardinality(T({a})) \in Nat /\ Cardinality(T({b})) \in Nat
        BY <1>1, FS_CardinalityType
    <1>5. Cardinality(T({a}) \cap T({b})) = 0
        BY <1>3, FS_EmptySet
    <1>6. /\ Number({a, b}) = Cardinality(T({a}) \cup T({b}))
          /\ Number({a}) = Cardinality(T({a})) /\ Number({b}) = Cardinality(T({b}))
        BY <1>3 DEF Number
    <1> HIDE DEF T
    <1> QED
        BY <1>2, <1>4, <1>5, <1>6

\* A step of one request moves it into or out of a set of steps.
LEMMA NumberMove ==
    ASSUME NEW S, NEW r \in Requests,
           \A p \in Requests : p # r => req'[p].step = req[p].step
    PROVE  Number(S)' = IF req[r].step \in S
                        THEN IF req'[r].step \in S THEN Number(S) ELSE Number(S) - 1
                        ELSE IF req'[r].step \in S THEN Number(S) + 1 ELSE Number(S)
    <1> DEFINE T == {p \in Requests : req[p].step \in S}
               U == {p \in Requests : req'[p].step \in S}
    <1>1. Number(S) = Cardinality(T) /\ Number(S)' = Cardinality(U)
        BY DEF Number
    <1>2. IsFiniteSet(T)
        BY RequestsFinite, FS_Subset
    <1>3. CASE (req[r].step \in S) = (req'[r].step \in S)
        <2>1. U = T
            BY <1>3
        <2> QED
            BY <1>1, <1>3, <2>1
    <1>4. CASE req[r].step \in S /\ req'[r].step \notin S
        <2>1. U = T \ {r} /\ r \in T
            BY <1>4
        <2> HIDE DEF T, U
        <2>2. Cardinality(U) = Cardinality(T) - 1
            BY <1>2, <2>1, FS_RemoveElement
        <2> QED
            BY <1>1, <1>4, <2>2
    <1>5. CASE req[r].step \notin S /\ req'[r].step \in S
        <2>1. U = T \cup {r} /\ r \notin T
            BY <1>5
        <2> HIDE DEF T, U
        <2>2. Cardinality(U) = Cardinality(T) + 1
            BY <1>2, <2>1, FS_AddElement
        <2> QED
            BY <1>1, <1>5, <2>2
    <1> QED
        BY <1>3, <1>4, <1>5

--------------------------------------------------------------------------------
(* What leaves a part of the invariant alone                               *)

\* Constants and counts are numbers.
LEMMA Numbers ==
    ASSUME TypeOK
    PROVE  /\ failed \in Nat /\ guesses \in Nat /\ LockAt \in Nat /\ LockAt >= 2 /\ All \in Nat
           /\ LockAt >= MaxLoginAttempts
           /\ \A a \in {"fail", "insert", "password"} : Number({a}) \in Nat /\ Number({a}) <= All
           /\ Number({"fail", "insert"}) = Number({"fail"}) + Number({"insert"})
           /\ Number({"fail", "password"}) = Number({"fail"}) + Number({"password"})
           /\ Number({"fail", "password"}) <= All
    <1>1. failed \in Nat /\ guesses \in Nat
        BY GuessBoundNat DEF TypeOK
    <1>2. LockAt \in Nat /\ LockAt >= 2 /\ LockAt >= MaxLoginAttempts
        BY MaxLoginAttemptsPositive DEF LockAt
    <1>3. \A a \in {"fail", "insert", "password"} : Number({a}) \in Nat /\ Number({a}) <= All
        BY NumberType
    <1>4. Number({"fail", "insert"}) = Number({"fail"}) + Number({"insert"})
        BY NumberSplit
    <1>5. Number({"fail", "password"}) = Number({"fail"}) + Number({"password"})
        BY NumberSplit
    <1> QED
        BY <1>1, <1>2, <1>3, <1>4, <1>5, NumberType

\* A request that tries no password, and counts none, leaves the throttle's count right.
LEMMA ThrottleKept ==
    ASSUME IInv, NEW r \in Requests, UNCHANGED <<throttle, guesses>>,
           \A p \in Requests : p # r => req'[p].step = req[p].step,
           req[r].step \notin {"fail", "insert"},
           req'[r].step \notin {"fail", "insert", "password"}
    PROVE  RowOK' /\ Counted'
    <1>1. /\ Number({"fail"})' = Number({"fail"})
          /\ Number({"fail", "insert"})' = Number({"fail", "insert"})
          /\ Number({"password"})' \in {Number({"password"}), Number({"password"}) - 1}
        BY NumberMove
    <1>2. RowOK'
        BY DEF IInv, RowOK, throttle
    <1>3. Counted'
        BY <1>1, Numbers DEF IInv, Counted, throttle
    <1> QED
        BY <1>2, <1>3

\* A request that changes neither the setting nor its codes leaves the factor usable.
LEMMA FactorsKept ==
    ASSUME IInv, NEW r \in Requests, Others(r), req'[r].op # "confirm",
           UNCHANGED <<factor, codes, uses, handed, made, loose>>
    PROVE  UsedOnce' /\ Confirming' /\ FactorsUsable'
    <1>1. UsedOnce'
        BY DEF IInv, UsedOnce, codes
    <1>2. Confirming'
        BY DEF IInv, Confirming, Others, factor, codes
    <1>3. FactorsUsable'
        BY DEF IInv, FactorsUsable, factor, codes
    <1> QED
        BY <1>1, <1>2, <1>3

\* The type invariant after a step that leaves the factor alone.
LEMMA TypeKept ==
    ASSUME TypeOK, NEW r \in Requests, Others(r), req' \in [Requests -> RequestRecords],
           RequestOK(r)', UNCHANGED <<factor, codes, uses, handed, made, loose>>,
           failed' \in Nat, window' \in {"none", "open", "over"}, lock' \in {"none", "on", "past"},
           failed' = 0 => window' = "none" /\ lock' = "none",
           guesses' \in 0..GuessBound
    PROVE  TypeOK'
    <1>1. \A p \in Requests : RequestOK(p)'
        BY OtherSteps, OtherRequestsOK
    <1> QED
        BY <1>1 DEF TypeOK, factor, codes

--------------------------------------------------------------------------------
(* The throttle                                                            *)

LEMMA IsEmailLockedKeeps ==
    ASSUME IInv, NEW r \in Requests, IsEmailLocked(r)
    PROVE  IInv'
    <1>1. /\ req' \in [Requests -> RequestRecords] /\ Others(r)
          /\ req'[r].op = "login" /\ req'[r].step = "password"
        BY MoveStep DEF IInv, IsEmailLocked, Ops, Steps
    <1>2. TypeOK'
        <2>1. RequestOK(r)'
            BY <1>1 DEF RequestOK
        <2> QED
            BY <1>1, <2>1, TypeKept DEF IInv, IsEmailLocked, TypeOK, throttle
    <1>3. RowOK' /\ Counted'
        <2>1. /\ Number({"fail"})' = Number({"fail"})
              /\ Number({"fail", "insert"})' = Number({"fail", "insert"})
            BY <1>1, NumberMove DEF IsEmailLocked, Others
        <2>2. RowOK'
            BY DEF IInv, RowOK, IsEmailLocked, throttle
        <2>3. Counted'
            BY <2>1, Numbers DEF IInv, Counted, IsEmailLocked, throttle
        <2> QED
            BY <2>2, <2>3
    <1>4. UsedOnce' /\ Confirming' /\ FactorsUsable'
        BY <1>1, FactorsKept DEF IsEmailLocked
    <1> QED
        BY <1>2, <1>3, <1>4 DEF IInv

LEMMA LoginKeeps ==
    ASSUME IInv, NEW r \in Requests, Login(r)
    PROVE  IInv'
    <1>0. TypeOK /\ UNCHANGED <<throttle, factor, codes, uses, handed, made, loose>>
          /\ req[r].step = "password"
        BY DEF IInv, Login
    <1>1. CASE guesses < GuessBound /\ guesses' = guesses + 1 /\ MoveTo(r, "login", "fail", None, None)
        <2>1. /\ req' \in [Requests -> RequestRecords] /\ Others(r)
              /\ req'[r].op = "login" /\ req'[r].step = "fail"
            BY <1>0, <1>1, MoveStep DEF Ops, Steps
        <2>2. TypeOK'
            <3>1. RequestOK(r)'
                BY <2>1 DEF RequestOK
            <3>2. guesses' \in 0..GuessBound
                BY <1>1, <1>0, GuessBoundNat DEF TypeOK
            <3> QED
                BY <1>0, <2>1, <3>1, <3>2, TypeKept DEF TypeOK, throttle
        <2>3. /\ Number({"fail"})' = Number({"fail"}) + 1
              /\ Number({"fail", "insert"})' = Number({"fail", "insert"}) + 1
              /\ Number({"password"})' = Number({"password"}) - 1
            BY <1>0, <2>1, NumberMove DEF Others
        <2>4. RowOK'
            BY <1>0 DEF IInv, RowOK, throttle
        <2>5. Counted'
            BY <1>0, <1>1, <2>3, Numbers DEF IInv, Counted, throttle
        <2>6. UsedOnce' /\ Confirming' /\ FactorsUsable'
            BY <1>0, <2>1, FactorsKept
        <2> QED
            BY <2>2, <2>4, <2>5, <2>6 DEF IInv
    <1>2. CASE MoveTo(r, "login", IF enabled THEN "factor" ELSE "reset", None, None) /\ UNCHANGED guesses
        <2>1. /\ req' \in [Requests -> RequestRecords] /\ Others(r)
              /\ req'[r].op = "login" /\ req'[r].step \in {"factor", "reset"}
            <3>1. (IF enabled THEN "factor" ELSE "reset") \in Steps
                BY DEF Steps
            <3> QED
                BY <1>0, <1>2, <3>1, MoveStep DEF Ops
        <2>2. RequestOK(r)'
            BY <2>1 DEF RequestOK
        <2>3. TypeOK'
            BY <1>0, <1>2, <2>1, <2>2, TypeKept DEF TypeOK, throttle
        <2>4. RowOK' /\ Counted'
            BY <1>0, <1>2, <2>1, ThrottleKept DEF Others
        <2>5. UsedOnce' /\ Confirming' /\ FactorsUsable'
            BY <1>0, <2>1, FactorsKept
        <2> QED
            BY <2>3, <2>4, <2>5 DEF IInv
    <1> QED
        BY <1>1, <1>2 DEF Login

\* A failure that finds no row goes on to insert one.
LEMMA NoRowKeeps ==
    ASSUME IInv, NEW r \in Requests, req[r].step = "fail", failed = 0,
           MoveTo(r, "login", "insert", None, None),
           UNCHANGED <<throttle, guesses, factor, codes, uses, handed, made, loose>>
    PROVE  IInv'
    <1>1. /\ req' \in [Requests -> RequestRecords] /\ Others(r)
          /\ req'[r].op = "login" /\ req'[r].step = "insert"
        BY MoveStep DEF IInv, Ops, Steps
    <1>2. RequestOK(r)'
        BY <1>1 DEF RequestOK
    <1>3. TypeOK'
        BY <1>1, <1>2, TypeKept DEF IInv, TypeOK, throttle
    <1>4. Number({"fail", "insert"})' = Number({"fail", "insert"})
        BY <1>1, NumberMove DEF Others
    <1>5. RowOK' /\ Counted'
        <2>1. window = "none"
            BY DEF IInv, TypeOK
        <2> QED
            BY <1>4, <2>1 DEF IInv, RowOK, Counted, throttle
    <1>6. UsedOnce' /\ Confirming' /\ FactorsUsable'
        BY <1>1, FactorsKept
    <1> QED
        BY <1>3, <1>5, <1>6 DEF IInv

\* A failure that is counted ends its request.
LEMMA CountStep ==
    ASSUME IInv, NEW r \in Requests, req[r].step = "fail", Finish(r)
    PROVE  /\ req' \in [Requests -> RequestRecords] /\ Others(r) /\ RequestOK(r)'
           /\ req'[r].op # "confirm"
           /\ Number({"fail"})' = Number({"fail"}) - 1
           /\ Number({"fail", "insert"})' = Number({"fail", "insert"}) - 1
           /\ Number({"password"})' = Number({"password"})
           /\ Number({"fail", "password"})' = Number({"fail", "password"}) - 1
    <1>1. /\ req' \in [Requests -> RequestRecords] /\ Others(r)
          /\ req'[r].op = "none" /\ req'[r].step = "idle"
        BY FinishStep DEF IInv
    <1>2. RequestOK(r)'
        BY <1>1 DEF RequestOK
    <1> QED
        BY <1>1, <1>2, NumberMove DEF Others

\* The failure that opens the window, or opens it again.
LEMMA FirstCountKeeps ==
    ASSUME IInv, NEW r \in Requests, req[r].step = "fail", failed > 0, window # "open",
           failed' = 1, window' = "open", lock' = "none",
           guesses' = IF window = "over" THEN Cardinality(Uncounted) ELSE guesses,
           Finish(r), UNCHANGED <<factor, codes, uses, handed, made, loose>>
    PROVE  IInv'
    <1>1. Cardinality(Uncounted) = Number({"fail", "insert"})
        BY DEF Uncounted, Number
    <1>2. Number({"fail", "insert"}) <= guesses /\ guesses <= Number({"fail"}) + All
        BY DEF IInv, Counted
    <1>3. guesses' \in Nat /\ guesses' <= guesses /\ guesses' >= Number({"fail", "insert"})
        BY <1>1, <1>2, Numbers DEF IInv
    <1>4. TypeOK'
        <2>1. guesses' \in 0..GuessBound
            BY <1>3, GuessBoundNat DEF IInv, TypeOK
        <2> QED
            BY <2>1, CountStep, TypeKept DEF IInv
    <1>5. RowOK'
        BY Numbers DEF IInv, RowOK, LockAt
    <1>6. Counted'
        <2>1. Number({"fail", "insert"})' <= guesses'
            BY <1>3, CountStep, Numbers DEF IInv
        <2>2. guesses' <= Number({"fail"})' + All + failed'
            BY <1>2, <1>3, CountStep, Numbers DEF IInv
        <2> QED
            BY <2>1, <2>2 DEF Counted, All
    <1>7. UsedOnce' /\ Confirming' /\ FactorsUsable'
        BY CountStep, FactorsKept
    <1> QED
        BY <1>4, <1>5, <1>6, <1>7 DEF IInv

\* A failure inside the window, which may be the one that locks.
LEMMA NextCountKeeps ==
    ASSUME IInv, NEW r \in Requests, req[r].step = "fail", failed > 0, window = "open",
           failed' = failed + 1, lock' = IF Locks(failed + 1) THEN "on" ELSE lock,
           UNCHANGED <<window, guesses>>,
           Finish(r), UNCHANGED <<factor, codes, uses, handed, made, loose>>
    PROVE  IInv'
    <1>0. lock \in {"none", "on"}
        BY DEF IInv, RowOK
    <1>1. TypeOK'
        <2>1. failed' \in Nat /\ failed' # 0
            BY Numbers DEF IInv
        <2> QED
            BY <2>1, CountStep, TypeKept DEF IInv, TypeOK
    <1>2. RowOK'
        <2>1. lock' = "none" => failed' < LockAt
            BY Numbers, MaxLoginAttemptsPositive DEF IInv, Locks
        <2> QED
            BY <1>0, <2>1 DEF RowOK
    <1>3. Counted'
        <2>1. Number({"fail", "insert"})' <= guesses'
            BY CountStep, Numbers DEF IInv, Counted
        <2>2. lock' = "none" => guesses' <= Number({"fail"})' + All + failed'
            <3>1. lock' = "none" => lock = "none"
                BY <1>0
            <3> QED
                BY <3>1, CountStep, Numbers DEF IInv, Counted
        <2>3. CASE lock = "on"
            BY <2>1, <2>3, CountStep, Numbers DEF IInv, Counted, All
        <2>4. CASE lock = "none"
            <3>1. failed < LockAt /\ guesses <= Number({"fail"}) + All + failed
                BY <2>4 DEF IInv, RowOK, Counted
            <3>2. guesses' + Number({"password"})' <= 2 * All + LockAt - 1
                BY <3>1, CountStep, Numbers DEF IInv
            <3> QED
                BY <2>1, <2>2, <3>2, Numbers DEF IInv, Counted, All
        <2> QED
            BY <1>0, <2>3, <2>4
    <1>4. UsedOnce' /\ Confirming' /\ FactorsUsable'
        BY CountStep, FactorsKept
    <1> QED
        BY <1>1, <1>2, <1>3, <1>4 DEF IInv

LEMMA CreateOrIncrementKeeps ==
    ASSUME IInv, NEW r \in Requests, CreateOrIncrementThrottle(r)
    PROVE  IInv'
    BY NoRowKeeps, FirstCountKeeps, NextCountKeeps DEF CreateOrIncrementThrottle

\* The insert, or its refusal by the unique index.
LEMMA InsertKeeps ==
    ASSUME IInv, NEW r \in Requests, InsertThrottle(r)
    PROVE  IInv'
    <1>1. /\ req' \in [Requests -> RequestRecords] /\ Others(r)
          /\ req'[r].op = "none" /\ req'[r].step = "idle"
        BY FinishStep DEF IInv, InsertThrottle
    <1>2. RequestOK(r)'
        BY <1>1 DEF RequestOK
    <1>3. failed' \in Nat /\ failed' > 0
        BY Numbers DEF IInv, InsertThrottle
    <1>4. TypeOK'
        BY <1>1, <1>2, <1>3, TypeKept DEF IInv, TypeOK, InsertThrottle
    <1>5. /\ Number({"fail"})' = Number({"fail"})
          /\ Number({"fail", "insert"})' = Number({"fail", "insert"}) - 1
          /\ Number({"password"})' = Number({"password"})
        <2>1. req[r].step = "insert" /\ \A p \in Requests : p # r => req'[p].step = req[p].step
            BY <1>1 DEF InsertThrottle, Others
        <2>2. Number({"fail"})' = Number({"fail"})
            BY <1>1, <2>1, NumberMove
        <2>3. Number({"fail", "insert"})' = Number({"fail", "insert"}) - 1
            BY <1>1, <2>1, NumberMove
        <2>4. Number({"password"})' = Number({"password"})
            BY <1>1, <2>1, NumberMove
        <2> QED
            BY <2>2, <2>3, <2>4
    <1>6. RowOK'
        BY DEF IInv, RowOK, InsertThrottle, TypeOK
    <1>7. Counted'
        <2>1. CASE failed = 0
            <3>1. window = "none" /\ guesses = Number({"fail"}) + Number({"insert"})
                BY <2>1, Numbers DEF IInv, TypeOK, Counted
            <3> QED
                BY <1>3, <1>5, <2>1, <3>1, Numbers DEF IInv, Counted, All, InsertThrottle
        <2>2. CASE failed > 0
            BY <1>5, <2>2, Numbers DEF IInv, Counted, All, InsertThrottle
        <2> QED
            BY <2>1, <2>2, Numbers DEF IInv
    <1>8. UsedOnce' /\ Confirming' /\ FactorsUsable'
        BY <1>1, FactorsKept DEF InsertThrottle
    <1> QED
        BY <1>4, <1>6, <1>7, <1>8 DEF IInv

\* A login that succeeds deletes the row: what is in flight is all there is to count.
LEMMA ResetKeeps ==
    ASSUME IInv, NEW r \in Requests, ResetThrottle(r)
    PROVE  IInv'
    <1>1. /\ req' \in [Requests -> RequestRecords] /\ Others(r)
          /\ req'[r].op = "none" /\ req'[r].step = "idle"
        BY FinishStep DEF IInv, ResetThrottle
    <1>2. RequestOK(r)'
        BY <1>1 DEF RequestOK
    <1>3. /\ guesses' = Number({"fail", "insert"})
          /\ Number({"fail", "insert"})' = Number({"fail", "insert"})
        BY <1>1, NumberMove DEF ResetThrottle, Uncounted, Number, Others
    <1>4. guesses' \in 0..GuessBound
        BY <1>3, Numbers, GuessBoundNat DEF IInv, Counted, TypeOK
    <1>5. TypeOK'
        BY <1>1, <1>2, <1>4, TypeKept DEF IInv, ResetThrottle
    <1>6. RowOK' /\ Counted'
        BY <1>3, Numbers DEF IInv, RowOK, Counted, ResetThrottle
    <1>7. UsedOnce' /\ Confirming' /\ FactorsUsable'
        BY <1>1, FactorsKept DEF ResetThrottle
    <1> QED
        BY <1>5, <1>6, <1>7 DEF IInv

\* Time passes: the window is over, or the lock is past.
LEMMA TickKeeps ==
    ASSUME IInv, Tick
    PROVE  IInv'
    <1>0. UNCHANGED <<failed, factor, codes, req, uses, handed, made, loose>>
        BY DEF Tick
    <1>1. \A S : Number(S)' = Number(S)
        BY <1>0 DEF Number
    <1>2. window # "none" /\ failed > 0
        BY Numbers DEF IInv, Tick, TypeOK
    <1>3. guesses' \in 0..GuessBound /\ guesses' <= guesses /\ Number({"fail", "insert"}) <= guesses'
        <2>1. Cardinality(Uncounted) = Number({"fail", "insert"})
            BY DEF Uncounted, Number
        <2> QED
            BY <2>1, Numbers, GuessBoundNat DEF IInv, TypeOK, Counted, Tick
    <1>4. TypeOK'
        <2>1. \A r \in Requests : RequestOK(r)'
            BY <1>0 DEF IInv, TypeOK, RequestOK
        <2> QED
            BY <1>0, <1>2, <1>3, <2>1 DEF IInv, TypeOK, Tick, factor, codes
    <1>5. RowOK'
        BY <1>0 DEF IInv, RowOK, Tick
    <1>6. Counted'
        <2>1. CASE window = "open" /\ window' = "over" /\ guesses' = Cardinality(Uncounted)
            <3>1. guesses' = Number({"fail"}) + Number({"insert"})
                BY <2>1, Numbers DEF IInv, Uncounted, Number
            <3> QED
                BY <1>0, <1>1, <1>2, <1>3, <2>1, <3>1, Numbers DEF IInv, Counted, All
        <2>2. CASE window = "over" /\ UNCHANGED <<window, guesses>>
            BY <1>0, <1>1, <1>2, <2>2 DEF IInv, Counted, All
        <2> QED
            BY <2>1, <2>2 DEF Tick
    <1>7. UsedOnce' /\ Confirming' /\ FactorsUsable'
        BY <1>0 DEF IInv, UsedOnce, Confirming, FactorsUsable, factor, codes
    <1> QED
        BY <1>4, <1>5, <1>6, <1>7 DEF IInv

\* A request that is refused takes back the failure it did not count.
LEMMA RefusedKeeps ==
    ASSUME IInv, NEW r \in Requests, Refused(r)
    PROVE  IInv'
    <1>1. /\ req' \in [Requests -> RequestRecords] /\ Others(r)
          /\ req'[r].op = "none" /\ req'[r].step = "idle"
        BY FinishStep DEF IInv, Refused
    <1>2. RequestOK(r)'
        BY <1>1 DEF RequestOK
    <1>3. UsedOnce' /\ Confirming' /\ FactorsUsable'
        BY <1>1, FactorsKept DEF Refused
    <1>4. CASE r \notin Uncounted
        <2>1. RowOK' /\ Counted'
            BY <1>1, <1>4, ThrottleKept DEF Refused, Uncounted, Others
        <2>2. TypeOK'
            BY <1>1, <1>2, <1>4, TypeKept DEF IInv, TypeOK, Refused, throttle
        <2> QED
            BY <1>3, <2>1, <2>2 DEF IInv
    <1>5. CASE r \in Uncounted
        <2>1. req[r].step \in {"fail", "insert"} /\ guesses' = guesses - 1 /\ UNCHANGED throttle
            BY <1>5 DEF Uncounted, Refused
        <2>2. /\ Number({"fail"})' \in {Number({"fail"}), Number({"fail"}) - 1}
              /\ req[r].step = "insert" => Number({"fail"})' = Number({"fail"})
              /\ Number({"fail", "insert"})' = Number({"fail", "insert"}) - 1
              /\ Number({"password"})' = Number({"password"})
            BY <1>1, <2>1, NumberMove DEF Others
        <2>3. Number({"fail", "insert"})' \in Nat
            BY NumberPrimed
        <2>4. guesses' \in 0..GuessBound
            BY <2>1, <2>2, <2>3, Numbers, GuessBoundNat DEF IInv, Counted, TypeOK
        <2>5. TypeOK'
            BY <1>1, <1>2, <2>1, <2>4, TypeKept DEF IInv, TypeOK, Refused, throttle
        <2>6. RowOK'
            BY <2>1 DEF IInv, RowOK, throttle
        <2>7. Counted'
            BY <2>1, <2>2, Numbers DEF IInv, Counted, throttle, All
        <2> QED
            BY <1>3, <2>5, <2>6, <2>7 DEF IInv
    <1> QED
        BY <1>4, <1>5

--------------------------------------------------------------------------------
(* The second factor                                                       *)

\* A request that goes on with the setting it read, and none that confirms.
LEMMA VerifyKeeps ==
    ASSUME IInv, NEW r \in Requests, NEW o \in {"login", "disable"}, NEW next \in {"reset", "disable"},
           next = "reset" <=> o = "login", setting # None, Verify(r, o, setting, next),
           req[r].step \in {"idle", "factor"},
           UNCHANGED <<throttle, factor, codes, guesses, uses, handed, made, loose>>
    PROVE  IInv'
    <1>0. setting \in Settings /\ setting \in made /\ o \in Ops
        BY DEF IInv, TypeOK, Ops
    <1>1. /\ req' \in [Requests -> RequestRecords] /\ Others(r)
          /\ req'[r].op = o /\ req'[r].setting = setting
          /\ \/ req'[r].step = next
             \/ req'[r].step = "consume" /\ req'[r].code \in Codes
        <2>1. CASE MoveTo(r, o, next, setting, None)
            BY <1>0, <2>1, MoveStep DEF IInv, Steps
        <2>2. ASSUME NEW k \in Codes, MoveTo(r, o, "consume", setting, k)
              PROVE  /\ req' \in [Requests -> RequestRecords] /\ Others(r)
                     /\ req'[r].op = o /\ req'[r].setting = setting
                     /\ req'[r].step = "consume" /\ req'[r].code \in Codes
            BY <1>0, <2>2, MoveStep DEF IInv, Steps
        <2> QED
            BY <2>1, <2>2 DEF Verify
    <1>2. RequestOK(r)'
        BY <1>0, <1>1 DEF RequestOK
    <1>3. TypeOK'
        BY <1>1, <1>2, TypeKept DEF IInv, TypeOK, throttle
    <1>4. RowOK' /\ Counted'
        BY <1>1, ThrottleKept DEF Others
    <1>5. UsedOnce' /\ Confirming' /\ FactorsUsable'
        BY <1>1, FactorsKept
    <1> QED
        BY <1>3, <1>4, <1>5 DEF IInv

LEMMA GetTwoFactorKeeps ==
    ASSUME IInv, NEW r \in Requests, GetTwoFactorByUser(r)
    PROVE  IInv'
    <1>1. CASE setting # None
        BY <1>1, VerifyKeeps DEF GetTwoFactorByUser
    <1>2. CASE setting = None
        <2>1. /\ req' \in [Requests -> RequestRecords] /\ Others(r)
              /\ req'[r].op = "none" /\ req'[r].step = "idle"
            BY <1>2, FinishStep DEF IInv, GetTwoFactorByUser
        <2>2. RequestOK(r)'
            BY <2>1 DEF RequestOK
        <2>3. TypeOK'
            BY <2>1, <2>2, TypeKept DEF IInv, TypeOK, GetTwoFactorByUser, throttle
        <2>4. RowOK' /\ Counted'
            BY <2>1, ThrottleKept DEF GetTwoFactorByUser, Others
        <2>5. UsedOnce' /\ Confirming' /\ FactorsUsable'
            BY <2>1, FactorsKept DEF GetTwoFactorByUser
        <2> QED
            BY <2>3, <2>4, <2>5 DEF IInv
    <1> QED
        BY <1>1, <1>2

LEMMA DisableArrives ==
    ASSUME IInv, NEW r \in Requests, Disable2FA(r)
    PROVE  IInv'
    BY VerifyKeeps DEF Disable2FA

\* A code that is accepted had not been used.
LEMMA ConsumeKeeps ==
    ASSUME IInv, NEW r \in Requests, ConsumeRecoveryCode(r)
    PROVE  IInv'
    <1> DEFINE q == req[r]
    <1>0. /\ TypeOK /\ q.step = "consume" /\ q.code \in Codes /\ q.op \in {"login", "disable"}
          /\ q.setting \in made /\ q.setting \in Settings \cup {None}
          /\ UNCHANGED <<throttle, factor, owner, guesses, handed, made, loose>>
        BY DEF IInv, TypeOK, RequestOK, RequestRecords, Ops, ConsumeRecoveryCode
    <1>1. /\ req' \in [Requests -> RequestRecords] /\ Others(r)
          /\ RequestOK(r)' /\ req'[r].op # "confirm"
          /\ req'[r].step \in {"idle", "reset", "disable"}
        <2>1. CASE Consumable(q.code, q.setting)
            <3> DEFINE st == IF q.op = "login" THEN "reset" ELSE "disable"
            <3>1. MoveTo(r, q.op, st, q.setting, q.code)
                BY <2>1 DEF ConsumeRecoveryCode
            <3>2. /\ st \in Steps /\ q.op \in Ops /\ q.setting \in Settings \cup {None}
                  /\ q.code \in Codes \cup {None} /\ st \in {"reset", "disable"}
                  /\ q.op = "login" => st = "reset"
                  /\ q.op = "disable" => st = "disable"
                BY <1>0 DEF Steps, Ops
            <3> HIDE DEF st, q
            <3>3. /\ req' \in [Requests -> RequestRecords] /\ Others(r)
                  /\ req'[r].op = q.op /\ req'[r].step = st /\ req'[r].setting = q.setting
                BY <1>0, <3>1, <3>2, MoveStep
            <3> QED
                BY <1>0, <3>2, <3>3 DEF RequestOK
        <2>2. CASE ~Consumable(q.code, q.setting)
            <3>1. /\ req' \in [Requests -> RequestRecords] /\ Others(r)
                  /\ req'[r].op = "none" /\ req'[r].step = "idle"
                BY <1>0, <2>2, FinishStep DEF ConsumeRecoveryCode
            <3> QED
                BY <3>1 DEF RequestOK
        <2> QED
            BY <2>1, <2>2
    <1>2. \/ UNCHANGED <<used, uses>>
          \/ /\ q.code \notin used /\ used' = used \cup {q.code}
             /\ uses' = [uses EXCEPT ![q.code] = @ + 1]
        BY DEF ConsumeRecoveryCode, Consumable
    <1>3. TypeOK'
        <2>1. used' \subseteq Codes /\ uses' \in [Codes -> Nat]
            BY <1>0, <1>2 DEF TypeOK
        <2>2. \A p \in Requests : RequestOK(p)'
            BY <1>0, <1>1, OtherSteps, OtherRequestsOK
        <2> QED
            BY <1>0, <1>1, <2>1, <2>2 DEF TypeOK, throttle, factor
    <1>4. RowOK' /\ Counted'
        BY <1>0, <1>1, ThrottleKept DEF Others
    <1>5. UsedOnce'
        BY <1>0, <1>2 DEF IInv, UsedOnce, TypeOK
    <1>6. Confirming' /\ FactorsUsable'
        BY <1>0, <1>1 DEF IInv, Confirming, FactorsUsable, Others, factor
    <1> QED
        BY <1>3, <1>4, <1>5, <1>6 DEF IInv

LEMMA ConfirmArrives ==
    ASSUME IInv, NEW r \in Requests, ConfirmEnable2FA(r)
    PROVE  IInv'
    <1>0. setting \in Settings /\ setting \in made
        BY DEF IInv, TypeOK, ConfirmEnable2FA
    <1>1. /\ req' \in [Requests -> RequestRecords] /\ Others(r)
          /\ req'[r].op = "confirm" /\ req'[r].step = "codes" /\ req'[r].setting = setting
        BY <1>0, MoveStep DEF IInv, ConfirmEnable2FA, Ops, Steps
    <1>2. RequestOK(r)'
        BY <1>0, <1>1 DEF RequestOK, ConfirmEnable2FA
    <1>3. TypeOK'
        BY <1>1, <1>2, TypeKept DEF IInv, TypeOK, ConfirmEnable2FA, throttle
    <1>4. RowOK' /\ Counted'
        BY <1>1, ThrottleKept DEF ConfirmEnable2FA, Others
    <1>5. Confirming'
        BY <1>1 DEF IInv, Confirming, ConfirmEnable2FA, Others, factor, codes
    <1>6. UsedOnce' /\ FactorsUsable'
        BY DEF IInv, UsedOnce, FactorsUsable, ConfirmEnable2FA, factor, codes
    <1> QED
        BY <1>3, <1>4, <1>5, <1>6 DEF IInv

\* A change of the setting or its codes: every other confirmation is outdated.
LEMMA Outdated ==
    ASSUME IInv, NEW r \in Requests, NEW n \in RequestRecords, Outdate(r, n),
           made \subseteq made', UNCHANGED <<throttle, guesses>>,
           req[r].step \notin {"fail", "insert"}, n.step \notin {"fail", "insert", "password"}
    PROVE  /\ req' \in [Requests -> RequestRecords] /\ req'[r] = n
           /\ \A p \in Requests : p # r => RequestOK(p)'
           /\ \A p \in Requests : p # r => (req'[p].op = "confirm" => req'[p].stale)
           /\ RowOK' /\ Counted'
    <1>1. TypeOK
        BY DEF IInv
    <1>2. RowOK' /\ Counted'
        BY <1>1, OutdateStep, ThrottleKept
    <1> QED
        BY <1>1, <1>2, OutdateStep, OtherRequestsOK

LEMMA IdleRecord == Idle \in RequestRecords /\ Idle.op = "none" /\ Idle.step = "idle"
    BY DEF Idle, RequestRecords, Steps

LEMMA UpsertKeeps ==
    ASSUME IInv, NEW r \in Requests, UpsertTwoFactor(r)
    PROVE  IInv'
    <1>0. TypeOK /\ UNCHANGED <<throttle, enabled, codes, guesses, uses, handed>>
        BY DEF IInv, UpsertTwoFactor
    <1>1. PICK s \in Settings \ made : setting' = s /\ made' = made \cup {s}
        BY DEF UpsertTwoFactor
    <1>2. /\ req' \in [Requests -> RequestRecords] /\ req'[r] = Idle
          /\ \A p \in Requests : p # r => RequestOK(p)'
          /\ \A p \in Requests : p # r => (req'[p].op = "confirm" => req'[p].stale)
          /\ RowOK' /\ Counted'
        BY <1>0, <1>1, IdleRecord, Outdated DEF UpsertTwoFactor
    <1>3. RequestOK(r)'
        BY <1>2, IdleRecord DEF RequestOK
    <1>4. TypeOK'
        BY <1>0, <1>1, <1>2, <1>3 DEF TypeOK, UpsertTwoFactor, throttle, codes
    <1>5. Confirming'
        BY <1>2, IdleRecord DEF Confirming
    <1>6. UsedOnce'
        BY <1>0 DEF IInv, UsedOnce, codes
    <1>7. FactorsUsable'
        <2>1. loose' = (loose \/ enabled) /\ enabled' = enabled
            BY <1>0 DEF UpsertTwoFactor
        <2> QED
            BY <2>1 DEF FactorsUsable
    <1> QED
        BY <1>2, <1>4, <1>5, <1>6, <1>7 DEF IInv

LEMMA ReplaceKeeps ==
    ASSUME IInv, NEW r \in Requests, ReplaceRecoveryCodes(r)
    PROVE  IInv'
    <1> DEFINE s == req[r].setting
    <1>0. /\ TypeOK /\ UNCHANGED <<throttle, factor, used, guesses, uses, handed>>
          /\ req[r].step = "codes" /\ loose' = (loose \/ enabled)
        BY DEF IInv, ReplaceRecoveryCodes
    <1>1. s \in Settings /\ s \in made /\ req[r].op = "confirm" /\ req[r].stale \in BOOLEAN
        BY <1>0, FactorsNone DEF TypeOK, RequestOK, RequestRecords, Ops
    <1>2. PICK k \in Codes \ made :
            /\ owner' = [c \in Codes |-> IF c = k THEN s ELSE IF owner[c] = s THEN None ELSE owner[c]]
            /\ made' = made \cup {k}
            /\ Outdate(r, [op |-> "confirm", step |-> "mark", setting |-> s, code |-> k,
                           stale |-> req[r].stale])
        BY DEF ReplaceRecoveryCodes
    <1> DEFINE n == [op |-> "confirm", step |-> "mark", setting |-> s, code |-> k, stale |-> req[r].stale]
    <1>3. n \in RequestRecords
        BY <1>1 DEF RequestRecords, Ops, Steps
    <1>4. /\ req' \in [Requests -> RequestRecords] /\ req'[r] = n
          /\ \A p \in Requests : p # r => RequestOK(p)'
          /\ \A p \in Requests : p # r => (req'[p].op = "confirm" => req'[p].stale)
          /\ RowOK' /\ Counted'
        BY <1>0, <1>2, <1>3, Outdated
    <1>5. RequestOK(r)'
        BY <1>1, <1>2, <1>4 DEF RequestOK
    <1>6. TypeOK'
        BY <1>0, <1>1, <1>2, <1>4, <1>5 DEF TypeOK, throttle, factor
    <1>7. Confirming'
        <2>1. ~req[r].stale => s = setting
            BY <1>1 DEF IInv, Confirming
        <2>2. req'[r].op = "confirm" /\ ~req'[r].stale =>
                /\ req'[r].setting = setting'
                /\ owner'[req'[r].code] = setting'
            BY <1>0, <1>2, <1>4, <2>1 DEF factor
        <2> QED
            BY <1>4, <2>2 DEF Confirming
    <1>8. UsedOnce'
        BY <1>0 DEF IInv, UsedOnce
    <1>9. FactorsUsable'
        BY <1>0 DEF FactorsUsable, factor
    <1> QED
        BY <1>4, <1>6, <1>7, <1>8, <1>9 DEF IInv

LEMMA MarkKeeps ==
    ASSUME IInv, NEW r \in Requests, MarkTwoFactorEnabled(r)
    PROVE  IInv'
    <1>0. /\ TypeOK /\ UNCHANGED <<throttle, setting, codes, guesses, uses, made>>
          /\ req[r].step = "mark" /\ req[r].code \in Codes /\ req[r].setting \in made
          /\ req[r].op = "confirm" /\ req[r].stale \in BOOLEAN
        BY DEF IInv, MarkTwoFactorEnabled, TypeOK, RequestOK, RequestRecords, Ops
    <1>1. /\ req' \in [Requests -> RequestRecords] /\ Others(r)
          /\ req'[r].op = "none" /\ req'[r].step = "idle"
        BY <1>0, FinishStep DEF MarkTwoFactorEnabled
    <1>2. RowOK' /\ Counted'
        BY <1>0, <1>1, ThrottleKept DEF Others
    <1>3. TypeOK'
        <2>1. RequestOK(r)'
            BY <1>1 DEF RequestOK
        <2>2. \A p \in Requests : RequestOK(p)'
            BY <1>0, <1>1, <2>1, OtherSteps, OtherRequestsOK
        <2> QED
            BY <1>0, <1>1, <2>2 DEF TypeOK, MarkTwoFactorEnabled, throttle, codes
    <1>4. Confirming'
        BY <1>0, <1>1 DEF IInv, Confirming, Others, codes
    <1>5. UsedOnce'
        BY <1>0 DEF IInv, UsedOnce, codes
    <1>6. FactorsUsable'
        <2>1. ~req[r].stale => setting = req[r].setting /\ owner[req[r].code] = setting
            BY <1>0 DEF IInv, Confirming
        <2>2. req[r].setting # None /\ req[r].code # None
            BY <1>0, FactorsNone DEF TypeOK
        <2> QED
            BY <1>0, <2>1, <2>2 DEF FactorsUsable, MarkTwoFactorEnabled, codes
    <1> QED
        BY <1>2, <1>3, <1>4, <1>5, <1>6 DEF IInv

LEMMA DisableKeeps ==
    ASSUME IInv, NEW r \in Requests, DisableTwoFactor(r)
    PROVE  IInv'
    <1>0. /\ TypeOK /\ UNCHANGED <<throttle, used, guesses, uses, handed, made>>
          /\ owner' = [c \in Codes |-> IF owner[c] = setting THEN None ELSE owner[c]]
        BY DEF IInv, DisableTwoFactor
    <1>1. /\ req' \in [Requests -> RequestRecords] /\ req'[r] = Idle
          /\ \A p \in Requests : p # r => RequestOK(p)'
          /\ \A p \in Requests : p # r => (req'[p].op = "confirm" => req'[p].stale)
          /\ RowOK' /\ Counted'
        BY <1>0, IdleRecord, Outdated DEF DisableTwoFactor
    <1>2. RequestOK(r)'
        BY <1>1, IdleRecord DEF RequestOK
    <1>3. TypeOK'
        BY <1>0, <1>1, <1>2 DEF TypeOK, DisableTwoFactor, throttle
    <1>4. Confirming'
        BY <1>1, IdleRecord DEF Confirming
    <1>5. UsedOnce' /\ FactorsUsable'
        BY <1>0 DEF IInv, UsedOnce, FactorsUsable, DisableTwoFactor
    <1> QED
        BY <1>1, <1>3, <1>4, <1>5 DEF IInv

--------------------------------------------------------------------------------
(* Theorems                                                                *)

LEMMA InitIInv == Init => IInv
    <1> SUFFICES ASSUME Init PROVE IInv
        OBVIOUS
    <1>1. TypeOK
        <2>1. \A r \in Requests : RequestOK(r)
            BY IdleRecord DEF Init, RequestOK
        <2>2. req \in [Requests -> RequestRecords]
            BY IdleRecord DEF Init
        <2>3. /\ owner \in [Codes -> (Settings \cap made) \cup {None}] /\ uses \in [Codes -> Nat]
              /\ setting \in (Settings \cap made) \cup {None} /\ used \subseteq Codes
              /\ made \subseteq Settings \cup Codes /\ handed \in Codes \cup {None}
            BY DEF Init
        <2>4. /\ failed \in Nat /\ window \in {"none", "open", "over"} /\ lock \in {"none", "on", "past"}
              /\ failed = 0 => window = "none" /\ lock = "none"
              /\ guesses \in 0..GuessBound
            BY GuessBoundNat DEF Init
        <2>5. enabled \in BOOLEAN /\ confirmed \in BOOLEAN /\ loose \in BOOLEAN
            BY DEF Init
        <2> QED
            BY <2>1, <2>2, <2>3, <2>4, <2>5 DEF TypeOK
    <1>2. \A S \in {{"fail"}, {"password"}, {"fail", "insert"}} : Number(S) = 0
        <2>1. \A p \in Requests : req[p].step = "idle"
            BY IdleRecord DEF Init
        <2> QED
            BY <2>1, FS_EmptySet DEF Number
    <1>3. RowOK /\ Counted
        BY <1>2 DEF Init, RowOK, Counted
    <1>4. UsedOnce /\ Confirming /\ FactorsUsable
        BY IdleRecord DEF Init, UsedOnce, Confirming, FactorsUsable
    <1> QED
        BY <1>1, <1>3, <1>4 DEF IInv

LEMMA NextIInv ==
    ASSUME IInv, [Next]_vars
    PROVE  IInv'
    <1>1. CASE UNCHANGED vars
        <2>1. \A S : Number(S)' = Number(S)
            BY <1>1 DEF vars, Number
        <2>2. TypeOK'
            BY <1>1 DEF vars, throttle, factor, codes, IInv, TypeOK, RequestOK
        <2>3. RowOK' /\ Counted'
            BY <1>1, <2>1 DEF vars, throttle, factor, codes, IInv, RowOK, Counted
        <2>4. UsedOnce' /\ Confirming' /\ FactorsUsable'
            BY <1>1 DEF vars, factor, codes, IInv, UsedOnce, Confirming, FactorsUsable
        <2> QED
            BY <2>2, <2>3, <2>4 DEF IInv
    <1>2. ASSUME NEW r \in Requests, LoginRequest(r) PROVE IInv'
        BY <1>2, IsEmailLockedKeeps, LoginKeeps, CreateOrIncrementKeeps, InsertKeeps, ResetKeeps,
           GetTwoFactorKeeps, ConsumeKeeps DEF LoginRequest
    <1>3. ASSUME NEW r \in Requests, FactorRequest(r) PROVE IInv'
        BY <1>3, UpsertKeeps, ConfirmArrives, ReplaceKeeps, MarkKeeps, DisableArrives, DisableKeeps
           DEF FactorRequest
    <1> QED
        BY <1>1, <1>2, <1>3, RefusedKeeps, TickKeeps DEF Next

\* IInv is inductive.
THEOREM Inductive == Spec => []IInv
    BY InitIInv, NextIInv, PTL DEF Spec

\* The rows of the throttle, the setting and the recovery codes keep their types, and
\* every handler of Login, ConfirmEnable2FA and Disable2FA holds the setting and code
\* that its step works on.
THEOREM FactorsTypeCorrect == Spec => []TypeOK
    BY Inductive, PTL DEF IInv

\* CreateOrIncrementThrottle bounds the wrong passwords between two resets of its row,
\* for any MaxLoginAttempts and any number of concurrent logins.
THEOREM ThrottleHolds == Spec => []GuessesBounded
    <1>1. IInv => GuessesBounded
        <2> SUFFICES ASSUME IInv PROVE GuessesBounded
            OBVIOUS
        <2>1. guesses <= 2 * All + LockAt - 1
            <3>1. CASE failed = 0
                BY <3>1, Numbers DEF IInv, Counted
            <3>2. CASE failed > 0 /\ window # "open"
                BY <3>2, Numbers DEF IInv, Counted
            <3>3. CASE failed > 0 /\ window = "open"
                BY <3>3, Numbers DEF IInv, Counted, RowOK
            <3> QED
                BY <3>1, <3>2, <3>3, Numbers DEF IInv
        <2>2. CountedFailures = 1 + LockAt
            BY DEF CountedFailures, LockAt
        <2> QED
            BY <2>1, <2>2, Numbers DEF IInv, GuessesBounded, All
    <1> QED
        BY <1>1, Inductive, PTL

\* ConsumeRecoveryCode accepts a code at most once, whatever replaces the setting or
\* its codes meanwhile.
THEOREM RecoveryCodeIsOneTime == Spec => []RecoveryCodeOnce
    <1>1. IInv => RecoveryCodeOnce
        BY DEF IInv, UsedOnce, RecoveryCodeOnce
    <1> QED
        BY <1>1, Inductive, PTL

\* An enabled second factor has a confirmed setting and the codes answered last, unless
\* it was replaced while enabled or by a confirmation that overlapped a change.
THEOREM EnabledFactorUsable == Spec => []FactorsUsable
    <1>1. IInv => FactorsUsable
        BY DEF IInv
    <1> QED
        BY <1>1, Inductive, PTL

================================================================================
