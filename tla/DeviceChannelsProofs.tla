-------------------------- MODULE DeviceChannelsProofs --------------------------
(***************************************************************************)
(* Theorems about DeviceChannels, for every number of devices and          *)
(* channels.  The liveness of the shutdown stays with TLC.                 *)
(***************************************************************************)
EXTENDS DeviceChannels, TLAPS

--------------------------------------------------------------------------------
(* The inductive invariant                                                 *)

Served == {"loop", "read", "touch", "seen", "log", "offer", "apply", "record"}

\* What a channel does only after the check of Blocked.
Checked(q) == q.step \in {"seen", "log", "offer"} \/ (q.kind = "http" /\ q.step = "apply")

\* A device that would be let in now was, since its channel presented the token; the
\* same for its block since the request or frame began.
GatesOK(c) ==
    LET q == ch[c] IN
    /\ q.step \in Served => c \in passed
    /\ q.device # None /\ LetIn(q.device) => c \in passed
    /\ Checked(q) => c \in unblocked
    /\ q.device # None /\ q.device \notin blocked => c \in unblocked

\* A report between its effects has had the first; a TCP report of the new version that
\* is past the campaign was taken or is counted as untaken.
ReportOK(c) ==
    LET q == ch[c] IN
    /\ AssignmentFirst(c) => q.device \in installed
    /\ RowFirst(c) => q.device \in updated
    /\ q.kind = "tcp" /\ q.message = "report" /\ q.step \in {"touch", "seen", "log"} =>
           q.device \in installed \cup untaken

\* ReportsAgree for one device.
Agree(d) ==
    /\ d \in installed \ unwritten =>
           d \in updated \/ (\E c \in Channels : ch[c].device = d /\ AssignmentFirst(c))
    /\ d \in updated \ untaken =>
           d \in installed \/ (\E c \in Channels : ch[c].device = d /\ RowFirst(c))

IInv ==
    /\ TypeOK /\ ReportsAgree /\ QuietAfterWait
    /\ \A c \in Channels : GatesOK(c) /\ ReportOK(c)

\* A report between its two effects.
Between(c) == AssignmentFirst(c) \/ RowFirst(c)

Others(c) == \A p \in Channels : p # c => ch'[p] = ch[p]

--------------------------------------------------------------------------------
(* Channel records                                                         *)

LEMMA SetStep ==
    ASSUME TypeOK, NEW c \in Channels, NEW n \in ChannelRecords, ch' = [ch EXCEPT ![c] = n]
    PROVE  ch' \in [Channels -> ChannelRecords] /\ Others(c) /\ ch'[c] = n
    BY DEF TypeOK, Others

LEMMA IdleStep ==
    ASSUME TypeOK, NEW c \in Channels, ch' = [ch EXCEPT ![c] = Idle]
    PROVE  /\ ch' \in [Channels -> ChannelRecords] /\ Others(c)
           /\ ch'[c].kind = "none" /\ ch'[c].step = "idle" /\ ch'[c].device = None
           /\ ch'[c].message = "none"
    <1>1. Idle \in ChannelRecords
        BY DEF Idle, ChannelRecords, Steps
    <1>2. ch' \in [Channels -> ChannelRecords] /\ Others(c) /\ ch'[c] = Idle
        BY <1>1 DEF TypeOK, Others
    <1> QED
        BY <1>2 DEF Idle

LEMMA GotoStep ==
    ASSUME TypeOK, NEW c \in Channels, NEW st \in Steps, Goto(c, st)
    PROVE  /\ ch' \in [Channels -> ChannelRecords] /\ Others(c)
           /\ ch'[c].kind = ch[c].kind /\ ch'[c].step = st /\ ch'[c].device = ch[c].device
           /\ ch'[c].message = ch[c].message
    <1>1. ch[c] \in ChannelRecords /\ ch'[c] = [ch[c] EXCEPT !.step = st]
        BY DEF TypeOK, Goto
    <1>2. /\ ch'[c] \in ChannelRecords
          /\ ch'[c].kind = ch[c].kind /\ ch'[c].step = st /\ ch'[c].device = ch[c].device
          /\ ch'[c].message = ch[c].message
        BY <1>1 DEF ChannelRecords
    <1>3. ch' = [ch EXCEPT ![c] = ch'[c]]
        BY <1>1 DEF TypeOK, Goto
    <1>4. ch' \in [Channels -> ChannelRecords] /\ Others(c)
        BY <1>2, <1>3 DEF TypeOK, Others
    <1> QED
        BY <1>2, <1>4

LEMMA AnswerStep ==
    ASSUME TypeOK, NEW c \in Channels, Answer(c)
    PROVE  /\ ch' \in [Channels -> ChannelRecords] /\ Others(c)
           /\ \/ /\ ch[c].kind = "tcp" /\ ch'[c].kind = "tcp" /\ ch'[c].step = "loop"
                 /\ ch'[c].device = ch[c].device /\ ch'[c].message = "none"
              \/ /\ ch[c].kind # "tcp" /\ ch'[c].kind = "none" /\ ch'[c].step = "idle"
                 /\ ch'[c].device = None /\ ch'[c].message = "none"
    <1>1. CASE ch[c].kind = "tcp"
        <2> DEFINE n == [kind |-> "tcp", step |-> "loop", device |-> ch[c].device, message |-> "none"]
        <2>1. n \in ChannelRecords
            BY DEF TypeOK, ChannelRecords, Kinds, Steps
        <2>2. ch' = [ch EXCEPT ![c] = n]
            BY <1>1 DEF Answer
        <2>3. ch' \in [Channels -> ChannelRecords] /\ Others(c) /\ ch'[c] = n
            BY <2>1, <2>2 DEF TypeOK, Others
        <2> QED
            BY <1>1, <2>3
    <1>2. CASE ch[c].kind # "tcp"
        <2>1. ch' = [ch EXCEPT ![c] = Idle]
            BY <1>2 DEF Answer
        <2> QED
            BY <1>2, <2>1, IdleStep
    <1> QED
        BY <1>1, <1>2

--------------------------------------------------------------------------------
(* What a step of one channel has to show                                  *)

\* The devices' rows and the histories only grow in the step of a channel, so the
\* other channels keep what is known of them.
LEMMA ChannelStep ==
    ASSUME IInv, NEW c \in Channels, ch' \in [Channels -> ChannelRecords], Others(c),
           UNCHANGED <<gates, server>>,
           updated \subseteq updated', updated' \subseteq Devices,
           installed \subseteq installed', installed' \subseteq Devices,
           unwritten' \subseteq Devices, untaken \subseteq untaken', untaken' \subseteq Devices,
           passed' \subseteq Channels, unblocked' \subseteq Channels,
           \A p \in Channels : p # c /\ p \in passed => p \in passed',
           \A p \in Channels : p # c /\ p \in unblocked => p \in unblocked',
           ch'[c].kind = "tcp" => ch[c].kind = "tcp" \/ listening,
           ChannelOK(c)', GatesOK(c)', ReportOK(c)', ReportsAgree'
    PROVE  IInv'
    <1>1. ASSUME NEW p \in Channels PROVE ChannelOK(p)'
        BY DEF IInv, TypeOK, ChannelOK, Others
    <1>2. TypeOK'
        BY <1>1 DEF IInv, TypeOK, gates, server
    <1>3. ASSUME NEW p \in Channels PROVE GatesOK(p)' /\ ReportOK(p)'
        <2>1. CASE p = c
            BY <2>1
        <2>2. CASE p # c
            <3>1. GatesOK(p) /\ ReportOK(p) /\ ch'[p] = ch[p]
                BY <2>2 DEF IInv, Others
            <3>2. GatesOK(p)'
                BY <2>2, <3>1 DEF GatesOK, LetIn, gates, Checked
            <3>3. ReportOK(p)'
                BY <3>1 DEF ReportOK, AssignmentFirst, RowFirst
            <3> QED
                BY <3>2, <3>3
        <2> QED
            BY <2>1, <2>2
    <1>4. QuietAfterWait'
        BY DEF IInv, QuietAfterWait, Sessions, Others, server
    <1> QED
        BY <1>2, <1>3, <1>4 DEF IInv

\* A step of one channel is about its device: other devices keep the rows, and the
\* reports in flight, that they had.
LEMMA AgreeStep ==
    ASSUME IInv, NEW c \in Channels, Others(c),
           unwritten \subseteq unwritten', untaken \subseteq untaken',
           \A e \in Devices : e # ch[c].device =>
               (e \in updated' <=> e \in updated) /\ (e \in installed' <=> e \in installed),
           NEW d, d = ch[c].device, d \in Devices => Agree(d)'
    PROVE  ReportsAgree'
    <1> SUFFICES ASSUME NEW e \in Devices PROVE Agree(e)'
        BY DEF ReportsAgree, Agree
    <1>1. CASE e = d
        BY <1>1
    <1>2. CASE e # d
        <2>1. ASSUME NEW p \in Channels, ch[p].device = e
              PROVE  /\ ch'[p].device = e
                     /\ AssignmentFirst(p)' <=> AssignmentFirst(p)
                     /\ RowFirst(p)' <=> RowFirst(p)
            <3>1. ch'[p] = ch[p]
                BY <1>2, <2>1 DEF Others
            <3> QED
                BY <2>1, <3>1 DEF AssignmentFirst, RowFirst
        <2>2. Agree(e)
            BY DEF IInv, ReportsAgree, Agree
        <2>3. e \in installed' \ unwritten' =>
                e \in updated' \/ (\E p \in Channels : ch'[p].device = e /\ AssignmentFirst(p)')
            BY <1>2, <2>1, <2>2 DEF Agree
        <2>4. e \in updated' \ untaken' =>
                e \in installed' \/ (\E p \in Channels : ch'[p].device = e /\ RowFirst(p)')
            BY <1>2, <2>1, <2>2 DEF Agree
        <2> QED
            BY <2>3, <2>4 DEF Agree
    <1> QED
        BY <1>1, <1>2

\* After a step that changes neither side: a report that ends between its effects is
\* counted.
LEMMA NoEffect ==
    ASSUME IInv, NEW c \in Channels, Others(c), UNCHANGED <<updated, installed>>,
           unwritten \subseteq unwritten', untaken \subseteq untaken',
           AssignmentFirst(c) => \/ ch[c].device \in unwritten'
                                 \/ AssignmentFirst(c)' /\ ch'[c].device = ch[c].device,
           RowFirst(c) => \/ ch[c].device \in untaken'
                          \/ RowFirst(c)' /\ ch'[c].device = ch[c].device
    PROVE  ReportsAgree'
    <1> SUFFICES ASSUME NEW d, d = ch[c].device PROVE ReportsAgree'
        OBVIOUS
    <1>1. ASSUME d \in Devices PROVE Agree(d)'
        <2>1. Agree(d)
            BY <1>1 DEF IInv, ReportsAgree, Agree
        <2>2. ASSUME NEW p \in Channels, p # c, ch[p].device = d
              PROVE  /\ ch'[p].device = d
                     /\ AssignmentFirst(p)' <=> AssignmentFirst(p)
                     /\ RowFirst(p)' <=> RowFirst(p)
            <3>1. ch'[p] = ch[p]
                BY <2>2 DEF Others
            <3> QED
                BY <2>2, <3>1 DEF AssignmentFirst, RowFirst
        <2>3. d \in installed' \ unwritten' =>
                d \in updated' \/ (\E p \in Channels : ch'[p].device = d /\ AssignmentFirst(p)')
            BY <2>1, <2>2 DEF Agree
        <2>4. d \in updated' \ untaken' =>
                d \in installed' \/ (\E p \in Channels : ch'[p].device = d /\ RowFirst(p)')
            BY <2>1, <2>2 DEF Agree
        <2> QED
            BY <2>3, <2>4 DEF Agree
    <1> QED
        BY <1>1, AgreeStep

--------------------------------------------------------------------------------
(* Authentication                                                          *)

LEMMA PresentKeeps ==
    ASSUME IInv, NEW c \in Channels, NEW k \in Kinds, NEW d \in Devices,
           NEW m \in Messages \cup {"none"}, PresentToken(c, k, d, m),
           UNCHANGED <<gates, reports, server>>, ch[c].step \in {"idle", "auth"},
           k = "http" => m \in {"poll", "report"}, k = "tcp" => ch[c].kind = "tcp"
    PROVE  IInv'
    <1> DEFINE n == [kind |-> k, step |-> "device", device |-> d, message |-> m]
    <1>1. n \in ChannelRecords
        BY DEF ChannelRecords, Steps
    <1>2. /\ ch' = [ch EXCEPT ![c] = n]
          /\ passed' = IF LetIn(d) THEN passed \cup {c} ELSE passed \ {c}
          /\ unblocked' = IF d \in blocked THEN unblocked \ {c} ELSE unblocked \cup {c}
        BY DEF PresentToken
    <1>3. ch' \in [Channels -> ChannelRecords] /\ Others(c) /\ ch'[c] = n
        BY <1>1, <1>2, SetStep DEF IInv
    <1>4. ch'[c].kind = k /\ ch'[c].step = "device" /\ ch'[c].device = d /\ ch'[c].message = m
        BY <1>3
    <1>5. ChannelOK(c)'
        BY <1>4, ChannelNone DEF ChannelOK, Kinds
    <1>6. GatesOK(c)'
        BY <1>2, <1>4 DEF GatesOK, Served, LetIn, gates, Checked
    <1>7. ~Between(c)' /\ ~Between(c)
        BY <1>4 DEF Between, AssignmentFirst, RowFirst
    <1>8. ReportOK(c)' /\ ReportsAgree'
        BY <1>3, <1>4, <1>7, NoEffect DEF ReportOK, reports, Between
    <1> QED
        BY <1>2, <1>3, <1>4, <1>5, <1>6, <1>8, ChannelStep DEF IInv, TypeOK, reports

LEMMA AcceptKeeps ==
    ASSUME IInv, NEW c \in Channels, Accept(c)
    PROVE  IInv'
    <1> DEFINE n == [kind |-> "tcp", step |-> "auth", device |-> None, message |-> "none"]
    <1>1. n \in ChannelRecords
        BY DEF ChannelRecords, Steps, Kinds
    <1>2. /\ ch' = [ch EXCEPT ![c] = n] /\ ch[c].step = "idle" /\ listening
          /\ UNCHANGED <<gates, reports, server, passed, unblocked>>
        BY DEF Accept
    <1>3. ch' \in [Channels -> ChannelRecords] /\ Others(c) /\ ch'[c] = n
        BY <1>1, <1>2, SetStep DEF IInv
    <1>4. ch'[c].kind = "tcp" /\ ch'[c].step = "auth" /\ ch'[c].device = None
        BY <1>3
    <1>5. ChannelOK(c)' /\ GatesOK(c)'
        BY <1>4 DEF ChannelOK, GatesOK, Served, Checked
    <1>6. ~Between(c)' /\ ~Between(c)
        BY <1>2, <1>4 DEF Between, AssignmentFirst, RowFirst
    <1>7. ReportOK(c)' /\ ReportsAgree'
        BY <1>2, <1>3, <1>4, <1>6, NoEffect DEF ReportOK, reports, Between
    <1> QED
        BY <1>2, <1>3, <1>5, <1>7, ChannelStep DEF IInv, TypeOK, reports

\* A channel that becomes idle; a report cut off between its effects is counted.
LEMMA IdleKeeps ==
    ASSUME IInv, NEW c \in Channels, ch' = [ch EXCEPT ![c] = Idle],
           UNCHANGED <<gates, updated, installed, server, passed, unblocked>>,
           unwritten \subseteq unwritten', unwritten' \subseteq Devices,
           untaken \subseteq untaken', untaken' \subseteq Devices,
           AssignmentFirst(c) => ch[c].device \in unwritten',
           RowFirst(c) => ch[c].device \in untaken'
    PROVE  IInv'
    <1>1. /\ ch' \in [Channels -> ChannelRecords] /\ Others(c)
          /\ ch'[c].kind = "none" /\ ch'[c].step = "idle" /\ ch'[c].device = None
          /\ ch'[c].message = "none"
        BY IdleStep DEF IInv
    <1>2. ChannelOK(c)' /\ GatesOK(c)' /\ ReportOK(c)'
        BY <1>1 DEF ChannelOK, GatesOK, Served, Checked, ReportOK, AssignmentFirst, RowFirst
    <1>3. ReportsAgree'
        BY <1>1, NoEffect
    <1> QED
        BY <1>1, <1>2, <1>3, ChannelStep DEF IInv, TypeOK

\* A channel that goes on to a step of the same request, without an effect.
LEMMA GotoKeeps ==
    ASSUME IInv, NEW c \in Channels, NEW st \in Steps, Goto(c, st),
           UNCHANGED <<gates, reports, server, passed, unblocked>>,
           ch[c].step \notin {"idle", "auth"}, st \notin {"idle", "auth"},
           st \in {"loop", "read"} => ch[c].kind = "tcp",
           st \in {"touch", "seen", "log", "offer", "apply", "record"} => ch[c].message # "none",
           st = "record" => ch[c].kind = "tcp",
           st = "offer" => ch[c].message = "poll",
           st \in {"apply", "record"} => ch[c].message # "poll",
           st \in Served => c \in passed, st \in {"seen", "log", "offer", "apply"} => c \in unblocked,
           AssignmentFirst(c)' <=> AssignmentFirst(c), RowFirst(c)' <=> RowFirst(c), ReportOK(c)'
    PROVE  IInv'
    <1>1. /\ ch' \in [Channels -> ChannelRecords] /\ Others(c)
          /\ ch'[c].kind = ch[c].kind /\ ch'[c].step = st /\ ch'[c].device = ch[c].device
          /\ ch'[c].message = ch[c].message
        BY GotoStep DEF IInv
    <1>2. ChannelOK(c) /\ GatesOK(c) /\ ReportOK(c)
        BY DEF IInv, TypeOK
    <1>3. ChannelOK(c)'
        BY <1>1, <1>2 DEF ChannelOK
    <1>4. GatesOK(c)'
        BY <1>1, <1>2 DEF GatesOK, LetIn, gates, Checked
    <1>5. ReportsAgree'
        BY <1>1, NoEffect DEF reports
    <1> QED
        BY <1>1, <1>3, <1>4, <1>5, ChannelStep DEF IInv, TypeOK, reports

\* The end of a request or frame.
LEMMA AnswerKeeps ==
    ASSUME IInv, NEW c \in Channels, Answer(c), ch[c].step \in Served,
           UNCHANGED <<gates, server, passed, unblocked>>, ReportsAgree',
           updated \subseteq updated', updated' \subseteq Devices,
           installed \subseteq installed', installed' \subseteq Devices,
           unwritten' \subseteq Devices, untaken \subseteq untaken', untaken' \subseteq Devices
    PROVE  IInv'
    <1>1. /\ ch' \in [Channels -> ChannelRecords] /\ Others(c)
          /\ \/ /\ ch[c].kind = "tcp" /\ ch'[c].kind = "tcp" /\ ch'[c].step = "loop"
                /\ ch'[c].device = ch[c].device /\ ch'[c].message = "none"
             \/ /\ ch[c].kind # "tcp" /\ ch'[c].kind = "none" /\ ch'[c].step = "idle"
                /\ ch'[c].device = None /\ ch'[c].message = "none"
        BY AnswerStep DEF IInv
    <1>2. ChannelOK(c) /\ GatesOK(c)
        BY DEF IInv, TypeOK
    <1>3. ChannelOK(c)'
        BY <1>1, <1>2 DEF ChannelOK, Served
    <1>4. GatesOK(c)'
        BY <1>1, <1>2 DEF GatesOK, LetIn, gates, Served, Checked
    <1>5. ReportOK(c)'
        BY <1>1 DEF ReportOK, AssignmentFirst, RowFirst
    <1> QED
        BY <1>1, <1>3, <1>4, <1>5, ChannelStep DEF IInv, TypeOK

--------------------------------------------------------------------------------
(* The steps of a channel                                                  *)

LEMMA ArriveKeeps ==
    ASSUME IInv, NEW c \in Channels, Arrive(c)
    PROVE  IInv'
    <1>1. CASE Accept(c)
        BY <1>1, AcceptKeeps
    <1>2. ASSUME NEW d \in Devices, authenticateDevice(c, d) PROVE IInv'
        <2>1. /\ ch[c].step = "auth" /\ PresentToken(c, "tcp", d, "none")
              /\ UNCHANGED <<gates, reports, server>>
            BY <1>2 DEF authenticateDevice
        <2>2. ch[c].kind = "tcp"
            BY <2>1 DEF IInv, TypeOK, ChannelOK
        <2>3. PICK k \in Kinds, m \in Messages \cup {"none"} :
                k = "tcp" /\ m = "none" /\ PresentToken(c, k, d, m)
            BY <2>1 DEF Kinds
        <2> QED
            BY <2>1, <2>2, <2>3, PresentKeeps
    <1>3. ASSUME NEW d \in Devices, NEW m \in Messages, RequireDeviceAuth(c, d, m) PROVE IInv'
        <2>1. /\ ch[c].step = "idle" /\ PresentToken(c, "http", d, m)
              /\ UNCHANGED <<gates, reports, server>>
            BY <1>3 DEF RequireDeviceAuth
        <2>2. PICK k \in Kinds : k = "http" /\ PresentToken(c, k, d, m)
            BY <2>1 DEF Kinds
        <2>3. m \in Messages \cup {"none"} /\ m \in {"poll", "report"}
            BY <1>3 DEF Messages, RequireDeviceAuth
        <2> QED
            BY <2>1, <2>2, <2>3, PresentKeeps
    <1>4. ASSUME NEW m \in Messages, readFrame(c, m) PROVE IInv'
        <2>0. PICK d, st : d = ch[c].device /\ st = IF m = "poll" THEN "touch" ELSE "apply"
            OBVIOUS
        <2> DEFINE n == [kind |-> "tcp", step |-> st, device |-> d, message |-> m]
        <2>1. /\ ch' = [ch EXCEPT ![c] = n] /\ ch[c].step = "read"
              /\ unblocked' = IF d \in blocked THEN unblocked \ {c} ELSE unblocked \cup {c}
              /\ UNCHANGED <<gates, reports, server, passed>>
            BY <1>4, <2>0 DEF readFrame
        <2>2. /\ ch[c].kind = "tcp" /\ d # None /\ d \in Devices \cup {None} /\ c \in passed
            BY <2>0, <2>1 DEF IInv, TypeOK, ChannelOK, ChannelRecords, GatesOK, Served
        <2>3. n \in ChannelRecords
            BY <2>0, <2>2 DEF ChannelRecords, Steps, Kinds, Messages
        <2>4. ch' \in [Channels -> ChannelRecords] /\ Others(c) /\ ch'[c] = n
            BY <2>1, <2>3, SetStep DEF IInv
        <2>5. ch'[c].kind = "tcp" /\ ch'[c].step = st /\ ch'[c].device = d /\ ch'[c].message = m
            BY <2>4
        <2>6. ChannelOK(c)'
            BY <2>0, <2>2, <2>5 DEF ChannelOK, Messages
        <2>7. GatesOK(c)'
            BY <2>0, <2>1, <2>2, <2>5 DEF GatesOK, LetIn, gates, Checked
        <2>8. ~Between(c)' /\ ~Between(c)
            BY <2>0, <2>1, <2>5 DEF Between, AssignmentFirst, RowFirst
        <2>9. ReportOK(c)'
            <3>1. CASE m = "poll"
                BY <2>5, <2>8, <3>1 DEF ReportOK, Between
            <3>2. CASE m # "poll"
                BY <2>0, <2>5, <2>8, <3>2 DEF ReportOK, Between
            <3> QED
                BY <3>1, <3>2
        <2>10. ReportsAgree'
            BY <2>1, <2>4, <2>8, NoEffect DEF reports, Between
        <2> QED
            BY <2>1, <2>2, <2>4, <2>6, <2>7, <2>9, <2>10, ChannelStep DEF IInv, TypeOK, reports
    <1>5. CASE BadFrame(c)
        <2>1. ch[c].step = "read" /\ UNCHANGED <<gates, reports, server, passed, unblocked>>
            BY <1>5 DEF BadFrame
        <2>2. ch[c].kind = "tcp" /\ c \in passed
            BY <2>1 DEF IInv, TypeOK, ChannelOK, GatesOK, Served
        <2>3. PICK st \in Steps : st = "loop" /\ Goto(c, st)
            BY <1>5 DEF Steps, BadFrame
        <2>4. ch'[c].step = st
            BY <2>3, GotoStep DEF IInv
        <2>5. ~Between(c)' /\ ~Between(c) /\ ReportOK(c)'
            BY <2>1, <2>3, <2>4 DEF Between, AssignmentFirst, RowFirst, ReportOK
        <2> QED
            BY <2>1, <2>2, <2>3, <2>5, GotoKeeps DEF Between
    <1> QED
        BY <1>1, <1>2, <1>3, <1>4, <1>5 DEF Arrive

LEMMA DeadlineKeeps ==
    ASSUME IInv, NEW c \in Channels, ReadDeadline(c)
    PROVE  IInv'
    <1>1. /\ ch' = [ch EXCEPT ![c] = Idle] /\ ~Between(c)
          /\ UNCHANGED <<gates, reports, server, passed, unblocked>>
        BY DEF ReadDeadline, Between, AssignmentFirst, RowFirst
    <1> QED
        BY <1>1, IdleKeeps DEF reports, IInv, TypeOK, Between

LEMMA LookupKeeps ==
    ASSUME IInv, NEW c \in Channels, GetDeviceByActiveTokenHash(c)
    PROVE  IInv'
    <1>1. /\ ch[c].step = "device" /\ UNCHANGED <<gates, reports, server, passed, unblocked>>
        BY DEF GetDeviceByActiveTokenHash
    <1>2. ch[c].device # None /\ ch[c].kind \in {"http", "tcp"} /\ GatesOK(c)
        BY <1>1 DEF IInv, TypeOK, ChannelOK, ChannelRecords, Kinds
    <1>3. CASE ~LetIn(ch[c].device)
        <2>1. ch' = [ch EXCEPT ![c] = Idle] /\ ~Between(c)
            BY <1>1, <1>3 DEF GetDeviceByActiveTokenHash, Between, AssignmentFirst, RowFirst
        <2> QED
            BY <1>1, <2>1, IdleKeeps DEF reports, IInv, TypeOK, Between
    <1>4. CASE LetIn(ch[c].device)
        <2>1. c \in passed
            BY <1>2, <1>4 DEF GatesOK
        <2>2. PICK st : st = (IF ch[c].kind = "http" THEN "touch" ELSE "loop") /\ Goto(c, st)
            BY <1>4 DEF GetDeviceByActiveTokenHash
        <2>3. st \in Steps
            BY <2>2 DEF Steps
        <2>4. ch[c].kind = "http" => ch[c].message # "none"
            BY DEF IInv, TypeOK, ChannelOK
        <2>5. ch'[c].step = st /\ ch'[c].kind = ch[c].kind /\ ch'[c].message = ch[c].message
            BY <2>2, <2>3, GotoStep DEF IInv
        <2>6. ~Between(c)' /\ ~Between(c)
            BY <1>1, <2>2, <2>5 DEF Between, AssignmentFirst, RowFirst
        <2>7. ReportOK(c)'
            BY <1>2, <2>2, <2>5, <2>6 DEF ReportOK, Between
        <2> QED
            BY <1>1, <1>2, <2>1, <2>2, <2>3, <2>4, <2>6, <2>7, GotoKeeps DEF Between
    <1> QED
        BY <1>3, <1>4

LEMMA LoopKeeps ==
    ASSUME IInv, NEW c \in Channels, ServeConn(c)
    PROVE  IInv'
    <1>1. /\ ch[c].step = "loop" /\ UNCHANGED <<gates, reports, server, passed, unblocked>>
        BY DEF ServeConn
    <1>2. ~Between(c) /\ ch[c].kind = "tcp" /\ c \in passed
        BY <1>1 DEF Between, AssignmentFirst, RowFirst, IInv, TypeOK, ChannelOK, GatesOK, Served
    <1>3. CASE ch' = [ch EXCEPT ![c] = Idle]
        BY <1>1, <1>2, <1>3, IdleKeeps DEF reports, IInv, TypeOK, Between
    <1>4. CASE Goto(c, "read")
        <2>1. PICK st \in Steps : st = "read" /\ Goto(c, st)
            BY <1>4 DEF Steps
        <2>2. ch'[c].step = st
            BY <2>1, GotoStep DEF IInv
        <2>3. ~Between(c)' /\ ReportOK(c)'
            BY <2>1, <2>2 DEF Between, AssignmentFirst, RowFirst, ReportOK
        <2> QED
            BY <1>1, <1>2, <2>1, <2>3, GotoKeeps DEF Between
    <1> QED
        BY <1>3, <1>4 DEF ServeConn

LEMMA RecordKeeps ==
    ASSUME IInv, NEW c \in Channels, recordDeviceConnection(c)
    PROVE  IInv'
    <1>1. /\ ch[c].step = "touch"
          /\ UNCHANGED <<gates, reports, server, passed, unblocked>>
        BY DEF recordDeviceConnection
    <1>2. /\ c \in passed /\ ch[c].device # None /\ ch[c].device \in Devices
          /\ ch[c].message # "none" /\ ch[c].step \in Served /\ ReportOK(c)
        BY <1>1 DEF IInv, TypeOK, ChannelOK, ChannelRecords, GatesOK, Served
    <1>3. ~Between(c)
        BY <1>1 DEF Between, AssignmentFirst, RowFirst
    <1>4. CASE ch[c].device \in blocked
        <2>1. Answer(c)
            BY <1>4 DEF recordDeviceConnection
        <2>2. Others(c)
            BY <2>1, AnswerStep DEF IInv
        <2>3. ReportsAgree'
            BY <1>1, <1>3, <2>2, NoEffect DEF reports, Between
        <2> QED
            BY <1>1, <1>2, <2>1, <2>3, AnswerKeeps DEF IInv, TypeOK, reports
    <1>5. CASE ch[c].device \notin blocked
        <2>1. c \in unblocked
            BY <1>2, <1>5 DEF IInv, GatesOK
        <2>2. PICK st \in Steps : st = "seen" /\ Goto(c, st)
            BY <1>5 DEF Steps, recordDeviceConnection
        <2>3. /\ ch'[c].step = st /\ ch'[c].kind = ch[c].kind /\ ch'[c].message = ch[c].message
              /\ ch'[c].device = ch[c].device
            BY <2>2, GotoStep DEF IInv
        <2>4. ~Between(c)'
            BY <2>2, <2>3 DEF Between, AssignmentFirst, RowFirst
        <2>5. ReportOK(c)'
            BY <1>1, <1>2, <2>2, <2>3, <2>4 DEF ReportOK, Between, reports
        <2> QED
            BY <1>1, <1>2, <1>3, <2>1, <2>2, <2>4, <2>5, GotoKeeps DEF Between
    <1> QED
        BY <1>4, <1>5

\* A step to st of the same request that has an effect on its device.
LEMMA EffectKeeps ==
    ASSUME IInv, NEW c \in Channels, NEW st \in Steps, Goto(c, st),
           UNCHANGED <<gates, unwritten, server, passed, unblocked>>,
           ch[c].step \in Served, st \in {"log", "record", "touch"},
           ch[c].message # "none", st # "log" => ch[c].kind = "tcp" /\ ch[c].message # "poll",
           st = "log" => c \in unblocked,
           updated \subseteq updated', updated' \subseteq updated \cup {ch[c].device},
           installed \subseteq installed', installed' \subseteq installed \cup {ch[c].device},
           untaken \subseteq untaken', untaken' \subseteq untaken \cup {ch[c].device},
           ReportOK(c)', NEW d, d = ch[c].device, Agree(d)'
    PROVE  IInv'
    <1>1. /\ ch' \in [Channels -> ChannelRecords] /\ Others(c)
          /\ ch'[c].kind = ch[c].kind /\ ch'[c].step = st /\ ch'[c].device = ch[c].device
          /\ ch'[c].message = ch[c].message
        BY GotoStep DEF IInv
    <1>2. /\ ChannelOK(c) /\ GatesOK(c) /\ c \in passed /\ ch[c].device \in Devices
          /\ ch[c].device # None
        BY DEF IInv, TypeOK, ChannelOK, ChannelRecords, GatesOK, Served
    <1>3. ChannelOK(c)'
        BY <1>1, <1>2 DEF ChannelOK
    <1>4. GatesOK(c)'
        BY <1>1, <1>2 DEF GatesOK, LetIn, gates, Checked
    <1>5. ReportsAgree'
        BY <1>1, AgreeStep
    <1>6. updated' \subseteq Devices /\ installed' \subseteq Devices /\ untaken' \subseteq Devices
        BY <1>2 DEF IInv, TypeOK
    <1> QED
        BY <1>1, <1>2, <1>3, <1>4, <1>5, <1>6, ChannelStep DEF IInv, TypeOK

LEMMA SeenKeeps ==
    ASSUME IInv, NEW c \in Channels, UpdateDeviceSeenAndFirmware(c)
    PROVE  IInv'
    <1> SUFFICES ASSUME NEW d, d = ch[c].device PROVE IInv'
        OBVIOUS
    <1>1. /\ ch[c].step = "seen"
          /\ UNCHANGED <<gates, installed, unwritten, untaken, server, passed, unblocked>>
          /\ updated' = IF ch[c].message = "report" THEN updated \cup {d} ELSE updated
        BY DEF UpdateDeviceSeenAndFirmware
    <1>2. /\ c \in unblocked /\ d \in Devices /\ ch[c].message \in Messages /\ ch[c].step \in Served
          /\ ch[c].kind \in Kinds /\ ReportOK(c)
        BY <1>1 DEF IInv, TypeOK, ChannelOK, ChannelRecords, GatesOK, Served, Checked
    <1>3. PICK st \in Steps : st = "log" /\ Goto(c, st)
        BY DEF Steps, UpdateDeviceSeenAndFirmware
    <1>4. /\ ch'[c].kind = ch[c].kind /\ ch'[c].step = "log" /\ ch'[c].device = d
          /\ ch'[c].message = ch[c].message /\ Others(c)
        BY <1>3, GotoStep DEF IInv
    <1>5. ReportOK(c)'
        BY <1>1, <1>2, <1>4 DEF ReportOK, AssignmentFirst, RowFirst
    <1>6. CASE ch[c].message # "report"
        <2>1. ~Between(c)' /\ ~Between(c) /\ UNCHANGED updated
            BY <1>1, <1>4, <1>6 DEF Between, AssignmentFirst, RowFirst
        <2>2. ReportsAgree'
            BY <1>1, <1>4, <2>1, NoEffect DEF Between
        <2>3. Agree(d)'
            BY <1>2, <2>2 DEF ReportsAgree, Agree
        <2> QED
            BY <1>1, <1>2, <1>3, <1>5, <2>1, <2>3, EffectKeeps DEF Messages
    <1>7. CASE ch[c].message = "report"
        <2>1. d \in updated'
            BY <1>1, <1>7
        <2>2. d \in installed' \cup untaken' \/ RowFirst(c)'
            BY <1>1, <1>2, <1>4, <1>7 DEF ReportOK, RowFirst, Kinds
        <2>3. Agree(d)'
            BY <1>4, <2>1, <2>2 DEF Agree
        <2> QED
            BY <1>1, <1>2, <1>3, <1>5, <1>7, <2>3, EffectKeeps DEF Messages
    <1> QED
        BY <1>6, <1>7

LEMMA LogKeeps ==
    ASSUME IInv, NEW c \in Channels, CreateDeviceConnectionLog(c)
    PROVE  IInv'
    <1>1. ch[c].step = "log" /\ UNCHANGED <<gates, reports, server, passed, unblocked>>
        BY DEF CreateDeviceConnectionLog
    <1>2. /\ c \in passed /\ c \in unblocked /\ ch[c].device \in Devices /\ ch[c].message # "none"
          /\ ch[c].step \in Served /\ ReportOK(c) /\ ChannelOK(c)
        BY <1>1 DEF IInv, TypeOK, ChannelOK, ChannelRecords, GatesOK, Served, Checked
    <1>3. CASE ch[c].message # "poll" /\ ch[c].kind = "tcp" /\ Answer(c)
        <2>1. Others(c) /\ ~Between(c)
            BY <1>1, <1>3, AnswerStep DEF IInv, Between, AssignmentFirst, RowFirst
        <2>2. ReportsAgree'
            BY <1>1, <2>1, NoEffect DEF reports, Between
        <2> QED
            BY <1>1, <1>2, <1>3, <2>2, AnswerKeeps DEF IInv, TypeOK, reports
    <1>4. CASE ch[c].message = "poll" /\ Goto(c, "offer")
        <2>1. PICK st \in Steps : st = "offer" /\ Goto(c, st)
            BY <1>4 DEF Steps
        <2>2. ch'[c].step = st /\ ch'[c].message = ch[c].message
            BY <2>1, GotoStep DEF IInv
        <2>3. ~Between(c)' /\ ~Between(c) /\ ReportOK(c)'
            BY <1>1, <1>4, <2>1, <2>2 DEF Between, AssignmentFirst, RowFirst, ReportOK
        <2> QED
            BY <1>1, <1>2, <1>4, <2>1, <2>3, GotoKeeps DEF Between
    <1>5. CASE ch[c].message # "poll" /\ ch[c].kind = "http" /\ Goto(c, "apply")
        <2>1. PICK st \in Steps : st = "apply" /\ Goto(c, st)
            BY <1>5 DEF Steps
        <2>2. /\ ch'[c].step = st /\ ch'[c].message = ch[c].message /\ ch'[c].kind = ch[c].kind
              /\ ch'[c].device = ch[c].device
            BY <2>1, GotoStep DEF IInv
        <2>3. /\ AssignmentFirst(c)' <=> AssignmentFirst(c)
              /\ RowFirst(c)' <=> RowFirst(c)
            BY <1>1, <2>1, <2>2 DEF AssignmentFirst, RowFirst
        <2>4. ReportOK(c)'
            BY <1>1, <1>2, <1>5, <2>1, <2>2, <2>3 DEF ReportOK, reports
        <2> QED
            BY <1>1, <1>2, <1>5, <2>1, <2>3, <2>4, GotoKeeps
    <1> QED
        BY <1>3, <1>4, <1>5 DEF CreateDeviceConnectionLog

LEMMA TakeKeeps ==
    ASSUME IInv, NEW c \in Channels, TakeReport(c)
    PROVE  IInv'
    <1> SUFFICES ASSUME NEW d, d = ch[c].device PROVE IInv'
        OBVIOUS
    <1>1. /\ ch[c].step = "apply" /\ installed' = installed \cup {d}
          /\ UNCHANGED <<gates, updated, unwritten, untaken, server, passed, unblocked>>
        BY DEF TakeReport
    <1>2. /\ d \in Devices /\ ch[c].message \notin {"none", "poll"} /\ ch[c].step \in Served
          /\ ch[c].kind \in Kinds /\ ReportOK(c) /\ ChannelOK(c)
        BY <1>1 DEF IInv, TypeOK, ChannelOK, ChannelRecords, Served
    <1>3. CASE ch[c].kind = "tcp"
        <2>1. PICK st \in Steps : st = "record" /\ Goto(c, st)
            BY <1>3 DEF Steps, TakeReport
        <2>2. ch'[c].step = "record" /\ ch'[c].device = d /\ ch'[c].kind = "tcp"
            BY <1>3, <2>1, GotoStep DEF IInv
        <2>3. ReportOK(c)' /\ AssignmentFirst(c)' /\ d \in installed'
            BY <1>1, <2>2 DEF ReportOK, AssignmentFirst, RowFirst
        <2>4. Agree(d)'
            BY <2>2, <2>3 DEF Agree
        <2> QED
            BY <1>1, <1>2, <1>3, <2>1, <2>3, <2>4, EffectKeeps
    <1>4. CASE ch[c].kind = "http"
        <2>1. Answer(c)
            BY <1>4 DEF TakeReport
        <2>2. d \in updated'
            BY <1>1, <1>2, <1>4 DEF ReportOK, RowFirst, ChannelOK
        <2>3. Agree(d)'
            BY <1>1, <2>2 DEF Agree
        <2>4. Others(c)
            BY <2>1, AnswerStep DEF IInv
        <2>5. ReportsAgree'
            BY <1>1, <2>3, <2>4, AgreeStep
        <2> QED
            BY <1>1, <1>2, <2>1, <2>5, AnswerKeeps DEF IInv, TypeOK
    <1> QED
        BY <1>2, <1>3, <1>4 DEF Kinds

LEMMA PassKeeps ==
    ASSUME IInv, NEW c \in Channels, PassReport(c)
    PROVE  IInv'
    <1> SUFFICES ASSUME NEW d, d = ch[c].device PROVE IInv'
        OBVIOUS
    <1>1. /\ ch[c].step = "apply"
          /\ untaken' = IF ch[c].message = "report" THEN untaken \cup {d} ELSE untaken
          /\ UNCHANGED <<gates, updated, installed, unwritten, server, passed, unblocked>>
        BY DEF PassReport
    <1>2. /\ d \in Devices /\ ch[c].message \notin {"none", "poll"} /\ ch[c].step \in Served
          /\ ch[c].kind \in Kinds /\ ReportOK(c) /\ ChannelOK(c)
        BY <1>1 DEF IInv, TypeOK, ChannelOK, ChannelRecords, Served
    <1>3. /\ untaken \subseteq untaken' /\ untaken' \subseteq Devices
          /\ RowFirst(c) => d \in untaken'
          /\ ~AssignmentFirst(c)
        BY <1>1, <1>2 DEF IInv, TypeOK, RowFirst, AssignmentFirst
    <1>4. CASE ch[c].kind = "tcp"
        <2>1. PICK st \in Steps : st = "touch" /\ Goto(c, st)
            BY <1>4 DEF Steps, PassReport
        <2>2. /\ ch'[c].step = "touch" /\ ch'[c].device = d /\ ch'[c].message = ch[c].message
              /\ Others(c)
            BY <2>1, GotoStep DEF IInv
        <2>3. ReportOK(c)'
            BY <1>1, <2>2 DEF ReportOK, AssignmentFirst, RowFirst
        <2>4. ReportsAgree'
            BY <1>1, <1>3, <2>2, NoEffect
        <2>5. Agree(d)'
            BY <1>2, <2>4 DEF ReportsAgree, Agree
        <2> QED
            BY <1>1, <1>2, <1>4, <2>1, <2>3, <2>5, EffectKeeps
    <1>5. CASE ch[c].kind = "http"
        <2>1. Answer(c)
            BY <1>5 DEF PassReport
        <2>2. Others(c)
            BY <2>1, AnswerStep DEF IInv
        <2>3. ReportsAgree'
            BY <1>1, <1>3, <2>2, NoEffect
        <2> QED
            BY <1>1, <1>2, <1>3, <2>1, <2>3, AnswerKeeps DEF IInv, TypeOK
    <1> QED
        BY <1>2, <1>4, <1>5 DEF Kinds

LEMMA InstalledKeeps ==
    ASSUME IInv, NEW c \in Channels, RecordInstalled(c)
    PROVE  IInv'
    <1> SUFFICES ASSUME NEW d, d = ch[c].device PROVE IInv'
        OBVIOUS
    <1>1. /\ ch[c].step = "record" /\ updated' = updated \cup {d}
          /\ UNCHANGED <<gates, installed, unwritten, untaken, server, passed, unblocked>>
        BY DEF RecordInstalled
    <1>2. /\ d \in Devices /\ ch[c].message \notin {"none", "poll"} /\ ch[c].step \in Served
          /\ ch[c].kind = "tcp" /\ d \in installed
        BY <1>1 DEF IInv, TypeOK, ChannelOK, ChannelRecords, Served, Kinds, ReportOK, AssignmentFirst
    <1>3. PICK st \in Steps : st = "touch" /\ Goto(c, st)
        BY DEF Steps, RecordInstalled
    <1>4. ch'[c].step = "touch" /\ ch'[c].device = d
        BY <1>3, GotoStep DEF IInv
    <1>5. ReportOK(c)'
        BY <1>1, <1>2, <1>4 DEF ReportOK, AssignmentFirst, RowFirst
    <1>6. Agree(d)'
        BY <1>1, <1>2 DEF Agree
    <1> QED
        BY <1>1, <1>2, <1>3, <1>5, <1>6, EffectKeeps

LEMMA OfferKeeps ==
    ASSUME IInv, NEW c \in Channels, handlePoll(c)
    PROVE  IInv'
    <1>1. /\ ch[c].step = "offer" /\ Answer(c)
          /\ UNCHANGED <<gates, reports, server, passed, unblocked>>
        BY DEF handlePoll
    <1>2. ~Between(c) /\ ch[c].step \in Served
        BY <1>1 DEF Between, AssignmentFirst, RowFirst, Served
    <1>3. Others(c)
        BY <1>1, AnswerStep DEF IInv
    <1>4. ReportsAgree'
        BY <1>1, <1>2, <1>3, NoEffect DEF reports, Between
    <1> QED
        BY <1>1, <1>2, <1>4, AnswerKeeps DEF IInv, TypeOK, reports

LEMMA FailureKeeps ==
    ASSUME IInv, NEW c \in Channels, StatementFails(c)
    PROVE  IInv'
    <1>1. /\ ch[c].step \in {"device", "touch", "seen", "log", "offer", "apply", "record"} /\ CutOff(c)
          /\ UNCHANGED <<gates, updated, installed, server, passed, unblocked>>
        BY DEF StatementFails
    <1>2. ch[c].device \in Devices
        BY <1>1 DEF IInv, TypeOK, ChannelOK, ChannelRecords
    <1>3. /\ unwritten \subseteq unwritten' /\ unwritten' \subseteq Devices
          /\ untaken \subseteq untaken' /\ untaken' \subseteq Devices
          /\ AssignmentFirst(c) => ch[c].device \in unwritten'
          /\ RowFirst(c) => ch[c].device \in untaken'
        BY <1>1, <1>2 DEF CutOff, IInv, TypeOK
    <1>4. CASE ch[c].step = "device"
        BY <1>1, <1>3, <1>4, IdleKeeps DEF StatementFails
    <1>5. CASE ch[c].step # "device"
        <2>1. Answer(c) /\ ch[c].step \in Served
            BY <1>1, <1>5 DEF StatementFails, Served
        <2>2. Others(c)
            BY <2>1, AnswerStep DEF IInv
        <2>3. ReportsAgree'
            BY <1>1, <1>3, <2>2, NoEffect
        <2> QED
            BY <1>1, <1>3, <2>1, <2>3, AnswerKeeps DEF IInv, TypeOK
    <1> QED
        BY <1>4, <1>5

--------------------------------------------------------------------------------
(* Gates and shutdown                                                      *)

\* A gate that opens lets in the channels that serve the device at that moment.
LEMMA GateKeeps ==
    ASSUME IInv, Gate
    PROVE  IInv'
    <1>1. /\ UNCHANGED <<reports, ch, server>>
          /\ blocked' \subseteq Devices /\ disabled' \subseteq Devices /\ revoked' \subseteq Devices
          /\ passed \subseteq passed' /\ passed' \subseteq Channels
          /\ unblocked \subseteq unblocked' /\ unblocked' \subseteq Channels
        BY DEF Gate, SetDeviceBlocked, SetDevicesPolling, RevokeDevices, Serving, IInv, TypeOK
    <1>2. ASSUME NEW c \in Channels, ch[c].device # None, LetIn(ch[c].device)' PROVE c \in passed'
        <2>1. ch[c].device \in Devices
            BY <1>2 DEF IInv, TypeOK, ChannelRecords
        <2>2. LetIn(ch[c].device) => c \in passed
            BY <1>2 DEF IInv, GatesOK
        <2>3. ASSUME NEW d \in Devices, NEW b \in BOOLEAN, SetDeviceBlocked(d, b) PROVE c \in passed'
            BY <1>1, <1>2, <2>1, <2>2, <2>3 DEF SetDeviceBlocked, LetIn, Serving
        <2>4. ASSUME NEW disable \in BOOLEAN, SetDevicesPolling(disable) PROVE c \in passed'
            BY <1>1, <1>2, <2>1, <2>2, <2>4 DEF SetDevicesPolling, LetIn, Serving
        <2>5. CASE RevokeDevices
            BY <1>1, <1>2, <2>1, <2>5 DEF RevokeDevices, LetIn
        <2> QED
            BY <2>3, <2>4, <2>5 DEF Gate
    <1>3. ASSUME NEW c \in Channels, ch[c].device # None, ch[c].device \notin blocked' PROVE c \in unblocked'
        <2>1. ch[c].device \notin blocked => c \in unblocked
            BY <1>3 DEF IInv, GatesOK
        <2>2. ASSUME NEW d \in Devices, NEW b \in BOOLEAN, SetDeviceBlocked(d, b) PROVE c \in unblocked'
            BY <1>3, <2>1, <2>2 DEF SetDeviceBlocked, Serving
        <2>3. CASE blocked' = blocked
            BY <1>1, <1>3, <2>1, <2>3
        <2> QED
            BY <2>2, <2>3 DEF Gate, SetDevicesPolling, RevokeDevices
    <1>4. TypeOK'
        BY <1>1 DEF IInv, TypeOK, ChannelOK, reports, server
    <1>5. ReportsAgree' /\ QuietAfterWait'
        BY <1>1 DEF IInv, ReportsAgree, QuietAfterWait, AssignmentFirst, RowFirst, Sessions, reports, server
    <1>6. ASSUME NEW c \in Channels PROVE GatesOK(c)' /\ ReportOK(c)'
        <2>1. GatesOK(c) /\ ReportOK(c) /\ ch'[c] = ch[c]
            BY <1>1 DEF IInv
        <2>2. GatesOK(c)'
            BY <1>1, <1>2, <1>3, <2>1 DEF GatesOK, LetIn, Checked
        <2>3. ReportOK(c)'
            BY <1>1, <2>1 DEF ReportOK, AssignmentFirst, RowFirst, reports
        <2> QED
            BY <2>2, <2>3
    <1> QED
        BY <1>4, <1>5, <1>6 DEF IInv

LEMMA StopKeeps ==
    ASSUME IInv, CancelOTA \/ CloseListener \/ AcceptFails \/ WaitOTA
    PROVE  IInv'
    <1>1. /\ UNCHANGED <<gates, reports, ch, passed, unblocked>>
          /\ phase' \in {"running", "stopping", "closing", "stopped"} /\ listening' \in BOOLEAN
        BY DEF CancelOTA, CloseListener, AcceptFails, WaitOTA, IInv, TypeOK
    <1>2. TypeOK'
        BY <1>1 DEF IInv, TypeOK, ChannelOK, gates, reports
    <1>3. ReportsAgree'
        BY <1>1 DEF IInv, ReportsAgree, AssignmentFirst, RowFirst, reports
    <1>4. QuietAfterWait'
        BY <1>1 DEF IInv, QuietAfterWait, Sessions, CancelOTA, CloseListener, AcceptFails, WaitOTA
    <1>5. \A c \in Channels : GatesOK(c)' /\ ReportOK(c)'
        BY <1>1 DEF IInv, GatesOK, LetIn, Checked, ReportOK, AssignmentFirst, RowFirst, gates, reports
    <1> QED
        BY <1>2, <1>3, <1>4, <1>5 DEF IInv

LEMMA ShutdownKeeps ==
    ASSUME IInv, Shutdown
    PROVE  IInv'
    <1>1. /\ ch' = [c \in Channels |-> Idle] /\ phase' = "stopped" /\ phase = "closing"
          /\ untaken' = untaken \cup {ch[c].device : c \in {x \in Channels : RowFirst(x)}}
          /\ UNCHANGED <<gates, updated, installed, unwritten, listening, passed, unblocked>>
        BY DEF Shutdown
    <1>2. /\ \A c \in Channels : ch'[c].kind = "none" /\ ch'[c].step = "idle" /\ ch'[c].device = None
          /\ \A c \in Channels : ch'[c].message = "none"
        BY <1>1 DEF Idle
    <1>3. ch' \in [Channels -> ChannelRecords]
        BY <1>1 DEF Idle, ChannelRecords, Steps
    <1>4. \A c \in Channels : RowFirst(c) => ch[c].device \in Devices
        BY DEF IInv, TypeOK, ChannelOK, ChannelRecords, RowFirst
    <1>5. untaken' \subseteq Devices
        BY <1>1, <1>4 DEF IInv, TypeOK
    <1>6. \A c \in Channels : ChannelOK(c)' /\ GatesOK(c)' /\ ReportOK(c)'
        BY <1>2 DEF ChannelOK, GatesOK, Served, Checked, ReportOK, AssignmentFirst, RowFirst
    <1>7. TypeOK'
        BY <1>1, <1>3, <1>5, <1>6 DEF IInv, TypeOK, gates
    <1>8. ReportsAgree'
        <2> SUFFICES ASSUME NEW d \in Devices PROVE Agree(d)'
            BY DEF ReportsAgree, Agree
        <2>1. Agree(d)
            BY DEF IInv, ReportsAgree, Agree
        <2>2. ASSUME NEW c \in Channels PROVE ~AssignmentFirst(c)
            BY <1>1 DEF AssignmentFirst, IInv, TypeOK, ChannelOK, ChannelRecords, Kinds,
                        QuietAfterWait, Sessions
        <2>3. ASSUME NEW c \in Channels, ch[c].device = d, RowFirst(c) PROVE d \in untaken'
            BY <1>1, <2>3
        <2> QED
            BY <1>1, <2>1, <2>2, <2>3 DEF Agree
    <1>9. QuietAfterWait'
        BY <1>1, <1>2 DEF IInv, QuietAfterWait, Sessions
    <1> QED
        BY <1>6, <1>7, <1>8, <1>9 DEF IInv

--------------------------------------------------------------------------------
(* The theorems                                                            *)

LEMMA InitIInv == Init => IInv
    <1> SUFFICES ASSUME Init PROVE IInv
        OBVIOUS
    <1>1. /\ \A c \in Channels : ch[c].kind = "none" /\ ch[c].step = "idle" /\ ch[c].device = None
          /\ \A c \in Channels : ch[c].message = "none"
        BY DEF Init, Idle
    <1>2. ch \in [Channels -> ChannelRecords]
        BY DEF Init, Idle, ChannelRecords, Steps
    <1>3. \A c \in Channels : ChannelOK(c) /\ GatesOK(c) /\ ReportOK(c)
        BY <1>1 DEF ChannelOK, GatesOK, Served, Checked, ReportOK, AssignmentFirst, RowFirst
    <1>4. TypeOK
        BY <1>2, <1>3 DEF Init, TypeOK
    <1>5. ReportsAgree /\ QuietAfterWait
        BY DEF Init, ReportsAgree, QuietAfterWait
    <1> QED
        BY <1>3, <1>4, <1>5 DEF IInv

LEMMA NextIInv == IInv /\ [Next]_vars => IInv'
    <1> SUFFICES ASSUME IInv, [Next]_vars PROVE IInv'
        OBVIOUS
    <1>1. CASE UNCHANGED vars
        <2>1. UNCHANGED <<blocked, disabled, revoked, updated, installed, unwritten, untaken, ch, phase, listening,
                          passed, unblocked>>
            BY <1>1 DEF vars, gates, reports, server
        <2> QED
            BY <2>1 DEF IInv, TypeOK, ChannelOK, ReportsAgree, QuietAfterWait, Sessions, GatesOK, LetIn,
                        ReportOK, AssignmentFirst, RowFirst, Checked
    <1>2. ASSUME NEW c \in Channels, Arrive(c) \/ ReadDeadline(c) PROVE IInv'
        BY <1>2, ArriveKeeps, DeadlineKeeps
    <1>3. ASSUME NEW c \in Channels, Serve(c) PROVE IInv'
        BY <1>3, LookupKeeps, LoopKeeps, RecordKeeps, SeenKeeps, LogKeeps, TakeKeeps, PassKeeps,
           InstalledKeeps, OfferKeeps, FailureKeeps DEF Serve
    <1>4. CASE Gate \/ CancelOTA \/ CloseListener \/ AcceptFails \/ WaitOTA \/ Shutdown
        BY <1>4, GateKeeps, StopKeeps, ShutdownKeeps
    <1> QED
        BY <1>1, <1>2, <1>3, <1>4 DEF Next

\* The invariant with what each channel may rely on is kept by every step.
THEOREM Inductive == Spec => []IInv
    BY InitIInv, NextIInv, PTL DEF Spec

\* Every channel holds what its step needs: a device once its token was found, a
\* message while a request is served.
THEOREM ChannelsTypeCorrect == Spec => []TypeOK
    <1>1. IInv => TypeOK
        BY DEF IInv
    <1> QED
        BY <1>1, Inductive, PTL

\* GetDeviceByActiveTokenHash: whoever is served passed every gate after presenting
\* the token, on both transports.
THEOREM ServiceWasLetIn == Spec => []ServedWasLetIn
    <1>1. IInv => ServedWasLetIn
        BY DEF IInv, ServedWasLetIn, GatesOK, Served
    <1> QED
        BY <1>1, Inductive, PTL

\* recordDeviceConnection: no poll of a device that was blocked all through it is
\* recorded or answered with an offer, and no HTTP report of it is recorded or applied.  A
\* TCP report of it is not logged, but has been applied by then.
THEOREM BlockIsSeen == Spec => []BlockReachesSessions
    <1>1. IInv => BlockReachesSessions
        BY DEF IInv, BlockReachesSessions, GatesOK, Checked
    <1> QED
        BY <1>1, Inductive, PTL

\* The campaign and the device's row agree on what a device installed, for any number of
\* channels, but for reports between the two writes or cut off there and for reports that
\* the campaign did not take.
THEOREM BothSidesOfReports == Spec => []ReportsAgree
    <1>1. IInv => ReportsAgree
        BY DEF IInv
    <1> QED
        BY <1>1, Inductive, PTL

\* StopOTA: no TCP session outlives its return.
THEOREM StopWaits == Spec => []QuietAfterWait
    <1>1. IInv => QuietAfterWait
        BY DEF IInv
    <1> QED
        BY <1>1, Inductive, PTL

================================================================================
