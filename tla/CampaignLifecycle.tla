--------------------------- MODULE CampaignLifecycle ---------------------------
(***************************************************************************)
(* What the campaign service promises, without handlers, statements or     *)
(* offers: a campaign has a status and splits its target devices into      *)
(* those that are still open, those that failed and those that installed.  *)
(* CampaignRollout implements it.                                          *)
(***************************************************************************)
CONSTANTS Campaigns, Devices

VARIABLES
    status,         \* status of each campaign, "none" before its creation
    open,           \* target devices whose outcome is not known
    failed,         \* target devices whose update failed
    installed       \* target devices that run the campaign's firmware

vars == <<status, open, failed, installed>>
outcome == <<open, failed, installed>>

Init ==
    /\ status = [c \in Campaigns |-> "none"]
    /\ open = [c \in Campaigns |-> {}]
    /\ failed = [c \in Campaigns |-> {}]
    /\ installed = [c \in Campaigns |-> {}]

Create(c) ==
    /\ status[c] = "none"
    /\ \E s \in {"scheduled", "active"}, T \in (SUBSET Devices) \ {{}} :
         /\ status' = [status EXCEPT ![c] = s]
         /\ open' = [open EXCEPT ![c] = T]
    /\ UNCHANGED <<failed, installed>>

\* One scheduler tick may start several campaigns.
Start ==
    \E S \in SUBSET {c \in Campaigns : status[c] = "scheduled"} :
        /\ status' = [c \in Campaigns |-> IF c \in S THEN "active" ELSE status[c]]
        /\ UNCHANGED outcome

Move(c, from, to) ==
    /\ status[c] \in from
    /\ status' = [status EXCEPT ![c] = to]
    /\ UNCHANGED outcome

Pause(c)  == Move(c, {"active"}, "paused")
Resume(c) == Move(c, {"paused"}, "active")
Cancel(c) == Move(c, {"scheduled", "active", "paused"}, "cancelled")

\* Only a campaign without open devices completes.
Complete(c) == open[c] = {} /\ Move(c, {"active"}, "completed")

\* The outcome of a device becomes known once the campaign has started; a report
\* under way when the campaign is paused or cancelled still counts.
Settle(c, d) ==
    /\ status[c] \in {"active", "paused", "cancelled"}
    /\ d \in open[c]
    /\ open' = [open EXCEPT ![c] = @ \ {d}]
    /\ \/ failed' = [failed EXCEPT ![c] = @ \cup {d}] /\ UNCHANGED installed
       \/ installed' = [installed EXCEPT ![c] = @ \cup {d}] /\ UNCHANGED failed
    /\ UNCHANGED status

\* A device that had failed is found to run the firmware after all.
Recover(c, d) ==
    /\ d \in failed[c]
    /\ failed' = [failed EXCEPT ![c] = @ \ {d}]
    /\ installed' = [installed EXCEPT ![c] = @ \cup {d}]
    /\ UNCHANGED <<status, open>>

Next ==
    \/ Start
    \/ \E c \in Campaigns :
         \/ Create(c) \/ Pause(c) \/ Resume(c) \/ Cancel(c) \/ Complete(c)
         \/ \E d \in Devices : Settle(c, d) \/ Recover(c, d)

Spec == Init /\ [][Next]_vars
================================================================================
