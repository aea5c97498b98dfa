------------------------------- MODULE Compliance -------------------------------
(***************************************************************************)
(* Flags on large remittances: POST /api/remittance writes its row and     *)
(* then looks for a threshold that the amount reaches, while officers set  *)
(* thresholds, flag remittances themselves and settle flags.  Whatever the *)
(* remittance's currency, its amount is held against the USD thresholds,   *)
(* so only those are here.                                                 *)
(***************************************************************************)
EXTENDS Naturals, FiniteSets

CONSTANTS
    Created,     \* remittances
    Corridors,   \* a USD threshold each, at most
    Amounts      \* amounts, and thresholds

ComplianceAssumption == Amounts \subseteq Nat \ {0}

VARIABLES
    thresholds,  \* thresholds[c]: of compliance_thresholds, or NoThreshold
    request,     \* request[r]: how far the creation of r is, and its amount
    flag,        \* flag[r]: the status of its row in compliance_flagged_remittances, or "none"
    due,         \* remittances that reached some threshold ever since they were written
    failed       \* remittances whose flagging failed, which is swallowed, or died

vars == <<thresholds, request, flag, due, failed>>

NoThreshold == 0
FlagStatuses == {"pending", "reported", "cleared"}

Init ==
    /\ thresholds \in [Corridors -> Amounts \cup {NoThreshold}]
    /\ request = [r \in Created |-> [at |-> "none", amount |-> 0]]
    /\ flag = [r \in Created |-> "none"]
    /\ due = {} /\ failed = {}

\* Mistaken variant: an amount must exceed a threshold.
ReachesAbove(ths, amount) == \E c \in Corridors : ths[c] # NoThreshold /\ ths[c] < amount
Reaches(ths, amount) == \E c \in Corridors : ths[c] # NoThreshold /\ ths[c] <= amount

\* The row is written.
Create(r, amount) ==
    /\ request[r].at = "none"
    /\ request' = [request EXCEPT ![r] = [at |-> "written", amount |-> amount]]
    /\ due' = IF \E c \in Corridors : thresholds[c] \in 1..amount THEN due \cup {r} ELSE due
    /\ UNCHANGED <<thresholds, flag, failed>>

Goto(r, stage) == request' = [request EXCEPT ![r].at = stage]

\* autoFlagIfAboveThreshold: a threshold is looked for,
LookUp(r) ==
    /\ request[r].at = "written"
    /\ Goto(r, IF Reaches(thresholds, request[r].amount) THEN "found" ELSE "created")
    /\ UNCHANGED <<thresholds, flag, due, failed>>

\* ON CONFLICT DO NOTHING.
Flagged(r) == flag' = [flag EXCEPT ![r] = IF @ = "none" THEN "pending" ELSE @]

\* and the flag inserted.
AutoFlag(r) ==
    /\ request[r].at = "found"
    /\ Flagged(r) /\ Goto(r, "created")
    /\ UNCHANGED <<thresholds, due, failed>>

\* A statement fails, and the remittance is answered for as created; or the process dies.
FlagFails(r) ==
    /\ request[r].at \in {"written", "found"}
    /\ Goto(r, "created") /\ failed' = failed \cup {r}
    /\ UNCHANGED <<thresholds, flag, due>>

\* POST /flag: whatever the amount, and whether or not there is such a remittance.
ManualFlag(r) ==
    /\ Flagged(r)
    /\ UNCHANGED <<thresholds, request, due, failed>>

\* PATCH /flag/:id, from any status to any.
SetFlag(r, status) ==
    /\ flag[r] # "none"
    /\ flag' = [flag EXCEPT ![r] = status]
    /\ UNCHANGED <<thresholds, request, due, failed>>

\* POST /thresholds.
SetThreshold(c, amount) ==
    /\ thresholds' = [thresholds EXCEPT ![c] = amount]
    /\ due' = {r \in due : \E k \in Corridors : thresholds'[k] \in 1..request[r].amount}
    /\ UNCHANGED <<request, flag, failed>>

Next ==
    \/ \E r \in Created :
        \/ \E amount \in Amounts : Create(r, amount)
        \/ LookUp(r) \/ AutoFlag(r) \/ FlagFails(r) \/ ManualFlag(r)
        \/ \E status \in FlagStatuses : SetFlag(r, status)
    \/ \E c \in Corridors, amount \in Amounts : SetThreshold(c, amount)

Spec == Init /\ [][Next]_vars

-----------------------------------------------------------------------------
TypeOK ==
    /\ thresholds \in [Corridors -> Amounts \cup {NoThreshold}]
    /\ request \in [Created -> [at : {"none", "written", "found", "created"}, amount : Amounts \cup {0}]]
    /\ flag \in [Created -> FlagStatuses \cup {"none"}]
    /\ due \subseteq Created /\ failed \subseteq Created

(***************************************************************************)
(* Once a creation has ended, a remittance that reached some threshold all *)
(* the time has a flag, however thresholds and officers' flags changed     *)
(* meanwhile, unless its flagging failed.                                  *)
(***************************************************************************)
LargeIsFlagged ==
    \A r \in due : request[r].at = "created" => flag[r] # "none" \/ r \in failed

(***************************************************************************)
(* What every step keeps: a remittance is due only while a threshold in    *)
(* force is within its amount, so that looking one up finds it.            *)
(***************************************************************************)
DueIsReached ==
    \A r \in due : /\ request[r].at # "none"
                   /\ \E c \in Corridors : thresholds[c] \in 1..request[r].amount
IInv == TypeOK /\ DueIsReached /\ LargeIsFlagged
=============================================================================
