------------------------------ MODULE AgentKyc ------------------------------
(***************************************************************************)
(* The business KYC of an agent (agent-kyc-service.ts).  A submission is   *)
(* sent to the SEP-12 anchor and stored; a sync asks the anchor for its    *)
(* verdict and then reads the row again and writes all of it back, so a    *)
(* submission stored in between is lost or gets a verdict meant for the    *)
(* one before it.                                                          *)
(***************************************************************************)
EXTENDS Naturals, FiniteSets

CONSTANTS
    Tasks,          \* submissions and syncs in hand at a time
    MaxSubmissions,
    MaxFaults       \* bound on failed statements and crashes together

AgentKycAssumption == MaxSubmissions \in Nat /\ MaxFaults \in Nat

VARIABLES
    agent,      \* the row of agent_kyc
    customer,   \* the anchor: the submissions it holds, and its verdict
    task,       \* task[t]: what it is at
    submitted,  \* submissions so far
    accepted,   \* whether the anchor ever accepted
    faults

vars == <<agent, customer, task, submitted, accepted, faults>>

RowStatuses == {"none", "submitted", "under_review", "approved", "rejected"}
Verdicts == {"PROCESSING", "ACCEPTED", "REJECTED"}
NoTask == [step |-> "idle", data |-> 0, status |-> "none", known |-> FALSE]
At(t, step) == task[t].step = step
Finish(t) == task' = [task EXCEPT ![t] = NoTask]

Init ==
    /\ agent = [status |-> "none", data |-> 0, known |-> FALSE]
    /\ customer = [data |-> 0, verdict |-> "PROCESSING"]
    /\ task = [t \in Tasks |-> NoTask]
    /\ submitted = 0
    /\ accepted = FALSE
    /\ faults = 0

-----------------------------------------------------------------------------
\* submitKyc up to PUT /customer: the anchor takes the fields, or the call fails.
Submit(t) ==
    /\ At(t, "idle") /\ submitted < MaxSubmissions
    /\ submitted' = submitted + 1
    /\ \/ /\ customer' = [data |-> submitted + 1, verdict |-> "PROCESSING"]
          /\ task' = [task EXCEPT ![t] = [step |-> "store", data |-> submitted + 1,
                                          status |-> "under_review", known |-> TRUE]]
       \/ /\ UNCHANGED customer
          /\ task' = [task EXCEPT ![t] = [step |-> "store", data |-> submitted + 1,
                                          status |-> "submitted", known |-> FALSE]]
    /\ UNCHANGED <<agent, accepted, faults>>

\* upsertAgentKyc keeps the customer id it had when it is given none.
Store(t) ==
    /\ agent' = [status |-> task[t].status, data |-> task[t].data,
                 known |-> task[t].known \/ agent.known]
    /\ Finish(t)
    /\ UNCHANGED <<customer, submitted, accepted, faults>>

StoreSubmission(t) == At(t, "store") /\ Store(t)

\* syncSep12Status: no row, or no customer id, and there is nothing to ask.
SyncReads(t) ==
    /\ At(t, "idle") /\ agent.known
    /\ task' = [task EXCEPT ![t] = [NoTask EXCEPT !.step = "ask", !.status = agent.status]]
    /\ UNCHANGED <<agent, customer, submitted, accepted, faults>>

\* Mistaken variant: what is not rejected is approved.
VerdictNotRejected(v) == IF v = "REJECTED" THEN "rejected" ELSE "approved"
\* sep12GetCustomerStatus.
Verdict(v) ==
    CASE v = "ACCEPTED" -> "approved" [] v = "REJECTED" -> "rejected" [] OTHER -> "under_review"

SyncAsks(t) ==
    LET s == Verdict(customer.verdict) IN
    /\ At(t, "ask")
    /\ IF s # task[t].status
       THEN task' = [task EXCEPT ![t] = [NoTask EXCEPT !.step = "reread", !.status = s]]
       ELSE Finish(t)
    /\ UNCHANGED <<agent, customer, submitted, accepted, faults>>

\* reviewKyc reads the row again, and writes all of it.
ReviewReads(t) ==
    /\ At(t, "reread")
    /\ task' = [task EXCEPT ![t].step = "write", ![t].data = agent.data, ![t].known = agent.known]
    /\ UNCHANGED <<agent, customer, submitted, accepted, faults>>

ReviewWrites(t) == At(t, "write") /\ Store(t)

TaskFails(t) ==
    /\ ~At(t, "idle") /\ faults < MaxFaults /\ faults' = faults + 1
    /\ Finish(t)
    /\ UNCHANGED <<agent, customer, submitted, accepted>>

AnchorDecides(v) ==
    /\ customer.data > 0 /\ customer.verdict # v
    /\ customer' = [customer EXCEPT !.verdict = v]
    /\ accepted' = (accepted \/ v = "ACCEPTED")
    /\ UNCHANGED <<agent, task, submitted, faults>>

Next ==
    \/ \E t \in Tasks :
        \/ Submit(t) \/ StoreSubmission(t) \/ SyncReads(t) \/ SyncAsks(t)
        \/ ReviewReads(t) \/ ReviewWrites(t) \/ TaskFails(t)
    \/ \E v \in Verdicts : AnchorDecides(v)

Spec == Init /\ [][Next]_vars

-----------------------------------------------------------------------------
TypeOK ==
    /\ agent \in [status : RowStatuses, data : 0..MaxSubmissions, known : BOOLEAN]
    /\ customer \in [data : 0..MaxSubmissions, verdict : Verdicts]
    /\ task \in [Tasks -> [step : {"idle", "store", "ask", "reread", "write"},
                           data : 0..MaxSubmissions, status : RowStatuses, known : BOOLEAN]]
    /\ submitted \in 0..MaxSubmissions
    /\ accepted \in BOOLEAN /\ faults \in 0..MaxFaults

(***************************************************************************)
(* An agent is approved only if the anchor accepted some submission of     *)
(* theirs, and only over data that was submitted - not always over the     *)
(* data it accepted.                                                       *)
(***************************************************************************)
ApprovedWasAccepted ==
    agent.status = "approved" => accepted /\ agent.data \in 1..submitted

\* The inductive invariant: what is stored and in hand was submitted, and whoever is about
\* to write an approval heard it of the anchor.
InHandWasSubmitted ==
    /\ agent.known => agent.data \in 1..submitted
    /\ \A t \in Tasks :
          /\ At(t, "store") => task[t].data \in 1..submitted /\ task[t].status # "approved"
          /\ At(t, "ask") \/ At(t, "reread") => agent.known
          /\ At(t, "write") => task[t].data \in 1..submitted
ApprovalWasHeard ==
    /\ customer.verdict = "ACCEPTED" => accepted
    /\ \A t \in Tasks : (At(t, "reread") \/ At(t, "write")) /\ task[t].status = "approved" => accepted

IInv == TypeOK /\ InHandWasSubmitted /\ ApprovalWasHeard /\ ApprovedWasAccepted
=============================================================================
