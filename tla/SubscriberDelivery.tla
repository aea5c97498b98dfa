-------------------------- MODULE SubscriberDelivery --------------------------
(***************************************************************************)
(* Notifications to the subscribers of the older webhook tables            *)
(* (webhook-dispatcher.ts over webhook_deliveries): dispatch by the        *)
(* webhook handler and by the SEP-24 refunds, the retry sweep, and the     *)
(* rotation of a subscriber's secret (api.ts), which a delivery under way  *)
(* does not see: it signs with the secrets it read.                        *)
(*                                                                         *)
(* One event of one subscriber.  Nothing in the repository calls the retry *)
(* sweep; SweepRuns says whether somebody does.                            *)
(***************************************************************************)
EXTENDS Naturals, FiniteSets

CONSTANTS
    Senders,        \* dispatches and sweeps in hand at a time
    MaxAttempts,    \* MAX_RETRIES
    MaxDispatches,  \* bound on dispatches of the event
    MaxSecrets,     \* bound on the secrets
    SweepRuns,
    MaxFaults

SubscriberAssumption ==
    /\ MaxAttempts \in Nat \ {0} /\ MaxDispatches \in Nat /\ MaxSecrets \in Nat \ {0}
    /\ SweepRuns \in BOOLEAN /\ MaxFaults \in Nat

VARIABLES
    subscriber, \* its current and previous secret, and the grace period
    delivery,   \* the row of webhook_deliveries
    sender,     \* sender[s]: the row and the secrets it read, how far it is
    knows,      \* the secrets the subscriber can check with
    notices,    \* new secrets on their way to the subscriber
    dispatches,
    received,   \* good answers since the row was last enqueued
    unverified, \* a delivery reached the subscriber with no signature it could check
    missed,     \* still untold of a secret when it became the only one, or was replaced
    crossed,    \* the grace period ended between reading the secrets and posting
    faults

vars == <<subscriber, delivery, sender, knows, notices, dispatches, received, unverified, missed, crossed, faults>>

Row == [status : {"none", "pending", "success", "failed"}, attempts : 0..MaxAttempts, due : BOOLEAN]
NoSender == [step |-> "idle", attempts |-> 0, signs |-> {}]
At(s, step) == sender[s].step = step
Done(s) == sender' = [sender EXCEPT ![s] = NoSender]

Init ==
    /\ subscriber = [secret |-> 1, previous |-> 0, grace |-> FALSE]
    /\ delivery = [status |-> "none", attempts |-> 0, due |-> FALSE]
    /\ sender = [s \in Senders |-> NoSender]
    /\ knows = {1} /\ notices = {}
    /\ dispatches = 0
    /\ received = 0
    /\ unverified = FALSE /\ missed = FALSE /\ crossed = FALSE
    /\ faults = 0

\* Mistaken variant: signs with the new secret alone.
SignaturesCurrent == {subscriber.secret}
\* buildSignatureHeaders: the previous secret signs too within the grace period.
Signatures ==
    {subscriber.secret} \cup
    (IF subscriber.grace /\ subscriber.previous # 0 THEN {subscriber.previous} ELSE {})

Begin(s, row) ==
    sender' = [sender EXCEPT ![s] = [step |-> "post", attempts |-> row.attempts, signs |-> Signatures]]

\* dispatchRemittanceCreated and dispatchSep24ExpiredRefund: enqueue resets the row.
Dispatch(s) ==
    LET row == [status |-> "pending", attempts |-> 0, due |-> TRUE] IN
    /\ At(s, "idle") /\ dispatches < MaxDispatches
    /\ dispatches' = dispatches + 1
    /\ delivery' = row
    /\ received' = 0
    /\ Begin(s, row)
    /\ UNCHANGED <<subscriber, knows, notices, unverified, missed, crossed, faults>>

\* retryPendingDeliveries.
Sweep(s) ==
    /\ SweepRuns /\ At(s, "idle")
    /\ delivery.status = "pending" /\ delivery.due
    /\ Begin(s, delivery)
    /\ UNCHANGED <<subscriber, delivery, knows, notices, dispatches, received, unverified, missed, crossed, faults>>

\* attemptDelivery: the subscriber takes a delivery it can verify.
PostAccepted(s) ==
    /\ At(s, "post")
    /\ IF sender[s].signs \cap knows # {}
       THEN /\ received' = received + 1
            /\ sender' = [sender EXCEPT ![s].step = "mark"]
            /\ UNCHANGED unverified
       ELSE /\ unverified' = TRUE
            /\ sender' = [sender EXCEPT ![s].step = "fail"]
            /\ UNCHANGED received
    /\ UNCHANGED <<subscriber, delivery, knows, notices, dispatches, missed, crossed, faults>>

PostFails(s) ==
    /\ At(s, "post")
    /\ sender' = [sender EXCEPT ![s].step = "fail"]
    /\ UNCHANGED <<subscriber, delivery, knows, notices, dispatches, received, unverified, missed, crossed, faults>>

MarkSuccess(s) ==
    /\ At(s, "mark")
    /\ delivery' = [delivery EXCEPT !.status = "success"]
    /\ Done(s)
    /\ UNCHANGED <<subscriber, knows, notices, dispatches, received, unverified, missed, crossed, faults>>

\* The mark of a success fails: the attempt is booked as a failure.
MarkFails(s) ==
    /\ At(s, "mark") /\ faults < MaxFaults /\ faults' = faults + 1
    /\ sender' = [sender EXCEPT ![s].step = "fail"]
    /\ UNCHANGED <<subscriber, delivery, knows, notices, dispatches, received, unverified, missed, crossed>>

\* Mistaken variant: gives up one attempt late.
NextStatusLate(n) == IF n > MaxAttempts THEN "failed" ELSE "pending"
NextStatus(n) == IF n >= MaxAttempts THEN "failed" ELSE "pending"

\* scheduleFailure over whatever the row says now.
ScheduleFailure(s) ==
    LET n == sender[s].attempts + 1 IN
    /\ At(s, "fail")
    /\ delivery' = [status |-> NextStatus(n), attempts |-> n, due |-> FALSE]
    /\ Done(s)
    /\ UNCHANGED <<subscriber, knows, notices, dispatches, received, unverified, missed, crossed, faults>>

SenderEnds(s) ==
    /\ ~At(s, "idle") /\ faults < MaxFaults /\ faults' = faults + 1
    /\ Done(s)
    /\ UNCHANGED <<subscriber, delivery, knows, notices, dispatches, received, unverified, missed, crossed>>

BecomesDue ==
    /\ delivery.status = "pending" /\ ~delivery.due
    /\ delivery' = [delivery EXCEPT !.due = TRUE]
    /\ UNCHANGED <<subscriber, sender, knows, notices, dispatches, received, unverified, missed, crossed, faults>>

\* rotateWebhookSecret; the notice of the new secret goes to the subscriber.
Rotate ==
    LET new == subscriber.secret + 1 IN
    /\ subscriber.secret < MaxSecrets
    /\ subscriber' = [secret |-> new, previous |-> subscriber.secret, grace |-> TRUE]
    /\ notices' = notices \cup {new}
    /\ missed' = (missed \/ subscriber.secret \notin knows)
    /\ UNCHANGED <<delivery, sender, knows, dispatches, received, unverified, crossed, faults>>

\* The notice is sent once: it may come late or, with no step taken, never.
NoticeArrives ==
    \E n \in notices :
        /\ notices' = notices \ {n}
        /\ knows' = knows \cup {n}
        /\ UNCHANGED <<subscriber, delivery, sender, dispatches, received, unverified, missed, crossed, faults>>

\* A day after the rotation neither side uses the old secret.
GraceEnds ==
    /\ subscriber.grace
    /\ subscriber' = [subscriber EXCEPT !.grace = FALSE]
    /\ knows' = knows \cap {subscriber.secret}
    /\ missed' = (missed \/ subscriber.secret \notin knows)
    /\ crossed' = (crossed \/ \E s \in Senders : At(s, "post"))
    /\ UNCHANGED <<delivery, sender, notices, dispatches, received, unverified, faults>>

Next ==
    \/ \E s \in Senders :
        \/ Dispatch(s) \/ Sweep(s) \/ PostAccepted(s) \/ PostFails(s)
        \/ MarkSuccess(s) \/ MarkFails(s) \/ ScheduleFailure(s) \/ SenderEnds(s)
    \/ BecomesDue \/ Rotate \/ NoticeArrives \/ GraceEnds

Spec == Init /\ [][Next]_vars

-----------------------------------------------------------------------------
TypeOK ==
    /\ subscriber \in [secret : 1..MaxSecrets, previous : 0..MaxSecrets, grace : BOOLEAN]
    /\ delivery \in Row
    /\ sender \in [Senders -> [step : {"idle", "post", "mark", "fail"},
                               attempts : 0..MaxAttempts, signs : SUBSET (1..MaxSecrets)]]
    /\ knows \in SUBSET (1..MaxSecrets) /\ notices \in SUBSET (1..MaxSecrets)
    /\ dispatches \in 0..MaxDispatches /\ received \in Nat
    /\ {unverified, missed, crossed} \subseteq BOOLEAN
    /\ faults \in 0..MaxFaults

(***************************************************************************)
(* The grace period covers a late notice: a subscriber told of the new     *)
(* secret before the grace ends or the secret is rotated again can verify  *)
(* everything it is sent, before, during and after the grace.              *)
(***************************************************************************)
GraceCoversALateNotice == ~missed /\ ~crossed => ~unverified

(***************************************************************************)
(* A delivery is given up only when its last allowed attempt has failed,   *)
(* and a pending one still has an attempt left, whatever races to book the *)
(* outcome.                                                                *)
(***************************************************************************)
GivenUpWhenSpent ==
    /\ delivery.status = "failed" => delivery.attempts = MaxAttempts
    /\ delivery.status = "pending" => delivery.attempts < MaxAttempts

\* The inductive invariant: a sender has an attempt left, and the subscriber, unless it
\* missed a secret, knows one of those that a delivery signs with.
SendersHaveAttempts == \A s \in Senders : ~At(s, "idle") => sender[s].attempts < MaxAttempts
SubscriberKnows ==
    ~missed => \/ subscriber.secret \in knows
               \/ subscriber.grace /\ subscriber.previous # 0 /\ subscriber.previous \in knows
SignsWithKnown ==
    ~missed /\ ~crossed => \A s \in Senders : At(s, "post") => sender[s].signs \cap knows # {}
IInv ==
    /\ TypeOK /\ GivenUpWhenSpent /\ GraceCoversALateNotice
    /\ SendersHaveAttempts /\ SubscriberKnows /\ SignsWithKnown
=============================================================================
