------------------------------ MODULE SdkWrites ------------------------------
(***************************************************************************)
(* The write half of the TypeScript SDK (client.ts): every write method    *)
(* prepares a transaction for its caller (prepareTransaction), and         *)
(* submitTransaction signs it, sends it under the write retry policy and   *)
(* polls for the outcome under the read policy.  The React Native hook     *)
(* (useCreateRemittance) runs the two after each other.                    *)
(*                                                                         *)
(* One account signs all requests.  A transaction is the request it is for *)
(* and the sequence number it was built with; the network (external)       *)
(* applies a queued transaction when its number is the account's next.     *)
(***************************************************************************)
EXTENDS Naturals, FiniteSets

CONSTANTS
    Requests,       \* what the application wants done, one remittance each
    WriteRetries,   \* retries of the write policy
    ReadRetries,    \* retries of the read policy
    MaxSeq,         \* bound on the account's sequence number
    MaxPrepares     \* bound on the preparations of one request

SdkWritesAssumption ==
    {WriteRetries, ReadRetries, MaxSeq, MaxPrepares} \subseteq Nat

VARIABLES
    sequence,   \* the account's sequence number
    queue,      \* transactions the RPC node took and the network may still apply
    applied,    \* transactions the network applied, and the contract accepted
    failed,     \* transactions the network applied and the contract refused
    call        \* call[r]: the SDK's work on a request

writeVars == <<sequence, queue, applied, failed, call>>

Tx == [request : Requests, seq : 1..MaxSeq]
Steps == {"idle", "build", "simulate", "prepared", "send", "poll", "done", "thrown"}

Included == applied \cup failed
TxOf(r) == [request |-> r, seq |-> call[r].seq]
At(r, step) == call[r].step = step
Goto(r, step) == call' = [call EXCEPT ![r].step = step, ![r].tries = 0]
Throw(r) == Goto(r, "thrown")

Init ==
    /\ sequence = 0
    /\ queue = {} /\ applied = {} /\ failed = {}
    /\ call = [r \in Requests |-> [step |-> "idle", seq |-> 0, tries |-> 0, prepares |-> 0]]

\* Write methods: each asks for the account's number and builds on it.
PrepareAll(rs) ==
    /\ \A r \in rs : call[r].step \in {"idle", "thrown"} /\ call[r].prepares < MaxPrepares
    /\ call' = [r \in Requests |->
                 IF r \in rs
                 THEN [step |-> "build", seq |-> 0, tries |-> 0, prepares |-> call[r].prepares + 1]
                 ELSE call[r]]
    /\ UNCHANGED <<sequence, queue, applied, failed>>
Prepare(r) == PrepareAll({r})
\* A batch starts all its entries side by side, each with its own read.
PrepareBatch(rs) == Cardinality(rs) > 1 /\ PrepareAll(rs)

GetAccount(r) ==
    /\ At(r, "build") /\ sequence < MaxSeq
    /\ call' = [call EXCEPT ![r].step = "simulate", ![r].seq = sequence + 1]
    /\ UNCHANGED <<sequence, queue, applied, failed>>

Simulated(r) ==
    /\ At(r, "simulate")
    /\ Goto(r, "prepared")
    /\ UNCHANGED <<sequence, queue, applied, failed>>

\* An RPC error or timeout, or a refusal by the simulated contract.
PrepareFails(r) ==
    /\ call[r].step \in {"build", "simulate"}
    /\ Throw(r)
    /\ UNCHANGED <<sequence, queue, applied, failed>>

Sign(r) ==
    /\ At(r, "prepared")
    /\ Goto(r, "send")
    /\ UNCHANGED <<sequence, queue, applied, failed>>

\* PENDING, or DUPLICATE for a transaction the node knows.
SendAccepted(r) ==
    /\ At(r, "send")
    /\ TxOf(r) \in queue \cup Included \/ call[r].seq = sequence + 1
    /\ queue' = IF TxOf(r) \in Included THEN queue ELSE queue \cup {TxOf(r)}
    /\ Goto(r, "poll")
    /\ UNCHANGED <<sequence, applied, failed>>

\* TRY_AGAIN_LATER is no ERROR: the SDK polls for a transaction nobody holds.
SendDeferred(r) ==
    /\ At(r, "send")
    /\ Goto(r, "poll")
    /\ UNCHANGED <<sequence, queue, applied, failed>>

\* ERROR: the sequence number is not the account's next.
SendRefused(r) ==
    /\ At(r, "send") /\ call[r].seq # sequence + 1 /\ TxOf(r) \notin queue \cup Included
    /\ Throw(r)
    /\ UNCHANGED <<sequence, queue, applied, failed>>

\* Mistaken variant: a retry is built afresh, on the account's present number.
RetriedRebuilt(r) ==
    [call[r] EXCEPT !.tries = @ + 1, !.seq = IF sequence < MaxSeq THEN sequence + 1 ELSE @]
\* withRetry runs the same call again: the transaction is the same.
Retried(r) == [call[r] EXCEPT !.tries = @ + 1]

RetryOrThrow(r, retries, transient) ==
    IF call[r].tries < retries /\ transient
    THEN call' = [call EXCEPT ![r] = Retried(r)]
    ELSE Throw(r)

\* The send fails on the way there or on the way back (isTransientError).
SendLost(r, transient) ==
    /\ At(r, "send")
    /\ \/ queue' = queue
       \/ /\ call[r].seq = sequence + 1
          /\ queue' = queue \cup {TxOf(r)}
    /\ RetryOrThrow(r, WriteRetries, transient)
    /\ UNCHANGED <<sequence, applied, failed>>

\* Mistaken variant: NOT_FOUND, too, ends the polling.
EndsPollingAtOnce(r) == TxOf(r) \notin failed
EndsPolling(r) == TxOf(r) \in applied

PollSucceeds(r) ==
    /\ At(r, "poll") /\ EndsPolling(r)
    /\ Goto(r, "done")
    /\ UNCHANGED <<sequence, queue, applied, failed>>

PollFindsFailure(r) ==
    /\ At(r, "poll") /\ TxOf(r) \in failed
    /\ Throw(r)
    /\ UNCHANGED <<sequence, queue, applied, failed>>

PollLost(r, transient) ==
    /\ At(r, "poll")
    /\ RetryOrThrow(r, ReadRetries, transient)
    /\ UNCHANGED <<sequence, queue, applied, failed>>

\* The network takes a queued transaction whose number is next.
Include(tx, accepted) ==
    /\ tx \in queue /\ tx.seq = sequence + 1
    /\ sequence' = tx.seq
    /\ queue' = queue \ {tx}
    /\ IF accepted THEN applied' = applied \cup {tx} /\ UNCHANGED failed
                   ELSE failed' = failed \cup {tx} /\ UNCHANGED applied
    /\ UNCHANGED call

\* Thirty seconds after it was built a transaction can no longer be included,
\* and one whose number is taken never can.
Drop(tx) ==
    /\ tx \in queue
    /\ queue' = queue \ {tx}
    /\ UNCHANGED <<sequence, applied, failed, call>>

Next ==
    \/ \E r \in Requests :
        \/ Prepare(r) \/ GetAccount(r) \/ Simulated(r) \/ PrepareFails(r) \/ Sign(r)
        \/ SendAccepted(r) \/ SendDeferred(r) \/ SendRefused(r)
        \/ PollSucceeds(r) \/ PollFindsFailure(r)
        \/ \E transient \in BOOLEAN : SendLost(r, transient) \/ PollLost(r, transient)
    \/ \E rs \in SUBSET Requests : PrepareBatch(rs)
    \/ \E tx \in queue : Drop(tx) \/ \E accepted \in BOOLEAN : Include(tx, accepted)

Spec == Init /\ [][Next]_writeVars

-----------------------------------------------------------------------------
WritesTypeOK ==
    /\ sequence \in 0..MaxSeq
    /\ {queue, applied, failed} \subseteq SUBSET Tx
    /\ call \in [Requests -> [step : Steps, seq : 0..MaxSeq, tries : Nat, prepares : 0..MaxPrepares]]

AppliedFor(r) == {tx \in applied : tx.request = r}

(***************************************************************************)
(* The network applies no more transactions for a request than the         *)
(* application prepared: whatever sends are lost, retried or answered late, *)
(* submitTransaction by itself never pays twice.                           *)
(***************************************************************************)
AppliedOncePerPreparation ==
    \A r \in Requests : Cardinality(AppliedFor(r)) <= call[r].prepares

(***************************************************************************)
(* What submitTransaction reports as a success was applied: the caller's   *)
(* remittance exists on the ledger.                                        *)
(***************************************************************************)
ReportedIsApplied == \A r \in Requests : At(r, "done") => AppliedFor(r) # {}

(***************************************************************************)
(* What every step keeps: the transactions that were made for a request    *)
(* and may yet be applied, or were, are no more than its preparations; one *)
(* that is still to be built has none of its own yet.                      *)
(***************************************************************************)
MadeFor(r) ==
    {tx \in queue \cup Included : tx.request = r}
        \cup (IF call[r].seq = 0 THEN {} ELSE {TxOf(r)})
ToBuild(r) == IF At(r, "build") THEN 1 ELSE 0
MadeOncePerPreparation ==
    \A r \in Requests :
        /\ IsFiniteSet(MadeFor(r))
        /\ Cardinality(MadeFor(r)) + ToBuild(r) <= call[r].prepares
BuiltHasNumber ==
    \A r \in Requests :
        call[r].step \in {"simulate", "prepared", "send", "poll", "done"} => call[r].seq # 0
IInv == WritesTypeOK /\ MadeOncePerPreparation /\ BuiltHasNumber /\ ReportedIsApplied
=============================================================================
