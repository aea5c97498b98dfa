-------------------------------- MODULE Sep24 --------------------------------
(***************************************************************************)
(* SEP-24 deposits and withdrawals (sep24-service.ts over the rows of      *)
(* sep24_transactions, database.ts).  A flow is opened at the anchor and   *)
(* recorded; a poll reads the open rows and then works through what it     *)
(* read, one await after the other; notifications of the anchor write the  *)
(* same rows meanwhile.  No update looks at what the row holds by then.    *)
(*                                                                         *)
(* A row the poll finds past its timeout is refunded: the remittance is    *)
(* cancelled on chain, if its id is known, and the row is marked.  The     *)
(* contract cancels for the sender only, and the backend signs as admin.   *)
(*                                                                         *)
(* The polls are a scheduled job on several instances, next to the flows   *)
(* users open and the anchor's notifications.                              *)
(***************************************************************************)
EXTENDS Naturals, FiniteSets, TLAPS

CONSTANTS
    Instances,          \* the processes that run the scheduler
    Txns,
    Reported,           \* the statuses the anchor may report in this instance
    Referenced,         \* flows whose remittance id the anchor reports
    SentByAdmin,        \* flows whose remittance the admin itself sent
    MaxMail,            \* bound on the notifications of one flow
    MaxFaults           \* bound on crashes and failed statements together

Open == {"pending_user_transfer_start", "pending_anchor", "pending_stellar",
         "pending_external", "pending_trust", "pending_user"}
Closed == {"completed", "refunded", "expired", "error"}

ASSUME Sep24Assumption ==
    /\ Referenced \subseteq Txns /\ SentByAdmin \subseteq Txns
    /\ "pending_anchor" \in Reported
    /\ MaxMail \in Nat /\ MaxFaults \in Nat

-----------------------------------------------------------------------------
(***************************************************************************)
(* One scheduled job of the backend (scheduler.ts) on several instances:   *)
(* each tick tries the PostgreSQL advisory lock of the job                 *)
(* (distributed-lock.ts), records a run (job-tracker.ts), calls the job    *)
(* and releases the lock.  The lock belongs to a database session and is   *)
(* gone with it; the job does not notice and goes on.                      *)
(*                                                                         *)
(* Every job function catches its own errors, so the function runTracked   *)
(* calls never throws: only the tracker's own statements can fail.         *)
(***************************************************************************)
VARIABLES
    stage,          \* where each instance is in its tick
    holder,         \* the instance whose session holds the lock, as a set
    jobRun,         \* the last row of job_runs each instance inserted
    abandoned,      \* an earlier row was left at running
    sessionsLost    \* history: a session was lost while its instance was at work

jobVars == <<stage, holder, jobRun, abandoned, sessionsLost>>

Stages == {"idle", "locked", "working", "failing", "unlocking"}
RunStatuses == {"none", "running", "success", "failure"}

JobsInit ==
    /\ stage = [i \in Instances |-> "idle"]
    /\ holder = {}
    /\ jobRun = [i \in Instances |-> "none"]
    /\ abandoned = FALSE
    /\ sessionsLost = FALSE

Goto(i, s) == stage' = [stage EXCEPT ![i] = s]

MarkRun(i, status) == jobRun' = [jobRun EXCEPT ![i] = status]

\* Mistaken variant: takes the lock without looking.
TryLockBlindly(i) ==
    /\ stage[i] = "idle"
    /\ holder' = {i}
    /\ Goto(i, "locked")
    /\ UNCHANGED <<jobRun, abandoned, sessionsLost>>
\* pg_try_advisory_lock: a tick that does not get the lock is skipped.
TryLock(i) ==
    /\ stage[i] = "idle"
    /\ holder = {}
    /\ holder' = {i}
    /\ Goto(i, "locked")
    /\ UNCHANGED <<jobRun, abandoned, sessionsLost>>

\* The INSERT of the row, after which the job is called.
BeginJob(i) ==
    /\ stage[i] = "locked"
    /\ MarkRun(i, "running")
    /\ abandoned' = (abandoned \/ jobRun[i] = "running")
    /\ Goto(i, "working")
    /\ UNCHANGED <<holder, sessionsLost>>

\* The INSERT fails: the error passes through the lock's finally.
BeginFails(i) ==
    /\ stage[i] = "locked"
    /\ Goto(i, "unlocking")
    /\ UNCHANGED <<holder, jobRun, abandoned, sessionsLost>>

EndJob(i) ==
    /\ stage[i] = "working"
    /\ MarkRun(i, "success")
    /\ Goto(i, "unlocking")
    /\ UNCHANGED <<holder, abandoned, sessionsLost>>

\* The UPDATE to success fails and is taken for a failure of the job.
EndFails(i) ==
    /\ stage[i] = "working"
    /\ Goto(i, "failing")
    /\ UNCHANGED <<holder, jobRun, abandoned, sessionsLost>>
RecordFailure(i) ==
    /\ stage[i] = "failing"
    /\ MarkRun(i, "failure")
    /\ Goto(i, "unlocking")
    /\ UNCHANGED <<holder, abandoned, sessionsLost>>
RecordFailureFails(i) ==
    /\ stage[i] = "failing"
    /\ Goto(i, "unlocking")
    /\ UNCHANGED <<holder, jobRun, abandoned, sessionsLost>>

\* pg_advisory_unlock does nothing for a session that has not the lock.
Unlock(i) ==
    /\ stage[i] = "unlocking"
    /\ holder' = holder \ {i}
    /\ Goto(i, "idle")
    /\ UNCHANGED <<jobRun, abandoned, sessionsLost>>

\* The connection that took the lock breaks while the job runs.
LoseSession(i) ==
    /\ i \in holder /\ stage[i] = "working"
    /\ holder' = {}
    /\ sessionsLost' = TRUE
    /\ UNCHANGED <<stage, jobRun, abandoned>>

\* The process ends: its session and lock go with it, its row stays as it is.
CrashInstance(i) ==
    /\ stage[i] # "idle"
    /\ holder' = holder \ {i}
    /\ Goto(i, "idle")
    /\ UNCHANGED <<jobRun, abandoned, sessionsLost>>

JobsTypeOK ==
    /\ stage \in [Instances -> Stages]
    /\ holder \subseteq Instances
    /\ jobRun \in [Instances -> RunStatuses]
    /\ abandoned \in BOOLEAN /\ sessionsLost \in BOOLEAN

\* Two instances run the job at once only if one of them lost its session.
OneInstanceAtWork ==
    \A i, j \in Instances :
        stage[i] = "working" /\ stage[j] = "working" /\ i # j => sessionsLost

-----------------------------------------------------------------------------
\* The flows.
VARIABLES
    row,        \* row[t]: status, whether the remittance id is known, last_polled recent
    posted,     \* flows the anchor has accepted and saveSep24Transaction not yet stored
    age,        \* age[t]: 0 young, 1 past timeout_minutes, 2 past anchorTimeoutHours
    poll,       \* poll[i]: what poller i has read and where it stands
    chain,      \* chain[t]: the remittance in the contract
    stalled,    \* stalledTransactionsTotal
    anchor,     \* anchor[t]: the status at the anchor
    mail,       \* notifications of the anchor that may still arrive
    mailed,     \* mailed[t]: notifications sent so far
    faults      \* crashes and failed statements so far

ours == <<row, posted, age, poll, chain, stalled>>
theirs == <<anchor, mail, mailed>>
sepVars == <<ours, theirs, faults>>

NoStatus == "none"
NoRow == [status |-> NoStatus, known |-> FALSE, fresh |-> FALSE]
Exists(t) == row[t].status # NoStatus

\* statusMap: what is not listed is an error.
Internal(status) == IF status \in Open \cup Closed THEN status ELSE "error"

Snapshot == [txn : Txns, status : Open, known : BOOLEAN]
NotPolling == [todo |-> {}, step |-> "next", on |-> {}, answer |-> NoStatus]
Steps == {"next", "cancelled", "answered", "lost"}
Current(i) == CHOOSE s \in poll[i].on : TRUE

Sep24Init ==
    /\ row = [t \in Txns |-> NoRow]
    /\ posted = {}
    /\ age = [t \in Txns |-> 0]
    /\ poll = [i \in Instances |-> NotPolling]
    /\ chain = [t \in Txns |-> "pending"]
    /\ stalled = 0
    /\ anchor = [t \in Txns |-> NoStatus]
    /\ mail = {} /\ mailed = [t \in Txns |-> 0]
    /\ faults = 0

\* updateSep24TransactionStatus: no row, no effect; COALESCE keeps a known id.
Store(t, status, known) ==
    row' = IF Exists(t)
           THEN [row EXCEPT ![t] = [status |-> status, fresh |-> TRUE,
                                    known |-> row[t].known \/ known]]
           ELSE row

-----------------------------------------------------------------------------
(***************************************************************************)
(* initiateFlow: the POST to the anchor, and the row after its answer.     *)
(***************************************************************************)
PostFlow(t) ==
    /\ ~Exists(t) /\ t \notin posted /\ anchor[t] = NoStatus
    /\ posted' = posted \cup {t}
    /\ anchor' = [anchor EXCEPT ![t] = "pending_anchor"]
    /\ UNCHANGED <<row, age, poll, chain, stalled, mail, mailed, faults>>

SaveFlow(t) ==
    /\ t \in posted
    /\ posted' = posted \ {t}
    /\ row' = [row EXCEPT ![t] = [NoRow EXCEPT !.status = "pending_anchor"]]
    /\ UNCHANGED <<age, poll, chain, stalled, theirs, faults>>

\* The POST fails or its answer is lost: the row says error, whatever the
\* anchor has made of the request.
FlowRefused(t) ==
    /\ ~Exists(t) /\ t \notin posted /\ anchor[t] = NoStatus
    /\ row' = [row EXCEPT ![t] = [NoRow EXCEPT !.status = "error"]]
    /\ anchor' \in {anchor, [anchor EXCEPT ![t] = "pending_anchor"]}
    /\ UNCHANGED <<posted, age, poll, chain, stalled, mail, mailed, faults>>

-----------------------------------------------------------------------------
(***************************************************************************)
(* The poll.                                                               *)
(***************************************************************************)
DueWhateverStatus == {t \in Txns : Exists(t) /\ ~row[t].fresh}
Due == {t \in Txns : row[t].status \in Open /\ ~row[t].fresh}

StartPoll(i) ==
    /\ poll' = [poll EXCEPT ![i] =
                  [NotPolling EXCEPT !.todo =
                     {[txn |-> t, status |-> row[t].status, known |-> row[t].known] : t \in Due}]]
    /\ UNCHANGED <<row, posted, age, chain, stalled, theirs, faults>>

Finished(i) == poll[i] = NotPolling

Take(i, s, step, answer) ==
    poll' = [poll EXCEPT ![i] = [todo |-> poll[i].todo \ {s}, step |-> step,
                                 on |-> {s}, answer |-> answer]]
Skip(i, s) == poll' = [poll EXCEPT ![i].todo = @ \ {s}]
Leave(i) == poll' = [poll EXCEPT ![i] = [NotPolling EXCEPT !.todo = poll[i].todo]]

\* Mistaken variant: looks at the longer of the two timeouts only.
IsStalledAnyStatus(s) == age[s.txn] = 2
IsStalled(s) == s.status = "pending_anchor" /\ age[s.txn] = 2
\* Mistaken variant: the timeout is never reached.
TimedOutNever(s) == FALSE
\* Mistaken variant: every row read is taken for timed out.
TimedOutAtOnce(s) == TRUE
TimedOut(s) == age[s.txn] >= 1

MarkStalled(i) == \E s \in poll[i].todo :
    /\ poll[i].step = "next" /\ IsStalled(s)
    /\ Store(s.txn, "error", FALSE)
    /\ stalled' = stalled + 1
    /\ Skip(i, s)
    /\ UNCHANGED <<posted, age, chain, theirs, faults>>

\* cancelRemittanceOnChain: the contract asks for the sender's signature and the
\* transaction has the admin's; a failure at the RPC server changes nothing.
CancelOnChain(t) ==
    \/ /\ t \in SentByAdmin /\ chain[t] = "pending"
       /\ chain' = [chain EXCEPT ![t] = "cancelled"]
    \/ UNCHANGED chain

\* processExpiredRefund up to the cancellation, whose failure is swallowed.
\* An id the row did not have when it was read is not looked for.
CancelExpired(i) == \E s \in poll[i].todo :
    /\ poll[i].step = "next" /\ ~IsStalled(s) /\ TimedOut(s)
    /\ Take(i, s, "cancelled", NoStatus)
    /\ IF s.known THEN CancelOnChain(s.txn) ELSE UNCHANGED chain
    /\ UNCHANGED <<row, posted, age, stalled, theirs, faults>>

\* The network drops the transaction, and its hash is asked for until it is found.
CancelDropped(i) == \E s \in poll[i].todo :
    /\ poll[i].step = "next" /\ ~IsStalled(s) /\ TimedOut(s) /\ s.known
    /\ faults < MaxFaults /\ faults' = faults + 1
    /\ Take(i, s, "lost", NoStatus)
    /\ UNCHANGED <<row, posted, age, chain, stalled, theirs>>

MarkRefunded(i) ==
    /\ poll[i].step = "cancelled"
    /\ Store(Current(i).txn, "refunded", FALSE)
    /\ Leave(i)
    /\ UNCHANGED <<posted, age, chain, stalled, theirs, faults>>

\* queryTransactionStatus gives the anchor's answer, or null for a refusal
\* and after three attempts.
QueryAnchor(i) == \E s \in poll[i].todo :
    /\ poll[i].step = "next" /\ ~IsStalled(s) /\ ~TimedOut(s)
    /\ \/ anchor[s.txn] # NoStatus /\ Take(i, s, "answered", anchor[s.txn])
       \/ Skip(i, s)
    /\ UNCHANGED <<row, posted, age, chain, stalled, theirs, faults>>

\* The answer is compared with the status as it was read, and written over
\* whatever the row holds by now.
StoreAnswer(i) ==
    LET s == Current(i)  status == Internal(poll[i].answer) IN
    /\ poll[i].step = "answered"
    /\ IF status # s.status THEN Store(s.txn, status, s.txn \in Referenced)
       ELSE UNCHANGED row
    /\ Leave(i)
    /\ UNCHANGED <<posted, age, chain, stalled, theirs, faults>>

\* An update fails: the error is caught and the poll goes on to the next row.
UpdateFails(i) ==
    /\ faults < MaxFaults /\ faults' = faults + 1
    /\ \/ poll[i].step \in {"cancelled", "answered"} /\ Leave(i)
       \/ \E s \in poll[i].todo : poll[i].step = "next" /\ IsStalled(s) /\ Skip(i, s)
    /\ UNCHANGED <<row, posted, age, chain, stalled, theirs>>

PollStep(i) ==
    \/ MarkStalled(i) \/ CancelExpired(i) \/ MarkRefunded(i)
    \/ QueryAnchor(i) \/ StoreAnswer(i)

\* The process of poller i ends; flows it had posted are not stored.
CrashPoller(i) ==
    /\ faults < MaxFaults /\ faults' = faults + 1
    /\ poll' = [poll EXCEPT ![i] = NotPolling]
    /\ posted' \in {posted, {}}
    /\ UNCHANGED <<row, age, chain, stalled, theirs>>

-----------------------------------------------------------------------------
(***************************************************************************)
(* The anchor, its notifications, the contract and time.                   *)
(***************************************************************************)
\* handleWebhookNotification: stored whatever the row says.
Notified(n) ==
    /\ n \in mail
    /\ Store(n.txn, Internal(n.status), n.txn \in Referenced)
    /\ mail' = mail \ {n}
    /\ UNCHANGED <<posted, age, poll, chain, stalled, anchor, mailed, faults>>

NotificationLost(n) ==
    /\ n \in mail
    /\ mail' = mail \ {n}
    /\ UNCHANGED <<ours, anchor, mailed, faults>>

\* The anchor goes on, never back to where it began, and may send word.
AnchorMoves(t) == \E status \in Reported \ {anchor[t], "pending_anchor"} :
    /\ anchor[t] \in Open
    /\ anchor' = [anchor EXCEPT ![t] = status]
    /\ \/ UNCHANGED <<mail, mailed>>
       \/ /\ mailed[t] < MaxMail
          /\ mailed' = [mailed EXCEPT ![t] = @ + 1]
          /\ mail' = mail \cup {[txn |-> t, status |-> status]}
    /\ UNCHANGED <<ours, faults>>

\* The agent is paid: the remittance cannot be cancelled any more.
Settle(t) ==
    /\ chain[t] = "pending"
    /\ chain' = [chain EXCEPT ![t] = "settled"]
    /\ UNCHANGED <<row, posted, age, poll, stalled, theirs, faults>>

GrowOlder(t) ==
    /\ Exists(t) /\ age[t] < 2
    /\ age' = [age EXCEPT ![t] = @ + 1]
    /\ UNCHANGED <<row, posted, poll, chain, stalled, theirs, faults>>

\* The polling interval has passed since the row was written.
BecomeDue(t) ==
    /\ row[t].fresh
    /\ row' = [row EXCEPT ![t].fresh = FALSE]
    /\ UNCHANGED <<posted, age, poll, chain, stalled, theirs, faults>>
-----------------------------------------------------------------------------
(***************************************************************************)
(* The poll as the scheduler runs it.                                      *)
(***************************************************************************)
vars == <<sepVars, jobVars>>

Init == Sep24Init /\ JobsInit

\* runTracked calls the job when its row is inserted, and goes on when it is done.
Begin(i) == BeginJob(i) /\ StartPoll(i)
Work(i) == stage[i] = "working" /\ PollStep(i) /\ UNCHANGED jobVars
WorkFails(i) == stage[i] = "working" /\ (UpdateFails(i) \/ CancelDropped(i)) /\ UNCHANGED jobVars
End(i) == Finished(i) /\ EndJob(i) /\ UNCHANGED sepVars

\* Without a fault a tick runs to its end.
TickFails(i) ==
    /\ faults < MaxFaults /\ faults' = faults + 1
    /\ \/ BeginFails(i)
       \/ Finished(i) /\ EndFails(i)
       \/ LoseSession(i)
    /\ UNCHANGED <<ours, theirs>>
TickGoesOn(i) ==
    /\ TryLock(i) \/ RecordFailure(i) \/ Unlock(i)
    /\ UNCHANGED sepVars
\* The outage that failed the update to success may last for the next one.
FailureNotRecorded(i) == RecordFailureFails(i) /\ UNCHANGED sepVars
Crash(i) == CrashInstance(i) /\ CrashPoller(i)

Flows == \E t \in Txns : (PostFlow(t) \/ SaveFlow(t) \/ FlowRefused(t)) /\ UNCHANGED jobVars
Outside ==
    /\ \/ \E n \in mail : Notified(n) \/ NotificationLost(n)
       \/ \E t \in Txns : AnchorMoves(t) \/ Settle(t) \/ GrowOlder(t) \/ BecomeDue(t)
    /\ UNCHANGED jobVars

Tick(i) == TickGoesOn(i) \/ Begin(i) \/ Work(i) \/ End(i)
Next ==
    \/ \E i \in Instances :
          Tick(i) \/ WorkFails(i) \/ TickFails(i) \/ FailureNotRecorded(i) \/ Crash(i)
    \/ Flows
    \/ Outside

(***************************************************************************)
(* The cron ticks come and every await ends: a tick that has begun goes    *)
(* on, some instance gets the lock again and again, and time passes.       *)
(* Nothing is assumed of the anchor, the mail or the users.                *)
(***************************************************************************)
GoesOn(i) == Tick(i) /\ stage[i] # "idle"
SomeTick == \E i \in Instances : Tick(i) /\ stage[i] = "idle"
TimePasses(t) == GrowOlder(t) /\ UNCHANGED jobVars
IntervalPasses(t) == BecomeDue(t) /\ UNCHANGED jobVars
Fairness ==
    /\ \A i \in Instances : WF_vars(GoesOn(i))
    /\ WF_vars(SomeTick)
    /\ \A t \in Txns : WF_vars(TimePasses(t)) /\ WF_vars(IntervalPasses(t))

Spec == Init /\ [][Next]_vars /\ Fairness

-----------------------------------------------------------------------------
TypeOK ==
    /\ row \in [Txns -> [status : Open \cup Closed \cup {NoStatus},
                         known : BOOLEAN, fresh : BOOLEAN]]
    /\ posted \subseteq Txns
    /\ age \in [Txns -> 0..2]
    /\ poll \in [Instances -> [todo : SUBSET Snapshot, step : Steps, on : SUBSET Snapshot,
                             answer : Open \cup Closed \cup Reported \cup {NoStatus}]]
    /\ chain \in [Txns -> {"pending", "settled", "cancelled"}]
    /\ stalled \in Nat /\ faults \in 0..MaxFaults
    /\ JobsTypeOK

\* Every flow that was recorded is closed for good in the end: the anchor may
\* be silent, word of it may be lost or late, pollers may crash or overlap.
\* Only a poll that waits for a dropped transaction, and keeps the job's lock
\* while it does, leaves flows open.
WaitsForever(i) == poll[i].step = "lost"
IsClosedIfAny(t) == Exists(t) => row[t].status \in Closed
EveryFlowEnds ==
    \/ \E i \in Instances : <>[]WaitsForever(i)
    \/ \A t \in Txns : <>[]IsClosedIfAny(t)

\* What was closed is overwritten only by word of the anchor that comes late,
\* or by a poll that read the row while it was open.
OverwritesOnlyLate ==
    \A t \in Txns :
        row[t].status \in Closed /\ row'[t].status # row[t].status =>
            \/ \E n \in mail : n.txn = t /\ Internal(n.status) = row'[t].status
            \/ \E i \in Instances, s \in Snapshot :
                  s.txn = t /\ s.status \in Open /\ s \in poll[i].on \cup poll[i].todo
ClosedOverwrittenOnlyLate == [][OverwritesOnlyLate]_vars
-----------------------------------------------------------------------------
(***************************************************************************)
(* What every behaviour of the poll and its job keeps.  The job's part:    *)
(* as long as no session was lost, an instance in the middle of a tick is  *)
(* the one that holds the lock.  The poll's part: what a poll has read was *)
(* open then, it stands at a row when it waits for an answer about one,    *)
(* and a flow that is posted has no row yet.                               *)
(***************************************************************************)
LockIsHeld ==
    /\ stage \in [Instances -> Stages] /\ holder \subseteq Instances
    /\ sessionsLost \in BOOLEAN
    /\ ~sessionsLost => \A i \in Instances : stage[i] # "idle" => holder = {i}

Answers == Open \cup Closed \cup Reported \cup {NoStatus}
RowType == [status : Open \cup Closed \cup {NoStatus}, known : BOOLEAN, fresh : BOOLEAN]
PollType == [todo : SUBSET Snapshot, step : Steps, on : SUBSET Snapshot, answer : Answers]
ReadWasOpen ==
    /\ row \in [Txns -> RowType]
    /\ anchor \in [Txns -> Answers]
    /\ poll \in [Instances -> PollType]
    /\ \A i \in Instances : poll[i].step \in {"cancelled", "answered"} => poll[i].on # {}
    /\ \A t \in posted : t \in Txns /\ ~Exists(t)

LEMMA LockSteps ==
    ASSUME LockIsHeld, NEW i \in Instances,
           \/ TryLock(i) \/ BeginJob(i) \/ BeginFails(i) \/ EndJob(i) \/ EndFails(i)
           \/ RecordFailure(i) \/ RecordFailureFails(i) \/ Unlock(i) \/ LoseSession(i)
           \/ CrashInstance(i)
    PROVE  LockIsHeld'
<1> USE DEF LockIsHeld, Stages, Goto
<1>1. CASE TryLock(i)
  BY <1>1 DEF TryLock
<1>2. CASE BeginJob(i)
  BY <1>2 DEF BeginJob
<1>3. CASE BeginFails(i)
  BY <1>3 DEF BeginFails
<1>4. CASE EndJob(i)
  BY <1>4 DEF EndJob
<1>5. CASE EndFails(i)
  BY <1>5 DEF EndFails
<1>6. CASE RecordFailure(i)
  BY <1>6 DEF RecordFailure
<1>7. CASE RecordFailureFails(i)
  BY <1>7 DEF RecordFailureFails
<1>8. CASE Unlock(i)
  BY <1>8 DEF Unlock
<1>9. CASE LoseSession(i)
  BY <1>9 DEF LoseSession
<1>10. CASE CrashInstance(i)
  BY <1>10 DEF CrashInstance
<1> QED
  BY <1>1, <1>2, <1>3, <1>4, <1>5, <1>6, <1>7, <1>8, <1>9, <1>10

LEMMA LockStuttering == LockIsHeld /\ UNCHANGED jobVars => LockIsHeld'
  BY DEF LockIsHeld, jobVars

LEMMA LockKept == LockIsHeld /\ [Next]_vars => LockIsHeld'
<1> SUFFICES ASSUME LockIsHeld, [Next]_vars PROVE LockIsHeld'
  OBVIOUS
<1>1. CASE \E i \in Instances :
             Tick(i) \/ WorkFails(i) \/ TickFails(i) \/ FailureNotRecorded(i) \/ Crash(i)
  <2> PICK i \in Instances :
             Tick(i) \/ WorkFails(i) \/ TickFails(i) \/ FailureNotRecorded(i) \/ Crash(i)
    BY <1>1
  <2>1. \/ UNCHANGED jobVars
        \/ TryLock(i) \/ BeginJob(i) \/ BeginFails(i) \/ EndJob(i) \/ EndFails(i)
        \/ RecordFailure(i) \/ RecordFailureFails(i) \/ Unlock(i) \/ LoseSession(i)
        \/ CrashInstance(i)
    BY DEF Tick, TickGoesOn, Begin, Work, End, WorkFails, TickFails, FailureNotRecorded, Crash
  <2> QED
    BY <2>1, LockSteps, LockStuttering
<1>2. CASE Flows
  BY <1>2, LockStuttering DEF Flows
<1>3. CASE Outside
  BY <1>3, LockStuttering DEF Outside
<1>4. CASE UNCHANGED vars
  BY <1>4, LockStuttering DEF vars
<1> QED
  BY <1>1, <1>2, <1>3, <1>4 DEF Next

\* Whatever crashes and whichever statements fail, and for any number of
\* instances and flows, two instances are at work at once only if a database
\* session was lost under one of them (distributed-lock.ts).
THEOREM OneAtWork == Spec => []OneInstanceAtWork
<1>1. Init => LockIsHeld
  BY DEF Init, JobsInit, LockIsHeld, Stages
<1>2. LockIsHeld => OneInstanceAtWork
  <2> SUFFICES ASSUME LockIsHeld, NEW i \in Instances, NEW j \in Instances,
                      stage[i] = "working", stage[j] = "working", i # j
               PROVE  sessionsLost
    BY DEF OneInstanceAtWork
  <2> QED
    BY DEF LockIsHeld
<1> QED
  BY <1>1, <1>2, LockKept, PTL DEF Spec

-----------------------------------------------------------------------------
LEMMA StoreKeepsType ==
    ASSUME NEW t, NEW status \in Open \cup Closed, NEW known \in BOOLEAN,
           row \in [Txns -> RowType], Store(t, status, known)
    PROVE  row' \in [Txns -> RowType] /\ (\A u \in Txns : ~Exists(u) => ~Exists(u)')
<1>1. CASE ~Exists(t) \/ t \notin Txns
  BY <1>1 DEF Store, Exists
<1>2. CASE Exists(t) /\ t \in Txns
  <2> DEFINE new == [status |-> status, fresh |-> TRUE, known |-> row[t].known \/ known]
  <2>1. row[t] \in RowType
    BY <1>2
  <2>2. (row[t].known \/ known) \in BOOLEAN
    BY <2>1 DEF RowType
  <2>3. new \in RowType
    BY <2>2 DEF RowType
  <2>4. row' = [row EXCEPT ![t] = new]
    BY <1>2 DEF Store
  <2> QED
    BY <1>2, <2>3, <2>4 DEF Exists
<1> QED
  BY <1>1, <1>2

LEMMA InternalIsStored == \A status : Internal(status) \in Open \cup Closed
  BY DEF Internal, Open, Closed

LEMMA TakeKeepsType ==
    ASSUME NEW i \in Instances, NEW s \in poll[i].todo, NEW step \in Steps,
           NEW answer \in Answers, poll \in [Instances -> PollType],
           \A j \in Instances : poll[j].step \in {"cancelled", "answered"} => poll[j].on # {},
           Take(i, s, step, answer) \/ Skip(i, s)
    PROVE  /\ poll' \in [Instances -> PollType]
           /\ \A j \in Instances : poll'[j].step \in {"cancelled", "answered"} => poll'[j].on # {}
<1>1. poll[i] \in PollType /\ s \in Snapshot
  BY DEF PollType
<1>2. CASE Take(i, s, step, answer)
  <2> DEFINE new == [todo |-> poll[i].todo \ {s}, step |-> step, on |-> {s}, answer |-> answer]
  <2>1. new \in PollType
    BY <1>1 DEF PollType
  <2> QED
    BY <1>2, <2>1 DEF Take
<1>3. CASE Skip(i, s)
  <2>1. [poll[i] EXCEPT !.todo = @ \ {s}] \in PollType
    BY <1>1 DEF PollType
  <2>2. poll' = [poll EXCEPT ![i] = [poll[i] EXCEPT !.todo = @ \ {s}]]
    BY <1>3 DEF Skip
  <2>3. poll'[i].step = poll[i].step /\ poll'[i].on = poll[i].on
    BY <2>2, <1>1 DEF PollType
  <2> QED
    BY <2>1, <2>2, <2>3
<1> QED
  BY <1>2, <1>3

LEMMA LeaveKeepsType ==
    ASSUME NEW i \in Instances, poll \in [Instances -> PollType],
           \A j \in Instances : poll[j].step \in {"cancelled", "answered"} => poll[j].on # {},
           NEW todo \in SUBSET Snapshot,
           poll' = [poll EXCEPT ![i] = [NotPolling EXCEPT !.todo = todo]]
    PROVE  /\ poll' \in [Instances -> PollType]
           /\ \A j \in Instances : poll'[j].step \in {"cancelled", "answered"} => poll'[j].on # {}
<1>1. [NotPolling EXCEPT !.todo = todo] \in PollType
  BY DEF NotPolling, PollType, Steps, Answers
<1>2. [NotPolling EXCEPT !.todo = todo].step = "next"
  BY DEF NotPolling
<1> QED
  BY <1>1, <1>2

LEMMA PollWorkKeepsRead ==
    ASSUME ReadWasOpen, NEW i \in Instances, PollStep(i)
    PROVE  ReadWasOpen'
<1> USE DEF ReadWasOpen
<1>1. poll[i] \in PollType
  OBVIOUS
<1>3. posted' = posted /\ anchor' = anchor
  BY DEF PollStep, MarkStalled, CancelExpired, MarkRefunded, QueryAnchor, StoreAnswer, theirs
<1>4. /\ row' \in [Txns -> RowType]
      /\ \A u \in Txns : ~Exists(u) => ~Exists(u)'
  <2>1. CASE MarkStalled(i)
    BY <2>1, StoreKeepsType DEF MarkStalled, Closed
  <2>2. CASE CancelExpired(i) \/ QueryAnchor(i)
    BY <2>2 DEF CancelExpired, QueryAnchor, Exists
  <2>3. CASE MarkRefunded(i)
    BY <2>3, StoreKeepsType DEF MarkRefunded, Closed
  <2>4. CASE StoreAnswer(i)
    <3>1. CASE UNCHANGED row
      BY <3>1 DEF Exists
    <3>2. CASE Store(Current(i).txn, Internal(poll[i].answer), Current(i).txn \in Referenced)
      <4>1. (Current(i).txn \in Referenced) \in BOOLEAN
        OBVIOUS
      <4> QED
        BY <3>2, <4>1, StoreKeepsType, InternalIsStored
    <3> QED
      BY <2>4, <3>1, <3>2 DEF StoreAnswer
  <2> QED
    BY <2>1, <2>2, <2>3, <2>4 DEF PollStep
<1>5. /\ poll' \in [Instances -> PollType]
      /\ \A j \in Instances : poll'[j].step \in {"cancelled", "answered"} => poll'[j].on # {}
  <2>1. CASE MarkStalled(i)
    <3>1. PICK s \in poll[i].todo : Skip(i, s)
      BY <2>1 DEF MarkStalled
    <3> QED
      BY <3>1, TakeKeepsType DEF Steps, Answers
  <2>2. CASE CancelExpired(i)
    <3>1. PICK s \in poll[i].todo : Take(i, s, "cancelled", NoStatus)
      BY <2>2 DEF CancelExpired
    <3> QED
      BY <3>1, TakeKeepsType DEF Steps, Answers
  <2>3. CASE QueryAnchor(i)
    <3>1. PICK s \in poll[i].todo : Take(i, s, "answered", anchor[s.txn]) \/ Skip(i, s)
      BY <2>3 DEF QueryAnchor
    <3>2. anchor[s.txn] \in Answers
      BY <1>1 DEF PollType, Snapshot
    <3> QED
      BY <3>1, <3>2, TakeKeepsType DEF Steps
  <2>4. CASE MarkRefunded(i) \/ StoreAnswer(i)
    BY <2>4, <1>1, LeaveKeepsType DEF MarkRefunded, StoreAnswer, Leave, PollType
  <2> QED
    BY <2>1, <2>2, <2>3, <2>4 DEF PollStep
<1> QED
  BY <1>3, <1>4, <1>5

LEMMA ReadKept == Sep24Assumption /\ ReadWasOpen /\ [Next]_vars => ReadWasOpen'
<1> SUFFICES ASSUME Sep24Assumption, ReadWasOpen, [Next]_vars PROVE ReadWasOpen'
  OBVIOUS
<1> USE DEF ReadWasOpen
<1>1. CASE \E i \in Instances :
             Tick(i) \/ WorkFails(i) \/ TickFails(i) \/ FailureNotRecorded(i) \/ Crash(i)
  <2> PICK i \in Instances :
             Tick(i) \/ WorkFails(i) \/ TickFails(i) \/ FailureNotRecorded(i) \/ Crash(i)
    BY <1>1
  <2>1. CASE UNCHANGED sepVars \/ UNCHANGED <<ours, theirs>>
    BY <2>1 DEF sepVars, ours, theirs, Exists
  <2>2. CASE PollStep(i)
    BY <2>2, PollWorkKeepsRead
  <2>3. CASE StartPoll(i)
    <3> DEFINE read == {[txn |-> t, status |-> row[t].status, known |-> row[t].known] : t \in Due}
    <3>1. read \in SUBSET Snapshot
      BY DEF Due, Snapshot, RowType
    <3>2. poll' = [poll EXCEPT ![i] = [NotPolling EXCEPT !.todo = read]]
      BY <2>3 DEF StartPoll
    <3> HIDE DEF read
    <3> QED
      BY <3>1, <3>2, <2>3, LeaveKeepsType DEF StartPoll, theirs, Exists
  <2>4. CASE UpdateFails(i)
    <3>1. poll[i] \in PollType
      OBVIOUS
    <3>2. CASE Leave(i)
      BY <3>1, <3>2, <2>4, LeaveKeepsType DEF UpdateFails, Leave, PollType, theirs, Exists
    <3>3. CASE \E s \in poll[i].todo : Skip(i, s)
      <4> PICK s \in poll[i].todo : Skip(i, s)
        BY <3>3
      <4> QED
        BY <2>4, TakeKeepsType DEF UpdateFails, Steps, Answers, theirs, Exists
    <3> QED
      BY <2>4, <3>2, <3>3 DEF UpdateFails
  <2>5. CASE CancelDropped(i)
    <3> PICK s \in poll[i].todo : Take(i, s, "lost", NoStatus)
      BY <2>5 DEF CancelDropped
    <3> QED
      BY <2>5, TakeKeepsType DEF CancelDropped, Steps, Answers, theirs, Exists
  <2>6. CASE CrashPoller(i)
    <3>1. NotPolling \in PollType /\ NotPolling.step = "next"
      BY DEF NotPolling, PollType, Steps, Answers
    <3>2. posted' \subseteq posted
      BY <2>6 DEF CrashPoller
    <3> QED
      BY <2>6, <3>1, <3>2 DEF CrashPoller, theirs, Exists
  <2> QED
    BY <2>1, <2>2, <2>3, <2>4, <2>5, <2>6
       DEF Tick, TickGoesOn, Begin, Work, End, WorkFails, TickFails, FailureNotRecorded, Crash
<1>2. CASE Flows
  <2> PICK t \in Txns : PostFlow(t) \/ SaveFlow(t) \/ FlowRefused(t)
    BY <1>2 DEF Flows
  <2>1. \A status \in {"pending_anchor", "error"} :
            [NoRow EXCEPT !.status = status] \in RowType
    BY DEF NoRow, RowType, Open, Closed
  <2>2. "pending_anchor" \in Answers
    BY DEF Answers, Open
  <2>3. CASE PostFlow(t)
    BY <2>2, <2>3 DEF PostFlow, Exists
  <2>4. CASE SaveFlow(t)
    BY <2>1, <2>4 DEF SaveFlow, theirs, Exists
  <2>5. CASE FlowRefused(t)
    BY <2>1, <2>2, <2>5 DEF FlowRefused, Exists
  <2> QED
    BY <2>3, <2>4, <2>5
<1>3. CASE Outside
  <2>1. CASE \E n \in mail : Notified(n)
    <3> PICK n \in mail : Notified(n)
      BY <2>1
    <3>1. (n.txn \in Referenced) \in BOOLEAN
      OBVIOUS
    <3>2. row' \in [Txns -> RowType] /\ (\A u \in Txns : ~Exists(u) => ~Exists(u)')
      BY <3>1, StoreKeepsType, InternalIsStored DEF Notified
    <3> QED
      BY <3>2 DEF Notified
  <2>2. CASE \E n \in mail : NotificationLost(n)
    BY <2>2 DEF NotificationLost, ours, Exists
  <2> SUFFICES ASSUME NEW t \in Txns, AnchorMoves(t) \/ Settle(t) \/ GrowOlder(t) \/ BecomeDue(t)
               PROVE  ReadWasOpen'
    BY <1>3, <2>1, <2>2 DEF Outside
  <2>3. CASE AnchorMoves(t)
    BY <2>3 DEF AnchorMoves, Answers, ours, Exists
  <2>4. CASE Settle(t) \/ GrowOlder(t)
    BY <2>4 DEF Settle, GrowOlder, theirs, Exists
  <2>5. CASE BecomeDue(t)
    <3>1. [row[t] EXCEPT !.fresh = FALSE] \in RowType
      BY DEF RowType
    <3>2. row' = [row EXCEPT ![t] = [row[t] EXCEPT !.fresh = FALSE]]
      BY <2>5 DEF BecomeDue
    <3>3. \A u \in Txns : row'[u].status = row[u].status
      BY <3>2 DEF RowType
    <3> QED
      BY <2>5, <3>1, <3>2, <3>3 DEF BecomeDue, theirs, Exists
  <2> QED
    BY <2>3, <2>4, <2>5
<1>4. CASE UNCHANGED vars
  BY <1>4 DEF vars, sepVars, ours, theirs, Exists
<1> QED
  BY <1>1, <1>2, <1>3, <1>4 DEF Next

LEMMA StoreChangesOne ==
    ASSUME NEW t \in Txns, NEW u, NEW status, NEW known, row \in [Txns -> RowType],
           Store(u, status, known), row'[t].status # row[t].status
    PROVE  t = u /\ row'[t].status = status
  BY DEF Store

LEMMA OverwritingIsLate ==
    Sep24Assumption /\ ReadWasOpen /\ [Next]_vars => OverwritesOnlyLate
<1> SUFFICES ASSUME Sep24Assumption, ReadWasOpen, [Next]_vars, NEW t \in Txns,
                    row[t].status \in Closed, row'[t].status # row[t].status
             PROVE  \/ \E n \in mail : n.txn = t /\ Internal(n.status) = row'[t].status
                    \/ \E i \in Instances, s \in Snapshot :
                          s.txn = t /\ s.status \in Open /\ s \in poll[i].on \cup poll[i].todo
  BY DEF OverwritesOnlyLate
<1> USE DEF ReadWasOpen
<1>1. Exists(t)
  BY DEF Exists, Closed, NoStatus
<1>2. CASE \E i \in Instances : PollStep(i)
  <2> PICK i \in Instances : PollStep(i)
    BY <1>2
  <2>1. poll[i].todo \subseteq Snapshot /\ poll[i].on \subseteq Snapshot
    BY DEF PollType
  <2>2. \A s \in Snapshot : s.status \in Open
    BY DEF Snapshot
  <2>3. CASE MarkStalled(i)
    <3> PICK s \in poll[i].todo : Store(s.txn, "error", FALSE)
      BY <2>3 DEF MarkStalled
    <3>1. s.txn = t
      BY StoreChangesOne
    <3> QED
      BY <3>1, <2>1, <2>2
  <2>4. CASE MarkRefunded(i) \/ StoreAnswer(i)
    <3>1. Current(i) \in poll[i].on
      BY <2>4 DEF MarkRefunded, StoreAnswer, Current
    <3>2. Current(i).txn = t
      BY <2>4, StoreChangesOne DEF MarkRefunded, StoreAnswer
    <3> QED
      BY <3>1, <3>2, <2>1, <2>2
  <2> QED
    BY <2>3, <2>4 DEF PollStep, CancelExpired, QueryAnchor
<1>3. CASE \E n \in mail : Notified(n)
  <2> PICK n \in mail : Notified(n)
    BY <1>3
  <2>1. n.txn = t /\ Internal(n.status) = row'[t].status
    BY StoreChangesOne DEF Notified
  <2> QED
    BY <2>1
<1>4. CASE \E u \in Txns : PostFlow(u) \/ SaveFlow(u) \/ FlowRefused(u) \/ BecomeDue(u)
  <2> PICK u \in Txns : PostFlow(u) \/ SaveFlow(u) \/ FlowRefused(u) \/ BecomeDue(u)
    BY <1>4
  <2>1. CASE u = t
    <3>1. CASE BecomeDue(u)
      <4>1. row' = [row EXCEPT ![t] = [row[t] EXCEPT !.fresh = FALSE]] /\ row[t] \in RowType
        BY <2>1, <3>1 DEF BecomeDue
      <4> QED
        BY <4>1 DEF RowType
    <3> QED
      BY <2>1, <1>1, <3>1 DEF PostFlow, SaveFlow, FlowRefused
  <2>2. CASE u # t
    BY <2>2 DEF PostFlow, SaveFlow, FlowRefused, BecomeDue
  <2> QED
    BY <2>1, <2>2
<1>5. CASE UNCHANGED row
  BY <1>5
<1>6. \/ \E i \in Instances : PollStep(i)
      \/ \E n \in mail : Notified(n)
      \/ \E u \in Txns : PostFlow(u) \/ SaveFlow(u) \/ FlowRefused(u) \/ BecomeDue(u)
      \/ UNCHANGED row
  BY DEF Next, Tick, TickGoesOn, Begin, StartPoll, Work, End, WorkFails, UpdateFails,
         CancelDropped, TickFails, FailureNotRecorded, Crash, CrashPoller, Flows, Outside,
         NotificationLost, AnchorMoves, Settle, GrowOlder, vars, sepVars, ours
<1> QED
  BY <1>2, <1>3, <1>4, <1>5, <1>6

\* A flow that is closed is given another status only by word of the anchor
\* that comes late, or by a poll that had read the row while it was open
\* (sep24-service.ts), however many instances poll and whatever crashes.
THEOREM ClosedFlowsStay == Spec => ClosedOverwrittenOnlyLate
<1>1. Init => ReadWasOpen
  <2> SUFFICES ASSUME Init PROVE ReadWasOpen
    OBVIOUS
  <2>1. NoRow \in RowType /\ NoStatus \in Answers
    BY DEF NoRow, RowType, Answers
  <2>2. NotPolling \in PollType /\ NotPolling.step = "next"
    BY DEF NotPolling, PollType, Steps, Answers
  <2> QED
    BY <2>1, <2>2 DEF Init, Sep24Init, ReadWasOpen
<1>3. ReadWasOpen /\ [Next]_vars => [OverwritesOnlyLate]_vars
  BY Sep24Assumption, OverwritingIsLate
<1> QED
  BY Sep24Assumption, <1>1, <1>3, ReadKept, PTL DEF Spec, ClosedOverwrittenOnlyLate
=============================================================================
