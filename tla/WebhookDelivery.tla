-------------------------- MODULE WebhookDelivery ---------------------------
(***************************************************************************)
(* Outbound webhooks (webhooks/dispatcher.ts over either of the stores of  *)
(* webhooks/store.ts: PostgreSQL, or the memory of the one process). A     *)
(* dispatch records a delivery for each subscriber of an event and         *)
(* attempts it, with retries after a backoff, one delivery after the       *)
(* other. A retry sweep reads the deliveries that are due and attempts     *)
(* them the same way. Dispatches and sweeps run side by side: every await  *)
(* between two statements lets the others go on, and none of the updates   *)
(* looks at what the row holds by then. A process may crash anywhere and a *)
(* statement may fail; rows in PostgreSQL survive.                         *)
(* In memory a sweep holds the rows themselves, and reads each attempt     *)
(* when it comes to it; in PostgreSQL it holds what it read at the start,  *)
(* if it can read it: JSON.parse throws on a payload that the driver has   *)
(* already parsed, as it does with the JSONB of webhook_schema.sql, and    *)
(* the sweep ends there. Nothing in the program calls the sweep: only      *)
(* examples/webhook-integration.ts does.                                   *)
(*                                                                         *)
(* The check that a URL is https never fails for a registered webhook:     *)
(* registerWebhook makes the same check.                                   *)
(***************************************************************************)
EXTENDS Naturals, FiniteSets, SequencesExt, FiniteSetTheorems, TLAPS

CONSTANTS
    Events,
    Subscribers,        \* the webhooks
    Runs,               \* the dispatches and sweeps that run at a time
    MaxRetries,         \* attempts of one dispatch
    Limit,              \* rows one sweep reads
    Stores,             \* which stores: "postgres", "memory"
    ReadBack,           \* the stores whose rows a sweep can read
    Slow,               \* the webhooks that may send their answer for ever
    Leaving,            \* the webhooks that may be unregistered
    MaxAged,            \* bound on the deliveries that grow seven days old
    MaxFailures         \* bound on crashes and failed statements together

ASSUME DeliveryAssumption ==
    /\ IsFiniteSet(Subscribers)
    /\ Stores \subseteq {"postgres", "memory"}
    /\ MaxRetries \in Nat \ {0} /\ Limit \in Nat \ {0}
    /\ ReadBack \subseteq Stores
    /\ Leaving \subseteq Subscribers /\ Slow \subseteq Subscribers
    /\ MaxAged \in Nat /\ MaxFailures \in Nat

VARIABLES
    store,          \* where the rows are
    dispatched,     \* events dispatched so far
    unsubscribed,   \* webhooks that were unregistered
    row,            \* row[d]: status and attempt of delivery d
    order,          \* deliveries in the order they were recorded
    aged,           \* deliveries recorded more than seven days ago
    deadLetters,    \* deadLetters[d]: dead letters written for d
    runs,           \* the state of each dispatch or sweep
    accepted,       \* history: deliveries answered 2xx
    acceptedAgain,  \* history: deliveries answered 2xx more than once
    overlapped,     \* history: deliveries two runs had in hand at once
    failures        \* crashes and failed statements so far

rowVars == <<row, order, deadLetters>>
world == <<store, dispatched, unsubscribed, aged>>
answers == <<accepted, acceptedAgain>>
vars == <<world, rowVars, runs, answers, overlapped, failures>>

Deliveries == Events \X Subscribers
SubscriberOf(d) == d[2]

Statuses == {"none", "pending", "success", "failed"}
Kinds == {"idle", "dispatch", "sweep"}
Steps == {"next", "post", "accepted", "refused", "backoff", "bury"}

Idle == [kind |-> "idle", todo |-> <<>>, step |-> "next"]
Busy(r) == runs[r].kind # "idle"
Current(r) == Head(runs[r].todo).d
Attempt(r) == Head(runs[r].todo).attempt
HasInHand(r, d) == \E i \in DOMAIN runs[r].todo : runs[r].todo[i].d = d

At(r, step) == Busy(r) /\ runs[r].step = step
Goto(r, step) == runs' = [runs EXCEPT ![r].step = step]

\* Mistaken variant: the run ends with its first delivery.
AfterCurrentEnds(r) == Idle
\* On to the next delivery of the run, or its end.
AfterCurrent(r) ==
    IF Len(runs[r].todo) = 1 THEN Idle
    ELSE [runs[r] EXCEPT !.todo = Tail(@), !.step = "next"]

NoRow == [status |-> "none", attempt |-> 0]

Init ==
    /\ store \in Stores
    /\ dispatched = {} /\ unsubscribed = {} /\ aged = {}
    /\ row = [d \in Deliveries |-> NoRow]
    /\ order = <<>>
    /\ deadLetters = [d \in Deliveries |-> 0]
    /\ runs = [r \in Runs |-> Idle]
    /\ accepted = {} /\ acceptedAgain = {} /\ overlapped = {}
    /\ failures = 0

-----------------------------------------------------------------------------
(***************************************************************************)
(* The statements of the store.                                            *)
(***************************************************************************)
GetSubscribers == SetToSeq(Subscribers \ unsubscribed)
GetWebhook(s) == s \notin unsubscribed

RecordDelivery(d) ==
    /\ row' = [row EXCEPT ![d] = [status |-> "pending", attempt |-> 0]]
    /\ order' = Append(order, d)

UpdateDeliveryStatus(d, status, attempt) ==
    row' = [row EXCEPT ![d] = [status |-> status, attempt |-> attempt]]

InsertDeadLetter(d) == deadLetters' = [deadLetters EXCEPT ![d] = @ + 1]

\* Mistaken variant: takes whatever has not succeeded.
IsDueUnlessDelivered(d) == row[d].status \in {"pending", "failed"} /\ d \notin aged
IsDue(d) ==
    /\ \/ row[d].status = "pending"
       \/ row[d].status = "failed" /\ row[d].attempt < MaxRetries
    /\ d \notin aged

\* ORDER BY created_at LIMIT: read[n] is what the first n rows contribute.
GetPendingDeliveries ==
    LET read[n \in 0..Len(order)] ==
            IF n = 0 THEN <<>>
            ELSE IF IsDue(order[n]) /\ Len(read[n - 1]) < Limit
                 THEN Append(read[n - 1], order[n]) ELSE read[n - 1]
    IN  read[Len(order)]

\* A sweep's attempt follows the one in the row it holds.
NextAttempt(d, read) == IF store = "memory" THEN row[d].attempt + 1 ELSE read

-----------------------------------------------------------------------------
(***************************************************************************)
(* A dispatch and a sweep begin by reading what they will work through.    *)
(***************************************************************************)
Dispatch(r, e) ==
    LET subscribers == GetSubscribers IN
    /\ ~Busy(r)
    /\ e \notin dispatched
    /\ dispatched' = dispatched \cup {e}
    /\ runs' = [runs EXCEPT ![r] =
                  IF subscribers = <<>> THEN Idle
                  ELSE [kind |-> "dispatch", step |-> "next",
                        todo |-> [i \in DOMAIN subscribers |->
                                    [d |-> <<e, subscribers[i]>>, attempt |-> 1]]]]
    /\ UNCHANGED <<store, unsubscribed, aged, rowVars, answers, overlapped, failures>>

Sweep(r) ==
    LET due == GetPendingDeliveries IN
    /\ ~Busy(r)
    /\ store \in ReadBack
    /\ due # <<>>
    /\ runs' = [runs EXCEPT ![r] =
                  [kind |-> "sweep", step |-> "next",
                   todo |-> [i \in DOMAIN due |->
                               [d |-> due[i], attempt |-> row[due[i]].attempt + 1]]]]
    /\ overlapped' = overlapped \cup
                       {d \in ToSet(due) : \E q \in Runs \ {r} : HasInHand(q, d)}
    /\ UNCHANGED <<world, rowVars, answers, failures>>

Record(r) ==
    /\ At(r, "next") /\ runs[r].kind = "dispatch"
    /\ RecordDelivery(Current(r))
    /\ Goto(r, "post")
    /\ UNCHANGED <<world, deadLetters, answers, overlapped, failures>>

\* A sweep looks each webhook up and skips those unregistered since.
LookUp(r) ==
    /\ At(r, "next") /\ runs[r].kind = "sweep"
    /\ runs' = [runs EXCEPT ![r] =
                  IF ~GetWebhook(SubscriberOf(Current(r))) THEN AfterCurrent(r)
                  ELSE [@ EXCEPT !.step = "post",
                                 !.todo[1].attempt = NextAttempt(Current(r), Attempt(r))]]
    /\ UNCHANGED <<world, rowVars, answers, overlapped, failures>>

-----------------------------------------------------------------------------
(***************************************************************************)
(* One attempt.  The POST is answered 2xx, or answered otherwise, or times *)
(* out or does not arrive: the last three are one and the same.            *)
(***************************************************************************)
PostAccepted(r) ==
    /\ At(r, "post")
    /\ accepted' = accepted \cup {Current(r)}
    /\ acceptedAgain' = acceptedAgain \cup ({Current(r)} \cap accepted)
    /\ Goto(r, "accepted")
    /\ UNCHANGED <<world, rowVars, overlapped, failures>>

PostRefused(r) ==
    /\ At(r, "post")
    /\ Goto(r, "refused")
    /\ UNCHANGED <<world, rowVars, answers, overlapped, failures>>

UpdateStatus(r, status) == UpdateDeliveryStatus(Current(r), status, Attempt(r))

\* Mistaken variant: forgets to write the outcome.
WriteSuccessForgotten(r) ==
    /\ At(r, "accepted")
    /\ runs' = [runs EXCEPT ![r] = AfterCurrent(r)]
    /\ UNCHANGED <<world, rowVars, answers, overlapped, failures>>

WriteSuccess(r) ==
    /\ At(r, "accepted")
    /\ UpdateStatus(r, "success")
    /\ runs' = [runs EXCEPT ![r] = AfterCurrent(r)]
    /\ UNCHANGED <<world, order, deadLetters, answers, overlapped, failures>>

\* Mistaken variant: counts the attempt just made out.
MayRetryOnceMore(r) == Attempt(r) <= MaxRetries
MayRetry(r) == Attempt(r) < MaxRetries

WriteRetry(r) ==
    /\ At(r, "refused") /\ MayRetry(r)
    /\ UpdateStatus(r, "pending")
    /\ Goto(r, "backoff")
    /\ UNCHANGED <<world, order, deadLetters, answers, overlapped, failures>>

Backoff(r) ==
    /\ At(r, "backoff")
    /\ runs' = [runs EXCEPT ![r].step = "post", ![r].todo[1].attempt = @ + 1]
    /\ UNCHANGED <<world, rowVars, answers, overlapped, failures>>

\* Mistaken variant: the run ends before the dead letter is written.
WriteFailureOnly(r) ==
    /\ At(r, "refused") /\ ~MayRetry(r)
    /\ UpdateStatus(r, "failed")
    /\ runs' = [runs EXCEPT ![r] = AfterCurrent(r)]
    /\ UNCHANGED <<world, order, deadLetters, answers, overlapped, failures>>

WriteFailure(r) ==
    /\ At(r, "refused") /\ ~MayRetry(r)
    /\ UpdateStatus(r, "failed")
    /\ Goto(r, "bury")
    /\ UNCHANGED <<world, order, deadLetters, answers, overlapped, failures>>

SendToDeadLetter(r) ==
    /\ At(r, "bury")
    /\ InsertDeadLetter(Current(r))
    /\ runs' = [runs EXCEPT ![r] = AfterCurrent(r)]
    /\ UNCHANGED <<world, row, order, answers, overlapped, failures>>

(***************************************************************************)
(* A statement fails.  When it is the one that writes a success, the catch *)
(* block takes it for a failed attempt; any other failure leaves           *)
(* attemptDelivery: a dispatch goes on with the next subscriber, a sweep   *)
(* ends.                                                                   *)
(***************************************************************************)
StoreFails(r) ==
    /\ Busy(r) /\ runs[r].step \in {"next", "accepted", "refused", "bury"}
    /\ failures < MaxFailures
    /\ failures' = failures + 1
    /\ \/ /\ runs[r].step = "accepted"
          /\ Goto(r, "refused")
       \/ /\ runs[r].step # "accepted"
          /\ runs' = [runs EXCEPT ![r] =
                        IF runs[r].kind = "dispatch" THEN AfterCurrent(r) ELSE Idle]
    /\ UNCHANGED <<world, rowVars, answers, overlapped>>

-----------------------------------------------------------------------------
\* The process of some of the runs ends, with their timers and answers.
Crash(gone) ==
    /\ store = "postgres"
    /\ gone # {} /\ \A r \in gone : Busy(r)
    /\ failures < MaxFailures
    /\ failures' = failures + 1
    /\ runs' = [r \in Runs |-> IF r \in gone THEN Idle ELSE runs[r]]
    /\ UNCHANGED <<world, rowVars, answers, overlapped>>

\* The one process of a store in memory ends, and everything with it.
CrashInMemory ==
    /\ store = "memory"
    /\ failures < MaxFailures
    /\ failures' = failures + 1
    /\ row' = [d \in Deliveries |-> NoRow] /\ order' = <<>>
    /\ deadLetters' = [d \in Deliveries |-> 0]
    /\ runs' = [r \in Runs |-> Idle]
    /\ unsubscribed' = Subscribers
    /\ UNCHANGED <<store, dispatched, aged, answers, overlapped>>

Unregister(s) ==
    /\ s \in Leaving \ unsubscribed
    /\ unsubscribed' = unsubscribed \cup {s}
    /\ UNCHANGED <<store, dispatched, aged, rowVars, runs, answers, overlapped, failures>>

\* Seven days pass since the next delivery was recorded: PostgreSQL lets it be.
GrowOld ==
    /\ store = "postgres"
    /\ \E i \in DOMAIN order :
        /\ i <= MaxAged
        /\ order[i] \notin aged
        /\ \A j \in 1..(i - 1) : order[j] \in aged
        /\ aged' = aged \cup {order[i]}
        /\ UNCHANGED <<store, dispatched, unsubscribed, rowVars, runs, answers, overlapped, failures>>

RunStep(r) ==
    \/ Record(r) \/ LookUp(r) \/ PostAccepted(r) \/ PostRefused(r)
    \/ WriteSuccess(r) \/ WriteRetry(r) \/ Backoff(r)
    \/ WriteFailure(r) \/ SendToDeadLetter(r)

SomeSweep == \E r \in Runs : Sweep(r)

Next ==
    \/ \E r \in Runs, e \in Events : Dispatch(r, e)
    \/ SomeSweep
    \/ \E r \in Runs : RunStep(r) \/ StoreFails(r)
    \/ \E gone \in SUBSET Runs : Crash(gone)
    \/ CrashInMemory
    \/ \E s \in Subscribers : Unregister(s)
    \/ GrowOld

(***************************************************************************)
(* The event loop comes back to every run: a backoff ends, a statement     *)
(* returns, a POST is answered or times out. The timeout of a POST is of a *)
(* silent socket: an answer that never ends keeps the run for ever. And    *)
(* nothing calls the sweep again and again.                                *)
(***************************************************************************)
Stuck(r) == At(r, "post") /\ SubscriberOf(Current(r)) \in Slow

RunGoesOn(r) == RunStep(r) /\ ~Stuck(r)

Fairness == \A r \in Runs : WF_vars(RunGoesOn(r))

Spec == Init /\ [][Next]_vars /\ Fairness

-----------------------------------------------------------------------------
(***************************************************************************)
(* Every variable keeps its type: in particular no attempt in PostgreSQL   *)
(* ever passes maxRetries, whichever stale attempt a sweep continues from. *)
(* In memory a sweep goes on from whatever another run has written since,  *)
(* and a low attempt written late makes a spent delivery due again.        *)
(***************************************************************************)
Attempts == IF store = "postgres" THEN 0..MaxRetries ELSE Nat

TypeOK ==
    /\ store \in Stores
    /\ dispatched \subseteq Events
    /\ unsubscribed \subseteq Subscribers
    /\ row \in [Deliveries -> [status : Statuses, attempt : Attempts]]
    /\ order \in Seq(Deliveries) /\ aged \subseteq ToSet(order)
    /\ deadLetters \in [Deliveries -> Nat]
    /\ acceptedAgain \subseteq accepted /\ accepted \subseteq Deliveries
    /\ runs \in [Runs -> [kind : Kinds, step : Steps,
                          todo : Seq([d : Deliveries, attempt : Attempts \ {0}])]]
    /\ overlapped \subseteq Deliveries
    /\ failures \in 0..MaxFailures

Recorded(d) == row[d].status # "none"
InNoHands(d) == \A r \in Runs : ~HasInHand(r, d)
OutOfAttempts(d) == row[d].status = "failed" /\ row[d].attempt >= MaxRetries
Settled(d) == row[d].status = "success" \/ OutOfAttempts(d)

(***************************************************************************)
(* A delivery that has succeeded or used up its attempts, and that no run  *)
(* has in hand any more, keeps its row for good: no sweep takes it up.     *)
(* Only the end of the process takes a row in memory away.                 *)
(***************************************************************************)
SettledIsFinal ==
    [][\A d \in Deliveries :
         Settled(d) /\ InNoHands(d) =>
            \/ row'[d] = row[d] /\ InNoHands(d)'
            \/ store = "memory" /\ failures' > failures]_vars

(***************************************************************************)
(* A subscriber accepts a delivery twice, or accepts one that is not       *)
(* recorded as delivered, only because two runs had it in hand at once, or *)
(* a crash or a failed statement lost the outcome.                         *)
(***************************************************************************)
AcceptedOnce ==
    failures = 0 =>
        \A d \in Deliveries \ overlapped :
            /\ d \notin acceptedAgain
            /\ d \in accepted <=>
                 \/ row[d].status = "success"
                 \/ \E r \in Runs : At(r, "accepted") /\ Current(r) = d

(***************************************************************************)
(* The dead letters agree with the rows unless two runs had the delivery   *)
(* in hand at once: at most one, and only of a failed delivery.  Crashes   *)
(* and failed statements can lose a dead letter, never double it.          *)
(***************************************************************************)
DeadLettersMatchRows ==
    \A d \in Deliveries \ overlapped :
        /\ deadLetters[d] <= 1
        /\ deadLetters[d] = 1 => OutOfAttempts(d)
        /\ OutOfAttempts(d) /\ InNoHands(d) /\ failures = 0
             => deadLetters[d] = 1

(***************************************************************************)
(* Whatever a dispatch has in hand is settled for good in the end, and a   *)
(* dead letter written if it failed, however the subscribers before it     *)
(* answer and whatever overlaps it, unregistration included. Excepted are  *)
(* those at or behind a subscriber whose answer never ends; and a crash or *)
(* a failed statement, after which a delivery may stay pending.            *)
(***************************************************************************)
Ended(d) ==
    \/ Settled(d) /\ (OutOfAttempts(d) => deadLetters[d] > 0)
    \/ \E r \in Runs : Stuck(r) /\ HasInHand(r, d)
    \/ failures > 0

EveryDeliveryEnds ==
    \A d \in Deliveries : [](~InNoHands(d) => <>[]Ended(d))

-----------------------------------------------------------------------------
(***************************************************************************)
(* Proofs, for any number of events, webhooks, runs, attempts and rows     *)
(* that a sweep reads. Three inductive invariants lead to them. BaseInv:   *)
(* types, and whatever is recorded or in hand belongs to an event already  *)
(* dispatched. SentInv: no delivery is recorded twice. OutcomeInv: a       *)
(* delivery that two runs never had in hand at once is in one hand at      *)
(* most, and its row, its answers and its dead letters agree with where    *)
(* that hand is.                                                           *)
(***************************************************************************)

(***************************************************************************)
(* What a dispatch and a sweep read: different webhooks, and different     *)
(* deliveries that are due.                                                *)
(***************************************************************************)
DifferentEntries(s) == \A i, j \in DOMAIN s : s[i] = s[j] => i = j

LEMMA SetInductionOnNat ==
    ASSUME NEW T, 0 \in T, \A n \in Nat : n \in T => n + 1 \in T
    PROVE  \A n \in Nat : n \in T
<1> SUFFICES ASSUME Nat \ T # {} PROVE FALSE
  OBVIOUS
<1>1. PICK x \in Nat \ T : \A y \in Nat \ T : ~(<<y, x>> \in OpToRel(<, Nat))
  <2>1. (Nat \ T) \subseteq Nat
    OBVIOUS
  <2> QED
    BY <2>1, WFMin, NatLessThanWellFounded
<1>2. \A y \in Nat \ T : ~(y < x)
  BY <1>1 DEF OpToRel
<1>3. x # 0 /\ x - 1 \in Nat /\ x - 1 < x
  OBVIOUS
<1>4. x - 1 \in T
  BY <1>2, <1>3
<1> QED
  BY <1>3, <1>4

LEMMA SubscribersAreDifferent ==
    /\ GetSubscribers \in Seq(Subscribers)
    /\ DifferentEntries(GetSubscribers)
<1> DEFINE S == Subscribers \ unsubscribed
<1>1. IsFiniteSet(S)
  BY DeliveryAssumption, FS_Subset
<1>2. PICK n \in Nat : ExistsBijection(1..n, S)
  BY <1>1, FS_NatBijection
<1>3. Cardinality(S) = n
  BY <1>2, FS_CountingElements
<1>4. \E f \in [1..Cardinality(S) -> S] : IsInjective(f)
  BY <1>2, <1>3 DEF ExistsBijection, Bijection, Injection, IsInjective
<1>5. GetSubscribers \in [1..n -> S] /\ IsInjective(GetSubscribers)
  BY <1>3, <1>4 DEF GetSubscribers, SetToSeq
<1> QED
  BY <1>5 DEF DifferentEntries, IsInjective

\* read is the recursive function of GetPendingDeliveries on the first m rows.
Reads(read, m) ==
    read = [n \in 0..m |->
              IF n = 0 THEN <<>>
              ELSE IF IsDue(order[n]) /\ Len(read[n - 1]) < Limit
                   THEN Append(read[n - 1], order[n]) ELSE read[n - 1]]

LEMMA ReadsExists == \A m \in Nat : \E read : Reads(read, m)
<1> DEFINE T == {m \in Nat : \E read : Reads(read, m)}
<1>1. 0 \in T
  <2>1. Reads([n \in 0..0 |-> <<>>], 0)
    BY DEF Reads
  <2> QED
    BY <2>1
<1>2. ASSUME NEW m \in Nat, m \in T
      PROVE  m + 1 \in T
  <2>1. PICK read : Reads(read, m)
    BY <1>2
  <2> DEFINE Next1(r, n) == IF IsDue(order[n]) /\ Len(r) < Limit THEN Append(r, order[n]) ELSE r
             more == [n \in 0..(m + 1) |-> IF n <= m THEN read[n] ELSE Next1(read[m], m + 1)]
  <2>2. \A n \in 0..m : read[n] = IF n = 0 THEN <<>> ELSE Next1(read[n - 1], n)
    BY <2>1 DEF Reads
  <2>3. ASSUME NEW n \in 0..(m + 1)
        PROVE  more[n] = IF n = 0 THEN <<>> ELSE Next1(more[n - 1], n)
    <3> HIDE DEF Next1
    <3>1. CASE n <= m
      <4>1. more[n] = read[n] /\ (n # 0 => more[n - 1] = read[n - 1])
        BY <3>1
      <4> QED
        BY <4>1, <3>1, <2>2
    <3>2. CASE n = m + 1
      BY <3>2
    <3> QED
      BY <3>1, <3>2
  <2>4. Reads(more, m + 1)
    BY <2>3 DEF Reads
  <2> HIDE DEF more
  <2> QED
    BY <2>4
<1> HIDE DEF T
<1>3. \A m \in Nat : m \in T
  BY <1>1, <1>2, SetInductionOnNat
<1> QED
  BY <1>3 DEF T

Ordered == {order[i] : i \in DOMAIN order}

LEMMA PendingAreDue ==
    ASSUME order \in Seq(Deliveries)
    PROVE  /\ GetPendingDeliveries \in Seq(Deliveries)
           /\ DifferentEntries(order) => DifferentEntries(GetPendingDeliveries)
           /\ \A i \in DOMAIN GetPendingDeliveries :
                 IsDue(GetPendingDeliveries[i]) /\ GetPendingDeliveries[i] \in Ordered
<1> DEFINE m == Len(order)
           read == CHOOSE r : Reads(r, m)
<1>1. m \in Nat /\ Reads(read, m)
  BY ReadsExists
<1>2. GetPendingDeliveries = read[m]
  BY DEF GetPendingDeliveries, Reads
<1> DEFINE Fine(s, n) ==
             /\ s \in Seq(Deliveries)
             /\ DifferentEntries(order) => DifferentEntries(s)
             /\ \A i \in DOMAIN s : IsDue(s[i]) /\ \E k \in 1..n : s[i] = order[k]
           T == {n \in Nat : n <= m => Fine(read[n], n)}
<1> HIDE DEF read
<1>3. read[0] = <<>>
  BY <1>1 DEF Reads
<1>4. 0 \in T
  <2>1. /\ <<>> \in Seq(Deliveries) /\ DOMAIN <<>> = {}
        /\ DifferentEntries(<<>>)
    BY DEF DifferentEntries
  <2>2. Fine(<<>>, 0)
    BY <2>1
  <2> HIDE DEF Fine
  <2> QED
    BY <1>3, <2>2
<1>5. ASSUME NEW n \in Nat, n \in T, n + 1 <= m
      PROVE  Fine(read[n + 1], n + 1)
  <2>1. Fine(read[n], n) /\ n + 1 \in 1..m
    BY <1>1, <1>5
  <2>2. \/ read[n + 1] = read[n]
        \/ IsDue(order[n + 1]) /\ read[n + 1] = Append(read[n], order[n + 1])
    <3>1. (n + 1) - 1 = n /\ n + 1 # 0 /\ n + 1 \in 0..m
      BY <2>1
    <3> QED
      BY <1>1, <3>1 DEF Reads
  <2>3. CASE read[n + 1] = read[n]
    BY <2>1, <2>3
  <2>4. CASE IsDue(order[n + 1]) /\ read[n + 1] = Append(read[n], order[n + 1])
    <3> DEFINE s == read[n]
    <3>1. /\ order[n + 1] \in Deliveries
          /\ DifferentEntries(order) => \A k \in 1..n : order[k] # order[n + 1]
      BY <2>1, <1>1 DEF DifferentEntries
    <3>2. Append(s, order[n + 1]) \in Seq(Deliveries)
      BY <2>1, <3>1
    <3>3. /\ DOMAIN Append(s, order[n + 1]) = 1..(Len(s) + 1)
          /\ DOMAIN s = 1..Len(s)
          /\ \A i \in 1..Len(s) : Append(s, order[n + 1])[i] = s[i]
          /\ Append(s, order[n + 1])[Len(s) + 1] = order[n + 1]
      BY <2>1, <3>1
    <3>4. DifferentEntries(order) => \A i \in 1..Len(s) : s[i] # order[n + 1]
      BY <2>1, <3>1, <3>3
    <3> HIDE DEF s
    <3>5. DifferentEntries(order) => DifferentEntries(Append(s, order[n + 1]))
      BY <2>1, <3>3, <3>4 DEF DifferentEntries, s
    <3>6. \A i \in DOMAIN Append(s, order[n + 1]) :
             /\ IsDue(Append(s, order[n + 1])[i])
             /\ \E k \in 1..(n + 1) : Append(s, order[n + 1])[i] = order[k]
      BY <2>1, <2>4, <3>3 DEF s
    <3> QED
      BY <2>4, <3>2, <3>5, <3>6 DEF s
  <2> QED
    BY <2>2, <2>3, <2>4
<1>6. \A n \in Nat : n \in T
  <2>1. \A n \in Nat : n \in T => n + 1 \in T
    BY <1>1, <1>5
  <2> HIDE DEF T
  <2> QED
    BY <1>4, <2>1, SetInductionOnNat
<1>7. Fine(read[m], m)
  BY <1>1, <1>6
<1> QED
  BY <1>2, <1>7 DEF Ordered
-----------------------------------------------------------------------------
(***************************************************************************)
(* What each step does to what the runs have in hand: only a dispatch and  *)
(* a sweep take deliveries in hand; any other step keeps them, drops the   *)
(* first, or drops them all.                                               *)
(***************************************************************************)
RunType == [kind : Kinds, step : Steps, todo : Seq([d : Deliveries, attempt : Nat])]

RunsInv ==
    /\ runs \in [Runs -> RunType]
    /\ \A r \in Runs : runs[r].kind = "idle" <=> runs[r].todo = <<>>

RowsInv ==
    /\ row \in [Deliveries -> [status : Statuses, attempt : Nat]]
    /\ order \in Seq(Deliveries)
    /\ deadLetters \in [Deliveries -> Nat]
    /\ dispatched \subseteq Events
    /\ failures \in Nat

\* Each entry of x.todo was one of y.todo: the same one, or the one after.
Follows(x, y) ==
    /\ x.kind = y.kind \/ x.todo = <<>>
    /\ \/ \A j \in DOMAIN x.todo : j \in DOMAIN y.todo /\ x.todo[j].d = y.todo[j].d
       \/ \A j \in DOMAIN x.todo : j + 1 \in DOMAIN y.todo /\ x.todo[j].d = y.todo[j + 1].d

GoodRun(x) == x \in RunType /\ (x.kind = "idle" <=> x.todo = <<>>)

LEMMA RunsAreGood == RunsInv => \A r \in Runs : GoodRun(runs[r])
  BY DEF RunsInv, GoodRun

LEMMA IdleFollows == GoodRun(Idle) /\ \A y : Follows(Idle, y)
<1>1. <<>> \in Seq([d : Deliveries, attempt : Nat]) /\ DOMAIN <<>> = {}
  OBVIOUS
<1>2. Idle \in RunType /\ Idle.kind = "idle" /\ Idle.todo = <<>>
  BY <1>1 DEF Idle, RunType, Kinds, Steps
<1> QED
  BY <1>1, <1>2 DEF GoodRun, Follows

LEMMA RunFollowsItself == \A y : Follows(y, y)
  BY DEF Follows

LEMMA SameHandFollows ==
    \A y, s : GoodRun(y) /\ s \in Steps =>
        GoodRun([y EXCEPT !.step = s]) /\ Follows([y EXCEPT !.step = s], y)
<1> SUFFICES ASSUME NEW y, NEW s \in Steps, GoodRun(y)
             PROVE  GoodRun([y EXCEPT !.step = s]) /\ Follows([y EXCEPT !.step = s], y)
  OBVIOUS
<1> DEFINE x == [y EXCEPT !.step = s]
<1>1. x \in RunType /\ x.todo = y.todo /\ x.kind = y.kind
  BY DEF GoodRun, RunType
<1> HIDE DEF x
<1>2. GoodRun(x) /\ Follows(x, y)
  BY <1>1 DEF GoodRun, Follows
<1> QED
  BY <1>2 DEF x

LEMMA NextAttemptFollows ==
    \A y, s, a : GoodRun(y) /\ y.todo # <<>> /\ s \in Steps /\ a \in Nat =>
        LET x == [y EXCEPT !.step = s, !.todo[1].attempt = a]
        IN  GoodRun(x) /\ Follows(x, y)
<1> SUFFICES ASSUME NEW y, NEW s \in Steps, NEW a \in Nat, GoodRun(y), y.todo # <<>>
             PROVE  /\ GoodRun([y EXCEPT !.step = s, !.todo[1].attempt = a])
                    /\ Follows([y EXCEPT !.step = s, !.todo[1].attempt = a], y)
  OBVIOUS
<1> DEFINE x == [y EXCEPT !.step = s, !.todo[1].attempt = a]
           E == [d : Deliveries, attempt : Nat]
           todo == [y.todo EXCEPT ![1].attempt = a]
<1>1. y \in RunType /\ y.todo \in Seq(E) /\ 1 \in DOMAIN y.todo
  BY DEF GoodRun, RunType
<1>2. /\ todo \in Seq(E) /\ DOMAIN todo = DOMAIN y.todo
      /\ \A j \in DOMAIN todo : todo[j].d = y.todo[j].d
  <2>1. y.todo[1] \in E
    <3> HIDE DEF E
    <3> QED
      BY <1>1
  <2>2. [y.todo[1] EXCEPT !.attempt = a] \in E /\ [y.todo[1] EXCEPT !.attempt = a].d = y.todo[1].d
    BY <2>1
  <2> QED
    BY <1>1, <2>2
<1>3. x.kind = y.kind /\ x.todo = todo /\ x \in RunType
  BY <1>1, <1>2 DEF RunType
<1>4. todo # <<>>
  BY <1>1, <1>2
<1> HIDE DEF x, todo
<1>5. GoodRun(x) /\ Follows(x, y)
  BY <1>2, <1>3, <1>4 DEF GoodRun, Follows
<1> QED
  BY <1>5 DEF x

LEMMA AfterFollows ==
    RunsInv => \A r \in Runs : Busy(r) =>
        GoodRun(AfterCurrent(r)) /\ Follows(AfterCurrent(r), runs[r])
<1> SUFFICES ASSUME RunsInv, NEW r \in Runs, Busy(r)
             PROVE  GoodRun(AfterCurrent(r)) /\ Follows(AfterCurrent(r), runs[r])
  OBVIOUS
<1> DEFINE y == runs[r]
           E == [d : Deliveries, attempt : Nat]
<1>1. y \in RunType /\ y.todo \in Seq(E) /\ y.todo # <<>> /\ y.kind # "idle"
  BY DEF RunsInv, RunType, Busy
<1>2. CASE Len(y.todo) = 1
  BY <1>2, IdleFollows DEF AfterCurrent
<1>3. CASE Len(y.todo) # 1
  <2> DEFINE x == [y EXCEPT !.todo = Tail(@), !.step = "next"]
  <2>1. AfterCurrent(r) = x
    BY <1>3 DEF AfterCurrent
  <2>2. /\ Tail(y.todo) \in Seq(E) /\ Tail(y.todo) # <<>>
        /\ \A j \in DOMAIN Tail(y.todo) :
              j + 1 \in DOMAIN y.todo /\ Tail(y.todo)[j] = y.todo[j + 1]
    <3> HIDE DEF E, y
    <3>1. PICK t \in Seq(E) : t = y.todo /\ t # <<>> /\ Len(t) # 1
      BY <1>1, <1>3
    <3>2. Tail(t) \in Seq(E) /\ Len(Tail(t)) = Len(t) - 1 /\ Len(t) - 1 \in Nat \ {0}
      BY <3>1
    <3>3. \A j \in DOMAIN Tail(t) : j + 1 \in DOMAIN t /\ Tail(t)[j] = t[j + 1]
      BY <3>1, <3>2
    <3> QED
      BY <3>1, <3>2, <3>3
  <2>3. x \in RunType /\ x.todo = Tail(y.todo) /\ x.kind = y.kind
    BY <1>1, <2>2 DEF RunType, Steps
  <2> HIDE DEF x, y
  <2>4. GoodRun(x) /\ Follows(x, y)
    BY <1>1, <2>2, <2>3 DEF GoodRun, Follows
  <2> QED
    BY <2>1, <2>4 DEF y
<1> QED
  BY <1>2, <1>3

HandsFollow ==
    /\ runs' \in [Runs -> RunType]
    /\ \A q \in Runs : GoodRun(runs'[q]) /\ Follows(runs'[q], runs[q])

LEMMA OneRunFollows ==
    ASSUME RunsInv, NEW r \in Runs, NEW x, GoodRun(x), Follows(x, runs[r]),
           runs' = [runs EXCEPT ![r] = x]
    PROVE  HandsFollow
<1>1. runs \in [Runs -> RunType] /\ x \in RunType
  BY DEF RunsInv, GoodRun
<1>2. runs' \in [Runs -> RunType] /\ runs'[r] = x
  BY <1>1
<1>3. \A q \in Runs \ {r} : runs'[q] = runs[q]
  BY <1>1
<1>4. \A q \in Runs : GoodRun(runs'[q]) /\ Follows(runs'[q], runs[q])
  BY <1>2, <1>3, RunsAreGood, RunFollowsItself
<1> QED
  BY <1>2, <1>4 DEF HandsFollow

LEMMA SameRunsFollow == RunsInv /\ UNCHANGED runs => HandsFollow
  BY RunsAreGood, RunFollowsItself DEF HandsFollow, RunsInv

LEMMA GotoFollows ==
    ASSUME RunsInv, NEW r \in Runs, NEW s \in Steps, Goto(r, s)
    PROVE  HandsFollow
<1>1. GoodRun(runs[r])
  BY RunsAreGood
<1>2. GoodRun([runs[r] EXCEPT !.step = s]) /\ Follows([runs[r] EXCEPT !.step = s], runs[r])
  BY <1>1, SameHandFollows
<1>3. runs' = [runs EXCEPT ![r] = [runs[r] EXCEPT !.step = s]]
  BY DEF Goto
<1> QED
  BY <1>2, <1>3, OneRunFollows

LEMMA AttemptType ==
    ASSUME RunsInv, NEW r \in Runs, Busy(r)
    PROVE  /\ runs[r].todo # <<>> /\ 1 \in DOMAIN runs[r].todo
           /\ Current(r) \in Deliveries /\ Attempt(r) \in Nat
           /\ Current(r) = runs[r].todo[1].d
           /\ Attempt(r) = runs[r].todo[1].attempt
           /\ HasInHand(r, Current(r))
<1> DEFINE E == [d : Deliveries, attempt : Nat]
<1>1. runs[r].todo \in Seq(E) /\ runs[r].todo # <<>>
  BY DEF RunsInv, RunType, Busy
<1>2. 1 \in DOMAIN runs[r].todo /\ Head(runs[r].todo) = runs[r].todo[1] /\ runs[r].todo[1] \in E
  <2> HIDE DEF E
  <2> QED
    BY <1>1
<1> QED
  BY <1>1, <1>2 DEF Current, Attempt, HasInHand

LEMMA RunStepFollows ==
    ASSUME RunsInv, RowsInv, NEW r \in Runs, RunStep(r) \/ StoreFails(r)
    PROVE  HandsFollow
<1>1. Busy(r)
  BY DEF RunStep, StoreFails, Record, LookUp, PostAccepted, PostRefused,
         WriteSuccess, WriteRetry, Backoff, WriteFailure, SendToDeadLetter, At
<1>2. GoodRun(runs[r]) /\ GoodRun(AfterCurrent(r)) /\ Follows(AfterCurrent(r), runs[r])
  BY <1>1, RunsAreGood, AfterFollows
<1>3. ASSUME runs' = [runs EXCEPT ![r] = AfterCurrent(r)]
      PROVE  HandsFollow
  BY <1>2, <1>3, OneRunFollows
<1>4. ASSUME NEW a \in Nat,
             runs' = [runs EXCEPT ![r] = [runs[r] EXCEPT !.step = "post", !.todo[1].attempt = a]]
      PROVE  HandsFollow
  <2>1. runs[r].todo # <<>> /\ "post" \in Steps
    BY <1>1, AttemptType DEF Steps
  <2> QED
    BY <1>2, <1>4, <2>1, NextAttemptFollows, OneRunFollows
<1>5. runs[r].todo[1].attempt \in Nat /\ Attempt(r) \in Nat /\ Current(r) \in Deliveries
  BY <1>1, AttemptType
<1>6. CASE LookUp(r)
  <2>1. CASE ~GetWebhook(SubscriberOf(Current(r)))
    BY <1>6, <1>3, <2>1 DEF LookUp
  <2>2. CASE GetWebhook(SubscriberOf(Current(r)))
    <3> DEFINE a == NextAttempt(Current(r), Attempt(r))
    <3>1. a \in Nat
      BY <1>5 DEF NextAttempt, RowsInv
    <3>2. runs' = [runs EXCEPT ![r] = [runs[r] EXCEPT !.step = "post", !.todo[1].attempt = a]]
      BY <1>6, <2>2 DEF LookUp
    <3> HIDE DEF a
    <3> QED
      BY <1>4, <3>1, <3>2
  <2> QED
    BY <2>1, <2>2
<1>7. CASE Backoff(r)
  <2> DEFINE a == runs[r].todo[1].attempt + 1
  <2>1. a \in Nat
    BY <1>5
  <2>2. runs' = [runs EXCEPT ![r] = [runs[r] EXCEPT !.step = "post", !.todo[1].attempt = a]]
    BY <1>7 DEF Backoff
  <2> HIDE DEF a
  <2> QED
    BY <1>4, <2>1, <2>2
<1>8. CASE Record(r) \/ PostAccepted(r) \/ PostRefused(r) \/ WriteRetry(r) \/ WriteFailure(r)
  BY <1>8, GotoFollows DEF Record, PostAccepted, PostRefused, WriteRetry, WriteFailure, Steps
<1>9. CASE WriteSuccess(r) \/ SendToDeadLetter(r)
  BY <1>9, <1>3 DEF WriteSuccess, SendToDeadLetter
<1>10. CASE StoreFails(r)
  <2>1. CASE Goto(r, "refused")
    BY <2>1, GotoFollows DEF Steps
  <2>2. CASE runs' = [runs EXCEPT ![r] = Idle]
    BY <2>2, IdleFollows, OneRunFollows
  <2>3. \/ Goto(r, "refused") \/ runs' = [runs EXCEPT ![r] = Idle]
        \/ runs' = [runs EXCEPT ![r] = AfterCurrent(r)]
    BY <1>10 DEF StoreFails
  <2> QED
    BY <2>1, <2>2, <2>3, <1>3
<1> QED
  BY <1>6, <1>7, <1>8, <1>9, <1>10 DEF RunStep

LEMMA CrashFollows ==
    ASSUME RunsInv, CrashInMemory \/ \E gone \in SUBSET Runs : Crash(gone)
    PROVE  HandsFollow
<1>1. \A r \in Runs : GoodRun(runs[r]) /\ GoodRun(Idle)
  BY RunsAreGood, IdleFollows
<1>2. \A r \in Runs : runs'[r] = Idle \/ runs'[r] = runs[r]
  BY DEF Crash, CrashInMemory
<1>3. runs' \in [Runs -> RunType]
  BY <1>1 DEF Crash, CrashInMemory, GoodRun
<1> QED
  BY <1>1, <1>2, <1>3, IdleFollows, RunFollowsItself DEF HandsFollow

\* The deliveries of x are different ones.
Distinct(x) == \A i, j \in DOMAIN x.todo : x.todo[i].d = x.todo[j].d => i = j

Takes(r) ==
    /\ runs' \in [Runs -> RunType]
    /\ GoodRun(runs'[r])
    /\ \A q \in Runs \ {r} : runs'[q] = runs[q]

LEMMA DispatchTakes ==
    ASSUME RunsInv, NEW r \in Runs, NEW e \in Events, Dispatch(r, e)
    PROVE  /\ Takes(r)
           /\ runs'[r].step = "next"
           /\ Distinct(runs'[r])
           /\ \A i \in DOMAIN runs'[r].todo : runs'[r].todo[i].d \in {e} \X Subscribers
<1> DEFINE S == GetSubscribers
           x == runs'[r]
           E == [d : Deliveries, attempt : Nat]
           todo == [i \in DOMAIN S |-> [d |-> <<e, S[i]>>, attempt |-> 1]]
<1>1. S \in Seq(Subscribers) /\ DifferentEntries(S)
  BY SubscribersAreDifferent
<1>2. x = IF S = <<>> THEN Idle ELSE [kind |-> "dispatch", step |-> "next", todo |-> todo]
  BY DEF Dispatch, RunsInv
<1>3. /\ \A i \in DOMAIN S : S[i] \in Subscribers
      /\ \A i \in DOMAIN S : [d |-> <<e, S[i]>>, attempt |-> 1] \in E
      /\ todo \in Seq(E) /\ DOMAIN todo = DOMAIN S /\ (S # <<>> => todo # <<>>)
  <2> HIDE DEF S
  <2>1. \A i \in DOMAIN S : S[i] \in Subscribers
    BY <1>1
  <2>2. \A i \in DOMAIN S : [d |-> <<e, S[i]>>, attempt |-> 1] \in E
    BY <2>1 DEF Deliveries
  <2>3. DOMAIN S = 1..Len(S) /\ Len(S) \in Nat /\ (S # <<>> => Len(S) # 0)
    BY <1>1
  <2>4. todo \in Seq(E) /\ DOMAIN todo = DOMAIN S
    <3> HIDE DEF E
    <3> QED
      BY <2>2, <2>3
  <2> HIDE DEF E, todo
  <2>5. S # <<>> => todo # <<>>
    BY <2>3, <2>4
  <2> QED
    BY <2>1, <2>2, <2>4, <2>5
<1>4. GoodRun(x)
  <2>1. CASE S = <<>>
    BY <2>1, <1>2, IdleFollows
  <2>2. CASE S # <<>>
    <3> HIDE DEF S, todo
    <3> QED
      BY <2>2, <1>2, <1>3 DEF GoodRun, RunType, Kinds, Steps
  <2> QED
    BY <2>1, <2>2
<1>5. runs' \in [Runs -> RunType] /\ \A q \in Runs \ {r} : runs'[q] = runs[q]
  <2>1. x \in RunType
    BY <1>4 DEF GoodRun
  <2> QED
    BY <2>1 DEF Dispatch, RunsInv
<1>6. x.todo = <<>> \/ x.todo = todo
  BY <1>2 DEF Idle
<1>7. x.step = "next"
  BY <1>2 DEF Idle
<1> HIDE DEF x, S
<1>8. Distinct(x) /\ \A i \in DOMAIN x.todo : x.todo[i].d \in {e} \X Subscribers
  <2>1. CASE x.todo = <<>>
    <3>1. DOMAIN <<>> = {}
      OBVIOUS
    <3> QED
      BY <2>1, <3>1 DEF Distinct
  <2>2. CASE x.todo = todo
    <3>1. \A i \in DOMAIN todo : todo[i].d = <<e, S[i]>>
      BY <1>3
    <3>2. /\ \A i \in DOMAIN x.todo : i \in DOMAIN S /\ x.todo[i].d = <<e, S[i]>>
          /\ \A i \in DOMAIN S : S[i] \in Subscribers
      BY <2>2, <3>1, <1>3
    <3>3. \A i \in DOMAIN x.todo : x.todo[i].d \in {e} \X Subscribers
      <4>1. \A s \in Subscribers : <<e, s>> \in {e} \X Subscribers
        OBVIOUS
      <4> DEFINE new == {e} \X Subscribers
      <4> HIDE DEF new
      <4>2. \A s \in Subscribers : <<e, s>> \in new
        BY <4>1 DEF new
      <4>3. \A i \in DOMAIN x.todo : x.todo[i].d \in new
        BY <3>2, <4>2
      <4> QED
        BY <4>3 DEF new
    <3>4. Distinct(x)
      BY <3>2, <1>1 DEF Distinct, DifferentEntries
    <3> QED
      BY <3>3, <3>4
  <2> QED
    BY <1>6, <2>1, <2>2
<1> QED
  BY <1>4, <1>5, <1>7, <1>8 DEF Takes, x

LEMMA SweepTakes ==
    ASSUME RunsInv, RowsInv, NEW r \in Runs, Sweep(r)
    PROVE  /\ Takes(r)
           /\ runs'[r].kind = "sweep" /\ runs'[r].step = "next"
           /\ DifferentEntries(order) => Distinct(runs'[r])
           /\ \A i \in DOMAIN runs'[r].todo :
                 /\ runs'[r].todo[i].d \in Ordered
                 /\ IsDue(runs'[r].todo[i].d)
                 /\ \A q \in Runs \ {r} : HasInHand(q, runs'[r].todo[i].d) =>
                       runs'[r].todo[i].d \in overlapped'
<1> DEFINE due == GetPendingDeliveries
           x == runs'[r]
           E == [d : Deliveries, attempt : Nat]
           todo == [i \in DOMAIN due |-> [d |-> due[i], attempt |-> row[due[i]].attempt + 1]]
<1>1. /\ due \in Seq(Deliveries) /\ due # <<>>
      /\ DifferentEntries(order) => DifferentEntries(due)
      /\ \A i \in DOMAIN due : IsDue(due[i]) /\ due[i] \in Ordered
  BY PendingAreDue DEF RowsInv, Sweep
<1>2. x = [kind |-> "sweep", step |-> "next", todo |-> todo]
  BY DEF Sweep, RunsInv
<1>3. overlapped' = overlapped \cup {d \in ToSet(due) : \E q \in Runs \ {r} : HasInHand(q, d)}
  BY DEF Sweep
<1>4. todo \in Seq(E) /\ DOMAIN todo = DOMAIN due /\ todo # <<>>
  <2> HIDE DEF due
  <2>1. \A i \in DOMAIN due : due[i] \in Deliveries
    BY <1>1
  <2>2. \A i \in DOMAIN due : [d |-> due[i], attempt |-> row[due[i]].attempt + 1] \in E
    BY <2>1 DEF RowsInv
  <2>3. DOMAIN due = 1..Len(due) /\ Len(due) \in Nat /\ Len(due) # 0
    BY <1>1
  <2>4. todo \in Seq(E) /\ DOMAIN todo = DOMAIN due
    <3> HIDE DEF E
    <3> QED
      BY <2>2, <2>3
  <2> QED
    BY <2>3, <2>4
<1>5. GoodRun(x)
  <2> HIDE DEF todo
  <2> QED
    BY <1>2, <1>4 DEF GoodRun, RunType, Kinds, Steps
<1>6. runs' \in [Runs -> RunType] /\ \A q \in Runs \ {r} : runs'[q] = runs[q]
  <2>1. x \in RunType
    BY <1>5 DEF GoodRun
  <2> QED
    BY <2>1 DEF Sweep, RunsInv
<1> HIDE DEF due
<1>7. \A i \in DOMAIN todo : todo[i].d = due[i]
  BY <1>4
<1>8. \A i \in DOMAIN due : due[i] \in ToSet(due)
  BY <1>1 DEF ToSet
<1>9. x.todo = todo /\ x.kind = "sweep" /\ x.step = "next"
  BY <1>2
<1> HIDE DEF todo, x
<1>10. /\ DifferentEntries(order) => Distinct(x)
       /\ \A i \in DOMAIN x.todo :
                 /\ x.todo[i].d \in Ordered
                 /\ IsDue(x.todo[i].d)
                 /\ \A q \in Runs \ {r} : HasInHand(q, x.todo[i].d) => x.todo[i].d \in overlapped'
  BY <1>1, <1>3, <1>4, <1>7, <1>8, <1>9 DEF Distinct, DifferentEntries
<1> QED
  BY <1>5, <1>6, <1>9, <1>10 DEF Takes, x

(***************************************************************************)
(* A step of a run touches the row, the dead letters and the answers of    *)
(* the delivery at the head of its hand, and of no other.                  *)
(***************************************************************************)
LEMMA HandsKept ==
    ASSUME HandsFollow
    PROVE  \A q \in Runs : \A d : HasInHand(q, d)' => HasInHand(q, d)
  BY DEF HandsFollow, Follows, HasInHand

Spares(d) ==
    /\ row'[d] = row[d] /\ deadLetters'[d] = deadLetters[d]
    /\ d \in accepted' <=> d \in accepted
    /\ d \in acceptedAgain' <=> d \in acceptedAgain

LEMMA StepIsLocal ==
    ASSUME RunsInv, RowsInv, NEW r \in Runs, RunStep(r) \/ StoreFails(r)
    PROVE  /\ RowsInv' /\ Busy(r)
           /\ \A q \in Runs \ {r} : runs'[q] = runs[q]
           /\ \A d \in Deliveries \ {Current(r)} : Spares(d)
           /\ UNCHANGED <<store, dispatched, overlapped>>
           /\ \/ order' = order
              \/ Record(r) /\ order' = Append(order, Current(r))
           /\ RunStep(r) => failures' = failures
           /\ StoreFails(r) => failures' > failures
<1>1. Busy(r)
  BY DEF RunStep, StoreFails, Record, LookUp, PostAccepted, PostRefused,
         WriteSuccess, WriteRetry, Backoff, WriteFailure, SendToDeadLetter, At
<1>2. Current(r) \in Deliveries /\ Attempt(r) \in Nat
  BY <1>1, AttemptType
<1>3. \A q \in Runs \ {r} : runs'[q] = runs[q]
  BY DEF RunStep, StoreFails, Record, LookUp, PostAccepted, PostRefused, Goto,
         WriteSuccess, WriteRetry, Backoff, WriteFailure, SendToDeadLetter, RunsInv
<1> DEFINE V == [status : Statuses, attempt : Nat]
<1>4. \A status \in Statuses, a \in Nat :
         /\ [status |-> status, attempt |-> a] \in V
         /\ [row EXCEPT ![Current(r)] = [status |-> status, attempt |-> a]] \in [Deliveries -> V]
         /\ \A d \in Deliveries \ {Current(r)} :
               [row EXCEPT ![Current(r)] = [status |-> status, attempt |-> a]][d] = row[d]
  <2> SUFFICES ASSUME NEW status \in Statuses, NEW a \in Nat
               PROVE  /\ [status |-> status, attempt |-> a] \in V
                      /\ [row EXCEPT ![Current(r)] = [status |-> status, attempt |-> a]] \in [Deliveries -> V]
                      /\ \A d \in Deliveries \ {Current(r)} :
                            [row EXCEPT ![Current(r)] = [status |-> status, attempt |-> a]][d] = row[d]
    OBVIOUS
  <2>1. [status |-> status, attempt |-> a] \in V
    OBVIOUS
  <2>2. row \in [Deliveries -> V]
    BY DEF RowsInv
  <2> HIDE DEF V
  <2> QED
    BY <1>2, <2>1, <2>2
<1>5. ASSUME NEW status \in Statuses, NEW a \in Nat,
             row' = [row EXCEPT ![Current(r)] = [status |-> status, attempt |-> a]]
      PROVE  /\ row' \in [Deliveries -> V]
             /\ \A d \in Deliveries \ {Current(r)} : row'[d] = row[d]
  <2> HIDE DEF V
  <2> QED
    BY <1>4, <1>5
<1>6. /\ row' \in [Deliveries -> V]
      /\ \A d \in Deliveries \ {Current(r)} : row'[d] = row[d]
  <2>1. CASE UNCHANGED row
    BY <2>1 DEF RowsInv
  <2>2. \/ UNCHANGED row
        \/ row' = [row EXCEPT ![Current(r)] = [status |-> "pending", attempt |-> 0]]
        \/ row' = [row EXCEPT ![Current(r)] = [status |-> "pending", attempt |-> Attempt(r)]]
        \/ row' = [row EXCEPT ![Current(r)] = [status |-> "success", attempt |-> Attempt(r)]]
        \/ row' = [row EXCEPT ![Current(r)] = [status |-> "failed", attempt |-> Attempt(r)]]
    BY DEF RunStep, StoreFails, Record, LookUp, PostAccepted, PostRefused,
         WriteSuccess, WriteRetry, Backoff, WriteFailure, SendToDeadLetter,
         RecordDelivery, UpdateStatus, UpdateDeliveryStatus, rowVars
  <2>3. {"pending", "success", "failed"} \subseteq Statuses /\ 0 \in Nat
    BY DEF Statuses
  <2> HIDE DEF V
  <2> QED
    BY <1>2, <1>5, <2>1, <2>2, <2>3
<1>7. \/ order' = order
      \/ Record(r) /\ order' = Append(order, Current(r))
  BY DEF RunStep, StoreFails, Record, LookUp, PostAccepted, PostRefused,
         WriteSuccess, WriteRetry, Backoff, WriteFailure, SendToDeadLetter,
         RecordDelivery, rowVars
<1>8. order' \in Seq(Deliveries)
  <2>1. order \in Seq(Deliveries)
    BY DEF RowsInv
  <2>2. Append(order, Current(r)) \in Seq(Deliveries)
    <3> HIDE DEF Deliveries
    <3> QED
      BY <1>2, <2>1
  <2> QED
    BY <1>7, <2>1, <2>2
<1>9. /\ deadLetters' \in [Deliveries -> Nat]
      /\ \A d \in Deliveries \ {Current(r)} : deadLetters'[d] = deadLetters[d]
  <2>1. \/ UNCHANGED deadLetters
        \/ deadLetters' = [deadLetters EXCEPT ![Current(r)] = @ + 1]
    BY DEF RunStep, StoreFails, Record, LookUp, PostAccepted, PostRefused,
         WriteSuccess, WriteRetry, Backoff, WriteFailure, SendToDeadLetter,
         InsertDeadLetter, rowVars
  <2>2. deadLetters \in [Deliveries -> Nat]
    BY DEF RowsInv
  <2> DEFINE c == Current(r)
  <2> HIDE DEF Deliveries, c
  <2>3. c \in Deliveries
    BY <1>2 DEF c
  <2>4. deadLetters[c] + 1 \in Nat
    BY <2>2, <2>3
  <2>5. CASE deadLetters' = [deadLetters EXCEPT ![c] = @ + 1]
    BY <2>2, <2>3, <2>4, <2>5 DEF c
  <2> QED
    BY <2>1, <2>2, <2>5 DEF c
<1>10. /\ UNCHANGED <<store, dispatched, overlapped>>
       /\ RunStep(r) => failures' = failures
       /\ StoreFails(r) => failures' = failures + 1
  BY DEF RunStep, StoreFails, Record, LookUp, PostAccepted, PostRefused,
         WriteSuccess, WriteRetry, Backoff, WriteFailure, SendToDeadLetter, world
<1>11. \A d \in Deliveries \ {Current(r)} :
          (d \in accepted' <=> d \in accepted) /\ (d \in acceptedAgain' <=> d \in acceptedAgain)
  BY DEF RunStep, StoreFails, Record, LookUp, PostAccepted, PostRefused,
         WriteSuccess, WriteRetry, Backoff, WriteFailure, SendToDeadLetter, answers
<1>12. failures' \in Nat /\ (StoreFails(r) => failures' > failures)
  BY <1>10 DEF RowsInv
<1>13. RowsInv'
  BY <1>6, <1>8, <1>9, <1>10, <1>12 DEF RowsInv
<1> QED
  BY <1>1, <1>3, <1>6, <1>7, <1>9, <1>10, <1>11, <1>12, <1>13 DEF Spares

LEMMA OtherSteps ==
    ASSUME RunsInv, RowsInv, [Next]_vars
    PROVE  \/ \E r \in Runs, e \in Events : Dispatch(r, e)
           \/ \E r \in Runs : Sweep(r)
           \/ \E r \in Runs : RunStep(r) \/ StoreFails(r)
           \/ CrashInMemory
           \/ /\ HandsFollow
              /\ UNCHANGED <<store, dispatched, rowVars, answers, overlapped>>
              /\ failures' \in Nat /\ failures' >= failures
              /\ UNCHANGED runs \/ failures' > failures
              /\ \A q \in Runs : runs'[q] \in {runs[q], Idle}
<1>1. CASE UNCHANGED vars
  BY <1>1, SameRunsFollow DEF vars, world, RowsInv
<1>2. ASSUME NEW gone \in SUBSET Runs, Crash(gone)
      PROVE  /\ HandsFollow
             /\ UNCHANGED <<store, dispatched, rowVars, answers, overlapped>>
             /\ failures' \in Nat /\ failures' >= failures
             /\ failures' > failures
             /\ \A q \in Runs : runs'[q] \in {runs[q], Idle}
  <2>1. failures' = failures + 1 /\ UNCHANGED <<world, rowVars, answers, overlapped>>
    BY <1>2 DEF Crash
  <2>2. \A q \in Runs : runs'[q] \in {runs[q], Idle}
    BY <1>2 DEF Crash
  <2>3. failures \in Nat
    BY DEF RowsInv
  <2> QED
    BY <1>2, <2>1, <2>2, <2>3, CrashFollows DEF world
<1>3. ASSUME (\E s \in Subscribers : Unregister(s)) \/ GrowOld
      PROVE  /\ HandsFollow
             /\ UNCHANGED <<store, dispatched, rowVars, answers, overlapped>>
             /\ failures' \in Nat /\ failures' >= failures
             /\ UNCHANGED runs
  BY <1>3, SameRunsFollow DEF Unregister, GrowOld, RowsInv
<1> QED
  BY <1>1, <1>2, <1>3 DEF Next, SomeSweep

-----------------------------------------------------------------------------
(***************************************************************************)
(* Whatever is recorded or in hand belongs to an event already dispatched: *)
(* a new dispatch takes in hand only what nobody has seen before.          *)
(***************************************************************************)
KnownInv ==
    /\ \A d \in Deliveries : Recorded(d) => d[1] \in dispatched
    /\ \A d \in Ordered : d[1] \in dispatched
    /\ \A r \in Runs : \A d : HasInHand(r, d) => d[1] \in dispatched

BaseInv == RunsInv /\ RowsInv /\ KnownInv

LEMMA BaseInit == Init => BaseInv
<1> SUFFICES ASSUME Init PROVE BaseInv
  OBVIOUS
<1>1. GoodRun(Idle)
  BY IdleFollows
<1>2. RunsInv
  BY <1>1 DEF Init, RunsInv, GoodRun
<1>3. NoRow \in [status : Statuses, attempt : Nat]
  BY DEF NoRow, Statuses
<1>4. <<>> \in Seq(Deliveries) /\ DOMAIN <<>> = {}
  OBVIOUS
<1>5. RowsInv
  <2> HIDE DEF Deliveries
  <2> QED
    BY <1>3, <1>4 DEF Init, RowsInv
<1>6. \A d \in Deliveries : ~Recorded(d)
  BY DEF Init, Recorded, NoRow
<1>7. Ordered = {} /\ \A r \in Runs : \A d : ~HasInHand(r, d)
  BY <1>4 DEF Init, Ordered, HasInHand, Idle
<1> QED
  BY <1>2, <1>5, <1>6, <1>7 DEF BaseInv, KnownInv

LEMMA FollowKeepsRuns == RunsInv /\ HandsFollow => RunsInv'
  BY DEF RunsInv, HandsFollow, GoodRun

LEMMA OrderGrows ==
    ASSUME RowsInv, NEW d \in Deliveries, order' = Append(order, d)
    PROVE  Ordered' = Ordered \cup {d}
<1>1. /\ order \in Seq(Deliveries)
      /\ DOMAIN order' = 1..(Len(order) + 1) /\ DOMAIN order = 1..Len(order) /\ Len(order) \in Nat
      /\ \A i \in 1..Len(order) : order'[i] = order[i]
      /\ order'[Len(order) + 1] = d
  <2> HIDE DEF Deliveries
  <2> QED
    BY DEF RowsInv
<1> QED
  BY <1>1 DEF Ordered

LEMMA BaseNext == BaseInv /\ [Next]_vars => BaseInv'
<1> SUFFICES ASSUME BaseInv, [Next]_vars PROVE BaseInv'
  OBVIOUS
<1> USE DEF BaseInv
<1>1. ASSUME NEW r \in Runs, NEW e \in Events, Dispatch(r, e)
      PROVE  BaseInv'
  <2>1. /\ Takes(r)
        /\ \A i \in DOMAIN runs'[r].todo : runs'[r].todo[i].d \in {e} \X Subscribers
    BY <1>1, DispatchTakes
  <2>2. UNCHANGED <<row, order, deadLetters, failures>> /\ dispatched' = dispatched \cup {e}
    BY <1>1 DEF Dispatch, rowVars
  <2>3. RunsInv' /\ RowsInv'
    BY <2>1, <2>2 DEF RunsInv, RowsInv, Takes, GoodRun
  <2>4. \A q \in Runs \ {r} : \A d : HasInHand(q, d)' => HasInHand(q, d)
    BY <2>1 DEF Takes, HasInHand
  <2>5. \A d : HasInHand(r, d)' => d[1] = e
    BY <2>1 DEF HasInHand
  <2>6. Ordered' = Ordered /\ \A d : Recorded(d)' <=> Recorded(d)
    BY <2>2 DEF Ordered, Recorded
  <2>7. KnownInv'
    BY <2>2, <2>4, <2>5, <2>6 DEF KnownInv
  <2> QED
    BY <2>3, <2>7
<1>2. ASSUME NEW r \in Runs, Sweep(r)
      PROVE  BaseInv'
  <2>1. Takes(r) /\ \A i \in DOMAIN runs'[r].todo : runs'[r].todo[i].d \in Ordered
    BY <1>2, SweepTakes
  <2>2. UNCHANGED <<row, order, deadLetters, failures, dispatched>>
    BY <1>2 DEF Sweep, rowVars, world
  <2>3. RunsInv' /\ RowsInv'
    BY <2>1, <2>2 DEF RunsInv, RowsInv, Takes, GoodRun
  <2>4. \A q \in Runs \ {r} : \A d : HasInHand(q, d)' => HasInHand(q, d)
    BY <2>1 DEF Takes, HasInHand
  <2>5. \A d : HasInHand(r, d)' => d \in Ordered
    BY <2>1 DEF HasInHand
  <2>6. Ordered' = Ordered /\ \A d : Recorded(d)' <=> Recorded(d)
    BY <2>2 DEF Ordered, Recorded
  <2>7. KnownInv'
    BY <2>2, <2>4, <2>5, <2>6 DEF KnownInv
  <2> QED
    BY <2>3, <2>7
<1>3. ASSUME NEW r \in Runs, RunStep(r) \/ StoreFails(r)
      PROVE  BaseInv'
  <2>1. HandsFollow /\ RunsInv'
    BY <1>3, RunStepFollows, FollowKeepsRuns
  <2>2. /\ RowsInv' /\ Busy(r) /\ dispatched' = dispatched
        /\ \A d \in Deliveries \ {Current(r)} : row'[d] = row[d]
        /\ order' = order \/ order' = Append(order, Current(r))
    BY <1>3, StepIsLocal DEF Spares
  <2>3. HasInHand(r, Current(r)) /\ Current(r) \in Deliveries
    BY <2>2, AttemptType
  <2>4. Current(r)[1] \in dispatched
    BY <2>3 DEF KnownInv
  <2>5. Ordered' = Ordered \/ Ordered' = Ordered \cup {Current(r)}
    BY <2>2, <2>3, OrderGrows DEF Ordered
  <2>6. \A d \in Deliveries : Recorded(d)' => Recorded(d) \/ d = Current(r)
    BY <2>2 DEF Recorded
  <2>7. \A q \in Runs : \A d : HasInHand(q, d)' => HasInHand(q, d)
    BY <2>1, HandsKept
  <2>8. KnownInv'
    BY <2>2, <2>4, <2>5, <2>6, <2>7 DEF KnownInv
  <2> QED
    BY <2>1, <2>2, <2>8
<1>4. CASE CrashInMemory
  <2>1. HandsFollow /\ RunsInv'
    BY <1>4, CrashFollows, FollowKeepsRuns
  <2>2. \A q \in Runs : \A d : HasInHand(q, d)' => HasInHand(q, d)
    BY <2>1, HandsKept
  <2>3. NoRow \in [status : Statuses, attempt : Nat] /\ NoRow.status = "none"
    BY DEF NoRow, Statuses
  <2>4. <<>> \in Seq(Deliveries) /\ DOMAIN <<>> = {}
    OBVIOUS
  <2>5. RowsInv'
    <3> HIDE DEF Deliveries
    <3> QED
      BY <1>4, <2>3, <2>4 DEF CrashInMemory, RowsInv
  <2>6. (\A d \in Deliveries : ~Recorded(d)') /\ Ordered' = {} /\ dispatched' = dispatched
    BY <1>4, <2>3, <2>4 DEF CrashInMemory, Recorded, Ordered
  <2>7. KnownInv'
    BY <2>2, <2>6 DEF KnownInv
  <2> QED
    BY <2>1, <2>5, <2>7
<1>5. ASSUME HandsFollow, UNCHANGED <<store, dispatched, rowVars, answers, overlapped>>,
             failures' \in Nat
      PROVE  BaseInv'
  <2>1. \A q \in Runs : \A d : HasInHand(q, d)' => HasInHand(q, d)
    BY <1>5, HandsKept
  <2>2. RunsInv' /\ RowsInv' /\ Ordered' = Ordered /\ \A d : Recorded(d)' <=> Recorded(d)
    BY <1>5, FollowKeepsRuns DEF RowsInv, Ordered, Recorded, rowVars
  <2>3. KnownInv'
    BY <1>5, <2>1, <2>2 DEF KnownInv
  <2> QED
    BY <2>2, <2>3
<1> QED
  BY <1>1, <1>2, <1>3, <1>4, <1>5, OtherSteps

LEMMA BaseHolds == Spec => []BaseInv
  BY BaseInit, BaseNext, PTL DEF Spec

(***************************************************************************)
(* A settled delivery that is in no hands stays so, and so does its row.   *)
(***************************************************************************)
LEMMA SettledStays ==
    ASSUME BaseInv, [Next]_vars, ~CrashInMemory,
           NEW d \in Deliveries, Settled(d), InNoHands(d)
    PROVE  Spares(d) /\ InNoHands(d)'
<1> USE DEF BaseInv
<1>1. ASSUME NEW r \in Runs, NEW e \in Events, Dispatch(r, e)
      PROVE  Spares(d) /\ InNoHands(d)'
  <2>1. /\ Takes(r)
        /\ \A i \in DOMAIN runs'[r].todo : runs'[r].todo[i].d \in {e} \X Subscribers
    BY <1>1, DispatchTakes
  <2>2. d[1] # e
    BY <1>1 DEF Dispatch, KnownInv, Settled, OutOfAttempts, Recorded
  <2>3. InNoHands(d)'
    BY <2>1, <2>2 DEF InNoHands, HasInHand, Takes
  <2> QED
    BY <1>1, <2>3 DEF Dispatch, rowVars, answers, Spares
<1>2. ASSUME NEW r \in Runs, Sweep(r)
      PROVE  Spares(d) /\ InNoHands(d)'
  <2>1. Takes(r) /\ \A i \in DOMAIN runs'[r].todo : IsDue(runs'[r].todo[i].d)
    BY <1>2, SweepTakes
  <2>2. ~IsDue(d)
    <3>1. row[d].attempt \in Nat /\ MaxRetries \in Nat
      BY DeliveryAssumption DEF RowsInv
    <3> QED
      BY <3>1 DEF IsDue, Settled, OutOfAttempts
  <2>3. InNoHands(d)'
    BY <2>1, <2>2 DEF InNoHands, HasInHand, Takes
  <2> QED
    BY <1>2, <2>3 DEF Sweep, rowVars, answers, Spares
<1>3. ASSUME NEW r \in Runs, RunStep(r) \/ StoreFails(r)
      PROVE  Spares(d) /\ InNoHands(d)'
  <2>1. HandsFollow
    BY <1>3, RunStepFollows
  <2>2. Busy(r) /\ \A c \in Deliveries \ {Current(r)} : Spares(c)
    BY <1>3, StepIsLocal
  <2>3. HasInHand(r, Current(r))
    BY <2>2, AttemptType
  <2>4. InNoHands(d)'
    BY <2>1, HandsKept DEF InNoHands
  <2> QED
    BY <2>2, <2>3, <2>4 DEF InNoHands
<1>4. ASSUME HandsFollow, UNCHANGED <<store, dispatched, rowVars, answers, overlapped>>
      PROVE  Spares(d) /\ InNoHands(d)'
  BY <1>4, HandsKept DEF InNoHands, Spares, rowVars, answers
<1> QED
  BY <1>1, <1>2, <1>3, <1>4, OtherSteps

(***************************************************************************)
(* A settled delivery is never taken up again, whatever the number of      *)
(* events, webhooks, runs, attempts and rows a sweep reads.                *)
(***************************************************************************)
THEOREM SettledForGood == Spec => SettledIsFinal
<1>1. BaseInv /\ [Next]_vars =>
        [\A d \in Deliveries :
           Settled(d) /\ InNoHands(d) =>
              \/ row'[d] = row[d] /\ InNoHands(d)'
              \/ store = "memory" /\ failures' > failures]_vars
  <2>1. CrashInMemory /\ BaseInv => store = "memory" /\ failures' > failures
    BY DEF CrashInMemory, BaseInv, RowsInv
  <2> QED
    BY <2>1, SettledStays DEF Spares
<1> QED
  BY <1>1, BaseHolds, PTL DEF Spec, SettledIsFinal

-----------------------------------------------------------------------------
(***************************************************************************)
(* No delivery is recorded twice: what a dispatch has still to record is   *)
(* not recorded yet, and no two dispatches have it in hand.                *)
(***************************************************************************)
Slot(r, i, d) == i \in DOMAIN runs[r].todo /\ runs[r].todo[i].d = d
Dispatching(r) == runs[r].kind = "dispatch"

HeldOnce(d) ==
    \A r, q \in Runs : \A i, j \in Nat :
        Slot(r, i, d) /\ Slot(q, j, d) => r = q /\ i = j

OrderInv == DifferentEntries(order)

DispatchInv ==
    \A d : \A r, q \in Runs : Dispatching(r) /\ Dispatching(q) =>
        \A i, j \in Nat : Slot(r, i, d) /\ Slot(q, j, d) => r = q /\ i = j

UnsentInv ==
    \A r \in Runs : Dispatching(r) =>
        \A i \in Nat : \A d :
            Slot(r, i, d) /\ (i > 1 \/ runs[r].step = "next") => d \notin Ordered

SentInv == OrderInv /\ DispatchInv /\ UnsentInv

LEMMA SlotsOfHands ==
    RunsInv => \A r \in Runs : \A i, d : Slot(r, i, d) => i \in Nat \ {0} /\ HasInHand(r, d)
<1> SUFFICES ASSUME RunsInv, NEW r \in Runs, NEW i, NEW d, Slot(r, i, d)
             PROVE  i \in Nat \ {0} /\ HasInHand(r, d)
  OBVIOUS
<1>1. runs[r].todo \in Seq([d : Deliveries, attempt : Nat])
  BY DEF RunsInv, RunType
<1>2. DOMAIN runs[r].todo = 1..Len(runs[r].todo) /\ Len(runs[r].todo) \in Nat
  BY <1>1
<1> QED
  BY <1>2 DEF Slot, HasInHand

LEMMA FollowingSlots ==
    ASSUME HandsFollow
    PROVE  \A r \in Runs :
              /\ Dispatching(r)' => Dispatching(r) \/ runs'[r].todo = <<>>
              /\ \E k \in {0, 1} : \A i, d : Slot(r, i, d)' => Slot(r, i + k, d)
<1> SUFFICES ASSUME NEW r \in Runs
             PROVE  /\ Dispatching(r)' => Dispatching(r) \/ runs'[r].todo = <<>>
                    /\ \E k \in {0, 1} : \A i, d : Slot(r, i, d)' => Slot(r, i + k, d)
  OBVIOUS
<1> DEFINE x == runs'[r]
           y == runs[r]
<1>1. Follows(x, y) /\ GoodRun(x)
  BY DEF HandsFollow
<1>2. DOMAIN x.todo \subseteq Nat
  <2>1. x.todo \in Seq([d : Deliveries, attempt : Nat])
    BY <1>1 DEF GoodRun, RunType
  <2> QED
    BY <2>1
<1>3. CASE \A j \in DOMAIN x.todo : j \in DOMAIN y.todo /\ x.todo[j].d = y.todo[j].d
  <2>1. \A i, d : Slot(r, i, d)' => Slot(r, i + 0, d)
    BY <1>2, <1>3 DEF Slot
  <2> QED
    BY <1>1, <2>1 DEF Follows, Dispatching
<1>4. CASE \A j \in DOMAIN x.todo : j + 1 \in DOMAIN y.todo /\ x.todo[j].d = y.todo[j + 1].d
  <2>1. \A i, d : Slot(r, i, d)' => Slot(r, i + 1, d)
    BY <1>4 DEF Slot
  <2> QED
    BY <1>1, <2>1 DEF Follows, Dispatching
<1> QED
  BY <1>1, <1>3, <1>4 DEF Follows

LEMMA EmptyHand == \A r : runs[r].todo = <<>> => \A i, d : ~Slot(r, i, d)
<1>1. DOMAIN <<>> = {}
  OBVIOUS
<1> QED
  BY <1>1 DEF Slot

LEMMA EmptyHandNext == \A r : runs'[r].todo = <<>> => \A i, d : ~Slot(r, i, d)'
<1>1. DOMAIN <<>> = {}
  OBVIOUS
<1> QED
  BY <1>1 DEF Slot

LEMMA FollowKeepsHeld ==
    ASSUME RunsInv, HandsFollow
    PROVE  /\ \A d : HeldOnce(d) => HeldOnce(d)'
           /\ DispatchInv => DispatchInv'
<1>1. ASSUME NEW d, NEW r \in Runs, NEW q \in Runs, NEW i \in Nat, NEW j \in Nat,
             Slot(r, i, d)', Slot(q, j, d)',
             \A a, b \in Nat : Slot(r, a, d) /\ Slot(q, b, d) => r = q /\ a = b
      PROVE  r = q /\ i = j
  <2>1. PICK k \in {0, 1} : Slot(r, i + k, d) /\ \A a : Slot(r, a, d)' => Slot(r, a + k, d)
    BY <1>1, FollowingSlots
  <2>2. PICK l \in {0, 1} : Slot(q, j + l, d)
    BY <1>1, FollowingSlots
  <2>3. i + k \in Nat /\ j + l \in Nat /\ j + k \in Nat
    BY <2>1, <2>2
  <2>4. r = q
    BY <1>1, <2>1, <2>2, <2>3
  <2>5. Slot(r, j + k, d)
    BY <1>1, <2>1, <2>4
  <2>6. i + k = j + k
    BY <1>1, <2>1, <2>3, <2>4, <2>5
  <2> QED
    BY <2>4, <2>6
<1>2. ASSUME NEW d, HeldOnce(d)
      PROVE  HeldOnce(d)'
  BY <1>1, <1>2 DEF HeldOnce
<1>3. ASSUME DispatchInv
      PROVE  DispatchInv'
  <2> SUFFICES ASSUME NEW d, NEW r \in Runs, NEW q \in Runs, Dispatching(r)', Dispatching(q)',
                      NEW i \in Nat, NEW j \in Nat, Slot(r, i, d)', Slot(q, j, d)'
               PROVE  r = q /\ i = j
    BY DEF DispatchInv
  <2>1. Dispatching(r) /\ Dispatching(q)
    BY FollowingSlots, EmptyHandNext
  <2> QED
    BY <1>1, <1>3, <2>1 DEF DispatchInv
<1> QED
  BY <1>2, <1>3

\* What a step of run r makes of it: it goes on with the same delivery, or
\* drops it, or ends.
LEMMA GoesOnOrDrops ==
    ASSUME RunsInv, RowsInv, NEW r \in Runs, RunStep(r) \/ StoreFails(r)
    PROVE  \/ /\ runs'[r].step # "next" /\ runs'[r].kind = runs[r].kind
              /\ Current(r)' = Current(r)
           \/ runs'[r] = AfterCurrent(r)
           \/ runs'[r] = Idle
<1>1. Busy(r)
  BY DEF RunStep, StoreFails, Record, LookUp, PostAccepted, PostRefused,
         WriteSuccess, WriteRetry, Backoff, WriteFailure, SendToDeadLetter, At
<1> DEFINE y == runs[r]
<1>2. runs \in [Runs -> RunType] /\ y \in RunType /\ 1 \in DOMAIN y.todo
  BY <1>1, AttemptType DEF RunsInv
<1>3. y.todo \in Seq([d : Deliveries, attempt : Nat])
  BY <1>2 DEF RunType
<1>4. Current(r) = y.todo[1].d
  BY <1>1, AttemptType
<1>5. ASSUME NEW s \in Steps \ {"next"}, Goto(r, s)
      PROVE  /\ runs'[r].step # "next" /\ runs'[r].kind = runs[r].kind
             /\ Current(r)' = Current(r)
  <2>1. runs'[r] = [y EXCEPT !.step = s]
    BY <1>2, <1>5 DEF Goto
  <2>2. runs'[r].step = s /\ runs'[r].kind = y.kind /\ runs'[r].todo = y.todo
    BY <1>2, <2>1 DEF RunType
  <2> QED
    BY <2>2 DEF Current
<1>6. ASSUME NEW a \in Nat,
             runs' = [runs EXCEPT ![r] = [y EXCEPT !.step = "post", !.todo[1].attempt = a]]
      PROVE  /\ runs'[r].step # "next" /\ runs'[r].kind = runs[r].kind
             /\ Current(r)' = Current(r)
  <2> DEFINE todo == [y.todo EXCEPT ![1].attempt = a]
             E == [d : Deliveries, attempt : Nat]
  <2>1. runs'[r] = [y EXCEPT !.step = "post", !.todo[1].attempt = a]
    BY <1>2, <1>6
  <2>2. runs'[r].step = "post" /\ runs'[r].kind = y.kind /\ runs'[r].todo = todo
    BY <1>2, <2>1 DEF RunType
  <2>3. y.todo[1] \in E
    <3>1. y.todo \in Seq(E) /\ 1 \in DOMAIN y.todo
      BY <1>2, <1>3
    <3> HIDE DEF E, y
    <3> QED
      BY <3>1
  <2>4. [y.todo[1] EXCEPT !.attempt = a] \in E /\ [y.todo[1] EXCEPT !.attempt = a].d = y.todo[1].d
    BY <2>3
  <2>5. todo \in Seq(E) /\ todo # <<>> /\ todo[1].d = y.todo[1].d
    BY <1>2, <1>3, <2>4
  <2>6. Head(todo) = todo[1]
    <3> HIDE DEF todo, E
    <3> QED
      BY <2>5
  <2> QED
    BY <1>4, <2>2, <2>5, <2>6 DEF Current
<1>7. ASSUME NEW x, runs' = [runs EXCEPT ![r] = x]
      PROVE  runs'[r] = x
  BY <1>2, <1>7
<1>8. y.todo[1].attempt \in Nat /\ Attempt(r) \in Nat
  BY <1>1, AttemptType
<1>9. CASE LookUp(r)
  <2>1. CASE ~GetWebhook(SubscriberOf(Current(r)))
    BY <1>9, <1>7, <2>1 DEF LookUp
  <2>2. CASE GetWebhook(SubscriberOf(Current(r)))
    <3> DEFINE a == NextAttempt(Current(r), Attempt(r))
    <3>1. a \in Nat
      BY <1>1, <1>8, AttemptType DEF NextAttempt, RowsInv
    <3>2. runs' = [runs EXCEPT ![r] = [y EXCEPT !.step = "post", !.todo[1].attempt = a]]
      BY <1>9, <2>2 DEF LookUp
    <3> HIDE DEF a
    <3> QED
      BY <1>6, <3>1, <3>2
  <2> QED
    BY <2>1, <2>2
<1>10. CASE Backoff(r)
  <2> DEFINE a == y.todo[1].attempt + 1
  <2>1. a \in Nat
    BY <1>8
  <2>2. runs' = [runs EXCEPT ![r] = [y EXCEPT !.step = "post", !.todo[1].attempt = a]]
    BY <1>10 DEF Backoff
  <2> HIDE DEF a
  <2> QED
    BY <1>6, <2>1, <2>2
<1>11. CASE Record(r) \/ PostAccepted(r) \/ PostRefused(r) \/ WriteRetry(r) \/ WriteFailure(r)
  <2>1. {"post", "accepted", "refused", "backoff", "bury"} \subseteq Steps \ {"next"}
    BY DEF Steps
  <2> QED
    BY <1>11, <1>5, <2>1 DEF Record, PostAccepted, PostRefused, WriteRetry, WriteFailure
<1>12. CASE WriteSuccess(r) \/ SendToDeadLetter(r)
  BY <1>12, <1>7 DEF WriteSuccess, SendToDeadLetter
<1>13. CASE StoreFails(r)
  <2>1. \/ Goto(r, "refused") \/ runs' = [runs EXCEPT ![r] = Idle]
        \/ runs' = [runs EXCEPT ![r] = AfterCurrent(r)]
    BY <1>13 DEF StoreFails
  <2>2. "refused" \in Steps \ {"next"}
    BY DEF Steps
  <2> QED
    BY <1>5, <1>7, <2>1, <2>2
<1> QED
  BY <1>9, <1>10, <1>11, <1>12, <1>13 DEF RunStep

LEMMA AfterShifts ==
    ASSUME RunsInv, NEW r \in Runs, Busy(r), runs'[r] = AfterCurrent(r)
    PROVE  /\ \A i, d : Slot(r, i, d)' => i + 1 \in Nat /\ Slot(r, i + 1, d)
           /\ runs'[r].step = "next"
<1> DEFINE y == runs[r]
           E == [d : Deliveries, attempt : Nat]
<1>1. y \in RunType /\ y.todo \in Seq(E) /\ y.todo # <<>>
  BY DEF RunsInv, RunType, Busy
<1>2. CASE Len(y.todo) = 1
  <2>1. runs'[r].todo = <<>> /\ runs'[r].step = "next"
    BY <1>2 DEF AfterCurrent, Idle
  <2> QED
    BY <2>1, EmptyHandNext
<1>3. CASE Len(y.todo) # 1
  <2>1. runs'[r].todo = Tail(y.todo) /\ runs'[r].step = "next"
    BY <1>1, <1>3 DEF AfterCurrent, RunType
  <2>2. \A j \in DOMAIN Tail(y.todo) :
           j + 1 \in Nat /\ j + 1 \in DOMAIN y.todo /\ Tail(y.todo)[j] = y.todo[j + 1]
    <3> HIDE DEF E, y
    <3> QED
      BY <1>1
  <2> HIDE DEF E
  <2> QED
    BY <2>1, <2>2 DEF Slot
<1> QED
  BY <1>2, <1>3

\* A delivery that its run drops is in that run's hand no more.
LEMMA DroppedIsGone ==
    ASSUME RunsInv, NEW r \in Runs, Busy(r), NEW d, d = Current(r), HeldOnce(d),
           runs'[r] = AfterCurrent(r) \/ runs'[r] = Idle
    PROVE  ~HasInHand(r, d)'
<1>1. Slot(r, 1, d)
  BY AttemptType DEF Slot
<1>2. CASE runs'[r] = Idle
  <2>1. runs'[r].todo = <<>>
    BY <1>2 DEF Idle
  <2> QED
    BY <2>1, EmptyHandNext DEF HasInHand, Slot
<1>3. CASE runs'[r] = AfterCurrent(r)
  <2> SUFFICES ASSUME NEW i, Slot(r, i, d)' PROVE FALSE
    BY DEF HasInHand, Slot
  <2>1. i + 1 \in Nat /\ Slot(r, i + 1, d)
    BY <1>3, AfterShifts
  <2>2. i + 1 = 1
    BY <1>1, <2>1 DEF HeldOnce
  <2>3. i \in DOMAIN AfterCurrent(r).todo /\ GoodRun(AfterCurrent(r))
    BY <1>3, AfterFollows DEF Slot
  <2>4. AfterCurrent(r).todo \in Seq([d : Deliveries, attempt : Nat])
    BY <2>3 DEF GoodRun, RunType
  <2>5. i \in Nat \ {0}
    BY <2>3, <2>4
  <2> QED
    BY <2>2, <2>5
<1> QED
  BY <1>2, <1>3

LEMMA OrderInvNext ==
    ASSUME BaseInv, SentInv, [Next]_vars
    PROVE  OrderInv'
<1>1. ASSUME order' = order
      PROVE  OrderInv'
  BY <1>1 DEF SentInv, OrderInv, DifferentEntries
<1>2. ASSUME NEW r \in Runs, RunStep(r) \/ StoreFails(r)
      PROVE  OrderInv'
  <2>1. CASE order' = order
    BY <1>1, <2>1
  <2>2. CASE Record(r) /\ order' = Append(order, Current(r))
    <3> DEFINE d == Current(r)
    <3>1. Busy(r) /\ Dispatching(r) /\ runs[r].step = "next"
      BY <2>2 DEF Record, At, Dispatching
    <3>2. d \in Deliveries /\ Slot(r, 1, d)
      BY <3>1, AttemptType DEF Slot, BaseInv
    <3>3. \A i \in DOMAIN order : order[i] # d
      BY <3>1, <3>2 DEF SentInv, UnsentInv, Ordered
    <3>4. /\ DOMAIN order' = 1..(Len(order) + 1) /\ DOMAIN order = 1..Len(order) /\ Len(order) \in Nat
          /\ \A i \in 1..Len(order) : order'[i] = order[i]
          /\ order'[Len(order) + 1] = d
      <4>1. order \in Seq(Deliveries) /\ order' = Append(order, d)
        BY <2>2 DEF BaseInv, RowsInv
      <4> HIDE DEF Deliveries, d
      <4> QED
        BY <3>2, <4>1
    <3> HIDE DEF d
    <3> QED
      BY <3>3, <3>4 DEF SentInv, OrderInv, DifferentEntries
  <2> QED
    BY <1>2, <2>1, <2>2, StepIsLocal DEF BaseInv
<1>3. CASE CrashInMemory
  <2>1. order' = <<>> /\ DOMAIN <<>> = {}
    BY <1>3 DEF CrashInMemory
  <2> QED
    BY <2>1 DEF OrderInv, DifferentEntries
<1>4. ASSUME \/ \E r \in Runs, e \in Events : Dispatch(r, e)
             \/ \E r \in Runs : Sweep(r)
             \/ UNCHANGED rowVars
      PROVE  OrderInv'
  BY <1>1, <1>4 DEF Dispatch, Sweep, rowVars
<1> QED
  BY <1>2, <1>3, <1>4, OtherSteps DEF BaseInv

LEMMA DispatchInvNext ==
    ASSUME BaseInv, SentInv, [Next]_vars
    PROVE  DispatchInv'
<1>1. ASSUME HandsFollow
      PROVE  DispatchInv'
  BY <1>1, FollowKeepsHeld DEF BaseInv, SentInv
<1>2. ASSUME NEW r \in Runs, NEW e \in Events, Dispatch(r, e)
      PROVE  DispatchInv'
  <2>1. /\ Takes(r) /\ Distinct(runs'[r])
        /\ \A i \in DOMAIN runs'[r].todo : runs'[r].todo[i].d \in {e} \X Subscribers
    BY <1>2, DispatchTakes DEF BaseInv
  <2>2. \A i, d : Slot(r, i, d)' => d[1] = e
    BY <2>1 DEF Slot
  <2>3. \A q \in Runs \ {r} : \A i, d : Slot(q, i, d)' => Slot(q, i, d) /\ d[1] # e
    <3>1. \A q \in Runs \ {r} : \A i, d : Slot(q, i, d)' => Slot(q, i, d)
      BY <2>1 DEF Takes, Slot
    <3>2. \A q \in Runs : \A i, d : Slot(q, i, d) => d[1] # e
      BY <1>2 DEF Dispatch, BaseInv, KnownInv, Slot, HasInHand
    <3> QED
      BY <3>1, <3>2
  <2>4. \A d : \A i, j \in Nat : Slot(r, i, d)' /\ Slot(r, j, d)' => i = j
    BY <2>1 DEF Distinct, Slot
  <2>5. \A q \in Runs \ {r} : Dispatching(q)' => Dispatching(q)
    BY <2>1 DEF Takes, Dispatching
  <2> SUFFICES ASSUME NEW d, NEW p \in Runs, NEW q \in Runs, Dispatching(p)', Dispatching(q)',
                      NEW i \in Nat, NEW j \in Nat, Slot(p, i, d)', Slot(q, j, d)'
               PROVE  p = q /\ i = j
    BY DEF DispatchInv
  <2>6. CASE p = r \/ q = r
    BY <2>2, <2>3, <2>4, <2>6
  <2>7. CASE p # r /\ q # r
    BY <2>3, <2>5, <2>7 DEF SentInv, DispatchInv
  <2> QED
    BY <2>6, <2>7
<1>3. ASSUME NEW r \in Runs, Sweep(r)
      PROVE  DispatchInv'
  <2>1. Takes(r) /\ runs'[r].kind = "sweep"
    BY <1>3, SweepTakes DEF BaseInv
  <2>2. ~Dispatching(r)' /\ \A q \in Runs : Dispatching(q)' =>
           Dispatching(q) /\ \A i, d : Slot(q, i, d)' => Slot(q, i, d)
    BY <2>1 DEF Takes, Slot, Dispatching
  <2> QED
    BY <2>2 DEF SentInv, DispatchInv
<1> QED
  BY <1>1, <1>2, <1>3, OtherSteps, RunStepFollows, CrashFollows DEF BaseInv

LEMMA PlacesOfHands ==
    ASSUME RunsInv'
    PROVE  \A r \in Runs : \A i, d : Slot(r, i, d)' => i \in Nat \ {0}
<1> SUFFICES ASSUME NEW r \in Runs, NEW i, NEW d, Slot(r, i, d)'
             PROVE  i \in Nat \ {0}
  OBVIOUS
<1>1. runs'[r].todo \in Seq([d : Deliveries, attempt : Nat])
  BY DEF RunsInv, RunType
<1>2. DOMAIN runs'[r].todo = 1..Len(runs'[r].todo) /\ Len(runs'[r].todo) \in Nat
  BY <1>1
<1> QED
  BY <1>2 DEF Slot

LEMMA UnsentInvNext ==
    ASSUME BaseInv, SentInv, [Next]_vars
    PROVE  UnsentInv'
<1> DEFINE Fine(q) == Dispatching(q)' =>
        \A i \in Nat : \A d :
            Slot(q, i, d)' /\ (i > 1 \/ runs'[q].step = "next") => d \notin Ordered'
<1>1. ASSUME Ordered' = Ordered, NEW q \in Runs, runs'[q] \in {runs[q], Idle}
      PROVE  Fine(q)
  <2>1. CASE runs'[q] = runs[q]
    BY <1>1, <2>1 DEF SentInv, UnsentInv, Dispatching, Slot
  <2>2. CASE runs'[q] = Idle
    BY <2>2 DEF Dispatching, Idle
  <2> QED
    BY <1>1, <2>1, <2>2
<1>2. ASSUME NEW r \in Runs, NEW e \in Events, Dispatch(r, e)
      PROVE  UnsentInv'
  <2>1. /\ Takes(r)
        /\ \A i \in DOMAIN runs'[r].todo : runs'[r].todo[i].d \in {e} \X Subscribers
    BY <1>2, DispatchTakes DEF BaseInv
  <2>2. Ordered' = Ordered /\ \A d \in Ordered : d[1] # e
    BY <1>2 DEF Dispatch, Ordered, rowVars, BaseInv, KnownInv
  <2>3. Fine(r)
    BY <2>1, <2>2 DEF Slot
  <2>4. \A q \in Runs \ {r} : Fine(q)
    BY <1>1, <2>1, <2>2 DEF Takes
  <2> QED
    BY <2>3, <2>4 DEF UnsentInv
<1>3. ASSUME NEW r \in Runs, Sweep(r)
      PROVE  UnsentInv'
  <2>1. Takes(r) /\ runs'[r].kind = "sweep" /\ Ordered' = Ordered
    BY <1>3, SweepTakes DEF BaseInv, Sweep, Ordered, rowVars
  <2>2. Fine(r)
    BY <2>1 DEF Dispatching
  <2>3. \A q \in Runs \ {r} : Fine(q)
    BY <1>1, <2>1 DEF Takes
  <2> QED
    BY <2>2, <2>3 DEF UnsentInv
<1>4. ASSUME NEW r \in Runs, RunStep(r) \/ StoreFails(r)
      PROVE  UnsentInv'
  <2>0. RunsInv /\ RowsInv
    BY DEF BaseInv
  <2>1. /\ Busy(r) /\ \A q \in Runs \ {r} : runs'[q] = runs[q]
        /\ \/ order' = order
           \/ Record(r) /\ order' = Append(order, Current(r))
    BY <1>4, <2>0, StepIsLocal
  <2>2. HandsFollow
    BY <1>4, RunStepFollows DEF BaseInv
  <2>3. Current(r) \in Deliveries /\ Slot(r, 1, Current(r))
    BY <2>1, AttemptType DEF Slot, BaseInv
  <2>4. \/ runs'[r].step # "next"
        \/ runs'[r] = Idle
        \/ runs'[r] = AfterCurrent(r)
    BY <1>4, GoesOnOrDrops DEF BaseInv
  \* What r has unsent afterwards was unsent before, and at a later place.
  <2>5. ASSUME Dispatching(r)', NEW i \in Nat, NEW d, Slot(r, i, d)',
               i > 1 \/ runs'[r].step = "next"
        PROVE  Dispatching(r) /\ \E j \in Nat : j > 1 /\ Slot(r, j, d)
    <3>1. i \in Nat \ {0}
      BY <2>0, <2>2, <2>5, FollowKeepsRuns, PlacesOfHands
    <3>2. Dispatching(r)
      BY <2>2, <2>5, FollowingSlots, EmptyHandNext
    <3>3. CASE i > 1
      <4>1. PICK k \in {0, 1} : Slot(r, i + k, d)
        BY <2>2, <2>5, FollowingSlots
      <4> QED
        BY <3>2, <3>3, <4>1
    <3>4. CASE runs'[r].step = "next"
      <4>1. runs'[r] = AfterCurrent(r)
        BY <2>4, <2>5, <3>4 DEF Idle, Dispatching
      <4>2. Slot(r, i + 1, d)
        BY <2>1, <2>5, <4>1, AfterShifts DEF BaseInv
      <4> QED
        BY <3>1, <3>2, <4>2
    <3> QED
      BY <2>5, <3>3, <3>4
  <2>6. CASE order' = order
    <3>1. Ordered' = Ordered
      BY <2>6 DEF Ordered
    <3>2. Fine(r)
      BY <2>5, <3>1 DEF SentInv, UnsentInv
    <3>3. \A q \in Runs \ {r} : Fine(q)
      BY <1>1, <2>1, <3>1
    <3> QED
      BY <3>2, <3>3 DEF UnsentInv
  <2>7. CASE Record(r) /\ order' = Append(order, Current(r))
    <3>1. Ordered' = Ordered \cup {Current(r)}
      BY <2>3, <2>7, OrderGrows DEF BaseInv
    <3>2. Dispatching(r)
      BY <2>7 DEF Record, Dispatching
    <3>3. ASSUME Dispatching(r)', NEW i \in Nat, NEW d, Slot(r, i, d)',
                 i > 1 \/ runs'[r].step = "next"
          PROVE  d \notin Ordered'
      <4>1. PICK j \in Nat : j > 1 /\ Slot(r, j, d)
        BY <2>5, <3>3
      <4>2. d \notin Ordered
        BY <3>2, <4>1 DEF SentInv, UnsentInv
      <4>3. d # Current(r)
        BY <2>3, <3>2, <4>1 DEF SentInv, DispatchInv
      <4> QED
        BY <3>1, <4>2, <4>3
    <3>4. ASSUME NEW q \in Runs \ {r}, Dispatching(q)', NEW i \in Nat, NEW d, Slot(q, i, d)',
                 i > 1 \/ runs'[q].step = "next"
          PROVE  d \notin Ordered'
      <4>1. Dispatching(q) /\ Slot(q, i, d) /\ (i > 1 \/ runs[q].step = "next")
        BY <2>1, <3>4 DEF Dispatching, Slot
      <4>2. d \notin Ordered
        BY <4>1 DEF SentInv, UnsentInv
      <4>3. d # Current(r)
        BY <2>3, <3>2, <4>1 DEF SentInv, DispatchInv
      <4> QED
        BY <3>1, <4>2, <4>3
    <3> QED
      BY <3>3, <3>4 DEF UnsentInv
  <2> QED
    BY <2>1, <2>6, <2>7
<1>5. CASE CrashInMemory
  <2>1. order' = <<>> /\ DOMAIN <<>> = {}
    BY <1>5 DEF CrashInMemory
  <2>2. Ordered' = {}
    BY <2>1 DEF Ordered
  <2> QED
    BY <2>2 DEF UnsentInv
<1>6. ASSUME UNCHANGED rowVars, \A q \in Runs : runs'[q] \in {runs[q], Idle}
      PROVE  UnsentInv'
  <2>1. Ordered' = Ordered
    BY <1>6 DEF Ordered, rowVars
  <2> QED
    BY <1>1, <1>6, <2>1 DEF UnsentInv
<1> QED
  BY <1>2, <1>3, <1>4, <1>5, <1>6, OtherSteps DEF BaseInv

LEMMA SentHolds == Spec => []SentInv
<1>1. Init => SentInv
  <2> SUFFICES ASSUME Init PROVE SentInv
    OBVIOUS
  <2>1. DOMAIN <<>> = {}
    OBVIOUS
  <2>2. \A r \in Runs : ~Dispatching(r)
    BY DEF Init, Idle, Dispatching
  <2>3. OrderInv
    BY <2>1 DEF Init, OrderInv, DifferentEntries
  <2> QED
    BY <2>2, <2>3 DEF SentInv, DispatchInv, UnsentInv
<1>2. BaseInv /\ SentInv /\ [Next]_vars => SentInv'
  BY OrderInvNext, DispatchInvNext, UnsentInvNext DEF SentInv
<1> QED
  BY <1>1, <1>2, BaseHolds, PTL DEF Spec

-----------------------------------------------------------------------------
(***************************************************************************)
(* The outcome of a delivery that no two runs ever had in hand at once.    *)
(***************************************************************************)
AtHead(r, d, s) == At(r, s) /\ Current(r) = d

SuccessIsLast(d) == row[d].status = "success" => InNoHands(d)

BuriedIsLast(d) ==
    deadLetters[d] # 0 => deadLetters[d] = 1 /\ OutOfAttempts(d) /\ InNoHands(d)

BurialIsDue(d) == \A r \in Runs : AtHead(r, d, "bury") => OutOfAttempts(d)

FailureIsBuried(d) ==
    failures = 0 /\ OutOfAttempts(d) =>
        deadLetters[d] = 1 \/ \E r \in Runs : AtHead(r, d, "bury")

AnswerIsWritten(d) ==
    failures = 0 =>
        /\ d \notin acceptedAgain
        /\ d \in accepted <=>
              row[d].status = "success" \/ \E r \in Runs : AtHead(r, d, "accepted")

Outcome(d) ==
    /\ SuccessIsLast(d) /\ BuriedIsLast(d) /\ BurialIsDue(d)
    /\ FailureIsBuried(d) /\ AnswerIsWritten(d)

OutcomeInv == \A d \in Deliveries \ overlapped : HeldOnce(d) /\ Outcome(d)

\* The steps of other deliveries leave the outcome of d as it is.
LEMMA OutcomeStays ==
    ASSUME BaseInv, [Next]_vars, ~CrashInMemory, NEW d \in Deliveries, Outcome(d), Spares(d),
           \A q \in Runs : AtHead(q, d, "bury")' => AtHead(q, d, "bury"),
           \A q \in Runs : AtHead(q, d, "accepted")' => AtHead(q, d, "accepted"),
           failures' = 0 =>
              /\ failures = 0
              /\ \A q \in Runs : AtHead(q, d, "bury") => AtHead(q, d, "bury")'
              /\ \A q \in Runs : AtHead(q, d, "accepted") => AtHead(q, d, "accepted")'
    PROVE  Outcome(d)'
<1>1. /\ row'[d] = row[d] /\ deadLetters'[d] = deadLetters[d]
      /\ d \in accepted' <=> d \in accepted
      /\ d \in acceptedAgain' <=> d \in acceptedAgain
      /\ OutOfAttempts(d)' <=> OutOfAttempts(d)
  BY DEF Spares, OutOfAttempts
<1>2. Settled(d) /\ InNoHands(d) => InNoHands(d)'
  BY SettledStays
<1>3. SuccessIsLast(d)'
  BY <1>1, <1>2 DEF Outcome, SuccessIsLast, Settled
<1>4. BuriedIsLast(d)'
  BY <1>1, <1>2 DEF Outcome, BuriedIsLast, Settled
<1>5. BurialIsDue(d)'
  BY <1>1 DEF Outcome, BurialIsDue
<1>6. FailureIsBuried(d)'
  BY <1>1 DEF Outcome, FailureIsBuried
<1>7. AnswerIsWritten(d)'
  BY <1>1 DEF Outcome, AnswerIsWritten
<1> QED
  BY <1>3, <1>4, <1>5, <1>6, <1>7 DEF Outcome

LEMMA HeldNext ==
    ASSUME BaseInv, SentInv, OutcomeInv, [Next]_vars, NEW d \in Deliveries \ overlapped'
    PROVE  HeldOnce(d)' /\ d \notin overlapped
<1>1. overlapped \subseteq overlapped'
  <2>1. ASSUME NEW r \in Runs, RunStep(r) \/ StoreFails(r)
        PROVE  overlapped' = overlapped
    BY <2>1, StepIsLocal DEF BaseInv
  <2> QED
    BY <2>1, OtherSteps DEF BaseInv, Dispatch, Sweep, CrashInMemory
<1>2. HeldOnce(d)
  BY <1>1 DEF OutcomeInv
<1>3. ASSUME HandsFollow
      PROVE  HeldOnce(d)'
  BY <1>2, <1>3, FollowKeepsHeld DEF BaseInv
<1>4. ASSUME NEW r \in Runs, Takes(r), Distinct(runs'[r]),
             HasInHand(r, d)' => \A q \in Runs \ {r} : ~HasInHand(q, d)
      PROVE  HeldOnce(d)'
  <2>1. \A q \in Runs \ {r} : \A i : Slot(q, i, d)' => Slot(q, i, d) /\ HasInHand(q, d)
    BY <1>4 DEF Takes, Slot, HasInHand
  <2>2. \A i : Slot(r, i, d)' => HasInHand(r, d)'
    BY DEF Slot, HasInHand
  <2>3. \A i, j : Slot(r, i, d)' /\ Slot(r, j, d)' => i = j
    BY <1>4 DEF Distinct, Slot
  <2> SUFFICES ASSUME NEW p \in Runs, NEW q \in Runs, NEW i \in Nat, NEW j \in Nat,
                      Slot(p, i, d)', Slot(q, j, d)'
               PROVE  p = q /\ i = j
    BY DEF HeldOnce
  <2>4. CASE p = r \/ q = r
    BY <1>4, <2>1, <2>2, <2>3, <2>4
  <2>5. CASE p # r /\ q # r
    BY <1>2, <2>1, <2>5 DEF HeldOnce
  <2> QED
    BY <2>4, <2>5
<1>5. ASSUME NEW r \in Runs, NEW e \in Events, Dispatch(r, e)
      PROVE  HeldOnce(d)'
  <2>1. /\ Takes(r) /\ Distinct(runs'[r])
        /\ \A i \in DOMAIN runs'[r].todo : runs'[r].todo[i].d \in {e} \X Subscribers
    BY <1>5, DispatchTakes DEF BaseInv
  <2>2. HasInHand(r, d)' => d[1] = e
    BY <2>1 DEF HasInHand
  <2>3. \A q \in Runs : HasInHand(q, d) => d[1] # e
    BY <1>5 DEF Dispatch, BaseInv, KnownInv
  <2> QED
    BY <1>4, <2>1, <2>2, <2>3
<1>6. ASSUME NEW r \in Runs, Sweep(r)
      PROVE  HeldOnce(d)'
  <2>1. /\ Takes(r) /\ Distinct(runs'[r])
        /\ \A i \in DOMAIN runs'[r].todo :
              \A q \in Runs \ {r} : HasInHand(q, runs'[r].todo[i].d) =>
                                      runs'[r].todo[i].d \in overlapped'
    BY <1>6, SweepTakes DEF BaseInv, SentInv, OrderInv
  <2>2. HasInHand(r, d)' => \A q \in Runs \ {r} : ~HasInHand(q, d)
    BY <2>1 DEF HasInHand
  <2> QED
    BY <1>4, <2>1, <2>2
<1>7. HeldOnce(d)'
  BY <1>3, <1>5, <1>6, OtherSteps, RunStepFollows, CrashFollows DEF BaseInv
<1>8. d \notin overlapped
  BY <1>1
<1> QED
  BY <1>7, <1>8

\* The other runs are not at d; what becomes of d shows at run r alone.
LEMMA OwnOutcome ==
    ASSUME NEW r \in Runs, NEW d,
           \A q \in Runs \ {r} : ~HasInHand(q, d)' /\ \A s : ~AtHead(q, d, s)',
           row'[d].status = "success" => ~HasInHand(r, d)',
           deadLetters'[d] # 0 =>
              deadLetters'[d] = 1 /\ OutOfAttempts(d)' /\ ~HasInHand(r, d)',
           AtHead(r, d, "bury")' => OutOfAttempts(d)',
           failures' = 0 /\ OutOfAttempts(d)' =>
              deadLetters'[d] = 1 \/ AtHead(r, d, "bury")',
           failures' = 0 =>
              /\ d \notin acceptedAgain'
              /\ d \in accepted' <=> row'[d].status = "success" \/ AtHead(r, d, "accepted")'
    PROVE  Outcome(d)'
<1>1. /\ (\E q \in Runs : AtHead(q, d, "bury")') <=> AtHead(r, d, "bury")'
      /\ (\E q \in Runs : AtHead(q, d, "accepted")') <=> AtHead(r, d, "accepted")'
      /\ InNoHands(d)' <=> ~HasInHand(r, d)'
  BY DEF InNoHands
<1>2. SuccessIsLast(d)' /\ BuriedIsLast(d)'
  BY <1>1 DEF SuccessIsLast, BuriedIsLast
<1>3. BurialIsDue(d)'
  BY DEF BurialIsDue
<1>4. FailureIsBuried(d)' /\ AnswerIsWritten(d)'
  BY <1>1 DEF FailureIsBuried, AnswerIsWritten
<1> QED
  BY <1>2, <1>3, <1>4 DEF Outcome

LEMMA OwnStep ==
    ASSUME BaseInv, NEW r \in Runs, RunStep(r) \/ StoreFails(r),
           NEW d \in Deliveries, Busy(r), d = Current(r), HeldOnce(d), Outcome(d)
    PROVE  Outcome(d)'
<1> USE DEF BaseInv
<1>1. Slot(r, 1, d) /\ HasInHand(r, d) /\ Attempt(r) \in Nat
  BY AttemptType DEF Slot
<1>2. \A q \in Runs \ {r} : ~HasInHand(q, d) /\ \A s : ~AtHead(q, d, s)
  <2>1. \A q \in Runs \ {r} : ~HasInHand(q, d)
    <3>1. \A q \in Runs \ {r} : \A i : ~Slot(q, i, d)
      BY <1>1, SlotsOfHands DEF HeldOnce
    <3> QED
      BY <3>1 DEF HasInHand, Slot
  <2> QED
    BY <2>1, AttemptType DEF AtHead, At
<1>3. \A q \in Runs \ {r} : runs'[q] = runs[q]
  BY StepIsLocal
<1>4. \A q \in Runs \ {r} : ~HasInHand(q, d)' /\ \A s : ~AtHead(q, d, s)'
  BY <1>2, <1>3 DEF HasInHand, AtHead, At, Busy, Current
<1>5. /\ row[d].status # "success" /\ deadLetters[d] = 0
      /\ runs[r].step = "bury" => OutOfAttempts(d)
      /\ failures = 0 =>
            /\ OutOfAttempts(d) => runs[r].step = "bury"
            /\ d \notin acceptedAgain
            /\ d \in accepted <=> runs[r].step = "accepted"
  <2>1. ~InNoHands(d)
    BY <1>1 DEF InNoHands
  <2>2. \A s : AtHead(r, d, s) <=> runs[r].step = s
    BY DEF AtHead, At
  <2>3. row[d].status # "success" /\ deadLetters[d] = 0
    BY <2>1 DEF Outcome, SuccessIsLast, BuriedIsLast
  <2>4. runs[r].step = "bury" => OutOfAttempts(d)
    BY <2>2 DEF Outcome, BurialIsDue
  <2>5. failures = 0 /\ OutOfAttempts(d) => runs[r].step = "bury"
    BY <1>2, <2>2, <2>3 DEF Outcome, FailureIsBuried
  <2>6. failures = 0 =>
            /\ d \notin acceptedAgain
            /\ d \in accepted <=> runs[r].step = "accepted"
    BY <1>2, <2>2, <2>3 DEF Outcome, AnswerIsWritten
  <2> QED
    BY <2>3, <2>4, <2>5, <2>6
<1>6. ASSUME runs'[r] = AfterCurrent(r) \/ runs'[r] = Idle
      PROVE  ~HasInHand(r, d)' /\ \A s \in {"bury", "accepted"} : ~AtHead(r, d, s)'
  <2>1. ~HasInHand(r, d)'
    BY <1>6, DroppedIsGone
  <2>2. runs'[r].step = "next"
    BY <1>6, AfterShifts DEF Idle
  <2> QED
    BY <2>1, <2>2 DEF AtHead, At
<1>7. ASSUME NEW s \in Steps \ {"next"}, Goto(r, s)
      PROVE  \A t : AtHead(r, d, t)' <=> t = s
  <2>1. runs'[r] = [runs[r] EXCEPT !.step = s] /\ runs[r] \in RunType
    BY <1>7 DEF Goto, RunsInv
  <2>2. runs'[r].step = s /\ runs'[r].kind = runs[r].kind /\ runs'[r].todo = runs[r].todo
    BY <2>1 DEF RunType
  <2> QED
    BY <2>2 DEF AtHead, At, Busy, Current
<1>8. ASSUME runs'[r].step = "post" \/ runs'[r].step = "backoff" \/ runs'[r].step = "refused"
      PROVE  \A s \in {"bury", "accepted"} : ~AtHead(r, d, s)'
  BY <1>8 DEF AtHead, At
<1>9. \A s, a :
         row' = [row EXCEPT ![d] = [status |-> s, attempt |-> a]] =>
            row'[d].status = s /\ row'[d].attempt = a
  BY DEF RowsInv
<1>10. MaxRetries \in Nat \ {0}
  BY DeliveryAssumption
<1>11. CASE Record(r)
  <2>1. /\ runs[r].step = "next" /\ Goto(r, "post")
        /\ row' = [row EXCEPT ![d] = [status |-> "pending", attempt |-> 0]]
        /\ UNCHANGED <<deadLetters, accepted, acceptedAgain, failures>>
    BY <1>11 DEF Record, RecordDelivery, At, answers
  <2>2. row'[d].status = "pending"
    BY <1>9, <2>1
  <2>3. ~AtHead(r, d, "bury")' /\ ~AtHead(r, d, "accepted")'
    BY <1>7, <2>1 DEF Steps
  <2> QED
    BY <1>4, <1>5, <2>1, <2>2, <2>3, OwnOutcome DEF OutOfAttempts
<1>12. CASE LookUp(r) \/ Backoff(r) \/ PostRefused(r)
  <2>1. /\ runs[r].step \in {"next", "backoff", "post"}
        /\ UNCHANGED <<row, deadLetters, accepted, acceptedAgain, failures>>
    BY <1>12 DEF LookUp, Backoff, PostRefused, At, answers, rowVars
  <2>2. ~AtHead(r, d, "bury")' /\ ~AtHead(r, d, "accepted")'
    <3>1. CASE PostRefused(r)
      BY <1>7, <3>1 DEF PostRefused, Steps
    <3>2. CASE LookUp(r) \/ Backoff(r)
      <4>1. LookUp(r) =>
              \/ runs'[r] = AfterCurrent(r)
              \/ runs'[r] = [runs[r] EXCEPT !.step = "post",
                                     !.todo[1].attempt = NextAttempt(Current(r), Attempt(r))]
        BY DEF LookUp, RunsInv
      <4>2. Backoff(r) =>
              runs'[r] = [runs[r] EXCEPT !.step = "post",
                                         !.todo[1].attempt = runs[r].todo[1].attempt + 1]
        BY DEF Backoff, RunsInv
      <4>3. runs[r] \in RunType
        BY DEF RunsInv
      <4>4. \A a : [runs[r] EXCEPT !.step = "post", !.todo[1].attempt = a].step = "post"
        BY <4>3 DEF RunType
      <4> QED
        BY <1>6, <1>8, <3>2, <4>1, <4>2, <4>4
    <3> QED
      BY <1>12, <3>1, <3>2
  <2>3. OutOfAttempts(d)' <=> OutOfAttempts(d)
    BY <2>1 DEF OutOfAttempts
  <2> QED
    BY <1>4, <1>5, <2>1, <2>2, <2>3, OwnOutcome
<1>13. CASE PostAccepted(r)
  <2>1. /\ runs[r].step = "post" /\ Goto(r, "accepted")
        /\ UNCHANGED <<row, deadLetters, failures>>
        /\ accepted' = accepted \cup {d} /\ acceptedAgain' = acceptedAgain \cup ({d} \cap accepted)
    BY <1>13 DEF PostAccepted, At, rowVars
  <2>2. ~AtHead(r, d, "bury")' /\ AtHead(r, d, "accepted")'
    BY <1>7, <2>1 DEF Steps
  <2>3. OutOfAttempts(d)' <=> OutOfAttempts(d)
    BY <2>1 DEF OutOfAttempts
  <2> QED
    BY <1>4, <1>5, <2>1, <2>2, <2>3, OwnOutcome
<1>14. CASE WriteSuccess(r)
  <2>1. /\ runs[r].step = "accepted" /\ runs'[r] = AfterCurrent(r)
        /\ row' = [row EXCEPT ![d] = [status |-> "success", attempt |-> Attempt(r)]]
        /\ UNCHANGED <<deadLetters, accepted, acceptedAgain, failures>>
    BY <1>14 DEF WriteSuccess, UpdateStatus, UpdateDeliveryStatus, At, answers, RunsInv
  <2>2. row'[d].status = "success"
    BY <1>9, <2>1
  <2>3. ~AtHead(r, d, "bury")' /\ ~AtHead(r, d, "accepted")' /\ ~HasInHand(r, d)'
    BY <1>6, <2>1
  <2> QED
    BY <1>4, <1>5, <2>1, <2>2, <2>3, OwnOutcome DEF OutOfAttempts
<1>15. CASE WriteRetry(r)
  <2>1. /\ runs[r].step = "refused" /\ Goto(r, "backoff")
        /\ row' = [row EXCEPT ![d] = [status |-> "pending", attempt |-> Attempt(r)]]
        /\ UNCHANGED <<deadLetters, accepted, acceptedAgain, failures>>
    BY <1>15 DEF WriteRetry, UpdateStatus, UpdateDeliveryStatus, At, answers
  <2>2. row'[d].status = "pending"
    BY <1>9, <2>1
  <2>3. ~AtHead(r, d, "bury")' /\ ~AtHead(r, d, "accepted")'
    BY <1>7, <2>1 DEF Steps
  <2> QED
    BY <1>4, <1>5, <2>1, <2>2, <2>3, OwnOutcome DEF OutOfAttempts
<1>16. CASE WriteFailure(r)
  <2>1. /\ runs[r].step = "refused" /\ Goto(r, "bury") /\ ~(Attempt(r) < MaxRetries)
        /\ row' = [row EXCEPT ![d] = [status |-> "failed", attempt |-> Attempt(r)]]
        /\ UNCHANGED <<deadLetters, accepted, acceptedAgain, failures>>
    BY <1>16 DEF WriteFailure, MayRetry, UpdateStatus, UpdateDeliveryStatus, At, answers
  <2>2. row'[d].status = "failed" /\ row'[d].attempt = Attempt(r)
    BY <1>9, <2>1
  <2>3. AtHead(r, d, "bury")' /\ ~AtHead(r, d, "accepted")'
    BY <1>7, <2>1 DEF Steps
  <2>4. row'[d].attempt >= MaxRetries
    BY <1>1, <1>10, <2>1, <2>2
  <2>5. OutOfAttempts(d)'
    BY <2>2, <2>4 DEF OutOfAttempts
  <2> QED
    BY <1>4, <1>5, <2>1, <2>2, <2>3, <2>5, OwnOutcome
<1>17. CASE SendToDeadLetter(r)
  <2>1. /\ runs[r].step = "bury" /\ runs'[r] = AfterCurrent(r)
        /\ deadLetters' = [deadLetters EXCEPT ![d] = @ + 1]
        /\ UNCHANGED <<row, accepted, acceptedAgain, failures>>
    BY <1>17 DEF SendToDeadLetter, InsertDeadLetter, At, answers, RunsInv
  <2>2. deadLetters'[d] = 1
    BY <1>5, <2>1 DEF RowsInv
  <2>3. ~AtHead(r, d, "bury")' /\ ~AtHead(r, d, "accepted")' /\ ~HasInHand(r, d)'
    BY <1>6, <2>1
  <2>4. OutOfAttempts(d)'
    BY <1>5, <2>1 DEF OutOfAttempts
  <2> QED
    BY <1>4, <1>5, <2>1, <2>2, <2>3, <2>4, OwnOutcome
<1>18. CASE StoreFails(r)
  <2>1. /\ failures' # 0
        /\ UNCHANGED <<row, deadLetters, accepted, acceptedAgain>>
        /\ \/ Goto(r, "refused")
           \/ runs'[r] = AfterCurrent(r) \/ runs'[r] = Idle
    BY <1>18 DEF StoreFails, RowsInv, rowVars, answers, RunsInv
  <2>2. ~AtHead(r, d, "bury")'
    BY <1>6, <1>7, <2>1 DEF Steps
  <2> QED
    BY <1>4, <1>5, <2>1, <2>2, OwnOutcome
<1> QED
  BY <1>11, <1>12, <1>13, <1>14, <1>15, <1>16, <1>17, <1>18 DEF RunStep

LEMMA OutcomeNext == BaseInv /\ SentInv /\ OutcomeInv /\ [Next]_vars => OutcomeInv'
<1> SUFFICES ASSUME BaseInv, SentInv, OutcomeInv, [Next]_vars PROVE OutcomeInv'
  OBVIOUS
<1> SUFFICES ASSUME NEW d \in Deliveries \ overlapped'
             PROVE  HeldOnce(d)' /\ Outcome(d)'
  BY DEF OutcomeInv
<1>1. HeldOnce(d)' /\ HeldOnce(d) /\ Outcome(d)
  BY HeldNext DEF OutcomeInv
<1>2. ASSUME NEW r \in Runs, Takes(r), ~Busy(r), runs'[r].step = "next", ~CrashInMemory,
             Spares(d), failures' = failures
      PROVE  Outcome(d)'
  <2>1. \A s \in {"bury", "accepted"} : ~AtHead(r, d, s) /\ ~AtHead(r, d, s)'
    BY <1>2 DEF AtHead, At
  <2>2. \A q \in Runs \ {r} : \A s : AtHead(q, d, s)' <=> AtHead(q, d, s)
    BY <1>2 DEF Takes, AtHead, At, Busy, Current
  <2> QED
    BY <1>1, <1>2, <2>1, <2>2, OutcomeStays
<1>3. CASE CrashInMemory
  <2>1. /\ \A q \in Runs : runs'[q] = Idle
        /\ row'[d] = NoRow /\ deadLetters'[d] = 0 /\ failures' # 0
    BY <1>3 DEF CrashInMemory, BaseInv, RowsInv
  <2>2. \A q \in Runs : \A s : ~AtHead(q, d, s)'
    BY <2>1 DEF AtHead, At, Busy, Idle
  <2> QED
    BY <1>1, <2>1, <2>2 DEF Outcome, SuccessIsLast, BuriedIsLast, BurialIsDue,
         FailureIsBuried, AnswerIsWritten, NoRow
<1>4. ASSUME NEW r \in Runs, NEW e \in Events, Dispatch(r, e), ~CrashInMemory
      PROVE  Outcome(d)'
  <2>1. Takes(r) /\ runs'[r].step = "next"
    BY <1>4, DispatchTakes DEF BaseInv
  <2>2. ~Busy(r) /\ Spares(d) /\ failures' = failures
    BY <1>4 DEF Dispatch, Spares, rowVars, answers
  <2> QED
    BY <1>2, <1>4, <2>1, <2>2
<1>5. ASSUME NEW r \in Runs, Sweep(r), ~CrashInMemory
      PROVE  Outcome(d)'
  <2>1. Takes(r) /\ runs'[r].step = "next"
    BY <1>5, SweepTakes DEF BaseInv
  <2>2. ~Busy(r) /\ Spares(d) /\ failures' = failures
    BY <1>5 DEF Sweep, Spares, rowVars, answers
  <2> QED
    BY <1>2, <1>5, <2>1, <2>2
<1>6. ASSUME NEW r \in Runs, RunStep(r) \/ StoreFails(r), ~CrashInMemory
      PROVE  Outcome(d)'
  <2>1. /\ Busy(r) /\ \A q \in Runs \ {r} : runs'[q] = runs[q]
        /\ \A c \in Deliveries \ {Current(r)} : Spares(c)
        /\ failures' = failures \/ failures' > failures
    BY <1>6, StepIsLocal DEF BaseInv
  <2>2. CASE d = Current(r)
    BY <1>1, <1>6, <2>1, <2>2, OwnStep
  <2>3. CASE d # Current(r)
    <3>1. \A q \in Runs \ {r} : \A s : AtHead(q, d, s)' <=> AtHead(q, d, s)
      BY <2>1 DEF AtHead, At, Busy, Current
    <3>2. \A s : ~AtHead(r, d, s)
      BY <2>3 DEF AtHead
    <3>3. \A s \in {"bury", "accepted"} : ~AtHead(r, d, s)'
      <4>1. CASE runs'[r].step = "next"
        BY <4>1 DEF AtHead, At
      <4>2. CASE runs'[r].step # "next"
        <5>1. Current(r)' = Current(r)
          BY <1>6, <2>1, <4>2, GoesOnOrDrops, AfterShifts DEF BaseInv, Idle
        <5> QED
          BY <2>3, <5>1 DEF AtHead
      <4> QED
        BY <4>1, <4>2
    <3>4. failures' = 0 => failures = 0
      BY <2>1 DEF BaseInv, RowsInv
    <3>5. Spares(d)
      BY <2>1, <2>3
    <3> QED
      BY <1>1, <1>6, <3>1, <3>2, <3>3, <3>4, <3>5, OutcomeStays
  <2> QED
    BY <2>2, <2>3
<1>7. ASSUME UNCHANGED <<rowVars, answers>>, ~CrashInMemory,
             failures' \in Nat, failures' >= failures, UNCHANGED runs \/ failures' > failures,
             \A q \in Runs : runs'[q] \in {runs[q], Idle}
      PROVE  Outcome(d)'
  <2>1. \A q \in Runs : \A s : AtHead(q, d, s)' => AtHead(q, d, s)
    BY <1>7 DEF AtHead, At, Busy, Current, Idle
  <2>2. failures' = 0 =>
           failures = 0 /\ \A q \in Runs : \A s : AtHead(q, d, s) => AtHead(q, d, s)'
    <3>1. failures' = 0 => failures = 0 /\ UNCHANGED runs
      BY <1>7 DEF BaseInv, RowsInv
    <3> QED
      BY <3>1 DEF AtHead, At, Busy, Current
  <2>3. Spares(d)
    BY <1>7 DEF Spares, rowVars, answers
  <2> QED
    BY <1>1, <1>7, <2>1, <2>2, <2>3, OutcomeStays
<1> QED
  BY <1>1, <1>3, <1>4, <1>5, <1>6, <1>7, OtherSteps DEF BaseInv

LEMMA OutcomeHolds == Spec => []OutcomeInv
<1>1. Init => OutcomeInv
  <2> SUFFICES ASSUME Init, NEW d \in Deliveries
               PROVE  HeldOnce(d) /\ Outcome(d)
    BY DEF OutcomeInv
  <2>1. \A r \in Runs : runs[r] = Idle
    BY DEF Init
  <2>2. \A r \in Runs : \A s : ~AtHead(r, d, s)
    BY <2>1 DEF AtHead, At, Busy, Idle
  <2>3. HeldOnce(d)
    BY <2>1, EmptyHand DEF HeldOnce, Idle
  <2>4. row[d] = NoRow /\ deadLetters[d] = 0 /\ d \notin accepted /\ d \notin acceptedAgain
    BY DEF Init
  <2> QED
    BY <2>2, <2>3, <2>4 DEF Outcome, SuccessIsLast, BuriedIsLast, BurialIsDue,
         FailureIsBuried, AnswerIsWritten, OutOfAttempts, NoRow
<1> QED
  BY <1>1, OutcomeNext, BaseHolds, SentHolds, PTL DEF Spec

(***************************************************************************)
(* For every number of events, webhooks, runs, attempts and rows a sweep   *)
(* reads: without a crash or a failed statement, a delivery that no two    *)
(* runs had in hand at once is accepted at most once, and exactly when it  *)
(* is recorded as delivered or about to be.                                *)
(***************************************************************************)
THEOREM NoSecondDelivery == Spec => []AcceptedOnce
<1>1. OutcomeInv => AcceptedOnce
  BY DEF OutcomeInv, Outcome, AnswerIsWritten, AcceptedOnce, AtHead
<1> QED
  BY <1>1, OutcomeHolds, PTL

(***************************************************************************)
(* A dead letter is written once, of a delivery that has used up its       *)
(* attempts, and of every such delivery unless a step failed.              *)
(***************************************************************************)
THEOREM OneDeadLetter == Spec => []DeadLettersMatchRows
<1>1. BaseInv /\ OutcomeInv => DeadLettersMatchRows
  <2> SUFFICES ASSUME BaseInv, OutcomeInv, NEW d \in Deliveries \ overlapped
               PROVE  /\ deadLetters[d] <= 1
                      /\ deadLetters[d] = 1 => OutOfAttempts(d)
                      /\ OutOfAttempts(d) /\ InNoHands(d) /\ failures = 0 => deadLetters[d] = 1
    BY DEF DeadLettersMatchRows
  <2>1. Outcome(d)
    BY DEF OutcomeInv
  <2>2. deadLetters[d] = 0 \/ deadLetters[d] = 1
    BY <2>1 DEF Outcome, BuriedIsLast
  <2>3. deadLetters[d] = 1 => OutOfAttempts(d)
    BY <2>1 DEF Outcome, BuriedIsLast
  <2>4. InNoHands(d) => \A r \in Runs : \A s : ~AtHead(r, d, s)
    BY AttemptType DEF InNoHands, AtHead, At, BaseInv
  <2>5. OutOfAttempts(d) /\ InNoHands(d) /\ failures = 0 => deadLetters[d] = 1
    BY <2>1, <2>4 DEF Outcome, FailureIsBuried
  <2> QED
    BY <2>2, <2>3, <2>5
<1> QED
  BY <1>1, BaseHolds, OutcomeHolds, PTL
-----------------------------------------------------------------------------
(***************************************************************************)
(* How far the attempts go. In PostgreSQL a pending row has an attempt     *)
(* left, so whoever takes it up, from whatever it read and however late,   *)
(* takes up one of maxRetries; the retry after a backoff is one of them.   *)
(***************************************************************************)
BoundedRow(x) ==
    /\ x.attempt \in Attempts
    /\ store = "postgres" /\ x.status = "pending" => x.attempt < MaxRetries

BoundedRun(x) ==
    /\ \A i \in DOMAIN x.todo : x.todo[i].attempt \in Attempts \ {0}
    /\ x.step = "backoff" /\ store = "postgres" /\ x.todo # <<>> =>
          x.todo[1].attempt < MaxRetries

AttemptsInv ==
    /\ \A d \in Deliveries : BoundedRow(row[d])
    /\ \A r \in Runs : BoundedRun(runs[r])

AroundInv ==
    /\ store \in Stores
    /\ unsubscribed \subseteq Subscribers
    /\ aged \subseteq Ordered /\ (store = "memory" => aged = {})
    /\ acceptedAgain \subseteq accepted /\ accepted \subseteq Deliveries
    /\ overlapped \subseteq Deliveries
    /\ failures <= MaxFailures

LEMMA AttemptsAreNumbers ==
    /\ Attempts \subseteq Nat /\ 0 \in Attempts /\ 1 \in Attempts
    /\ store = "postgres" => \A a \in Nat : a \in Attempts <=> a <= MaxRetries
    /\ store # "postgres" => Attempts = Nat
  BY DeliveryAssumption DEF Attempts

LEMMA IdleIsBounded == BoundedRun(Idle)
<1>1. DOMAIN <<>> = {}
  OBVIOUS
<1> QED
  BY <1>1 DEF BoundedRun, Idle

LEMMA SameHandBounded ==
    ASSUME NEW y, NEW s \in Steps, GoodRun(y), BoundedRun(y),
           s = "backoff" /\ store = "postgres" => y.todo[1].attempt < MaxRetries
    PROVE  BoundedRun([y EXCEPT !.step = s])
<1> DEFINE x == [y EXCEPT !.step = s]
<1>1. x.todo = y.todo /\ x.step = s
  BY DEF GoodRun, RunType
<1> HIDE DEF x
<1>2. BoundedRun(x)
  BY <1>1 DEF BoundedRun
<1> QED
  BY <1>2 DEF x

LEMMA NextAttemptBounded ==
    ASSUME NEW y, NEW a \in Attempts \ {0}, GoodRun(y), BoundedRun(y), y.todo # <<>>
    PROVE  BoundedRun([y EXCEPT !.step = "post", !.todo[1].attempt = a])
<1> DEFINE x == [y EXCEPT !.step = "post", !.todo[1].attempt = a]
           E == [d : Deliveries, attempt : Nat]
           todo == [y.todo EXCEPT ![1].attempt = a]
<1>1. y \in RunType /\ y.todo \in Seq(E)
  BY DEF GoodRun, RunType
<1>2. 1 \in DOMAIN y.todo /\ y.todo[1] \in E
  <2> HIDE DEF E
  <2> QED
    BY <1>1
<1>3. /\ DOMAIN todo = DOMAIN y.todo
      /\ todo[1].attempt = a
      /\ \A i \in DOMAIN todo \ {1} : todo[i] = y.todo[i]
  <2>1. [y.todo[1] EXCEPT !.attempt = a].attempt = a
    BY <1>2
  <2> QED
    BY <1>1, <1>2, <2>1
<1>4. x.todo = todo /\ x.step = "post"
  BY <1>1 DEF RunType
<1> HIDE DEF x, todo
<1>5. BoundedRun(x)
  BY <1>3, <1>4 DEF BoundedRun
<1> QED
  BY <1>5 DEF x

LEMMA AfterBounded ==
    ASSUME RunsInv, NEW r \in Runs, Busy(r), BoundedRun(runs[r])
    PROVE  BoundedRun(AfterCurrent(r))
<1> DEFINE y == runs[r]
           E == [d : Deliveries, attempt : Nat]
<1>1. y \in RunType /\ y.todo \in Seq(E) /\ y.todo # <<>>
  BY DEF RunsInv, RunType, Busy
<1>2. CASE Len(y.todo) = 1
  BY <1>2, IdleIsBounded DEF AfterCurrent
<1>3. CASE Len(y.todo) # 1
  <2> DEFINE x == [y EXCEPT !.todo = Tail(@), !.step = "next"]
  <2>1. AfterCurrent(r) = x
    BY <1>3 DEF AfterCurrent
  <2>2. x.todo = Tail(y.todo) /\ x.step = "next"
    BY <1>1 DEF RunType
  <2>3. \A j \in DOMAIN Tail(y.todo) :
           j + 1 \in DOMAIN y.todo /\ Tail(y.todo)[j] = y.todo[j + 1]
    <3> HIDE DEF E, y
    <3>1. PICK t \in Seq(E) : t = y.todo /\ t # <<>>
      BY <1>1
    <3>2. Len(Tail(t)) = Len(t) - 1 /\ Tail(t) \in Seq(E)
      BY <3>1
    <3> QED
      BY <3>1, <3>2
  <2> HIDE DEF x, y
  <2>4. BoundedRun(x)
    BY <2>2, <2>3 DEF BoundedRun, y
  <2> QED
    BY <2>1, <2>4
<1> QED
  BY <1>2, <1>3

LEMMA StepKeepsBounds ==
    ASSUME RunsInv, RowsInv, AttemptsInv, NEW r \in Runs, RunStep(r) \/ StoreFails(r)
    PROVE  AttemptsInv'
<1>1. Busy(r) /\ store' = store /\ Attempts' = Attempts
  BY StepIsLocal DEF Attempts
<1>2. /\ Current(r) \in Deliveries /\ runs[r].todo # <<>>
      /\ Attempt(r) \in Attempts \ {0} /\ Attempt(r) = runs[r].todo[1].attempt
      /\ 1 \in DOMAIN runs[r].todo
  BY <1>1, AttemptType DEF AttemptsInv, BoundedRun
<1>4. GoodRun(runs[r]) /\ BoundedRun(runs[r]) /\ BoundedRun(AfterCurrent(r)) /\ BoundedRun(Idle)
  BY <1>1, RunsAreGood, AfterBounded, IdleIsBounded DEF AttemptsInv
<1>5. BoundedRun(runs'[r])
  <2>1. CASE \/ runs' = [runs EXCEPT ![r] = AfterCurrent(r)]
             \/ runs' = [runs EXCEPT ![r] = Idle]
    BY <2>1, <1>4 DEF RunsInv
  <2>2. ASSUME NEW s \in Steps \ {"backoff"}, Goto(r, s)
        PROVE  BoundedRun(runs'[r])
    <3>1. runs'[r] = [runs[r] EXCEPT !.step = s]
      BY <2>2 DEF Goto, RunsInv
    <3> QED
      BY <1>4, <3>1, SameHandBounded
  <2>3. ASSUME NEW a \in Attempts \ {0},
               runs' = [runs EXCEPT ![r] = [runs[r] EXCEPT !.step = "post", !.todo[1].attempt = a]]
        PROVE  BoundedRun(runs'[r])
    <3>1. runs'[r] = [runs[r] EXCEPT !.step = "post", !.todo[1].attempt = a]
      BY <2>3 DEF RunsInv
    <3>2. BoundedRun([runs[r] EXCEPT !.step = "post", !.todo[1].attempt = a])
      BY <1>2, <1>4, NextAttemptBounded
    <3> QED
      BY <3>1, <3>2
  <2>4. CASE LookUp(r)
    <3> DEFINE a == NextAttempt(Current(r), Attempt(r))
    <3>1. a \in Attempts \ {0}
      <4>1. row[Current(r)].attempt + 1 \in Nat \ {0}
        BY <1>2 DEF RowsInv
      <4> QED
        BY <1>2, <4>1, AttemptsAreNumbers DEF NextAttempt
    <3>2. \/ runs' = [runs EXCEPT ![r] = AfterCurrent(r)]
          \/ runs' = [runs EXCEPT ![r] = [runs[r] EXCEPT !.step = "post", !.todo[1].attempt = a]]
      BY <2>4 DEF LookUp
    <3> HIDE DEF a
    <3> QED
      BY <2>1, <2>3, <3>1, <3>2
  <2>5. CASE Backoff(r)
    <3> DEFINE a == runs[r].todo[1].attempt + 1
    <3>1. a \in Attempts \ {0}
      <4>1. store = "postgres" => Attempt(r) < MaxRetries
        BY <2>5, <1>2, <1>4 DEF Backoff, At, BoundedRun
      <4>2. Attempt(r) \in Nat /\ MaxRetries \in Nat
        BY <1>1, AttemptType, DeliveryAssumption
      <4>3. Attempt(r) + 1 \in Nat \ {0}
            /\ (store = "postgres" => Attempt(r) + 1 <= MaxRetries)
        BY <4>1, <4>2
      <4> QED
        BY <1>2, <4>3, AttemptsAreNumbers
    <3>2. runs' = [runs EXCEPT ![r] = [runs[r] EXCEPT !.step = "post", !.todo[1].attempt = a]]
      BY <2>5 DEF Backoff
    <3> HIDE DEF a
    <3> QED
      BY <2>3, <3>1, <3>2
  <2>6. CASE WriteRetry(r)
    <3>1. runs'[r] = [runs[r] EXCEPT !.step = "backoff"]
      BY <2>6 DEF WriteRetry, Goto, RunsInv
    <3>2. runs[r].todo[1].attempt < MaxRetries /\ "backoff" \in Steps
      BY <2>6, <1>2 DEF WriteRetry, MayRetry, Steps
    <3> QED
      BY <1>4, <3>1, <3>2, SameHandBounded
  <2>7. CASE Record(r) \/ PostAccepted(r) \/ PostRefused(r) \/ WriteFailure(r)
    BY <2>7, <2>2 DEF Record, PostAccepted, PostRefused, WriteFailure, Steps
  <2>8. CASE WriteSuccess(r) \/ SendToDeadLetter(r)
    BY <2>8, <2>1 DEF WriteSuccess, SendToDeadLetter
  <2>9. CASE StoreFails(r)
    <3>1. "refused" \in Steps \ {"backoff"}
      BY DEF Steps
    <3>2. \/ Goto(r, "refused") \/ runs' = [runs EXCEPT ![r] = Idle]
          \/ runs' = [runs EXCEPT ![r] = AfterCurrent(r)]
      BY <2>9 DEF StoreFails
    <3> QED
      BY <3>1, <3>2, <2>1, <2>2
  <2> QED
    BY <2>4, <2>5, <2>6, <2>7, <2>8, <2>9 DEF RunStep
<1>6. BoundedRow(row'[Current(r)])
  <2>1. ASSUME NEW status \in Statuses, NEW a \in Attempts,
               row' = [row EXCEPT ![Current(r)] = [status |-> status, attempt |-> a]],
               status = "pending" /\ store = "postgres" => a < MaxRetries
        PROVE  BoundedRow(row'[Current(r)])
    <3>1. row'[Current(r)] = [status |-> status, attempt |-> a]
      BY <2>1, <1>2 DEF RowsInv
    <3> QED
      BY <2>1, <3>1 DEF BoundedRow
  <2>2. CASE row' = row
    BY <2>2, <1>2 DEF AttemptsInv
  <2>3. CASE Record(r)
    <3>1. row' = [row EXCEPT ![Current(r)] = [status |-> "pending", attempt |-> 0]]
      BY <2>3 DEF Record, RecordDelivery
    <3>2. 0 \in Attempts /\ 0 < MaxRetries /\ "pending" \in Statuses
      BY AttemptsAreNumbers, DeliveryAssumption DEF Statuses
    <3> QED
      BY <2>1, <3>1, <3>2
  <2>4. CASE WriteRetry(r)
    <3>1. row' = [row EXCEPT ![Current(r)] = [status |-> "pending", attempt |-> Attempt(r)]]
      BY <2>4 DEF WriteRetry, UpdateStatus, UpdateDeliveryStatus
    <3>2. Attempt(r) < MaxRetries /\ "pending" \in Statuses
      BY <2>4 DEF WriteRetry, MayRetry, Statuses
    <3> QED
      BY <1>2, <2>1, <3>1, <3>2
  <2>5. CASE WriteSuccess(r)
    <3>1. row' = [row EXCEPT ![Current(r)] = [status |-> "success", attempt |-> Attempt(r)]]
      BY <2>5 DEF WriteSuccess, UpdateStatus, UpdateDeliveryStatus
    <3>2. "success" \in Statuses
      BY DEF Statuses
    <3> QED
      BY <1>2, <2>1, <3>1, <3>2
  <2>6. CASE WriteFailure(r)
    <3>1. row' = [row EXCEPT ![Current(r)] = [status |-> "failed", attempt |-> Attempt(r)]]
      BY <2>6 DEF WriteFailure, UpdateStatus, UpdateDeliveryStatus
    <3>2. "failed" \in Statuses
      BY DEF Statuses
    <3> QED
      BY <1>2, <2>1, <3>1, <3>2
  <2>7. \/ Record(r) \/ WriteRetry(r) \/ WriteSuccess(r) \/ WriteFailure(r) \/ row' = row
    BY DEF RunStep, StoreFails, LookUp, PostAccepted, PostRefused, Backoff, SendToDeadLetter, rowVars
  <2> QED
    BY <2>2, <2>3, <2>4, <2>5, <2>6, <2>7
<1>7. \A d \in Deliveries : BoundedRow(row'[d])
  BY <1>6, StepIsLocal DEF Spares, AttemptsInv
<1>8. \A q \in Runs : BoundedRun(runs'[q])
  BY <1>5, StepIsLocal DEF AttemptsInv
<1> QED
  BY <1>1, <1>7, <1>8 DEF AttemptsInv, BoundedRow, BoundedRun

LEMMA AttemptsNext == BaseInv /\ AttemptsInv /\ [Next]_vars => AttemptsInv'
<1> SUFFICES ASSUME BaseInv, AttemptsInv, [Next]_vars PROVE AttemptsInv'
  OBVIOUS
<1> USE DEF BaseInv
<1>1. ASSUME NEW r \in Runs, UNCHANGED <<store, row>>,
             \A q \in Runs \ {r} : runs'[q] = runs[q], BoundedRun(runs'[r])
      PROVE  AttemptsInv'
  <2>1. Attempts' = Attempts
    BY <1>1 DEF Attempts
  <2>2. \A q \in Runs : BoundedRun(runs'[q])
    BY <1>1 DEF AttemptsInv
  <2> QED
    BY <1>1, <2>1, <2>2 DEF AttemptsInv, BoundedRow, BoundedRun
<1>2. ASSUME NEW r \in Runs, NEW e \in Events, Dispatch(r, e)
      PROVE  AttemptsInv'
  <2> DEFINE S == GetSubscribers
             todo == [i \in DOMAIN S |-> [d |-> <<e, S[i]>>, attempt |-> 1]]
  <2>1. runs'[r] = IF S = <<>> THEN Idle ELSE [kind |-> "dispatch", step |-> "next", todo |-> todo]
    BY <1>2 DEF Dispatch, RunsInv
  <2>2. \A i \in DOMAIN todo : todo[i].attempt = 1
    OBVIOUS
  <2>3. 1 \in Attempts \ {0}
    BY AttemptsAreNumbers
  <2> HIDE DEF todo, S
  <2>4. BoundedRun(runs'[r])
    BY <2>1, <2>2, <2>3, IdleIsBounded DEF BoundedRun
  <2>5. UNCHANGED <<store, row>> /\ Takes(r)
    BY <1>2, DispatchTakes DEF Dispatch, rowVars
  <2> QED
    BY <1>1, <2>4, <2>5 DEF Takes
<1>3. ASSUME NEW r \in Runs, Sweep(r)
      PROVE  AttemptsInv'
  <2> DEFINE due == GetPendingDeliveries
             todo == [i \in DOMAIN due |-> [d |-> due[i], attempt |-> row[due[i]].attempt + 1]]
  <2>1. runs'[r] = [kind |-> "sweep", step |-> "next", todo |-> todo]
    BY <1>3 DEF Sweep, RunsInv
  <2>2. \A i \in DOMAIN due : due[i] \in Deliveries /\ IsDue(due[i])
    <3>1. due \in Seq(Deliveries) /\ \A i \in DOMAIN due : IsDue(due[i])
      BY PendingAreDue DEF RowsInv
    <3> HIDE DEF due
    <3> QED
      BY <3>1
  <2>3. ASSUME NEW d \in Deliveries, IsDue(d)
        PROVE  row[d].attempt + 1 \in Attempts \ {0}
    <3>1. row[d].attempt \in Nat /\ MaxRetries \in Nat
      BY DeliveryAssumption DEF RowsInv
    <3>2. store = "postgres" => row[d].attempt < MaxRetries
      BY <2>3 DEF AttemptsInv, BoundedRow, IsDue
    <3>3. row[d].attempt + 1 \in Nat \ {0} /\ (store = "postgres" => row[d].attempt + 1 <= MaxRetries)
      BY <3>1, <3>2
    <3> QED
      BY <3>3, AttemptsAreNumbers
  <2> HIDE DEF due
  <2>4. \A i \in DOMAIN todo : todo[i].attempt \in Attempts \ {0}
    BY <2>2, <2>3
  <2> HIDE DEF todo
  <2>5. BoundedRun(runs'[r])
    BY <2>1, <2>4 DEF BoundedRun
  <2>6. UNCHANGED <<store, row>> /\ Takes(r)
    BY <1>3, SweepTakes DEF Sweep, rowVars, world
  <2> QED
    BY <1>1, <2>5, <2>6 DEF Takes
<1>4. ASSUME NEW r \in Runs, RunStep(r) \/ StoreFails(r)
      PROVE  AttemptsInv'
  BY <1>4, StepKeepsBounds
<1>5. CASE CrashInMemory
  <2>1. /\ \A d \in Deliveries : row'[d] = NoRow
        /\ \A r \in Runs : runs'[r] = Idle
        /\ store' = store /\ Attempts' = Attempts
    BY <1>5 DEF CrashInMemory, Attempts
  <2>2. BoundedRow(NoRow)
    BY AttemptsAreNumbers DEF BoundedRow, NoRow
  <2> QED
    BY <2>1, <2>2, IdleIsBounded DEF AttemptsInv, BoundedRow, BoundedRun
<1>6. ASSUME UNCHANGED <<store, row>>, \A q \in Runs : runs'[q] \in {runs[q], Idle}
      PROVE  AttemptsInv'
  <2>1. Attempts' = Attempts
    BY <1>6 DEF Attempts
  <2>2. \A q \in Runs : BoundedRun(runs'[q])
    BY <1>6, IdleIsBounded DEF AttemptsInv
  <2> QED
    BY <1>6, <2>1, <2>2 DEF AttemptsInv, BoundedRow, BoundedRun
<1> QED
  BY <1>2, <1>3, <1>4, <1>5, <1>6, OtherSteps DEF rowVars

LEMMA AroundNext == BaseInv /\ AroundInv /\ [Next]_vars => AroundInv'
<1> SUFFICES ASSUME BaseInv, AroundInv, [Next]_vars PROVE AroundInv'
  OBVIOUS
<1> USE DEF BaseInv, AroundInv
<1>1. CASE UNCHANGED vars
  BY <1>1 DEF vars, world, rowVars, answers, Ordered
<1>2. ASSUME NEW r \in Runs, NEW e \in Events, Dispatch(r, e)
      PROVE  AroundInv'
  BY <1>2 DEF Dispatch, rowVars, answers, Ordered
<1>3. ASSUME NEW r \in Runs, Sweep(r)
      PROVE  AroundInv'
  <2> DEFINE due == GetPendingDeliveries
  <2>1. due \in Seq(Deliveries)
    BY PendingAreDue DEF RowsInv
  <2>2. ToSet(due) \subseteq Deliveries
    <3> HIDE DEF due
    <3> QED
      BY <2>1 DEF ToSet
  <2>3. overlapped' \subseteq Deliveries
    BY <1>3, <2>2 DEF Sweep
  <2> QED
    BY <1>3, <2>3 DEF Sweep, world, rowVars, answers, Ordered
<1>4. ASSUME NEW r \in Runs, RunStep(r) \/ StoreFails(r)
      PROVE  AroundInv'
  <2>1. UNCHANGED <<store, overlapped, unsubscribed, aged>>
    BY <1>4, StepIsLocal
       DEF RunStep, StoreFails, Record, LookUp, PostAccepted, PostRefused,
           WriteSuccess, WriteRetry, Backoff, WriteFailure, SendToDeadLetter, world
  <2>2. Current(r) \in Deliveries
    BY <1>4, StepIsLocal, AttemptType
  <2>3. Ordered \subseteq Ordered'
    BY <1>4, <2>2, StepIsLocal, OrderGrows DEF Ordered
  <2>4. failures' <= MaxFailures
    <3>1. CASE RunStep(r)
      BY <3>1, StepIsLocal
    <3>2. CASE StoreFails(r)
      BY <3>2, DeliveryAssumption DEF StoreFails, RowsInv
    <3> QED
      BY <1>4, <3>1, <3>2
  <2>5. acceptedAgain' \subseteq accepted' /\ accepted' \subseteq Deliveries
    <3>1. CASE PostAccepted(r)
      BY <3>1, <2>2 DEF PostAccepted
    <3>2. CASE UNCHANGED answers
      BY <3>2 DEF answers
    <3>3. PostAccepted(r) \/ UNCHANGED answers
      BY <1>4 DEF RunStep, StoreFails, Record, LookUp, PostRefused,
                  WriteSuccess, WriteRetry, Backoff, WriteFailure, SendToDeadLetter
    <3> QED
      BY <3>1, <3>2, <3>3
  <2> QED
    BY <2>1, <2>3, <2>4, <2>5
<1>5. ASSUME NEW gone \in SUBSET Runs, Crash(gone)
      PROVE  AroundInv'
  BY <1>5, DeliveryAssumption DEF Crash, world, rowVars, answers, Ordered, RowsInv
<1>6. CASE CrashInMemory
  BY <1>6, DeliveryAssumption DEF CrashInMemory, answers, RowsInv
<1>7. ASSUME NEW s \in Subscribers, Unregister(s)
      PROVE  AroundInv'
  BY <1>7 DEF Unregister, rowVars, answers, Ordered
<1>8. CASE GrowOld
  <2>1. PICK i \in DOMAIN order :
           aged' = aged \cup {order[i]} /\ UNCHANGED <<store, unsubscribed, rowVars, answers, overlapped, failures>>
    BY <1>8 DEF GrowOld
  <2>2. store = "postgres" /\ order[i] \in Ordered /\ Ordered' = Ordered
    BY <1>8, <2>1 DEF GrowOld, Ordered, rowVars
  <2> QED
    BY <2>1, <2>2 DEF answers
<1> QED
  BY <1>1, <1>2, <1>3, <1>4, <1>5, <1>6, <1>7, <1>8 DEF Next, SomeSweep

(***************************************************************************)
(* Every variable keeps its type. In particular no attempt in PostgreSQL   *)
(* ever passes maxRetries (dispatcher.ts, attemptDelivery), whichever      *)
(* stale attempt a sweep goes on from, and however many runs are at it.    *)
(***************************************************************************)
THEOREM WebhooksTyped == Spec => []TypeOK
<1>1. Init => AttemptsInv /\ AroundInv
  <2> SUFFICES ASSUME Init PROVE AttemptsInv /\ AroundInv
    OBVIOUS
  <2>1. BoundedRow(NoRow)
    BY AttemptsAreNumbers, DeliveryAssumption DEF BoundedRow, NoRow
  <2> QED
    BY <2>1, IdleIsBounded, DeliveryAssumption DEF Init, AttemptsInv, AroundInv
<1>2. BaseInv /\ AttemptsInv /\ AroundInv => TypeOK
  <2> SUFFICES ASSUME BaseInv, AttemptsInv, AroundInv PROVE TypeOK
    OBVIOUS
  <2> USE DEF BaseInv, AroundInv
  <2> DEFINE E == [d : Deliveries, attempt : Nat]
             F == [d : Deliveries, attempt : Attempts \ {0}]
             Good == [kind : Kinds, step : Steps, todo : Seq(F)]
  <2>1. row \in [Deliveries -> [status : Statuses, attempt : Attempts]]
    <3>1. \A d \in Deliveries : row[d] \in [status : Statuses, attempt : Attempts]
      <4> SUFFICES ASSUME NEW d \in Deliveries
                   PROVE  row[d] \in [status : Statuses, attempt : Attempts]
        OBVIOUS
      <4>1. row[d] \in [status : Statuses, attempt : Nat] /\ row[d].attempt \in Attempts
        BY DEF RowsInv, AttemptsInv, BoundedRow
      <4> QED
        BY <4>1
    <3>2. row = [d \in Deliveries |-> row[d]]
      BY DEF RowsInv
    <3> DEFINE V == [status : Statuses, attempt : Attempts]
    <3> HIDE DEF V
    <3>3. \A d \in Deliveries : row[d] \in V
      BY <3>1 DEF V
    <3>4. row \in [Deliveries -> V]
      BY <3>2, <3>3
    <3> QED
      BY <3>4 DEF V
  <2>2. \A r \in Runs : runs[r] \in Good
    <3> SUFFICES ASSUME NEW r \in Runs PROVE runs[r] \in Good
      OBVIOUS
    <3> DEFINE s == runs[r].todo
    <3>1. runs[r] \in RunType /\ s \in Seq(E)
      BY DEF RunsInv, RunType
    <3>2. \A i \in DOMAIN s : s[i].attempt \in Attempts \ {0}
      BY DEF AttemptsInv, BoundedRun
    <3>3. \A x \in E : x.attempt \in Attempts \ {0} => x \in F
      BY AttemptsAreNumbers
    <3> HIDE DEF E, F, s
    <3>4. s \in Seq(F)
      <4>1. Len(s) \in Nat /\ s \in [1..Len(s) -> E]
        BY <3>1
      <4>2. s \in [1..Len(s) -> F]
        BY <4>1, <3>2, <3>3
      <4> QED
        BY <4>1, <4>2
    <3> QED
      BY <3>1, <3>4 DEF RunType, s
  <2>3. runs \in [Runs -> Good]
    <3> HIDE DEF Good
    <3> QED
      BY <2>2 DEF RunsInv
  <2>4. aged \subseteq ToSet(order)
    BY DEF Ordered, ToSet
  <2>5. failures \in 0..MaxFailures
    BY DeliveryAssumption DEF RowsInv
  <2> HIDE DEF Deliveries
  <2> QED
    BY <2>1, <2>3, <2>4, <2>5 DEF TypeOK, RowsInv
<1> QED
  BY <1>1, <1>2, AttemptsNext, AroundNext, BaseHolds, PTL DEF Spec
=============================================================================
