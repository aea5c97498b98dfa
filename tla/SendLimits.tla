------------------------------ MODULE SendLimits ------------------------------
(***************************************************************************)
(* What the contract remembers of creations besides the remittances        *)
(* (lib.rs, storage.rs): what each sender sent of late, held against the   *)
(* daily limit of the country, and the idempotency keys, under which a     *)
(* creation that is repeated answers with the remittance of the first.     *)
(*                                                                         *)
(* A call is atomic, and one that fails changes nothing.  Of a remittance  *)
(* only this is here: whether it is open, and by which kind of call it     *)
(* ended; module Remittance has its life.                                  *)
(***************************************************************************)
EXTENDS Integers, Sequences, FiniteSetsExt

CONSTANTS
    Senders, Keys, Amounts,
    Countries,     \* countries with remittances of their own limit
    Limits,        \* the limits set_daily_limit may set
    Window,        \* DAILY_LIMIT_WINDOW_SECONDS, in ticks
    Ttl,           \* get_idempotency_ttl; nothing sets another than the default
    MaxBatch,      \* bound on the entries of a batch
    MaxMade,       \* bound on the remittances
    MaxRetries,    \* bound on the creations answered by an earlier one
    MaxTime        \* bound on the ledger's time

SendLimitsAssumption ==
    /\ Amounts \subseteq Nat \ {0} /\ Limits \subseteq Nat \ {0} /\ "GLOBAL" \in Countries
    /\ Window \in Nat \ {0} /\ Ttl \in Nat \ {0}
    /\ MaxBatch \in Nat /\ MaxMade \in Nat /\ MaxRetries \in Nat
    /\ MaxTime \in Nat /\ MaxTime >= Window

VARIABLES
    now,         \* the ledger's time
    limits,      \* limits[c]: DailyLimit, {} or {the limit}
    transfers,   \* transfers[s]: the records of UserTransfers
    record,      \* record[k]: IdempotencyRecord, {} or {the record}
    keyOf,       \* keyOf[i]: RemittanceIdempotencyKey, {} or {the key}
    made,        \* made[i]: remittance i, with the limit and the key it was created under
    retried,     \* what was counted for creations answered by an earlier one
    struck       \* remittances whose record another one's end removed

vars == <<now, limits, transfers, record, keyOf, made, retried, struck>>

\* An ended one had its key cleared by the call that ended it, or not.
Ends == {"cleared", "quiet"}

\* Of the records of one sender, nr tells those apart that say the same: their order
\* does not matter.
Transfer == [nr : Nat, country : Countries, amount : Nat, at : Nat]
Answer == [sender : Senders, country : Countries, amount : Nat, at : Nat]

\* The ledger is older than a window.
Init ==
    /\ now = Window
    /\ limits \in [Countries -> {{}} \cup {{n} : n \in Limits}]
    /\ transfers = [s \in Senders |-> {}]
    /\ record = [k \in Keys |-> {}]
    /\ keyOf = <<>> /\ made = <<>> /\ retried = <<>> /\ struck = {}

-----------------------------------------------------------------------------
(***************************************************************************)
(* enforce_daily_send_limit.                                               *)
(***************************************************************************)
Total(ts) == SumFunctionOnSet([t \in ts |-> t.amount], ts)
Within(ts, c) == {t \in ts : t.at + Window > now /\ t.country = c}

\* Mistaken variant: what went to other countries is pruned too.
PrunedToCountry(ts, c) == Within(ts, c)
Pruned(ts, c) == {t \in ts : t.at + Window > now}

\* The limit is read, the amount counted.
CountsAgainstLimit(s, c, amount) ==
    /\ \A limit \in limits[c] : Total(Within(transfers[s], c)) + amount <= limit
    /\ transfers' = [transfers EXCEPT ![s] =
            Pruned(@, c) \cup {[nr |-> Len(made) + Len(retried), country |-> c,
                                amount |-> amount, at |-> now]}]

-----------------------------------------------------------------------------
(***************************************************************************)
(* Creation.                                                               *)
(***************************************************************************)
Made(s, c, amount, key) ==
    [sender |-> s, country |-> c, amount |-> amount, at |-> now,
     limit |-> limits[c], key |-> key, end |-> "open"]

\* The hash of the request: agent and expiry are the same in this model.
Request(s, amount) == <<s, amount>>

\* get_idempotency_record: one that is not past its time.
Live(k) == {r \in record[k] : now < r.expires}

Expiry == now + Ttl

\* create_remittance, with or without a key: a new remittance,
Create(s, amount, key) ==
    LET id == Len(made) + 1
        new == [request |-> Request(s, amount), id |-> id, expires |-> Expiry]
    IN
    /\ id <= MaxMade
    /\ CountsAgainstLimit(s, "GLOBAL", amount)
    /\ \A k \in key : Live(k) = {}
    /\ made' = Append(made, Made(s, "GLOBAL", amount, key))
    /\ record' = [k \in Keys |-> IF k \in key THEN {new} ELSE record[k]]
    /\ keyOf' = Append(keyOf, key)
    /\ UNCHANGED <<now, limits, retried, struck>>

\* or the earlier one, when the key is known with the same request; another request
\* fails with IdempotencyConflict.
Retry(s, amount, k) ==
    /\ Len(retried) < MaxRetries
    /\ CountsAgainstLimit(s, "GLOBAL", amount)
    /\ \E r \in Live(k) : r.request = Request(s, amount)
    /\ retried' = Append(retried,
          [sender |-> s, country |-> "GLOBAL", amount |-> amount, at |-> now])
    /\ UNCHANGED <<now, limits, made, record, keyOf, struck>>

\* create_remittance_with_corridor: held against the limit of the country it goes to.
CreateWithCorridor(s, amount, c) ==
    /\ Len(made) < MaxMade
    /\ CountsAgainstLimit(s, c, amount)
    /\ made' = Append(made, Made(s, c, amount, {}))
    /\ keyOf' = Append(keyOf, {})
    /\ UNCHANGED <<now, limits, record, retried, struck>>

\* batch_create_remittances: its total is held against the limit, and counted as one.
CreateBatch(s, amounts) ==
    LET total == SumFunctionOnSet(amounts, DOMAIN amounts) IN
    /\ Len(made) + Len(amounts) <= MaxMade
    /\ CountsAgainstLimit(s, "GLOBAL", total)
    /\ made' = made \o [j \in DOMAIN amounts |-> Made(s, "GLOBAL", amounts[j], {})]
    /\ keyOf' = keyOf \o [j \in DOMAIN amounts |-> {}]
    /\ UNCHANGED <<now, limits, record, retried, struck>>

-----------------------------------------------------------------------------
(***************************************************************************)
(* The end of a remittance.                                                *)
(***************************************************************************)
\* confirm_payout, mark_failed, cancel_remittance, process_expired_remittances: the
\* record of its key is removed, whichever remittance made it.
EndAndClear(i) ==
    /\ made[i].end = "open"
    /\ made' = [made EXCEPT ![i].end = "cleared"]
    /\ struck' = struck \cup ({r.id : r \in UNION {record[k] : k \in keyOf[i]}} \ {i})
    /\ record' = [k \in Keys |-> IF k \in keyOf[i] THEN {} ELSE record[k]]
    /\ keyOf' = [keyOf EXCEPT ![i] = {}]
    /\ UNCHANGED <<now, limits, transfers, retried>>

\* The last partial payout and batch_settle_with_netting leave the key.
EndQuietly(i) ==
    /\ made[i].end = "open"
    /\ made' = [made EXCEPT ![i].end = "quiet"]
    /\ UNCHANGED <<now, limits, transfers, record, keyOf, retried, struck>>

\* set_daily_limit.
SetDailyLimit(c, limit) ==
    /\ limits[c] # {limit}
    /\ limits' = [limits EXCEPT ![c] = {limit}]
    /\ UNCHANGED <<now, transfers, record, keyOf, made, retried, struck>>

Tick ==
    /\ now < MaxTime
    /\ now' = now + 1
    /\ UNCHANGED <<limits, transfers, record, keyOf, made, retried, struck>>

Next ==
    \/ \E s \in Senders, amount \in Amounts :
        \/ \E key \in {{}} \cup {{k} : k \in Keys} : Create(s, amount, key)
        \/ \E k \in Keys : Retry(s, amount, k)
        \/ \E c \in Countries : CreateWithCorridor(s, amount, c)
    \/ \E s \in Senders, n \in 2..MaxBatch :
        \E amounts \in [1..n -> Amounts] : CreateBatch(s, amounts)
    \/ \E i \in DOMAIN made : EndAndClear(i) \/ EndQuietly(i)
    \/ \E c \in Countries, limit \in Limits : SetDailyLimit(c, limit)
    \/ Tick

Spec == Init /\ [][Next]_vars

-----------------------------------------------------------------------------
Remittance == [sender : Senders, country : Countries, amount : Nat, at : Nat,
               limit : SUBSET Limits, key : SUBSET Keys, end : {"open"} \cup Ends]
Record == [request : Senders \X Amounts, id : Nat, expires : Nat]

TypeOK ==
    /\ now \in Window..MaxTime /\ limits \in [Countries -> SUBSET Limits]
    /\ transfers \in [Senders -> SUBSET Transfer] /\ retried \in Seq(Answer)
    /\ made \in Seq(Remittance) /\ record \in [Keys -> SUBSET Record]
    /\ keyOf \in Seq(SUBSET Keys) /\ Len(keyOf) = Len(made)
    /\ struck \subseteq DOMAIN made

AmountsOf(list) == [i \in DOMAIN list |-> list[i].amount]

(***************************************************************************)
(* By no remittance does a sender exceed the limit that stood then, over   *)
(* the window that ended then: creations of any kind, to any country, and  *)
(* changes of the limit may come between.                                  *)
(***************************************************************************)
SentBefore(i) ==
    {j \in 1..i : /\ made[j].sender = made[i].sender /\ made[j].country = made[i].country
                  /\ made[j].at + Window > made[i].at}
LimitHolds ==
    \A i \in DOMAIN made : \A limit \in made[i].limit :
        SumFunctionOnSet(AmountsOf(made), SentBefore(i)) <= limit

(***************************************************************************)
(* What is counted for a sender is what it sent within the window, and     *)
(* what it was answered with an earlier remittance for: a retry counts a   *)
(* second time, and nothing else does.                                     *)
(***************************************************************************)
SentAt(list, s, c, n) ==
    {i \in DOMAIN list : list[i].sender = s /\ list[i].country = c /\ list[i].at + Window > n}
SumAt(list, s, c, n) == SumFunctionOnSet(AmountsOf(list), SentAt(list, s, c, n))
CountedIsSentOrRetried ==
    \A s \in Senders, c \in Countries :
        Total(Within(transfers[s], c)) = SumAt(made, s, c, now) + SumAt(retried, s, c, now)

(***************************************************************************)
(* A key makes no second remittance while the first is open and the time   *)
(* of its record is not over, unless a remittance made earlier with the    *)
(* same key ended meanwhile and took the record with it.                   *)
(***************************************************************************)
RetryMakesNoSecond ==
    \A i, j \in DOMAIN made :
        i < j /\ made[i].key # {} /\ made[i].key = made[j].key
            /\ made[i].end = "open" /\ made[j].at < made[i].at + Ttl
        => i \in struck

(***************************************************************************)
(* A key that is still good answers with a remittance that is open, or     *)
(* that ended by a call that leaves the key.                               *)
(***************************************************************************)
KeyOutlivesOnlyQuietEnds == \A k \in Keys : \A r \in record[k] : made[r.id].end # "cleared"

(***************************************************************************)
(* What every step keeps, so that the above holds.                         *)
(***************************************************************************)
\* Every record was counted before the next one.
CountedBefore ==
    \A s \in Senders :
        IsFiniteSet(transfers[s]) /\ \A t \in transfers[s] : t.nr < Len(made) + Len(retried)

\* What is counted is what was sent or repeated, from now on and at any later time, by
\* which more of it is past the window.
CountedAt(s, c, n) == {t \in transfers[s] : t.at + Window > n /\ t.country = c}
CountedFromNowOn ==
    \A n \in now..MaxTime : \A s \in Senders, c \in Countries :
        Total(CountedAt(s, c, n)) = SumAt(made, s, c, n) + SumAt(retried, s, c, n)

\* A record is of its key's remittance, and of its time; an open remittance has its key,
\* and its record, unless that was struck or is past its time.
RecordsOfTheirKeys ==
    \A k \in Keys : \A r \in record[k] :
        r.id \in DOMAIN made /\ k \in made[r.id].key /\ r.expires = made[r.id].at + Ttl
OpenHasKey == \A i \in DOMAIN made : made[i].end = "open" => keyOf[i] = made[i].key
OpenHasRecord ==
    \A i \in DOMAIN made : made[i].end = "open" /\ i \notin struck =>
        \A k \in made[i].key : (\E r \in record[k] : r.id = i) \/ now >= made[i].at + Ttl

IInv ==
    /\ TypeOK /\ CountedBefore /\ CountedFromNowOn /\ LimitHolds
    /\ RecordsOfTheirKeys /\ OpenHasKey /\ OpenHasRecord
    /\ RetryMakesNoSecond /\ KeyOutlivesOnlyQuietEnds
=============================================================================
