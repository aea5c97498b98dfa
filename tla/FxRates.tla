------------------------------- MODULE FxRates -------------------------------
(***************************************************************************)
(* The exchange rate of one currency pair: the failover between providers  *)
(* (fx-provider.ts), the cache with its shared fetch and background        *)
(* refresh (fx-rate-cache.ts), the clients that follow the rate over a     *)
(* WebSocket (fx-rate-websocket.ts), and the rate a client has stored for  *)
(* a transaction (api.ts, the table fx_rates).                             *)
(*                                                                         *)
(* A rate is the moment it was quoted.  The branch of getCurrentRate that  *)
(* serves a stale entry needs an axios error with status 429, and the      *)
(* failover service raises none: the branch, and the retry it schedules,   *)
(* are never reached, and a rate kept by the failover service is stored    *)
(* and shown as if it were new.                                            *)
(***************************************************************************)
EXTENDS Naturals, FiniteSets

CONSTANTS
    Clients,
    Fetches,        \* fetches under way at a time
    MaxQuotes,      \* bound on the moments
    MaxClears       \* bound on invalidations and clearings

FxAssumption == MaxQuotes \in Nat \ {0} /\ MaxClears \in Nat

VARIABLES
    moment,     \* what the providers quote now
    breaker,    \* whether the primary provider is left alone
    kept,       \* the failover service's own last rate
    cached,     \* the cache entry, 0 when there is none
    timer,      \* whether a background refresh is scheduled
    fetch,      \* fetch[f]: what it is at, and who waits for it
    inflight,   \* the fetch that new requests join
    joined,     \* clients in the room of the pair
    shown,      \* shown[c]: the rate client c was last sent
    latest,     \* the rate stored last
    clears,
    quote,      \* the transaction's row in fx_rates, 0 when there is none
    promised,   \* history: the rate the first client was told is stored, 0 before
    answered    \* the rate the last GET of the transaction's was answered with

quotes == <<quote, promised, answered>>
market == <<moment, breaker, kept, cached, timer, fetch, inflight, joined, shown, latest, clears>>
vars == <<market, quotes>>

Rates == 0..MaxQuotes
NoFetch == [step |-> "idle", waiting |-> {}]
At(f, step) == fetch[f].step = step
Requested(f) == fetch[f].step \in {"primary", "secondary"}

Init ==
    /\ moment = 1
    /\ breaker = "closed"
    /\ kept = 0 /\ cached = 0 /\ latest = 0
    /\ timer = FALSE
    /\ fetch = [f \in Fetches |-> NoFetch]
    /\ inflight = {}
    /\ joined = {}
    /\ shown = [c \in Clients |-> 0]
    /\ clears = 0
    /\ quote = 0 /\ promised = 0 /\ answered = 0

\* The room is sent the rate, and so are those who waited for it.
Shown(to, rate) == shown' = [c \in Clients |-> IF c \in to THEN rate ELSE shown[c]]
Stored(rate) == cached' = rate /\ latest' = rate /\ timer' = TRUE

-----------------------------------------------------------------------------
(***************************************************************************)
(* Requests: subscribing joins the room and asks for the current rate.     *)
(***************************************************************************)
\* Mistaken variant: every miss starts a fetch.
SharesNone == {}
\* The fetch a miss joins.
Shared == inflight

Subscribe(c) ==
    /\ c \notin joined
    /\ joined' = joined \cup {c}
    /\ IF cached # 0
       THEN Shown({c}, cached) /\ UNCHANGED <<fetch, inflight>>
       ELSE /\ UNCHANGED shown
            /\ IF Shared # {}
               THEN /\ fetch' = [f \in Fetches |-> IF f \in Shared
                                    THEN [fetch[f] EXCEPT !.waiting = @ \cup {c}] ELSE fetch[f]]
                    /\ UNCHANGED inflight
               ELSE \E f \in Fetches :
                    /\ At(f, "idle")
                    /\ fetch' = [fetch EXCEPT ![f] =
                           [step |-> IF breaker = "open" THEN "secondary" ELSE "primary",
                            waiting |-> {c}]]
                    /\ inflight' = {f}
    /\ UNCHANGED <<moment, breaker, kept, cached, timer, latest, clears>>

Unsubscribe(c) ==
    /\ c \in joined /\ joined' = joined \ {c}
    /\ UNCHANGED <<moment, breaker, kept, cached, timer, fetch, inflight, shown, latest, clears>>

\* The fetch has its rate: stored, shown, and whatever is in flight forgotten.
Land(f, rate) ==
    /\ Stored(rate)
    /\ Shown((joined \cup fetch[f].waiting), rate)
    /\ fetch' = [fetch EXCEPT ![f] = NoFetch]
    /\ inflight' = {}
    /\ UNCHANGED <<moment, joined, clears>>

PrimaryAnswers(f) ==
    /\ At(f, "primary")
    /\ kept' = moment
    /\ Land(f, moment)
    /\ UNCHANGED breaker

PrimaryFails(f) ==
    /\ At(f, "primary")
    /\ breaker' = "open"
    /\ fetch' = [fetch EXCEPT ![f].step = "secondary"]
    /\ UNCHANGED <<moment, kept, cached, timer, inflight, joined, shown, latest, clears>>

SecondaryAnswers(f) ==
    /\ At(f, "secondary")
    /\ kept' = moment
    /\ Land(f, moment)
    /\ UNCHANGED breaker

\* Both failed: the rate the service kept, or none at all.
SecondaryFails(f) ==
    /\ At(f, "secondary")
    /\ IF kept # 0 THEN Land(f, kept)
       ELSE /\ fetch' = [fetch EXCEPT ![f] = NoFetch]
            /\ inflight' = {}
            /\ UNCHANGED <<moment, cached, timer, joined, shown, latest, clears>>
    /\ UNCHANGED <<breaker, kept>>

BreakerHalfOpens ==
    /\ breaker = "open" /\ breaker' = "closed"
    /\ UNCHANGED <<moment, kept, cached, timer, fetch, inflight, joined, shown, latest, clears>>

-----------------------------------------------------------------------------
(***************************************************************************)
(* The cache: refresh before expiry, from other addresses than the         *)
(* failover service's; expiry; invalidation and clearing.                  *)
(***************************************************************************)
RefreshFires(f) ==
    /\ timer /\ timer' = FALSE
    /\ At(f, "idle")
    /\ fetch' = [fetch EXCEPT ![f].step = "refresh"]
    /\ UNCHANGED <<moment, breaker, kept, cached, inflight, joined, shown, latest, clears>>

\* Mistaken variant: stores the rate and tells nobody.
RefreshLandsQuietly(f) ==
    /\ At(f, "refresh")
    /\ Stored(moment)
    /\ UNCHANGED shown
\* The refreshed rate replaces the entry, is shown, and schedules the next.
RefreshLands(f) ==
    /\ At(f, "refresh")
    /\ Stored(moment)
    /\ Shown(joined, moment)

RefreshEnds(f) ==
    /\ \/ RefreshLands(f)
       \/ At(f, "refresh") /\ UNCHANGED <<cached, latest, timer, shown>>
    /\ fetch' = [fetch EXCEPT ![f] = NoFetch]
    /\ UNCHANGED <<moment, breaker, kept, inflight, joined, clears>>

Expire ==
    /\ cached # 0 /\ cached' = 0 /\ timer' = FALSE
    /\ UNCHANGED <<moment, breaker, kept, fetch, inflight, joined, shown, latest, clears>>

\* invalidate leaves the fetch in flight, clearAll forgets it.
Clear ==
    /\ clears < MaxClears /\ clears' = clears + 1
    /\ cached' = 0 /\ timer' = FALSE
    /\ inflight' \in {inflight, {}}
    /\ UNCHANGED <<moment, breaker, kept, fetch, joined, shown, latest>>

MomentPasses ==
    /\ moment < MaxQuotes /\ moment' = moment + 1
    /\ UNCHANGED <<breaker, kept, cached, timer, fetch, inflight, joined, shown, latest, clears>>

-----------------------------------------------------------------------------
(***************************************************************************)
(* The rate of a transaction: POST and GET /api/fx-rate.                   *)
(***************************************************************************)
\* Mistaken variant: the last to come replaces the row.
KeptRateLast(rate) == rate
\* saveFxRate: ON CONFLICT DO NOTHING.
KeptRate(rate) == IF quote = 0 THEN rate ELSE quote

\* A client has the rate it was shown stored, and is told so whether it was or not.
StoreQuote(c) ==
    /\ shown[c] # 0
    /\ quote' = KeptRate(shown[c])
    /\ promised' = IF promised = 0 THEN shown[c] ELSE promised
    /\ UNCHANGED <<market, answered>>

\* 404 while there is none.
GetQuote ==
    /\ quote # 0 /\ answered' = quote
    /\ UNCHANGED <<market, quote, promised>>

Following ==
    \/ \E c \in Clients : Subscribe(c) \/ Unsubscribe(c)
    \/ \E f \in Fetches :
        \/ PrimaryAnswers(f) \/ PrimaryFails(f) \/ SecondaryAnswers(f) \/ SecondaryFails(f)
        \/ RefreshFires(f) \/ RefreshEnds(f)
    \/ BreakerHalfOpens \/ Expire \/ Clear \/ MomentPasses

Next ==
    \/ Following /\ UNCHANGED quotes
    \/ \E c \in Clients : StoreQuote(c)
    \/ GetQuote

Spec == Init /\ [][Next]_vars

-----------------------------------------------------------------------------
TypeOK ==
    /\ moment \in Rates /\ kept \in Rates /\ cached \in Rates /\ latest \in Rates
    /\ breaker \in {"open", "closed"}
    /\ timer \in BOOLEAN
    /\ fetch \in [Fetches -> [step : {"idle", "primary", "secondary", "refresh"},
                              waiting : SUBSET Clients]]
    /\ inflight \in SUBSET Fetches /\ joined \in SUBSET Clients
    /\ shown \in [Clients -> Rates]
    /\ clears \in 0..MaxClears
    /\ quote \in Rates /\ promised \in Rates /\ answered \in Rates

(***************************************************************************)
(* Requests share one fetch: a second one is under way only if the cache   *)
(* was cleared while the first was.                                        *)
(***************************************************************************)
OneFetchUnderWay ==
    Cardinality({f \in Fetches : Requested(f)}) <= 1 + clears

(***************************************************************************)
(* Every client of the room that was sent anything since it joined last    *)
(* saw the rate stored last, however its subscription, the fetch it waits  *)
(* for, and the refreshes of others interleave.                            *)
(***************************************************************************)
Waiting(c) == \E f \in Fetches : c \in fetch[f].waiting
ClientsShowLatest ==
    \A c \in joined : Waiting(c) \/ shown[c] \in {0, latest} \/ cached = 0

(***************************************************************************)
(* Whoever asks for the rate of a transaction is told the one that the     *)
(* first client to store it was promised: a client that comes later, with  *)
(* a newer rate, is told that it was stored too, and changes nothing.      *)
(***************************************************************************)
FirstPromiseIsKept == answered \in {0, promised}

-----------------------------------------------------------------------------
\* Without a fetch to join, each that is under way was left behind by a clearing.
RequestsAreCounted ==
    LET underWay == {f \in Fetches : Requested(f)} IN
    /\ IsFiniteSet(underWay)
    /\ Cardinality(underWay) <= 1 + clears
    /\ inflight = {} => Cardinality(underWay) <= clears

\* The failover service keeps a rate before the cache does and before any refresh, so a
\* request that finds nothing kept finds nothing cached.
KeptBeforeCached ==
    /\ moment > 0
    /\ kept = 0 => cached = 0 /\ ~timer /\ \A f \in Fetches : ~At(f, "refresh")

\* Only a request is joined or waited for.
OnlyRequestsAreJoined ==
    /\ \A f \in inflight : Requested(f)
    /\ \A f \in Fetches : ~Requested(f) => fetch[f].waiting = {}

\* The inductive invariant behind the three properties.
IInv ==
    /\ TypeOK /\ RequestsAreCounted /\ OnlyRequestsAreJoined /\ KeptBeforeCached
    /\ cached \in {0, latest} /\ ClientsShowLatest
    /\ quote = promised /\ FirstPromiseIsKept
=============================================================================
