----------------------------- MODULE Remittance -----------------------------
(***************************************************************************)
(* The remittance contract (lib.rs with transitions.rs, validation.rs and  *)
(* fee_management.rs): the life of a remittance, the tokens it moves in    *)
(* and out of the contract's balance, the fees kept and the settings the   *)
(* administrators change meanwhile.                                        *)
(*                                                                         *)
(* A contract call is atomic: a call that returns an error or panics rolls *)
(* back whatever it did, so an entry point is one action, enabled when the *)
(* call succeeds.  Calls from different parties interleave in any order.   *)
(*                                                                         *)
(* Refusals that only depend on state kept elsewhere (daily send limit,    *)
(* corridor cap, agent cap, rate limit, agent reputation) and arguments    *)
(* the caller can always supply correctly (payout proof, recipient hash)   *)
(* only ever disable a call; here such a call may simply not happen.       *)
(***************************************************************************)
EXTENDS Integers, Sequences, FiniteSets, FiniteSetsExt

(***************************************************************************)
(* The fee arithmetic of fee_service.rs, as pure operators: which strategy *)
(* applies to a call, the fee a strategy charges on an amount, the sender's *)
(* volume discount, and the split of an amount into platform fee, protocol *)
(* fee and net payout.                                                     *)
(*                                                                         *)
(* Amounts are integers below the point where checked_mul overflows an     *)
(* i128 (the code then returns Overflow and reverts).  The two tier limits *)
(* and the volume threshold are constants because their values in          *)
(* config.rs and fee_service.rs are far above what TLC's 32-bit integers   *)
(* hold.                                                                   *)
(***************************************************************************)
CONSTANTS
    DynamicTier1,       \* below it a Dynamic fee is charged at its base rate
    DynamicTier2,       \* from it a Dynamic fee is charged at 60% of the rate
    VolumeThreshold,    \* SENDER_VOLUME_TIER_THRESHOLD_10K
    VolumeDiscountBps   \* SENDER_VOLUME_TIER_FEE_BPS_10K

ASSUME FeeConstantsAssumption ==
    /\ DynamicTier1 \in Nat /\ DynamicTier2 \in Nat
    /\ VolumeThreshold \in Nat /\ VolumeDiscountBps \in Nat

FeeDivisor == 10000     \* basis points in the whole
MinFee == 1             \* every platform fee is at least this

StrategyKinds == {"Percentage", "Flat", "Dynamic", "Corridor"}
Strategy == [kind : StrategyKinds, rate : Nat]

Percentage(bps) == [kind |-> "Percentage", rate |-> bps]

LesserOf(a, b) == IF a <= b THEN a ELSE b
GreaterOf(a, b) == IF a >= b THEN a ELSE b

(***************************************************************************)
(* The strategy that really applies.  tokenBps is the set holding the rate *)
(* of the call's token: {} when the caller passes no token, {b} when the   *)
(* token (or, failing that, the platform) charges b.  A Percentage         *)
(* strategy loses its own rate as soon as a token is named; a Corridor     *)
(* strategy stands for the platform rate.                                  *)
(***************************************************************************)
EffectiveStrategy(s, tokenBps, platformBps) ==
    IF s.kind = "Corridor" \/ (s.kind = "Percentage" /\ tokenBps # {})
    THEN Percentage(IF tokenBps = {} THEN platformBps
                    ELSE CHOOSE b \in tokenBps : TRUE)
    ELSE s

DiscountedStrategy(volume, s) ==
    IF s.kind = "Percentage" /\ volume >= VolumeThreshold
    THEN Percentage(LesserOf(s.rate, VolumeDiscountBps))
    ELSE s

DynamicRate(amount, base) ==
    IF amount < DynamicTier1 THEN base
    ELSE IF amount < DynamicTier2 THEN (base * 80) \div 100
    ELSE (base * 60) \div 100

ShareOf(amount, bps) == (amount * bps) \div FeeDivisor

FeeByStrategy(amount, s) ==
    CASE s.kind = "Percentage" -> GreaterOf(ShareOf(amount, s.rate), MinFee)
      [] s.kind = "Flat"       -> GreaterOf(s.rate, MinFee)
      [] s.kind = "Dynamic"    ->
            GreaterOf(ShareOf(amount, DynamicRate(amount, s.rate)), MinFee)
      [] OTHER                 -> MinFee

ProtocolFee(amount, bps) == ShareOf(amount, bps)

(***************************************************************************)
(* The split of an amount under an effective strategy.  The code refuses a *)
(* split whose fees exceed the amount: Payable says it does not.           *)
(***************************************************************************)
Breakdown(amount, s, protocolBps) ==
    LET platform == FeeByStrategy(amount, s)
        protocol == ProtocolFee(amount, protocolBps)
    IN  [platform |-> platform,
         protocol |-> protocol,
         net      |-> amount - platform - protocol]

Payable(amount, s, protocolBps) ==
    amount > 0 /\ Breakdown(amount, s, protocolBps).net >= 0

-----------------------------------------------------------------------------
CONSTANTS
    Senders, Agents, Tokens,
    USDC,               \* the token given to initialize
    NoExpiry,           \* the expiry of a remittance that has none
    Expiries,           \* expiry times senders may ask for
    Amounts,            \* amounts senders may send
    PartialAmounts,     \* amounts agents may disburse in part
    FeeRates,           \* platform fee rates in use, in bps
    TokenFeeRates,      \* rates update_token_fee may set
    ProtocolRates,      \* protocol fee rates in use, in bps
    Strategies,         \* fee strategies update_fee_strategy may set
    Corridors,          \* configured fee corridors
    Bars,               \* switches in use, see BarKinds
    MaxFees,            \* MAX_FEES of fee_management.rs
    VolumeWindow,       \* SENDER_VOLUME_DISCOUNT_WINDOW_SECONDS, in ticks
    MaxBatch,           \* MAX_BATCH_SIZE and max_expired_batch_size
    MaxRemittances,     \* bound on the number of remittances
    MaxTime             \* bound on the ledger time

(***************************************************************************)
(* A bar <<kind, who>> stands while an administrator's switch refuses some *)
(* calls: the contract is paused or migrating, a token is off the          *)
(* whitelist, a sender is blacklisted or without a valid KYC approval, an  *)
(* agent is not registered or lacks the Settler role.                      *)
(***************************************************************************)
BarKinds == {"paused", "migrating", "delisted", "blacklisted", "noKyc",
             "unregistered", "notSettler"}
Everyone == "everyone"

ASSUME RemittanceAssumption ==
    /\ USDC \in Tokens
    /\ NoExpiry \notin Nat /\ Expiries \subseteq Nat \cup {NoExpiry}
    /\ Amounts \subseteq Nat \ {0} /\ PartialAmounts \subseteq Nat \ {0}
    /\ FeeRates \subseteq 0..FeeDivisor /\ FeeRates # {}
    /\ TokenFeeRates \subseteq 0..FeeDivisor
    /\ ProtocolRates \subseteq 0..200 /\ ProtocolRates # {}
    /\ Strategies \subseteq Strategy
    /\ Corridors \subseteq [strategy : Strategy, protocol : 0..FeeDivisor]
    /\ MaxFees \in Nat /\ VolumeWindow \in Nat /\ MaxBatch \in Nat
    /\ MaxRemittances \in Nat /\ MaxTime \in Nat

VARIABLES
    now,            \* ledger timestamp
    counter,        \* remittance counter: the ids in use are 1..counter
    rem,            \* the Remittance record of each id
    disbursed,      \* partial disbursements recorded for each id
    settled,        \* ids whose settlement hash is set
    held,           \* the contract's own balance of each token
    accumulated,    \* accumulated platform fees, one counter for all tokens
    processing,     \* total volume in Processing
    completed,      \* total volume completed
    strategy,       \* global fee strategy
    platformBps,    \* platform fee rate
    tokenBps,       \* tokenBps[t]: {} or {the rate set for token t}
    protocolBps,    \* protocol fee rate
    bars,           \* the bars that stand, a subset of Bars
    flow            \* history: where the money of each id went

feeVars == <<strategy, platformBps, tokenBps, protocolBps>>
moneyVars == <<held, accumulated, processing, completed>>
remVars == <<counter, rem, disbursed, settled, flow>>
vars == <<now, remVars, moneyVars, feeVars, bars>>

Ids == 1..counter
Status == {"Pending", "Processing", "Completed", "Cancelled", "Failed", "Disputed"}
Terminal == {"Completed", "Cancelled"}

RemittanceRecord ==
    [sender : Senders, agent : Agents, token : Tokens, amount : Nat, fee : Nat,
     status : Status, expiry : Nat \cup {NoExpiry}, createdAt : Nat]

Flow == [deposited : Nat, toAgent : Nat, toTreasury : Nat, toSender : Nat,
         charged : Nat, refundToken : SUBSET Tokens, route : {"single", "netted"}]

Barred(kind, who) == <<kind, who>> \in bars
AmountOf == [i \in Ids |-> rem[i].amount]
FeeOf == [i \in Ids |-> rem[i].fee]
DepositOf == [i \in Ids |-> flow[i].deposited]

(***************************************************************************)
(* Fees as the entry points ask for them.                                  *)
(***************************************************************************)
RateOf(t) == IF tokenBps[t] = {} THEN {platformBps} ELSE tokenBps[t]
StrategyForToken(s, t) == EffectiveStrategy(s, RateOf(t), platformBps)
StrategyForPayout == EffectiveStrategy(strategy, {}, platformBps)
PayoutBreakdown(amount) == Breakdown(amount, StrategyForPayout, protocolBps)
PayoutPayable(amount) == Payable(amount, StrategyForPayout, protocolBps)

\* What the sender sent within the discount window.
RollingVolume(s) ==
    SumFunctionOnSet(DepositOf,
        {i \in Ids : rem[i].sender = s /\ rem[i].createdAt + VolumeWindow >= now})

SenderFee(s, t, amount, volume) ==
    FeeByStrategy(amount,
        DiscountedStrategy(volume + amount, StrategyForToken(strategy, t)))

-----------------------------------------------------------------------------
\* An initialized contract whose tokens are whitelisted, whose agents are
\* registered and whose senders have their KYC approval.
Init ==
    /\ now = 0
    /\ counter = 0
    /\ rem = <<>> /\ disbursed = <<>> /\ flow = <<>>
    /\ settled = {}
    /\ held = [t \in Tokens |-> 0]
    /\ accumulated = 0 /\ processing = 0 /\ completed = 0
    /\ platformBps \in FeeRates
    /\ strategy = Percentage(platformBps)
    /\ tokenBps = [t \in Tokens |-> IF t = USDC THEN {platformBps} ELSE {}]
    /\ protocolBps \in ProtocolRates
    /\ bars = {}

(***************************************************************************)
(* Creation.  Entries is a sequence of [agent, amount, expiry]; fees gives *)
(* the fee of each.  The whole total moves from the sender to the contract *)
(* and each entry becomes a Pending remittance under the next id.          *)
(***************************************************************************)
Entry == [agent : Agents, amount : Amounts, expiry : Expiries]

EntryAmount(entries) == [j \in DOMAIN entries |-> entries[j].amount]

EntryAccepted(s, e) ==
    /\ ~Barred("unregistered", e.agent)
    /\ ~Barred("blacklisted", s)

OpenRemittances(s, t, entries, fees) ==
    /\ counter + Len(entries) <= MaxRemittances
    /\ counter' = counter + Len(entries)
    /\ rem' = [i \in 1..counter' |->
                IF i <= counter THEN rem[i]
                ELSE LET e == entries[i - counter] IN
                     [sender |-> s, agent |-> e.agent, token |-> t,
                      amount |-> e.amount, fee |-> fees[i - counter],
                      status |-> "Pending", expiry |-> e.expiry, createdAt |-> now]]
    /\ disbursed' = [i \in 1..counter' |-> IF i <= counter THEN disbursed[i] ELSE 0]
    /\ flow' = [i \in 1..counter' |->
                IF i <= counter THEN flow[i]
                ELSE [deposited |-> entries[i - counter].amount, toAgent |-> 0,
                      toTreasury |-> 0, toSender |-> 0, charged |-> 0,
                      refundToken |-> {}, route |-> "single"]]
    /\ held' = [held EXCEPT ![t] =
                    @ + SumFunctionOnSet(EntryAmount(entries), DOMAIN entries)]
    /\ UNCHANGED <<now, settled, accumulated, processing, completed, feeVars, bars>>

CreateRemittance(s, t, e) ==
    /\ ~Barred("migrating", Everyone)
    /\ EntryAccepted(s, e)
    /\ ~Barred("delisted", t)
    /\ OpenRemittances(s, t, <<e>>,
                       <<SenderFee(s, t, e.amount, RollingVolume(s))>>)

\* The corridor's strategy replaces the global one (Uncorridored is the call
\* that names no configured corridor), the fees must fit the amount, and
\* neither a migration nor a delisted USDC is looked at.
Uncorridored == [strategy |-> strategy, protocol |-> protocolBps]

CreateRemittanceWithCorridor(s, e, c) ==
    LET fee == FeeByStrategy(e.amount,
                 DiscountedStrategy(RollingVolume(s) + e.amount,
                                    StrategyForToken(c.strategy, USDC)))
    IN  /\ EntryAccepted(s, e)
        /\ fee + ProtocolFee(e.amount, c.protocol) <= e.amount
        /\ OpenRemittances(s, USDC, <<e>>, <<fee>>)

BatchCreateRemittances(s, entries) ==
    /\ ~Barred("migrating", Everyone)
    /\ Len(entries) \in 1..MaxBatch
    /\ \A j \in DOMAIN entries : EntryAccepted(s, entries[j])
    /\ OpenRemittances(s, USDC, entries,
         [j \in DOMAIN entries |->
            SenderFee(s, USDC, entries[j].amount,
                RollingVolume(s) + SumFunctionOnSet(EntryAmount(entries), 1..(j - 1)))])

-----------------------------------------------------------------------------
\* Mistaken variant: flushes the new fee along with the old ones.
CollectFeeFlushingBoth(h, fee) ==
    \/ /\ accumulated + fee <= MaxFees
       /\ accumulated' = accumulated + fee
       /\ held' = h
    \/ /\ accumulated + fee > MaxFees
       /\ accumulated <= h[USDC]
       /\ accumulated' = fee
       /\ held' = [h EXCEPT ![USDC] = @ - (accumulated + fee)]

(***************************************************************************)
(* Collecting the platform fee of a settled remittance: the counter grows, *)
(* or, when it would pass MaxFees, what it held is flushed to the treasury *)
(* in USDC first.  h is the contract's balances after the payout itself.   *)
(***************************************************************************)
CollectFee(h, fee) ==
    \/ /\ accumulated + fee <= MaxFees
       /\ accumulated' = accumulated + fee
       /\ held' = h
    \/ /\ accumulated + fee > MaxFees
       /\ fee <= MaxFees
       /\ accumulated <= h[USDC]
       /\ accumulated' = fee
       /\ held' = [h EXCEPT ![USDC] = @ - accumulated]

AgentAuthorized(i) == ~Barred("unregistered", rem[i].agent)

Expired(i) == rem[i].expiry # NoExpiry /\ now > rem[i].expiry

\* Mistaken variant: the stored fee is not compared.
FeeNotCompared(i) == TRUE
FeeUnchanged(i) == rem[i].fee = PayoutBreakdown(rem[i].amount).platform

ConfirmPayout(i) ==
    LET r == rem[i]
        b == PayoutBreakdown(r.amount)
    IN  /\ ~Barred("migrating", Everyone)
        /\ ~Barred("paused", Everyone)
        /\ r.status = "Pending"
        /\ i \notin settled
        /\ ~Expired(i)
        /\ ~Barred("blacklisted", r.sender) /\ ~Barred("noKyc", r.sender)
        /\ AgentAuthorized(i)
        /\ ~Barred("notSettler", r.agent)
        /\ PayoutPayable(r.amount)
        /\ FeeUnchanged(i)
        /\ held[r.token] >= b.net + b.protocol
        /\ CollectFee([held EXCEPT ![r.token] = @ - b.net - b.protocol], r.fee)
        /\ rem' = [rem EXCEPT ![i].status = "Completed"]
        /\ settled' = settled \cup {i}
        /\ completed' = completed + r.amount
        /\ flow' = [flow EXCEPT ![i].toAgent = @ + b.net,
                                ![i].toTreasury = @ + b.protocol,
                                ![i].charged = @ + r.fee]
        /\ UNCHANGED <<now, counter, disbursed, processing, feeVars, bars>>

(***************************************************************************)
(* A partial payout.  The net amount is recomputed from the fees in force  *)
(* at each call; the protocol fee it leaves out is not paid to anyone.     *)
(***************************************************************************)
\* Mistaken variant: forgets what was disbursed before.
RemainingIgnoringPaid(i) == PayoutBreakdown(rem[i].amount).net
Remaining(i) == PayoutBreakdown(rem[i].amount).net - disbursed[i]

\* Mistaken variant: counts a Pending remittance as in flight.
InFlightEvenPending(i) == rem[i].amount
\* The part of the processing volume that is remittance i's.
InFlight(i) == IF rem[i].status = "Processing" THEN rem[i].amount ELSE 0

PartialPayoutMoves(i, amount) ==
    /\ amount > 0
    /\ AgentAuthorized(i)
    /\ rem[i].status \in {"Pending", "Processing"}
    /\ PayoutPayable(rem[i].amount)
    /\ held[rem[i].token] >= amount
    /\ disbursed' = [disbursed EXCEPT ![i] = @ + amount]

ConfirmPartialPayout(i, amount) ==
    LET r == rem[i] IN
    /\ PartialPayoutMoves(i, amount)
    /\ amount < Remaining(i)
    /\ rem' = [rem EXCEPT ![i].status = "Processing"]
    /\ processing' = processing + (r.amount - InFlight(i))
    /\ held' = [held EXCEPT ![r.token] = @ - amount]
    /\ flow' = [flow EXCEPT ![i].toAgent = @ + amount]
    /\ UNCHANGED <<now, counter, settled, accumulated, completed, feeVars, bars>>

ConfirmLastPartialPayout(i, amount) ==
    LET r == rem[i] IN
    /\ PartialPayoutMoves(i, amount)
    /\ amount = Remaining(i)
    /\ CollectFee([held EXCEPT ![r.token] = @ - amount], r.fee)
    /\ rem' = [rem EXCEPT ![i].status = "Completed"]
    /\ settled' = settled \cup {i}
    /\ processing' = processing - InFlight(i)
    /\ completed' = completed + r.amount
    /\ flow' = [flow EXCEPT ![i].toAgent = @ + amount, ![i].charged = @ + r.fee]
    /\ UNCHANGED <<now, counter, feeVars, bars>>

-----------------------------------------------------------------------------
(***************************************************************************)
(* Refunds.  The agent's mark_failed refunds in the remittance's token,    *)
(* the sender's cancel_remittance and anyone's process_expired_remittances *)
(* in USDC whatever the token was.  The first two clear the amount.        *)
(***************************************************************************)
RefundedFlow(f, amount, t) ==
    [f EXCEPT !.toSender = @ + amount, !.refundToken = {t}]

MarkFailed(i) ==
    LET r == rem[i] IN
    /\ AgentAuthorized(i)
    /\ r.status \in {"Pending", "Processing"}
    /\ held[r.token] >= r.amount
    /\ held' = [held EXCEPT ![r.token] = @ - r.amount]
    /\ rem' = [rem EXCEPT ![i].status = "Cancelled", ![i].amount = 0]
    /\ processing' = processing - InFlight(i)
    /\ flow' = [flow EXCEPT ![i] = RefundedFlow(@, r.amount, r.token)]
    /\ UNCHANGED <<now, counter, disbursed, settled, accumulated, completed,
                   feeVars, bars>>

CancelRemittance(i) ==
    LET r == rem[i] IN
    /\ r.status = "Pending"
    /\ held[USDC] >= r.amount
    /\ held' = [held EXCEPT ![USDC] = @ - r.amount]
    /\ rem' = [rem EXCEPT ![i].status = "Cancelled", ![i].amount = 0]
    /\ flow' = [flow EXCEPT ![i] = RefundedFlow(@, r.amount, USDC)]
    /\ UNCHANGED <<now, counter, disbursed, settled, accumulated, processing,
                   completed, feeVars, bars>>

(***************************************************************************)
(* Netting.  Pending remittances between the same two parties offset each  *)
(* other and the net difference, less the fees of them all, is paid in     *)
(* USDC to the party it flows to.  Anyone may call it; neither the agents'  *)
(* standing nor the volume counters are looked at.                         *)
(***************************************************************************)
Parties(i) == {rem[i].sender, rem[i].agent}
Between(batch, pair) == {i \in batch : Parties(i) = pair}

\* What flows to party a of the pair, less what flows the other way.
NetToward(batch, pair, a) ==
    SumFunctionOnSet(AmountOf, {i \in Between(batch, pair) : rem[i].agent = a})
    - SumFunctionOnSet(AmountOf, {i \in Between(batch, pair) : rem[i].agent # a})

NetAmount(batch, pair) ==
    LET net == NetToward(batch, pair, CHOOSE a \in pair : TRUE)
    IN  IF net < 0 THEN -net ELSE net

\* Mistaken variant: pays the net difference with the fees in it.
NetPayoutsBeforeFees(batch) ==
    [pair \in {Parties(i) : i \in batch} |-> NetAmount(batch, pair)]

NetPayouts(batch) ==
    [pair \in {Parties(i) : i \in batch} |->
        NetAmount(batch, pair) - SumFunctionOnSet(FeeOf, Between(batch, pair))]

\* Mistaken variant: does not look at the status.
SettleableInAnyStatus(i) == ~Expired(i)
Settleable(i) == rem[i].status = "Pending" /\ i \notin settled /\ ~Expired(i)

\* Unlike CollectFee, a flush here takes the new fees along.
CollectNettedFees(h, fees) ==
    IF accumulated + fees > MaxFees
    THEN /\ h[USDC] >= accumulated + fees
         /\ held' = [h EXCEPT ![USDC] = @ - (accumulated + fees)]
         /\ accumulated' = 0
    ELSE /\ held' = h
         /\ accumulated' = accumulated + fees

\* A pair that offsets completely drops out, and its fees with it: the check
\* that all fees are kept then fails, as every fee is at least MinFee.
BatchSettleWithNetting(batch) ==
    LET pairs == {Parties(i) : i \in batch}
        payouts == NetPayouts(batch)
        paid == SumFunctionOnSet(payouts, pairs)
    IN  /\ ~Barred("paused", Everyone)
        /\ Cardinality(batch) \in 1..MaxBatch
        /\ \A i \in batch : Settleable(i)
        /\ \A pair \in pairs : NetAmount(batch, pair) > 0 /\ payouts[pair] >= 0
        /\ held[USDC] >= paid
        /\ CollectNettedFees([held EXCEPT ![USDC] = @ - paid],
                             SumFunctionOnSet(FeeOf, batch))
        /\ rem' = [i \in Ids |-> IF i \in batch THEN [rem[i] EXCEPT !.status = "Completed"]
                                 ELSE rem[i]]
        /\ settled' = settled \cup batch
        /\ flow' = [i \in Ids |-> IF i \in batch THEN [flow[i] EXCEPT !.route = "netted"]
                                  ELSE flow[i]]
        /\ UNCHANGED <<now, counter, disbursed, processing, completed, feeVars, bars>>

\* Mistaken variant: does not skip the remittances that are not Pending.
DueInAnyStatus(batch) == {i \in batch : Expired(i)}
\* Of the ids given, those not Pending or not expired are skipped.
Due(batch) == {i \in batch : rem[i].status = "Pending" /\ Expired(i)}

ProcessExpiredRemittances(batch) ==
    LET due == Due(batch)
        total == SumFunctionOnSet(AmountOf, due)
    IN  /\ Cardinality(batch) <= MaxBatch
        /\ held[USDC] >= total
        /\ held' = [held EXCEPT ![USDC] = @ - total]
        /\ rem' = [i \in Ids |-> IF i \in due THEN [rem[i] EXCEPT !.status = "Cancelled"]
                                 ELSE rem[i]]
        /\ flow' = [i \in Ids |-> IF i \in due
                                  THEN RefundedFlow(flow[i], rem[i].amount, USDC)
                                  ELSE flow[i]]
        /\ UNCHANGED <<now, counter, disbursed, settled, accumulated, processing,
                       completed, feeVars, bars>>

\* Mistaken variant: leaves the counter as it was.
WithdrawFeesNoReset ==
    /\ accumulated > 0
    /\ held[USDC] >= accumulated
    /\ held' = [held EXCEPT ![USDC] = @ - accumulated]
    /\ UNCHANGED <<now, accumulated, remVars, processing, completed, feeVars, bars>>

WithdrawFees ==
    /\ accumulated > 0
    /\ held[USDC] >= accumulated
    /\ held' = [held EXCEPT ![USDC] = @ - accumulated]
    /\ accumulated' = 0
    /\ UNCHANGED <<now, remVars, processing, completed, feeVars, bars>>

-----------------------------------------------------------------------------
(***************************************************************************)
(* Settings.  update_fee moves the platform rate and the global strategy,  *)
(* but not the rate initialize stored for the USDC token.                  *)
(***************************************************************************)
UpdateFee(bps) ==
    /\ platformBps' = bps
    /\ strategy' = Percentage(bps)
    /\ UNCHANGED <<now, remVars, moneyVars, tokenBps, protocolBps, bars>>

UpdateFeeStrategy(s) ==
    /\ strategy' = s
    /\ UNCHANGED <<now, remVars, moneyVars, platformBps, tokenBps, protocolBps, bars>>

UpdateTokenFee(t, bps) ==
    /\ ~Barred("delisted", t)
    /\ tokenBps' = [tokenBps EXCEPT ![t] = {bps}]
    /\ UNCHANGED <<now, remVars, moneyVars, strategy, platformBps, protocolBps, bars>>

UpdateProtocolFee(bps) ==
    /\ protocolBps' = bps
    /\ UNCHANGED <<now, remVars, moneyVars, strategy, platformBps, tokenBps, bars>>

ChangeBars(raised, lifted) ==
    /\ bars' = (bars \ lifted) \cup (raised \cap Bars)
    /\ UNCHANGED <<now, remVars, moneyVars, feeVars>>

RegisterAgent(a) == ChangeBars({}, {"unregistered", "notSettler"} \X {a})
RemoveAgent(a) == ChangeBars({"unregistered", "notSettler"} \X {a}, {})
RaiseBar(kind, who) == kind # "unregistered" /\ ChangeBars({<<kind, who>>}, {})
LiftBar(kind, who) == kind # "unregistered" /\ ChangeBars({}, {<<kind, who>>})

Tick ==
    /\ now < MaxTime
    /\ now' = now + 1
    /\ UNCHANGED <<remVars, moneyVars, feeVars, bars>>

Create ==
    \E s \in Senders :
        \/ \E t \in Tokens, e \in Entry : CreateRemittance(s, t, e)
        \/ \E e \in Entry, c \in Corridors \cup {Uncorridored} :
                CreateRemittanceWithCorridor(s, e, c)
        \/ \E n \in 1..MaxBatch : \E entries \in [1..n -> Entry] :
                BatchCreateRemittances(s, entries)

Payout ==
    \E i \in Ids :
        \/ ConfirmPayout(i)
        \/ \E amount \in PartialAmounts : ConfirmPartialPayout(i, amount)
        \/ \E amount \in PartialAmounts : ConfirmLastPartialPayout(i, amount)

Net == \E batch \in SUBSET Ids : BatchSettleWithNetting(batch)

Refund ==
    \/ \E i \in Ids : MarkFailed(i) \/ CancelRemittance(i)
    \/ \E batch \in SUBSET Ids : ProcessExpiredRemittances(batch)

Administer ==
    \/ WithdrawFees
    \/ \E bps \in FeeRates : UpdateFee(bps)
    \/ \E s \in Strategies : UpdateFeeStrategy(s)
    \/ \E t \in Tokens, bps \in TokenFeeRates : UpdateTokenFee(t, bps)
    \/ \E bps \in ProtocolRates : UpdateProtocolFee(bps)
    \/ \E a \in Agents : RegisterAgent(a) \/ RemoveAgent(a)
    \/ \E b \in Bars : RaiseBar(b[1], b[2]) \/ LiftBar(b[1], b[2])

Next == Create \/ Payout \/ Net \/ Refund \/ Administer \/ Tick

Spec == Init /\ [][Next]_vars

-----------------------------------------------------------------------------
(***************************************************************************)
(* Every variable keeps its type: in particular no balance and no fee      *)
(* counter ever goes below zero, whatever the order of the calls.          *)
(***************************************************************************)
TypeOK ==
    /\ now \in Nat
    /\ counter \in Nat
    /\ rem \in [Ids -> RemittanceRecord]
    /\ disbursed \in [Ids -> Nat]
    /\ flow \in [Ids -> Flow]
    /\ settled \subseteq Ids
    /\ held \in [Tokens -> Nat]
    /\ accumulated \in Nat /\ processing \in Int /\ completed \in Int
    /\ strategy \in Strategy
    /\ platformBps \in Nat /\ protocolBps \in Nat
    /\ tokenBps \in [Tokens -> SUBSET Nat]
    /\ bars \subseteq Bars

(***************************************************************************)
(* A refund happens once, for the whole deposit, and only on remittances   *)
(* that were not settled: no fee is kept and no protocol fee is paid on a  *)
(* refunded remittance, and a settled one was never refunded.  (A refunded *)
(* remittance may still have been disbursed in part; what a netted one     *)
(* paid and charged is not accounted one by one.)                          *)
(***************************************************************************)
RefundedXorSettled ==
    \A i \in Ids :
        LET f == flow[i] IN
        /\ f.toSender \in {0, f.deposited}
        /\ f.toSender > 0 <=> rem[i].status = "Cancelled"
        /\ f.charged > 0 <=> rem[i].status = "Completed" /\ f.route = "single"
        /\ f.route = "netted" => rem[i].status = "Completed"
        /\ f.toTreasury > 0 => rem[i].status = "Completed"

(***************************************************************************)
(* The agent and the treasury together never get more than the deposit,    *)
(* however the fees change between the disbursements of one remittance.    *)
(***************************************************************************)
PayeeWithinDeposit ==
    \A i \in Ids : flow[i].toAgent + flow[i].toTreasury <= flow[i].deposited

(***************************************************************************)
(* confirm_payout splits the deposit exactly, and only a remittance that   *)
(* went through partial payouts can have sent out (or set aside as fee)    *)
(* more than was deposited for it.                                         *)
(***************************************************************************)
ExcessOnlyAfterPartialPayout ==
    \A i \in Ids :
        LET f == flow[i]
            out == f.toAgent + f.toTreasury + f.toSender + f.charged
        IN  disbursed[i] = 0 /\ f.route = "single" =>
                out = (IF rem[i].status \in Terminal THEN f.deposited ELSE 0)

(***************************************************************************)
(* The settlement hash is set exactly on the completed remittances, by     *)
(* whichever of the payout paths completed them.                           *)
(***************************************************************************)
SettlementHashIffCompleted ==
    settled = {i \in Ids : rem[i].status = "Completed"}

(***************************************************************************)
(* The processing and completed volume counters are the amounts of the     *)
(* remittances in those states, but for the netted ones, which no counter  *)
(* ever includes.                                                          *)
(***************************************************************************)
VolumesMatchRemittances ==
    /\ processing = SumFunctionOnSet(AmountOf, {i \in Ids : rem[i].status = "Processing"})
    /\ completed = SumFunctionOnSet(AmountOf,
                     {i \in Ids : rem[i].status = "Completed" /\ flow[i].route = "single"})

(***************************************************************************)
(* What the contract holds covers the undisbursed part of every open       *)
(* remittance and every fee it still counts, short by no more than these   *)
(* losses: disbursements made before a full refund, the fee of remittances *)
(* completed by partial payouts while fees changed, and, for USDC, what    *)
(* was refunded, netted or counted as fee of deposits in another token.    *)
(***************************************************************************)
Open(t) == {i \in Ids : rem[i].token = t /\ rem[i].status \in {"Pending", "Processing"}}
ClosedIn(status, t) == {i \in Ids : rem[i].token = t /\ rem[i].status = status}

Undisbursed == [i \in Ids |-> rem[i].amount - disbursed[i]]

Owed(t) ==
    SumFunctionOnSet(Undisbursed, Open(t)) + (IF t = USDC THEN accumulated ELSE 0)

InOtherTokens(status) == UNION {ClosedIn(status, u) : u \in Tokens \ {USDC}}

Losses(t) ==
    SumFunctionOnSet(disbursed, ClosedIn("Cancelled", t))
    + SumFunctionOnSet(FeeOf, {i \in ClosedIn("Completed", t) : disbursed[i] > 0})
    + (IF t # USDC THEN 0
       ELSE SumFunctionOnSet(DepositOf, InOtherTokens("Cancelled"))
          + SumFunctionOnSet(FeeOf,
                {i \in InOtherTokens("Completed") : flow[i].route = "single"})
          + SumFunctionOnSet(DepositOf,
                {i \in InOtherTokens("Completed") : flow[i].route = "netted"}))

ShortfallExplained == \A t \in Tokens : held[t] + Losses(t) >= Owed(t)

(***************************************************************************)
(* A completed or cancelled remittance is never touched again: neither its *)
(* record, nor its disbursements, nor the money that moved for it, nor its *)
(* settlement hash.                                                        *)
(***************************************************************************)
ClosedIsFinal ==
    [][\A i \in Ids : rem[i].status \in Terminal =>
            /\ rem'[i] = rem[i] /\ disbursed'[i] = disbursed[i]
            /\ flow'[i] = flow[i]
            /\ (i \in settled') = (i \in settled)]_vars

(***************************************************************************)
(* The contract keeps the promise of EscrowPromise for every remittance.   *)
(***************************************************************************)
PhaseOf(i) ==
    IF i \notin Ids THEN "none"
    ELSE CASE rem[i].status = "Completed" -> "paid"
           [] rem[i].status = "Cancelled" -> "returned"
           [] OTHER -> "open"

Promise == INSTANCE EscrowPromise WITH
    Ids      <- 1..MaxRemittances,
    phase    <- [i \in 1..MaxRemittances |-> PhaseOf(i)],
    deposit  <- [i \in 1..MaxRemittances |->
                    IF i \in Ids THEN flow[i].deposited ELSE 0],
    given    <- [i \in 1..MaxRemittances |->
                    IF i \in Ids THEN flow[i].toAgent + flow[i].toTreasury ELSE 0],
    returned <- [i \in 1..MaxRemittances |->
                    IF i \in Ids THEN flow[i].toSender ELSE 0]

KeepsPromise == Promise!Spec

-----------------------------------------------------------------------------
(***************************************************************************)
(* What test_invariants.rs (lines 7-8) says of the escrow, in its weaker   *)
(* reading: the contract always holds the sum of the pending amounts.      *)
(***************************************************************************)
PendingIsBacked ==
    \A t \in Tokens :
        held[t] >= SumFunctionOnSet(AmountOf,
                       {i \in Ids : rem[i].token = t /\ rem[i].status = "Pending"})
=============================================================================
