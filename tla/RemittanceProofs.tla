-------------------------- MODULE RemittanceProofs --------------------------
(***************************************************************************)
(* Proofs about Remittance.  The invariants of the runs are not inductive: *)
(* that a refund returns exactly the deposit needs the record's amount to  *)
(* equal the deposit until the remittance closes, that the payee stays     *)
(* within the deposit needs what the agent got to be what was recorded as  *)
(* disbursed, and so on.  Lifecycle(i) says all of it for one remittance,  *)
(* by status; with the types it is inductive.                              *)
(***************************************************************************)
EXTENDS Remittance, FiniteSums

-----------------------------------------------------------------------------
(***************************************************************************)
(* Facts about the fee arithmetic, for every amount, strategy and rate.    *)
(***************************************************************************)

LEMMA ProductNat ==
    ASSUME NEW a \in Nat, NEW b \in Nat
    PROVE  a * b \in Nat
BY Z3

LEMMA ShareType ==
    ASSUME NEW amount \in Nat, NEW bps \in Nat
    PROVE  ShareOf(amount, bps) \in Nat
<1> DEFINE p == amount * bps
<1>1. p \in Nat
    BY ProductNat
<1>2. p \div FeeDivisor \in Nat
    <2> HIDE DEF p
    <2> QED BY <1>1 DEF FeeDivisor
<1> QED BY <1>2 DEF ShareOf

\* More of the amount at a higher rate.
LEMMA ShareMonotonic ==
    ASSUME NEW amount \in Nat, NEW low \in Nat, NEW high \in Nat, low <= high
    PROVE  ShareOf(amount, low) <= ShareOf(amount, high)
<1> DEFINE p == amount * low
           q == amount * high
           d == amount * (high - low)
<1>1. p \in Nat /\ q \in Nat /\ d \in Nat
    BY ProductNat
<1>2. q = p + d
    BY Z3
<1>3. p <= q
    <2> HIDE DEF p, q, d
    <2> QED BY <1>1, <1>2
<1>4. p \div FeeDivisor <= q \div FeeDivisor
    <2> HIDE DEF p, q, d
    <2> QED BY <1>1, <1>3 DEF FeeDivisor
<1> QED BY <1>4 DEF ShareOf

\* A Dynamic strategy never charges more than its base rate.
LEMMA DynamicRateBounded ==
    ASSUME NEW amount \in Nat, NEW base \in Nat
    PROVE  DynamicRate(amount, base) \in 0..base
BY DEF DynamicRate

LEMMA EffectiveStrategyType ==
    ASSUME NEW s \in Strategy, NEW tokenRate \in SUBSET Nat, NEW bps \in Nat
    PROVE  EffectiveStrategy(s, tokenRate, bps) \in Strategy
BY DEF EffectiveStrategy, Strategy, StrategyKinds, Percentage

LEMMA DiscountedStrategyType ==
    ASSUME NEW s \in Strategy, NEW volume
    PROVE  DiscountedStrategy(volume, s) \in Strategy
BY FeeConstantsAssumption
   DEF DiscountedStrategy, Strategy, StrategyKinds, Percentage, LesserOf

(***************************************************************************)
(* Whatever the strategy, the platform fee is a natural number and at      *)
(* least MIN_FEE (calculate_fee_by_strategy).                              *)
(***************************************************************************)
THEOREM FeeAtLeastMinFee ==
    ASSUME NEW amount \in Nat, NEW s \in Strategy
    PROVE  /\ FeeByStrategy(amount, s) \in Nat
           /\ FeeByStrategy(amount, s) >= MinFee
<1>1. s.rate \in Nat /\ DynamicRate(amount, s.rate) \in Nat
    BY DynamicRateBounded DEF Strategy
<1>2. ShareOf(amount, s.rate) \in Nat /\ ShareOf(amount, DynamicRate(amount, s.rate)) \in Nat
    BY <1>1, ShareType
<1> QED BY <1>1, <1>2 DEF FeeByStrategy, GreaterOf, MinFee

(***************************************************************************)
(* The sender's volume discount never raises a fee, whatever the sender's  *)
(* volume and the strategy (apply_volume_discount).                        *)
(***************************************************************************)
THEOREM DiscountNeverRaisesFee ==
    ASSUME NEW amount \in Nat, NEW s \in Strategy, NEW volume
    PROVE  FeeByStrategy(amount, DiscountedStrategy(volume, s)) <= FeeByStrategy(amount, s)
<1> DEFINE d == DiscountedStrategy(volume, s)
<1>1. FeeByStrategy(amount, s) \in Nat
    BY FeeAtLeastMinFee
<1>2. CASE d = s
    BY <1>1, <1>2
<1>3. CASE d # s
    <2> DEFINE low == LesserOf(s.rate, VolumeDiscountBps)
    <2>1. s.kind = "Percentage" /\ d = Percentage(low)
        BY <1>3 DEF DiscountedStrategy
    <2>2. s.rate \in Nat /\ low \in Nat /\ low <= s.rate
        BY FeeConstantsAssumption DEF LesserOf, Strategy
    <2>3. ShareOf(amount, low) <= ShareOf(amount, s.rate)
        BY <2>2, ShareMonotonic
    <2>4. ShareOf(amount, low) \in Nat /\ ShareOf(amount, s.rate) \in Nat
        BY <2>2, ShareType
    <2>5. FeeByStrategy(amount, d) = GreaterOf(ShareOf(amount, low), MinFee)
        BY <2>1 DEF FeeByStrategy, Percentage
    <2>6. FeeByStrategy(amount, s) = GreaterOf(ShareOf(amount, s.rate), MinFee)
        BY <2>1 DEF FeeByStrategy
    <2> QED BY <2>3, <2>4, <2>5, <2>6 DEF GreaterOf, MinFee
<1> QED BY <1>2, <1>3

(***************************************************************************)
(* A split gives away exactly the amount: platform fee, protocol fee and   *)
(* net payout add up to it, and both fees are natural numbers, so that the *)
(* net payout is below the amount (calculate_fees_with_breakdown).         *)
(***************************************************************************)
THEOREM BreakdownSplitsAmount ==
    ASSUME NEW amount \in Nat, NEW s \in Strategy, NEW bps \in Nat
    PROVE  LET b == Breakdown(amount, s, bps) IN
           /\ b.platform \in Nat /\ b.platform >= MinFee
           /\ b.protocol \in Nat
           /\ b.net \in Int
           /\ b.platform + b.protocol + b.net = amount
<1> DEFINE platform == FeeByStrategy(amount, s)
           protocol == ProtocolFee(amount, bps)
<1>1. platform \in Nat /\ platform >= MinFee
    BY FeeAtLeastMinFee
<1>2. protocol \in Nat
    BY ShareType DEF ProtocolFee
<1> HIDE DEF platform, protocol
<1>3. (amount - platform) - protocol \in Int
      /\ platform + protocol + ((amount - platform) - protocol) = amount
    BY <1>1, <1>2
<1> QED BY <1>1, <1>2, <1>3 DEF Breakdown, platform, protocol

-----------------------------------------------------------------------------

Nothing == [toAgent |-> 0, toTreasury |-> 0, toSender |-> 0, charged |-> 0]

Lifecycle(i) ==
    LET r == rem[i]
        f == flow[i]
        d == disbursed[i]
    IN  /\ r.fee >= MinFee
        /\ f.deposited > 0
        /\ r.status # "Cancelled" => r.amount = f.deposited
        /\ i \in settled <=> r.status = "Completed"
        /\ f.toSender = IF r.status = "Cancelled" THEN f.deposited ELSE 0
        /\ f.charged = IF r.status = "Completed" /\ f.route = "single" THEN r.fee ELSE 0
        /\ r.status # "Completed" => f.route = "single"
        /\ \/ /\ r.status = "Pending"
              /\ d = 0 /\ f.toAgent = 0 /\ f.toTreasury = 0
           \/ /\ r.status = "Processing"
              /\ 0 < d /\ f.toAgent = d /\ d <= f.deposited /\ f.toTreasury = 0
           \/ /\ r.status = "Completed" /\ d = 0
              /\ f.route = "single"
              /\ f.toAgent + f.toTreasury + f.charged = f.deposited
           \/ /\ r.status = "Completed" /\ d = 0
              /\ f.route = "netted" /\ f.toAgent = 0 /\ f.toTreasury = 0
           \/ /\ r.status = "Completed" /\ d > 0 /\ f.route = "single"
              /\ f.toAgent = d /\ d <= f.deposited /\ f.toTreasury = 0
           \/ /\ r.status = "Cancelled"
              /\ f.toAgent = d /\ d <= f.deposited /\ f.toTreasury = 0

IInv ==
    /\ TypeOK
    /\ counter <= MaxRemittances
    /\ \A i \in Ids : Lifecycle(i)

-----------------------------------------------------------------------------
LEMMA Rates == FeeRates \subseteq Nat /\ TokenFeeRates \subseteq Nat /\ ProtocolRates \subseteq Nat
<1>1. FeeRates \subseteq 0..FeeDivisor /\ TokenFeeRates \subseteq 0..FeeDivisor
      /\ ProtocolRates \subseteq 0..200
    BY RemittanceAssumption
<1>2. 0..FeeDivisor \subseteq Nat /\ 0..200 \subseteq Nat
    BY DEF FeeDivisor
<1> QED BY <1>1, <1>2

(***************************************************************************)
(* The split confirm_payout and confirm_partial_payout compute: natural    *)
(* fees, and a net payout strictly below the amount.                       *)
(***************************************************************************)
LEMMA PayoutSplit ==
    ASSUME TypeOK, NEW amount \in Nat
    PROVE  LET b == PayoutBreakdown(amount) IN
           /\ b.platform \in Nat /\ b.platform >= MinFee
           /\ b.protocol \in Nat
           /\ b.net \in Int
           /\ b.platform + b.protocol + b.net = amount
           /\ b.net < amount
<1> DEFINE b == PayoutBreakdown(amount)
<1>1. StrategyForPayout \in Strategy
    BY EffectiveStrategyType DEF TypeOK, StrategyForPayout
<1>2. /\ b.platform \in Nat /\ b.platform >= MinFee
      /\ b.protocol \in Nat
      /\ b.net \in Int
      /\ b.platform + b.protocol + b.net = amount
    BY <1>1, BreakdownSplitsAmount DEF TypeOK, PayoutBreakdown
<1>3. b.net < amount
    <2> HIDE DEF b
    <2> QED BY <1>2 DEF MinFee
<1> QED BY <1>2, <1>3

\* The fee create_remittance and its variants store.
LEMMA CreationFee ==
    ASSUME TypeOK, NEW t \in Tokens, NEW s \in Strategy, NEW amount \in Nat, NEW volume
    PROVE  LET fee == FeeByStrategy(amount,
                        DiscountedStrategy(volume, StrategyForToken(s, t)))
           IN  fee \in Nat /\ fee >= MinFee
<1>1. RateOf(t) \in SUBSET Nat
    BY DEF TypeOK, RateOf
<1>2. StrategyForToken(s, t) \in Strategy
    BY <1>1, EffectiveStrategyType DEF TypeOK, StrategyForToken
<1>3. DiscountedStrategy(volume, StrategyForToken(s, t)) \in Strategy
    BY <1>2, DiscountedStrategyType
<1> QED BY <1>3, FeeAtLeastMinFee

\* Balances and the fee counter stay natural when a fee is collected.
LEMMA CollectFeeType ==
    ASSUME TypeOK, NEW h \in [Tokens -> Nat], NEW fee \in Nat, CollectFee(h, fee)
    PROVE  held' \in [Tokens -> Nat] /\ accumulated' \in Nat
BY RemittanceAssumption DEF CollectFee, TypeOK

\* Adding to what the agent, the treasury and the platform got.
LEMMA FlowType ==
    ASSUME TypeOK, NEW i \in Ids, NEW a \in Nat, NEW b \in Nat, NEW c \in Nat
    PROVE  /\ [flow EXCEPT ![i].toAgent = @ + a] \in [Ids -> Flow]
           /\ [flow EXCEPT ![i].toAgent = @ + a, ![i].charged = @ + c]
                \in [Ids -> Flow]
           /\ [flow EXCEPT ![i].toAgent = @ + a, ![i].toTreasury = @ + b,
                           ![i].charged = @ + c] \in [Ids -> Flow]
<1> DEFINE f == flow[i]
<1>1. flow \in [Ids -> Flow] /\ f \in Flow
    BY DEF TypeOK
<1>2. /\ f.toAgent + a \in Nat /\ f.toTreasury + b \in Nat /\ f.charged + c \in Nat
    BY <1>1 DEF Flow
<1>3. [f EXCEPT !.toAgent = f.toAgent + a] \in Flow
    BY <1>1, <1>2 DEF Flow
<1>4. [f EXCEPT !.toAgent = f.toAgent + a, !.charged = f.charged + c] \in Flow
    BY <1>1, <1>2 DEF Flow
<1>5. [f EXCEPT !.toAgent = f.toAgent + a, !.toTreasury = f.toTreasury + b,
                !.charged = f.charged + c] \in Flow
    BY <1>1, <1>2 DEF Flow
<1> HIDE DEF Flow
<1> QED BY <1>1, <1>3, <1>4, <1>5

\* A step that moves one remittance leaves the others' lifecycles alone.
LEMMA OthersUntouched ==
    ASSUME IInv, NEW i \in Ids, counter' = counter, Lifecycle(i)',
           \A j \in Ids \ {i} :
                /\ rem'[j] = rem[j] /\ flow'[j] = flow[j]
                /\ disbursed'[j] = disbursed[j]
                /\ j \in settled' <=> j \in settled
    PROVE  (\A j \in Ids : Lifecycle(j))'
<1> SUFFICES ASSUME NEW j \in Ids PROVE Lifecycle(j)'
    BY DEF Ids
<1>1. CASE j = i
    BY <1>1
<1>2. CASE j # i
    BY <1>2 DEF IInv, Lifecycle
<1> QED BY <1>1, <1>2

-----------------------------------------------------------------------------
LEMMA InitIInv == Init => IInv
<1> SUFFICES ASSUME Init PROVE IInv
    OBVIOUS
<1>1. Ids = {}
    BY DEF Init, Ids
<1>2. \A S : <<>> \in [{} -> S]
    OBVIOUS
<1>3. rem \in [Ids -> RemittanceRecord] /\ disbursed \in [Ids -> Nat] /\ flow \in [Ids -> Flow]
    BY <1>1, <1>2 DEF Init
<1>4. platformBps \in Nat /\ protocolBps \in Nat
    BY Rates DEF Init
<1>5. strategy \in Strategy
    BY <1>4 DEF Init, Percentage, Strategy, StrategyKinds
<1>6. held \in [Tokens -> Nat] /\ tokenBps \in [Tokens -> SUBSET Nat]
    BY <1>4 DEF Init
<1>7. TypeOK
    BY <1>3, <1>4, <1>5, <1>6 DEF Init, TypeOK
<1> QED BY <1>1, <1>7, RemittanceAssumption DEF Init, IInv

\* Every creation opens Pending remittances under fresh ids.
LEMMA OpenIInv ==
    ASSUME IInv, NEW s \in Senders, NEW t \in Tokens, NEW entries, NEW fees,
           Len(entries) \in Nat, DOMAIN entries = 1..Len(entries),
           \A j \in 1..Len(entries) :
                entries[j] \in Entry /\ fees[j] \in Nat /\ fees[j] >= MinFee,
           OpenRemittances(s, t, entries, fees)
    PROVE  IInv'
<1> DEFINE n == Len(entries)
           new(i) == i - counter
<1>1. counter \in Nat /\ counter' = counter + n /\ counter' \in Nat
      /\ counter' <= MaxRemittances
    BY DEF IInv, TypeOK, OpenRemittances
<1>2. \A i \in Ids' : (i <= counter => i \in Ids) /\ (~(i <= counter) => new(i) \in 1..n)
    BY <1>1 DEF Ids
<1>3. \A j \in 1..n : entries[j].agent \in Agents /\ entries[j].amount \in Nat \ {0}
                      /\ entries[j].expiry \in Nat \cup {NoExpiry}
    BY RemittanceAssumption DEF Entry
<1>4. rem' \in [Ids' -> RemittanceRecord]
    <2>1. \A i \in Ids' : rem'[i] \in RemittanceRecord
        <3> TAKE i \in Ids'
        <3>1. CASE i <= counter
            BY <3>1, <1>2 DEF IInv, TypeOK, OpenRemittances, Ids
        <3>2. CASE ~(i <= counter)
            <4>1. new(i) \in 1..n /\ now \in Nat
                BY <3>2, <1>2 DEF IInv, TypeOK
            <4>2. rem'[i] = [sender |-> s, agent |-> entries[new(i)].agent, token |-> t,
                      amount |-> entries[new(i)].amount, fee |-> fees[new(i)],
                      status |-> "Pending", expiry |-> entries[new(i)].expiry,
                      createdAt |-> now]
                BY <3>2 DEF OpenRemittances, Ids
            <4> QED BY <4>1, <4>2, <1>3 DEF RemittanceRecord, Status
        <3> QED BY <3>1, <3>2
    <2>2. rem' = [i \in Ids' |-> rem'[i]]
        BY DEF OpenRemittances, Ids
    <2> QED BY <2>1, <2>2
<1>5. disbursed' \in [Ids' -> Nat]
    BY <1>2 DEF IInv, TypeOK, OpenRemittances, Ids
<1>6. flow' \in [Ids' -> Flow]
    <2>1. \A i \in Ids' : flow'[i] \in Flow
        <3> TAKE i \in Ids'
        <3>1. CASE i <= counter
            BY <3>1, <1>2 DEF IInv, TypeOK, OpenRemittances, Ids
        <3>2. CASE ~(i <= counter)
            BY <3>2, <1>2, <1>3 DEF OpenRemittances, Ids, Flow
        <3> QED BY <3>1, <3>2
    <2>2. flow' = [i \in Ids' |-> flow'[i]]
        BY DEF OpenRemittances, Ids
    <2> QED BY <2>1, <2>2
<1>7. held' \in [Tokens -> Nat]
    <2> DEFINE total == SumFunctionOnSet(EntryAmount(entries), DOMAIN entries)
    <2>1. IsFiniteSet(1..n)
        BY FS_Interval
    <2>2. \A j \in 1..n : EntryAmount(entries)[j] \in Nat
        BY <1>3 DEF EntryAmount
    <2>3. total \in Nat
        BY <2>1, <2>2, SumType
    <2> HIDE DEF total
    <2>4. held' = [held EXCEPT ![t] = @ + total]
        BY DEF OpenRemittances, total
    <2> QED BY <2>3, <2>4 DEF IInv, TypeOK
<1>8. TypeOK'
    <2>1. settled' \subseteq Ids'
        BY <1>1 DEF IInv, TypeOK, OpenRemittances, Ids
    <2> QED BY <1>1, <1>4, <1>5, <1>6, <1>7, <2>1
            DEF IInv, TypeOK, OpenRemittances, feeVars
<1>9. ASSUME NEW i \in Ids' PROVE Lifecycle(i)'
    <2>1. CASE i <= counter
        <3>1. i \in Ids /\ rem'[i] = rem[i] /\ flow'[i] = flow[i]
              /\ disbursed'[i] = disbursed[i] /\ settled' = settled
            BY <2>1, <1>2 DEF OpenRemittances, Ids
        <3> QED BY <3>1 DEF IInv, Lifecycle
    <2>2. CASE ~(i <= counter)
        <3>1. new(i) \in 1..n /\ i \notin Ids
            BY <2>2, <1>2 DEF Ids
        <3>2. i \notin settled'
            BY <3>1 DEF IInv, TypeOK, OpenRemittances
        <3>3. /\ rem'[i].amount = entries[new(i)].amount
              /\ rem'[i].fee = fees[new(i)]
              /\ rem'[i].status = "Pending"
              /\ disbursed'[i] = 0
              /\ flow'[i] = [deposited |-> entries[new(i)].amount, toAgent |-> 0,
                      toTreasury |-> 0, toSender |-> 0, charged |-> 0,
                      refundToken |-> {}, route |-> "single"]
            BY <2>2 DEF OpenRemittances, Ids
        <3> QED BY <3>1, <3>2, <3>3, <1>3 DEF Lifecycle
    <2> QED BY <2>1, <2>2
<1> QED BY <1>1, <1>8, <1>9 DEF IInv

(***************************************************************************)
(* Payouts.                                                                *)
(***************************************************************************)
LEMMA ConfirmPayoutIInv ==
    ASSUME IInv, NEW i \in Ids, ConfirmPayout(i)
    PROVE  IInv'
<1> DEFINE r == rem[i]
           b == PayoutBreakdown(r.amount)
           h == [held EXCEPT ![r.token] = @ - b.net - b.protocol]
<1>1. /\ r \in RemittanceRecord /\ flow[i] \in Flow /\ disbursed[i] \in Nat
      /\ held \in [Tokens -> Nat] /\ Lifecycle(i) /\ Ids' = Ids
    BY DEF IInv, TypeOK, ConfirmPayout, Ids
<1>2. r.amount \in Nat /\ r.token \in Tokens /\ r.fee \in Nat
    BY <1>1 DEF RemittanceRecord
<1>3. /\ b.platform \in Nat /\ b.protocol \in Nat /\ b.net \in Int
      /\ b.platform + b.protocol + b.net = r.amount
    BY <1>2, PayoutSplit DEF IInv
<1>4. r.status = "Pending" /\ r.fee = b.platform /\ b.net >= 0
      /\ held[r.token] >= b.net + b.protocol /\ CollectFee(h, r.fee)
    BY DEF ConfirmPayout, FeeUnchanged, PayoutPayable, Payable, PayoutBreakdown
<1>5. /\ rem' = [rem EXCEPT ![i].status = "Completed"]
      /\ settled' = settled \cup {i}
      /\ flow' = [flow EXCEPT ![i].toAgent = @ + b.net,
                              ![i].toTreasury = @ + b.protocol,
                              ![i].charged = @ + r.fee]
      /\ disbursed' = disbursed /\ counter' = counter
      /\ completed' = completed + r.amount
      /\ UNCHANGED <<now, processing, feeVars, bars>>
    BY DEF ConfirmPayout
<1> HIDE DEF b
<1>6. h \in [Tokens -> Nat]
    BY <1>1, <1>2, <1>3, <1>4
<1>7. held' \in [Tokens -> Nat] /\ accumulated' \in Nat
    <2> HIDE DEF h, r
    <2> QED BY <1>2, <1>4, <1>6, CollectFeeType DEF IInv
<1>8. rem' \in [Ids -> RemittanceRecord]
    BY <1>5 DEF IInv, TypeOK, RemittanceRecord, Status
<1>9. flow' \in [Ids -> Flow]
    <2>1. b.net \in Nat
        BY <1>3, <1>4
    <2> QED BY <2>1, <1>2, <1>3, <1>5, FlowType DEF IInv
<1>10. TypeOK'
    <2>1. completed' \in Int
        BY <1>2, <1>5 DEF IInv, TypeOK
    <2> QED BY <1>1, <1>5, <1>7, <1>8, <1>9, <2>1 DEF IInv, TypeOK, feeVars
<1>11. Lifecycle(i)'
    <2>1. /\ rem'[i].status = "Completed" /\ rem'[i].fee = r.fee
          /\ rem'[i].amount = r.amount
          /\ flow'[i].deposited = flow[i].deposited
          /\ flow'[i].toSender = flow[i].toSender /\ flow'[i].route = flow[i].route
          /\ flow'[i].toAgent = flow[i].toAgent + b.net
          /\ flow'[i].toTreasury = flow[i].toTreasury + b.protocol
          /\ flow'[i].charged = flow[i].charged + r.fee
          /\ disbursed'[i] = disbursed[i] /\ i \in settled'
        BY <1>1, <1>5 DEF IInv, TypeOK, RemittanceRecord, Flow
    <2>2. /\ r.fee >= MinFee /\ flow[i].deposited > 0 /\ r.amount = flow[i].deposited
          /\ flow[i].toSender = 0 /\ flow[i].charged = 0 /\ disbursed[i] = 0
          /\ flow[i].route = "single"
          /\ flow[i].toAgent = 0 /\ flow[i].toTreasury = 0
        BY <1>1, <1>4 DEF Lifecycle
    <2> HIDE DEF r
    <2>3. flow'[i].toAgent + flow'[i].toTreasury + flow'[i].charged = flow'[i].deposited
        BY <1>2, <1>3, <1>4, <2>1, <2>2
    <2> QED BY <2>1, <2>2, <2>3, <1>2 DEF Lifecycle
<1>12. (\A j \in Ids : Lifecycle(j))'
    BY <1>5, <1>11, OthersUntouched DEF IInv, TypeOK
<1> QED BY <1>5, <1>10, <1>12 DEF IInv

LEMMA ConfirmPartialPayoutIInv ==
    ASSUME IInv, NEW i \in Ids, NEW amount \in PartialAmounts,
           ConfirmPartialPayout(i, amount)
    PROVE  IInv'
<1> DEFINE r == rem[i]
           net == PayoutBreakdown(r.amount).net
<1>1. /\ r \in RemittanceRecord /\ flow[i] \in Flow /\ disbursed[i] \in Nat
      /\ held \in [Tokens -> Nat] /\ Lifecycle(i) /\ Ids' = Ids
    BY DEF IInv, TypeOK, ConfirmPartialPayout, PartialPayoutMoves, Ids
<1>2. /\ r.amount \in Nat /\ r.token \in Tokens /\ r.fee \in Nat
      /\ amount \in Nat /\ amount > 0
    BY <1>1, RemittanceAssumption DEF RemittanceRecord
<1>3. net \in Int /\ net < r.amount
    BY <1>2, PayoutSplit DEF IInv
<1>4. /\ r.status \in {"Pending", "Processing"}
      /\ disbursed[i] + amount < net
      /\ held[r.token] >= amount
    <2> HIDE DEF net
    <2> QED BY <1>1, <1>2, <1>3
        DEF ConfirmPartialPayout, PartialPayoutMoves, Remaining, net
<1>5. /\ rem' = [rem EXCEPT ![i].status = "Processing"]
      /\ held' = [held EXCEPT ![r.token] = @ - amount]
      /\ flow' = [flow EXCEPT ![i].toAgent = @ + amount]
      /\ disbursed' = [disbursed EXCEPT ![i] = @ + amount]
      /\ processing' = processing + (r.amount - InFlight(i))
      /\ UNCHANGED <<now, counter, settled, accumulated, completed, feeVars, bars>>
    BY DEF ConfirmPartialPayout, PartialPayoutMoves
<1> HIDE DEF net
<1>6. TypeOK'
    <2>1. held' \in [Tokens -> Nat]
        BY <1>1, <1>2, <1>4, <1>5
    <2>2. rem' \in [Ids -> RemittanceRecord]
        BY <1>5 DEF IInv, TypeOK, RemittanceRecord, Status
    <2>3. flow' \in [Ids -> Flow]
        BY <1>2, <1>5, FlowType DEF IInv
    <2>5. disbursed' \in [Ids -> Nat]
        <3> HIDE DEF r
        <3> QED BY <1>2, <1>5 DEF IInv, TypeOK
    <2>4. processing' \in Int
        BY <1>2, <1>5 DEF IInv, TypeOK, InFlight
    <2> QED BY <1>1, <1>5, <2>1, <2>2, <2>3, <2>4, <2>5 DEF IInv, TypeOK, feeVars
<1>7. Lifecycle(i)'
    <2>1. /\ rem'[i].status = "Processing" /\ rem'[i].fee = r.fee
          /\ rem'[i].amount = r.amount
          /\ flow'[i].deposited = flow[i].deposited
          /\ flow'[i].toSender = flow[i].toSender /\ flow'[i].route = flow[i].route
          /\ flow'[i].toAgent = flow[i].toAgent + amount
          /\ flow'[i].toTreasury = flow[i].toTreasury
          /\ flow'[i].charged = flow[i].charged
          /\ disbursed'[i] = disbursed[i] + amount /\ settled' = settled
        BY <1>1, <1>5 DEF IInv, TypeOK, RemittanceRecord, Flow
    <2>2. /\ r.fee >= MinFee /\ flow[i].deposited > 0 /\ r.amount = flow[i].deposited
          /\ flow[i].toSender = 0 /\ flow[i].charged = 0 /\ flow[i].route = "single"
          /\ flow[i].toAgent = disbursed[i] /\ flow[i].toTreasury = 0
          /\ i \notin settled
        BY <1>1, <1>4 DEF Lifecycle
    <2> HIDE DEF r
    <2>3. 0 < disbursed'[i] /\ disbursed'[i] <= flow'[i].deposited
          /\ flow'[i].toAgent = disbursed'[i]
        BY <1>1, <1>2, <1>3, <1>4, <2>1, <2>2
    <2> QED BY <2>1, <2>2, <2>3 DEF Lifecycle
<1>8. (\A j \in Ids : Lifecycle(j))'
    BY <1>5, <1>7, OthersUntouched DEF IInv, TypeOK
<1> QED BY <1>5, <1>6, <1>8 DEF IInv

LEMMA ConfirmLastPartialPayoutIInv ==
    ASSUME IInv, NEW i \in Ids, NEW amount \in PartialAmounts,
           ConfirmLastPartialPayout(i, amount)
    PROVE  IInv'
<1> DEFINE r == rem[i]
           net == PayoutBreakdown(r.amount).net
           h == [held EXCEPT ![r.token] = @ - amount]
<1>1. /\ r \in RemittanceRecord /\ flow[i] \in Flow /\ disbursed[i] \in Nat
      /\ held \in [Tokens -> Nat] /\ Lifecycle(i) /\ Ids' = Ids
    BY DEF IInv, TypeOK, ConfirmLastPartialPayout, PartialPayoutMoves, Ids
<1>2. /\ r.amount \in Nat /\ r.token \in Tokens /\ r.fee \in Nat
      /\ amount \in Nat /\ amount > 0
    BY <1>1, RemittanceAssumption DEF RemittanceRecord
<1>3. net \in Int /\ net < r.amount
    BY <1>2, PayoutSplit DEF IInv
<1>4. /\ r.status \in {"Pending", "Processing"}
      /\ disbursed[i] + amount = net
      /\ held[r.token] >= amount
      /\ CollectFee(h, r.fee)
    <2> HIDE DEF net
    <2> QED BY <1>1, <1>2, <1>3
        DEF ConfirmLastPartialPayout, PartialPayoutMoves, Remaining, net
<1>5. /\ rem' = [rem EXCEPT ![i].status = "Completed"]
      /\ settled' = settled \cup {i}
      /\ flow' = [flow EXCEPT ![i].toAgent = @ + amount, ![i].charged = @ + r.fee]
      /\ disbursed' = [disbursed EXCEPT ![i] = @ + amount]
      /\ processing' = processing - InFlight(i)
      /\ completed' = completed + r.amount
      /\ UNCHANGED <<now, counter, feeVars, bars>>
    BY DEF ConfirmLastPartialPayout, PartialPayoutMoves
<1> HIDE DEF net
<1>6. h \in [Tokens -> Nat]
    BY <1>1, <1>2, <1>4
<1>7. held' \in [Tokens -> Nat] /\ accumulated' \in Nat
    <2> HIDE DEF h, r
    <2> QED BY <1>2, <1>4, <1>6, CollectFeeType DEF IInv
<1>8. TypeOK'
    <2>1. rem' \in [Ids -> RemittanceRecord]
        BY <1>5 DEF IInv, TypeOK, RemittanceRecord, Status
    <2>2. flow' \in [Ids -> Flow]
        BY <1>2, <1>5, FlowType DEF IInv
    <2>4. disbursed' \in [Ids -> Nat]
        <3> HIDE DEF r
        <3> QED BY <1>2, <1>5 DEF IInv, TypeOK
    <2>3. processing' \in Int /\ completed' \in Int
        BY <1>2, <1>5 DEF IInv, TypeOK, InFlight
    <2> QED BY <1>1, <1>5, <1>7, <2>1, <2>2, <2>3, <2>4 DEF IInv, TypeOK, feeVars
<1>9. Lifecycle(i)'
    <2>1. /\ rem'[i].status = "Completed" /\ rem'[i].fee = r.fee
          /\ rem'[i].amount = r.amount
          /\ flow'[i].deposited = flow[i].deposited
          /\ flow'[i].toSender = flow[i].toSender /\ flow'[i].route = flow[i].route
          /\ flow'[i].toAgent = flow[i].toAgent + amount
          /\ flow'[i].toTreasury = flow[i].toTreasury
          /\ flow'[i].charged = flow[i].charged + r.fee
          /\ disbursed'[i] = disbursed[i] + amount /\ i \in settled'
        BY <1>1, <1>5 DEF IInv, TypeOK, RemittanceRecord, Flow
    <2>2. /\ r.fee >= MinFee /\ flow[i].deposited > 0 /\ r.amount = flow[i].deposited
          /\ flow[i].toSender = 0 /\ flow[i].charged = 0 /\ flow[i].route = "single"
          /\ flow[i].toAgent = disbursed[i] /\ flow[i].toTreasury = 0
        BY <1>1, <1>4 DEF Lifecycle
    <2> HIDE DEF r
    <2>3. /\ 0 < disbursed'[i] /\ disbursed'[i] <= flow'[i].deposited
          /\ flow'[i].toAgent = disbursed'[i] /\ flow'[i].charged = r.fee
        BY <1>1, <1>2, <1>3, <1>4, <2>1, <2>2
    <2> QED BY <2>1, <2>2, <2>3 DEF Lifecycle
<1>10. (\A j \in Ids : Lifecycle(j))'
    BY <1>5, <1>9, OthersUntouched DEF IInv, TypeOK
<1> QED BY <1>5, <1>8, <1>10 DEF IInv

(***************************************************************************)
(* Refunds.                                                                *)
(***************************************************************************)
LEMMA RefundedFlowType ==
    ASSUME NEW f \in Flow, NEW amount \in Nat, NEW t \in Tokens
    PROVE  /\ RefundedFlow(f, amount, t) \in Flow
           /\ RefundedFlow(f, amount, t).toSender = f.toSender + amount
           /\ RefundedFlow(f, amount, t).deposited = f.deposited
           /\ RefundedFlow(f, amount, t).toAgent = f.toAgent
           /\ RefundedFlow(f, amount, t).toTreasury = f.toTreasury
           /\ RefundedFlow(f, amount, t).charged = f.charged
           /\ RefundedFlow(f, amount, t).route = f.route
<1>1. f.toSender + amount \in Nat
    BY DEF Flow
<1> QED BY <1>1 DEF RefundedFlow, Flow

\* The common part of mark_failed and cancel_remittance: the remittance is
\* closed, its whole amount went to the sender in token t.
LEMMA RefundOneIInv ==
    ASSUME IInv, NEW i \in Ids, NEW t \in Tokens,
           rem[i].status \in {"Pending", "Processing"},
           held[t] >= rem[i].amount,
           held' = [held EXCEPT ![t] = @ - rem[i].amount],
           rem' = [rem EXCEPT ![i].status = "Cancelled", ![i].amount = 0],
           flow' = [flow EXCEPT ![i] = RefundedFlow(@, rem[i].amount, t)],
           processing' \in Int,
           UNCHANGED <<now, counter, disbursed, settled, accumulated, completed,
                       feeVars, bars>>
    PROVE  IInv'
<1> DEFINE r == rem[i]
<1>1. /\ r \in RemittanceRecord /\ flow[i] \in Flow /\ disbursed[i] \in Nat
      /\ held \in [Tokens -> Nat] /\ Lifecycle(i) /\ Ids' = Ids
    BY DEF IInv, TypeOK, Ids
<1>2. r.amount \in Nat
    BY <1>1 DEF RemittanceRecord
<1>3. TypeOK'
    <2>1. held' \in [Tokens -> Nat]
        <3> HIDE DEF r
        <3>1. held[t] \in Nat /\ held[t] - r.amount \in Nat
            BY <1>1, <1>2 DEF r
        <3>2. held' = [held EXCEPT ![t] = held[t] - r.amount]
            BY DEF r
        <3> QED BY <1>1, <3>1, <3>2
    <2>2. rem' \in [Ids -> RemittanceRecord]
        <3>1. [r EXCEPT !.status = "Cancelled", !.amount = 0] \in RemittanceRecord
            BY <1>1 DEF RemittanceRecord, Status
        <3>2. rem \in [Ids -> RemittanceRecord]
            BY DEF IInv, TypeOK
        <3> HIDE DEF RemittanceRecord
        <3> QED BY <3>1, <3>2
    <2>3. flow' \in [Ids -> Flow]
        <3>1. flow \in [Ids -> Flow] /\ RefundedFlow(flow[i], r.amount, t) \in Flow
            BY <1>1, <1>2, RefundedFlowType DEF IInv, TypeOK
        <3> QED BY <3>1
    <2> QED BY <1>1, <2>1, <2>2, <2>3 DEF IInv, TypeOK, feeVars
<1>4. Lifecycle(i)'
    <2>1. /\ rem'[i].status = "Cancelled" /\ rem'[i].fee = r.fee
          /\ flow'[i] = RefundedFlow(flow[i], r.amount, t)
        BY <1>1 DEF IInv, TypeOK, RemittanceRecord
    <2>2. /\ flow'[i].toSender = flow[i].toSender + r.amount
          /\ flow'[i].deposited = flow[i].deposited
          /\ flow'[i].toAgent = flow[i].toAgent
          /\ flow'[i].toTreasury = flow[i].toTreasury
          /\ flow'[i].charged = flow[i].charged /\ flow'[i].route = flow[i].route
        BY <1>1, <1>2, <2>1, RefundedFlowType
    <2>3. /\ r.fee >= MinFee /\ flow[i].deposited > 0 /\ r.amount = flow[i].deposited
          /\ flow[i].toSender = 0 /\ flow[i].charged = 0 /\ flow[i].route = "single"
          /\ flow[i].toAgent = disbursed[i] /\ flow[i].toTreasury = 0
          /\ disbursed[i] <= flow[i].deposited /\ i \notin settled
        BY <1>1 DEF Lifecycle, Flow
    <2> QED BY <1>2, <2>1, <2>2, <2>3 DEF Lifecycle
<1>5. (\A j \in Ids : Lifecycle(j))'
    BY <1>4, OthersUntouched DEF IInv, TypeOK
<1> QED BY <1>3, <1>5 DEF IInv

LEMMA MarkFailedIInv ==
    ASSUME IInv, NEW i \in Ids, MarkFailed(i)
    PROVE  IInv'
<1>1. rem[i].token \in Tokens /\ rem[i].amount \in Nat
    BY DEF IInv, TypeOK, RemittanceRecord
<1>2. processing' \in Int
    BY <1>1 DEF IInv, TypeOK, MarkFailed, InFlight
<1> QED BY <1>1, <1>2, RefundOneIInv DEF MarkFailed

LEMMA CancelRemittanceIInv ==
    ASSUME IInv, NEW i \in Ids, CancelRemittance(i)
    PROVE  IInv'
<1>1. USDC \in Tokens
    BY RemittanceAssumption
<1>2. processing' \in Int
    BY DEF IInv, TypeOK, CancelRemittance
<1> QED BY <1>1, <1>2, RefundOneIInv DEF CancelRemittance

LEMMA ProcessExpiredIInv ==
    ASSUME IInv, NEW batch \in SUBSET Ids, ProcessExpiredRemittances(batch)
    PROVE  IInv'
<1> DEFINE due == Due(batch)
           total == SumFunctionOnSet(AmountOf, due)
<1>1. /\ counter' = counter /\ Ids' = Ids /\ USDC \in Tokens
      /\ \A i \in Ids : /\ rem[i] \in RemittanceRecord /\ flow[i] \in Flow
                        /\ rem[i].amount \in Nat /\ Lifecycle(i)
    BY RemittanceAssumption
    DEF IInv, TypeOK, ProcessExpiredRemittances, Ids, RemittanceRecord
<1>2. due \subseteq Ids /\ \A i \in due : rem[i].status = "Pending"
    BY DEF Due
<1>3. total \in Nat
    <2>1. IsFiniteSet(due)
        <3>1. IsFiniteSet(Ids)
            BY FS_Interval DEF IInv, TypeOK, Ids
        <3> QED BY <3>1, <1>2, FS_Subset
    <2>2. \A i \in due : AmountOf[i] \in Nat
        BY <1>1, <1>2 DEF AmountOf
    <2> QED BY <2>1, <2>2, SumType
<1>4. held[USDC] >= total /\ held' = [held EXCEPT ![USDC] = @ - total]
    BY DEF ProcessExpiredRemittances
<1>5. /\ rem' = [i \in Ids |-> IF i \in due THEN [rem[i] EXCEPT !.status = "Cancelled"]
                                ELSE rem[i]]
      /\ flow' = [i \in Ids |-> IF i \in due
                                 THEN RefundedFlow(flow[i], rem[i].amount, USDC)
                                 ELSE flow[i]]
      /\ UNCHANGED <<now, counter, disbursed, settled, accumulated, processing,
                     completed, feeVars, bars>>
    BY DEF ProcessExpiredRemittances
<1> HIDE DEF due, total
<1>6. TypeOK'
    <2>1. held' \in [Tokens -> Nat]
        <3>1. held \in [Tokens -> Nat] /\ held[USDC] \in Nat /\ held[USDC] - total \in Nat
            BY <1>1, <1>3, <1>4 DEF IInv, TypeOK
        <3> QED BY <1>1, <1>4, <3>1
    <2>2. rem' \in [Ids -> RemittanceRecord]
        <3>1. \A i \in Ids : [rem[i] EXCEPT !.status = "Cancelled"] \in RemittanceRecord
            BY <1>1 DEF RemittanceRecord, Status
        <3> QED BY <1>1, <1>5, <3>1
    <2>3. flow' \in [Ids -> Flow]
        <3>1. \A i \in Ids : RefundedFlow(flow[i], rem[i].amount, USDC) \in Flow
            BY <1>1, RefundedFlowType
        <3> QED BY <1>1, <1>5, <3>1
    <2> QED BY <1>1, <1>5, <2>1, <2>2, <2>3 DEF IInv, TypeOK, feeVars
<1>7. ASSUME NEW i \in Ids PROVE Lifecycle(i)'
    <2>1. CASE i \in due
        <3>1. /\ rem'[i].status = "Cancelled" /\ rem'[i].fee = rem[i].fee
              /\ flow'[i] = RefundedFlow(flow[i], rem[i].amount, USDC)
              /\ disbursed'[i] = disbursed[i] /\ settled' = settled
            BY <1>1, <1>5, <2>1 DEF RemittanceRecord
        <3>2. /\ flow'[i].toSender = flow[i].toSender + rem[i].amount
              /\ flow'[i].deposited = flow[i].deposited
              /\ flow'[i].toAgent = flow[i].toAgent
              /\ flow'[i].toTreasury = flow[i].toTreasury
              /\ flow'[i].charged = flow[i].charged /\ flow'[i].route = flow[i].route
            BY <1>1, <3>1, RefundedFlowType
        <3>3. /\ rem[i].fee >= MinFee /\ flow[i].deposited > 0
              /\ rem[i].amount = flow[i].deposited
              /\ flow[i].toSender = 0 /\ flow[i].charged = 0 /\ flow[i].toAgent = 0
              /\ flow[i].toTreasury = 0 /\ disbursed[i] = 0 /\ i \notin settled
              /\ flow[i].route = "single"
            BY <1>1, <1>2, <2>1 DEF Lifecycle
        <3> QED BY <1>1, <3>1, <3>2, <3>3 DEF Lifecycle
    <2>2. CASE i \notin due
        BY <1>1, <1>5, <2>2 DEF Lifecycle
    <2> QED BY <2>1, <2>2
<1> QED BY <1>1, <1>6, <1>7 DEF IInv

(***************************************************************************)
(* Netting: what is paid is a natural number, and only the status, the     *)
(* settlement hash and the route of the netted remittances change.         *)
(***************************************************************************)
LEMMA NetPaidType ==
    ASSUME IInv, NEW batch \in SUBSET Ids,
           \A pair \in {Parties(i) : i \in batch} : NetPayouts(batch)[pair] >= 0
    PROVE  /\ SumFunctionOnSet(NetPayouts(batch), {Parties(i) : i \in batch}) \in Nat
           /\ SumFunctionOnSet(FeeOf, batch) \in Nat
<1> DEFINE pairs == {Parties(i) : i \in batch}
<1>1. /\ IsFiniteSet(batch) /\ \A s : s \subseteq batch => IsFiniteSet(s)
      /\ \A i \in batch : AmountOf[i] \in Nat /\ FeeOf[i] \in Nat
    <2>1. IsFiniteSet(Ids)
        BY FS_Interval DEF IInv, TypeOK, Ids
    <2>2. \A i \in batch : AmountOf[i] \in Nat /\ FeeOf[i] \in Nat
        BY DEF AmountOf, FeeOf, IInv, TypeOK, RemittanceRecord
    <2> QED BY <2>1, <2>2, FS_Subset
<1>2. \A s : s \subseteq batch => /\ SumFunctionOnSet(AmountOf, s) \in Nat
                                  /\ SumFunctionOnSet(FeeOf, s) \in Nat
    BY <1>1, SumType
<1>3. IsFiniteSet(pairs)
    <2>1. PICK n \in Nat : ExistsSurjection(1..n, batch)
        BY <1>1, FS_NatSurjection
    <2>2. PICK f \in [1..n -> batch] : \A i \in batch : \E k \in 1..n : f[k] = i
        BY <2>1 DEF ExistsSurjection, Surjection
    <2> DEFINE g == [k \in 1..n |-> Parties(f[k])]
    <2>3. g \in Surjection(1..n, pairs)
        BY <2>2 DEF Surjection
    <2> QED BY <2>3, FS_NatSurjection DEF ExistsSurjection
<1>4. \A pair \in pairs : NetPayouts(batch)[pair] \in Nat
    <2> SUFFICES ASSUME NEW pair \in pairs PROVE NetPayouts(batch)[pair] \in Nat
        OBVIOUS
    <2>1. Between(batch, pair) \subseteq batch
        BY DEF Between
    <2>2. \A a : NetToward(batch, pair, a) \in Int
        BY <1>2, <2>1 DEF NetToward
    <2>3. NetAmount(batch, pair) \in Int
        BY <2>2 DEF NetAmount
    <2>4. NetPayouts(batch)[pair]
            = NetAmount(batch, pair) - SumFunctionOnSet(FeeOf, Between(batch, pair))
        BY DEF NetPayouts
    <2>5. SumFunctionOnSet(FeeOf, Between(batch, pair)) \in Nat
        BY <1>2, <2>1
    <2>6. NetPayouts(batch)[pair] \in Int
        BY <2>3, <2>4, <2>5
    <2> QED BY <2>6
<1>5. SumFunctionOnSet(NetPayouts(batch), pairs) \in Nat
    <2> HIDE DEF pairs
    <2> QED BY <1>3, <1>4, SumType
<1> QED BY <1>2, <1>5

LEMMA NettingIInv ==
    ASSUME IInv, NEW batch \in SUBSET Ids, BatchSettleWithNetting(batch)
    PROVE  IInv'
<1> DEFINE paid == SumFunctionOnSet(NetPayouts(batch), {Parties(i) : i \in batch})
           fees == SumFunctionOnSet(FeeOf, batch)
           h == [held EXCEPT ![USDC] = @ - paid]
<1>1. paid \in Nat /\ fees \in Nat
    BY NetPaidType DEF BatchSettleWithNetting
<1>2. /\ \A i \in batch : rem[i].status = "Pending" /\ i \notin settled
      /\ held[USDC] >= paid
      /\ CollectNettedFees(h, fees)
      /\ rem' = [i \in Ids |-> IF i \in batch THEN [rem[i] EXCEPT !.status = "Completed"]
                                ELSE rem[i]]
      /\ settled' = settled \cup batch
      /\ flow' = [i \in Ids |-> IF i \in batch THEN [flow[i] EXCEPT !.route = "netted"]
                                 ELSE flow[i]]
      /\ UNCHANGED <<now, counter, disbursed, processing, completed, feeVars, bars>>
    BY DEF BatchSettleWithNetting, Settleable
<1> HIDE DEF paid, fees
<1>3. /\ counter' = counter /\ Ids' = Ids /\ USDC \in Tokens
      /\ \A i \in Ids : rem[i] \in RemittanceRecord /\ flow[i] \in Flow /\ Lifecycle(i)
    BY <1>2, RemittanceAssumption DEF IInv, TypeOK, Ids
<1>4. held' \in [Tokens -> Nat] /\ accumulated' \in Nat
    <2>1. h \in [Tokens -> Nat] /\ accumulated \in Nat
        BY <1>1, <1>2, <1>3 DEF IInv, TypeOK
    <2> HIDE DEF h
    <2>2. MaxFees \in Nat
        BY RemittanceAssumption
    <2>3. CASE accumulated + fees > MaxFees
        <3>1. /\ h[USDC] >= accumulated + fees /\ accumulated' = 0
              /\ held' = [h EXCEPT ![USDC] = @ - (accumulated + fees)]
            BY <1>2, <2>3 DEF CollectNettedFees
        <3>2. h[USDC] - (accumulated + fees) \in Nat
            BY <1>1, <1>3, <2>1, <3>1
        <3> QED BY <2>1, <3>1, <3>2
    <2>4. CASE ~(accumulated + fees > MaxFees)
        <3>1. held' = h /\ accumulated' = accumulated + fees
            BY <1>2, <2>4 DEF CollectNettedFees
        <3> QED BY <1>1, <2>1, <3>1
    <2> QED BY <2>3, <2>4
<1>5. TypeOK'
    <2>1. rem' \in [Ids -> RemittanceRecord]
        <3>1. \A i \in Ids : [rem[i] EXCEPT !.status = "Completed"] \in RemittanceRecord
            BY <1>3 DEF RemittanceRecord, Status
        <3> QED BY <1>2, <1>3, <3>1
    <2>2. flow' \in [Ids -> Flow]
        <3>1. \A i \in Ids : [flow[i] EXCEPT !.route = "netted"] \in Flow
            BY <1>3 DEF Flow
        <3> QED BY <1>2, <1>3, <3>1
    <2> QED BY <1>2, <1>3, <1>4, <2>1, <2>2 DEF IInv, TypeOK, feeVars
<1>6. ASSUME NEW i \in Ids PROVE Lifecycle(i)'
    <2>1. CASE i \in batch
        <3>1. /\ rem'[i].status = "Completed" /\ rem'[i].fee = rem[i].fee
              /\ rem'[i].amount = rem[i].amount /\ rem[i].status = "Pending"
              /\ disbursed'[i] = disbursed[i] /\ i \in settled'
            BY <1>2, <1>3, <2>1 DEF RemittanceRecord
        <3>2. /\ flow'[i].route = "netted"
              /\ flow'[i].toSender = flow[i].toSender
              /\ flow'[i].deposited = flow[i].deposited
              /\ flow'[i].toAgent = flow[i].toAgent
              /\ flow'[i].toTreasury = flow[i].toTreasury
              /\ flow'[i].charged = flow[i].charged
            BY <1>2, <1>3, <2>1 DEF Flow
        <3>3. /\ rem[i].fee >= MinFee /\ flow[i].deposited > 0
              /\ rem[i].amount = flow[i].deposited
              /\ flow[i].toSender = 0 /\ flow[i].charged = 0 /\ flow[i].toAgent = 0
              /\ flow[i].toTreasury = 0 /\ disbursed[i] = 0
            BY <1>3, <3>1 DEF Lifecycle
        <3> QED BY <3>1, <3>2, <3>3 DEF Lifecycle
    <2>2. CASE i \notin batch
        BY <1>2, <1>3, <2>2 DEF Lifecycle
    <2> QED BY <2>1, <2>2
<1> QED BY <1>3, <1>5, <1>6 DEF IInv

-----------------------------------------------------------------------------
(***************************************************************************)
(* Fee withdrawal, settings and time leave every remittance alone.         *)
(***************************************************************************)
LEMMA LedgerKeptIInv ==
    ASSUME IInv, UNCHANGED remVars, TypeOK'
    PROVE  IInv'
<1>1. Ids' = Ids
    BY DEF remVars, Ids
<1>2. ASSUME NEW i \in Ids PROVE Lifecycle(i)'
    BY DEF IInv, Lifecycle, remVars
<1> QED BY <1>1, <1>2 DEF IInv, remVars

LEMMA AdministerIInv ==
    ASSUME IInv, Administer \/ Tick
    PROVE  IInv'
<1> SUFFICES UNCHANGED remVars /\ TypeOK'
    BY LedgerKeptIInv
<1> USE DEF IInv, TypeOK, Ids, remVars, moneyVars, feeVars
<1>1. CASE WithdrawFees
    BY <1>1, RemittanceAssumption DEF WithdrawFees
<1>2. ASSUME NEW bps \in FeeRates, UpdateFee(bps) PROVE UNCHANGED remVars /\ TypeOK'
    <2>1. bps \in Nat /\ Percentage(bps) \in Strategy
        BY Rates DEF Percentage, Strategy, StrategyKinds
    <2> QED BY <1>2, <2>1 DEF UpdateFee
<1>3. ASSUME NEW s \in Strategies, UpdateFeeStrategy(s) PROVE UNCHANGED remVars /\ TypeOK'
    BY <1>3, RemittanceAssumption DEF UpdateFeeStrategy
<1>4. ASSUME NEW t \in Tokens, NEW bps \in TokenFeeRates, UpdateTokenFee(t, bps)
      PROVE  UNCHANGED remVars /\ TypeOK'
    BY <1>4, Rates DEF UpdateTokenFee
<1>5. ASSUME NEW bps \in ProtocolRates, UpdateProtocolFee(bps)
      PROVE  UNCHANGED remVars /\ TypeOK'
    BY <1>5, Rates DEF UpdateProtocolFee
<1>6. ASSUME NEW raised, NEW lifted, ChangeBars(raised, lifted)
      PROVE  UNCHANGED remVars /\ TypeOK'
    BY <1>6 DEF ChangeBars
<1>7. CASE Tick
    BY <1>7 DEF Tick
<1> QED BY <1>1, <1>2, <1>3, <1>4, <1>5, <1>6, <1>7
        DEF Administer, RegisterAgent, RemoveAgent, RaiseBar, LiftBar

-----------------------------------------------------------------------------
(***************************************************************************)
(* Creations, by any of the three entry points.                            *)
(***************************************************************************)
LEMMA EntryTypes ==
    ASSUME NEW e \in Entry
    PROVE  e.agent \in Agents /\ e.amount \in Nat /\ e.amount > 0
<1>1. Amounts \subseteq Nat \ {0}
    BY RemittanceAssumption
<1>2. e.agent \in Agents /\ e.amount \in Amounts
    BY DEF Entry
<1>3. e.amount \in Nat /\ e.amount # 0
    BY <1>1, <1>2
<1> QED BY <1>2, <1>3

LEMMA CreateIInv ==
    ASSUME IInv, Create
    PROVE  IInv'
<1> USDC \in Tokens /\ TypeOK /\ strategy \in Strategy
    BY RemittanceAssumption DEF IInv, TypeOK
<1>1. ASSUME NEW s \in Senders, NEW t \in Tokens, NEW e \in Entry, CreateRemittance(s, t, e)
      PROVE  IInv'
    <2> DEFINE fee == SenderFee(s, t, e.amount, RollingVolume(s))
    <2>1. fee \in Nat /\ fee >= MinFee
        BY EntryTypes, CreationFee DEF SenderFee
    <2>2. OpenRemittances(s, t, <<e>>, <<fee>>)
        BY <1>1 DEF CreateRemittance
    <2> HIDE DEF fee
    <2> QED BY <2>1, <2>2, OpenIInv
<1>2. ASSUME NEW s \in Senders, NEW e \in Entry, NEW c \in Corridors \cup {Uncorridored},
             CreateRemittanceWithCorridor(s, e, c)
      PROVE  IInv'
    <2> DEFINE fee == FeeByStrategy(e.amount,
                 DiscountedStrategy(RollingVolume(s) + e.amount,
                                    StrategyForToken(c.strategy, USDC)))
    <2>1. c.strategy \in Strategy
        BY RemittanceAssumption DEF Uncorridored
    <2>2. fee \in Nat /\ fee >= MinFee
        BY <2>1, EntryTypes, CreationFee
    <2>3. OpenRemittances(s, USDC, <<e>>, <<fee>>)
        BY <1>2 DEF CreateRemittanceWithCorridor
    <2> HIDE DEF fee
    <2> QED BY <2>2, <2>3, OpenIInv
<1>3. ASSUME NEW s \in Senders, NEW n \in 1..MaxBatch, NEW entries \in [1..n -> Entry],
             BatchCreateRemittances(s, entries)
      PROVE  IInv'
    <2> DEFINE volume(j) == RollingVolume(s)
                             + SumFunctionOnSet(EntryAmount(entries), 1..(j - 1))
               fees == [j \in DOMAIN entries |->
                            SenderFee(s, USDC, entries[j].amount, volume(j))]
    <2>1. n \in Nat /\ DOMAIN entries = 1..n /\ Len(entries) = n
        BY RemittanceAssumption
    <2>2. \A j \in 1..n : entries[j] \in Entry /\ fees[j] \in Nat /\ fees[j] >= MinFee
        <3> TAKE j \in 1..n
        <3>1. entries[j] \in Entry
            OBVIOUS
        <3>2. fees[j] = SenderFee(s, USDC, entries[j].amount, volume(j))
            BY <2>1
        <3> QED BY <3>1, <3>2, EntryTypes, CreationFee DEF SenderFee
    <2>3. OpenRemittances(s, USDC, entries, fees)
        BY <1>3 DEF BatchCreateRemittances
    <2> HIDE DEF fees
    <2> QED BY <2>1, <2>2, <2>3, OpenIInv
<1> QED BY <1>1, <1>2, <1>3 DEF Create

-----------------------------------------------------------------------------
LEMMA NextIInv == IInv /\ [Next]_vars => IInv'
<1> SUFFICES ASSUME IInv, [Next]_vars PROVE IInv'
    OBVIOUS
<1>1. CASE Create
    BY <1>1, CreateIInv
<1>2. CASE Payout
    BY <1>2, ConfirmPayoutIInv, ConfirmPartialPayoutIInv, ConfirmLastPartialPayoutIInv
    DEF Payout
<1>3. CASE Refund
    BY <1>3, MarkFailedIInv, CancelRemittanceIInv, ProcessExpiredIInv DEF Refund
<1>4. CASE Administer \/ Tick
    BY <1>4, AdministerIInv
<1>5. CASE Net
    BY <1>5, NettingIInv DEF Net
<1>6. CASE UNCHANGED vars
    BY <1>6 DEF vars, remVars, moneyVars, feeVars, IInv, TypeOK, Ids, Lifecycle
<1> QED BY <1>1, <1>2, <1>3, <1>4, <1>5, <1>6 DEF Next

LEMMA Invariance == Spec => []IInv
BY InitIInv, NextIInv, PTL DEF Spec

(***************************************************************************)
(* No call, in any order, takes a variable out of its type: no balance and *)
(* no fee counter ever goes below zero.                                    *)
(***************************************************************************)
THEOREM TypeCorrectness == Spec => []TypeOK
<1>1. IInv => TypeOK
    BY DEF IInv
<1> QED BY <1>1, Invariance, PTL

(***************************************************************************)
(* A refund happens once, is the whole deposit, and excludes settlement.   *)
(***************************************************************************)
THEOREM RefundsExcludeSettlement == Spec => []RefundedXorSettled
<1>1. IInv => RefundedXorSettled
    <2> SUFFICES ASSUME IInv, NEW i \in Ids
                 PROVE  /\ flow[i].toSender \in {0, flow[i].deposited}
                        /\ flow[i].toSender > 0 <=> rem[i].status = "Cancelled"
                        /\ flow[i].charged > 0 <=>
                             rem[i].status = "Completed" /\ flow[i].route = "single"
                        /\ flow[i].route = "netted" => rem[i].status = "Completed"
                        /\ flow[i].toTreasury > 0 => rem[i].status = "Completed"
        BY DEF RefundedXorSettled
    <2>1. Lifecycle(i) /\ flow[i] \in Flow /\ rem[i] \in RemittanceRecord
        BY DEF IInv, TypeOK
    <2> QED BY <2>1 DEF Lifecycle, Flow, RemittanceRecord, MinFee
<1> QED BY <1>1, Invariance, PTL

(***************************************************************************)
(* The agent and the treasury never get more than the deposit, however the *)
(* fees change between the disbursements.                                  *)
(***************************************************************************)
THEOREM PayeeStaysWithinDeposit == Spec => []PayeeWithinDeposit
<1>1. IInv => PayeeWithinDeposit
    <2> SUFFICES ASSUME IInv, NEW i \in Ids
                 PROVE  flow[i].toAgent + flow[i].toTreasury <= flow[i].deposited
        BY DEF PayeeWithinDeposit
    <2>1. Lifecycle(i) /\ flow[i] \in Flow /\ rem[i] \in RemittanceRecord
        BY DEF IInv, TypeOK
    <2> QED BY <2>1 DEF Lifecycle, Flow, RemittanceRecord, MinFee
<1> QED BY <1>1, Invariance, PTL

(***************************************************************************)
(* Without partial payouts a deposit is split exactly, or returned whole.  *)
(***************************************************************************)
THEOREM ExactSplitWithoutPartialPayouts == Spec => []ExcessOnlyAfterPartialPayout
<1>1. IInv => ExcessOnlyAfterPartialPayout
    <2> SUFFICES ASSUME IInv, NEW i \in Ids, disbursed[i] = 0, flow[i].route = "single"
                 PROVE  flow[i].toAgent + flow[i].toTreasury + flow[i].toSender
                            + flow[i].charged
                        = IF rem[i].status \in Terminal THEN flow[i].deposited ELSE 0
        BY DEF ExcessOnlyAfterPartialPayout
    <2>1. Lifecycle(i) /\ flow[i] \in Flow
        BY DEF IInv, TypeOK
    <2> QED BY <2>1 DEF Lifecycle, Flow, Terminal
<1> QED BY <1>1, Invariance, PTL

(***************************************************************************)
(* The settlement hash is set on the completed remittances and no other.   *)
(***************************************************************************)
THEOREM SettlementHashExact == Spec => []SettlementHashIffCompleted
<1>1. IInv => SettlementHashIffCompleted
    BY DEF IInv, TypeOK, Lifecycle, SettlementHashIffCompleted
<1> QED BY <1>1, Invariance, PTL

-----------------------------------------------------------------------------
(***************************************************************************)
(* What any step may do to one remittance: leave it alone, open it, pay    *)
(* from it, or refund it.  ClosedIsFinal and the refinement both follow.   *)
(***************************************************************************)
Kept(i) ==
    /\ i \in Ids /\ i \in Ids'
    /\ rem'[i] = rem[i] /\ flow'[i] = flow[i] /\ disbursed'[i] = disbursed[i]
    /\ i \in settled' <=> i \in settled

Opened(i) == i \notin Ids /\ i \in Ids' /\ rem'[i].status = "Pending"

Active(i) == i \in Ids /\ i \in Ids' /\ rem[i].status \in {"Pending", "Processing"}

Paid(i) ==
    /\ Active(i) /\ rem'[i].status \in {"Processing", "Completed"}
    /\ flow'[i].deposited = flow[i].deposited
    /\ flow'[i].toAgent >= flow[i].toAgent
    /\ flow'[i].toTreasury >= flow[i].toTreasury

Refunded(i) ==
    /\ Active(i) /\ rem'[i].status = "Cancelled"
    /\ flow'[i].deposited = flow[i].deposited
    /\ flow'[i].toAgent = flow[i].toAgent
    /\ flow'[i].toTreasury = flow[i].toTreasury

Unused(i) == i \notin Ids /\ i \notin Ids'

RemStep(i) == Unused(i) \/ Kept(i) \/ Opened(i) \/ Paid(i) \/ Refunded(i)

LEMMA OpenStep ==
    ASSUME IInv, NEW s, NEW t, NEW entries, NEW fees, Len(entries) \in Nat,
           OpenRemittances(s, t, entries, fees), NEW i
    PROVE  RemStep(i)
<1>1. counter \in Nat /\ counter' = counter + Len(entries)
    BY DEF IInv, TypeOK, OpenRemittances
<1>2. CASE i \in Ids
    <2>1. i \in Ids' /\ i <= counter
        BY <1>1, <1>2 DEF Ids
    <2>2. rem'[i] = rem[i] /\ flow'[i] = flow[i] /\ disbursed'[i] = disbursed[i]
          /\ settled' = settled
        BY <2>1 DEF OpenRemittances, Ids
    <2> QED BY <1>2, <2>1, <2>2 DEF RemStep, Kept
<1>3. CASE i \notin Ids /\ i \in Ids'
    <2>1. ~(i <= counter)
        BY <1>1, <1>3 DEF Ids
    <2>2. rem'[i].status = "Pending"
        BY <1>3, <2>1 DEF OpenRemittances, Ids
    <2> QED BY <1>3, <2>2 DEF RemStep, Opened
<1>4. CASE i \notin Ids /\ i \notin Ids'
    BY <1>4 DEF RemStep, Unused
<1> QED BY <1>2, <1>3, <1>4

LEMMA CreateStep ==
    ASSUME IInv, Create, NEW i
    PROVE  RemStep(i)
<1>1. ASSUME NEW s \in Senders, NEW n \in 1..MaxBatch, NEW entries \in [1..n -> Entry],
             BatchCreateRemittances(s, entries)
      PROVE  RemStep(i)
    <2>1. Len(entries) \in Nat
        BY RemittanceAssumption
    <2> QED BY <1>1, <2>1, OpenStep DEF BatchCreateRemittances
<1>2. ASSUME NEW s \in Senders, NEW t \in Tokens, NEW e \in Entry, CreateRemittance(s, t, e)
      PROVE  RemStep(i)
    <2> DEFINE fees == <<SenderFee(s, t, e.amount, RollingVolume(s))>>
    <2>1. OpenRemittances(s, t, <<e>>, fees) /\ Len(<<e>>) \in Nat
        BY <1>2 DEF CreateRemittance
    <2> HIDE DEF fees
    <2> QED BY <2>1, OpenStep
<1>3. ASSUME NEW s \in Senders, NEW e \in Entry, NEW c, CreateRemittanceWithCorridor(s, e, c)
      PROVE  RemStep(i)
    <2> DEFINE fees == <<FeeByStrategy(e.amount,
                 DiscountedStrategy(RollingVolume(s) + e.amount,
                                    StrategyForToken(c.strategy, USDC)))>>
    <2>1. OpenRemittances(s, USDC, <<e>>, fees) /\ Len(<<e>>) \in Nat
        BY <1>3 DEF CreateRemittanceWithCorridor
    <2> HIDE DEF fees
    <2> QED BY <2>1, OpenStep
<1> QED BY <1>1, <1>2, <1>3 DEF Create

LEMMA PayoutStep ==
    ASSUME IInv, Payout, NEW i
    PROVE  RemStep(i)
<1>1. PICK k \in Ids :
            \/ ConfirmPayout(k)
            \/ \E amount \in PartialAmounts : ConfirmPartialPayout(k, amount)
            \/ \E amount \in PartialAmounts : ConfirmLastPartialPayout(k, amount)
    BY DEF Payout
<1>2. /\ counter' = counter /\ rem[k].status \in {"Pending", "Processing"}
      /\ \E status \in {"Processing", "Completed"} : rem' = [rem EXCEPT ![k].status = status]
      /\ settled' \subseteq settled \cup {k} /\ settled \subseteq settled'
      /\ \A j \in Ids \ {k} : flow'[j] = flow[j] /\ disbursed'[j] = disbursed[j]
    BY <1>1 DEF IInv, TypeOK, ConfirmPayout, ConfirmPartialPayout, ConfirmLastPartialPayout,
                PartialPayoutMoves
<1>3. Ids' = Ids /\ rem \in [Ids -> RemittanceRecord] /\ flow \in [Ids -> Flow]
    BY <1>2 DEF Ids, IInv, TypeOK
<1>4. /\ flow'[k].deposited = flow[k].deposited
      /\ flow'[k].toAgent >= flow[k].toAgent
      /\ flow'[k].toTreasury >= flow[k].toTreasury
    <2>1. rem[k].amount \in Nat /\ flow[k] \in Flow
        BY <1>3 DEF RemittanceRecord
    <2>2. CASE ConfirmPayout(k)
        <3> DEFINE b == PayoutBreakdown(rem[k].amount)
        <3>1. b.protocol \in Nat /\ b.net \in Int
            BY <2>1, PayoutSplit DEF IInv
        <3>2. b.net >= 0
            BY <2>2 DEF ConfirmPayout, PayoutPayable, Payable, PayoutBreakdown
        <3>3. flow' = [flow EXCEPT ![k].toAgent = @ + b.net, ![k].toTreasury = @ + b.protocol,
                                  ![k].charged = @ + rem[k].fee]
            BY <2>2 DEF ConfirmPayout
        <3> HIDE DEF b
        <3> QED BY <1>3, <2>1, <3>1, <3>2, <3>3 DEF Flow
    <2>3. ASSUME NEW amount \in PartialAmounts,
                 ConfirmPartialPayout(k, amount) \/ ConfirmLastPartialPayout(k, amount)
          PROVE  /\ flow'[k].deposited = flow[k].deposited
                 /\ flow'[k].toAgent >= flow[k].toAgent
                 /\ flow'[k].toTreasury >= flow[k].toTreasury
        <3>1. amount \in Nat
            BY RemittanceAssumption
        <3>2. \/ flow' = [flow EXCEPT ![k].toAgent = @ + amount]
              \/ flow' = [flow EXCEPT ![k].toAgent = @ + amount, ![k].charged = @ + rem[k].fee]
            BY <2>3 DEF ConfirmPartialPayout, ConfirmLastPartialPayout
        <3> QED BY <1>3, <2>1, <3>1, <3>2 DEF Flow
    <2> QED BY <1>1, <2>2, <2>3
<1>5. CASE i = k
    BY <1>2, <1>3, <1>4, <1>5 DEF RemStep, Paid, Active, RemittanceRecord
<1>6. CASE i \in Ids /\ i # k
    BY <1>2, <1>3, <1>6 DEF RemStep, Kept
<1>7. CASE i \notin Ids
    BY <1>3, <1>7 DEF RemStep, Unused
<1> QED BY <1>5, <1>6, <1>7

LEMMA RefundStep ==
    ASSUME IInv, Refund, NEW i
    PROVE  RemStep(i)
<1>0. rem \in [Ids -> RemittanceRecord] /\ flow \in [Ids -> Flow]
    BY DEF IInv, TypeOK
<1>1. ASSUME NEW k \in Ids, MarkFailed(k) \/ CancelRemittance(k)
      PROVE  RemStep(i)
    <2>1. /\ counter' = counter /\ rem[k].status \in {"Pending", "Processing"}
          /\ rem' = [rem EXCEPT ![k].status = "Cancelled", ![k].amount = 0]
          /\ settled' = settled /\ disbursed' = disbursed
          /\ \E t : flow' = [flow EXCEPT ![k] = RefundedFlow(@, rem[k].amount, t)]
        BY <1>1 DEF MarkFailed, CancelRemittance
    <2>2. Ids' = Ids
        BY <2>1 DEF Ids
    <2>3. CASE i = k
        <3>1. rem'[k].status = "Cancelled"
            BY <1>0, <2>1 DEF RemittanceRecord
        <3>2. /\ flow'[k].deposited = flow[k].deposited
              /\ flow'[k].toAgent = flow[k].toAgent
              /\ flow'[k].toTreasury = flow[k].toTreasury
            BY <1>0, <2>1 DEF RefundedFlow, Flow
        <3> QED BY <2>1, <2>2, <2>3, <3>1, <3>2 DEF RemStep, Refunded, Active
    <2>4. CASE i \in Ids /\ i # k
        BY <1>0, <2>1, <2>2, <2>4 DEF RemStep, Kept
    <2>5. CASE i \notin Ids
        BY <2>2, <2>5 DEF RemStep, Unused
    <2> QED BY <2>3, <2>4, <2>5
<1>2. ASSUME NEW batch \in SUBSET Ids, ProcessExpiredRemittances(batch)
      PROVE  RemStep(i)
    <2> DEFINE due == Due(batch)
    <2>1. /\ counter' = counter /\ settled' = settled /\ disbursed' = disbursed
          /\ rem' = [j \in Ids |-> IF j \in due THEN [rem[j] EXCEPT !.status = "Cancelled"]
                                    ELSE rem[j]]
          /\ flow' = [j \in Ids |-> IF j \in due
                                     THEN RefundedFlow(flow[j], rem[j].amount, USDC)
                                     ELSE flow[j]]
        BY <1>2 DEF ProcessExpiredRemittances
    <2>2. Ids' = Ids /\ \A j \in due : j \in Ids /\ rem[j].status = "Pending"
        BY <2>1 DEF Ids, Due
    <2> HIDE DEF due
    <2>3. CASE i \in due
        <3>1. rem'[i].status = "Cancelled"
            BY <1>0, <2>1, <2>2, <2>3 DEF RemittanceRecord
        <3>2. /\ flow'[i].deposited = flow[i].deposited
              /\ flow'[i].toAgent = flow[i].toAgent
              /\ flow'[i].toTreasury = flow[i].toTreasury
            BY <1>0, <2>1, <2>2, <2>3 DEF RefundedFlow, Flow
        <3> QED BY <2>2, <2>3, <3>1, <3>2 DEF RemStep, Refunded, Active
    <2>4. CASE i \in Ids /\ i \notin due
        BY <2>1, <2>2, <2>4 DEF RemStep, Kept
    <2>5. CASE i \notin Ids
        BY <2>2, <2>5 DEF RemStep, Unused
    <2> QED BY <2>2, <2>3, <2>4, <2>5
<1> QED BY <1>1, <1>2 DEF Refund

LEMMA NetStep ==
    ASSUME IInv, Net, NEW i
    PROVE  RemStep(i)
<1>1. PICK batch \in SUBSET Ids : BatchSettleWithNetting(batch)
    BY DEF Net
<1>2. /\ counter' = counter /\ disbursed' = disbursed /\ settled' = settled \cup batch
      /\ \A k \in batch : rem[k].status = "Pending"
      /\ rem' = [k \in Ids |-> IF k \in batch THEN [rem[k] EXCEPT !.status = "Completed"]
                                ELSE rem[k]]
      /\ flow' = [k \in Ids |-> IF k \in batch THEN [flow[k] EXCEPT !.route = "netted"]
                                 ELSE flow[k]]
    BY <1>1 DEF BatchSettleWithNetting, Settleable
<1>3. Ids' = Ids /\ rem \in [Ids -> RemittanceRecord] /\ flow \in [Ids -> Flow]
    BY <1>2 DEF Ids, IInv, TypeOK
<1>4. CASE i \in batch
    <2>1. rem'[i].status = "Completed"
        BY <1>2, <1>3, <1>4 DEF RemittanceRecord
    <2>2. /\ flow'[i].deposited = flow[i].deposited
          /\ flow'[i].toAgent = flow[i].toAgent /\ flow[i].toAgent \in Nat
          /\ flow'[i].toTreasury = flow[i].toTreasury /\ flow[i].toTreasury \in Nat
        BY <1>2, <1>3, <1>4 DEF Flow
    <2> QED BY <1>2, <1>3, <1>4, <2>1, <2>2 DEF RemStep, Paid, Active
<1>5. CASE i \in Ids /\ i \notin batch
    BY <1>2, <1>3, <1>5 DEF RemStep, Kept
<1>6. CASE i \notin Ids
    BY <1>3, <1>6 DEF RemStep, Unused
<1> QED BY <1>4, <1>5, <1>6

LEMMA AnyStep ==
    ASSUME IInv, [Next]_vars, NEW i
    PROVE  RemStep(i)
<1>1. CASE UNCHANGED remVars
    BY <1>1 DEF remVars, Ids, RemStep, Kept, Unused
<1>2. Administer \/ Tick \/ UNCHANGED vars => UNCHANGED remVars
    BY DEF Administer, WithdrawFees, UpdateFee, UpdateFeeStrategy, UpdateTokenFee,
           UpdateProtocolFee, RegisterAgent, RemoveAgent, RaiseBar, LiftBar, ChangeBars,
           Tick, vars
<1> QED BY <1>1, <1>2, CreateStep, PayoutStep, NetStep, RefundStep DEF Next

(***************************************************************************)
(* A completed or cancelled remittance is never touched again.             *)
(***************************************************************************)
THEOREM ClosedStaysClosed == Spec => ClosedIsFinal
<1>1. IInv /\ [Next]_vars =>
        [\A i \in Ids : rem[i].status \in Terminal =>
            /\ rem'[i] = rem[i] /\ disbursed'[i] = disbursed[i]
            /\ flow'[i] = flow[i]
            /\ (i \in settled') = (i \in settled)]_vars
    <2> SUFFICES ASSUME IInv, [Next]_vars, NEW i \in Ids, rem[i].status \in Terminal
                 PROVE  /\ rem'[i] = rem[i] /\ disbursed'[i] = disbursed[i]
                        /\ flow'[i] = flow[i]
                        /\ (i \in settled') = (i \in settled)
        OBVIOUS
    <2>1. Kept(i)
        <3>1. RemStep(i)
            BY AnyStep
        <3> QED BY <3>1 DEF RemStep, Unused, Opened, Paid, Refunded, Active, Terminal
    <2> QED BY <2>1 DEF Kept
<1> QED BY <1>1, Invariance, PTL DEF Spec, ClosedIsFinal

-----------------------------------------------------------------------------
(***************************************************************************)
(* The refinement.  The abstract variables of one remittance, by name.     *)
(***************************************************************************)
AbsDeposit(i) == IF i \in Ids THEN flow[i].deposited ELSE 0
AbsGiven(i) == IF i \in Ids THEN flow[i].toAgent + flow[i].toTreasury ELSE 0
AbsReturned(i) == IF i \in Ids THEN flow[i].toSender ELSE 0

\* EscrowPromise's step on one deposit, over those names.
AbsStep(i) ==
    \/ /\ PhaseOf(i)' = PhaseOf(i) /\ AbsDeposit(i)' = AbsDeposit(i)
       /\ AbsGiven(i)' = AbsGiven(i) /\ AbsReturned(i)' = AbsReturned(i)
    \/ /\ PhaseOf(i) = "none" /\ PhaseOf(i)' = "open"
       /\ AbsDeposit(i)' \in Nat \ {0}
       /\ AbsGiven(i)' = 0 /\ AbsReturned(i)' = 0
    \/ /\ PhaseOf(i) = "open" /\ PhaseOf(i)' \in {"open", "paid"}
       /\ AbsGiven(i)' >= AbsGiven(i) /\ AbsGiven(i)' <= AbsDeposit(i)
       /\ AbsDeposit(i)' = AbsDeposit(i) /\ AbsReturned(i)' = AbsReturned(i)
    \/ /\ PhaseOf(i) = "open" /\ PhaseOf(i)' = "returned"
       /\ AbsReturned(i)' = AbsDeposit(i)
       /\ AbsDeposit(i)' = AbsDeposit(i) /\ AbsGiven(i)' = AbsGiven(i)

AbsTyped ==
    \A i : /\ PhaseOf(i) \in {"none", "open", "paid", "returned"}
           /\ AbsDeposit(i) \in Nat /\ AbsGiven(i) \in Nat /\ AbsReturned(i) \in Nat

LEMMA AbsTypes ==
    ASSUME IInv, NEW i
    PROVE  /\ PhaseOf(i) \in {"none", "open", "paid", "returned"}
           /\ AbsDeposit(i) \in Nat /\ AbsGiven(i) \in Nat /\ AbsReturned(i) \in Nat
<1>1. CASE i \in Ids
    <2>1. flow[i] \in Flow
        BY <1>1 DEF IInv, TypeOK
    <2> QED BY <1>1, <2>1 DEF PhaseOf, AbsDeposit, AbsGiven, AbsReturned, Flow
<1>2. CASE i \notin Ids
    BY <1>2 DEF PhaseOf, AbsDeposit, AbsGiven, AbsReturned
<1> QED BY <1>1, <1>2

LEMMA AbstractStep ==
    ASSUME IInv, IInv', [Next]_vars, NEW i
    PROVE  AbsStep(i)
<1>1. RemStep(i)
    BY AnyStep
<1>2. i \in Ids => Lifecycle(i) /\ flow[i] \in Flow /\ rem[i] \in RemittanceRecord
    BY DEF IInv, TypeOK
<1>3. i \in Ids' => Lifecycle(i)' /\ flow'[i] \in Flow /\ rem'[i] \in RemittanceRecord
    BY DEF IInv, TypeOK
<1>4. CASE Unused(i)
    BY <1>4 DEF Unused, AbsStep, PhaseOf, AbsDeposit, AbsGiven, AbsReturned
<1>5. CASE Kept(i)
    BY <1>5 DEF Kept, AbsStep, PhaseOf, AbsDeposit, AbsGiven, AbsReturned
<1>6. CASE Opened(i)
    <2>1. /\ flow'[i].deposited \in Nat \ {0} /\ flow'[i].toAgent + flow'[i].toTreasury = 0
          /\ flow'[i].toSender = 0
        BY <1>3, <1>6 DEF Opened, Lifecycle, Flow
    <2> QED BY <1>6, <2>1 DEF Opened, AbsStep, PhaseOf, AbsDeposit, AbsGiven, AbsReturned
<1>7. CASE Paid(i)
    <2>1. /\ flow'[i].deposited = flow[i].deposited
          /\ flow'[i].toAgent + flow'[i].toTreasury >= flow[i].toAgent + flow[i].toTreasury
          /\ flow'[i].toAgent + flow'[i].toTreasury <= flow[i].deposited
        BY <1>2, <1>3, <1>7 DEF Paid, Active, Lifecycle, Flow, RemittanceRecord, MinFee
    <2>2. flow'[i].toSender = flow[i].toSender
        BY <1>2, <1>3, <1>7 DEF Paid, Active, Lifecycle
    <2>3. PhaseOf(i) = "open" /\ PhaseOf(i)' \in {"open", "paid"}
        BY <1>7 DEF Paid, Active, PhaseOf
    <2> QED BY <1>7, <2>1, <2>2, <2>3 DEF Paid, Active, AbsStep, AbsDeposit, AbsGiven,
            AbsReturned
<1>8. CASE Refunded(i)
    <2>1. flow'[i].toSender = flow[i].deposited
        BY <1>2, <1>3, <1>8 DEF Refunded, Active, Lifecycle
    <2>2. PhaseOf(i) = "open" /\ PhaseOf(i)' = "returned"
        BY <1>8 DEF Refunded, Active, PhaseOf
    <2> QED BY <1>8, <2>1, <2>2 DEF Refunded, Active, AbsStep, AbsDeposit, AbsGiven,
            AbsReturned
<1> QED BY <1>1, <1>4, <1>5, <1>6, <1>7, <1>8 DEF RemStep

(***************************************************************************)
(* The contract implements EscrowPromise: whatever calls are made, each    *)
(* remittance is opened once, pays its payee within the deposit while it   *)
(* is open, and is closed once, paid out or returned whole.                *)
(***************************************************************************)
THEOREM ImplementsPromise == Spec => KeepsPromise
<1>1. Init => Promise!Init
    BY DEF Init, Promise!Init, PhaseOf, Ids
<1>2. IInv => AbsTyped
    BY AbsTypes DEF AbsTyped
<1>3. IInv' => AbsTyped'
    BY <1>2, PTL
<1>4. IInv /\ IInv' /\ [Next]_vars => [Promise!Next]_(Promise!promiseVars)
    <2> SUFFICES ASSUME IInv, IInv', [Next]_vars
                 PROVE  Promise!Next
        OBVIOUS
    <2>1. \A i \in 1..MaxRemittances :
            Promise!Untouched(i) \/ Promise!Open(i) \/ Promise!Give(i) \/ Promise!Return(i)
        <3> SUFFICES ASSUME NEW i \in 1..MaxRemittances
                     PROVE  \/ Promise!Untouched(i) \/ Promise!Open(i)
                            \/ Promise!Give(i) \/ Promise!Return(i)
            OBVIOUS
        <3>1. AbsStep(i)
            BY AbstractStep
        <3> QED BY <3>1 DEF AbsStep, AbsDeposit, AbsGiven, AbsReturned, Promise!Untouched,
                Promise!Open, Promise!Give, Promise!Return
    <2> QED BY <1>3, <2>1 DEF AbsTyped, Promise!Next, Promise!Phases, AbsDeposit, AbsGiven, AbsReturned
<1> QED BY <1>1, <1>4, Invariance, PTL DEF Spec, KeepsPromise, Promise!Spec

-----------------------------------------------------------------------------
(***************************************************************************)
(* The two volume counters, as sums over all remittances of what each one  *)
(* counts for.                                                             *)
(***************************************************************************)
PaidSingly(i) ==
    IF rem[i].status = "Completed" /\ flow[i].route = "single" THEN rem[i].amount ELSE 0

InFlightOf == [i \in Ids |-> InFlight(i)]
PaidSinglyOf == [i \in Ids |-> PaidSingly(i)]

VolumesAddUp ==
    /\ processing = SumFunctionOnSet(InFlightOf, Ids)
    /\ completed = SumFunctionOnSet(PaidSinglyOf, Ids)

LEMMA FiniteIds == IInv => IsFiniteSet(Ids)
BY FS_Interval DEF IInv, TypeOK, Ids

VolumesTyped ==
    \A i \in Ids : /\ rem[i].amount \in Nat
                   /\ InFlightOf[i] \in Int /\ InFlightOf[i] = InFlight(i)
                   /\ PaidSinglyOf[i] \in Int /\ PaidSinglyOf[i] = PaidSingly(i)

LEMMA VolumeTypes == IInv => VolumesTyped
BY DEF IInv, TypeOK, RemittanceRecord, InFlightOf, InFlight, PaidSinglyOf, PaidSingly,
       VolumesTyped

LEMMA VolumesAreSums == IInv => (VolumesAddUp <=> VolumesMatchRemittances)
<1> SUFFICES ASSUME IInv PROVE VolumesAddUp <=> VolumesMatchRemittances
    OBVIOUS
<1> DEFINE P == {i \in Ids : rem[i].status = "Processing"}
           C == {i \in Ids : rem[i].status = "Completed" /\ flow[i].route = "single"}
<1>1. IsFiniteSet(Ids) /\ P \in SUBSET Ids /\ C \in SUBSET Ids
    BY FiniteIds
<1>2. \A i \in Ids : /\ AmountOf[i] \in Int
                     /\ InFlightOf[i] = IF i \in P THEN AmountOf[i] ELSE 0
                     /\ PaidSinglyOf[i] = IF i \in C THEN AmountOf[i] ELSE 0
    BY VolumeTypes DEF VolumesTyped, AmountOf, InFlight, PaidSingly
<1> HIDE DEF P, C
<1>3. SumFunctionOnSet(AmountOf, P) = SumFunctionOnSet(InFlightOf, Ids)
    BY <1>1, <1>2, SumOfPart
<1>4. SumFunctionOnSet(AmountOf, C) = SumFunctionOnSet(PaidSinglyOf, Ids)
    BY <1>1, <1>2, SumOfPart
<1> QED BY <1>3, <1>4 DEF VolumesAddUp, VolumesMatchRemittances, P, C

\* A call on one remittance moves the counters by what that one counts for.
LEMMA OneMovedVolumes ==
    ASSUME IInv, IInv', VolumesAddUp, counter' = counter, NEW i \in Ids,
           \A j \in Ids \ {i} : rem'[j] = rem[j] /\ flow'[j] = flow[j],
           processing' = processing + (InFlight(i)' - InFlight(i)),
           completed' = completed + (PaidSingly(i)' - PaidSingly(i))
    PROVE  VolumesAddUp'
<1>1. Ids' = Ids /\ IsFiniteSet(Ids)
    BY FiniteIds DEF Ids
<1>2. \A j \in Ids : /\ InFlightOf[j] \in Int /\ InFlightOf[j] = InFlight(j)
                     /\ PaidSinglyOf[j] \in Int /\ PaidSinglyOf[j] = PaidSingly(j)
    BY VolumeTypes DEF VolumesTyped
<1>3. \A j \in Ids' : /\ InFlightOf'[j] \in Int /\ InFlightOf'[j] = InFlight(j)'
                      /\ PaidSinglyOf'[j] \in Int /\ PaidSinglyOf'[j] = PaidSingly(j)'
    <2>1. (IInv => VolumesTyped)'
        BY VolumeTypes, PTL
    <2> QED BY <2>1 DEF VolumesTyped
<1>4. \A j \in Ids \ {i} : InFlightOf'[j] = InFlightOf[j] /\ PaidSinglyOf'[j] = PaidSinglyOf[j]
    BY <1>1, <1>2, <1>3 DEF InFlight, PaidSingly
<1>5. SumFunctionOnSet(InFlightOf', Ids)
        = SumFunctionOnSet(InFlightOf, Ids) + (InFlightOf'[i] - InFlightOf[i])
    <2>1. /\ IsFiniteSet(Ids) /\ i \in Ids
          /\ \A j \in Ids : InFlightOf[j] \in Int /\ InFlightOf'[j] \in Int
          /\ \A j \in Ids \ {i} : InFlightOf'[j] = InFlightOf[j]
        BY <1>1, <1>2, <1>3, <1>4
    <2> QED BY <2>1, SumChangesAtOne
<1>6. SumFunctionOnSet(PaidSinglyOf', Ids)
        = SumFunctionOnSet(PaidSinglyOf, Ids) + (PaidSinglyOf'[i] - PaidSinglyOf[i])
    <2>1. /\ IsFiniteSet(Ids) /\ i \in Ids
          /\ \A j \in Ids : PaidSinglyOf[j] \in Int /\ PaidSinglyOf'[j] \in Int
          /\ \A j \in Ids \ {i} : PaidSinglyOf'[j] = PaidSinglyOf[j]
        BY <1>1, <1>2, <1>3, <1>4
    <2> QED BY <2>1, SumChangesAtOne
<1> QED BY <1>1, <1>2, <1>3, <1>5, <1>6 DEF VolumesAddUp

\* Netting, expiry and creation leave the counters alone, and rightly: the
\* remittances they touch or open count for nothing before and after.
LEMMA NoneMovedVolumes ==
    ASSUME IInv, IInv', VolumesAddUp, Ids \subseteq Ids',
           processing' = processing, completed' = completed,
           \A j \in Ids : InFlight(j)' = InFlight(j) /\ PaidSingly(j)' = PaidSingly(j),
           \A j \in Ids' \ Ids : InFlight(j)' = 0 /\ PaidSingly(j)' = 0
    PROVE  VolumesAddUp'
<1>1. IsFiniteSet(Ids) /\ IsFiniteSet(Ids')
    <2>1. (IInv => IsFiniteSet(Ids))'
        BY FiniteIds, PTL
    <2> QED BY <2>1, FiniteIds
<1>2. \A j \in Ids : /\ InFlightOf[j] \in Int /\ InFlightOf[j] = InFlight(j)
                     /\ PaidSinglyOf[j] \in Int /\ PaidSinglyOf[j] = PaidSingly(j)
    BY VolumeTypes DEF VolumesTyped
<1>3. \A j \in Ids' : /\ InFlightOf'[j] \in Int /\ InFlightOf'[j] = InFlight(j)'
                      /\ PaidSinglyOf'[j] \in Int /\ PaidSinglyOf'[j] = PaidSingly(j)'
    <2>1. (IInv => VolumesTyped)'
        BY VolumeTypes, PTL
    <2> QED BY <2>1 DEF VolumesTyped
<1>4. /\ \A j \in Ids : InFlightOf[j] = InFlightOf'[j] /\ PaidSinglyOf[j] = PaidSinglyOf'[j]
      /\ \A j \in Ids' : /\ InFlightOf'[j] = IF j \in Ids THEN InFlightOf'[j] ELSE 0
                         /\ PaidSinglyOf'[j] = IF j \in Ids THEN PaidSinglyOf'[j] ELSE 0
    BY <1>2, <1>3
<1>5. /\ SumFunctionOnSet(InFlightOf, Ids) = SumFunctionOnSet(InFlightOf', Ids)
      /\ SumFunctionOnSet(PaidSinglyOf, Ids) = SumFunctionOnSet(PaidSinglyOf', Ids)
    BY <1>1, <1>4, SumCongruence
<1>6. Ids \in SUBSET (Ids')
    OBVIOUS
<1>7. SumFunctionOnSet(InFlightOf', Ids) = SumFunctionOnSet(InFlightOf', Ids')
    BY <1>1, <1>3, <1>4, <1>6, SumOfPart
<1>8. SumFunctionOnSet(PaidSinglyOf', Ids) = SumFunctionOnSet(PaidSinglyOf', Ids')
    BY <1>1, <1>3, <1>4, <1>6, SumOfPart
<1> QED BY <1>5, <1>7, <1>8 DEF VolumesAddUp

LEMMA OpenVolumes ==
    ASSUME IInv, IInv', VolumesAddUp, NEW s, NEW t, NEW entries, NEW fees,
           Len(entries) \in Nat, OpenRemittances(s, t, entries, fees)
    PROVE  VolumesAddUp'
<1>1. counter \in Nat /\ counter' = counter + Len(entries)
      /\ processing' = processing /\ completed' = completed
    BY DEF IInv, TypeOK, OpenRemittances
<1>2. Ids \subseteq Ids'
    BY <1>1 DEF Ids
<1>3. \A j \in Ids : rem'[j] = rem[j] /\ flow'[j] = flow[j]
    BY <1>1, <1>2 DEF OpenRemittances, Ids
<1>4. \A j \in Ids' \ Ids : rem'[j].status = "Pending"
    BY <1>1 DEF OpenRemittances, Ids
<1>5. /\ \A j \in Ids : InFlight(j)' = InFlight(j) /\ PaidSingly(j)' = PaidSingly(j)
      /\ \A j \in Ids' \ Ids : InFlight(j)' = 0 /\ PaidSingly(j)' = 0
    BY <1>3, <1>4 DEF InFlight, PaidSingly
<1> QED BY <1>1, <1>2, <1>5, NoneMovedVolumes

LEMMA OnePaidVolumes ==
    ASSUME IInv, IInv', VolumesAddUp, NEW i \in Ids,
           \/ ConfirmPayout(i)
           \/ \E amount \in PartialAmounts : ConfirmPartialPayout(i, amount)
           \/ \E amount \in PartialAmounts : ConfirmLastPartialPayout(i, amount)
           \/ MarkFailed(i) \/ CancelRemittance(i)
    PROVE  VolumesAddUp'
<1>1. /\ rem \in [Ids -> RemittanceRecord] /\ flow \in [Ids -> Flow] /\ Lifecycle(i)
      /\ rem[i].amount \in Nat /\ processing \in Int /\ completed \in Int
    BY DEF IInv, TypeOK, RemittanceRecord
<1>2. /\ counter' = counter
      /\ \A j \in Ids \ {i} : rem'[j] = rem[j] /\ flow'[j] = flow[j]
    BY <1>1 DEF ConfirmPayout, ConfirmPartialPayout, ConfirmLastPartialPayout, MarkFailed,
                CancelRemittance
<1>3. rem[i].status \in {"Pending", "Processing"} /\ PaidSingly(i) = 0
    BY DEF ConfirmPayout, ConfirmPartialPayout, ConfirmLastPartialPayout, PartialPayoutMoves,
           MarkFailed, CancelRemittance, PaidSingly
<1>4. flow'[i].route = "single"
    <2>1. flow[i].route = "single" /\ flow[i] \in Flow
        BY <1>1, <1>3 DEF Lifecycle
    <2>2. CASE ConfirmPayout(i)
        BY <1>1, <2>1, <2>2 DEF ConfirmPayout, Flow
    <2>3. ASSUME NEW amount, ConfirmPartialPayout(i, amount)
          PROVE  flow'[i].route = "single"
        BY <1>1, <2>1, <2>3 DEF ConfirmPartialPayout, Flow
    <2>4. ASSUME NEW amount, ConfirmLastPartialPayout(i, amount)
          PROVE  flow'[i].route = "single"
        BY <1>1, <2>1, <2>4 DEF ConfirmLastPartialPayout, Flow
    <2>5. CASE MarkFailed(i) \/ CancelRemittance(i)
        BY <1>1, <2>1, <2>5 DEF MarkFailed, CancelRemittance, RefundedFlow, Flow
    <2> QED BY <2>2, <2>3, <2>4, <2>5
<1>5. CASE ConfirmPayout(i)
    <2>1. /\ rem'[i].status = "Completed" /\ rem'[i].amount = rem[i].amount
          /\ processing' = processing /\ completed' = completed + rem[i].amount
          /\ InFlight(i) = 0
        BY <1>1, <1>5 DEF ConfirmPayout, RemittanceRecord, InFlight
    <2>2. /\ processing' = processing + (InFlight(i)' - InFlight(i))
          /\ completed' = completed + (PaidSingly(i)' - PaidSingly(i))
        BY <1>1, <1>3, <1>4, <2>1 DEF InFlight, PaidSingly
    <2> QED BY <1>2, <2>2, OneMovedVolumes
<1>6. ASSUME NEW amount \in PartialAmounts, ConfirmPartialPayout(i, amount)
      PROVE  VolumesAddUp'
    <2>1. /\ rem'[i].status = "Processing" /\ rem'[i].amount = rem[i].amount
          /\ processing' = processing + (rem[i].amount - InFlight(i))
          /\ completed' = completed
        BY <1>1, <1>6 DEF ConfirmPartialPayout, RemittanceRecord
    <2>2. /\ processing' = processing + (InFlight(i)' - InFlight(i))
          /\ completed' = completed + (PaidSingly(i)' - PaidSingly(i))
        BY <1>1, <1>3, <1>4, <2>1 DEF InFlight, PaidSingly
    <2> QED BY <1>2, <2>2, OneMovedVolumes
<1>7. ASSUME NEW amount \in PartialAmounts, ConfirmLastPartialPayout(i, amount)
      PROVE  VolumesAddUp'
    <2>1. /\ rem'[i].status = "Completed" /\ rem'[i].amount = rem[i].amount
          /\ processing' = processing - InFlight(i)
          /\ completed' = completed + rem[i].amount
        BY <1>1, <1>7 DEF ConfirmLastPartialPayout, RemittanceRecord
    <2>2. /\ processing' = processing + (InFlight(i)' - InFlight(i))
          /\ completed' = completed + (PaidSingly(i)' - PaidSingly(i))
        BY <1>1, <1>3, <1>4, <2>1 DEF InFlight, PaidSingly
    <2> QED BY <1>2, <2>2, OneMovedVolumes
<1>8. CASE MarkFailed(i) \/ CancelRemittance(i)
    <2>1. /\ rem'[i].status = "Cancelled" /\ completed' = completed
          /\ processing' = processing - InFlight(i)
        BY <1>1, <1>8 DEF MarkFailed, CancelRemittance, RemittanceRecord, InFlight
    <2>2. /\ processing' = processing + (InFlight(i)' - InFlight(i))
          /\ completed' = completed + (PaidSingly(i)' - PaidSingly(i))
        BY <1>1, <1>3, <2>1 DEF InFlight, PaidSingly
    <2> QED BY <1>2, <2>2, OneMovedVolumes
<1> QED BY <1>5, <1>6, <1>7, <1>8

LEMMA BatchVolumes ==
    ASSUME IInv, IInv', VolumesAddUp, NEW batch \in SUBSET Ids,
           BatchSettleWithNetting(batch) \/ ProcessExpiredRemittances(batch)
    PROVE  VolumesAddUp'
<1>1. /\ Ids' = Ids /\ processing' = processing /\ completed' = completed
      /\ rem \in [Ids -> RemittanceRecord] /\ flow \in [Ids -> Flow]
    BY DEF BatchSettleWithNetting, ProcessExpiredRemittances, Ids, IInv, TypeOK
<1>2. ASSUME NEW j \in Ids
      PROVE  InFlight(j)' = InFlight(j) /\ PaidSingly(j)' = PaidSingly(j)
    <2>1. CASE rem'[j] = rem[j] /\ flow'[j] = flow[j]
        BY <2>1 DEF InFlight, PaidSingly
    <2>2. CASE BatchSettleWithNetting(batch) /\ j \in batch
        <3>1. rem[j].status = "Pending"
            BY <2>2 DEF BatchSettleWithNetting, Settleable
        <3>2. rem'[j].status = "Completed" /\ flow'[j].route = "netted"
            BY <1>1, <2>2 DEF BatchSettleWithNetting, RemittanceRecord, Flow
        <3> QED BY <3>1, <3>2 DEF InFlight, PaidSingly
    <2>3. CASE ProcessExpiredRemittances(batch) /\ j \in Due(batch)
        <3>1. rem[j].status = "Pending"
            BY <2>3 DEF Due
        <3>2. rem'[j].status = "Cancelled"
            BY <1>1, <2>3 DEF ProcessExpiredRemittances, RemittanceRecord
        <3> QED BY <3>1, <3>2 DEF InFlight, PaidSingly
    <2>4. (\/ BatchSettleWithNetting(batch) /\ j \notin batch
           \/ ProcessExpiredRemittances(batch) /\ j \notin Due(batch))
             => rem'[j] = rem[j] /\ flow'[j] = flow[j]
        BY DEF BatchSettleWithNetting, ProcessExpiredRemittances
    <2> QED BY <2>1, <2>2, <2>3, <2>4
<1> QED BY <1>1, <1>2, NoneMovedVolumes

LEMMA CreateOpens ==
    ASSUME Create
    PROVE  \E s \in Senders, t \in Tokens : \E entries, fees :
                /\ OpenRemittances(s, t, entries, fees)
                /\ Len(entries) \in Nat /\ DOMAIN entries = 1..Len(entries)
                /\ \A j \in 1..Len(entries) : entries[j] \in Entry
<1> USDC \in Tokens
    BY RemittanceAssumption
<1>1. ASSUME NEW s \in Senders, NEW n \in 1..MaxBatch, NEW entries \in [1..n -> Entry],
             BatchCreateRemittances(s, entries)
      PROVE  \E fees : /\ OpenRemittances(s, USDC, entries, fees)
                       /\ Len(entries) = n /\ DOMAIN entries = 1..n /\ n \in Nat
    BY <1>1, RemittanceAssumption DEF BatchCreateRemittances
<1>2. ASSUME NEW s \in Senders, NEW t \in Tokens, NEW e \in Entry, CreateRemittance(s, t, e)
      PROVE  \E fees : OpenRemittances(s, t, <<e>>, fees)
    BY <1>2 DEF CreateRemittance
<1>3. ASSUME NEW s \in Senders, NEW e \in Entry, NEW c, CreateRemittanceWithCorridor(s, e, c)
      PROVE  \E fees : OpenRemittances(s, USDC, <<e>>, fees)
    BY <1>3 DEF CreateRemittanceWithCorridor
<1>4. \A e \in Entry : /\ Len(<<e>>) \in Nat /\ DOMAIN <<e>> = 1..Len(<<e>>)
                       /\ \A j \in 1..Len(<<e>>) : <<e>>[j] \in Entry
    OBVIOUS
<1>5. CASE \E s \in Senders, t \in Tokens, e \in Entry : CreateRemittance(s, t, e)
    BY <1>5, <1>2, <1>4
<1>6. CASE \E s \in Senders, e \in Entry, c \in Corridors \cup {Uncorridored} :
                CreateRemittanceWithCorridor(s, e, c)
    BY <1>6, <1>3, <1>4
<1>7. CASE \E s \in Senders, n \in 1..MaxBatch : \E entries \in [1..n -> Entry] :
                BatchCreateRemittances(s, entries)
    BY <1>7, <1>1
<1> QED BY <1>5, <1>6, <1>7 DEF Create

LEMMA NextVolumes ==
    IInv /\ VolumesAddUp /\ [Next]_vars => VolumesAddUp'
<1> SUFFICES ASSUME IInv, VolumesAddUp, [Next]_vars PROVE VolumesAddUp'
    OBVIOUS
<1>1. IInv'
    BY NextIInv
<1>2. CASE Create
    BY <1>1, <1>2, CreateOpens, OpenVolumes
<1>3. CASE Payout \/ Refund \/ Net
    BY <1>1, <1>3, OnePaidVolumes, BatchVolumes DEF Payout, Refund, Net
<1>4. CASE Administer \/ Tick \/ UNCHANGED vars
    <2>1. UNCHANGED <<remVars, processing, completed>>
        BY <1>4 DEF Administer, WithdrawFees, UpdateFee, UpdateFeeStrategy, UpdateTokenFee,
               UpdateProtocolFee, RegisterAgent, RemoveAgent, RaiseBar, LiftBar, ChangeBars,
               Tick, vars, moneyVars
    <2> QED BY <2>1, <1>1, NoneMovedVolumes DEF remVars, Ids, InFlight, PaidSingly
<1> QED BY <1>2, <1>3, <1>4 DEF Next

(***************************************************************************)
(* The volume counters are the amounts of the remittances in flight and of *)
(* those paid one by one, after any sequence of calls.                     *)
(***************************************************************************)
THEOREM VolumesAlwaysMatch == Spec => []VolumesMatchRemittances
<1>1. Init => VolumesAddUp
    <2> SUFFICES ASSUME Init PROVE VolumesAddUp
        OBVIOUS
    <2>1. Ids = {}
        BY DEF Init, Ids
    <2> QED BY <2>1, SumEmpty DEF Init, VolumesAddUp
<1> QED BY <1>1, NextVolumes, Invariance, VolumesAreSums, PTL DEF Spec

-----------------------------------------------------------------------------
(***************************************************************************)
(* What remittance i asks of the balance of token t: its undisbursed part  *)
(* while it is open, less what Losses excuses once it is closed.           *)
(***************************************************************************)
DebtOf(i, t) ==
    LET r == rem[i]
        f == flow[i]
    IN  IF r.token = t
        THEN IF r.status \in {"Pending", "Processing"} THEN r.amount - disbursed[i]
             ELSE IF r.status = "Cancelled" THEN -disbursed[i]
             ELSE IF r.status = "Completed" /\ disbursed[i] > 0 THEN -r.fee ELSE 0
        ELSE IF t # USDC THEN 0
             ELSE IF r.status = "Cancelled" THEN -f.deposited
             ELSE IF r.status # "Completed" THEN 0
             ELSE IF f.route = "single" THEN -r.fee ELSE -f.deposited

Debt(t) == [i \in Ids |-> DebtOf(i, t)]
FeesIn(t) == IF t = USDC THEN accumulated ELSE 0

Covered == \A t \in Tokens : held[t] - FeesIn(t) >= SumFunctionOnSet(Debt(t), Ids)

RecordsTyped ==
    \A i \in Ids :
        /\ rem[i].amount \in Nat /\ rem[i].fee \in Nat /\ rem[i].token \in Tokens
        /\ disbursed[i] \in Nat /\ flow[i].deposited \in Nat
        /\ flow[i].route \in {"single", "netted"}

LEMMA RecordTypes == IInv => RecordsTyped
BY DEF IInv, TypeOK, RemittanceRecord, Flow, RecordsTyped

DebtsTyped == \A i \in Ids, t \in Tokens : DebtOf(i, t) \in Int /\ Debt(t)[i] = DebtOf(i, t)

LEMMA DebtTypes == IInv => DebtsTyped
<1> SUFFICES ASSUME IInv, NEW i \in Ids, NEW t \in Tokens
             PROVE  DebtOf(i, t) \in Int /\ Debt(t)[i] = DebtOf(i, t)
    BY DEF DebtsTyped
<1>1. DebtOf(i, t) \in Int
    BY RecordTypes DEF RecordsTyped, DebtOf
<1> QED BY <1>1 DEF Debt

(***************************************************************************)
(* Covered is ShortfallExplained, remittance by remittance.                *)
(***************************************************************************)
LEMMA CoveredIsShortfall == IInv => (Covered <=> ShortfallExplained)
<1> SUFFICES ASSUME IInv, NEW t \in Tokens
             PROVE  held[t] - FeesIn(t) >= SumFunctionOnSet(Debt(t), Ids)
                      <=> held[t] + Losses(t) >= Owed(t)
    BY DEF Covered, ShortfallExplained
<1> DEFINE Only(f, R) == [i \in Ids |-> IF i \in R THEN f[i] ELSE 0]
           Sum(f) == SumFunctionOnSet(f, Ids)
           home == t = USDC
           O == Open(t)
           X == ClosedIn("Cancelled", t)
           C == {i \in ClosedIn("Completed", t) : disbursed[i] > 0}
           XO == {i \in InOtherTokens("Cancelled") : home}
           CS == {i \in InOtherTokens("Completed") : flow[i].route = "single" /\ home}
           CN == {i \in InOtherTokens("Completed") : flow[i].route = "netted" /\ home}
           l1 == Only(disbursed, X)
           l2 == Only(FeeOf, C)
           l3 == Only(DepositOf, XO)
           l4 == Only(FeeOf, CS)
           l5 == Only(DepositOf, CN)
           l12 == [i \in Ids |-> l1[i] + l2[i]]
           l34 == [i \in Ids |-> l3[i] + l4[i]]
           l345 == [i \in Ids |-> l34[i] + l5[i]]
           l == [i \in Ids |-> l12[i] + l345[i]]
           o == Only(Undisbursed, O)
<1>1. IsFiniteSet(Ids) /\ RecordsTyped /\ DebtsTyped
    BY FiniteIds, RecordTypes, DebtTypes
<1>2. \A i \in Ids : /\ i \in InOtherTokens("Cancelled")
                          <=> rem[i].token # USDC /\ rem[i].status = "Cancelled"
                     /\ i \in InOtherTokens("Completed")
                          <=> rem[i].token # USDC /\ rem[i].status = "Completed"
    BY <1>1 DEF InOtherTokens, ClosedIn, RecordsTyped
<1>3. /\ O \in SUBSET Ids /\ X \in SUBSET Ids /\ C \in SUBSET Ids
      /\ XO \in SUBSET Ids /\ CS \in SUBSET Ids /\ CN \in SUBSET Ids
    BY DEF Open, ClosedIn, InOtherTokens
<1>4. \A i \in Ids : /\ disbursed[i] \in Int /\ FeeOf[i] \in Int /\ DepositOf[i] \in Int
                     /\ Undisbursed[i] \in Int
    BY <1>1 DEF RecordsTyped, FeeOf, DepositOf, Undisbursed
<1>5. \A i \in Ids : o[i] = Debt(t)[i] + l[i]
    <2> SUFFICES ASSUME NEW i \in Ids PROVE o[i] = Debt(t)[i] + l[i]
        OBVIOUS
    <2>1. /\ l1[i] = IF rem[i].token = t /\ rem[i].status = "Cancelled"
                     THEN disbursed[i] ELSE 0
          /\ l2[i] = IF rem[i].token = t /\ rem[i].status = "Completed" /\ disbursed[i] > 0
                     THEN rem[i].fee ELSE 0
          /\ o[i] = IF rem[i].token = t /\ rem[i].status \in {"Pending", "Processing"}
                    THEN rem[i].amount - disbursed[i] ELSE 0
        BY DEF Open, ClosedIn, FeeOf, Undisbursed
    <2>2. /\ l3[i] = IF home /\ rem[i].token # USDC /\ rem[i].status = "Cancelled"
                     THEN flow[i].deposited ELSE 0
          /\ l4[i] = IF home /\ rem[i].token # USDC /\ rem[i].status = "Completed"
                          /\ flow[i].route = "single"
                     THEN rem[i].fee ELSE 0
          /\ l5[i] = IF home /\ rem[i].token # USDC /\ rem[i].status = "Completed"
                          /\ flow[i].route = "netted"
                     THEN flow[i].deposited ELSE 0
        BY <1>2 DEF FeeOf, DepositOf
    <2>3. l[i] = (l1[i] + l2[i]) + ((l3[i] + l4[i]) + l5[i])
        <3> HIDE DEF l1, l2, l3, l4, l5
        <3> QED OBVIOUS
    <2>4. Debt(t)[i] = DebtOf(i, t)
        BY DEF Debt
    <2> HIDE DEF l, l1, l2, l3, l4, l5, o
    <2> QED BY <1>1, <2>1, <2>2, <2>3, <2>4 DEF DebtOf, RecordsTyped
<1>6. \A i \in Ids : /\ l1[i] \in Int /\ l2[i] \in Int /\ l3[i] \in Int /\ l4[i] \in Int
                     /\ l5[i] \in Int
    BY <1>4
<1>7. /\ SumFunctionOnSet(Undisbursed, O) = Sum(o)
      /\ SumFunctionOnSet(disbursed, X) = Sum(l1)
      /\ SumFunctionOnSet(FeeOf, C) = Sum(l2)
      /\ SumFunctionOnSet(DepositOf, XO) = Sum(l3)
      /\ SumFunctionOnSet(FeeOf, CS) = Sum(l4)
      /\ SumFunctionOnSet(DepositOf, CN) = Sum(l5)
    <2>1. \A i \in Ids : /\ o[i] = IF i \in O THEN Undisbursed[i] ELSE 0
                         /\ l1[i] = IF i \in X THEN disbursed[i] ELSE 0
                         /\ l2[i] = IF i \in C THEN FeeOf[i] ELSE 0
                         /\ l3[i] = IF i \in XO THEN DepositOf[i] ELSE 0
                         /\ l4[i] = IF i \in CS THEN FeeOf[i] ELSE 0
                         /\ l5[i] = IF i \in CN THEN DepositOf[i] ELSE 0
        OBVIOUS
    <2> HIDE DEF O, X, C, XO, CS, CN, o, l1, l2, l3, l4, l5
    <2>2. SumFunctionOnSet(Undisbursed, O) = Sum(o)
        BY <1>1, <1>3, <1>4, <2>1, SumOfPart
    <2>3. SumFunctionOnSet(disbursed, X) = Sum(l1)
        BY <1>1, <1>3, <1>4, <2>1, SumOfPart
    <2>4. SumFunctionOnSet(FeeOf, C) = Sum(l2)
        BY <1>1, <1>3, <1>4, <2>1, SumOfPart
    <2>5. SumFunctionOnSet(DepositOf, XO) = Sum(l3)
        BY <1>1, <1>3, <1>4, <2>1, SumOfPart
    <2>6. SumFunctionOnSet(FeeOf, CS) = Sum(l4)
        BY <1>1, <1>3, <1>4, <2>1, SumOfPart
    <2>7. SumFunctionOnSet(DepositOf, CN) = Sum(l5)
        BY <1>1, <1>3, <1>4, <2>1, SumOfPart
    <2> QED BY <2>2, <2>3, <2>4, <2>5, <2>6, <2>7
<1>8. Sum(o) = Sum(Debt(t)) + (((Sum(l1) + Sum(l2)) + ((Sum(l3) + Sum(l4)) + Sum(l5))))
    <2> HIDE DEF l1, l2, l3, l4, l5, o
    <2>1. \A i \in Ids : /\ l12[i] \in Int /\ l34[i] \in Int /\ l345[i] \in Int /\ l[i] \in Int
                         /\ l12[i] = l1[i] + l2[i] /\ l34[i] = l3[i] + l4[i]
                         /\ l345[i] = l34[i] + l5[i] /\ l[i] = l12[i] + l345[i]
                         /\ Debt(t)[i] \in Int
        BY <1>1, <1>6 DEF DebtsTyped
    <2> HIDE DEF l12, l34, l345, l
    <2>2. Sum(l12) = Sum(l1) + Sum(l2)
        BY <1>1, <1>6, <2>1, SumOfTwo
    <2>3. Sum(l34) = Sum(l3) + Sum(l4)
        BY <1>1, <1>6, <2>1, SumOfTwo
    <2>4. Sum(l345) = Sum(l34) + Sum(l5)
        BY <1>1, <1>6, <2>1, SumOfTwo
    <2>5. Sum(l) = Sum(l12) + Sum(l345)
        BY <1>1, <2>1, SumOfTwo
    <2>6. Sum(o) = Sum(Debt(t)) + Sum(l)
        BY <1>1, <1>5, <2>1, SumOfTwo
    <2> QED BY <2>2, <2>3, <2>4, <2>5, <2>6
<1>9. Owed(t) = Sum(o) + FeesIn(t)
    BY <1>7 DEF Owed, FeesIn
<1>10. Losses(t) = (Sum(l1) + Sum(l2)) + ((Sum(l3) + Sum(l4)) + Sum(l5))
    <2> HIDE DEF l1, l2, l3, l4, l5, o
    <2>0. /\ Sum(l1) \in Int /\ Sum(l2) \in Int /\ Sum(l3) \in Int /\ Sum(l4) \in Int
          /\ Sum(l5) \in Int
        BY <1>1, <1>6, SumType
    <2>1. CASE t = USDC
        <3>1. /\ XO = InOtherTokens("Cancelled")
              /\ CS = {i \in InOtherTokens("Completed") : flow[i].route = "single"}
              /\ CN = {i \in InOtherTokens("Completed") : flow[i].route = "netted"}
            BY <2>1
        <3> HIDE DEF XO, CS, CN, Sum
        <3> QED BY <1>7, <2>0, <2>1, <3>1 DEF Losses
    <2>2. CASE t # USDC
        <3>1. XO = {} /\ CS = {} /\ CN = {}
            BY <2>2
        <3>2. Sum(l3) = 0 /\ Sum(l4) = 0 /\ Sum(l5) = 0
            BY <1>7, <3>1, SumEmpty
        <3> HIDE DEF XO, CS, CN, Sum
        <3> QED BY <1>7, <2>0, <2>2, <3>2 DEF Losses
    <2> QED BY <2>1, <2>2
<1>11. /\ Sum(l1) \in Int /\ Sum(l2) \in Int /\ Sum(l3) \in Int /\ Sum(l4) \in Int
       /\ Sum(l5) \in Int /\ Sum(Debt(t)) \in Int
    <2> HIDE DEF l1, l2, l3, l4, l5
    <2>1. \A i \in Ids : Debt(t)[i] \in Int
        BY <1>1 DEF DebtsTyped
    <2> QED BY <1>1, <1>6, <2>1, SumType
<1>12. held[t] \in Int /\ FeesIn(t) \in Int
    BY DEF IInv, TypeOK, FeesIn
<1> HIDE DEF Sum, l1, l2, l3, l4, l5, o
<1>13. held[t] - FeesIn(t) >= Sum(Debt(t)) <=> held[t] + Losses(t) >= Owed(t)
    BY <1>8, <1>9, <1>10, <1>11, <1>12
<1> QED BY <1>13 DEF Sum

\* A call on one remittance moves what is asked of a token by what that one
\* asks for.
LEMMA OneMovedDebt ==
    ASSUME IInv, IInv', counter' = counter, NEW i \in Ids, NEW t \in Tokens,
           \A j \in Ids \ {i} : /\ rem'[j] = rem[j] /\ flow'[j] = flow[j]
                                /\ disbursed'[j] = disbursed[j]
    PROVE  /\ SumFunctionOnSet(Debt(t), Ids) \in Int
           /\ SumFunctionOnSet(Debt(t), Ids)'
                = SumFunctionOnSet(Debt(t), Ids) + (DebtOf(i, t)' - DebtOf(i, t))
<1>1. Ids' = Ids /\ IsFiniteSet(Ids) /\ DebtsTyped
    BY FiniteIds, DebtTypes DEF Ids
<1>2. DebtsTyped'
    <2>1. (IInv => DebtsTyped)'
        BY DebtTypes, PTL
    <2> QED BY <2>1
<1>3. /\ \A j \in Ids : /\ Debt(t)[j] \in Int /\ Debt(t)[j] = DebtOf(j, t)
                        /\ Debt(t)'[j] \in Int /\ Debt(t)'[j] = DebtOf(j, t)'
      /\ \A j \in Ids \ {i} : DebtOf(j, t)' = DebtOf(j, t)
    BY <1>1, <1>2 DEF DebtsTyped, DebtOf
<1>4. \A j \in Ids \ {i} : Debt(t)'[j] = Debt(t)[j]
    BY <1>3
<1>5. SumFunctionOnSet(Debt(t)', Ids)
        = SumFunctionOnSet(Debt(t), Ids) + (Debt(t)'[i] - Debt(t)[i])
    BY <1>1, <1>3, <1>4, SumChangesAtOne
<1>6. SumFunctionOnSet(Debt(t), Ids) \in Int
    BY <1>1, <1>3, SumType
<1> QED BY <1>1, <1>3, <1>5, <1>6

\* So the balance need only keep up with it.
LEMMA OneMovedCovered ==
    ASSUME IInv, IInv', Covered, counter' = counter, NEW i \in Ids,
           \A j \in Ids \ {i} : /\ rem'[j] = rem[j] /\ flow'[j] = flow[j]
                                /\ disbursed'[j] = disbursed[j],
           \A t \in Tokens : (held'[t] - FeesIn(t)') - (held[t] - FeesIn(t))
                                >= DebtOf(i, t)' - DebtOf(i, t)
    PROVE  Covered'
<1> SUFFICES ASSUME NEW t \in Tokens
             PROVE  held'[t] - FeesIn(t)' >= SumFunctionOnSet(Debt(t), Ids)'
    BY DEF Covered
<1>1. /\ SumFunctionOnSet(Debt(t), Ids) \in Int
      /\ SumFunctionOnSet(Debt(t), Ids)'
           = SumFunctionOnSet(Debt(t), Ids) + (DebtOf(i, t)' - DebtOf(i, t))
    BY OneMovedDebt
<1>2. held[t] - FeesIn(t) >= SumFunctionOnSet(Debt(t), Ids)
    BY DEF Covered
<1>3. held[t] \in Int /\ held'[t] \in Int /\ FeesIn(t) \in Int /\ FeesIn(t)' \in Int
    BY DEF IInv, TypeOK, FeesIn
<1>4. DebtOf(i, t) \in Int /\ DebtOf(i, t)' \in Int
    <2>1. (IInv => DebtsTyped)'
        BY DebtTypes, PTL
    <2>2. i \in Ids'
        BY DEF Ids
    <2> QED BY <2>1, <2>2, DebtTypes DEF DebtsTyped
<1>5. (held'[t] - FeesIn(t)') - (held[t] - FeesIn(t)) >= DebtOf(i, t)' - DebtOf(i, t)
    OBVIOUS
<1> QED BY <1>1, <1>2, <1>3, <1>4, <1>5

\* Collecting a fee, flush or not, takes it out of the uncommitted USDC.
LEMMA CollectFeeKeeps ==
    ASSUME IInv, NEW h \in [Tokens -> Nat], NEW fee \in Nat, CollectFee(h, fee)
    PROVE  \A t \in Tokens :
              held'[t] - FeesIn(t)' = (h[t] - FeesIn(t)) - (IF t = USDC THEN fee ELSE 0)
BY RemittanceAssumption DEF IInv, TypeOK, CollectFee, FeesIn

LEMMA ConfirmPayoutCovered ==
    ASSUME IInv, IInv', Covered, NEW i \in Ids, ConfirmPayout(i)
    PROVE  Covered'
<1> DEFINE r == rem[i]
           b == PayoutBreakdown(r.amount)
           h == [held EXCEPT ![r.token] = @ - b.net - b.protocol]
<1>1. /\ r \in RemittanceRecord /\ flow[i] \in Flow /\ disbursed[i] \in Nat
      /\ held \in [Tokens -> Nat] /\ Lifecycle(i) /\ accumulated \in Nat
      /\ r.amount \in Nat /\ r.token \in Tokens /\ r.fee \in Nat
    BY DEF IInv, TypeOK, RemittanceRecord
<1>2. /\ b.platform \in Nat /\ b.protocol \in Nat /\ b.net \in Int
      /\ b.platform + b.protocol + b.net = r.amount
    BY <1>1, PayoutSplit DEF IInv
<1>3. r.status = "Pending" /\ r.fee = b.platform /\ b.net >= 0
      /\ held[r.token] >= b.net + b.protocol /\ CollectFee(h, r.fee)
    BY DEF ConfirmPayout, FeeUnchanged, PayoutPayable, Payable, PayoutBreakdown
<1>4. disbursed[i] = 0 /\ flow[i].route = "single"
    BY <1>1, <1>3 DEF Lifecycle
<1>5. /\ rem'[i].status = "Completed" /\ rem'[i].token = r.token /\ rem'[i].fee = r.fee
      /\ flow'[i].route = flow[i].route /\ disbursed'[i] = disbursed[i]
      /\ counter' = counter
      /\ \A j \in Ids \ {i} : /\ rem'[j] = rem[j] /\ flow'[j] = flow[j]
                              /\ disbursed'[j] = disbursed[j]
    <2>1. /\ rem' = [rem EXCEPT ![i].status = "Completed"]
          /\ flow' = [flow EXCEPT ![i].toAgent = @ + b.net,
                                  ![i].toTreasury = @ + b.protocol,
                                  ![i].charged = @ + r.fee]
          /\ disbursed' = disbursed /\ counter' = counter
        BY DEF ConfirmPayout
    <2> HIDE DEF b
    <2>2. rem \in [Ids -> RemittanceRecord] /\ flow \in [Ids -> Flow]
        BY DEF IInv, TypeOK
    <2>3. /\ rem'[i].status = "Completed" /\ rem'[i].token = r.token /\ rem'[i].fee = r.fee
          /\ \A j \in Ids \ {i} : rem'[j] = rem[j]
        BY <2>1, <2>2 DEF RemittanceRecord
    <2>4. flow'[i].route = flow[i].route /\ \A j \in Ids \ {i} : flow'[j] = flow[j]
        BY <2>1, <2>2 DEF Flow
    <2> QED BY <2>1, <2>3, <2>4
<1> HIDE DEF b
<1>6. /\ h \in [Tokens -> Nat]
      /\ \A t \in Tokens : h[t] = IF t = r.token THEN held[t] - (r.amount - r.fee)
                                  ELSE held[t]
    BY <1>1, <1>2, <1>3
<1>7. \A t \in Tokens :
         held'[t] - FeesIn(t)' = (h[t] - FeesIn(t)) - (IF t = USDC THEN r.fee ELSE 0)
    <2> HIDE DEF h, r
    <2> QED BY <1>1, <1>3, <1>6, CollectFeeKeeps
<1>8. ASSUME NEW t \in Tokens
      PROVE  (held'[t] - FeesIn(t)') - (held[t] - FeesIn(t)) >= DebtOf(i, t)' - DebtOf(i, t)
    <2>1. DebtOf(i, t) = IF t = r.token THEN r.amount ELSE 0
        BY <1>1, <1>3, <1>4 DEF DebtOf
    <2>2. DebtOf(i, t)' = IF t = r.token THEN 0 ELSE IF t = USDC THEN -r.fee ELSE 0
        BY <1>1, <1>4, <1>5 DEF DebtOf
    <2>3. held[t] \in Int /\ FeesIn(t) \in Int /\ r.fee <= r.amount
        BY <1>1, <1>2, <1>3 DEF FeesIn
    <2> HIDE DEF h, r
    <2> QED BY <1>1, <1>6, <1>7, <2>1, <2>2, <2>3
<1> QED BY <1>5, <1>8, OneMovedCovered

LEMMA ConfirmPartialPayoutCovered ==
    ASSUME IInv, IInv', Covered, NEW i \in Ids, NEW amount \in PartialAmounts,
           ConfirmPartialPayout(i, amount)
    PROVE  Covered'
<1> DEFINE r == rem[i]
<1>1. /\ r \in RemittanceRecord /\ flow[i] \in Flow /\ disbursed[i] \in Nat
      /\ held \in [Tokens -> Nat] /\ accumulated \in Nat
      /\ r.amount \in Nat /\ r.token \in Tokens /\ amount \in Nat
    BY RemittanceAssumption DEF IInv, TypeOK, RemittanceRecord
<1>2. /\ r.status \in {"Pending", "Processing"} /\ accumulated' = accumulated
      /\ held' = [held EXCEPT ![r.token] = @ - amount] /\ counter' = counter
    BY DEF ConfirmPartialPayout, PartialPayoutMoves
<1>3. /\ rem'[i].status = "Processing" /\ rem'[i].token = r.token
      /\ rem'[i].amount = r.amount /\ disbursed'[i] = disbursed[i] + amount
      /\ \A j \in Ids \ {i} : /\ rem'[j] = rem[j] /\ flow'[j] = flow[j]
                              /\ disbursed'[j] = disbursed[j]
    BY <1>1 DEF ConfirmPartialPayout, PartialPayoutMoves, IInv, TypeOK, RemittanceRecord
<1>4. ASSUME NEW t \in Tokens
      PROVE  (held'[t] - FeesIn(t)') - (held[t] - FeesIn(t)) >= DebtOf(i, t)' - DebtOf(i, t)
    <2>1. DebtOf(i, t) = IF t = r.token THEN r.amount - disbursed[i] ELSE 0
        BY <1>1, <1>2 DEF DebtOf
    <2>2. DebtOf(i, t)' = IF t = r.token THEN r.amount - (disbursed[i] + amount) ELSE 0
        BY <1>1, <1>3 DEF DebtOf
    <2>3. held[t] \in Int /\ FeesIn(t) \in Int /\ FeesIn(t)' = FeesIn(t)
        BY <1>1, <1>2 DEF FeesIn
    <2>4. held'[t] = IF t = r.token THEN held[t] - amount ELSE held[t]
        BY <1>1, <1>2
    <2> HIDE DEF r
    <2> QED BY <1>1, <2>1, <2>2, <2>3, <2>4
<1> QED BY <1>2, <1>3, <1>4, OneMovedCovered

LEMMA ConfirmLastPartialPayoutCovered ==
    ASSUME IInv, IInv', Covered, NEW i \in Ids, NEW amount \in PartialAmounts,
           ConfirmLastPartialPayout(i, amount)
    PROVE  Covered'
<1> DEFINE r == rem[i]
           net == PayoutBreakdown(r.amount).net
           h == [held EXCEPT ![r.token] = @ - amount]
<1>1. /\ r \in RemittanceRecord /\ flow[i] \in Flow /\ disbursed[i] \in Nat
      /\ held \in [Tokens -> Nat] /\ Lifecycle(i) /\ accumulated \in Nat
      /\ r.amount \in Nat /\ r.token \in Tokens /\ r.fee \in Nat
      /\ amount \in Nat /\ amount > 0
    BY RemittanceAssumption DEF IInv, TypeOK, RemittanceRecord
<1>2. net \in Int /\ net < r.amount
    BY <1>1, PayoutSplit DEF IInv
<1>3. /\ r.status \in {"Pending", "Processing"} /\ disbursed[i] + amount = net
      /\ held[r.token] >= amount /\ CollectFee(h, r.fee)
    <2> HIDE DEF net
    <2> QED BY <1>1, <1>2
        DEF ConfirmLastPartialPayout, PartialPayoutMoves, Remaining, net
<1>4. flow[i].route = "single"
    BY <1>1, <1>3 DEF Lifecycle
<1>5. /\ rem'[i].status = "Completed" /\ rem'[i].token = r.token /\ rem'[i].fee = r.fee
      /\ flow'[i].route = flow[i].route /\ disbursed'[i] = disbursed[i] + amount
      /\ counter' = counter
      /\ \A j \in Ids \ {i} : /\ rem'[j] = rem[j] /\ flow'[j] = flow[j]
                              /\ disbursed'[j] = disbursed[j]
    BY <1>1
    DEF ConfirmLastPartialPayout, PartialPayoutMoves, IInv, TypeOK, RemittanceRecord, Flow
<1> HIDE DEF net
<1>6. /\ h \in [Tokens -> Nat]
      /\ \A t \in Tokens : h[t] = IF t = r.token THEN held[t] - amount ELSE held[t]
    BY <1>1, <1>3
<1>7. \A t \in Tokens :
         held'[t] - FeesIn(t)' = (h[t] - FeesIn(t)) - (IF t = USDC THEN r.fee ELSE 0)
    <2> HIDE DEF h, r
    <2> QED BY <1>1, <1>3, <1>6, CollectFeeKeeps
<1>8. ASSUME NEW t \in Tokens
      PROVE  (held'[t] - FeesIn(t)') - (held[t] - FeesIn(t)) >= DebtOf(i, t)' - DebtOf(i, t)
    <2>1. DebtOf(i, t) = IF t = r.token THEN r.amount - disbursed[i] ELSE 0
        BY <1>1, <1>3 DEF DebtOf
    <2>2. DebtOf(i, t)' = IF t = r.token \/ t = USDC THEN -r.fee ELSE 0
        BY <1>1, <1>4, <1>5 DEF DebtOf
    <2>3. held[t] \in Int /\ FeesIn(t) \in Int /\ amount <= r.amount - disbursed[i]
        BY <1>1, <1>2, <1>3 DEF FeesIn
    <2> HIDE DEF h, r
    <2> QED BY <1>1, <1>6, <1>7, <2>1, <2>2, <2>3
<1> QED BY <1>5, <1>8, OneMovedCovered

LEMMA RefundOneCovered ==
    ASSUME IInv, IInv', Covered, NEW i \in Ids, NEW t \in Tokens,
           rem[i].status \in {"Pending", "Processing"},
           t = rem[i].token \/ (t = USDC /\ rem[i].status = "Pending"),
           held' = [held EXCEPT ![t] = @ - rem[i].amount],
           rem' = [rem EXCEPT ![i].status = "Cancelled", ![i].amount = 0],
           flow' = [flow EXCEPT ![i] = RefundedFlow(@, rem[i].amount, t)],
           UNCHANGED <<counter, disbursed, accumulated>>
    PROVE  Covered'
<1> DEFINE r == rem[i]
<1>1. /\ r \in RemittanceRecord /\ flow[i] \in Flow /\ disbursed[i] \in Nat
      /\ held \in [Tokens -> Nat] /\ Lifecycle(i) /\ accumulated \in Nat
      /\ r.amount \in Nat /\ r.token \in Tokens /\ flow[i].deposited \in Nat
    BY DEF IInv, TypeOK, RemittanceRecord, Flow
<1>2. /\ r.amount = flow[i].deposited /\ disbursed[i] <= r.amount
      /\ r.status = "Pending" => disbursed[i] = 0
    BY <1>1 DEF Lifecycle
<1>3. /\ rem'[i].status = "Cancelled" /\ rem'[i].token = r.token
      /\ flow'[i].deposited = flow[i].deposited /\ disbursed'[i] = disbursed[i]
      /\ \A j \in Ids \ {i} : /\ rem'[j] = rem[j] /\ flow'[j] = flow[j]
                              /\ disbursed'[j] = disbursed[j]
    <2>1. rem \in [Ids -> RemittanceRecord] /\ flow \in [Ids -> Flow]
        BY DEF IInv, TypeOK
    <2>2. /\ rem'[i].status = "Cancelled" /\ rem'[i].token = r.token
          /\ \A j \in Ids \ {i} : rem'[j] = rem[j]
        BY <2>1 DEF RemittanceRecord
    <2>3. /\ flow'[i] = RefundedFlow(flow[i], r.amount, t)
          /\ \A j \in Ids \ {i} : flow'[j] = flow[j]
        BY <2>1
    <2>4. flow'[i].deposited = flow[i].deposited
        <3> HIDE DEF r
        <3>1. RefundedFlow(flow[i], r.amount, t).deposited = flow[i].deposited
            BY <1>1, RefundedFlowType
        <3> QED BY <2>3, <3>1
    <2> QED BY <2>2, <2>3, <2>4
<1>4. ASSUME NEW u \in Tokens
      PROVE  (held'[u] - FeesIn(u)') - (held[u] - FeesIn(u)) >= DebtOf(i, u)' - DebtOf(i, u)
    <2>1. DebtOf(i, u) = IF u = r.token THEN r.amount - disbursed[i] ELSE 0
        BY <1>1 DEF DebtOf
    <2>2. DebtOf(i, u)' = IF u = r.token THEN -disbursed[i]
                          ELSE IF u = USDC THEN -r.amount ELSE 0
        BY <1>1, <1>2, <1>3 DEF DebtOf
    <2>3. held[u] \in Int /\ FeesIn(u) \in Int /\ FeesIn(u)' = FeesIn(u)
        BY <1>1 DEF FeesIn
    <2>4. held'[u] = IF u = t THEN held[u] - r.amount ELSE held[u]
        BY <1>1
    <2>5. t = r.token \/ t = USDC
        OBVIOUS
    <2> HIDE DEF r
    <2> QED BY <1>1, <1>2, <2>1, <2>2, <2>3, <2>4, <2>5
<1> QED BY <1>3, <1>4, OneMovedCovered

(***************************************************************************)
(* Calls on several remittances: where each asks for no more than before,  *)
(* so do all together.                                                     *)
(***************************************************************************)
LEMMA NoMoreDebt ==
    ASSUME IInv, IInv', counter' = counter, NEW t \in Tokens,
           \A j \in Ids : DebtOf(j, t)' <= DebtOf(j, t)
    PROVE  /\ SumFunctionOnSet(Debt(t), Ids) \in Int
           /\ SumFunctionOnSet(Debt(t), Ids)' \in Int
           /\ SumFunctionOnSet(Debt(t), Ids)' <= SumFunctionOnSet(Debt(t), Ids)
<1>1. Ids' = Ids /\ IsFiniteSet(Ids) /\ DebtsTyped
    BY FiniteIds, DebtTypes DEF Ids
<1>2. DebtsTyped'
    <2>1. (IInv => DebtsTyped)'
        BY DebtTypes, PTL
    <2> QED BY <2>1
<1>3. \A j \in Ids : /\ Debt(t)[j] \in Int /\ Debt(t)'[j] \in Int
                     /\ Debt(t)'[j] <= Debt(t)[j]
    BY <1>1, <1>2 DEF DebtsTyped
<1>4. SumFunctionOnSet(Debt(t)', Ids) <= SumFunctionOnSet(Debt(t), Ids)
    BY <1>1, <1>3, SumMonotone
<1>5. SumFunctionOnSet(Debt(t), Ids) \in Int /\ SumFunctionOnSet(Debt(t)', Ids) \in Int
    BY <1>1, <1>3, SumType
<1> QED BY <1>1, <1>4, <1>5

\* Where those of a batch ask for their amounts less, so does the sum.
LEMMA BatchDebt ==
    ASSUME IInv, IInv', counter' = counter, NEW t \in Tokens, NEW batch \in SUBSET Ids,
           \A j \in Ids : DebtOf(j, t)' = DebtOf(j, t)
                                            - (IF j \in batch THEN rem[j].amount ELSE 0)
    PROVE  /\ SumFunctionOnSet(Debt(t), Ids) \in Int
           /\ SumFunctionOnSet(AmountOf, batch) \in Int
           /\ SumFunctionOnSet(Debt(t), Ids)'
                = SumFunctionOnSet(Debt(t), Ids) - SumFunctionOnSet(AmountOf, batch)
<1> DEFINE part == [j \in Ids |-> IF j \in batch THEN AmountOf[j] ELSE 0]
<1>1. Ids' = Ids /\ IsFiniteSet(Ids) /\ DebtsTyped /\ RecordsTyped
    BY FiniteIds, DebtTypes, RecordTypes DEF Ids
<1>2. DebtsTyped'
    <2>1. (IInv => DebtsTyped)'
        BY DebtTypes, PTL
    <2> QED BY <2>1
<1>3. \A j \in Ids : AmountOf[j] \in Int /\ AmountOf[j] = rem[j].amount
    BY <1>1 DEF RecordsTyped, AmountOf
<1>4. \A j \in Ids : /\ part[j] = IF j \in batch THEN AmountOf[j] ELSE 0
                     /\ part[j] \in Int
    BY <1>3
<1> HIDE DEF part
<1>5. \A j \in Ids : /\ Debt(t)[j] \in Int /\ Debt(t)'[j] \in Int
                     /\ Debt(t)[j] = Debt(t)'[j] + part[j]
    BY <1>1, <1>2, <1>3, <1>4 DEF DebtsTyped
<1>6. SumFunctionOnSet(Debt(t), Ids)
        = SumFunctionOnSet(Debt(t)', Ids) + SumFunctionOnSet(part, Ids)
    BY <1>1, <1>4, <1>5, SumOfTwo
<1>7. SumFunctionOnSet(AmountOf, batch) = SumFunctionOnSet(part, Ids)
    BY <1>1, <1>3, <1>4, SumOfPart
<1>8. /\ SumFunctionOnSet(Debt(t), Ids) \in Int /\ SumFunctionOnSet(Debt(t)', Ids) \in Int
      /\ SumFunctionOnSet(part, Ids) \in Int
    BY <1>1, <1>4, <1>5, SumType
<1> QED BY <1>1, <1>6, <1>7, <1>8

LEMMA ProcessExpiredCovered ==
    ASSUME IInv, IInv', Covered, NEW batch \in SUBSET Ids, ProcessExpiredRemittances(batch)
    PROVE  Covered'
<1> DEFINE due == Due(batch)
           total == SumFunctionOnSet(AmountOf, due)
<1>1. /\ \A j \in Ids : /\ rem[j] \in RemittanceRecord /\ flow[j] \in Flow
                        /\ Lifecycle(j) /\ disbursed[j] \in Nat
      /\ held \in [Tokens -> Nat] /\ accumulated \in Nat /\ USDC \in Tokens
    BY RemittanceAssumption DEF IInv, TypeOK
<1>2. /\ due \in SUBSET Ids /\ \A j \in due : rem[j].status = "Pending"
      /\ counter' = counter /\ disbursed' = disbursed /\ accumulated' = accumulated
      /\ held' = [held EXCEPT ![USDC] = @ - total]
      /\ rem' = [j \in Ids |-> IF j \in due THEN [rem[j] EXCEPT !.status = "Cancelled"]
                                ELSE rem[j]]
      /\ flow' = [j \in Ids |-> IF j \in due
                                 THEN RefundedFlow(flow[j], rem[j].amount, USDC)
                                 ELSE flow[j]]
    BY DEF ProcessExpiredRemittances, Due
<1> HIDE DEF due, total
<1>3. ASSUME NEW j \in due, NEW t \in Tokens
      PROVE  /\ DebtOf(j, t) = IF t = rem[j].token THEN rem[j].amount ELSE 0
             /\ DebtOf(j, t)' = IF t # rem[j].token /\ t = USDC THEN -rem[j].amount ELSE 0
             /\ rem[j].amount \in Nat
    <2>1. /\ disbursed[j] = 0 /\ rem[j].amount = flow[j].deposited /\ rem[j].amount \in Nat
          /\ rem[j].status = "Pending"
        BY <1>1, <1>2 DEF Lifecycle, RemittanceRecord
    <2>2. rem'[j].status = "Cancelled" /\ rem'[j].token = rem[j].token
        BY <1>1, <1>2 DEF RemittanceRecord
    <2>3. flow'[j].deposited = flow[j].deposited
        <3>1. flow'[j] = RefundedFlow(flow[j], rem[j].amount, USDC)
            BY <1>2
        <3>2. RefundedFlow(flow[j], rem[j].amount, USDC).deposited = flow[j].deposited
            BY <1>1, <1>2, <2>1, RefundedFlowType
        <3> QED BY <3>1, <3>2
    <2> QED BY <1>2, <2>1, <2>2, <2>3 DEF DebtOf
<1>4. \A j \in Ids \ due : \A t : DebtOf(j, t)' = DebtOf(j, t)
    BY <1>2 DEF DebtOf
<1> SUFFICES ASSUME NEW t \in Tokens
             PROVE  held'[t] - FeesIn(t)' >= SumFunctionOnSet(Debt(t), Ids)'
    BY DEF Covered
<1>5. /\ held[t] - FeesIn(t) >= SumFunctionOnSet(Debt(t), Ids)
      /\ held[t] \in Int /\ FeesIn(t) \in Int /\ FeesIn(t)' = FeesIn(t)
    BY <1>1, <1>2 DEF Covered, FeesIn
<1>6. \A j \in Ids : DebtOf(j, t) \in Int
    BY DebtTypes DEF DebtsTyped
<1>7. CASE t = USDC
    <2>1. \A j \in Ids : DebtOf(j, t)' = DebtOf(j, t)
                                           - (IF j \in due THEN rem[j].amount ELSE 0)
        BY <1>3, <1>4, <1>6, <1>7
    <2>2. /\ SumFunctionOnSet(Debt(t), Ids) \in Int /\ total \in Int
          /\ SumFunctionOnSet(Debt(t), Ids)' = SumFunctionOnSet(Debt(t), Ids) - total
        BY <1>2, <2>1, BatchDebt DEF total
    <2>3. held'[t] = held[t] - total
        BY <1>1, <1>2, <1>7
    <2> QED BY <1>5, <2>2, <2>3
<1>8. CASE t # USDC
    <2>1. \A j \in Ids : DebtOf(j, t)' <= DebtOf(j, t)
        BY <1>3, <1>4, <1>6, <1>8
    <2>2. /\ SumFunctionOnSet(Debt(t), Ids) \in Int
          /\ SumFunctionOnSet(Debt(t), Ids)' \in Int
          /\ SumFunctionOnSet(Debt(t), Ids)' <= SumFunctionOnSet(Debt(t), Ids)
        BY <1>2, <2>1, NoMoreDebt
    <2>3. held'[t] = held[t]
        BY <1>1, <1>2, <1>8
    <2> QED BY <1>5, <2>2, <2>3
<1> QED BY <1>7, <1>8

(***************************************************************************)
(* What a netting pays out and keeps as fees is within the amounts of the  *)
(* batch, whichever way the pairs offset each other.                       *)
(***************************************************************************)
LEMMA NettedWithinAmounts ==
    ASSUME IInv, NEW batch \in SUBSET Ids
    PROVE  LET pairs == {Parties(i) : i \in batch} IN
           SumFunctionOnSet(NetPayouts(batch), pairs) + SumFunctionOnSet(FeeOf, batch)
             <= SumFunctionOnSet(AmountOf, batch)
<1> DEFINE pairs == {Parties(i) : i \in batch}
           k == [i \in batch |-> Parties(i)]
           B == [p \in pairs |-> Between(batch, p)]
           fees == [p \in pairs |-> SumFunctionOnSet(FeeOf, Between(batch, p))]
           amounts == [p \in pairs |-> SumFunctionOnSet(AmountOf, Between(batch, p))]
           both == [p \in pairs |-> NetAmount(batch, p)]
<1>1. /\ IsFiniteSet(batch) /\ IsFiniteSet(pairs)
      /\ \A i \in batch : AmountOf[i] \in Nat /\ FeeOf[i] \in Nat
    <2>1. IsFiniteSet(batch)
        BY FiniteIds, FS_Subset
    <2>2. \A i \in batch : AmountOf[i] \in Nat /\ FeeOf[i] \in Nat
        BY RecordTypes DEF AmountOf, FeeOf, RecordsTyped
    <2>3. PICK n \in Nat : ExistsSurjection(1..n, batch)
        BY <2>1, FS_NatSurjection
    <2>4. PICK f \in [1..n -> batch] : \A i \in batch : \E m \in 1..n : f[m] = i
        BY <2>3 DEF ExistsSurjection, Surjection
    <2> DEFINE g == [m \in 1..n |-> Parties(f[m])]
    <2>5. g \in Surjection(1..n, pairs)
        BY <2>4 DEF Surjection
    <2>6. IsFiniteSet(pairs)
        BY <2>5, FS_NatSurjection DEF ExistsSurjection
    <2> QED BY <2>1, <2>2, <2>6
<1>2. \A s \in SUBSET batch : /\ IsFiniteSet(s) /\ SumFunctionOnSet(AmountOf, s) \in Nat
                              /\ SumFunctionOnSet(FeeOf, s) \in Nat
    <2> SUFFICES ASSUME NEW s \in SUBSET batch
                 PROVE  /\ IsFiniteSet(s) /\ SumFunctionOnSet(AmountOf, s) \in Nat
                        /\ SumFunctionOnSet(FeeOf, s) \in Nat
        OBVIOUS
    <2>1. IsFiniteSet(s)
        BY <1>1, FS_Subset
    <2>2. \A i \in s : AmountOf[i] \in Nat /\ FeeOf[i] \in Nat
        BY <1>1
    <2> QED BY <2>1, <2>2, SumType
<1>3. \A p \in pairs : /\ Between(batch, p) \in SUBSET batch /\ B[p] = Between(batch, p)
                       /\ \A i \in batch : i \in B[p] <=> k[i] = p
    BY DEF Between
<1>4. ASSUME NEW p \in pairs
      PROVE  NetAmount(batch, p) \in Int /\ NetAmount(batch, p) <= amounts[p]
    <2> DEFINE a == CHOOSE a \in p : TRUE
               W == Between(batch, p)
               U == {i \in W : rem[i].agent = a}
               V == {i \in W : rem[i].agent # a}
               SU == SumFunctionOnSet(AmountOf, U)
               SV == SumFunctionOnSet(AmountOf, V)
    <2>1. W \in SUBSET batch /\ U \in SUBSET W /\ V \in SUBSET W /\ U \cap V = {}
          /\ U \cup V = W
        BY <1>3
    <2>2. SU \in Nat /\ SV \in Nat
        <3> HIDE DEF U, V, W
        <3>1. U \in SUBSET batch /\ V \in SUBSET batch
            BY <2>1
        <3> QED BY <3>1, <1>2
    <2>3. SumFunctionOnSet(AmountOf, W) = SU + SV
        <3> HIDE DEF U, V, W
        <3>1. IsFiniteSet(W) /\ \A i \in W : AmountOf[i] \in Int
            BY <1>1, <1>2, <2>1
        <3>2. SumFunctionOnSet(AmountOf, U \cup V) = SU + SV
            BY <2>1, <3>1, SumOfDisjoint
        <3> QED BY <2>1, <3>2
    <2>4. NetAmount(batch, p) = IF SU - SV < 0 THEN -(SU - SV) ELSE SU - SV
        BY DEF NetAmount, NetToward
    <2>5. amounts[p] = SumFunctionOnSet(AmountOf, W)
        OBVIOUS
    <2> HIDE DEF SU, SV, U, V, W, amounts
    <2> QED BY <2>2, <2>3, <2>4, <2>5
<1>5. \A p \in pairs : /\ fees[p] \in Int /\ amounts[p] \in Int /\ both[p] \in Int
                       /\ both[p] <= amounts[p]
                       /\ NetPayouts(batch)[p] \in Int
                       /\ both[p] = NetPayouts(batch)[p] + fees[p]
    <2> SUFFICES ASSUME NEW p \in pairs
                 PROVE  /\ fees[p] \in Int /\ amounts[p] \in Int /\ both[p] \in Int
                        /\ both[p] <= amounts[p]
                        /\ NetPayouts(batch)[p] \in Int
                        /\ both[p] = NetPayouts(batch)[p] + fees[p]
        OBVIOUS
    <2>1. fees[p] \in Nat /\ amounts[p] \in Nat
        BY <1>2, <1>3
    <2>2. both[p] = NetAmount(batch, p) /\ NetPayouts(batch)[p] = both[p] - fees[p]
        BY DEF NetPayouts
    <2> HIDE DEF fees, amounts, both
    <2> QED BY <1>4, <2>1, <2>2
<1> HIDE DEF pairs, k, B, fees, amounts, both
<1>6. SumFunctionOnSet(both, pairs)
        = SumFunctionOnSet(NetPayouts(batch), pairs) + SumFunctionOnSet(fees, pairs)
    BY <1>1, <1>5, SumOfTwo
<1>7. SumFunctionOnSet(both, pairs) <= SumFunctionOnSet(amounts, pairs)
    BY <1>1, <1>5, SumMonotone
<1>8. \A i \in batch : /\ k[i] \in pairs /\ AmountOf[i] \in Int /\ FeeOf[i] \in Int
    BY <1>1 DEF k, pairs
<1>9. /\ SumFunctionOnSet(fees, pairs) = SumFunctionOnSet(FeeOf, batch)
      /\ SumFunctionOnSet(amounts, pairs) = SumFunctionOnSet(AmountOf, batch)
    <2>0. /\ IsFiniteSet(batch) /\ IsFiniteSet(pairs) /\ \A i \in batch : k[i] \in pairs
          /\ \A p \in pairs : B[p] \in SUBSET batch /\ \A i \in batch : i \in B[p] <=> k[i] = p
        BY <1>1, <1>3, <1>8
    <2>1. SumFunctionOnSet(fees, pairs) = SumFunctionOnSet(FeeOf, batch)
        <3>1. \A p \in pairs : fees[p] = SumFunctionOnSet(FeeOf, B[p])
            BY <1>3 DEF fees
        <3>2. \A i \in batch : FeeOf[i] \in Int
            BY <1>8
        <3> QED BY <2>0, <3>1, <3>2, SumByClass
    <2>2. SumFunctionOnSet(amounts, pairs) = SumFunctionOnSet(AmountOf, batch)
        <3>1. \A p \in pairs : amounts[p] = SumFunctionOnSet(AmountOf, B[p])
            BY <1>3 DEF amounts
        <3>2. \A i \in batch : AmountOf[i] \in Int
            BY <1>8
        <3> QED BY <2>0, <3>1, <3>2, SumByClass
    <2> QED BY <2>1, <2>2
<1>10. /\ SumFunctionOnSet(NetPayouts(batch), pairs) \in Int
       /\ SumFunctionOnSet(fees, pairs) \in Int /\ SumFunctionOnSet(both, pairs) \in Int
       /\ SumFunctionOnSet(amounts, pairs) \in Int
    BY <1>1, <1>5, SumType
<1>11. SumFunctionOnSet(NetPayouts(batch), pairs) + SumFunctionOnSet(FeeOf, batch)
         <= SumFunctionOnSet(AmountOf, batch)
    BY <1>6, <1>7, <1>9, <1>10
<1> QED BY <1>11 DEF pairs

LEMMA NettingCovered ==
    ASSUME IInv, IInv', Covered, NEW batch \in SUBSET Ids, BatchSettleWithNetting(batch)
    PROVE  Covered'
<1> DEFINE paid == SumFunctionOnSet(NetPayouts(batch), {Parties(i) : i \in batch})
           fees == SumFunctionOnSet(FeeOf, batch)
           total == SumFunctionOnSet(AmountOf, batch)
           h == [held EXCEPT ![USDC] = @ - paid]
<1>1. /\ \A j \in Ids : /\ rem[j] \in RemittanceRecord /\ flow[j] \in Flow
                        /\ Lifecycle(j) /\ disbursed[j] \in Nat
      /\ held \in [Tokens -> Nat] /\ accumulated \in Nat /\ USDC \in Tokens
    BY RemittanceAssumption DEF IInv, TypeOK
<1>2. /\ paid \in Nat /\ fees \in Nat /\ paid + fees <= total
    BY NetPaidType, NettedWithinAmounts DEF BatchSettleWithNetting
<1>3. /\ \A j \in batch : rem[j].status = "Pending"
      /\ counter' = counter /\ disbursed' = disbursed
      /\ held[USDC] >= paid /\ CollectNettedFees(h, fees)
      /\ rem' = [j \in Ids |-> IF j \in batch THEN [rem[j] EXCEPT !.status = "Completed"]
                                ELSE rem[j]]
      /\ flow' = [j \in Ids |-> IF j \in batch THEN [flow[j] EXCEPT !.route = "netted"]
                                 ELSE flow[j]]
    BY DEF BatchSettleWithNetting, Settleable
<1> HIDE DEF paid, fees, total
<1>4. h \in [Tokens -> Nat]
      /\ \A t \in Tokens : h[t] = IF t = USDC THEN held[t] - paid ELSE held[t]
    BY <1>1, <1>2, <1>3
<1>5. \A t \in Tokens :
         held'[t] - FeesIn(t)' = (h[t] - FeesIn(t)) - (IF t = USDC THEN fees ELSE 0)
    <2> HIDE DEF h
    <2> QED BY <1>1, <1>2, <1>3, <1>4, RemittanceAssumption DEF CollectNettedFees, FeesIn
<1>6. ASSUME NEW j \in batch, NEW t \in Tokens
      PROVE  /\ DebtOf(j, t) = IF t = rem[j].token THEN rem[j].amount ELSE 0
             /\ DebtOf(j, t)' = IF t # rem[j].token /\ t = USDC THEN -rem[j].amount ELSE 0
             /\ rem[j].amount \in Nat
    <2>1. /\ disbursed[j] = 0 /\ rem[j].amount = flow[j].deposited /\ rem[j].amount \in Nat
          /\ rem[j].status = "Pending"
        BY <1>1, <1>3 DEF Lifecycle, RemittanceRecord
    <2>2. rem'[j].status = "Completed" /\ rem'[j].token = rem[j].token
        BY <1>1, <1>3 DEF RemittanceRecord
    <2>3. flow'[j].deposited = flow[j].deposited /\ flow'[j].route = "netted"
        BY <1>1, <1>3 DEF Flow
    <2> QED BY <1>3, <2>1, <2>2, <2>3 DEF DebtOf
<1>7. \A j \in Ids \ batch : \A t : DebtOf(j, t)' = DebtOf(j, t)
    BY <1>3 DEF DebtOf
<1> SUFFICES ASSUME NEW t \in Tokens
             PROVE  held'[t] - FeesIn(t)' >= SumFunctionOnSet(Debt(t), Ids)'
    BY DEF Covered
<1>8. /\ held[t] - FeesIn(t) >= SumFunctionOnSet(Debt(t), Ids)
      /\ held[t] \in Int /\ FeesIn(t) \in Int
    BY <1>1 DEF Covered, FeesIn
<1>9. \A j \in Ids : DebtOf(j, t) \in Int
    BY DebtTypes DEF DebtsTyped
<1>10. CASE t = USDC
    <2>1. \A j \in Ids : DebtOf(j, t)' = DebtOf(j, t)
                                           - (IF j \in batch THEN rem[j].amount ELSE 0)
        BY <1>6, <1>7, <1>9, <1>10
    <2>2. /\ SumFunctionOnSet(Debt(t), Ids) \in Int /\ total \in Int
          /\ SumFunctionOnSet(Debt(t), Ids)' = SumFunctionOnSet(Debt(t), Ids) - total
        BY <1>3, <2>1, BatchDebt DEF total
    <2>3. held'[t] - FeesIn(t)' = (held[t] - paid) - FeesIn(t) - fees
        BY <1>4, <1>5, <1>10
    <2> QED BY <1>2, <1>8, <2>2, <2>3
<1>11. CASE t # USDC
    <2>1. \A j \in Ids : DebtOf(j, t)' <= DebtOf(j, t)
        BY <1>6, <1>7, <1>9, <1>11
    <2>2. /\ SumFunctionOnSet(Debt(t), Ids) \in Int
          /\ SumFunctionOnSet(Debt(t), Ids)' \in Int
          /\ SumFunctionOnSet(Debt(t), Ids)' <= SumFunctionOnSet(Debt(t), Ids)
        BY <1>3, <2>1, NoMoreDebt
    <2>3. held'[t] - FeesIn(t)' = held[t] - FeesIn(t)
        BY <1>4, <1>5, <1>8, <1>11
    <2> QED BY <1>8, <2>2, <2>3
<1> QED BY <1>10, <1>11

(***************************************************************************)
(* What a creation moves in is what its remittances ask for.               *)
(***************************************************************************)
LEMMA OpenCovered ==
    ASSUME IInv, IInv', Covered, NEW s \in Senders, NEW u \in Tokens, NEW entries, NEW fees,
           Len(entries) \in Nat, DOMAIN entries = 1..Len(entries),
           \A j \in 1..Len(entries) : entries[j] \in Entry,
           OpenRemittances(s, u, entries, fees)
    PROVE  Covered'
<1> DEFINE n == Len(entries)
           total == SumFunctionOnSet(EntryAmount(entries), DOMAIN entries)
<1>1. /\ counter \in Nat /\ counter' = counter + n /\ Ids' = 1..(counter + n)
      /\ held \in [Tokens -> Nat] /\ accumulated' = accumulated /\ accumulated \in Nat
      /\ held' = [held EXCEPT ![u] = @ + total]
    BY DEF IInv, TypeOK, OpenRemittances, Ids
<1>2. \A j \in 1..n : EntryAmount(entries)[j] \in Nat
    <2>1. \A j \in 1..n : entries[j].amount \in Nat
        BY EntryTypes
    <2> QED BY <2>1 DEF EntryAmount
<1>3. total \in Nat /\ total = SumFunctionOnSet(EntryAmount(entries), 1..n)
      /\ IsFiniteSet(1..n)
    <2>1. IsFiniteSet(1..n)
        BY FS_Interval
    <2>2. SumFunctionOnSet(EntryAmount(entries), 1..n) \in Nat
        BY <1>2, <2>1, SumType
    <2> QED BY <2>1, <2>2
<1>4. \A j \in Ids : rem'[j] = rem[j] /\ flow'[j] = flow[j] /\ disbursed'[j] = disbursed[j]
    BY <1>1 DEF OpenRemittances, Ids
<1>5. \A j \in 1..n : /\ rem'[counter + j].status = "Pending"
                      /\ rem'[counter + j].token = u
                      /\ rem'[counter + j].amount = EntryAmount(entries)[j]
                      /\ disbursed'[counter + j] = 0
    <2> SUFFICES ASSUME NEW j \in 1..n
                 PROVE  /\ rem'[counter + j].status = "Pending"
                        /\ rem'[counter + j].token = u
                        /\ rem'[counter + j].amount = EntryAmount(entries)[j]
                        /\ disbursed'[counter + j] = 0
        OBVIOUS
    <2>1. counter + j \in 1..counter' /\ ~(counter + j <= counter)
          /\ (counter + j) - counter = j
        BY <1>1
    <2> QED BY <2>1 DEF OpenRemittances, EntryAmount
<1> HIDE DEF total
<1> SUFFICES ASSUME NEW t \in Tokens
             PROVE  held'[t] - FeesIn(t)' >= SumFunctionOnSet(Debt(t), Ids)'
    BY DEF Covered
<1> DEFINE D == Debt(t)
           E == Debt(t)'
           e == [j \in 1..n |-> E[counter + j]]
<1>6. DebtsTyped /\ DebtsTyped' /\ IsFiniteSet(Ids)
    <2>1. (IInv => DebtsTyped)'
        BY DebtTypes, PTL
    <2> QED BY <2>1, DebtTypes, FiniteIds
<1>7. \A j \in Ids : D[j] = E[j] /\ D[j] \in Int
    <2>1. \A j \in Ids : j \in Ids'
        BY <1>1 DEF Ids
    <2> QED BY <1>4, <1>6, <2>1 DEF DebtsTyped, DebtOf
<1>8. \A j \in 1..n : e[j] = IF t = u THEN EntryAmount(entries)[j] ELSE 0
    <2> SUFFICES ASSUME NEW j \in 1..n
                 PROVE  e[j] = IF t = u THEN EntryAmount(entries)[j] ELSE 0
        OBVIOUS
    <2>1. PICK i \in Ids' : i = counter + j
        BY <1>1
    <2>2. e[j] = E[i]
        BY <2>1
    <2>3. E[i] = DebtOf(i, t)'
        BY <1>6 DEF DebtsTyped
    <2>4. /\ rem'[i].status = "Pending" /\ rem'[i].token = u
          /\ rem'[i].amount = EntryAmount(entries)[j] /\ disbursed'[i] = 0
          /\ EntryAmount(entries)[j] \in Nat
        BY <1>2, <1>5, <2>1
    <2> HIDE DEF e, E
    <2>5. DebtOf(i, t)' = IF t = u THEN EntryAmount(entries)[j] ELSE 0
        BY <2>4 DEF DebtOf
    <2> QED BY <2>2, <2>3, <2>5
<1>9. SumFunctionOnSet(E, Ids')
        = SumFunctionOnSet(E, Ids) + SumFunctionOnSet(e, 1..n)
    <2>1. \A j \in 1..(counter + n) : E[j] \in Int
        BY <1>1, <1>6 DEF DebtsTyped
    <2>2. \A j \in 1..n : e[j] = E[counter + j]
        OBVIOUS
    <2>3. n \in Nat
        OBVIOUS
    <2> HIDE DEF E, e, n
    <2>4. SumFunctionOnSet(E, 1..(counter + n))
            = SumFunctionOnSet(E, 1..counter) + SumFunctionOnSet(e, 1..n)
        <3>1. counter \in Nat
            BY <1>1
        <3> DEFINE c == counter
        <3> HIDE DEF c
        <3>2. c \in Nat /\ (\A j \in 1..(c + n) : E[j] \in Int) /\ \A j \in 1..n : e[j] = E[c + j]
            BY <3>1, <2>1, <2>2 DEF c
        <3>3. SumFunctionOnSet(E, 1..(c + n))
                = SumFunctionOnSet(E, 1..c) + SumFunctionOnSet(e, 1..n)
            BY <3>2, <2>3, SumOfNext
        <3> QED BY <3>3 DEF c
    <2> QED BY <1>1, <2>4 DEF Ids
<1>10. SumFunctionOnSet(D, Ids) = SumFunctionOnSet(E, Ids)
       /\ SumFunctionOnSet(D, Ids) \in Int
    <2> HIDE DEF D, E
    <2> QED BY <1>6, <1>7, SumCongruence, SumType
<1>11. SumFunctionOnSet(e, 1..n) = IF t = u THEN total ELSE 0
    <2> HIDE DEF e
    <2>1. CASE t = u
        <3>1. \A j \in 1..n : e[j] = EntryAmount(entries)[j]
            BY <1>8, <2>1
        <3>2. SumFunctionOnSet(e, 1..n) = SumFunctionOnSet(EntryAmount(entries), 1..n)
            <4> HIDE DEF n
            <4> QED BY <1>3, <3>1, SumCongruence
        <3> QED BY <1>3, <2>1, <3>2
    <2>2. CASE t # u
        <3>1. {} \in SUBSET (1..n) /\ \A j \in 1..n : e[j] = IF j \in {} THEN e[j] ELSE 0
            BY <1>8, <2>2
        <3>2. IsFiniteSet(1..n) /\ \A j \in 1..n : e[j] \in Int
            BY <1>3, <1>8, <2>2
        <3>3. SumFunctionOnSet(e, {}) = SumFunctionOnSet(e, 1..n)
            BY <3>1, <3>2, SumOfPart
        <3> QED BY <2>2, <3>3, SumEmpty
    <2> QED BY <2>1, <2>2
<1>12. /\ held[t] - FeesIn(t) >= SumFunctionOnSet(D, Ids)
       /\ held[t] \in Int /\ FeesIn(t) \in Int /\ FeesIn(t)' = FeesIn(t)
    BY <1>1 DEF Covered, FeesIn
<1>13. held'[t] = IF t = u THEN held[t] + total ELSE held[t]
    BY <1>1
<1> HIDE DEF D, E, e
<1>14. SumFunctionOnSet(E, Ids') = SumFunctionOnSet(D, Ids) + (IF t = u THEN total ELSE 0)
    BY <1>9, <1>10, <1>11
<1>15. held'[t] - FeesIn(t)' >= SumFunctionOnSet(E, Ids')
    BY <1>3, <1>10, <1>12, <1>13, <1>14
<1> QED BY <1>15 DEF E

LEMMA NextCovered ==
    IInv /\ Covered /\ [Next]_vars => Covered'
<1> SUFFICES ASSUME IInv, Covered, [Next]_vars PROVE Covered'
    OBVIOUS
<1> USDC \in Tokens
    BY RemittanceAssumption
<1>1. IInv'
    BY NextIInv
<1>2. CASE Create
    BY <1>1, <1>2, CreateOpens, OpenCovered
<1>3. CASE Payout
    BY <1>1, <1>3, ConfirmPayoutCovered, ConfirmPartialPayoutCovered,
       ConfirmLastPartialPayoutCovered DEF Payout
<1>4. CASE Net
    BY <1>1, <1>4, NettingCovered DEF Net
<1>5. CASE Refund
    <2>1. ASSUME NEW i \in Ids, MarkFailed(i)
          PROVE  Covered'
        <3>1. rem[i].token \in Tokens
            BY RecordTypes DEF RecordsTyped
        <3> QED BY <1>1, <2>1, <3>1, RefundOneCovered DEF MarkFailed
    <2>2. ASSUME NEW i \in Ids, CancelRemittance(i)
          PROVE  Covered'
        BY <1>1, <2>2, RefundOneCovered DEF CancelRemittance
    <2> QED BY <1>1, <1>5, <2>1, <2>2, ProcessExpiredCovered DEF Refund
<1>6. CASE WithdrawFees
    <2>1. /\ UNCHANGED remVars
          /\ \A t \in Tokens : held'[t] - FeesIn(t)' = held[t] - FeesIn(t)
        BY <1>6 DEF WithdrawFees, IInv, TypeOK, FeesIn
    <2>2. Ids' = Ids /\ \A t \in Tokens : Debt(t)' = Debt(t)
        BY <2>1 DEF remVars, Ids, Debt, DebtOf
    <2> QED BY <2>1, <2>2 DEF Covered
<1>7. CASE (Administer /\ ~WithdrawFees) \/ Tick \/ UNCHANGED vars
    <2>1. UNCHANGED <<remVars, held, accumulated>>
        BY <1>7 DEF Administer, UpdateFee, UpdateFeeStrategy, UpdateTokenFee,
               UpdateProtocolFee, RegisterAgent, RemoveAgent, RaiseBar, LiftBar, ChangeBars,
               Tick, vars, moneyVars
    <2> QED BY <2>1 DEF remVars, Covered, Ids, Debt, DebtOf, FeesIn
<1> QED BY <1>2, <1>3, <1>4, <1>5, <1>6, <1>7 DEF Next

(***************************************************************************)
(* What the contract holds of each token covers what it owes, but for the  *)
(* losses listed, after any sequence of calls and for any tokens, amounts  *)
(* and fees.                                                               *)
(***************************************************************************)
THEOREM ShortfallAlwaysExplained == Spec => []ShortfallExplained
<1>1. Init => Covered
    <2> SUFFICES ASSUME Init, NEW t \in Tokens
                 PROVE  held[t] - FeesIn(t) >= SumFunctionOnSet(Debt(t), Ids)
        BY DEF Covered
    <2>1. Ids = {}
        BY DEF Init, Ids
    <2>2. SumFunctionOnSet(Debt(t), Ids) = 0
        BY <2>1, SumEmpty
    <2> QED BY <2>2 DEF Init, FeesIn
<1> QED BY <1>1, NextCovered, Invariance, CoveredIsShortfall, PTL DEF Spec
=============================================================================
