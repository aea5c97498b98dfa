SPECIFICATION Spec
CONSTANTS
    s1 = s1
    a1 = a1
    p1 = p1
    p2 = p2
    usdc = usdc
    eurc = eurc
    none = none
    Senders = {s1}
    Agents = {a1}
    Tokens = {usdc}
    USDC = usdc
    NoExpiry = none
    Expiries <- NeverExpire
    Amounts = {100}
    PartialAmounts = {40, 48, 50, 55}
    FeeRates = {500, 1000}
    TokenFeeRates = {1000}
    ProtocolRates = {0, 200}
    Strategies <- MCStrategies
    Corridors <- NoOne
    Bars <- NoOne
    MaxFees = 12
    VolumeWindow = 1
    DynamicTier1 = 50
    DynamicTier2 = 200
    VolumeThreshold = 200
    VolumeDiscountBps = 150
    MaxBatch = 1
    MaxRemittances = 2
    MaxTime = 0
INVARIANTS
    PayeeWithinDeposit
    ExcessOnlyAfterPartialPayout
CHECK_DEADLOCK FALSE
