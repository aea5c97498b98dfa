SPECIFICATION Spec
CONSTANTS
    s1 = s1
    a1 = a1
    p1 = p1
    p2 = p2
    usdc = usdc
    eurc = eurc
    none = none
    Senders = {p1, p2}
    Agents = {p1, p2}
    Tokens = {usdc, eurc}
    USDC = usdc
    NoExpiry = none
    Expiries <- NeverExpire
    Amounts = {60}
    PartialAmounts = {20, 37}
    FeeRates = {500}
    TokenFeeRates = {}
    ProtocolRates = {0}
    Strategies <- NoOne
    Corridors <- NoOne
    Bars <- NoOne
    MaxFees = 8
    VolumeWindow = 1
    DynamicTier1 = 50
    DynamicTier2 = 200
    VolumeThreshold = 200
    VolumeDiscountBps = 150
    MaxBatch = 3
    MaxRemittances = 3
    MaxTime = 0
INVARIANTS
    ShortfallExplained
CHECK_DEADLOCK FALSE
