SPECIFICATION Spec
CONSTANTS
    s1 = s1
    a1 = a1
    p1 = p1
    p2 = p2
    usdc = usdc
    eurc = eurc
    none = none
    Senders = {s1}
    Agents = {a1}
    Tokens = {usdc, eurc}
    USDC = usdc
    NoExpiry = none
    Expiries <- MCExpiries
    Amounts = {100}
    PartialAmounts = {40, 55}
    FeeRates = {500}
    TokenFeeRates = {}
    ProtocolRates = {0}
    Strategies <- NoOne
    Corridors <- MCCorridors
    Bars <- MCBars
    MaxFees = 8
    VolumeWindow = 1
    DynamicTier1 = 50
    DynamicTier2 = 200
    VolumeThreshold = 200
    VolumeDiscountBps = 150
    MaxBatch = 2
    MaxRemittances = 2
    MaxTime = 1
INVARIANTS
    RefundedXorSettled
    VolumesMatchRemittances
PROPERTIES
    ClosedIsFinal
    KeepsPromise
CHECK_DEADLOCK FALSE
