SPECIFICATION FairSpec
CONSTANTS
    Procs = {p1, p2}
    Parts = {"anchor health", "status tracker", "sdk events"}
    Events <- SampleEvents
    Deposits = {"t1"}
    Withdrawals = {}
    MaxSends = 3
    MaxFaults = 1
    KycAnchors = {"a1", "a2"}
    MaxVerified = 1
    MaxPushes = 1
    MaxSubmissions = 2
    AdminNames = {"d1", "d2", "d3"}
    Actions = {"c1"}
    Letters = {"l1"}
    Files = {1, 2, 3}
    Instances = {"i1", "i2"}
    Failing = {2}
    Reversible = {3}
    MaxStarts = 5
    MaxCrashes = 1
    Clients = {"k1", "k2"}
    MaxQuotes = 2
    MaxClears = 1
    Senders = {"s1"}
    RetryKeys = {"k1"}
    SentAmounts = {1}
    Countries = {"GLOBAL", "MX"}
    LimitsOfADay = {2}
    Window = 2
    Ttl = 2
    MaxBatch = 2
    MaxMade = 3
    MaxRetries = 1
    MaxLedgerTime = 4
    MaxAttempts = 2
    MaxDispatches = 2
    MaxSecrets = 3
    SweepRuns = TRUE
    Urls = {"u1", "u2", "u3"}
    EventKinds = {{"remittance.created"}, {"remittance.failed", "remittance.completed"}}
    WebhookLimit = 2
    MaxUpdates = 3
    Listings = {"remittances", "audit log", "events"}
    RowIds = {1, 2, 3}
    FineStep = 2
    MaxInstant = 2
    PageLimit = 2
    MaxPages = 2
    ListedAnchors = {1, 2, 3, 4}
    PageSize = 2
    DependentTables = FALSE
    MaxDirectoryEdits = 3
    Evidence <- SampleEvidence
    MaxReports = 5
    MaxChecks = 2
    Readers = {"r1"}
    Checks = {"c1"}
    MaxCacheTime = 3
    MaxChanges = 2
    MaxTokens = 3
    Created = {"r1", "r2"}
    Corridors = {"c1"}
    Amounts = {1, 2}
    Parties = {1, 2}
    PreviewStatuses = {"Pending", "Failed"}
    MaxPreviewed = 3
    Registered = {"transak", "moonpay"}
    RampNotices <- SampleRampNotices
    HookHandlers = {"a1", "a2"}
    WriteRetries = 2
    ReadRetries = 0
    MaxSeq = 3
    MaxPrepares = 2
    MaxProposals = 3
    FirstId = 1
    ScanLimit = 3
    Keys = {"k1", "k2"}
    MaxAsks = 3
    MaxVersion = 2
    MaxTries = 2
    MaxFormEdits = 5
    Accounts = {"a1", "a2"}
    MaxSwitches = 3
    MaxPresses = 2
    MaxHistoryPages = 3
    FirstPage = 2
    MaxEntries = 3
    MaxShrinks = 1
    MaxBookEdits = 4
    MaxErrors = 3
    AnchorCount = 2
    Kept = 2
    LastStatus = 2
    MaxReconnects = 1
    MaxSockets = 1
    MaxLost = 1
    MaxEvents = 3
    HasCursor = TRUE
PROPERTIES
    EveryCheckEnds
    PollingBringsTheEnd
    EveryReadableCalled
CHECK_DEADLOCK FALSE
