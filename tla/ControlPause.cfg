SPECIFICATION Spec
CONSTANTS
    Addresses = {a1, a2}
    Nobody = nobody
    MaxAdminCount = 2
    RoleTargets = {a2}
    TransferTargets = {}
    PauseTimelocks = {1}
    UnpauseQuorums = {2}
    MaxPauses = 2
    MaxTime = 2
    NamedAdmins = {}
    NamedAgents = {}
    FeeRates = {}
    Quorums = {}
    Timelocks = {}
    Others = {}
    GovTimelocks = {0}
    ProposalTtls = {}
    DefaultTtl = 0
    MaxProposals = 0
    OpTypes = {"UpdateFee", "WithdrawFees", "Pause", "Unpause"}
    OpFees = {50}
    Thresholds = {2}
    OpTtls = {1}
    DefaultOpTtl = 1
    MaxOps = 1
INVARIANTS
    VoteCountIsVoters
    WaitingOperationsNeedApproval
PROPERTIES
    RecordedPauseEarnsItsEnd
CHECK_DEADLOCK FALSE
