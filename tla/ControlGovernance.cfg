SPECIFICATION Spec
CONSTANTS
    Addresses = {a1, a2}
    Nobody = nobody
    MaxAdminCount = 3
    RoleTargets = {}
    TransferTargets = {a2}
    PauseTimelocks = {}
    UnpauseQuorums = {}
    MaxPauses = 0
    MaxTime = 0
    NamedAdmins = {a2}
    NamedAgents = {a1}
    FeeRates = {100}
    Quorums = {2}
    Timelocks = {1}
    Others = {0}
    GovTimelocks = {0}
    ProposalTtls = {0}
    DefaultTtl = 0
    MaxProposals = 2
    OpTypes = {}
    OpFees = {}
    Thresholds = {}
    OpTtls = {}
    DefaultOpTtl = 1
    MaxOps = 0
INVARIANTS
    FeeGuardIsOpenProposal
    ExecutedOnce
PROPERTIES
    CountDriftsOnlyThere
    LegacyLostOnlyBySelfRemoval
    QuorumLostOnlyByDirectRemoval
CHECK_DEADLOCK FALSE
