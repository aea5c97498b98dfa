SPECIFICATION Spec
CONSTANTS
    t1 = t1
    i1 = i1
    i2 = i2
    Txns = {t1}
    Instances = {i1, i2}
    Reported = {"pending_anchor", "pending_external", "completed"}
    Referenced = {t1}
    SentByAdmin = {t1}
    MaxMail = 2
    MaxFaults = 1
INVARIANTS
    OneInstanceAtWork
PROPERTIES
    ClosedOverwrittenOnlyLate
    EveryFlowEnds
CHECK_DEADLOCK FALSE
