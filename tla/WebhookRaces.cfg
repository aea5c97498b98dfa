SPECIFICATION Spec
CONSTANTS
    Events = {e1}
    Subscribers = {s1, s2}
    Stores = {"postgres", "memory"}
    ReadBack = {"memory"}
    Slow = {s1}
    Runs = {r1, r2}
    Leaving = {s1}
    MaxRetries = 2
    Limit = 2
    MaxAged = 2
    MaxFailures = 1
INVARIANTS
    AcceptedOnce
    DeadLettersMatchRows
PROPERTIES
    SettledIsFinal
    EveryDeliveryEnds
CHECK_DEADLOCK FALSE
