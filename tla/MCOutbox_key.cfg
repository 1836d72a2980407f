SPECIFICATION FairSpec
CONSTANTS
    Message <- TwoMessages
    KeyOf <- OneKey
    Relay = {r1, r2}
    None = None
    MaxAttempts = 2
    Lease = 1
    RetryDelay <- Delays
    BatchSize = 2
    MaxTime = 2
    MaxStall = 1
    MaxRedrives = 1
    FaultHorizon = 2
INVARIANTS
    SuccessMeansDelivered
    AttemptsWithinBudget
    ClaimsAreCurrent
    NoOvertaking
PROPERTIES
    NothingIsLost
    EveryMessageSettles
CHECK_DEADLOCK FALSE
