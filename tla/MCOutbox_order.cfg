SPECIFICATION Spec
CONSTANTS
    Message <- TwoMessages
    KeyOf <- OneKey
    Relay = {r1, r2}
    None = None
    MaxAttempts = 2
    Lease = 1
    RetryDelay <- Delays
    BatchSize = 1
    MaxTime = 2
    MaxStall = 0
    MaxRedrives = 0
    FaultHorizon = 0
PROPERTIES
    DeliveredInOrder
CHECK_DEADLOCK FALSE
