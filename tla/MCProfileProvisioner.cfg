\* Two concurrent create_profile.  Without a pause between its PUTs one caller can
\* trip the circuit, and the circuit can recover, while the PUT of the other is out.
SPECIFICATION ProvisionerFairSpec
CONSTANTS
    Caller = {c1, c2}
    None = None
    FailMax = 2
    RecoveryTimeout = 1
    MaxTime = 7
    FaultHorizon = 4
    Configured = TRUE
    Timeout = 1
    Operations = 2
    RetryDelay = 0
    MaxRetryDelay = 2
    RetryAfter <- Headers
INVARIANTS
    OneProbe
PROPERTIES
    StaleOutcomesIgnored
    ImplementsPromise
    RejectionNeverOpens
    Recovers
    EveryJobAnswers
CHECK_DEADLOCK FALSE
