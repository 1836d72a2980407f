\* A request and batches of the reconciler on two operations.  The lease exceeds
\* what the settings take for the longest attempt by one tick.
SPECIFICATION LeaseSpec
CONSTANTS
    k1 = k1
    k2 = k2
    e1 = e1
    e2 = e2
    p1 = p1
    Key = {k1, k2}
    Email = {e1, e2}
    Password = {p1}
    Request <- TwoRequests
    Handler = {h1}
    Reconciler = {c1}
    None = None
    LegacyEmail = {}
    LegacyId = LegacyId
    MaxAttempts = 2
    Lease = 4
    RetryDelay <- Delays
    BatchSize = 2
    MaxTime = 8
    MaxStall = 0
    MaxRedrives = 1
    FaultHorizon = 2
    Timeout = 1
    MaxRetryDelay = 1
    Operations = 2
INVARIANTS
    PunctualOwnerKeepsClaim
SYMMETRY Exchange
