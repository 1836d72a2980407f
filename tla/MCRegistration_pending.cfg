SPECIFICATION Spec
CONSTANTS
    k1 = k1
    k2 = k2
    e1 = e1
    e2 = e2
    p1 = p1
    p2 = p2
    Key = {k1}
    Email = {e1}
    Password = {p1}
    Request <- OneRequest
    Handler = {h1, h2}
    Reconciler = {c1}
    None = None
    LegacyEmail = {}
    LegacyId = LegacyId
    MaxAttempts = 2
    Lease = 2
    RetryDelay <- Delays
    BatchSize = 1
    MaxTime = 0
    MaxStall = 1
    MaxRedrives = 0
    FaultHorizon = 0
PROPERTIES
    PendingMeansNoUserYet
