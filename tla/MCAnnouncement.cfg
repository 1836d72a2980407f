\* Two registrations and two relays that claim batches.
SPECIFICATION AnnouncementFairSpec
CONSTANTS
    k1 = k1
    k2 = k2
    Key = {k1, k2}
    Email = {e1, e2}
    LegacyEmail = {}
    LegacyId = LegacyId
    MessageOf <- TwoEvents
    Message <- TwoMessages
    KeyOf <- OwnKeys
    Relay = {r1, r2}
    None = None
    MaxAttempts = 2
    Lease = 1
    RetryDelay <- Delays
    BatchSize = 2
    MaxTime = 2
    MaxStall = 0
    MaxRedrives = 1
    FaultHorizon = 1
INVARIANTS
    AnnouncedAccountsExist
PROPERTIES
    EveryAccountIsAnnounced
CHECK_DEADLOCK FALSE
