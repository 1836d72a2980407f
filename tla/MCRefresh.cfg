\* Two requests, two keys and the tokens for one rotation or two sessions: retries
\* race under one key, reuse comes under the other, and one key has a hot store.
SPECIFICATION Spec
CONSTANTS
    Key = {k1, k2}
    Token = {t1, t2}
    Handler = {h1, h2}
    HotKey = {k1}
    None = None
    Rejected = Rejected
SYMMETRY Symmetric
INVARIANTS
    TypeOK
    PairBelongsToRequest
    HotResultIsCommitted
    OneLiveToken
    RefusalRevokesFamily
PROPERTIES
    RetryNeverRevokes
    NoSessionForDisabled
    RevocationIsFinal
CHECK_DEADLOCK FALSE
