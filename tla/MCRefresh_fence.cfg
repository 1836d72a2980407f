\* What DurableExecutionService takes for granted of a lost fence.
SPECIFICATION Spec
CONSTANTS
    Key = {k1}
    Token = {t1, t2}
    Handler = {h1, h2}
    HotKey = {k1}
    None = None
    Rejected = Rejected
SYMMETRY Symmetric
INVARIANTS
    FenceHasWinner
CHECK_DEADLOCK FALSE
