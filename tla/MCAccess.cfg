CONSTANTS
    u1 = u1
    a1 = a1
    e1 = e1
    e2 = e2
    e3 = e3
    Users = {u1, a1}
    Admins = {a1}
    t1 = t1
    t2 = t2
    Threads = {t1, t2}
    Batches <- SentBatches
    Invalid = {e3}
    SessionLife = 2
    CacheLife = 2
    AskTime = 1
    Limit = 1
    MaxKeys = 2
    MaxRequests = 3
    MaxMoves = 1
    MaxRestarts = 1
    MaxTime = 4
SYMMETRY Alike
SPECIFICATION Spec
INVARIANT OnlyMembersGetIn
INVARIANT BurstIsBounded
PROPERTY TablesChangeWhole
CHECK_DEADLOCK FALSE
