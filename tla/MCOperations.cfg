\* One task, the caller who owns it, two administrators.
SPECIFICATION OperationsSpec
CONSTANTS
    owner = owner
    root = root
    ta = ta
    tb = tb
    tc = tc
    Notification = {n1}
    Request = {r1}
    Hash = {h1}
    MaxAttemptsValues = {1}
    ClaimToken = {c1}
    LeaseToken = {l1}
    NoToken = NoToken
    OutboxBatchSize = 1
    ScheduleBatchSize = 1
    RetentionBatchSize = 1
    MaxReplays = 2
    MaxLost = 1
    Identity = {owner, root}
    CallerOf <- Owner
    CallerTokens <- OneCaller
    AdminTokens <- TwoAdmins
SYMMETRY Interchangeable
INVARIANT EveryGrantRevives
PROPERTY ReadsAdvance
CHECK_DEADLOCK FALSE
