\* One task; a message that came back twice is dropped the third time.
SPECIFICATION BoundedSpec
CONSTANTS
    Notification = {n1}
    Request = {r1}
    Hash = {h1}
    MaxAttemptsValues = {1}
    ClaimToken = {c1}
    LeaseToken = {l1}
    NoToken = NoToken
    OutboxBatchSize = 1
    ScheduleBatchSize = 1
    RetentionBatchSize = 1
    MaxReplays = 0
    Worker = {w1}
    Publisher = {p1}
    MaxCopies = 1
    DeliveryLimit = 2
INVARIANTS PendingHasWakeup
CHECK_DEADLOCK FALSE
