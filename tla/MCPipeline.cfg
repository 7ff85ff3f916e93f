\* Two workers; one attempt, a replay that grants a second one, retention.
SPECIFICATION PipelineSpec
CONSTANTS
    Notification = {n1}
    Request = {r1}
    Hash = {h1}
    MaxAttemptsValues = {1}
    ClaimToken = {c1}
    LeaseToken = {l1, l2}
    NoToken = NoToken
    OutboxBatchSize = 1
    ScheduleBatchSize = 1
    RetentionBatchSize = 1
    MaxReplays = 1
    Worker = {w1, w2}
    Publisher = {p1}
    MaxCopies = 1
SYMMETRY Interchangeable
INVARIANTS PipelineTypeOK PendingHasWakeup ResultIsOfLastAttempt OneSendPerAttempt
PROPERTIES ImplementsService
CHECK_DEADLOCK FALSE
