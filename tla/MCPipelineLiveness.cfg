\* One task with two attempts, one worker, one publisher.
SPECIFICATION FairPipelineSpec
CONSTANTS
    Notification = {n1}
    Request = {r1}
    Hash = {h1}
    MaxAttemptsValues = {2}
    ClaimToken = {c1}
    LeaseToken = {l1}
    NoToken = NoToken
    OutboxBatchSize = 1
    ScheduleBatchSize = 1
    RetentionBatchSize = 1
    MaxReplays = 0
    Worker = {w1}
    Publisher = {p1}
    MaxCopies = 1
PROPERTIES EventuallySettled
CHECK_DEADLOCK FALSE
