\* Two clients, one key, two contents, an id for before and after retention;
\* two attempts and a replay.
SPECIFICATION IntakeSpec
CONSTANTS
    Notification = {n1, n2}
    Request = {r1}
    Hash = {h1, h2}
    MaxAttemptsValues = {2}
    ClaimToken = {c1}
    LeaseToken = {l1}
    NoToken = NoToken
    OutboxBatchSize = 1
    ScheduleBatchSize = 1
    RetentionBatchSize = 1
    MaxReplays = 1
    Client = {a, b}
SYMMETRY Interchangeable
INVARIANTS
    StoreTypeOK RowShape EventLedger AttemptLedger RetryBudget
    AcceptedIsTheTask AnswersAgree
PROPERTIES RowProgress
CHECK_DEADLOCK FALSE
