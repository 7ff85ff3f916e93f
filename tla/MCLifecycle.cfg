\* Every role, with a complete environment or one setting missing.
SPECIFICATION FairLifecycleSpec
CONSTANTS
    Roles = {"api", "publisher", "worker", "scheduler", "all"}
    Capacity = 5
INVARIANTS ReportsFit OpensOnlyConfigured ReadyWhenServing SuccessExplained
PROPERTIES EndsAfterReport
CHECK_DEADLOCK FALSE
