\* Files of up to two declarations, one restart, two secrets.
SPECIFICATION RegistrySpec
CONSTANTS
    Declaration <- Declarations
    MaxDeclarations = 2
    Canonical <- HeaderNames
    EnvironmentName = {"KEY", "OTHER"}
    SecretValue = {"s1", "s2"}
    MaxTimeout = 3
    MaxLifetime = 6
    MaxMaxAttempts = 3
    MaxConcurrency = 2
    MaxIdLength = 2
    MaxURLLength = 4
    Second = 1
    DurationBits = 64
INVARIANTS ServesWholeFile BudgetIsUsable SameAfterRestart OnlyTextsRefused
CHECK_DEADLOCK FALSE
