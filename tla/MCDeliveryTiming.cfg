\* Nine seconds are 36 units, which a duration of 5 bits holds as 4; a lease is
\* one unit longer than the longest call.
SPECIFICATION TimingSpec
CONSTANTS
    Second = 4
    DurationBits = 5
    Worker = {w1, w2}
    Policies <- SmallPolicies
    LeaseTTL = 3
    StatusCodes = {204, 400, 429}
    RetryAfterSeconds = {0, 1, 9}
    Horizon = 10
SYMMETRY Interchangeable
INVARIANTS OverlapNeedsStall DeadOnlyWhenHopeless
PROPERTIES SupplierLeftAlone
CHECK_DEADLOCK FALSE
