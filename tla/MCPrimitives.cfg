\* Three callers over one or two slots; eight messages; three roles.
SPECIFICATION PrimitivesSpec
CONSTANTS
    Caller = {a, b, c}
    Limits = {1, 2}
    MaxPublishes = 8
    Roles = {r1, r2, r3}
INVARIANTS
    LimiterTypeOK ActiveCountsHolders NoLostWakeup
    ConfirmedMeansStored NoAnswerLeftOver
PROPERTIES StaysWithinLimit AllServed RunReturns
CHECK_DEADLOCK FALSE
