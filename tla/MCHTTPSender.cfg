\* Two public addresses and a disallowed one, every class of answer, bodies
\* of up to five bytes, valid or not, cut after four, two attempts.
SPECIFICATION SenderSpec
CONSTANTS
    Second = 4
    DurationBits = 5
    Host = {registered, other}
    Registered = registered
    Public = {p1, p2}
    Disallowed = {d1}
    StatusCodes = {200, 304, 400, 408, 425, 429, 503}
    MaxAttempts = 2
    Limit = 4
    MaxBytes = 5
    Body <- AnyBody
INVARIANTS StaysWithDestination MessageIsClean
CHECK_DEADLOCK FALSE
