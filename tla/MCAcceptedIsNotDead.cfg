\* One attempt; a character of two bytes starts at the fourth.
SPECIFICATION SenderSpec
CONSTANTS
    Second = 4
    DurationBits = 5
    Host = {registered, other}
    Registered = registered
    Public = {p1, p2}
    Disallowed = {d1}
    StatusCodes = {200, 304, 400, 408, 425, 429, 503}
    MaxAttempts = 1
    Limit = 4
    MaxBytes = 6
    Body <- ValidBody
INVARIANTS AcceptedIsNotDead
CHECK_DEADLOCK FALSE
