\* Two addresses, two accounts, two logins at once, room for five windows of eight.
SPECIFICATION Spec
CONSTANTS
    None = None
    IPs = {i1, i2}
    Ids = {a1, a2}
    Logins = {c1, c2}
    Attempts = 1
    Factor = 2
    Second = 2
    WindowSeconds = 2
    MaxEntries = 5
    MaxTime = 5
SYMMETRY Symmetry
INVARIANTS
    LimiterInv
    RetryAfterEnough
PROPERTIES
    LiveEvictedLast
