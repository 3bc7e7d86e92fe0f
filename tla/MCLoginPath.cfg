\* One address, three accounts, one login at a time, room for every window; two
\* other callers at a gate of two permits.
SPECIFICATION PathSpec
CONSTANTS
    None = None
    IPs = {i1}
    Ids = {a1, a2, a3}
    Logins = {c1}
    Callers = {c1, g1, g2}
    Permits = 2
    Attempts = 1
    Factor = 2
    Second = 1
    WindowSeconds = 2
    MaxEntries = 10
    MaxTime = 5
SYMMETRY Symmetry
INVARIANTS
    FailuresRetained
    GateInv
