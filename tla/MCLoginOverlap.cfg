\* One address, three accounts, two logins at once, room for every window.
SPECIFICATION HistorySpec
CONSTANTS
    None = None
    IPs = {i1}
    Ids = {a1, a2, a3}
    Logins = {c1, c2}
    Attempts = 1
    Factor = 2
    Second = 1
    WindowSeconds = 2
    MaxEntries = 10
    MaxTime = 5
SYMMETRY Symmetry
INVARIANTS
    FailuresRetained
