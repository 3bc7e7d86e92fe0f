SPECIFICATION FairSpec
CONSTANTS
    Tabs = {t1}
    Calls = {c1, c2}
    Me = me
    MaxTokens = 2
    MaxStrays = 1
    LockSupport = {TRUE, FALSE}
    None = None
INVARIANTS
    ClientInv
PROPERTIES
    EveryCallSettles ServerKeepsPromise
