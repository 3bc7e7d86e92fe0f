\* Two superusers, two calls at once, under the fairness of the scheduler.
SPECIFICATION FairSpec
CONSTANTS
    None = None
    Users = {1, 2}
    Superusers = {1, 2}
    Tx = {t1, t2}
INVARIANTS
    SuperuserRemains
    GuardInv
    CycleNeedsChange
PROPERTIES
    EveryCallEnds
