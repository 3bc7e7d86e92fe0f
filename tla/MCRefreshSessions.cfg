\* One account, two logins, three tokens, two calls in flight.
SPECIFICATION Spec
CONSTANTS
    None = None
    Users = {u1}
    Families = {f1, f2}
    Jtis = {j1, j2, j3}
    Requests = {r1, r2}
    RefreshLife = 2
    AbsoluteLife = 3
    AccessLife = 1
    ReplayGrace = 0
    FamilyRetention = 1
    MaxTime = 4
    MaxVersion = 1
SYMMETRY Symmetry
INVARIANTS
    OpenFamilyOffersOneToken
    ConsumedOnce
    OpenFamilyMatchesAccount
    AbsoluteLifetime
    EvidenceOutlivesToken
    SessionInv
PROPERTIES
    AccessNeverRevived
    ReplayEndsFamily
    LogoutEndsFamily
    ImplementsPromise
CHECK_DEADLOCK FALSE
