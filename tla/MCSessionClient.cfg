SPECIFICATION Spec
CONSTANTS
    Tabs = {t1, t2}
    Calls = {c1}
    Me = me
    MaxTokens = 3
    MaxStrays = 0
    LockSupport = {TRUE}
    None = None
INVARIANTS
    NoCallStranded SelfReplayNeedsLoss RedirectNeedsCause ProfileMatchesToken
SYMMETRY Symmetry
CONSTRAINT FewMishaps
