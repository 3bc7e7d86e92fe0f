\* Two users, two roles, one permission, in any state; two calls, at once or one
\* after the other.  It ends when the calls are used up.
SPECIFICATION Spec
CONSTANTS
    Users = {u1, u2}
    Roles = {r1, r2}
    Permissions = {p}
    Tx = {t1, t2}
    MaxCalls = 2
    None = None
INVARIANTS
    RbacInv
PROPERTIES
    GrantedWasHeld
CONSTRAINT
    FewHidden
SYMMETRY Symmetry
CHECK_DEADLOCK FALSE
