\* Two accounts, three addresses, two calls at once, two new hashes in all.
SPECIFICATION Spec
CONSTANTS
    None = None
    Users = {u1, u2}
    Idents = {e1, e2, e3}
    Passwords = {p1, p2}
    Prefix <- MCPrefix
    Tx = {t1, t2}
    LegacyBcrypt = TRUE
    MaxHashes = 2
SYMMETRY Symmetry
INVARIANTS
    OpenedWithStoredPassword
    CredentialsInv
PROPERTIES
    ResetSticks
    ImplementsVault
