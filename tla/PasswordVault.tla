--------------------------- MODULE PasswordVault ---------------------------
(***************************************************************************)
(* What the password checks promise, with no hashes, locks or calls in     *)
(* progress: every account accepts some passwords, a session is opened by  *)
(* one of them, and replacing the password closes every session of the     *)
(* account.  Credentials implements it.                                    *)
(***************************************************************************)
CONSTANTS Users, Passwords

VARIABLES
    accepted,  \* account -> the passwords it accepts
    open       \* sessions, with the password that opened each

vaultVars == <<accepted, open>>

VaultInit ==
    /\ accepted \in [Users -> SUBSET Passwords]
    /\ open = {}

\* From then on the account accepts that password only: a hash that accepted
\* more is replaced at the first login.
Open(u, p) ==
    /\ p \in accepted[u]
    /\ accepted' = [accepted EXCEPT ![u] = {p}]
    /\ open' = open \cup {[user |-> u, pw |-> p]}

Replace(u, p) ==
    /\ accepted' = [accepted EXCEPT ![u] = {p}]
    /\ open' = {s \in open : s.user # u}

\* Logout, expiry, replay, a disabled or deleted account.
Close(S) ==
    /\ open' = open \ S
    /\ UNCHANGED accepted

VaultNext ==
    \/ \E u \in Users, p \in Passwords : Open(u, p) \/ Replace(u, p)
    \/ \E S \in SUBSET open : Close(S)

VaultSpec == VaultInit /\ [][VaultNext]_vaultVars
=============================================================================
