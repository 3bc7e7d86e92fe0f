---------------------------- MODULE Credentials ----------------------------
(***************************************************************************)
(* Password checks against a hash that may change meanwhile: login,        *)
(* change_password and reset_password run the key derivation without a     *)
(* transaction, then lock the account and decide again.                    *)
(*                                                                         *)
(* A call is read and later served; everything else may happen between.    *)
(* What is done under the row lock up to the commit is one action.  The    *)
(* key derivation itself reads and writes nothing shared.                  *)
(***************************************************************************)
EXTENDS Integers

CONSTANTS
    Users, Idents,     \* accounts; the e-mail addresses a login may name
    Passwords,
    Prefix,            \* password -> its first 72 bytes
    Tx,                \* slots for calls in progress
    None,
    LegacyBcrypt,      \* LEGACY_BCRYPT_ENABLED
    MaxHashes          \* bound: new hashes two accounts are given together

\* outdated: Argon2id with parameters that have changed since.
Algorithms == {"bcrypt", "outdated", "argon2"}

\* owner and n stand for the salt: two hashes are the same text only if all
\* fields agree.
Hash    == [pw : Passwords, alg : Algorithms, owner : Users, n : Nat]
Account == [hash : Hash, ident : Idents, active : BOOLEAN, deleted : BOOLEAN]
Session == [user : Users, pw : Passwords]

\* seen: the hash that was read without a lock and that the password was
\* found valid for; None otherwise.
Login  == [op : {"login"}, ident : Idents, pw : Passwords, seen : Hash \cup {None}]
Change == [op : {"change"}, read : BOOLEAN, user : Users, pw : Passwords,
           new : Passwords, seen : Hash \cup {None}]
Reset  == [op : {"reset"}, user : Users, new : Passwords]
Call   == Login \cup Change \cup Reset

ASSUME CredentialsAssumption ==
    /\ LegacyBcrypt \in BOOLEAN /\ MaxHashes \in Nat
    /\ None \notin Hash /\ None \notin Call

VARIABLES
    rows,   \* users table
    open,   \* sessions not revoked, with the password that opened each
    tx      \* calls in progress

vars == <<rows, open, tx>>

TypeOK ==
    /\ rows \in [Users -> Account]
    /\ open \subseteq Session
    /\ tx \in [Tx -> Call \cup {None}]

\* Hashes of any age and algorithm; nobody is logged in.
Init ==
    /\ rows \in [Users -> [hash : [pw : Passwords, alg : Algorithms, owner : Users, n : {0}],
                           ident : Idents, active : {TRUE}, deleted : {FALSE}]]
    /\ \A u \in Users : rows[u].hash.owner = u
    /\ \A u, v \in Users : rows[u].ident = rows[v].ident => u = v
    /\ open = {}
    /\ tx = [t \in Tx |-> None]

-----------------------------------------------------------------------------
\* bcrypt used to look at 72 bytes only, and is asked to do so once more.
Verifies(pw, hash) ==
    IF hash.alg = "bcrypt"
    THEN LegacyBcrypt /\ Prefix[pw] = Prefix[hash.pw]
    ELSE pw = hash.pw

\* The hash that replaces hash: Argon2id, of pw, with a salt of its own.
NewHash(pw, hash) ==
    [pw |-> pw, alg |-> "argon2", owner |-> hash.owner, n |-> hash.n + 1]

\* verify_and_update_password: a valid password replaces an outdated hash.
Upgraded(pw, hash) == IF hash.alg = "argon2" THEN hash ELSE NewHash(pw, hash)

\* mutant: the check made before the lock is trusted
ConfirmedBefore(pw, seen, hash) == seen # None

\* Valid for the hash that was read and, if the locked row has another one, for
\* that one too.
Confirmed(pw, seen, hash) == seen # None /\ (hash # seen => Verifies(pw, hash))

\* What the check before the lock leaves behind.
Checked(pw, usable, hash) == IF usable /\ Verifies(pw, hash) THEN hash ELSE None

HashesLeft(u) ==
    \A v \in Users : rows[v].hash.n + (IF u = v THEN 0 ELSE rows[u].hash.n) < MaxHashes

SessionsOf(u) == {s \in open : s.user = u}

Finish(t) == tx' = [tx EXCEPT ![t] = None]
Start(t, call) == tx[t] = None /\ tx' = [tx EXCEPT ![t] = call]

\* The account a login names now.
Named(ident, u) == rows[u].ident = ident /\ ~rows[u].deleted

-----------------------------------------------------------------------------
\* authenticate_user reads the candidate and gives the connection back.
LoginRead(t, ident, pw) ==
    /\ \/ \E u \in Users :
            /\ Named(ident, u)
            /\ Start(t, [op |-> "login", ident |-> ident, pw |-> pw,
                         seen |-> Checked(pw, rows[u].active, rows[u].hash)])
       \/ /\ \A u \in Users : ~Named(ident, u)
          /\ Start(t, [op |-> "login", ident |-> ident, pw |-> pw, seen |-> None])
    /\ UNCHANGED <<rows, open>>

\* The second look under the lock is by the same address, which may have
\* passed to another account.
Admitted(t, u) ==
    /\ Named(tx[t].ident, u) /\ rows[u].active
    /\ Confirmed(tx[t].pw, tx[t].seen, rows[u].hash)

\* The upgrade, create_login_session and the commit.
LoginServed(t, u) ==
    /\ tx[t] # None /\ tx[t].op = "login" /\ Admitted(t, u)
    /\ rows[u].hash.alg # "argon2" => HashesLeft(u)
    /\ rows' = [rows EXCEPT ![u].hash = Upgraded(tx[t].pw, @)]
    /\ open' = open \cup {[user |-> u, pw |-> tx[t].pw]}
    /\ Finish(t)

LoginRefused(t) ==
    /\ tx[t] # None /\ tx[t].op = "login"
    /\ \A u \in Users : ~Admitted(t, u)
    /\ Finish(t)
    /\ UNCHANGED <<rows, open>>

\* get_current_user; the schema wants a new password that differs.
ChangeBegun(t, u, old, new) ==
    /\ SessionsOf(u) # {} /\ old # new
    /\ Start(t, [op |-> "change", read |-> FALSE, user |-> u,
                 pw |-> old, new |-> new, seen |-> None])
    /\ UNCHANGED <<rows, open>>

ChangeRead(t) ==
    /\ tx[t] # None /\ tx[t].op = "change" /\ ~tx[t].read
    /\ LET row == rows[tx[t].user] IN
       tx' = [tx EXCEPT ![t].read = TRUE,
                        ![t].seen = Checked(tx[t].pw, ~row.deleted, row.hash)]
    /\ UNCHANGED <<rows, open>>

Allowed(t) ==
    LET row == rows[tx[t].user] IN
    ~row.deleted /\ Confirmed(tx[t].pw, tx[t].seen, row.hash)

\* mutant: the sessions are left alone
ReplaceHashOnly(u, new) ==
    /\ HashesLeft(u)
    /\ rows' = [rows EXCEPT ![u].hash = NewHash(new, @)]
    /\ UNCHANGED open

\* A new hash and revoke_all_refresh_sessions, in one commit.
Replace(u, new) ==
    /\ HashesLeft(u)
    /\ rows' = [rows EXCEPT ![u].hash = NewHash(new, @)]
    /\ open' = open \ SessionsOf(u)

ChangeServed(t) ==
    /\ tx[t] # None /\ tx[t].op = "change" /\ tx[t].read
    /\ Allowed(t)
    /\ Replace(tx[t].user, tx[t].new)
    /\ Finish(t)

ChangeRefused(t) ==
    /\ tx[t] # None /\ tx[t].op = "change" /\ tx[t].read
    /\ ~Allowed(t)
    /\ Finish(t)
    /\ UNCHANGED <<rows, open>>

\* reset_password does not ask for the old one.
ResetBegun(t, u, new) ==
    /\ ~rows[u].deleted
    /\ Start(t, [op |-> "reset", user |-> u, new |-> new])
    /\ UNCHANGED <<rows, open>>

ResetServed(t) ==
    /\ tx[t] # None /\ tx[t].op = "reset" /\ ~rows[tx[t].user].deleted
    /\ Replace(tx[t].user, tx[t].new)
    /\ Finish(t)

ResetRefused(t) ==
    /\ tx[t] # None /\ tx[t].op = "reset" /\ rows[tx[t].user].deleted
    /\ Finish(t)
    /\ UNCHANGED <<rows, open>>

\* A disconnect, a restart, or PasswordHashOverloadedError.
Abandon(t) ==
    /\ tx[t] # None
    /\ Finish(t)
    /\ UNCHANGED <<rows, open>>

-----------------------------------------------------------------------------
\* The rest of the account's life, a transaction each.

\* mutant: only the flag is set
SwitchedOffByFlag(u) ==
    /\ ~rows[u].deleted
    /\ rows' = [rows EXCEPT ![u].active = FALSE]
    /\ UNCHANGED <<open, tx>>

\* update_user and delete_user revoke all sessions.
Disable(u) ==
    /\ ~rows[u].deleted
    /\ rows' = [rows EXCEPT ![u].active = FALSE]
    /\ open' = open \ SessionsOf(u)
    /\ UNCHANGED tx

Delete(u) ==
    /\ ~rows[u].deleted
    /\ rows' = [rows EXCEPT ![u].deleted = TRUE]
    /\ open' = open \ SessionsOf(u)
    /\ UNCHANGED tx

Enable(u) ==
    /\ ~rows[u].deleted
    /\ rows' = [rows EXCEPT ![u].active = TRUE]
    /\ UNCHANGED <<open, tx>>

Restore(u) ==
    /\ rows[u].deleted
    /\ rows' = [rows EXCEPT ![u].deleted = FALSE]
    /\ UNCHANGED <<open, tx>>

\* update_profile and update_user: the address must be free, among deleted
\* accounts too.
MoveIdent(u, ident) ==
    /\ ~rows[u].deleted
    /\ \A v \in Users : rows[v].ident # ident
    /\ rows' = [rows EXCEPT ![u].ident = ident]
    /\ UNCHANGED <<open, tx>>

\* Logout, replay, expiry.
SessionEnds(s) ==
    /\ s \in open
    /\ open' = open \ {s}
    /\ UNCHANGED <<rows, tx>>

Next ==
    \/ \E t \in Tx, ident \in Idents, pw \in Passwords : LoginRead(t, ident, pw)
    \/ \E t \in Tx, u \in Users : LoginServed(t, u)
    \/ \E t \in Tx : LoginRefused(t)
    \/ \E t \in Tx, u \in Users, old, new \in Passwords : ChangeBegun(t, u, old, new)
    \/ \E t \in Tx : ChangeRead(t)
    \/ \E t \in Tx : ChangeServed(t)
    \/ \E t \in Tx : ChangeRefused(t)
    \/ \E t \in Tx, u \in Users, new \in Passwords : ResetBegun(t, u, new)
    \/ \E t \in Tx : ResetServed(t)
    \/ \E t \in Tx : ResetRefused(t)
    \/ \E t \in Tx : Abandon(t)
    \/ \E u \in Users : Disable(u)
    \/ \E u \in Users : Delete(u)
    \/ \E u \in Users : Enable(u)
    \/ \E u \in Users : Restore(u)
    \/ \E u \in Users, ident \in Idents : MoveIdent(u, ident)
    \/ \E s \in open : SessionEnds(s)

Spec == Init /\ [][Next]_vars

-----------------------------------------------------------------------------
\* Whoever is logged in gave the password that is stored now, to an account that
\* is usable now: a login that verified an old hash, or that was admitted while
\* the account was being disabled, leaves no session behind.
OpenedWithStoredPassword ==
    \A s \in open :
        /\ rows[s.user].hash.pw = s.pw /\ rows[s.user].hash.alg = "argon2"
        /\ rows[s.user].active /\ ~rows[s.user].deleted

\* Each account has the hash made for it, and one address.
HashesOwned == \A u \in Users : rows[u].hash.owner = u
IdentsUnique == \A u, v \in Users : rows[u].ident = rows[v].ident => u = v

\* A hash is only remembered with a password it was found valid for.
SeenChecked ==
    \A t \in Tx :
        (tx[t] # None /\ tx[t].op # "reset" /\ tx[t].seen # None)
            => Verifies(tx[t].pw, tx[t].seen)

CredentialsInv ==
    /\ TypeOK
    /\ SeenChecked
    /\ HashesOwned
    /\ IdentsUnique
    /\ OpenedWithStoredPassword

\* A change is only made for the holder of the password it replaces: an
\* administrator's reset is not overwritten by a change that was verified
\* before it.
ResetSticks ==
    [][\A t \in Tx : ChangeServed(t) =>
            Verifies(tx[t].pw, rows[tx[t].user].hash)]_vars

\* As if every call were decided in the instant of its commit.
Vault == INSTANCE PasswordVault WITH
    accepted <- [u \in Users |-> {p \in Passwords : Verifies(p, rows[u].hash)}]

ImplementsVault == Vault!VaultSpec
=============================================================================
