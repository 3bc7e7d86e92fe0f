-------------------------- MODULE RefreshSessions --------------------------
(***************************************************************************)
(* The refresh-session lifecycle of backend/app/services/auth.py together  *)
(* with the account operations of services/users.py and the recycle bin    *)
(* that revoke sessions, and the retention job of session_cleanup.py.      *)
(*                                                                         *)
(* One action is one committed database transaction.  Every endpoint takes *)
(* the user row lock first and keeps it to its commit, so two of them on   *)
(* one account never overlap.  What is NOT under the lock is kept apart:   *)
(* the signature and expiry check of a token (decode_token) happens before *)
(* the lock is requested, so a request is first Decoded and only later,    *)
(* any number of transactions and clock ticks later, served.               *)
(***************************************************************************)
EXTENDS Integers

CONSTANTS
    Users,            \* account ids; never reused
    Families,         \* refresh_session_families.id (uuid4); never reused
    Jtis,             \* refresh token ids (uuid4); never reused
    Requests,         \* slots for in-flight /auth/refresh and /auth/logout calls
    None,             \* SQL NULL, an absent row, an empty slot
    RefreshLife,      \* REFRESH_TOKEN_EXPIRE_DAYS
    AbsoluteLife,     \* REFRESH_SESSION_ABSOLUTE_LIFETIME_DAYS
    AccessLife,       \* ACCESS_TOKEN_EXPIRE_MINUTES
    ReplayGrace,      \* REFRESH_SESSION_REPLAY_GRACE_DAYS
    FamilyRetention,  \* REFRESH_SESSION_HISTORY_RETENTION_DAYS
    MaxTime,          \* bound: the clock stops here
    MaxVersion        \* bound: account changes that bump token_version

\* core/config.py: every lifetime is positive, the grace may be zero, and
\* validate_security_settings demands AbsoluteLife >= RefreshLife.
ASSUME ConfigAssumption ==
    /\ RefreshLife \in Nat \ {0} /\ AbsoluteLife \in Nat \ {0}
    /\ AccessLife \in Nat \ {0}
    /\ RefreshLife =< AbsoluteLife
    /\ ReplayGrace \in Nat /\ FamilyRetention \in Nat
    /\ MaxTime \in Nat /\ MaxVersion \in Nat

VARIABLES
    users,      \* users table: id -> row or None (purged)
    families,   \* refresh_session_families table: id -> row or None
    sessions,   \* refresh_sessions table: jti -> row or None
    issued,     \* refresh JWTs ever signed: jti -> claims; outlives the rows
    access,     \* access JWTs ever signed
    requests,   \* in-flight calls whose token has passed decode_token
    now         \* the wall clock

vars == <<users, families, sessions, issued, access, requests, now>>

Reasons == {"refresh_replay", "expired", "user_invalidated", "rotated",
            "logout", "logout_mismatch", "user_security_change"}

\* revoked_at and revoked_reason are always written together, so one field
\* stands for both; None is an unrevoked row.  The reasons that the callers of
\* revoke_all_refresh_sessions pass (user_disabled, user_deleted, ...) are
\* "user_security_change" here: no code reads them apart.
UserRow    == [active : BOOLEAN, deleted : BOOLEAN, ver : Nat]
FamilyRow  == [owner : Users, ver : Nat, expires : Nat, absolute : Nat,
               revoked : Reasons \cup {None}]
SessionRow == [owner : Users, family : Families, ver : Nat, expires : Nat,
               revoked : Reasons \cup {None}, replacedBy : Jtis \cup {None}]

\* prev is history: the token whose rotation produced this one.
Claims     == [sub : Users, sid : Families, ver : Nat, exp : Nat,
               prev : Jtis \cup {None}]
AccessToken == [sub : Users, sid : Families, ver : Nat, exp : Nat]
Request    == [op : {"refresh", "logout"}, jti : Jtis]

\* An absent row or an empty slot is not a row.
ASSUME NoneAssumption ==
    /\ None \notin UserRow /\ None \notin FamilyRow /\ None \notin SessionRow
    /\ None \notin Claims /\ None \notin Request
    /\ None \notin Reasons /\ None \notin Jtis

TypeOK ==
    /\ users \in [Users -> UserRow \cup {None}]
    /\ families \in [Families -> FamilyRow \cup {None}]
    /\ sessions \in [Jtis -> SessionRow \cup {None}]
    /\ issued \in [Jtis -> Claims \cup {None}]
    /\ access \subseteq AccessToken
    /\ requests \in [Requests -> Request \cup {None}]
    /\ now \in Nat

Init ==
    /\ users = [u \in Users |-> [active |-> TRUE, deleted |-> FALSE, ver |-> 0]]
    /\ families = [f \in Families |-> None]
    /\ sessions = [j \in Jtis |-> None]
    /\ issued = [j \in Jtis |-> None]
    /\ access = {}
    /\ requests = [r \in Requests |-> None]
    /\ now = 0

-----------------------------------------------------------------------------
\* Helpers

Earlier(a, b) == IF a =< b THEN a ELSE b

UserUsable(u) == /\ users[u] # None
                 /\ ~users[u].deleted
                 /\ users[u].active

Fresh(j) == issued[j] = None
FreshFamily(f) == \A j \in Jtis : ~Fresh(j) => issued[j].sid # f

\* _revoke_locked_family: the first reason is kept.
RevokeFamily(f, reason) ==
    IF families[f].revoked = None
    THEN [families EXCEPT ![f].revoked = reason]
    ELSE families

\* mutant: the bulk UPDATE misses the families that rotated once
RevokeUnrotatedFamilies(u, reason) ==
    [f \in Families |->
        IF /\ families[f] # None
           /\ families[f].owner = u
           /\ families[f].revoked = None
           /\ \A j \in Jtis : sessions[j] # None /\ sessions[j].family = f
                    => sessions[j].revoked = None
        THEN [families[f] EXCEPT !.revoked = reason]
        ELSE families[f]]

\* The bulk UPDATE of revoke_all_refresh_sessions.
RevokeAllFamilies(u, reason) ==
    [f \in Families |->
        IF /\ families[f] # None
           /\ families[f].owner = u
           /\ families[f].revoked = None
        THEN [families[f] EXCEPT !.revoked = reason]
        ELSE families[f]]

\* mutant: not_after is forgotten
UncappedExpiry(notAfter) == now + RefreshLife

\* issue_refresh_token: the expiry is capped by not_after.
RefreshExpiry(notAfter) == Earlier(now + RefreshLife, notAfter)

\* mutant: an access token that is not bound to a session
UnboundAccess(u, f) ==
    [sub |-> u, sid |-> None, ver |-> users[u].ver, exp |-> now + AccessLife]

SignAccess(u, f) ==
    [sub |-> u, sid |-> f, ver |-> users[u].ver, exp |-> now + AccessLife]

FamilyMatches(c) ==
    /\ families[c.sid].owner = c.sub
    /\ families[c.sid].ver = c.ver

SessionMatches(j) ==
    /\ sessions[j].owner = issued[j].sub
    /\ sessions[j].family = issued[j].sid
    /\ sessions[j].ver = issued[j].ver

\* revoke_refresh_session compares less: the version of the session row and
\* whether the token was already consumed are not asked.
LogoutMatches(j) ==
    /\ sessions[j] # None
    /\ sessions[j].owner = issued[j].sub
    /\ sessions[j].family = issued[j].sid
    /\ FamilyMatches(issued[j])

FamilyLapsed(f) == families[f].expires =< now \/ families[f].absolute =< now

\* mutant: revoked_at of the session row is not looked at
FaultIgnoringConsumption(j) ==
    LET c == issued[j] IN
    IF families[c.sid].revoked # None \/ ~FamilyMatches(c) THEN "refresh_replay"
    ELSE IF FamilyLapsed(c.sid) THEN "expired"
    ELSE IF sessions[j] = None \/ ~SessionMatches(j) THEN "refresh_replay"
    ELSE IF sessions[j].expires =< now THEN "expired"
    ELSE IF ~UserUsable(c.sub) \/ users[c.sub].ver # c.ver THEN "user_invalidated"
    ELSE None

\* Why rotate_refresh_session refuses token j once it holds the user and the
\* family row: the first check that fails, in the order of the code, or None.
RefreshFault(j) ==
    LET c == issued[j] IN
    IF families[c.sid].revoked # None \/ ~FamilyMatches(c)
    THEN "refresh_replay"
    ELSE IF FamilyLapsed(c.sid)
    THEN "expired"
    ELSE IF sessions[j] = None \/ sessions[j].revoked # None \/ ~SessionMatches(j)
    THEN "refresh_replay"
    ELSE IF sessions[j].expires =< now
    THEN "expired"
    ELSE IF ~UserUsable(c.sub) \/ users[c.sub].ver # c.ver
    THEN "user_invalidated"
    ELSE None

\* The rows a transaction finds missing end it with a rollback.
RowsFound(j) == users[issued[j].sub] # None /\ families[issued[j].sid] # None

-----------------------------------------------------------------------------
\* Sessions

\* login: authenticate_user locks the account and holds the lock through
\* create_login_session to the commit.
Login(u, f, j) ==
    LET absolute == now + AbsoluteLife
        expires  == RefreshExpiry(absolute)
        ver      == users[u].ver
    IN
    /\ UserUsable(u) /\ FreshFamily(f) /\ Fresh(j)
    /\ families' = [families EXCEPT ![f] =
            [owner |-> u, ver |-> ver, expires |-> expires,
             absolute |-> absolute, revoked |-> None]]
    /\ sessions' = [sessions EXCEPT ![j] =
            [owner |-> u, family |-> f, ver |-> ver, expires |-> expires,
             revoked |-> None, replacedBy |-> None]]
    /\ issued' = [issued EXCEPT ![j] =
            [sub |-> u, sid |-> f, ver |-> ver, exp |-> expires, prev |-> None]]
    /\ access' = access \cup {SignAccess(u, f)}
    /\ UNCHANGED <<users, requests, now>>

\* /auth/refresh and /auth/logout: decode_token checks the expiry of a signed
\* token without touching the database.
Decode(r, op, j) ==
    /\ requests[r] = None
    /\ ~Fresh(j) /\ issued[j].exp > now
    /\ requests' = [requests EXCEPT ![r] = [op |-> op, jti |-> j]]
    /\ UNCHANGED <<users, families, sessions, issued, access, now>>

Done(r) == requests' = [requests EXCEPT ![r] = None]

\* A disconnect, a lost connection or a restart: get_db rolls back.
Abandon(r) ==
    /\ requests[r] # None
    /\ Done(r)
    /\ UNCHANGED <<users, families, sessions, issued, access, now>>

\* RefreshTokenError: the account or the family is gone; nothing is written.
RefreshUnknown(r) ==
    /\ requests[r] # None /\ requests[r].op = "refresh"
    /\ ~RowsFound(requests[r].jti)
    /\ Done(r)
    /\ UNCHANGED <<users, families, sessions, issued, access, now>>

\* mutant: the refusal is rolled back like any other error
RefusedWithRollback(r) ==
    /\ requests[r] # None /\ requests[r].op = "refresh"
    /\ RowsFound(requests[r].jti) /\ RefreshFault(requests[r].jti) # None
    /\ Done(r)
    /\ UNCHANGED <<users, families, sessions, issued, access, now>>

\* RefreshSessionCompromisedError: the endpoint commits the revocation.  Only
\* the expiry check of the token itself also closes the session row.
RefreshRefused(r) ==
    /\ requests[r] # None /\ requests[r].op = "refresh"
    /\ LET j == requests[r].jti
           f == issued[j].sid
       IN /\ RowsFound(j)
          /\ RefreshFault(j) # None
          /\ families' = RevokeFamily(f, RefreshFault(j))
          /\ sessions' = IF RefreshFault(j) = "expired" /\ ~FamilyLapsed(f)
                         THEN [sessions EXCEPT ![j].revoked = "expired"]
                         ELSE sessions
    /\ Done(r)
    /\ UNCHANGED <<users, issued, access, now>>

\* mutant: the consumed row is linked to its successor but not revoked
RotatedWithoutConsuming(r, k) ==
    /\ requests[r] # None /\ requests[r].op = "refresh" /\ Fresh(k)
    /\ LET j == requests[r].jti
           c == issued[j]
           expires == RefreshExpiry(families[c.sid].absolute)
       IN /\ RowsFound(j) /\ RefreshFault(j) = None
          /\ families' = [families EXCEPT ![c.sid].expires = expires]
          /\ sessions' = [sessions EXCEPT
                ![j].replacedBy = k,
                ![k] = [sessions[j] EXCEPT !.expires = expires]]
          /\ issued' = [issued EXCEPT ![k] = [c EXCEPT !.exp = expires, !.prev = j]]
          /\ access' = access \cup {SignAccess(c.sub, c.sid)}
    /\ Done(r)
    /\ UNCHANGED <<users, now>>

\* The token is consumed and k, the next generation, is signed.
RefreshRotated(r, k) ==
    /\ requests[r] # None /\ requests[r].op = "refresh"
    /\ Fresh(k)
    /\ LET j == requests[r].jti
           c == issued[j]
           expires == RefreshExpiry(families[c.sid].absolute)
           ver == users[c.sub].ver
       IN /\ RowsFound(j)
          /\ RefreshFault(j) = None
          /\ families' = [families EXCEPT ![c.sid].expires = expires]
          /\ sessions' = [sessions EXCEPT
                ![j].revoked = "rotated",
                ![j].replacedBy = k,
                ![k] = [owner |-> c.sub, family |-> c.sid, ver |-> ver,
                        expires |-> expires, revoked |-> None,
                        replacedBy |-> None]]
          /\ issued' = [issued EXCEPT ![k] =
                [sub |-> c.sub, sid |-> c.sid, ver |-> ver, exp |-> expires,
                 prev |-> j]]
          /\ access' = access \cup {SignAccess(c.sub, c.sid)}
    /\ Done(r)
    /\ UNCHANGED <<users, now>>

\* mutant: a consumed token counts as nothing to revoke
IgnoredWhenConsumed(r) ==
    /\ requests[r] # None /\ requests[r].op = "logout"
    /\ LET j == requests[r].jti IN
       RowsFound(j) /\ sessions[j] # None => sessions[j].revoked # None
    /\ Done(r)
    /\ UNCHANGED <<users, families, sessions, issued, access, now>>

\* revoke_refresh_session returns None: nothing to revoke.
LogoutIgnored(r) ==
    /\ requests[r] # None /\ requests[r].op = "logout"
    /\ RowsFound(requests[r].jti) =>
            families[issued[requests[r].jti].sid].revoked # None
    /\ Done(r)
    /\ UNCHANGED <<users, families, sessions, issued, access, now>>

\* mutant: logout revokes the token instead of its family
LogoutOfTokenOnly(r) ==
    /\ requests[r] # None /\ requests[r].op = "logout"
    /\ LET j == requests[r].jti IN
       /\ RowsFound(j) /\ sessions[j] # None
       /\ sessions' = [sessions EXCEPT ![j].revoked = "logout"]
    /\ Done(r)
    /\ UNCHANGED <<users, families, issued, access, now>>

\* Logging out does not ask whether the token was already consumed: a tab that
\* logs out with a stale cookie still ends the family.
LogoutServed(r) ==
    /\ requests[r] # None /\ requests[r].op = "logout"
    /\ LET j == requests[r].jti
           f == issued[j].sid
       IN /\ RowsFound(j)
          /\ families[f].revoked = None
          /\ families' = RevokeFamily(f,
                IF LogoutMatches(j) THEN "logout" ELSE "logout_mismatch")
    /\ Done(r)
    /\ UNCHANGED <<users, sessions, issued, access, now>>

-----------------------------------------------------------------------------
\* Account changes
\*
\* Who may make them, and the guard that keeps the last superuser, decide
\* whether the endpoint gets this far; they read no session.

\* revoke_all_refresh_sessions: bump the version, revoke every family.  It is
\* the only writer of token_version.
RevokeAll(u, row) ==
    /\ row.ver < MaxVersion
    /\ users' = [users EXCEPT ![u] = [row EXCEPT !.ver = @ + 1]]
    /\ families' = RevokeAllFamilies(u, "user_security_change")

\* mutant: disabling only sets the flag
DisabledByFlag(u) ==
    /\ users[u] # None /\ ~users[u].deleted
    /\ users' = [users EXCEPT ![u].active = FALSE]
    /\ UNCHANGED <<families, sessions, issued, access, requests, now>>

\* update_user with is_active = False, on an account in any state of activity.
DisableUser(u) ==
    /\ users[u] # None /\ ~users[u].deleted
    /\ RevokeAll(u, [users[u] EXCEPT !.active = FALSE])
    /\ UNCHANGED <<sessions, issued, access, requests, now>>

\* update_user with is_active = True revokes nothing.
EnableUser(u) ==
    /\ users[u] # None /\ ~users[u].deleted
    /\ users' = [users EXCEPT ![u].active = TRUE]
    /\ UNCHANGED <<families, sessions, issued, access, requests, now>>

\* delete_user: soft deletion.
DeleteUser(u) ==
    /\ users[u] # None /\ ~users[u].deleted
    /\ RevokeAll(u, [users[u] EXCEPT !.deleted = TRUE])
    /\ UNCHANGED <<sessions, issued, access, requests, now>>

\* change_password with the endpoint that calls it, and reset_password.
ReplacePassword(u) ==
    /\ users[u] # None /\ ~users[u].deleted
    /\ RevokeAll(u, users[u])
    /\ UNCHANGED <<sessions, issued, access, requests, now>>

\* Recycle bin: restore touches is_deleted only.
RestoreUser(u) ==
    /\ users[u] # None /\ users[u].deleted
    /\ users' = [users EXCEPT ![u].deleted = FALSE]
    /\ UNCHANGED <<families, sessions, issued, access, requests, now>>

\* Recycle bin: hard_delete; the foreign keys cascade to families and sessions.
PurgeUser(u) ==
    /\ users[u] # None /\ users[u].deleted
    /\ users' = [users EXCEPT ![u] = None]
    /\ families' = [f \in Families |->
            IF families[f] # None /\ families[f].owner = u THEN None ELSE families[f]]
    /\ sessions' = [j \in Jtis |->
            IF sessions[j] # None /\ sessions[j].owner = u THEN None ELSE sessions[j]]
    /\ UNCHANGED <<issued, access, requests, now>>

-----------------------------------------------------------------------------
\* The retention job and the clock

\* mutant: consumed rows are garbage
ExpiredOrConsumed ==
    {j \in Jtis : sessions[j] # None /\
        (sessions[j].revoked # None \/ sessions[j].expires < now - ReplayGrace)}

ExpiredSessions ==
    {j \in Jtis : sessions[j] # None /\ sessions[j].expires < now - ReplayGrace}

ExpiredFamilies ==
    {f \in Families : families[f] # None /\ families[f].expires < now - FamilyRetention}

\* purge_expired_refresh_history.  The batch limit and SKIP LOCKED let one call
\* take any part of what has expired; deleting a family cascades to its rows.
Cleanup(S, F) ==
    /\ S \subseteq ExpiredSessions /\ F \subseteq ExpiredFamilies
    /\ S # {} \/ F # {}
    /\ families' = [f \in Families |-> IF f \in F THEN None ELSE families[f]]
    /\ sessions' = [j \in Jtis |->
            IF j \in S \/ (sessions[j] # None /\ sessions[j].family \in F)
            THEN None ELSE sessions[j]]
    /\ UNCHANGED <<users, issued, access, requests, now>>

Tick ==
    /\ now < MaxTime
    /\ now' = now + 1
    /\ UNCHANGED <<users, families, sessions, issued, access, requests>>

Next ==
    \/ \E u \in Users, f \in Families, j \in Jtis : Login(u, f, j)
    \/ \E r \in Requests, op \in {"refresh", "logout"}, j \in Jtis : Decode(r, op, j)
    \/ \E r \in Requests : Abandon(r)
    \/ \E r \in Requests : RefreshUnknown(r)
    \/ \E r \in Requests : RefreshRefused(r)
    \/ \E r \in Requests, k \in Jtis : RefreshRotated(r, k)
    \/ \E r \in Requests : LogoutIgnored(r)
    \/ \E r \in Requests : LogoutServed(r)
    \/ \E u \in Users : DisableUser(u)
    \/ \E u \in Users : EnableUser(u)
    \/ \E u \in Users : DeleteUser(u)
    \/ \E u \in Users : ReplacePassword(u)
    \/ \E u \in Users : RestoreUser(u)
    \/ \E u \in Users : PurgeUser(u)
    \/ \E S \in SUBSET Jtis, F \in SUBSET Families : Cleanup(S, F)
    \/ Tick

Spec == Init /\ [][Next]_vars

-----------------------------------------------------------------------------
\* What the tables mean to a client

\* The rotation of token j would succeed now.
Usable(j) ==
    /\ ~Fresh(j) /\ issued[j].exp > now
    /\ RowsFound(j)
    /\ RefreshFault(j) = None

\* decode_token and the query of get_active_session_user accept a now.
Accepted(a) ==
    /\ a.exp > now
    /\ UserUsable(a.sub) /\ users[a.sub].ver = a.ver
    /\ families[a.sid] # None
    /\ FamilyMatches(a)
    /\ families[a.sid].revoked = None
    /\ families[a.sid].expires > now

\* The refresh tokens family f would rotate now.
Offer(f) == {j \in Jtis : Usable(j) /\ issued[j].sid = f}

Open(f) ==
    families[f] # None /\ families[f].revoked = None /\ families[f].expires > now

Alive(f) ==
    \/ Offer(f) # {}
    \/ \E a \in access : Accepted(a) /\ a.sid = f

Consumed(j) == \E k \in Jtis : ~Fresh(k) /\ issued[k].prev = j

-----------------------------------------------------------------------------
\* Properties

\* An open family offers exactly one refresh token, and that is the one issued
\* last: rotations never leave two behind, and neither revocations nor the
\* retention job lock out the holder of the newest one.
OpenFamilyOffersOneToken ==
    \A f \in Families : Open(f) => \E j \in Jtis : Offer(f) = {j} /\ ~Consumed(j)

\* A refresh token is consumed at most once, even by calls that passed
\* decode_token together: no two tokens descend from the same one.
ConsumedOnce ==
    \A j, k \in Jtis :
        /\ ~Fresh(j) /\ ~Fresh(k)
        /\ issued[j].prev # None
        /\ issued[j].prev = issued[k].prev
        => j = k

\* Disabling, deleting or a new password leaves no family open: an unrevoked
\* family belongs to an active, undeleted account and carries its current
\* token_version.  The "user_invalidated" branch is a second line of defence.
OpenFamilyMatchesAccount ==
    \A f \in Families :
        families[f] # None /\ families[f].revoked = None =>
            /\ UserUsable(families[f].owner)
            /\ families[f].ver = users[families[f].owner].ver

\* Rotation cannot push a session past the absolute lifetime fixed at login,
\* neither for the refresh tokens nor for the access tokens issued with them.
AbsoluteLifetime ==
    /\ \A j \in Jtis : Usable(j) =>
            /\ issued[j].exp =< families[issued[j].sid].absolute
            /\ now < families[issued[j].sid].absolute
    /\ \A a \in access : Accepted(a) => now < families[a.sid].absolute

\* The retention job never removes what replay detection needs: while a token
\* still passes decode_token, its session and family rows exist (or the whole
\* account was purged).
EvidenceOutlivesToken ==
    \A j \in Jtis :
        ~Fresh(j) /\ issued[j].exp > now /\ users[issued[j].sub] # None =>
            sessions[j] # None /\ families[issued[j].sid] # None

\* The tables agree with one another and with the tokens in circulation, in
\* every state between two transactions.  Inductive; the invariants above and
\* the action properties below follow from it.

\* The foreign key to the account, and the two caps on a family's expiry.
FamiliesSound ==
    \A f \in Families : families[f] # None =>
        /\ users[families[f].owner] # None
        /\ ~FreshFamily(f)
        /\ families[f].expires =< families[f].absolute
        /\ families[f].expires =< now + RefreshLife

\* The foreign key to the family; a row says what its token says.
RowsMatchTokens ==
    \A j \in Jtis : sessions[j] # None =>
        /\ ~Fresh(j)
        /\ families[sessions[j].family] # None
        /\ SessionMatches(j)
        /\ sessions[j].expires = issued[j].exp

TokensMatchFamily ==
    \A j \in Jtis : ~Fresh(j) /\ families[issued[j].sid] # None =>
        /\ FamilyMatches(issued[j])
        /\ issued[j].exp =< families[issued[j].sid].expires

\* A token with a successor is of the same family, and its row, while the
\* retention job leaves it, is revoked.
Lineage ==
    \A k \in Jtis : ~Fresh(k) /\ issued[k].prev # None =>
        LET p == issued[k].prev IN
        /\ ~Fresh(p) /\ issued[p].sid = issued[k].sid
        /\ sessions[p] # None => sessions[p].revoked # None

Unconsumed(j, f) ==
    sessions[j] # None /\ sessions[j].family = f /\ sessions[j].revoked = None

\* The unconsumed row of an unrevoked family is unique, ends with the family,
\* and is there until the family ends.
NewestRow ==
    \A f \in Families : families[f] # None /\ families[f].revoked = None =>
        /\ \A j \in Jtis : Unconsumed(j, f) => sessions[j].expires = families[f].expires
        /\ \A j, k \in Jtis : Unconsumed(j, f) /\ Unconsumed(k, f) => j = k
        /\ families[f].expires > now => \E j \in Jtis : Unconsumed(j, f)

AccessOfKnownFamily == \A a \in access : ~FreshFamily(a.sid)

RequestsDecoded ==
    \A r \in Requests : requests[r] # None => ~Fresh(requests[r].jti)

SessionInv ==
    /\ TypeOK
    /\ FamiliesSound
    /\ RowsMatchTokens
    /\ TokensMatchFamily
    /\ OpenFamilyMatchesAccount
    /\ Lineage
    /\ ConsumedOnce
    /\ NewestRow
    /\ EvidenceOutlivesToken
    /\ AccessOfKnownFamily
    /\ RequestsDecoded

\* An access token that stopped being accepted is never accepted again: not
\* by re-enabling or restoring the account, nor by a later rotation.
AccessNeverRevived ==
    [][\A a \in access : ~Accepted(a) => ~Accepted(a)']_vars

\* Serving a replayed token ends its family at once: no refresh token and no
\* access token of the family survives (docs/ARCHITECTURE.md, C3).
ReplayEndsFamily ==
    [][\A r \in Requests, f \in Families :
        /\ requests[r] # None /\ Consumed(requests[r].jti)
        /\ issued[requests[r].jti].sid = f
        /\ \/ RefreshUnknown(r)
           \/ RefreshRefused(r)
           \/ \E k \in Jtis : RefreshRotated(r, k)
        => ~Alive(f)']_vars

\* After a logout call was answered, no token of that family works, even when
\* the cookie it carried had been rotated meanwhile by another tab.
LogoutEndsFamily ==
    [][\A r \in Requests, f \in Families :
        /\ requests[r] # None /\ issued[requests[r].jti].sid = f
        /\ LogoutServed(r) \/ LogoutIgnored(r)
        => ~Alive(f)']_vars

\* The promise to the holder of a session, implemented by the tables.
Promise == INSTANCE SessionPromise WITH
    Sessions <- Families,
    Tokens   <- Jtis,
    begun    <- {f \in Families : ~FreshFamily(f)},
    signed   <- {j \in Jtis : ~Fresh(j)},
    offer    <- [f \in Families |-> Offer(f)]

\* Every transaction, clock tick and clean-up either begins a session, exchanges
\* its one token, ends sessions, or changes nothing a holder can see.
ImplementsPromise == Promise!PromiseSpec
=============================================================================
