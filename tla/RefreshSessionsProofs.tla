------------------------ MODULE RefreshSessionsProofs ------------------------
EXTENDS RefreshSessions, TLAPS

USE ConfigAssumption, NoneAssumption

LEMMA NoFault ==
  ASSUME TypeOK, NEW j \in Jtis, ~Fresh(j), RowsFound(j), RefreshFault(j) = None
  PROVE  /\ families[issued[j].sid].revoked = None
         /\ FamilyMatches(issued[j])
         /\ families[issued[j].sid].expires > now
         /\ families[issued[j].sid].absolute > now
         /\ sessions[j] # None /\ sessions[j].revoked = None
         /\ SessionMatches(j)
         /\ sessions[j].expires > now
         /\ UserUsable(issued[j].sub) /\ users[issued[j].sub].ver = issued[j].ver
  BY DEF TypeOK, RefreshFault, RowsFound, FamilyLapsed, Reasons, Fresh, Claims,
         FamilyRow, SessionRow

LEMMA FaultReason ==
  ASSUME NEW j \in Jtis PROVE RefreshFault(j) \in Reasons \cup {None}
  BY DEF RefreshFault, Reasons

LEMMA LoginKeeps ==
  ASSUME SessionInv, NEW u \in Users, NEW f \in Families, NEW j \in Jtis,
         Login(u, f, j)
  PROVE  SessionInv'
  <1> DEFINE absolute == now + AbsoluteLife
             expires  == RefreshExpiry(absolute)
             ver      == users[u].ver
  <1> USE DEF SessionInv
  <1>1. /\ expires \in Nat /\ absolute \in Nat /\ ver \in Nat
        /\ expires =< absolute /\ expires =< now + RefreshLife /\ expires > now
    BY DEF Login, RefreshExpiry, Earlier, TypeOK, UserUsable, UserRow
  <1>2. /\ families' = [families EXCEPT ![f] =
            [owner |-> u, ver |-> ver, expires |-> expires,
             absolute |-> absolute, revoked |-> None]]
        /\ sessions' = [sessions EXCEPT ![j] =
            [owner |-> u, family |-> f, ver |-> ver, expires |-> expires,
             revoked |-> None, replacedBy |-> None]]
        /\ issued' = [issued EXCEPT ![j] =
            [sub |-> u, sid |-> f, ver |-> ver, exp |-> expires, prev |-> None]]
        /\ users' = users /\ requests' = requests /\ now' = now
        /\ UserUsable(u) /\ FreshFamily(f) /\ Fresh(j)
    BY DEF Login
  <1>3. access' = access \cup {[sub |-> u, sid |-> f, ver |-> ver, exp |-> now + AccessLife]}
    BY DEF Login, SignAccess
  <1> HIDE DEF expires, absolute, ver
  <1>a. \A g \in Families : ~FreshFamily(g) => ~FreshFamily(g)'
    BY <1>2 DEF FreshFamily, Fresh, TypeOK
  <1>b. /\ families'[f] = [owner |-> u, ver |-> ver, expires |-> expires,
                            absolute |-> absolute, revoked |-> None]
        /\ families'[f] # None
        /\ sessions'[j] = [owner |-> u, family |-> f, ver |-> ver, expires |-> expires,
                            revoked |-> None, replacedBy |-> None]
        /\ issued'[j] = [sub |-> u, sid |-> f, ver |-> ver, exp |-> expires, prev |-> None]
        /\ issued'[j] # None /\ sessions'[j] # None
    BY <1>1, <1>2 DEF TypeOK, Claims, FamilyRow, SessionRow
  <1>c. /\ ~FreshFamily(f)' /\ ~Fresh(j)' /\ sessions[j] = None /\ families[f] = None
        /\ users[u] # None /\ ~users[u].deleted /\ users[u].active
    BY <1>2, <1>b DEF FreshFamily, Fresh, RowsMatchTokens, FamiliesSound, UserUsable
  <1>d. /\ \A i \in Jtis \ {j} : issued'[i] = issued[i] /\ sessions'[i] = sessions[i]
        /\ \A g \in Families \ {f} : families'[g] = families[g]
        /\ \A i \in Jtis : issued[i] # None => issued[i].sid # f
    BY <1>2 DEF TypeOK, FreshFamily, Fresh
  <1>4. TypeOK'
    BY <1>1, <1>2, <1>3 DEF TypeOK, UserRow, FamilyRow, SessionRow, Claims, AccessToken
  <1>5. FamiliesSound'
    BY <1>1, <1>2, <1>a, <1>b, <1>c, <1>d DEF FamiliesSound, TypeOK, UserUsable
  <1>6. RowsMatchTokens'
    BY <1>1, <1>2, <1>a, <1>b, <1>c, <1>d DEF RowsMatchTokens, TypeOK, SessionMatches, Fresh, SessionRow, FamiliesSound
  <1>7. TokensMatchFamily'
    BY <1>1, <1>2, <1>a, <1>b, <1>c, <1>d DEF TokensMatchFamily, TypeOK, FamilyMatches, Fresh, Claims, FreshFamily
  <1>8. OpenFamilyMatchesAccount'
    BY <1>1, <1>2, <1>a, <1>b, <1>c, <1>d DEF ver, OpenFamilyMatchesAccount, TypeOK, UserUsable
  <1>9. Lineage' /\ ConsumedOnce'
    BY <1>1, <1>2, <1>b, <1>c, <1>d DEF Lineage, ConsumedOnce, TypeOK, Fresh, Claims
  <1>10. NewestRow'
    BY <1>1, <1>2, <1>a, <1>b, <1>c, <1>d DEF NewestRow, TypeOK, Unconsumed, SessionRow, RowsMatchTokens
  <1>11. EvidenceOutlivesToken'
    BY <1>1, <1>2, <1>a, <1>b, <1>c, <1>d DEF EvidenceOutlivesToken, TypeOK, Fresh
  <1>12. AccessOfKnownFamily' /\ RequestsDecoded'
    BY <1>1, <1>2, <1>3, <1>a, <1>b, <1>c, <1>d DEF AccessOfKnownFamily, RequestsDecoded, TypeOK, Fresh, AccessToken, Request
  <1> QED BY <1>4, <1>5, <1>6, <1>7, <1>8, <1>9, <1>10, <1>11, <1>12

-----------------------------------------------------------------------------
RowsOnlyRevoked ==
    /\ \A f \in Families :
        /\ families[f] = None <=> families'[f] = None
        /\ families[f] # None =>
            /\ families'[f].owner = families[f].owner
            /\ families'[f].ver = families[f].ver
            /\ families'[f].expires = families[f].expires
            /\ families'[f].absolute = families[f].absolute
            /\ families'[f].revoked = None => families[f].revoked = None
    /\ \A j \in Jtis :
        /\ sessions[j] = None <=> sessions'[j] = None
        /\ sessions[j] # None =>
            /\ sessions'[j].owner = sessions[j].owner
            /\ sessions'[j].family = sessions[j].family
            /\ sessions'[j].ver = sessions[j].ver
            /\ sessions'[j].expires = sessions[j].expires
            /\ sessions'[j].revoked = None => sessions[j].revoked = None
            /\ \/ sessions'[j].revoked = sessions[j].revoked
               \/ families'[sessions[j].family].revoked # None
    /\ \A u \in Users : users[u] = None <=> users'[u] = None

LEMMA RevocationKeeps ==
  ASSUME SessionInv, TypeOK', RowsOnlyRevoked, OpenFamilyMatchesAccount',
         RequestsDecoded', issued' = issued, access' = access, now' = now
  PROVE  SessionInv'
  <1> USE DEF SessionInv
  <1>1. \A f \in Families : FreshFamily(f)' <=> FreshFamily(f)
    BY DEF FreshFamily, Fresh
  <1>2. FamiliesSound'
    BY <1>1 DEF FamiliesSound, TypeOK, FamilyRow, RowsOnlyRevoked
  <1>3. RowsMatchTokens'
    BY DEF RowsMatchTokens, TypeOK, SessionMatches, Fresh, SessionRow, RowsOnlyRevoked
  <1>4. TokensMatchFamily'
    BY DEF TokensMatchFamily, TypeOK, FamilyMatches, Fresh, Claims, RowsOnlyRevoked
  <1>5. Lineage' /\ ConsumedOnce'
    BY DEF Lineage, ConsumedOnce, TypeOK, Fresh, Claims, RowsOnlyRevoked
  <1>6. NewestRow'
    BY DEF NewestRow, TypeOK, Unconsumed, SessionRow, RowsOnlyRevoked
  <1>7. EvidenceOutlivesToken'
    BY DEF EvidenceOutlivesToken, TypeOK, Fresh, Claims, RowsOnlyRevoked
  <1>8. AccessOfKnownFamily'
    BY <1>1 DEF AccessOfKnownFamily, TypeOK, AccessToken
  <1> QED BY <1>2, <1>3, <1>4, <1>5, <1>6, <1>7, <1>8

LEMMA RefusedKeeps ==
  ASSUME SessionInv, NEW r \in Requests, RefreshRefused(r)
  PROVE  SessionInv'
  <1> DEFINE j == requests[r].jti
             f == issued[j].sid
  <1> USE DEF SessionInv
  <1>1. /\ j \in Jtis /\ ~Fresh(j) /\ RowsFound(j) /\ RefreshFault(j) # None
        /\ issued[j] \in Claims /\ f \in Families /\ families[f] # None
    BY DEF RefreshRefused, TypeOK, Request, RequestsDecoded, Fresh, Claims, RowsFound
  <1>2. RefreshFault(j) \in Reasons
    BY <1>1, FaultReason
  <1>3. /\ families' = RevokeFamily(f, RefreshFault(j))
        /\ sessions' = IF RefreshFault(j) = "expired" /\ ~FamilyLapsed(f)
                       THEN [sessions EXCEPT ![j].revoked = "expired"]
                       ELSE sessions
        /\ requests' = [requests EXCEPT ![r] = None]
        /\ UNCHANGED <<users, issued, access, now>>
    BY DEF RefreshRefused, Done
  <1>4. families'[f] # None /\ families'[f].revoked # None
    BY <1>1, <1>2, <1>3 DEF RevokeFamily, TypeOK, FamilyRow
  <1>5. RefreshFault(j) = "expired" /\ ~FamilyLapsed(f) =>
            sessions[j] # None /\ sessions[j].revoked = None /\ sessions[j].family = f
    BY <1>1 DEF RefreshFault, SessionMatches
  <1> HIDE DEF j, f
  <1>6. TypeOK'
    BY <1>1, <1>2, <1>3, <1>5 DEF TypeOK, RevokeFamily, FamilyRow, SessionRow, Reasons
  <1>7. RowsOnlyRevoked
    BY <1>1, <1>2, <1>3, <1>4, <1>5 DEF RowsOnlyRevoked, TypeOK, RevokeFamily, FamilyRow, SessionRow, Reasons
  <1>8. OpenFamilyMatchesAccount'
    BY <1>1, <1>2, <1>3, <1>4 DEF OpenFamilyMatchesAccount, TypeOK, RevokeFamily, FamilyRow, UserUsable
  <1>9. RequestsDecoded'
    BY <1>3 DEF RequestsDecoded, TypeOK, Fresh
  <1> QED BY <1>3, <1>6, <1>7, <1>8, <1>9, RevocationKeeps

LEMMA LogoutServedKeeps ==
  ASSUME SessionInv, NEW r \in Requests, LogoutServed(r)
  PROVE  SessionInv'
  <1> DEFINE j == requests[r].jti
             f == issued[j].sid
             reason == IF LogoutMatches(j) THEN "logout" ELSE "logout_mismatch"
  <1> USE DEF SessionInv
  <1>1. /\ j \in Jtis /\ f \in Families /\ families[f] # None /\ reason \in Reasons
    BY DEF LogoutServed, TypeOK, Request, RequestsDecoded, Fresh, Claims, RowsFound, Reasons
  <1>2. /\ families' = RevokeFamily(f, reason)
        /\ requests' = [requests EXCEPT ![r] = None]
        /\ UNCHANGED <<users, sessions, issued, access, now>>
    BY DEF LogoutServed, Done
  <1> HIDE DEF j, f, reason
  <1>3. TypeOK'
    BY <1>1, <1>2 DEF TypeOK, RevokeFamily, FamilyRow
  <1>4. RowsOnlyRevoked
    BY <1>1, <1>2 DEF RowsOnlyRevoked, TypeOK, RevokeFamily, FamilyRow
  <1>5. OpenFamilyMatchesAccount'
    BY <1>1, <1>2 DEF OpenFamilyMatchesAccount, TypeOK, RevokeFamily, FamilyRow, UserUsable
  <1>6. RequestsDecoded'
    BY <1>2 DEF RequestsDecoded, TypeOK, Fresh
  <1> QED BY <1>2, <1>3, <1>4, <1>5, <1>6, RevocationKeeps

\* Decode, Abandon and the calls that end in a rollback touch no table.
LEMMA RequestOnlyKeeps ==
  ASSUME SessionInv, NEW r \in Requests,
         \/ \E op \in {"refresh", "logout"}, j \in Jtis : Decode(r, op, j)
         \/ Abandon(r) \/ RefreshUnknown(r) \/ LogoutIgnored(r)
  PROVE  SessionInv'
  <1> USE DEF SessionInv
  <1>1. UNCHANGED <<users, families, sessions, issued, access, now>>
    BY DEF Decode, Abandon, RefreshUnknown, LogoutIgnored
  <1>2. TypeOK' /\ RequestsDecoded'
    BY <1>1 DEF Decode, Abandon, RefreshUnknown, LogoutIgnored, Done, TypeOK,
                RequestsDecoded, Request, Fresh
  <1>3. RowsOnlyRevoked
    BY <1>1 DEF RowsOnlyRevoked
  <1>4. OpenFamilyMatchesAccount'
    BY <1>1 DEF OpenFamilyMatchesAccount, UserUsable
  <1> QED BY <1>1, <1>2, <1>3, <1>4, RevocationKeeps

\* revoke_all_refresh_sessions inside any of its callers.
LEMMA RevokeAllKeeps ==
  ASSUME SessionInv, NEW u \in Users, NEW row \in UserRow, users[u] # None,
         RevokeAll(u, row),
         UNCHANGED <<sessions, issued, access, requests, now>>
  PROVE  SessionInv'
  <1> USE DEF SessionInv
  <1>1. /\ users' = [users EXCEPT ![u] = [row EXCEPT !.ver = @ + 1]]
        /\ [row EXCEPT !.ver = @ + 1] \in UserRow
    BY DEF RevokeAll, UserRow
  <1>a. /\ users'[u] \in UserRow /\ users'[u] # None
        /\ \A w \in Users \ {u} : users'[w] = users[w]
    BY <1>1 DEF TypeOK
  <1>2. \A f \in Families : families'[f] =
            IF /\ families[f] # None
               /\ families[f].owner = u
               /\ families[f].revoked = None
            THEN [families[f] EXCEPT !.revoked = "user_security_change"]
            ELSE families[f]
    BY DEF RevokeAll, RevokeAllFamilies
  <1>3. "user_security_change" \in Reasons
    BY DEF Reasons
  <1>b. ASSUME NEW f \in Families, families[f] # None
        PROVE  /\ families'[f] # None
               /\ families'[f].owner = families[f].owner
               /\ families'[f].ver = families[f].ver
               /\ families'[f].expires = families[f].expires
               /\ families'[f].absolute = families[f].absolute
               /\ families'[f].revoked = None =>
                    families[f].revoked = None /\ families[f].owner # u
    <2>1. families[f] \in FamilyRow
      BY <1>b DEF TypeOK
    <2>2. [families[f] EXCEPT !.revoked = "user_security_change"] \in FamilyRow
      BY <2>1, <1>3 DEF FamilyRow
    <2> QED BY <1>2, <1>3, <1>b, <2>1, <2>2 DEF FamilyRow
  <1>4. families' \in [Families -> FamilyRow \cup {None}]
    BY <1>2, <1>3 DEF TypeOK, FamilyRow, RevokeAll, RevokeAllFamilies
  <1>5. TypeOK'
    BY <1>1, <1>4 DEF TypeOK
  <1>6. RowsOnlyRevoked
    BY <1>a, <1>b, <1>2 DEF RowsOnlyRevoked
  <1>7. OpenFamilyMatchesAccount'
    <2> SUFFICES ASSUME NEW f \in Families, families'[f] # None, families'[f].revoked = None
                 PROVE  /\ users'[families'[f].owner] # None
                        /\ ~users'[families'[f].owner].deleted
                        /\ users'[families'[f].owner].active
                        /\ families'[f].ver = users'[families'[f].owner].ver
      BY DEF OpenFamilyMatchesAccount, UserUsable
    <2>1. families[f] # None /\ families[f] \in FamilyRow
      BY <1>2 DEF TypeOK
    <2>2. families[f].owner \in Users \ {u} /\ families[f].revoked = None
      BY <2>1, <1>b DEF FamilyRow
    <2>3. UserUsable(families[f].owner) /\ families[f].ver = users[families[f].owner].ver
      BY <2>1, <2>2 DEF OpenFamilyMatchesAccount
    <2> QED BY <2>1, <2>2, <2>3, <1>a, <1>b DEF UserUsable
  <1>8. RequestsDecoded'
    BY DEF RequestsDecoded, Fresh
  <1> QED BY <1>5, <1>6, <1>7, <1>8, RevocationKeeps

LEMMA AccountChangeKeeps ==
  ASSUME SessionInv, NEW u \in Users,
         \/ DisableUser(u) \/ DeleteUser(u) \/ ReplacePassword(u)
         \/ EnableUser(u) \/ RestoreUser(u)
  PROVE  SessionInv'
  <1> USE DEF SessionInv
  <1>0. users[u] # None /\ users[u] \in UserRow
    BY DEF DisableUser, DeleteUser, ReplacePassword, EnableUser, RestoreUser, TypeOK
  <1>1. CASE DisableUser(u) \/ DeleteUser(u) \/ ReplacePassword(u)
    <2>1. PICK row \in UserRow : RevokeAll(u, row)
      BY <1>0, <1>1 DEF DisableUser, DeleteUser, ReplacePassword, UserRow
    <2>2. UNCHANGED <<sessions, issued, access, requests, now>>
      BY <1>1 DEF DisableUser, DeleteUser, ReplacePassword
    <2> QED BY <1>0, <2>1, <2>2, RevokeAllKeeps
  \* Only the two operations that revoke nothing: an account they bring back
  \* has no open family.
  <1>2. CASE EnableUser(u) \/ RestoreUser(u)
    <2>1. UNCHANGED <<families, sessions, issued, access, requests, now>>
      BY <1>2 DEF EnableUser, RestoreUser
    <2>2. \/ users' = [users EXCEPT ![u].active = TRUE]
          \/ users' = [users EXCEPT ![u].deleted = FALSE]
      BY <1>2 DEF EnableUser, RestoreUser
    <2>a. /\ users'[u] \in UserRow /\ users'[u] # None
          /\ users'[u].ver = users[u].ver
          /\ users[u].active => users'[u].active
          /\ ~users[u].deleted => ~users'[u].deleted
          /\ users' \in [Users -> UserRow \cup {None}]
          /\ \A w \in Users \ {u} : users'[w] = users[w]
      <3>1. CASE users' = [users EXCEPT ![u].active = TRUE]
        BY <1>0, <3>1 DEF TypeOK, UserRow
      <3>2. CASE users' = [users EXCEPT ![u].deleted = FALSE]
        BY <1>0, <3>2 DEF TypeOK, UserRow
      <3> QED BY <2>2, <3>1, <3>2
    <2>3. TypeOK'
      BY <2>1, <2>a DEF TypeOK
    <2>4. RowsOnlyRevoked
      BY <1>0, <2>1, <2>a DEF RowsOnlyRevoked
    <2>5. OpenFamilyMatchesAccount'
      BY <1>0, <2>1, <2>a DEF OpenFamilyMatchesAccount, TypeOK, FamilyRow, UserUsable
    <2>6. RequestsDecoded'
      BY <2>1 DEF RequestsDecoded, Fresh
    <2> QED BY <2>1, <2>3, <2>4, <2>5, <2>6, RevocationKeeps
  <1> QED BY <1>1, <1>2

-----------------------------------------------------------------------------
\* A rotation seen from the tables: the token j of family f it consumes, and
\* what becomes of each table.  Five parts, so that a step can cite the ones
\* it needs.

Consumable(r, k, j, f) ==
    /\ j = requests[r].jti /\ f = issued[j].sid /\ issued[j].sub \in Users
    /\ ~Fresh(j) /\ Fresh(k) /\ k # j /\ sessions[k] = None
    /\ families[f] # None /\ families[f] \in FamilyRow
    /\ families[f].revoked = None /\ families[f].expires > now
    /\ families[f].owner = issued[j].sub /\ families[f].ver = issued[j].ver
    /\ sessions[j] # None /\ sessions[j] \in SessionRow
    /\ sessions[j].revoked = None /\ sessions[j].family = f

NewExpiry(f, expires) ==
    /\ expires > now
    /\ expires =< families[f].absolute /\ expires =< now + RefreshLife
    /\ families[f].expires =< expires

TokenSigned(k, j, f, expires) ==
    /\ issued' \in [Jtis -> Claims \cup {None}]
    /\ issued'[k] \in Claims /\ issued'[k] # None
    /\ issued'[k].sub = issued[j].sub /\ issued'[k].sid = f
    /\ issued'[k].ver = issued[j].ver /\ issued'[k].exp = expires /\ issued'[k].prev = j
    /\ \A i \in Jtis \ {k} : issued'[i] = issued[i]

FamilyExtended(f, expires) ==
    /\ families' \in [Families -> FamilyRow \cup {None}]
    /\ families'[f] \in FamilyRow /\ families'[f] # None
    /\ families'[f].owner = families[f].owner /\ families'[f].ver = families[f].ver
    /\ families'[f].expires = expires /\ families'[f].absolute = families[f].absolute
    /\ families'[f].revoked = None
    /\ \A g \in Families \ {f} : families'[g] = families[g]

RowReplaced(k, j, f, expires) ==
    /\ sessions' \in [Jtis -> SessionRow \cup {None}]
    /\ sessions'[j] # None
    /\ sessions'[j].owner = sessions[j].owner /\ sessions'[j].family = f
    /\ sessions'[j].ver = sessions[j].ver /\ sessions'[j].expires = sessions[j].expires
    /\ sessions'[j].revoked # None
    /\ sessions'[k] # None
    /\ sessions'[k].owner = issued[j].sub /\ sessions'[k].family = f
    /\ sessions'[k].ver = issued[j].ver /\ sessions'[k].expires = expires
    /\ sessions'[k].revoked = None
    /\ \A i \in Jtis \ {j, k} : sessions'[i] = sessions[i]

Answered(r, j, f) ==
    /\ access' = access \cup
            {[sub |-> issued[j].sub, sid |-> f, ver |-> issued[j].ver, exp |-> now + AccessLife]}
    /\ requests' = [requests EXCEPT ![r] = None]
    /\ users' = users /\ now' = now

LEMMA RotatedEffect ==
  ASSUME SessionInv, NEW r \in Requests, NEW k \in Jtis, RefreshRotated(r, k)
  PROVE  \E j \in Jtis, f \in Families, expires \in Nat :
            /\ Consumable(r, k, j, f) /\ NewExpiry(f, expires)
            /\ TokenSigned(k, j, f, expires) /\ FamilyExtended(f, expires)
            /\ RowReplaced(k, j, f, expires) /\ Answered(r, j, f)
  <1> USE DEF SessionInv
  <1>1. PICK j \in Jtis : j = requests[r].jti
    BY DEF RefreshRotated, TypeOK, Request
  <1>2. /\ ~Fresh(j) /\ RowsFound(j) /\ RefreshFault(j) = None
        /\ Fresh(k) /\ k # j /\ issued[j] \in Claims
    BY <1>1 DEF RefreshRotated, TypeOK, RequestsDecoded, Fresh
  <1>3. PICK f \in Families : f = issued[j].sid
    BY <1>2 DEF Claims
  <1>4. /\ families[f] # None /\ families[f] \in FamilyRow
        /\ families[f].revoked = None /\ families[f].expires > now
        /\ families[f].absolute > now
        /\ families[f].owner = issued[j].sub /\ families[f].ver = issued[j].ver
        /\ sessions[j] # None /\ sessions[j] \in SessionRow
        /\ sessions[j].revoked = None /\ sessions[j].family = f
        /\ users[issued[j].sub].ver = issued[j].ver
    BY <1>2, <1>3, NoFault DEF TypeOK, RowsFound, FamilyMatches, SessionMatches
  <1>5. PICK expires \in Nat : expires = RefreshExpiry(families[f].absolute)
    BY <1>4 DEF RefreshExpiry, Earlier, TypeOK, FamilyRow
  <1>6. /\ expires > now /\ expires =< families[f].absolute
        /\ expires =< now + RefreshLife /\ families[f].expires =< expires
    BY <1>4, <1>5 DEF RefreshExpiry, Earlier, TypeOK, FamilyRow, FamiliesSound
  <1>7. /\ families' = [families EXCEPT ![f].expires = expires]
        /\ sessions' = [sessions EXCEPT
                ![j].revoked = "rotated",
                ![j].replacedBy = k,
                ![k] = [owner |-> issued[j].sub, family |-> f, ver |-> issued[j].ver,
                        expires |-> expires, revoked |-> None, replacedBy |-> None]]
        /\ issued' = [issued EXCEPT ![k] =
                [sub |-> issued[j].sub, sid |-> f, ver |-> issued[j].ver,
                 exp |-> expires, prev |-> j]]
        /\ access' = access \cup
            {[sub |-> issued[j].sub, sid |-> f, ver |-> issued[j].ver, exp |-> now + AccessLife]}
        /\ requests' = [requests EXCEPT ![r] = None]
        /\ users' = users /\ now' = now
    BY <1>1, <1>3, <1>4, <1>5 DEF RefreshRotated, SignAccess, Done
  <1>8. /\ issued'[k] \in Claims /\ issued'[k] # None
        /\ issued'[k].sub = issued[j].sub /\ issued'[k].sid = f
        /\ issued'[k].ver = issued[j].ver /\ issued'[k].exp = expires /\ issued'[k].prev = j
        /\ \A i \in Jtis \ {k} : issued'[i] = issued[i]
    BY <1>2, <1>7 DEF TypeOK, Claims
  <1>9. /\ families'[f] \in FamilyRow /\ families'[f] # None
        /\ families'[f].owner = families[f].owner /\ families'[f].ver = families[f].ver
        /\ families'[f].expires = expires
        /\ families'[f].absolute = families[f].absolute
        /\ families'[f].revoked = None
        /\ \A g \in Families \ {f} : families'[g] = families[g]
    BY <1>4, <1>7 DEF TypeOK, FamilyRow
  <1>10. /\ sessions'[j] \in SessionRow /\ sessions'[j] # None
         /\ sessions'[j].owner = sessions[j].owner /\ sessions'[j].family = f
         /\ sessions'[j].ver = sessions[j].ver /\ sessions'[j].expires = sessions[j].expires
         /\ sessions'[j].revoked # None
    BY <1>2, <1>4, <1>7 DEF TypeOK, SessionRow, Reasons
  <1>11. /\ sessions'[k] \in SessionRow /\ sessions'[k] # None
         /\ sessions'[k].owner = issued[j].sub /\ sessions'[k].family = f
         /\ sessions'[k].ver = issued[j].ver /\ sessions'[k].expires = expires
         /\ sessions'[k].revoked = None
         /\ \A i \in Jtis \ {j, k} : sessions'[i] = sessions[i]
    BY <1>2, <1>7 DEF TypeOK, SessionRow, Claims
  <1>12. sessions[k] = None
    BY <1>2 DEF RowsMatchTokens
  <1>13. issued[j].sub \in Users
    BY <1>2 DEF Claims
  <1>14. Consumable(r, k, j, f) /\ NewExpiry(f, expires)
    BY <1>1, <1>2, <1>3, <1>4, <1>6, <1>12, <1>13 DEF Consumable, NewExpiry
  <1>15. TokenSigned(k, j, f, expires)
    BY <1>7, <1>8 DEF TokenSigned, TypeOK
  <1>16. FamilyExtended(f, expires)
    BY <1>7, <1>9 DEF FamilyExtended, TypeOK
  <1>17. RowReplaced(k, j, f, expires)
    BY <1>7, <1>10, <1>11 DEF RowReplaced, TypeOK
  <1>18. Answered(r, j, f)
    BY <1>7 DEF Answered
  <1> QED BY <1>14, <1>15, <1>16, <1>17, <1>18

LEMMA RotatedKeeps ==
  ASSUME SessionInv, NEW r \in Requests, NEW k \in Jtis, RefreshRotated(r, k)
  PROVE  SessionInv'
  <1> USE DEF SessionInv
  <1>1. PICK j \in Jtis, f \in Families, expires \in Nat :
            /\ Consumable(r, k, j, f) /\ NewExpiry(f, expires)
            /\ TokenSigned(k, j, f, expires) /\ FamilyExtended(f, expires)
            /\ RowReplaced(k, j, f, expires) /\ Answered(r, j, f)
    BY RotatedEffect
  <1>3. \A g \in Families : ~FreshFamily(g) => ~FreshFamily(g)'
    BY <1>1 DEF FreshFamily, Fresh, TokenSigned, Consumable
  <1>4. ~FreshFamily(f) /\ sessions[j].expires = issued[j].exp
    BY <1>1 DEF FreshFamily, RowsMatchTokens, Consumable
  <1>a. /\ now \in Nat /\ issued[j] \in Claims /\ issued[j].ver \in Nat
        /\ families[f].expires \in Nat /\ families[f].absolute \in Nat
        /\ sessions[j].expires \in Nat /\ issued[j].exp \in Nat
        /\ families[f].owner \in Users /\ issued[j].sub \in Users
    BY <1>1 DEF TypeOK, Fresh, Claims, Consumable, FamilyRow, SessionRow
  <1>b. /\ \A g \in Families \ {f} : families'[g] = families[g]
        /\ families[f] # None /\ families'[f] # None
        /\ families'[f].owner = families[f].owner
        /\ families'[f].ver = families[f].ver
        /\ families'[f].expires = expires
        /\ families'[f].absolute = families[f].absolute
        /\ families[f].revoked = None
        /\ families[f].owner = issued[j].sub /\ families[f].ver = issued[j].ver
        /\ families[f].expires =< expires /\ families[f].expires > now
    BY <1>1 DEF FamilyExtended, Consumable, NewExpiry
  <1>c. /\ \A i \in Jtis \ {k} : issued'[i] = issued[i]
        /\ issued[k] = None /\ issued'[k] # None /\ issued'[k].exp = expires
        /\ issued'[k].sid = f /\ issued'[k].sub = issued[j].sub
        /\ issued'[k].ver = issued[j].ver
    BY <1>1 DEF TokenSigned, Consumable, Fresh
  <1>d. users' = users /\ now' = now
    BY <1>1 DEF Answered
  <1>5. TypeOK'
    <2>1. [sub |-> issued[j].sub, sid |-> f, ver |-> issued[j].ver,
           exp |-> now + AccessLife] \in AccessToken
      BY <1>a DEF AccessToken
    <2>2. access' \subseteq AccessToken
      BY <1>1, <2>1 DEF TypeOK, Answered
    <2>3. requests' \in [Requests -> Request \cup {None}]
      BY <1>1 DEF TypeOK, Answered
    <2> QED BY <1>1, <1>d, <2>2, <2>3 DEF TypeOK, TokenSigned, FamilyExtended, RowReplaced
  <1>6. FamiliesSound'
    <2>1. ASSUME NEW g \in Families, families'[g] # None
          PROVE  /\ users'[families'[g].owner] # None
                 /\ families'[g].expires =< families'[g].absolute
                 /\ families'[g].expires =< now' + RefreshLife
      <3>1. CASE g = f
        BY <1>1, <1>b, <1>d, <3>1 DEF FamiliesSound, NewExpiry
      <3>2. CASE g # f
        BY <1>b, <1>d, <2>1, <3>2 DEF FamiliesSound
      <3> QED BY <3>1, <3>2
    <2>2. \A g \in Families : families'[g] # None => ~FreshFamily(g)'
      BY <1>3, <1>4, <1>b DEF FamiliesSound
    <2> QED BY <2>1, <2>2 DEF FamiliesSound
  <1>7. RowsMatchTokens'
    BY <1>1, <1>4 DEF RowsMatchTokens, SessionMatches, Fresh, TypeOK, SessionRow,
                    Consumable, TokenSigned, FamilyExtended, RowReplaced
  <1>8. TokensMatchFamily'
    <2> SUFFICES ASSUME NEW i \in Jtis, issued'[i] # None, families'[issued'[i].sid] # None
                 PROVE  /\ families'[issued'[i].sid].owner = issued'[i].sub
                        /\ families'[issued'[i].sid].ver = issued'[i].ver
                        /\ issued'[i].exp =< families'[issued'[i].sid].expires
      BY DEF TokensMatchFamily, FamilyMatches, Fresh
    <2>1. CASE i = k
      BY <1>a, <1>b, <1>c, <2>1
    <2>2. CASE i # k
      <3>1. /\ issued'[i] = issued[i] /\ issued[i] # None
            /\ issued[i].sid \in Families /\ issued[i].exp \in Nat
        BY <1>c, <2>2 DEF TypeOK, Claims
      <3>2. families[issued[i].sid] # None
        BY <1>b, <3>1
      <3>3. /\ families[issued[i].sid].owner = issued[i].sub
            /\ families[issued[i].sid].ver = issued[i].ver
            /\ issued[i].exp =< families[issued[i].sid].expires
        BY <3>1, <3>2 DEF TokensMatchFamily, FamilyMatches, Fresh
      <3> QED BY <1>a, <1>b, <3>1, <3>3
    <2> QED BY <2>1, <2>2
  <1>9. OpenFamilyMatchesAccount'
    <2> SUFFICES ASSUME NEW g \in Families, families'[g] # None, families'[g].revoked = None
                 PROVE  /\ UserUsable(families[g].owner)'
                        /\ families'[g].ver = users'[families'[g].owner].ver
      BY DEF OpenFamilyMatchesAccount
    <2>1. /\ families[g] # None /\ families[g].revoked = None
          /\ families'[g].owner = families[g].owner /\ families'[g].ver = families[g].ver
      BY <1>b
    <2> QED BY <1>d, <2>1 DEF OpenFamilyMatchesAccount, UserUsable
  <1>10. Lineage'
    BY <1>1 DEF Lineage, Fresh, TypeOK, Claims, Consumable, TokenSigned, RowReplaced
  <1>11. ConsumedOnce'
    BY <1>1 DEF ConsumedOnce, Lineage, Fresh, Consumable, TokenSigned
  <1>12. NewestRow'
    <2>1. \A i \in Jtis : Unconsumed(i, f)' => i = k
      BY <1>1 DEF NewestRow, Unconsumed, Consumable, RowReplaced
    <2>2. \A g \in Families \ {f}, i \in Jtis :
            /\ Unconsumed(i, g)' <=> Unconsumed(i, g)
            /\ Unconsumed(i, g)' => sessions'[i].expires = sessions[i].expires
      BY <1>1 DEF Unconsumed, Consumable, RowReplaced
    <2>3. Unconsumed(k, f)' /\ sessions'[k].expires = families'[f].expires
      BY <1>1 DEF Unconsumed, RowReplaced, FamilyExtended
    <2> SUFFICES ASSUME NEW g \in Families, families'[g] # None, families'[g].revoked = None
                 PROVE  /\ \A i \in Jtis : Unconsumed(i, g)' => sessions'[i].expires = families'[g].expires
                        /\ \A i, h \in Jtis : Unconsumed(i, g)' /\ Unconsumed(h, g)' => i = h
                        /\ families'[g].expires > now' => \E i \in Jtis : Unconsumed(i, g)'
      BY DEF NewestRow
    <2>4. CASE g = f
      BY <2>1, <2>3, <2>4
    <2>5. CASE g # f
      <3>1. families'[g] = families[g] /\ now' = now
        BY <1>1, <2>5 DEF FamilyExtended, Answered
      <3> QED BY <2>2, <2>5, <3>1 DEF NewestRow
    <2> QED BY <2>4, <2>5
  <1>13. EvidenceOutlivesToken'
    <2>1. \A i \in Jtis : sessions[i] # None \/ i = k => sessions'[i] # None
      BY <1>1 DEF RowReplaced
    <2>2. \A g \in Families : families[g] # None => families'[g] # None
      BY <1>b
    <2> SUFFICES ASSUME NEW i \in Jtis, issued'[i] # None, issued'[i].exp > now',
                        users'[issued'[i].sub] # None
                 PROVE  sessions'[i] # None /\ families'[issued'[i].sid] # None
      BY DEF EvidenceOutlivesToken, Fresh
    <2>3. CASE i = k
      BY <1>b, <1>c, <2>1, <2>3
    <2>4. CASE i # k
      BY <1>c, <1>d, <2>1, <2>2, <2>4 DEF EvidenceOutlivesToken, Fresh, TypeOK, Claims
    <2> QED BY <2>3, <2>4
  <1>14. AccessOfKnownFamily' /\ RequestsDecoded'
    BY <1>1, <1>3, <1>4 DEF AccessOfKnownFamily, RequestsDecoded, Fresh, TypeOK,
                          AccessToken, Request, TokenSigned, Answered
  <1> QED BY <1>5, <1>6, <1>7, <1>8, <1>9, <1>10, <1>11, <1>12, <1>13, <1>14

\* Purge and clean-up delete rows and change nothing else.
LEMMA PurgeKeeps ==
  ASSUME SessionInv, NEW u \in Users, PurgeUser(u)
  PROVE  SessionInv'
  <1> USE DEF SessionInv, PurgeUser
  <1>1. /\ users'[u] = None /\ \A w \in Users \ {u} : users'[w] = users[w]
        /\ \A f \in Families : families'[f] =
             IF families[f] # None /\ families[f].owner = u THEN None ELSE families[f]
        /\ \A j \in Jtis : sessions'[j] =
             IF sessions[j] # None /\ sessions[j].owner = u THEN None ELSE sessions[j]
    BY DEF TypeOK
  <1>2. \A f \in Families : FreshFamily(f)' <=> FreshFamily(f)
    BY DEF FreshFamily, Fresh
  <1>3. \A j \in Jtis : sessions[j] # None => sessions[j].owner = families[sessions[j].family].owner
    BY DEF RowsMatchTokens, TokensMatchFamily, SessionMatches, FamilyMatches, TypeOK, Claims, SessionRow
  <1>4. TypeOK'
    BY DEF TypeOK
  <1>5. FamiliesSound'
    BY <1>1, <1>2 DEF FamiliesSound, TypeOK, FamilyRow
  <1>6. RowsMatchTokens'
    BY <1>1, <1>3 DEF RowsMatchTokens, SessionMatches, Fresh, TypeOK, SessionRow
  <1>7. TokensMatchFamily'
    BY <1>1 DEF TokensMatchFamily, FamilyMatches, Fresh, TypeOK, Claims
  <1>8. OpenFamilyMatchesAccount'
    BY <1>1 DEF OpenFamilyMatchesAccount, UserUsable, TypeOK, FamilyRow
  <1>9. Lineage' /\ ConsumedOnce'
    BY <1>1 DEF Lineage, ConsumedOnce, Fresh, TypeOK, Claims
  <1>10. NewestRow'
    BY <1>1, <1>3 DEF NewestRow, Unconsumed, TypeOK, SessionRow
  <1>11. EvidenceOutlivesToken'
    BY <1>1, <1>3 DEF EvidenceOutlivesToken, RowsMatchTokens, TokensMatchFamily, SessionMatches, FamilyMatches, Fresh, TypeOK, Claims
  <1>12. AccessOfKnownFamily' /\ RequestsDecoded'
    BY <1>2 DEF AccessOfKnownFamily, RequestsDecoded, Fresh, TypeOK, AccessToken
  <1> QED BY <1>4, <1>5, <1>6, <1>7, <1>8, <1>9, <1>10, <1>11, <1>12

LEMMA CleanupKeeps ==
  ASSUME SessionInv, NEW S \in SUBSET Jtis, NEW F \in SUBSET Families, Cleanup(S, F)
  PROVE  SessionInv'
  <1> USE DEF SessionInv, Cleanup
  <1>1. /\ \A f \in Families : families'[f] = IF f \in F THEN None ELSE families[f]
        /\ \A j \in Jtis : sessions'[j] =
             IF j \in S \/ (sessions[j] # None /\ sessions[j].family \in F)
             THEN None ELSE sessions[j]
    OBVIOUS
  <1>2. /\ \A j \in S : sessions[j] # None /\ sessions[j].expires < now
        /\ \A f \in F : families[f] # None /\ families[f].expires < now
    BY DEF ExpiredSessions, ExpiredFamilies, TypeOK, SessionRow, FamilyRow
  <1>3. \A f \in Families : FreshFamily(f)' <=> FreshFamily(f)
    BY DEF FreshFamily, Fresh
  <1>4. TypeOK'
    BY DEF TypeOK
  <1>5. FamiliesSound'
    BY <1>1, <1>3 DEF FamiliesSound, TypeOK, FamilyRow
  <1>6. RowsMatchTokens'
    BY <1>1 DEF RowsMatchTokens, SessionMatches, Fresh, TypeOK, SessionRow
  <1>7. TokensMatchFamily'
    BY <1>1 DEF TokensMatchFamily, FamilyMatches, Fresh, TypeOK, Claims
  <1>8. OpenFamilyMatchesAccount'
    BY <1>1 DEF OpenFamilyMatchesAccount, UserUsable, TypeOK, FamilyRow
  <1>9. Lineage' /\ ConsumedOnce'
    BY <1>1 DEF Lineage, ConsumedOnce, Fresh, TypeOK, Claims
  <1>10. NewestRow'
    BY <1>1, <1>2 DEF NewestRow, Unconsumed, TypeOK, SessionRow, FamilyRow
  <1>11. EvidenceOutlivesToken'
    BY <1>1, <1>2 DEF EvidenceOutlivesToken, RowsMatchTokens, TokensMatchFamily, SessionMatches, Fresh, TypeOK, Claims, SessionRow, FamilyRow
  <1>12. AccessOfKnownFamily' /\ RequestsDecoded'
    BY <1>3 DEF AccessOfKnownFamily, RequestsDecoded, Fresh, TypeOK, AccessToken
  <1> QED BY <1>4, <1>5, <1>6, <1>7, <1>8, <1>9, <1>10, <1>11, <1>12

LEMMA TickKeeps == SessionInv /\ Tick => SessionInv'
  <1> SUFFICES ASSUME SessionInv, Tick PROVE SessionInv'
    OBVIOUS
  <1> USE DEF SessionInv, Tick
  <1>1. TypeOK'
    BY DEF TypeOK
  <1>2. FamiliesSound'
    BY DEF FamiliesSound, FreshFamily, Fresh, TypeOK, FamilyRow
  <1>3. RowsMatchTokens' /\ TokensMatchFamily' /\ OpenFamilyMatchesAccount'
    BY DEF RowsMatchTokens, TokensMatchFamily, OpenFamilyMatchesAccount, Fresh,
           SessionMatches, FamilyMatches, UserUsable
  <1>4. Lineage' /\ ConsumedOnce' /\ AccessOfKnownFamily' /\ RequestsDecoded'
    BY DEF Lineage, ConsumedOnce, AccessOfKnownFamily, RequestsDecoded, FreshFamily, Fresh
  <1>5. NewestRow'
    BY DEF NewestRow, Unconsumed, TypeOK, FamilyRow
  <1>6. EvidenceOutlivesToken'
    BY DEF EvidenceOutlivesToken, Fresh, TypeOK, Claims
  <1> QED BY <1>1, <1>2, <1>3, <1>4, <1>5, <1>6

-----------------------------------------------------------------------------
LEMMA InitSound == Init => SessionInv
  BY DEF Init, TypeOK, UserRow, FamilyRow, SessionRow, Claims, AccessToken, Request,
         SessionInv, FamiliesSound, RowsMatchTokens, TokensMatchFamily,
         OpenFamilyMatchesAccount, Lineage, ConsumedOnce, NewestRow,
         EvidenceOutlivesToken, AccessOfKnownFamily, RequestsDecoded, Fresh

LEMMA NextKeeps == SessionInv /\ [Next]_vars => SessionInv'
  <1> SUFFICES ASSUME SessionInv, [Next]_vars PROVE SessionInv'
    OBVIOUS
  <1>1. CASE \E u \in Users, f \in Families, j \in Jtis : Login(u, f, j)
    BY <1>1, LoginKeeps
  <1>2. CASE \E r \in Requests, k \in Jtis : RefreshRotated(r, k)
    BY <1>2, RotatedKeeps
  <1>3. CASE \E r \in Requests : RefreshRefused(r)
    BY <1>3, RefusedKeeps
  <1>4. CASE \E r \in Requests : LogoutServed(r)
    BY <1>4, LogoutServedKeeps
  <1>5. CASE \E r \in Requests :
               \/ \E op \in {"refresh", "logout"}, j \in Jtis : Decode(r, op, j)
               \/ Abandon(r) \/ RefreshUnknown(r) \/ LogoutIgnored(r)
    BY <1>5, RequestOnlyKeeps
  <1>6. CASE \E u \in Users : \/ DisableUser(u) \/ DeleteUser(u) \/ ReplacePassword(u)
                             \/ EnableUser(u) \/ RestoreUser(u)
    BY <1>6, AccountChangeKeeps
  <1>7. CASE \E u \in Users : PurgeUser(u)
    BY <1>7, PurgeKeeps
  <1>8. CASE \E S \in SUBSET Jtis, F \in SUBSET Families : Cleanup(S, F)
    BY <1>8, CleanupKeeps
  <1>9. CASE Tick
    BY <1>9, TickKeeps
  <1>10. CASE UNCHANGED vars
    BY <1>10
       DEF vars, SessionInv, TypeOK, FamiliesSound, RowsMatchTokens, TokensMatchFamily,
           OpenFamilyMatchesAccount, Lineage, ConsumedOnce, NewestRow, Unconsumed,
           EvidenceOutlivesToken, AccessOfKnownFamily, RequestsDecoded, FreshFamily,
           Fresh, SessionMatches, FamilyMatches, UserUsable
  <1> QED BY <1>1, <1>2, <1>3, <1>4, <1>5, <1>6, <1>7, <1>8, <1>9, <1>10 DEF Next

\* The tables stay consistent with one another and with the tokens in
\* circulation, whatever sequence of transactions runs (services/auth.py).
THEOREM TablesConsistent == Spec => []SessionInv
  BY InitSound, NextKeeps, PTL DEF Spec

\* Rows, tokens and requests keep their types.
THEOREM TypeCorrect == Spec => []TypeOK
  BY TablesConsistent, PTL DEF SessionInv

\* No refresh token is rotated twice, even by calls decoded together.
THEOREM TokensConsumedOnce == Spec => []ConsumedOnce
  BY TablesConsistent, PTL DEF SessionInv

\* Every open family belongs to an active account of the same version.
THEOREM OpenFamiliesMatchAccounts == Spec => []OpenFamilyMatchesAccount
  BY TablesConsistent, PTL DEF SessionInv

\* The retention job never outruns a token that can still be presented.
THEOREM EvidenceKept == Spec => []EvidenceOutlivesToken
  BY TablesConsistent, PTL DEF SessionInv

-----------------------------------------------------------------------------
\* What the tables say about a token that would be rotated, and conversely.

LEMMA UsableMeans ==
  ASSUME SessionInv, NEW j \in Jtis
  PROVE  Usable(j) <=>
            /\ ~Fresh(j) /\ issued[j].exp > now
            /\ families[issued[j].sid] # None
            /\ families[issued[j].sid].revoked = None
            /\ sessions[j] # None /\ sessions[j].revoked = None
  <1> USE DEF SessionInv
  <1>1. ASSUME Usable(j)
        PROVE  /\ ~Fresh(j) /\ issued[j].exp > now
               /\ families[issued[j].sid] # None
               /\ families[issued[j].sid].revoked = None
               /\ sessions[j] # None /\ sessions[j].revoked = None
    BY <1>1, NoFault DEF Usable, RowsFound
  <1>2. ASSUME ~Fresh(j), issued[j].exp > now,
               families[issued[j].sid] # None, families[issued[j].sid].revoked = None,
               sessions[j] # None, sessions[j].revoked = None
        PROVE  Usable(j)
    <2> DEFINE f == issued[j].sid
    <2>1. /\ f \in Families /\ families[f] \in FamilyRow
          /\ issued[j] \in Claims
      BY <1>2 DEF TypeOK, Fresh, Claims
    <2>2. /\ FamilyMatches(issued[j]) /\ families[f].expires > now
          /\ SessionMatches(j) /\ sessions[j].expires > now
      BY <1>2, <2>1 DEF TokensMatchFamily, RowsMatchTokens, TypeOK, FamilyRow, Claims
    <2>3. ~FamilyLapsed(f)
      BY <1>2, <2>1, <2>2 DEF FamiliesSound, FamilyLapsed, TypeOK, FamilyRow
    <2>4. UserUsable(issued[j].sub) /\ users[issued[j].sub].ver = issued[j].ver
      BY <1>2, <2>1, <2>2 DEF OpenFamilyMatchesAccount, FamilyMatches
    <2>5. ~(sessions[j].expires =< now)
      BY <2>2, <1>2 DEF TypeOK, SessionRow
    <2>6. RefreshFault(j) = None
      BY <1>2, <2>2, <2>3, <2>4, <2>5 DEF RefreshFault
    <2> QED BY <1>2, <2>4, <2>6 DEF Usable, RowsFound, UserUsable
  <1> QED BY <1>1, <1>2

LEMMA OpenOffersOne == SessionInv => OpenFamilyOffersOneToken
  <1> SUFFICES ASSUME SessionInv, NEW f \in Families, Open(f)
               PROVE  \E j \in Jtis : Offer(f) = {j} /\ ~Consumed(j)
    BY DEF OpenFamilyOffersOneToken
  <1> USE DEF SessionInv
  <1>1. PICK j \in Jtis : Unconsumed(j, f)
    BY DEF NewestRow, Open
  <1>2. /\ ~Fresh(j) /\ issued[j].sid = f
        /\ issued[j].exp = families[f].expires
    BY <1>1 DEF RowsMatchTokens, SessionMatches, NewestRow, Open, Unconsumed
  <1>3. Usable(j)
    BY <1>1, <1>2, UsableMeans DEF Open, Unconsumed
  <1>4. \A k \in Jtis : Usable(k) /\ issued[k].sid = f => k = j
    <2> SUFFICES ASSUME NEW k \in Jtis, Usable(k), issued[k].sid = f PROVE k = j
      OBVIOUS
    <2>1. Unconsumed(k, f)
      BY UsableMeans DEF RowsMatchTokens, SessionMatches, Unconsumed
    <2> QED BY <1>1, <2>1 DEF NewestRow, Open
  <1>5. ~Consumed(j)
    BY <1>1 DEF Consumed, Lineage, Unconsumed
  <1> QED BY <1>2, <1>3, <1>4, <1>5 DEF Offer

\* An open family always offers exactly one token, its newest.
THEOREM OneTokenOffered == Spec => []OpenFamilyOffersOneToken
  BY TablesConsistent, OpenOffersOne, PTL

LEMMA WithinAbsolute == SessionInv => AbsoluteLifetime
  <1> SUFFICES ASSUME SessionInv PROVE AbsoluteLifetime
    OBVIOUS
  <1> USE DEF SessionInv
  <1>1. ASSUME NEW j \in Jtis, Usable(j)
        PROVE  /\ issued[j].exp =< families[issued[j].sid].absolute
               /\ now < families[issued[j].sid].absolute
    <2>1. /\ ~Fresh(j) /\ issued[j].exp > now
          /\ families[issued[j].sid] # None
          /\ issued[j] \in Claims
      BY <1>1, UsableMeans DEF TypeOK, Fresh
    <2>2. families[issued[j].sid] \in FamilyRow
      BY <2>1 DEF TypeOK, Claims
    <2> QED BY <2>1, <2>2 DEF TokensMatchFamily, FamiliesSound, TypeOK, Claims, FamilyRow
  <1>2. ASSUME NEW a \in access, Accepted(a)
        PROVE  now < families[a.sid].absolute
    <2>1. a.sid \in Families /\ families[a.sid] \in FamilyRow
      BY <1>2 DEF TypeOK, AccessToken, Accepted
    <2> QED BY <1>2, <2>1 DEF FamiliesSound, Accepted, TypeOK, FamilyRow
  <1> QED BY <1>1, <1>2 DEF AbsoluteLifetime

\* No rotation carries a session past the lifetime fixed at its login.
THEOREM AbsoluteLifetimeKept == Spec => []AbsoluteLifetime
  BY TablesConsistent, WithinAbsolute, PTL

-----------------------------------------------------------------------------
\* Every step but a login and a rotation can only close: it signs nothing, and
\* a family or a row that is unrevoked after it was so before it.

OtherStep ==
    \/ \E r \in Requests :
        \/ \E op \in {"refresh", "logout"}, j \in Jtis : Decode(r, op, j)
        \/ Abandon(r) \/ RefreshUnknown(r) \/ LogoutIgnored(r)
        \/ RefreshRefused(r) \/ LogoutServed(r)
    \/ \E u \in Users : \/ DisableUser(u) \/ DeleteUser(u) \/ ReplacePassword(u)
                       \/ EnableUser(u) \/ RestoreUser(u) \/ PurgeUser(u)
    \/ \E S \in SUBSET Jtis, F \in SUBSET Families : Cleanup(S, F)
    \/ Tick
    \/ UNCHANGED vars

OnlyCloses ==
    /\ issued' = issued /\ access' = access /\ now =< now'
    /\ \A f \in Families : families'[f] # None /\ families'[f].revoked = None =>
            families'[f] = families[f]
    /\ \A j \in Jtis : sessions'[j] # None /\ sessions'[j].revoked = None =>
            sessions'[j] = sessions[j]

LEMMA OtherStepsClose == SessionInv /\ OtherStep => OnlyCloses
  <1> SUFFICES ASSUME SessionInv, OtherStep PROVE OnlyCloses
    OBVIOUS
  <1> USE DEF SessionInv
  <1>1. ASSUME NEW r \in Requests,
               \/ \E op \in {"refresh", "logout"}, j \in Jtis : Decode(r, op, j)
               \/ Abandon(r) \/ RefreshUnknown(r) \/ LogoutIgnored(r)
        PROVE  OnlyCloses
    BY <1>1 DEF Decode, Abandon, RefreshUnknown, LogoutIgnored, OnlyCloses, TypeOK
  <1>2. ASSUME NEW r \in Requests, RefreshRefused(r) PROVE OnlyCloses
    <2> DEFINE j == requests[r].jti
               f == issued[j].sid
    <2>1. j \in Jtis /\ f \in Families /\ families[f] # None /\ RefreshFault(j) \in Reasons
      BY <1>2, FaultReason DEF RefreshRefused, RowsFound, TypeOK, Request, RequestsDecoded, Fresh, Claims
    <2>2. \A g \in Families : families'[g] = families[g] \/ families'[g].revoked # None
      BY <1>2, <2>1 DEF RefreshRefused, RevokeFamily, TypeOK, FamilyRow
    <2>3. \A i \in Jtis : \/ sessions'[i] = sessions[i]
                          \/ sessions[i] = None
                          \/ sessions'[i].revoked # None
      BY <1>2, <2>1 DEF RefreshRefused, TypeOK, SessionRow, Reasons
    <2>4. \A i \in Jtis : sessions[i] = None => sessions'[i] = None
      BY <1>2, <2>1 DEF RefreshRefused, RefreshFault, TypeOK, SessionRow, Reasons
    <2> QED BY <1>2, <2>2, <2>3, <2>4 DEF RefreshRefused, OnlyCloses, TypeOK
  <1>3. ASSUME NEW r \in Requests, LogoutServed(r) PROVE OnlyCloses
    <2> DEFINE f == issued[requests[r].jti].sid
    <2>1. f \in Families /\ families[f] # None
      BY <1>3 DEF LogoutServed, RowsFound, TypeOK, Request, RequestsDecoded, Fresh, Claims
    <2>2. \A g \in Families : families'[g] = families[g] \/ families'[g].revoked # None
      BY <1>3, <2>1 DEF LogoutServed, RevokeFamily, TypeOK, FamilyRow, Reasons
    <2> QED BY <1>3, <2>2 DEF LogoutServed, OnlyCloses, TypeOK
  <1>4. ASSUME NEW u \in Users, DisableUser(u) \/ DeleteUser(u) \/ ReplacePassword(u)
        PROVE  OnlyCloses
    <2>1. families' = RevokeAllFamilies(u, "user_security_change")
      BY <1>4 DEF DisableUser, DeleteUser, ReplacePassword, RevokeAll
    <2>2. \A g \in Families : families'[g] = families[g] \/ families'[g].revoked # None
      BY <2>1 DEF RevokeAllFamilies, TypeOK, FamilyRow, Reasons
    <2> QED BY <1>4, <2>2 DEF DisableUser, DeleteUser, ReplacePassword, OnlyCloses, TypeOK
  <1>5. ASSUME NEW u \in Users, EnableUser(u) \/ RestoreUser(u) \/ PurgeUser(u)
        PROVE  OnlyCloses
    BY <1>5 DEF EnableUser, RestoreUser, PurgeUser, OnlyCloses, TypeOK
  <1>6. ASSUME NEW S \in SUBSET Jtis, NEW F \in SUBSET Families, Cleanup(S, F)
        PROVE  OnlyCloses
    BY <1>6 DEF Cleanup, OnlyCloses, TypeOK
  <1>7. ASSUME Tick PROVE OnlyCloses
    BY <1>7 DEF Tick, OnlyCloses, TypeOK
  <1>8. ASSUME UNCHANGED vars PROVE OnlyCloses
    BY <1>8 DEF vars, OnlyCloses, TypeOK
  <1> QED BY <1>1, <1>2, <1>3, <1>4, <1>5, <1>6, <1>7, <1>8 DEF OtherStep

LEMMA NextCases ==
  [Next]_vars => \/ \E u \in Users, f \in Families, j \in Jtis : Login(u, f, j)
                 \/ \E r \in Requests, k \in Jtis : RefreshRotated(r, k)
                 \/ OtherStep
  BY DEF Next, OtherStep

-----------------------------------------------------------------------------
\* Access tokens

\* Given the invariant, the account columns add nothing to the family's.
LEMMA AcceptedMeans ==
  SessionInv => \A a \in access :
      Accepted(a) <=> a.exp > now /\ Open(a.sid) /\ FamilyMatches(a)
  BY DEF SessionInv, Accepted, Open, OpenFamilyMatchesAccount, FamilyMatches, TypeOK,
         AccessToken

\* A family of an access token in circulation is not opened by any step.
LEMMA NothingReopens ==
  ASSUME SessionInv, [Next]_vars, NEW a \in access,
         a.exp > now', Open(a.sid)', FamilyMatches(a)'
  PROVE  a.exp > now /\ Open(a.sid) /\ FamilyMatches(a)
  <1> USE DEF SessionInv
  <1>0. a.sid \in Families /\ ~FreshFamily(a.sid) /\ a.exp \in Nat /\ now \in Nat
    BY DEF AccessOfKnownFamily, TypeOK, AccessToken
  <1>1. CASE \E u \in Users, f \in Families, j \in Jtis : Login(u, f, j)
    <2>1. PICK u \in Users, f \in Families, j \in Jtis : Login(u, f, j)
      BY <1>1
    <2>2. families'[a.sid] = families[a.sid] /\ now' = now
      BY <1>0, <2>1 DEF Login, TypeOK
    <2> QED BY <2>2 DEF Open, FamilyMatches
  <1>2. CASE \E r \in Requests, k \in Jtis : RefreshRotated(r, k)
    <2>1. PICK r \in Requests, k \in Jtis : RefreshRotated(r, k)
      BY <1>2
    <2> DEFINE j == requests[r].jti
    <2>2. j \in Jtis /\ ~Fresh(j) /\ RowsFound(j) /\ RefreshFault(j) = None
      BY <2>1 DEF RefreshRotated, TypeOK, Request, RequestsDecoded
    <2>3. Open(issued[j].sid)
      BY <2>2, NoFault DEF Open, RowsFound
    <2>4. /\ \A g \in Families : g # issued[j].sid => families'[g] = families[g]
          /\ families[issued[j].sid] # None /\ issued[j].sid \in Families
          /\ families'[issued[j].sid].owner = families[issued[j].sid].owner
          /\ families'[issued[j].sid].ver = families[issued[j].sid].ver
          /\ now' = now
      BY <2>1, <2>2 DEF RefreshRotated, RowsFound, TypeOK, Fresh, Claims, FamilyRow
    <2> HIDE DEF j
    <2> QED BY <1>0, <2>3, <2>4 DEF Open, FamilyMatches
  <1>3. CASE OtherStep
    <2>1. OnlyCloses
      BY <1>3, OtherStepsClose
    <2>2. families'[a.sid] = families[a.sid] /\ now =< now'
      BY <1>0, <2>1 DEF OnlyCloses, Open
    <2>3. now' \in Nat /\ families[a.sid] \in FamilyRow
      BY <1>0, <1>3, <2>2, NextKeeps DEF TypeOK, Open
    <2> QED BY <1>0, <2>2, <2>3 DEF Open, FamilyMatches, FamilyRow
  <1> QED BY <1>1, <1>2, <1>3, NextCases

LEMMA AccessStep ==
  SessionInv /\ SessionInv' /\ [Next]_vars
    => [\A a \in access : ~Accepted(a) => ~Accepted(a)']_vars
  <1> SUFFICES ASSUME SessionInv, SessionInv', [Next]_vars, NEW a \in access,
                      Accepted(a)'
               PROVE  Accepted(a)
    OBVIOUS
  <1>1. a \in access'
    BY NextCases, OtherStepsClose DEF Login, RefreshRotated, OnlyCloses
  <1>2. a.exp > now' /\ Open(a.sid)' /\ FamilyMatches(a)'
    BY DEF Accepted, Open, FamilyMatches
  <1> QED BY <1>2, NothingReopens, AcceptedMeans

\* An access token that stopped being accepted stays refused for ever.
THEOREM AccessStaysRefused == Spec => AccessNeverRevived
  BY TablesConsistent, AccessStep, PTL DEF Spec, AccessNeverRevived

-----------------------------------------------------------------------------
\* Replay and logout

ClosedDead ==
    \A f \in Families : families[f] = None \/ families[f].revoked # None => ~Alive(f)

LEMMA ClosedIsDead == SessionInv => ClosedDead
  <1> SUFFICES ASSUME SessionInv, NEW f \in Families,
                      families[f] = None \/ families[f].revoked # None
               PROVE  ~Alive(f)
    BY DEF ClosedDead
  <1>1. Offer(f) = {}
    BY UsableMeans DEF Offer
  <1>2. \A a \in access : ~(Accepted(a) /\ a.sid = f)
    BY DEF Accepted
  <1> QED BY <1>1, <1>2 DEF Alive

\* Every call that ends without a rotation has found its family closed or
\* leaves it closed; a rotation had an unconsumed token.
LEMMA ServedCallCloses ==
  ASSUME SessionInv, NEW r \in Requests, NEW f \in Families,
         requests[r] # None, issued[requests[r].jti].sid = f,
         \/ RefreshUnknown(r) \/ RefreshRefused(r)
         \/ LogoutServed(r) \/ LogoutIgnored(r)
  PROVE  families'[f] = None \/ families'[f].revoked # None
  <1> DEFINE j == requests[r].jti
  <1> USE DEF SessionInv
  <1>1. /\ j \in Jtis /\ ~Fresh(j) /\ issued[j] \in Claims
    BY DEF TypeOK, Request, RequestsDecoded, Fresh
  <1>2. CASE RefreshUnknown(r)
    <2>1. families[f] # None => FALSE
      BY <1>1, <1>2 DEF RefreshUnknown, RowsFound, FamiliesSound, TokensMatchFamily, FamilyMatches
    <2> QED BY <1>2, <2>1 DEF RefreshUnknown
  <1>3. CASE RefreshRefused(r)
    <2>1. RefreshFault(j) \in Reasons
      BY <1>1, <1>3, FaultReason DEF RefreshRefused
    <2> QED BY <1>3, <2>1 DEF RefreshRefused, RevokeFamily, TypeOK, FamilyRow, RowsFound
  <1>4. CASE LogoutServed(r)
    BY <1>4 DEF LogoutServed, RevokeFamily, TypeOK, FamilyRow, RowsFound, Reasons
  <1>5. CASE LogoutIgnored(r)
    BY <1>1, <1>5 DEF LogoutIgnored, RowsFound, FamiliesSound, TokensMatchFamily, FamilyMatches
  <1> QED BY <1>2, <1>3, <1>4, <1>5

LEMMA ReplayStep ==
  SessionInv /\ SessionInv' /\ [Next]_vars =>
    [\A r \in Requests, f \in Families :
        /\ requests[r] # None /\ Consumed(requests[r].jti)
        /\ issued[requests[r].jti].sid = f
        /\ \/ RefreshUnknown(r)
           \/ RefreshRefused(r)
           \/ \E k \in Jtis : RefreshRotated(r, k)
        => ~Alive(f)']_vars
  <1> SUFFICES ASSUME SessionInv, SessionInv', NEW r \in Requests, NEW f \in Families,
                      \/ RefreshUnknown(r) \/ RefreshRefused(r)
                      \/ \E k \in Jtis : RefreshRotated(r, k),
                      Consumed(requests[r].jti),
                      issued[requests[r].jti].sid = f
               PROVE  ~Alive(f)'
    OBVIOUS
  <1>1. requests[r] # None
    BY DEF RefreshUnknown, RefreshRefused, RefreshRotated
  <1>2. ASSUME NEW k \in Jtis, RefreshRotated(r, k) PROVE FALSE
    <2> DEFINE j == requests[r].jti
    <2>1. j \in Jtis /\ ~Fresh(j) /\ RowsFound(j) /\ RefreshFault(j) = None
      BY <1>1, <1>2 DEF RefreshRotated, SessionInv, TypeOK, Request, RequestsDecoded
    <2>2. sessions[j] # None /\ sessions[j].revoked = None
      BY <2>1, NoFault DEF SessionInv
    <2> QED BY <2>1, <2>2 DEF Consumed, SessionInv, Lineage
  <1>3. families'[f] = None \/ families'[f].revoked # None
    BY <1>1, <1>2, ServedCallCloses
  <1>4. ClosedDead'
    BY ClosedIsDead, PTL
  <1> QED BY <1>3, <1>4 DEF ClosedDead

\* Serving a consumed token ends its whole family.
THEOREM ReplayEndsEverything == Spec => ReplayEndsFamily
  BY TablesConsistent, ReplayStep, PTL DEF Spec, ReplayEndsFamily

LEMMA LogoutStep ==
  SessionInv /\ SessionInv' /\ [Next]_vars =>
    [\A r \in Requests, f \in Families :
        /\ requests[r] # None /\ issued[requests[r].jti].sid = f
        /\ LogoutServed(r) \/ LogoutIgnored(r)
        => ~Alive(f)']_vars
  <1> SUFFICES ASSUME SessionInv, SessionInv', NEW r \in Requests, NEW f \in Families,
                      LogoutServed(r) \/ LogoutIgnored(r),
                      issued[requests[r].jti].sid = f
               PROVE  ~Alive(f)'
    OBVIOUS
  <1>1. requests[r] # None
    BY DEF LogoutServed, LogoutIgnored
  <1>2. families'[f] = None \/ families'[f].revoked # None
    BY <1>1, ServedCallCloses
  <1>3. ClosedDead'
    BY ClosedIsDead, PTL
  <1> QED BY <1>2, <1>3 DEF ClosedDead

\* An answered logout leaves nothing of its family alive.
THEOREM LogoutEndsEverything == Spec => LogoutEndsFamily
  BY TablesConsistent, LogoutStep, PTL DEF Spec, LogoutEndsFamily

-----------------------------------------------------------------------------
\* The tables implement the promise

OfferByRows ==
    \A f \in Families : Offer(f) = {j \in Jtis : Unconsumed(j, f) /\ Open(f)}

LEMMA OfferMeans == SessionInv => OfferByRows
  <1> SUFFICES ASSUME SessionInv, NEW f \in Families, NEW j \in Jtis
               PROVE  (Usable(j) /\ issued[j].sid = f) <=> (Unconsumed(j, f) /\ Open(f))
    BY DEF Offer, OfferByRows
  <1> USE DEF SessionInv
  <1>1. ASSUME Usable(j), issued[j].sid = f PROVE Unconsumed(j, f) /\ Open(f)
    <2>1. /\ ~Fresh(j) /\ issued[j].exp > now /\ families[f] # None
          /\ families[f].revoked = None /\ sessions[j] # None /\ sessions[j].revoked = None
      BY <1>1, UsableMeans
    <2>2. issued[j] \in Claims /\ families[f] \in FamilyRow
      BY <2>1 DEF TypeOK, Fresh
    <2>3. families[f].expires > now
      BY <1>1, <2>1, <2>2 DEF TokensMatchFamily, TypeOK, Claims, FamilyRow
    <2> QED BY <1>1, <2>1, <2>3 DEF Unconsumed, Open, RowsMatchTokens, SessionMatches
  <1>2. ASSUME Unconsumed(j, f), Open(f) PROVE Usable(j) /\ issued[j].sid = f
    <2>1. /\ ~Fresh(j) /\ issued[j].sid = f /\ issued[j].exp = families[f].expires
      BY <1>2 DEF Unconsumed, Open, RowsMatchTokens, SessionMatches, NewestRow
    <2> QED BY <1>2, <2>1, UsableMeans DEF Unconsumed, Open
  <1> QED BY <1>1, <1>2

LEMMA PromiseInitially == Init => Promise!PromiseInit
  BY DEF Init, Promise!PromiseInit, FreshFamily, Fresh, Offer, Usable

LEMMA PromiseBegin ==
  ASSUME SessionInv, SessionInv', NEW u \in Users, NEW f \in Families, NEW j \in Jtis,
         Login(u, f, j)
  PROVE  Promise!Begin(f, j)
  <1> USE DEF SessionInv
  <1>1. FreshFamily(f) /\ Fresh(j)
    BY DEF Login
  <1>2. /\ \A i \in Jtis : Fresh(i)' <=> Fresh(i) /\ i # j
        /\ \A i \in Jtis \ {j} : issued'[i] = issued[i] /\ sessions'[i] = sessions[i]
        /\ issued'[j].sid = f
        /\ \A g \in Families \ {f} : families'[g] = families[g]
        /\ now' = now
    <2>1. /\ \A i \in Jtis \ {j} : issued'[i] = issued[i] /\ sessions'[i] = sessions[i]
          /\ \A g \in Families \ {f} : families'[g] = families[g]
          /\ now' = now
      BY DEF Login, TypeOK
    <2>2. issued'[j].sid = f
      BY DEF Login, TypeOK
    <2>3. issued'[j] # None
      <3>1. PICK e \in Nat : e = RefreshExpiry(now + AbsoluteLife)
        BY DEF RefreshExpiry, Earlier, TypeOK
      <3>2. [sub |-> u, sid |-> f, ver |-> users[u].ver, exp |-> e, prev |-> None] \in Claims
        BY DEF Login, UserUsable, UserRow, TypeOK, Claims
      <3> QED BY <3>1, <3>2 DEF Login, TypeOK
    <2> QED BY <1>1, <2>1, <2>2, <2>3 DEF Fresh
  <1>3. \A g \in Families : FreshFamily(g)' <=> FreshFamily(g) /\ g # f
    BY <1>1, <1>2 DEF FreshFamily, Fresh
  <1>4. sessions[j] = None
    BY <1>1 DEF RowsMatchTokens
  <1>5. /\ sessions'[j] # None /\ sessions'[j].family = f /\ sessions'[j].revoked = None
        /\ families'[f] # None /\ families'[f].revoked = None /\ families'[f].expires > now
    BY DEF Login, TypeOK, SessionRow, FamilyRow, RefreshExpiry, Earlier, UserUsable, UserRow
  <1>6. OfferByRows'
    BY OfferMeans, PTL
  <1>7. \A g \in Families \ {f} : Offer(g)' = Offer(g)
    <2>1. \A g \in Families \ {f}, i \in Jtis : Unconsumed(i, g)' <=> Unconsumed(i, g)
      BY <1>2, <1>4, <1>5 DEF Unconsumed
    <2>2. \A g \in Families \ {f} : Open(g)' <=> Open(g)
      BY <1>2 DEF Open
    <2> QED BY <1>6, <2>1, <2>2, OfferMeans DEF OfferByRows
  <1>8. Offer(f)' = {j}
    <2>1. \A i \in Jtis : Unconsumed(i, f)' <=> i = j
      BY <1>1, <1>2, <1>5 DEF Unconsumed, RowsMatchTokens, SessionMatches, FreshFamily
    <2>2. Open(f)'
      BY <1>2, <1>5 DEF Open
    <2> QED BY <1>6, <2>1, <2>2 DEF OfferByRows
  <1> QED BY <1>1, <1>2, <1>3, <1>7, <1>8 DEF Promise!Begin

LEMMA PromiseExchange ==
  ASSUME SessionInv, SessionInv', NEW r \in Requests, NEW k \in Jtis, RefreshRotated(r, k)
  PROVE  \E f \in Families, j \in Jtis : Promise!Exchange(f, j, k)
  <1> USE DEF SessionInv
  <1>1. PICK j \in Jtis, f \in Families, expires \in Nat :
            /\ Consumable(r, k, j, f) /\ NewExpiry(f, expires)
            /\ TokenSigned(k, j, f, expires) /\ FamilyExtended(f, expires)
            /\ RowReplaced(k, j, f, expires) /\ Answered(r, j, f)
    BY RotatedEffect
  <1>2. {i \in Jtis : ~Fresh(i)'} = {i \in Jtis : ~Fresh(i)} \cup {k}
    BY <1>1 DEF Fresh, TokenSigned
  <1>3. \A g \in Families : FreshFamily(g)' <=> FreshFamily(g)
    BY <1>1 DEF FreshFamily, Fresh, TokenSigned, Consumable
  <1>4. OfferByRows /\ OfferByRows'
    BY OfferMeans, PTL
  <1>5. \A g \in Families \ {f} : Offer(g)' = Offer(g)
    <2>1. \A g \in Families \ {f}, i \in Jtis : Unconsumed(i, g)' <=> Unconsumed(i, g)
      BY <1>1 DEF Unconsumed, Consumable, RowReplaced
    <2>2. \A g \in Families \ {f} : Open(g)' <=> Open(g)
      BY <1>1 DEF Open, FamilyExtended, Answered
    <2> QED BY <1>4, <2>1, <2>2 DEF OfferByRows
  <1>6. Offer(f) = {j}
    <2>1. Open(f) /\ Unconsumed(j, f)
      BY <1>1 DEF Open, Unconsumed, Consumable
    <2>2. \A i \in Jtis : Unconsumed(i, f) => i = j
      BY <2>1 DEF NewestRow, Open
    <2> QED BY <1>4, <2>1, <2>2 DEF OfferByRows
  <1>7. Offer(f)' = {k}
    <2>1. Unconsumed(k, f)' /\ Open(f)'
      BY <1>1 DEF Unconsumed, Open, RowReplaced, FamilyExtended, NewExpiry, Answered
    <2>2. \A i \in Jtis : Unconsumed(i, f) => i = j
      BY <1>4, <1>6, <1>1 DEF OfferByRows, Open, Consumable
    <2>3. \A i \in Jtis : Unconsumed(i, f)' => i = k
      <3>1. /\ sessions'[j].revoked # None
            /\ \A i \in Jtis \ {j, k} : sessions'[i] = sessions[i]
        BY <1>1 DEF RowReplaced
      <3> QED BY <2>2, <3>1 DEF Unconsumed
    <2> QED BY <1>4, <2>1, <2>3 DEF OfferByRows
  <1>8. Promise!Exchange(f, j, k)
    BY <1>1, <1>2, <1>3, <1>5, <1>6, <1>7 DEF Promise!Exchange, Consumable
  <1> QED BY <1>8

LEMMA PromiseEnd ==
  ASSUME SessionInv, SessionInv', OnlyCloses
  PROVE  \E E \in SUBSET Families : Promise!End(E)
  <1> USE DEF SessionInv
  <1>1. OfferByRows'
    BY OfferMeans, PTL
  <1>2. \A f \in Families : Offer(f)' \subseteq Offer(f)
    <2> SUFFICES ASSUME NEW f \in Families, NEW j \in Jtis,
                        sessions'[j] # None, sessions'[j].family = f, sessions'[j].revoked = None,
                        Open(f)'
                 PROVE  Unconsumed(j, f) /\ Open(f)
      BY <1>1, OfferMeans DEF OfferByRows, Unconsumed
    <2>1. sessions'[j] = sessions[j] /\ families'[f] = families[f] /\ now =< now'
      BY DEF OnlyCloses, Open
    <2>2. now \in Nat /\ now' \in Nat /\ families[f] \in FamilyRow
      BY <2>1 DEF TypeOK, Open
    <2> QED BY <2>1, <2>2 DEF OfferByRows, Unconsumed, Open, FamilyRow
  <1>3. \A f \in Families : \A i, j \in Offer(f) : i = j
    BY OfferMeans DEF OfferByRows, Unconsumed, Open, NewestRow
  <1> DEFINE E == {f \in Families : Offer(f)' = {}}
  <1>4. \A f \in Families : Offer(f)' = IF f \in E THEN {} ELSE Offer(f)
    BY <1>2, <1>3
  <1>5. Promise!End(E)
    BY <1>4 DEF Promise!End, OnlyCloses, FreshFamily, Fresh
  <1> QED BY <1>5

LEMMA PromiseStep ==
  SessionInv /\ SessionInv' /\ [Next]_vars => [Promise!PromiseNext]_(Promise!promiseVars)
  <1> SUFFICES ASSUME SessionInv, SessionInv', [Next]_vars PROVE Promise!PromiseNext
    OBVIOUS
  <1>1. CASE \E u \in Users, f \in Families, j \in Jtis : Login(u, f, j)
    BY <1>1, PromiseBegin DEF Promise!PromiseNext
  <1>2. CASE \E r \in Requests, k \in Jtis : RefreshRotated(r, k)
    BY <1>2, PromiseExchange DEF Promise!PromiseNext
  <1>3. CASE OtherStep
    BY <1>3, OtherStepsClose, PromiseEnd DEF Promise!PromiseNext
  <1> QED BY <1>1, <1>2, <1>3, NextCases

\* Step by step, the three tables keep the promise made to a session's holder.
THEOREM TablesKeepPromise == Spec => ImplementsPromise
  BY TablesConsistent, PromiseInitially, PromiseStep, PTL
     DEF Spec, ImplementsPromise, Promise!PromiseSpec

\* So a session that has ended stays ended: re-enabling an account, restoring it
\* or replaying a token brings nothing back.
THEOREM EndedStaysEnded == Spec => Promise!EndedForGood
  <1> DEFINE Ended(f) == ~FreshFamily(f) /\ Offer(f) = {} => Offer(f)' = {}
  <1>1. ASSUME SessionInv, SessionInv', [Next]_vars, NEW f \in Families PROVE Ended(f)
    <2>1. CASE \E g \in Families, j \in Jtis : Promise!Begin(g, j)
      BY <2>1 DEF Promise!Begin
    <2>2. CASE \E g \in Families, j, k \in Jtis : Promise!Exchange(g, j, k)
      BY <2>2 DEF Promise!Exchange
    <2>3. CASE \E E \in SUBSET Families : Promise!End(E)
      BY <2>3 DEF Promise!End
    <2>4. CASE UNCHANGED Promise!promiseVars
      BY <2>4 DEF Promise!promiseVars
    <2> QED BY <1>1, <2>1, <2>2, <2>3, <2>4, PromiseStep DEF Promise!PromiseNext
  <1>2. SessionInv /\ SessionInv' /\ [Next]_vars
          => [Promise!StaysEnded]_(Promise!promiseVars)
    BY <1>1 DEF Promise!StaysEnded
  <1> QED BY <1>2, TablesConsistent, PTL DEF Spec, Promise!EndedForGood
=============================================================================
