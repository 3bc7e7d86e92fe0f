------------------------- MODULE CredentialsProofs -------------------------
EXTENDS Credentials, PasswordGate, FiniteSetTheorems, TLAPS

LEMMA InitSound == Init => CredentialsInv
  <1> SUFFICES ASSUME Init PROVE CredentialsInv
    OBVIOUS
  <1>1. TypeOK
    <2>1. [pw : Passwords, alg : Algorithms, owner : Users, n : {0}] \subseteq Hash
      BY DEF Hash
    <2>2. [hash : [pw : Passwords, alg : Algorithms, owner : Users, n : {0}],
           ident : Idents, active : {TRUE}, deleted : {FALSE}] \subseteq Account
      BY <2>1 DEF Account
    <2> QED BY <2>2 DEF Init, TypeOK
  <1>2. SeenChecked /\ HashesOwned /\ IdentsUnique /\ OpenedWithStoredPassword
    BY DEF Init, SeenChecked, HashesOwned, IdentsUnique, OpenedWithStoredPassword
  <1> QED BY <1>1, <1>2 DEF CredentialsInv

\* What a new hash is, and an upgraded one.
LEMMA NewHashes ==
  ASSUME NEW pw \in Passwords, NEW hash \in Hash
  PROVE  /\ NewHash(pw, hash) \in Hash
         /\ NewHash(pw, hash).pw = pw /\ NewHash(pw, hash).alg = "argon2"
         /\ NewHash(pw, hash).owner = hash.owner
  BY DEF NewHash, Hash, Algorithms

LEMMA UpgradedHashes ==
  ASSUME NEW pw \in Passwords, NEW hash \in Hash
  PROVE  /\ Upgraded(pw, hash) \in Hash
         /\ Upgraded(pw, hash).alg = "argon2"
         /\ Upgraded(pw, hash).owner = hash.owner
         /\ hash.alg = "argon2" => Upgraded(pw, hash) = hash
         /\ Verifies(pw, hash) => Upgraded(pw, hash).pw = pw
  BY NewHashes DEF Upgraded, Verifies, Hash, Algorithms

\* A current hash accepts one password.
LEMMA CurrentHashAccepts ==
  ASSUME NEW hash \in Hash, hash.alg = "argon2", NEW p
  PROVE  Verifies(p, hash) <=> p = hash.pw
  BY DEF Verifies

\* What the end of a call leaves.
LEMMA FinishEffect ==
  ASSUME TypeOK, SeenChecked, NEW t \in Tx, Finish(t)
  PROVE  /\ tx' \in [Tx -> Call \cup {None}]
         /\ SeenChecked'
         /\ tx'[t] = None
  <1>1. /\ tx' \in [Tx -> Call \cup {None}] /\ tx'[t] = None
        /\ \A s \in Tx \ {t} : tx'[s] = tx[s]
    BY DEF Finish, TypeOK, Call
  <1>2. SeenChecked'
    BY <1>1 DEF SeenChecked
  <1> QED BY <1>1, <1>2

\* What the start of a call leaves.
LEMMA StartKeeps ==
  ASSUME CredentialsInv, NEW t \in Tx, NEW call \in Call, tx' = [tx EXCEPT ![t] = call],
         call.op # "reset" /\ call.seen # None => Verifies(call.pw, call.seen),
         UNCHANGED <<rows, open>>
  PROVE  CredentialsInv'
  <1>1. /\ tx' \in [Tx -> Call \cup {None}] /\ tx'[t] = call
        /\ \A s \in Tx \ {t} : tx'[s] = tx[s]
    BY DEF CredentialsInv, TypeOK, Call
  <1>2. TypeOK'
    BY <1>1 DEF CredentialsInv, TypeOK, Call
  <1>3. SeenChecked'
    BY <1>1 DEF CredentialsInv, SeenChecked
  <1>4. HashesOwned' /\ IdentsUnique' /\ OpenedWithStoredPassword'
    BY DEF CredentialsInv, HashesOwned, IdentsUnique, OpenedWithStoredPassword
  <1> QED BY <1>2, <1>3, <1>4 DEF CredentialsInv

LEMMA CheckedMeans ==
  ASSUME NEW pw, NEW usable, NEW hash \in Hash
  PROVE  /\ Checked(pw, usable, hash) \in Hash \cup {None}
         /\ Checked(pw, usable, hash) # None => Verifies(pw, Checked(pw, usable, hash))
  BY DEF Checked

LEMMA LoginReadKeeps ==
  ASSUME CredentialsInv, NEW t \in Tx, NEW ident \in Idents, NEW pw \in Passwords,
         LoginRead(t, ident, pw)
  PROVE  CredentialsInv'
  <1>1. PICK seen \in Hash \cup {None} :
          /\ Start(t, [op |-> "login", ident |-> ident, pw |-> pw, seen |-> seen])
          /\ seen # None => Verifies(pw, seen)
    <2>1. CASE \E u \in Users :
            /\ Named(ident, u)
            /\ Start(t, [op |-> "login", ident |-> ident, pw |-> pw,
                         seen |-> Checked(pw, rows[u].active, rows[u].hash)])
      <3>1. PICK u \in Users : Start(t, [op |-> "login", ident |-> ident, pw |-> pw,
                         seen |-> Checked(pw, rows[u].active, rows[u].hash)])
        BY <2>1
      <3>2. rows[u].hash \in Hash
        BY DEF CredentialsInv, TypeOK, Account
      <3> QED BY <3>1, <3>2, CheckedMeans
    <2>2. CASE Start(t, [op |-> "login", ident |-> ident, pw |-> pw, seen |-> None])
      BY <2>2
    <2> QED BY <2>1, <2>2 DEF LoginRead
  <1> DEFINE call == [op |-> "login", ident |-> ident, pw |-> pw, seen |-> seen]
  <1>2. call \in Call
    BY DEF Call, Login
  <1>3. UNCHANGED <<rows, open>> /\ tx' = [tx EXCEPT ![t] = call]
    BY <1>1 DEF LoginRead, Start
  <1>4. call.op # "reset" /\ call.seen # None => Verifies(call.pw, call.seen)
    BY <1>1
  <1> HIDE DEF call
  <1> QED BY <1>2, <1>3, <1>4, StartKeeps

LEMMA ChangeBegunKeeps ==
  ASSUME CredentialsInv, NEW t \in Tx, NEW u \in Users, NEW old \in Passwords,
         NEW new \in Passwords, ChangeBegun(t, u, old, new)
  PROVE  CredentialsInv'
  <1> DEFINE call == [op |-> "change", read |-> FALSE, user |-> u,
                      pw |-> old, new |-> new, seen |-> None]
  <1>1. call \in Call /\ call.seen = None
    BY DEF Call, Change
  <1>2. UNCHANGED <<rows, open>> /\ tx' = [tx EXCEPT ![t] = call]
    BY DEF ChangeBegun, Start
  <1> HIDE DEF call
  <1> QED BY <1>1, <1>2, StartKeeps

LEMMA ResetBegunKeeps ==
  ASSUME CredentialsInv, NEW t \in Tx, NEW u \in Users, NEW new \in Passwords,
         ResetBegun(t, u, new)
  PROVE  CredentialsInv'
  <1> DEFINE call == [op |-> "reset", user |-> u, new |-> new]
  <1>1. call \in Call /\ call.op = "reset"
    BY DEF Call, Reset
  <1>2. UNCHANGED <<rows, open>> /\ tx' = [tx EXCEPT ![t] = call]
    BY DEF ResetBegun, Start
  <1> HIDE DEF call
  <1> QED BY <1>1, <1>2, StartKeeps

LEMMA ChangeReadKeeps ==
  ASSUME CredentialsInv, NEW t \in Tx, ChangeRead(t)
  PROVE  CredentialsInv'
  <1>1. tx[t] \in Change /\ rows[tx[t].user].hash \in Hash
    BY DEF ChangeRead, CredentialsInv, TypeOK, Call, Login, Change, Reset, Account
  <1>2. PICK seen \in Hash \cup {None} :
          /\ tx' = [tx EXCEPT ![t].read = TRUE, ![t].seen = seen]
          /\ seen # None => Verifies(tx[t].pw, seen)
    <2>1. tx' = [tx EXCEPT ![t].read = TRUE, ![t].seen =
              Checked(tx[t].pw, ~rows[tx[t].user].deleted, rows[tx[t].user].hash)]
      BY DEF ChangeRead
    <2> QED BY <1>1, <2>1, CheckedMeans
  <1> DEFINE call == [tx[t] EXCEPT !.read = TRUE, !.seen = seen]
  <1>3. call \in Call /\ call.pw = tx[t].pw /\ call.seen = seen
    BY <1>1 DEF Call, Change
  <1>4. tx' = [tx EXCEPT ![t] = call]
    BY <1>2 DEF CredentialsInv, TypeOK
  <1> HIDE DEF call
  <1> QED BY <1>2, <1>3, <1>4, StartKeeps DEF ChangeRead

\* Every step that ends a call without a write.
LEMMA RefusalKeeps ==
  ASSUME CredentialsInv, NEW t \in Tx, Finish(t), UNCHANGED <<rows, open>>
  PROVE  CredentialsInv'
  <1>1. tx' \in [Tx -> Call \cup {None}] /\ SeenChecked'
    BY FinishEffect DEF CredentialsInv
  <1>2. TypeOK'
    BY <1>1 DEF CredentialsInv, TypeOK
  <1>3. HashesOwned' /\ IdentsUnique' /\ OpenedWithStoredPassword'
    BY DEF CredentialsInv, HashesOwned, IdentsUnique, OpenedWithStoredPassword
  <1> QED BY <1>1, <1>2, <1>3 DEF CredentialsInv

\* A step that gives account u the hash h and leaves everything else of it.
HashWritten(u, h) == rows' = [rows EXCEPT ![u].hash = h]

LEMMA HashWrittenEffect ==
  ASSUME TypeOK, HashesOwned, IdentsUnique, NEW u \in Users, NEW h \in Hash, h.owner = u,
         HashWritten(u, h)
  PROVE  /\ rows' \in [Users -> Account] /\ HashesOwned' /\ IdentsUnique'
         /\ rows'[u].hash = h
         /\ \A v \in Users \ {u} : rows'[v] = rows[v]
         /\ rows'[u].active = rows[u].active /\ rows'[u].deleted = rows[u].deleted
  <1>1. /\ rows' \in [Users -> Account]
        /\ rows'[u] = [rows[u] EXCEPT !.hash = h]
        /\ \A v \in Users \ {u} : rows'[v] = rows[v]
    BY DEF HashWritten, TypeOK, Account
  <1>2. /\ rows'[u].hash = h /\ rows'[u].ident = rows[u].ident
        /\ rows'[u].active = rows[u].active /\ rows'[u].deleted = rows[u].deleted
    BY <1>1 DEF TypeOK, Account
  <1>3. HashesOwned'
    <2> SUFFICES ASSUME NEW v \in Users PROVE rows'[v].hash.owner = v
      BY DEF HashesOwned
    <2>1. CASE v = u
      BY <1>2, <2>1
    <2>2. CASE v # u
      BY <1>1, <2>2 DEF HashesOwned
    <2> QED BY <2>1, <2>2
  <1>4. \A v \in Users : rows'[v].ident = rows[v].ident
    BY <1>1, <1>2
  <1>5. IdentsUnique'
    BY <1>4 DEF IdentsUnique
  <1> QED BY <1>1, <1>2, <1>3, <1>5

\* A confirmed password is valid for the hash of the locked row.
LEMMA ConfirmedIsValid ==
  ASSUME SeenChecked, NEW t \in Tx, tx[t] # None, tx[t].op # "reset",
         NEW hash, Confirmed(tx[t].pw, tx[t].seen, hash)
  PROVE  Verifies(tx[t].pw, hash)
  BY DEF SeenChecked, Confirmed

LEMMA LoginServedKeeps ==
  ASSUME CredentialsInv, NEW t \in Tx, NEW u \in Users, LoginServed(t, u)
  PROVE  CredentialsInv'
  <1> DEFINE pw == tx[t].pw
             h == Upgraded(pw, rows[u].hash)
  <1>1. /\ pw \in Passwords /\ rows[u].hash \in Hash /\ rows[u].hash.owner = u
        /\ Verifies(pw, rows[u].hash)
        /\ rows[u].active /\ ~rows[u].deleted
    BY ConfirmedIsValid DEF LoginServed, Admitted, Named, CredentialsInv, TypeOK, HashesOwned,
       Call, Login, Change, Reset, Account
  <1>2. /\ h \in Hash /\ h.alg = "argon2" /\ h.owner = u /\ h.pw = pw
        /\ rows[u].hash.alg = "argon2" => h = rows[u].hash
    BY <1>1, UpgradedHashes
  <1>3. HashWritten(u, h) /\ open' = open \cup {[user |-> u, pw |-> pw]}
    BY DEF LoginServed, HashWritten
  <1> HIDE DEF h, pw
  <1>4. /\ rows' \in [Users -> Account] /\ HashesOwned' /\ IdentsUnique'
        /\ rows'[u].hash = h
        /\ \A v \in Users \ {u} : rows'[v] = rows[v]
        /\ rows'[u].active = rows[u].active /\ rows'[u].deleted = rows[u].deleted
    BY <1>2, <1>3, HashWrittenEffect DEF CredentialsInv
  <1>5. tx' \in [Tx -> Call \cup {None}] /\ SeenChecked'
    BY FinishEffect DEF CredentialsInv, LoginServed
  <1>6. TypeOK'
    BY <1>1, <1>3, <1>4, <1>5 DEF CredentialsInv, TypeOK, Session
  <1>7. OpenedWithStoredPassword'
    <2> SUFFICES ASSUME NEW s \in open'
                 PROVE  /\ rows'[s.user].hash.pw = s.pw /\ rows'[s.user].hash.alg = "argon2"
                        /\ rows'[s.user].active /\ ~rows'[s.user].deleted
      BY DEF OpenedWithStoredPassword
    <2>1. CASE s = [user |-> u, pw |-> pw]
      BY <1>1, <1>2, <1>4, <2>1
    <2>2. CASE s \in open /\ s.user = u
      BY <1>2, <1>4, <2>2 DEF CredentialsInv, OpenedWithStoredPassword
    <2>3. CASE s \in open /\ s.user # u
      BY <1>4, <2>3 DEF CredentialsInv, OpenedWithStoredPassword, TypeOK, Session
    <2> QED BY <1>3, <2>1, <2>2, <2>3
  <1> QED BY <1>4, <1>5, <1>6, <1>7 DEF CredentialsInv

\* change_password and reset_password.
LEMMA ReplaceKeeps ==
  ASSUME CredentialsInv, NEW t \in Tx, NEW u \in Users, NEW new \in Passwords,
         Replace(u, new), Finish(t)
  PROVE  CredentialsInv'
  <1> DEFINE h == NewHash(new, rows[u].hash)
  <1>1. h \in Hash /\ h.owner = u
    BY NewHashes DEF CredentialsInv, TypeOK, HashesOwned, Account
  <1>2. HashWritten(u, h) /\ open' = {s \in open : s.user # u}
    BY DEF Replace, HashWritten, SessionsOf
  <1> HIDE DEF h
  <1>3. /\ rows' \in [Users -> Account] /\ HashesOwned' /\ IdentsUnique'
        /\ \A v \in Users \ {u} : rows'[v] = rows[v]
    BY <1>1, <1>2, HashWrittenEffect DEF CredentialsInv
  <1>4. tx' \in [Tx -> Call \cup {None}] /\ SeenChecked'
    BY FinishEffect DEF CredentialsInv
  <1>5. TypeOK'
    BY <1>2, <1>3, <1>4 DEF CredentialsInv, TypeOK
  <1>6. OpenedWithStoredPassword'
    BY <1>2, <1>3 DEF CredentialsInv, TypeOK, Session, OpenedWithStoredPassword
  <1> QED BY <1>3, <1>4, <1>5, <1>6 DEF CredentialsInv

LEMMA CallTypes ==
  ASSUME TypeOK, NEW t \in Tx, tx[t] # None
  PROVE  /\ tx[t].op = "change" => tx[t].user \in Users /\ tx[t].new \in Passwords
         /\ tx[t].op = "reset" => tx[t].user \in Users /\ tx[t].new \in Passwords
  BY DEF TypeOK, Call, Login, Change, Reset

\* Disable, delete, enable, restore, a new address: u's row but for its hash, and
\* at most the sessions of u.
LEMMA AccountKeeps ==
  ASSUME CredentialsInv, NEW u \in Users,
         Disable(u) \/ Delete(u) \/ Enable(u) \/ Restore(u) \/ \E i \in Idents : MoveIdent(u, i)
  PROVE  CredentialsInv'
  <1>1. /\ rows' \in [Users -> Account] /\ tx' = tx
        /\ \A v \in Users : rows'[v].hash = rows[v].hash
        /\ \A v \in Users \ {u} : rows'[v] = rows[v]
        /\ open' \subseteq open
    <2>1. CASE Disable(u)
      BY <2>1 DEF CredentialsInv, TypeOK, Account, Disable
    <2>2. CASE Delete(u)
      BY <2>2 DEF CredentialsInv, TypeOK, Account, Delete
    <2>3. CASE Enable(u)
      BY <2>3 DEF CredentialsInv, TypeOK, Account, Enable
    <2>4. CASE Restore(u)
      BY <2>4 DEF CredentialsInv, TypeOK, Account, Restore
    <2>5. CASE \E i \in Idents : MoveIdent(u, i)
      BY <2>5 DEF CredentialsInv, TypeOK, Account, MoveIdent
    <2> QED BY <2>1, <2>2, <2>3, <2>4, <2>5
  <1>2. IdentsUnique'
    <2>1. CASE \E i \in Idents : MoveIdent(u, i)
      <3>1. PICK i \in Idents : rows' = [rows EXCEPT ![u].ident = i] /\ \A v \in Users : rows[v].ident # i
        BY <2>1 DEF MoveIdent
      <3>2. rows'[u].ident = i
        BY <3>1 DEF CredentialsInv, TypeOK, Account
      <3> QED BY <1>1, <3>1, <3>2 DEF CredentialsInv, IdentsUnique
    <2>2. CASE Disable(u) \/ Delete(u) \/ Enable(u) \/ Restore(u)
      <3>1. \A v \in Users : rows'[v].ident = rows[v].ident
        BY <2>2 DEF CredentialsInv, TypeOK, Account, Disable, Delete, Enable, Restore
      <3> QED BY <3>1 DEF CredentialsInv, IdentsUnique
    <2> QED BY <2>1, <2>2
  <1>3. OpenedWithStoredPassword'
    <2>1. CASE Disable(u) \/ Delete(u)
      BY <1>1, <2>1 DEF CredentialsInv, TypeOK, Session, OpenedWithStoredPassword, Disable, Delete, SessionsOf
    <2>2. CASE Enable(u) \/ Restore(u) \/ \E i \in Idents : MoveIdent(u, i)
      <3>1. \A v \in Users : /\ rows[v].active => rows'[v].active
                             /\ ~rows[v].deleted => ~rows'[v].deleted
        BY <2>2 DEF CredentialsInv, TypeOK, Account, Enable, Restore, MoveIdent
      <3> SUFFICES ASSUME NEW s \in open'
                   PROVE  /\ rows'[s.user].hash.pw = s.pw /\ rows'[s.user].hash.alg = "argon2"
                          /\ rows'[s.user].active /\ ~rows'[s.user].deleted
        BY DEF OpenedWithStoredPassword
      <3>2. s \in open /\ s.user \in Users
        BY <1>1 DEF CredentialsInv, TypeOK, Session
      <3>3. rows'[s.user].hash = rows[s.user].hash
        BY <1>1, <3>2
      <3>4. /\ rows[s.user].hash.pw = s.pw /\ rows[s.user].hash.alg = "argon2"
            /\ rows[s.user].active /\ ~rows[s.user].deleted
        BY <3>2 DEF CredentialsInv, OpenedWithStoredPassword
      <3>5. rows'[s.user].hash.pw = s.pw /\ rows'[s.user].hash.alg = "argon2"
        BY <3>3, <3>4
      <3>6. rows'[s.user].active
        <4>1. rows[s.user].active => rows'[s.user].active
          BY <3>1, <3>2
        <4> QED BY <3>4, <4>1, Zenon
      <3>7. ~rows'[s.user].deleted
        <4>1. ~rows[s.user].deleted => ~rows'[s.user].deleted
          BY <3>1, <3>2
        <4> QED BY <3>4, <4>1, Zenon
      <3> QED BY <3>5, <3>6, <3>7
    <2> QED BY <2>1, <2>2
  <1>4. TypeOK' /\ SeenChecked' /\ HashesOwned'
    BY <1>1 DEF CredentialsInv, TypeOK, SeenChecked, HashesOwned
  <1> QED BY <1>2, <1>3, <1>4 DEF CredentialsInv

LEMMA SessionEndsKeeps ==
  ASSUME CredentialsInv, NEW s \in open, SessionEnds(s)
  PROVE  CredentialsInv'
  BY DEF CredentialsInv, SessionEnds, TypeOK, SeenChecked, HashesOwned, IdentsUnique,
         OpenedWithStoredPassword

LEMMA NextKeeps == CredentialsInv /\ [Next]_vars => CredentialsInv'
  <1> SUFFICES ASSUME CredentialsInv, [Next]_vars PROVE CredentialsInv'
    OBVIOUS
  <1>1. CASE \E t \in Tx, ident \in Idents, pw \in Passwords : LoginRead(t, ident, pw)
    BY <1>1, LoginReadKeeps
  <1>2. CASE \E t \in Tx, u \in Users : LoginServed(t, u)
    BY <1>2, LoginServedKeeps
  <1>3. CASE \E t \in Tx, u \in Users, old, new \in Passwords : ChangeBegun(t, u, old, new)
    BY <1>3, ChangeBegunKeeps
  <1>4. CASE \E t \in Tx : ChangeRead(t)
    BY <1>4, ChangeReadKeeps
  <1>5. CASE \E t \in Tx : ChangeServed(t) \/ ResetServed(t)
    BY <1>5, ReplaceKeeps, CallTypes DEF ChangeServed, ResetServed, CredentialsInv
  <1>6. CASE \E t \in Tx, u \in Users, new \in Passwords : ResetBegun(t, u, new)
    BY <1>6, ResetBegunKeeps
  <1>7. CASE \E t \in Tx : LoginRefused(t) \/ ChangeRefused(t) \/ ResetRefused(t) \/ Abandon(t)
    BY <1>7, RefusalKeeps DEF LoginRefused, ChangeRefused, ResetRefused, Abandon
  <1>8. CASE \/ \E u \in Users : Disable(u) \/ Delete(u) \/ Enable(u) \/ Restore(u)
             \/ \E u \in Users, i \in Idents : MoveIdent(u, i)
    BY <1>8, AccountKeeps
  <1>9. CASE \E s \in open : SessionEnds(s)
    BY <1>9, SessionEndsKeeps
  <1>10. CASE UNCHANGED vars
    BY <1>10 DEF vars, CredentialsInv, TypeOK, SeenChecked, HashesOwned, IdentsUnique,
                 OpenedWithStoredPassword
  <1> QED BY <1>1, <1>2, <1>3, <1>4, <1>5, <1>6, <1>7, <1>8, <1>9, <1>10 DEF Next

\* Whoever is logged in gave the password that is stored now, to an account that
\* is usable now, whatever was read before the lock.
THEOREM CredentialsSound == Spec => []CredentialsInv
  BY InitSound, NextKeeps, PTL DEF Spec

\* No login that verified an old hash, or found an old address, or overlapped
\* the disabling of its account, leaves a session.
THEOREM SessionsOpenedWithStoredPassword == Spec => []OpenedWithStoredPassword
  <1>1. CredentialsInv => OpenedWithStoredPassword
    BY DEF CredentialsInv
  <1> QED BY <1>1, CredentialsSound, PTL

-----------------------------------------------------------------------------
LEMMA ResetStickStep ==
  CredentialsInv => \A t \in Tx : ChangeServed(t) => Verifies(tx[t].pw, rows[tx[t].user].hash)
  <1> SUFFICES ASSUME CredentialsInv, NEW t \in Tx, ChangeServed(t)
               PROVE  Verifies(tx[t].pw, rows[tx[t].user].hash)
    OBVIOUS
  <1>1. /\ SeenChecked /\ tx[t] # None /\ tx[t].op # "reset"
        /\ Confirmed(tx[t].pw, tx[t].seen, rows[tx[t].user].hash)
    BY DEF CredentialsInv, ChangeServed, Allowed
  <1> QED BY <1>1, ConfirmedIsValid

\* A change verified before an administrator's reset does not undo the reset.
THEOREM ResetsStick == Spec => ResetSticks
  <1>1. CredentialsInv /\ [Next]_vars =>
          [\A t \in Tx : ChangeServed(t) => Verifies(tx[t].pw, rows[tx[t].user].hash)]_vars
    BY ResetStickStep
  <1> QED BY <1>1, CredentialsSound, PTL DEF Spec, ResetSticks

-----------------------------------------------------------------------------
\* The passwords an account accepts.
Accepts(u) == {p \in Passwords : Verifies(p, rows[u].hash)}

LEMMA VaultInitially == Init => Vault!VaultInit
  BY DEF Init, Vault!VaultInit

\* Account u is left with one password, the others with what they had.
LEMMA OneAccepted ==
  ASSUME TypeOK, HashesOwned, IdentsUnique, NEW u \in Users, NEW p \in Passwords,
         NEW h \in Hash, h.owner = u, h.alg = "argon2", h.pw = p, HashWritten(u, h)
  PROVE  [v \in Users |-> Accepts(v)]' = [[v \in Users |-> Accepts(v)] EXCEPT ![u] = {p}]
  <1>1. rows'[u].hash = h /\ \A v \in Users \ {u} : rows'[v] = rows[v]
    BY HashWrittenEffect
  <1>2. Accepts(u)' = {p}
    BY <1>1, CurrentHashAccepts DEF Accepts
  <1>3. \A v \in Users \ {u} : Accepts(v)' = Accepts(v)
    BY <1>1 DEF Accepts, Verifies
  <1> QED BY <1>2, <1>3

LEMMA VaultLogin ==
  ASSUME CredentialsInv, NEW t \in Tx, NEW u \in Users, LoginServed(t, u)
  PROVE  \E p \in Passwords : Vault!Open(u, p)
  <1>1. /\ tx[t].pw \in Passwords /\ rows[u].hash \in Hash /\ rows[u].hash.owner = u
        /\ Verifies(tx[t].pw, rows[u].hash)
    BY ConfirmedIsValid DEF LoginServed, Admitted, CredentialsInv, TypeOK, HashesOwned,
       Call, Login, Change, Reset, Account
  <1>2. PICK p \in Passwords : p = tx[t].pw
    BY <1>1
  <1>3. PICK h \in Hash : h = Upgraded(p, rows[u].hash)
    BY <1>1, UpgradedHashes
  <1>4. h.owner = u /\ h.alg = "argon2" /\ h.pw = p
    BY <1>1, <1>2, <1>3, UpgradedHashes
  <1>5. HashWritten(u, h) /\ open' = open \cup {[user |-> u, pw |-> p]}
    BY <1>2, <1>3 DEF LoginServed, HashWritten
  <1>6. p \in Accepts(u)
    BY <1>1, <1>2 DEF Accepts
  <1>7. [v \in Users |-> Accepts(v)]' = [[v \in Users |-> Accepts(v)] EXCEPT ![u] = {p}]
    BY <1>4, <1>5, OneAccepted DEF CredentialsInv
  <1> QED BY <1>5, <1>6, <1>7 DEF Vault!Open, Accepts

LEMMA VaultReplace ==
  ASSUME CredentialsInv, NEW u \in Users, NEW new \in Passwords, Replace(u, new)
  PROVE  Vault!Replace(u, new)
  <1>1. rows[u].hash \in Hash /\ rows[u].hash.owner = u
    BY DEF CredentialsInv, TypeOK, HashesOwned, Account
  <1>2. PICK h \in Hash : h = NewHash(new, rows[u].hash)
    BY <1>1, NewHashes
  <1>3. h.owner = u /\ h.alg = "argon2" /\ h.pw = new
    BY <1>1, <1>2, NewHashes
  <1>4. HashWritten(u, h) /\ open' = {s \in open : s.user # u}
    BY <1>2 DEF Replace, HashWritten, SessionsOf
  <1>5. [v \in Users |-> Accepts(v)]' = [[v \in Users |-> Accepts(v)] EXCEPT ![u] = {new}]
    BY <1>3, <1>4, OneAccepted DEF CredentialsInv
  <1> QED BY <1>4, <1>5 DEF Vault!Replace, Accepts

\* A step that leaves the hashes alone and opens nothing.
LEMMA VaultClose ==
  ASSUME \A v \in Users : rows'[v].hash = rows[v].hash, open' \subseteq open
  PROVE  \E S \in SUBSET open : Vault!Close(S)
  <1>1. \A v \in Users : Accepts(v)' = Accepts(v)
    BY DEF Accepts, Verifies
  <1>2. [v \in Users |-> Accepts(v)]' = [v \in Users |-> Accepts(v)]
    BY <1>1
  <1>3. PICK S \in SUBSET open : open' = open \ S
    <2> WITNESS open \ open' \in SUBSET open
    <2> QED OBVIOUS
  <1> QED BY <1>2, <1>3 DEF Vault!Close, Accepts

\* The steps other than the three that write a hash.
LEMMA OtherStepsClose ==
  ASSUME CredentialsInv, [Next]_vars,
         ~\E t \in Tx, u \in Users : LoginServed(t, u),
         ~\E t \in Tx : ChangeServed(t) \/ ResetServed(t)
  PROVE  (\A v \in Users : rows'[v].hash = rows[v].hash) /\ open' \subseteq open
  <1>1. CASE UNCHANGED <<rows, open>>
    BY <1>1
  <1>2. CASE \E u \in Users : Disable(u) \/ Delete(u) \/ Enable(u) \/ Restore(u)
    <2> PICK u \in Users : Disable(u) \/ Delete(u) \/ Enable(u) \/ Restore(u)
      BY <1>2
    <2> QED BY DEF CredentialsInv, TypeOK, Account, Disable, Delete, Enable, Restore
  <1>3. CASE \E u \in Users, i \in Idents : MoveIdent(u, i)
    BY <1>3 DEF CredentialsInv, TypeOK, Account, MoveIdent
  <1>4. CASE \E s \in open : SessionEnds(s)
    BY <1>4 DEF SessionEnds
  <1> QED BY <1>1, <1>2, <1>3, <1>4 DEF Next, vars, LoginRead, LoginRefused, ChangeBegun, ChangeRead,
        ChangeRefused, ResetBegun, ResetRefused, Abandon

LEMMA VaultStep == CredentialsInv /\ [Next]_vars => [Vault!VaultNext]_(Vault!vaultVars)
  <1> SUFFICES ASSUME CredentialsInv, [Next]_vars PROVE Vault!VaultNext
    OBVIOUS
  <1>1. CASE \E t \in Tx, u \in Users : LoginServed(t, u)
    BY <1>1, VaultLogin DEF Vault!VaultNext
  <1>2. CASE \E t \in Tx : ChangeServed(t) \/ ResetServed(t)
    <2>1. PICK u \in Users, new \in Passwords : Replace(u, new)
      BY <1>2, CallTypes DEF ChangeServed, ResetServed, CredentialsInv
    <2> QED BY <2>1, VaultReplace DEF Vault!VaultNext
  <1>3. CASE /\ ~\E t \in Tx, u \in Users : LoginServed(t, u)
             /\ ~\E t \in Tx : ChangeServed(t) \/ ResetServed(t)
    BY <1>3, OtherStepsClose, VaultClose DEF Vault!VaultNext
  <1> QED BY <1>1, <1>2, <1>3

\* Reading early and deciding late looks like deciding in the instant of the
\* commit.
THEOREM CallsKeepVault == Spec => ImplementsVault
  BY CredentialsSound, VaultInitially, VaultStep, PTL
     DEF Spec, ImplementsVault, Vault!VaultSpec

-----------------------------------------------------------------------------
\* The password gate.

\* The permits that are free and those that are held, before and after waking.
LEMMA WakeCounts ==
  ASSUME NEW where \in [Callers -> Places], NEW n \in Nat, NEW k \in Nat, k =< n,
         Wake(where, n, k)
  PROVE  /\ at' \in [Callers -> Places] /\ free' \in Nat
         /\ Cardinality(Holding(at')) \in Nat
         /\ free' + Cardinality(Holding(at')) = n + Cardinality(Holding(where))
         /\ k = n /\ free' > 0 => In(at', {"queued"}) = {}
         /\ k = 1 /\ In(where, {"queued"}) # {} => In(at', {"woken"}) # {}
  <1> DEFINE queue == In(where, {"queued"})
  <1>1. PICK woken \in SUBSET queue :
          /\ Cardinality(woken) =< k
          /\ Cardinality(woken) = k \/ woken = queue
          /\ at' = [c \in Callers |-> IF c \in woken THEN "woken" ELSE where[c]]
          /\ free' = n - Cardinality(woken)
    BY DEF Wake
  <1>2. /\ IsFiniteSet(woken) /\ IsFiniteSet(Holding(where))
        /\ Cardinality(woken) \in Nat /\ Cardinality(Holding(where)) \in Nat
    <2>1. woken \subseteq Callers /\ Holding(where) \subseteq Callers
      BY DEF Holding, In
    <2> QED BY <2>1, GateAssumption, FS_Subset, FS_CardinalityType
  <1>3. at' \in [Callers -> Places]
    BY <1>1 DEF Places
  <1>4. Holding(at') = Holding(where) \cup woken /\ Holding(where) \cap woken = {}
    BY <1>1 DEF Holding, In
  <1>5. Cardinality(Holding(at')) = Cardinality(Holding(where)) + Cardinality(woken)
    <2>1. Cardinality({}) = 0
      BY FS_EmptySet
    <2>2. Cardinality(Holding(where) \cup woken)
            = Cardinality(Holding(where)) + Cardinality(woken)
                - Cardinality(Holding(where) \cap woken)
      BY <1>2, FS_Union
    <2>3. Cardinality(Holding(where) \cap woken) = 0
      BY <1>4, <2>1
    <2> HIDE DEF Holding
    <2>4. Cardinality(Holding(at')) = Cardinality(Holding(where) \cup woken)
      BY <1>4
    <2> QED BY <1>2, <2>2, <2>3, <2>4
  <1>6. /\ free' \in Nat /\ Cardinality(Holding(at')) \in Nat
        /\ free' + Cardinality(Holding(at')) = n + Cardinality(Holding(where))
    BY <1>1, <1>2, <1>5
  <1>7. k = n /\ free' > 0 => In(at', {"queued"}) = {}
    <2>1. k = n /\ free' > 0 => woken = queue
      BY <1>1, <1>2
    <2>2. woken = queue => In(at', {"queued"}) = {}
      BY <1>1 DEF In
    <2> QED BY <2>1, <2>2
  <1>8. k = 1 /\ queue # {} => In(at', {"woken"}) # {}
    <2>1. k = 1 /\ queue # {} => woken # {}
      <3>1. woken = {} => Cardinality(woken) = 0
        BY FS_EmptySet
      <3> QED BY <1>1, <3>1
    <2>2. \A c \in woken : c \in In(at', {"woken"})
      BY <1>1 DEF In
    <2> QED BY <2>1, <2>2
  <1> QED BY <1>3, <1>6, <1>7, <1>8

\* What moving one caller does to the permits held.
LEMMA MoveCounts ==
  ASSUME NEW where \in [Callers -> Places], NEW c \in Callers, NEW place \in Places,
         NEW moved \in [Callers -> Places], moved[c] = place,
         \A d \in Callers \ {c} : moved[d] = where[d]
  PROVE  /\ Cardinality(Holding(where)) \in Nat /\ Cardinality(Holding(moved)) \in Nat
         /\ where[c] \notin {"woken", "working"} /\ place \notin {"woken", "working"} =>
              Cardinality(Holding(moved)) = Cardinality(Holding(where))
         /\ where[c] \in {"woken", "working"} /\ place \in {"woken", "working"} =>
              Cardinality(Holding(moved)) = Cardinality(Holding(where))
         /\ where[c] \notin {"woken", "working"} /\ place \in {"woken", "working"} =>
              Cardinality(Holding(moved)) = Cardinality(Holding(where)) + 1
         /\ where[c] \in {"woken", "working"} /\ place \notin {"woken", "working"} =>
              Cardinality(Holding(moved)) = Cardinality(Holding(where)) - 1
  <1>1. /\ IsFiniteSet(Holding(where))
        /\ Cardinality(Holding(where)) \in Nat /\ Cardinality(Holding(moved)) \in Nat
    <2>1. Holding(where) \subseteq Callers /\ Holding(moved) \subseteq Callers
      BY DEF Holding, In
    <2> QED BY <2>1, GateAssumption, FS_Subset, FS_CardinalityType
  <1>2. (where[c] \in {"woken", "working"}) <=> c \in Holding(where)
    BY DEF Holding, In
  <1>3. /\ place \in {"woken", "working"} => Holding(moved) = Holding(where) \cup {c}
        /\ place \notin {"woken", "working"} => Holding(moved) = Holding(where) \ {c}
    BY DEF Holding, In
  <1>4. /\ c \in Holding(where) =>
             /\ Cardinality(Holding(where) \cup {c}) = Cardinality(Holding(where))
             /\ Cardinality(Holding(where) \ {c}) = Cardinality(Holding(where)) - 1
        /\ c \notin Holding(where) =>
             /\ Cardinality(Holding(where) \cup {c}) = Cardinality(Holding(where)) + 1
             /\ Cardinality(Holding(where) \ {c}) = Cardinality(Holding(where))
    BY <1>1, FS_AddElement, FS_RemoveElement
  <1>5. CASE place \in {"woken", "working"}
    <2>1. Holding(moved) = Holding(where) \cup {c}
      BY <1>3, <1>5
    <2> QED BY <1>1, <1>2, <1>4, <1>5, <2>1
  <1>6. CASE place \notin {"woken", "working"}
    <2>1. Holding(moved) = Holding(where) \ {c}
      BY <1>3, <1>6
    <2> QED BY <1>1, <1>2, <1>4, <1>6, <2>1
  <1> QED BY <1>5, <1>6

\* The same of a step that moves c and wakes nobody.
LEMMA StepCounts ==
  ASSUME at \in [Callers -> Places], NEW c \in Callers, NEW place \in Places,
         at' \in [Callers -> Places], at'[c] = place,
         \A d \in Callers \ {c} : at'[d] = at[d]
  PROVE  /\ Held \in Nat /\ Held' \in Nat
         /\ at[c] \notin {"woken", "working"} /\ place \notin {"woken", "working"} => Held' = Held
         /\ at[c] \notin {"woken", "working"} /\ place \in {"woken", "working"} => Held' = Held + 1
         /\ at[c] \in {"woken", "working"} /\ place \notin {"woken", "working"} => Held' = Held - 1
  <1>1. PICK where \in [Callers -> Places] : where = at
    OBVIOUS
  <1>2. PICK moved \in [Callers -> Places] : moved = at'
    OBVIOUS
  <1>3. moved[c] = place /\ \A d \in Callers \ {c} : moved[d] = where[d]
    BY <1>1, <1>2
  <1>4. place \in Places /\ c \in Callers
    OBVIOUS
  <1>5. /\ Cardinality(Holding(where)) \in Nat /\ Cardinality(Holding(moved)) \in Nat
        /\ where[c] \notin {"woken", "working"} /\ place \notin {"woken", "working"} =>
              Cardinality(Holding(moved)) = Cardinality(Holding(where))
        /\ where[c] \in {"woken", "working"} /\ place \notin {"woken", "working"} =>
              Cardinality(Holding(moved)) = Cardinality(Holding(where)) - 1
    BY <1>3, <1>4, MoveCounts
  <1>6. where[c] \notin {"woken", "working"} /\ place \in {"woken", "working"} =>
              Cardinality(Holding(moved)) = Cardinality(Holding(where)) + 1
    BY <1>3, <1>4, MoveCounts
  <1>7. Held = Cardinality(Holding(where)) /\ Held' = Cardinality(Holding(moved))
    BY <1>1, <1>2 DEF Held
  <1> QED BY <1>1, <1>2, <1>5, <1>6, <1>7

LEMMA GateBegins == GateInit => GateInv
  <1> SUFFICES ASSUME GateInit PROVE GateInv
    OBVIOUS
  <1>1. Holding(at) = {} /\ In(at, {"queued"}) = {}
    BY DEF GateInit, In, Holding
  <1>2. Held = 0
    BY <1>1, FS_EmptySet DEF Held
  <1> QED BY <1>1, <1>2, GateAssumption
          DEF GateInit, GateInv, GateTypeOK, PermitsConserved, NoPermitIdle, Places

\* The actions that wake nobody.
LEMMA QuietSteps ==
  ASSUME GateInv, NEW c \in Callers, Acquire(c) \/ WaitCancelled(c) \/ Detached(c)
  PROVE  GateInv'
  <1>1. /\ GateTypeOK /\ at \in [Callers -> Places] /\ free \in Nat /\ orphans \in Nat
        /\ free + Held + orphans = Permits
    BY DEF GateInv, GateTypeOK, PermitsConserved
  <1>2. CASE Acquire(c) /\ ~Locked
    <2>1. at[c] = "outside" /\ at' = [at EXCEPT ![c] = "working"]
          /\ free' = free - 1 /\ free > 0 /\ orphans' = orphans
      BY <1>1, <1>2 DEF Acquire, Locked
    <2>2. /\ at' \in [Callers -> Places] /\ at'[c] \in Places
          /\ \A d \in Callers \ {c} : at'[d] = at[d]
      BY <1>1, <2>1 DEF Places
    <2>3. Held \in Nat /\ Held' = Held + 1
      BY <1>1, <2>1, <2>2, StepCounts
    <2>4. In(at', {"queued"}) = {}
      BY <1>1, <1>2, <2>1 DEF Locked, In
    <2>5. PermitsConserved'
      BY <1>1, <2>1, <2>3 DEF PermitsConserved
    <2>6. NoPermitIdle'
      BY <1>1, <2>1, <2>3, <2>4 DEF GateInv, NoPermitIdle
    <2>7. free' \in Nat /\ orphans' \in Nat
      BY <1>1, <2>1
    <2> QED BY <2>2, <2>3, <2>5, <2>6, <2>7 DEF GateInv, GateTypeOK
  <1>3. CASE Acquire(c) /\ Locked
    <2>1. at[c] = "outside" /\ at' = [at EXCEPT ![c] = "queued"]
          /\ free' = free /\ orphans' = orphans
      BY <1>3 DEF Acquire
    <2>2. /\ at' \in [Callers -> Places] /\ at'[c] \in Places
          /\ \A d \in Callers \ {c} : at'[d] = at[d]
      BY <1>1, <2>1 DEF Places
    <2>3. Held \in Nat /\ Held' = Held
      BY <1>1, <2>1, <2>2, StepCounts
    <2>4. free > 0 => In(at, {"woken"}) # {}
      BY <1>1, <1>3 DEF GateInv, NoPermitIdle, Locked, In
    <2>5. In(at, {"woken"}) \subseteq In(at', {"woken"})
      BY <1>1, <2>1 DEF In
    <2> QED BY <1>1, <2>1, <2>2, <2>3, <2>4, <2>5
            DEF GateInv, GateTypeOK, PermitsConserved, NoPermitIdle
  <1>4. CASE WaitCancelled(c)
    <2>1. at[c] = "queued" /\ at' = [at EXCEPT ![c] = "leaving"]
          /\ free' = free /\ orphans' = orphans
      BY <1>4 DEF WaitCancelled
    <2>2. /\ at' \in [Callers -> Places] /\ at'[c] \in Places
          /\ \A d \in Callers \ {c} : at'[d] = at[d]
      BY <1>1, <2>1 DEF Places
    <2>3. Held \in Nat /\ Held' = Held
      BY <1>1, <2>1, <2>2, StepCounts
    <2>4. /\ In(at, {"woken"}) \subseteq In(at', {"woken"})
          /\ In(at', {"queued"}) \subseteq In(at, {"queued"})
      BY <1>1, <2>1 DEF In
    <2>5. PermitsConserved'
      BY <1>1, <2>1, <2>3 DEF PermitsConserved
    <2>6. NoPermitIdle'
      BY <1>1, <2>1, <2>3, <2>4 DEF GateInv, NoPermitIdle
    <2>7. free' \in Nat /\ orphans' \in Nat
      BY <1>1, <2>1
    <2> QED BY <2>2, <2>3, <2>5, <2>6, <2>7 DEF GateInv, GateTypeOK
  <1>5. CASE Detached(c)
    <2>1. at[c] = "working" /\ at' = [at EXCEPT ![c] = "outside"]
          /\ free' = free /\ orphans' = orphans + 1
      BY <1>5 DEF Detached
    <2>2. /\ at' \in [Callers -> Places] /\ at'[c] \in Places
          /\ \A d \in Callers \ {c} : at'[d] = at[d]
      BY <1>1, <2>1 DEF Places
    <2>3. Held \in Nat /\ Held' = Held - 1
      BY <1>1, <2>1, <2>2, StepCounts
    <2>4. /\ In(at, {"woken"}) \subseteq In(at', {"woken"})
          /\ In(at', {"queued"}) \subseteq In(at, {"queued"})
      BY <1>1, <2>1 DEF In
    <2>5. PermitsConserved'
      BY <1>1, <2>1, <2>3 DEF PermitsConserved
    <2>6. NoPermitIdle'
      BY <1>1, <2>1, <2>3, <2>4 DEF GateInv, NoPermitIdle
    <2>7. free' \in Nat /\ orphans' \in Nat
      BY <1>1, <2>1
    <2> QED BY <2>2, <2>3, <2>5, <2>6, <2>7 DEF GateInv, GateTypeOK
  <1> QED BY <1>2, <1>3, <1>4, <1>5

\* The actions that wake: with all that is free, or with the permit just returned.
LEMMA WakingSteps ==
  ASSUME GateInv, NEW c \in Callers,
         Resumed(c) \/ Left(c) \/ PermitReturned(c) \/ ThreadEnded(c)
  PROVE  GateInv'
  <1>1. /\ GateTypeOK /\ at \in [Callers -> Places] /\ free \in Nat /\ orphans \in Nat
        /\ free + Held + orphans = Permits
    BY DEF GateInv, GateTypeOK, PermitsConserved
  <1>2. PICK place \in {"outside", "working"}, n \in {free, free + 1}, k \in {free, free + 1, 1} :
          /\ Wake([at EXCEPT ![c] = place], n, k) /\ orphans' = orphans
          /\ k =< n /\ (k = n \/ k = 1)
          /\ \/ place = "working" /\ at[c] = "woken" /\ n = free
             \/ place = "outside" /\ at[c] = "leaving" /\ n = free
             \/ place = "outside" /\ at[c] \in {"woken", "working"} /\ n = free + 1
    <2>1. CASE Resumed(c)
      BY <1>1, <2>1 DEF Resumed
    <2>2. CASE Left(c)
      BY <1>1, <2>2 DEF Left
    <2>3. CASE PermitReturned(c)
      BY <1>1, <2>3 DEF PermitReturned
    <2>4. CASE ThreadEnded(c)
      BY <1>1, <2>4 DEF ThreadEnded
    <2> QED BY <2>1, <2>2, <2>3, <2>4
  <1>3. PICK moved \in [Callers -> Places] : moved = [at EXCEPT ![c] = place]
    BY <1>1, <1>2 DEF Places
  <1>4. /\ moved \in [Callers -> Places] /\ Cardinality(Holding(moved)) \in Nat
        /\ n + Cardinality(Holding(moved)) = free + Held
    <2>1. moved[c] = place /\ \A d \in Callers \ {c} : moved[d] = at[d]
      BY <1>1, <1>3
    <2>2. PICK where \in [Callers -> Places] : where = at
      BY <1>1
    <2>3. place \in Places /\ \A d \in Callers \ {c} : moved[d] = where[d]
      BY <2>1, <2>2 DEF Places
    <2>4. /\ Cardinality(Holding(where)) \in Nat /\ Cardinality(Holding(moved)) \in Nat
          /\ where[c] \notin {"woken", "working"} /\ place \notin {"woken", "working"} =>
               Cardinality(Holding(moved)) = Cardinality(Holding(where))
          /\ where[c] \in {"woken", "working"} /\ place \in {"woken", "working"} =>
               Cardinality(Holding(moved)) = Cardinality(Holding(where))
          /\ where[c] \in {"woken", "working"} /\ place \notin {"woken", "working"} =>
               Cardinality(Holding(moved)) = Cardinality(Holding(where)) - 1
      BY <2>1, <2>3, MoveCounts
    <2>5. Held = Cardinality(Holding(where))
      BY <2>2 DEF Held
    <2> QED BY <1>1, <1>2, <2>2, <2>4, <2>5
  <1>5. n \in Nat /\ k \in Nat /\ k =< n /\ Wake(moved, n, k)
    BY <1>1, <1>2, <1>3
  <1>6. /\ at' \in [Callers -> Places] /\ free' \in Nat
        /\ free' + Held' = n + Cardinality(Holding(moved))
        /\ k = n /\ free' > 0 => In(at', {"queued"}) = {}
        /\ k = 1 /\ In(moved, {"queued"}) # {} => In(at', {"woken"}) # {}
    BY <1>4, <1>5, WakeCounts DEF Held
  <1>7. In(at', {"queued"}) \subseteq In(moved, {"queued"})
    BY <1>5, <1>4 DEF Wake, In
  <1>8. NoPermitIdle'
    BY <1>2, <1>6, <1>7 DEF NoPermitIdle
  <1>9. PermitsConserved'
    BY <1>1, <1>2, <1>4, <1>6 DEF PermitsConserved
  <1> QED BY <1>1, <1>2, <1>6, <1>8, <1>9 DEF GateInv, GateTypeOK

LEMMA OrphanStep ==
  ASSUME GateInv, OrphanEnded
  PROVE  GateInv'
  <1>1. /\ GateTypeOK /\ at \in [Callers -> Places] /\ free \in Nat /\ orphans \in Nat
        /\ free + Held + orphans = Permits
    BY DEF GateInv, GateTypeOK, PermitsConserved
  <1>2. orphans > 0 /\ orphans' = orphans - 1 /\ Wake(at, free + 1, 1)
    BY DEF OrphanEnded
  <1>3. PICK f : f = at
    OBVIOUS
  <1>4. PICK n : n = free + 1
    OBVIOUS
  <1>5. /\ at' \in [Callers -> Places] /\ free' \in Nat /\ Held' \in Nat
        /\ free' + Held' = n + Cardinality(Holding(f))
        /\ In(f, {"queued"}) # {} => In(at', {"woken"}) # {}
    BY <1>1, <1>2, <1>3, <1>4, WakeCounts DEF Held
  <1>6. In(at', {"queued"}) \subseteq In(at, {"queued"})
    BY <1>2 DEF Wake, In
  <1>7. Held \in Nat
    <2>1. Holding(at) \subseteq Callers
      BY DEF In, Holding
    <2> QED BY <2>1, GateAssumption, FS_Subset, FS_CardinalityType DEF Held
  <1>8. NoPermitIdle'
    BY <1>3, <1>5, <1>6 DEF NoPermitIdle
  <1>9. PermitsConserved'
    <2>1. Held = Cardinality(Holding(f))
      BY <1>3 DEF Held
    <2> QED BY <1>1, <1>2, <1>4, <1>5, <1>7, <2>1 DEF PermitsConserved
  <1> QED BY <1>1, <1>2, <1>5, <1>8, <1>9 DEF GateInv, GateTypeOK

\* For any callers and permits: a permit of the password gate is free, held or
\* with a thread still running, and none is free while everybody who waits
\* sleeps, whatever times out or disconnects.
THEOREM GatePermitsKept == GateSpec => []GateInv
  <1>1. GateInv /\ [GateNext]_gateVars => GateInv'
    <2> SUFFICES ASSUME GateInv, [GateNext]_gateVars PROVE GateInv'
      OBVIOUS
    <2>1. CASE \E c \in Callers : Acquire(c) \/ WaitCancelled(c) \/ Detached(c)
      BY <2>1, QuietSteps
    <2>2. CASE \E c \in Callers : Resumed(c) \/ Left(c) \/ PermitReturned(c) \/ ThreadEnded(c)
      BY <2>2, WakingSteps
    <2>3. CASE OrphanEnded
      BY <2>3, OrphanStep
    <2>4. CASE UNCHANGED gateVars
      BY <2>4 DEF gateVars, GateInv, GateTypeOK, PermitsConserved, NoPermitIdle, In, Holding, Held
    <2>5. CASE GateRestart
      <3>1. GateInit'
        BY <2>5 DEF GateRestart, GateInit
      <3> QED BY <3>1, GateBegins, PTL
    <2> QED BY <2>1, <2>2, <2>3, <2>4, <2>5 DEF GateNext
  <1> QED BY <1>1, GateBegins, PTL DEF GateSpec
=============================================================================
