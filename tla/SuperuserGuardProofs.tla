------------------------ MODULE SuperuserGuardProofs ------------------------
EXTENDS SuperuserGuard, FiniteSetTheorems, TLAPS

USE GuardAssumption, NoTransaction

LEMMA InitGuarded == Init => GuardInv
  BY DEF Init, GuardInv, TypeOK, LocksOwned, ListedStayLive, DecidesUnderLock, SuperuserRemains

\* What every step that ends a call without writing has in common.
LEMMA EndKeeps ==
  ASSUME GuardInv, NEW t \in Tx, End(t), rows' = rows
  PROVE  GuardInv'
  <1> USE DEF GuardInv
  <1>1. /\ tx'[t] = None /\ \A s \in Tx \ {t} : tx'[s] = tx[s]
        /\ tx' \in [Tx -> Transaction \cup {None}]
    BY DEF End, TypeOK
  <1>2. /\ lock' \in [Users -> Tx \cup {None}]
        /\ \A u \in Users : lock'[u] = IF lock[u] = t THEN None ELSE lock[u]
    BY DEF End, TypeOK, Holds
  <1>3. TypeOK'
    BY <1>1, <1>2 DEF TypeOK
  <1>4. LocksOwned'
    BY <1>1, <1>2 DEF LocksOwned, TypeOK
  <1>5. ListedStayLive'
    BY <1>1, <1>2 DEF ListedStayLive, Holds, Live, TypeOK, Transaction
  <1>6. DecidesUnderLock'
    <2> SUFFICES ASSUME NEW s \in Tx, tx'[s] # None, tx'[s].pc = "deciding"
                 PROVE  Holds(s, tx[s].target)' /\ Found(s)'
      BY <1>1 DEF DecidesUnderLock
    <2>1. s # t /\ tx'[s] = tx[s] /\ tx[s] # None /\ tx[s].target \in Users
      BY <1>1 DEF TypeOK, Transaction
    <2>2. Holds(s, tx[s].target) /\ Found(s)
      BY <2>1 DEF DecidesUnderLock
    <2>3. Found(s)'
      BY <2>1, <2>2 DEF Found
    <2> QED BY <1>2, <2>1, <2>2, <2>3 DEF Holds
  <1>7. SuperuserRemains'
    BY DEF SuperuserRemains, Live
  <1> QED BY <1>3, <1>4, <1>5, <1>6, <1>7

LEMMA AuthorizeKeeps ==
  ASSUME GuardInv, NEW t \in Tx, NEW op \in Ops, NEW actor \in Users, NEW target \in Users,
         Authorize(t, op, actor, target)
  PROVE  GuardInv'
  <1> USE DEF GuardInv
  <1>1. /\ tx'[t] \in Transaction /\ tx'[t] # None
        /\ tx'[t].got = {} /\ tx'[t].pc # "deciding"
        /\ \A s \in Tx \ {t} : tx'[s] = tx[s]
        /\ tx' \in [Tx -> Transaction \cup {None}]
        /\ rows' = rows /\ lock' = lock
    <2> DEFINE x == [op |-> op, actor |-> actor, target |-> target,
             pc |-> IF op \in {"disable", "delete"} THEN "authorized" ELSE "locking",
             listed |-> {}, want |-> {}, got |-> {}]
    <2>1. x \in Transaction /\ x.got = {} /\ x.pc # "deciding"
      BY DEF Transaction
    <2>2. tx' = [tx EXCEPT ![t] = x] /\ rows' = rows /\ lock' = lock
      BY DEF Authorize
    <2> HIDE DEF x
    <2> QED BY <2>1, <2>2 DEF TypeOK
  <1>2. TypeOK'
    BY <1>1 DEF TypeOK
  <1>3. LocksOwned'
    BY <1>1 DEF LocksOwned, TypeOK
  <1>4. ListedStayLive' /\ DecidesUnderLock' /\ SuperuserRemains'
    BY <1>1 DEF ListedStayLive, DecidesUnderLock, SuperuserRemains, Holds, Found, Live
  <1> QED BY <1>2, <1>3, <1>4

LEMMA ListKeeps ==
  ASSUME GuardInv, NEW t \in Tx, List(t)
  PROVE  GuardInv'
  <1> USE DEF GuardInv
  <1>1. PICK found \in SUBSET Superusers :
            tx' = [tx EXCEPT ![t].pc = "locking", ![t].listed = found, ![t].want = found]
    BY DEF List
  <1>2. /\ tx[t] \in Transaction /\ rows' = rows /\ lock' = lock
    BY DEF List, TypeOK
  <1>3. /\ tx'[t] \in Transaction /\ tx'[t] # None
        /\ tx'[t].got = tx[t].got /\ tx'[t].pc # "deciding"
        /\ \A s \in Tx \ {t} : tx'[s] = tx[s]
    BY <1>1, <1>2 DEF TypeOK, Transaction
  <1>4. TypeOK'
    BY <1>1, <1>2, <1>3 DEF TypeOK
  <1>5. LocksOwned'
    BY <1>2, <1>3 DEF LocksOwned, TypeOK
  <1>6. ListedStayLive' /\ DecidesUnderLock' /\ SuperuserRemains'
    BY <1>2, <1>3 DEF ListedStayLive, DecidesUnderLock, SuperuserRemains, Holds, Found, Live
  <1> QED BY <1>4, <1>5, <1>6

LEMMA LockListedKeeps ==
  ASSUME GuardInv, NEW t \in Tx, LockListed(t)
  PROVE  GuardInv'
  <1> USE DEF GuardInv
  <1>0. tx[t] # None /\ tx[t] \in Transaction /\ tx[t].pc = "locking" /\ rows' = rows
    BY DEF LockListed, TypeOK
  <1>1. PICK u \in Superusers :
          /\ Grantable(t, u)
          /\ lock' = [lock EXCEPT ![u] = t]
          /\ tx' = [tx EXCEPT ![t].want = @ \ {u},
                              ![t].got = IF Live(u) THEN @ \cup {u} ELSE @]
    BY <1>0 DEF LockListed, Transaction
  <1>2. /\ tx'[t] \in Transaction /\ tx'[t] # None
        /\ tx'[t].got = (IF Live(u) THEN tx[t].got \cup {u} ELSE tx[t].got)
        /\ tx'[t].pc = "locking"
        /\ \A s \in Tx \ {t} : tx'[s] = tx[s]
    <2>1. PICK got \in SUBSET Superusers :
             got = IF Live(u) THEN tx[t].got \cup {u} ELSE tx[t].got
      BY <1>0, <1>1 DEF Transaction
    <2>2. PICK want \in SUBSET Superusers : want = tx[t].want \ {u}
      BY <1>0 DEF Transaction
    <2>3. tx' = [tx EXCEPT ![t].want = want, ![t].got = got]
      BY <1>0, <1>1, <2>1, <2>2 DEF TypeOK, Transaction
    <2>4. tx'[t] \in Transaction /\ tx'[t].got = got /\ tx'[t].pc = "locking"
          /\ \A s \in Tx \ {t} : tx'[s] = tx[s]
      BY <1>0, <2>3 DEF TypeOK, Transaction
    <2> QED BY <2>1, <2>4
  <1>3. /\ lock'[u] = t /\ \A w \in Users \ {u} : lock'[w] = lock[w]
        /\ \A s \in Tx \ {t}, w \in Users : Holds(s, w)' <=> Holds(s, w)
        /\ \A w \in Users : Holds(t, w) => Holds(t, w)'
    BY <1>1 DEF TypeOK, Grantable, Holds
  <1>4. TypeOK'
    BY <1>0, <1>1, <1>2 DEF TypeOK
  <1>5. LocksOwned'
    BY <1>0, <1>2, <1>3 DEF LocksOwned, TypeOK
  <1>6. ListedStayLive'
    <2> SUFFICES ASSUME NEW s \in Tx, tx'[s] # None, NEW w \in tx'[s].got
                 PROVE  Holds(s, w)' /\ Live(w)'
      BY DEF ListedStayLive
    <2>1. Live(w)' <=> Live(w)
      BY <1>0 DEF Live
    <2>2. CASE s = t
      <3>1. CASE w \in tx[t].got
        BY <1>0, <1>3, <2>1, <2>2, <3>1 DEF ListedStayLive, Transaction
      <3>2. CASE w = u /\ Live(u)
        BY <1>3, <2>1, <2>2, <3>2 DEF Holds
      <3> QED BY <1>2, <2>2, <3>1, <3>2
    <2>3. CASE s # t
      BY <1>2, <1>3, <2>1, <2>3 DEF ListedStayLive, TypeOK, Transaction
    <2> QED BY <2>2, <2>3
  <1>7. DecidesUnderLock'
    <2> SUFFICES ASSUME NEW s \in Tx, tx'[s] # None, tx'[s].pc = "deciding"
                 PROVE  Holds(s, tx[s].target)' /\ Found(s)'
      BY DEF DecidesUnderLock
    <2>1. s # t /\ tx'[s] = tx[s] /\ tx[s] # None /\ tx[s].target \in Users
      BY <1>2 DEF TypeOK, Transaction
    <2>2. Holds(s, tx[s].target) /\ Found(s)
      BY <2>1 DEF DecidesUnderLock
    <2>3. Found(s)'
      BY <1>0, <2>1, <2>2 DEF Found
    <2> QED BY <1>3, <2>1, <2>2, <2>3
  <1>8. SuperuserRemains'
    BY <1>0 DEF SuperuserRemains, Live
  <1> QED BY <1>4, <1>5, <1>6, <1>7, <1>8

LEMMA LockTargetKeeps ==
  ASSUME GuardInv, NEW t \in Tx, LockTarget(t)
  PROVE  GuardInv'
  <1> USE DEF GuardInv
  <1>0. /\ tx[t] # None /\ tx[t] \in Transaction /\ rows' = rows
        /\ Found(t) /\ Grantable(t, tx[t].target) /\ tx[t].target \in Users
    BY DEF LockTarget, TypeOK, Transaction
  <1>1. /\ tx'[t] \in Transaction /\ tx'[t] # None
        /\ tx'[t].got = tx[t].got /\ tx'[t].target = tx[t].target /\ tx'[t].op = tx[t].op
        /\ \A s \in Tx \ {t} : tx'[s] = tx[s]
        /\ tx' \in [Tx -> Transaction \cup {None}]
    BY <1>0 DEF LockTarget, TypeOK, Transaction
  <1>2. /\ lock'[tx[t].target] = t
        /\ lock' \in [Users -> Tx \cup {None}]
        /\ \A w \in Users \ {tx[t].target} : lock'[w] = lock[w]
        /\ \A s \in Tx \ {t}, w \in Users : Holds(s, w)' <=> Holds(s, w)
        /\ \A w \in Users : Holds(t, w) => Holds(t, w)'
    BY <1>0 DEF LockTarget, TypeOK, Grantable, Holds
  <1>3. TypeOK'
    BY <1>0, <1>1, <1>2 DEF TypeOK
  <1>4. LocksOwned'
    BY <1>0, <1>1, <1>2 DEF LocksOwned, TypeOK
  <1>5. ListedStayLive'
    BY <1>0, <1>1, <1>2 DEF ListedStayLive, Live, TypeOK, Transaction
  <1>6. DecidesUnderLock'
    <2> SUFFICES ASSUME NEW s \in Tx, tx'[s] # None, tx'[s].pc = "deciding"
                 PROVE  Holds(s, tx[s].target)' /\ Found(s)'
      BY DEF DecidesUnderLock
    <2>1. CASE s = t
      <3>1. Found(t)'
        BY <1>0, <1>1 DEF Found
      <3> QED BY <1>0, <1>1, <1>2, <2>1, <3>1 DEF Holds
    <2>2. CASE s # t
      <3>1. tx'[s] = tx[s] /\ tx[s] # None /\ tx[s].target \in Users
        BY <1>1, <2>2 DEF TypeOK, Transaction
      <3>2. Holds(s, tx[s].target) /\ Found(s)
        BY <3>1 DEF DecidesUnderLock
      <3>3. Found(s)'
        BY <1>0, <3>1, <3>2 DEF Found
      <3> QED BY <1>2, <2>2, <3>1, <3>2, <3>3
    <2> QED BY <2>1, <2>2
  <1>7. SuperuserRemains'
    BY <1>0 DEF SuperuserRemains, Live
  <1> QED BY <1>3, <1>4, <1>5, <1>6, <1>7

\* The one step that writes.  Nobody else holds the row it writes, so nobody
\* else's list contains it; and if it takes a live superuser away, its own list
\* names another one.
LEMMA CommittedKeeps ==
  ASSUME GuardInv, NEW t \in Tx, Committed(t)
  PROVE  GuardInv'
  <1> USE DEF GuardInv
  <1>0. PICK x \in Users : x = tx[t].target
    BY DEF Committed, TypeOK, Transaction
  <1>1. /\ tx[t] # None /\ tx[t] \in Transaction /\ tx[t].pc = "deciding" /\ ~Refusal(t)
        /\ Holds(t, x) /\ tx[t].op \in Ops /\ tx[t].got \subseteq Superusers
    BY <1>0 DEF Committed, TypeOK, DecidesUnderLock, Transaction
  <1>2. /\ rows'[x] = Changed(rows[x], tx[t].op) /\ rows'[x] \in Row
        /\ \A w \in Users \ {x} : rows'[w] = rows[w]
        /\ rows' \in [Users -> Row]
    <2>1. Changed(rows[x], tx[t].op) \in Row
      BY <1>1 DEF Changed, Ops, Row, TypeOK
    <2> QED BY <1>0, <2>1 DEF Committed, TypeOK
  <1>3. /\ tx'[t] = None /\ \A s \in Tx \ {t} : tx'[s] = tx[s]
        /\ tx' \in [Tx -> Transaction \cup {None}]
        /\ lock' \in [Users -> Tx \cup {None}]
        /\ \A u \in Users : lock'[u] = IF lock[u] = t THEN None ELSE lock[u]
    BY DEF Committed, End, TypeOK, Holds
  <1>4. TypeOK'
    BY <1>2, <1>3 DEF TypeOK
  <1>5. LocksOwned'
    BY <1>3 DEF LocksOwned, TypeOK
  <1>6. ListedStayLive'
    <2> SUFFICES ASSUME NEW s \in Tx, tx'[s] # None, NEW w \in tx'[s].got
                 PROVE  Holds(s, w)' /\ Live(w)'
      BY DEF ListedStayLive
    <2>1. s # t /\ tx'[s] = tx[s] /\ tx[s] # None /\ w \in Users
      BY <1>3 DEF TypeOK, Transaction
    <2>2. Holds(s, w) /\ Live(w)
      BY <2>1 DEF ListedStayLive
    <2>3. w # x
      BY <1>1, <2>1, <2>2 DEF Holds
    <2> QED BY <1>2, <1>3, <2>1, <2>2, <2>3 DEF Holds, Live
  <1>7. DecidesUnderLock'
    <2> SUFFICES ASSUME NEW s \in Tx, tx'[s] # None, tx'[s].pc = "deciding"
                 PROVE  Holds(s, tx[s].target)' /\ Found(s)'
      BY <1>3 DEF DecidesUnderLock
    <2>1. s # t /\ tx'[s] = tx[s] /\ tx[s] # None /\ tx[s].target \in Users
      BY <1>3 DEF TypeOK, Transaction
    <2>2. Holds(s, tx[s].target) /\ Found(s)
      BY <2>1 DEF DecidesUnderLock
    <2>3. tx[s].target # x
      BY <1>1, <2>1, <2>2 DEF Holds
    <2>4. rows'[tx[s].target] = rows[tx[s].target]
      BY <1>2, <2>1, <2>3
    <2>5. Found(s)'
      BY <2>1, <2>2, <2>4 DEF Found
    <2>6. Holds(s, tx[s].target)'
      BY <1>3, <2>1, <2>2 DEF Holds
    <2> QED BY <2>5, <2>6
  <1>8. SuperuserRemains'
    <2>1. PICK a \in Superusers : Live(a)
      BY DEF SuperuserRemains
    <2>2. CASE a # x
      BY <1>2, <2>1, <2>2 DEF SuperuserRemains, Live
    <2>3. CASE a = x /\ ~Removes(t)
      BY <1>1, <1>2, <2>1, <2>3 DEF SuperuserRemains, Live, Removes, Changed, Ops, Row, TypeOK
    <2>4. CASE a = x /\ Removes(t)
      <3>1. PICK b \in tx[t].got : b # x
        BY <1>0, <1>1, <2>1, <2>4 DEF Refusal, Live
      <3>2. b \in Superusers /\ Live(b)
        BY <1>1, <3>1 DEF ListedStayLive
      <3> QED BY <1>2, <3>1, <3>2 DEF SuperuserRemains, Live
    <2> QED BY <2>2, <2>3, <2>4
  <1> QED BY <1>4, <1>5, <1>6, <1>7, <1>8

\* Between any two statements the guard's invariant holds, for any number of
\* accounts and of calls.
THEOREM Guarded == Spec => []GuardInv
  <1>1. GuardInv /\ [Next]_vars => GuardInv'
    <2> SUFFICES ASSUME GuardInv, [Next]_vars PROVE GuardInv'
      OBVIOUS
    <2>1. CASE \E t \in Tx, op \in Ops, actor, target \in Users : Authorize(t, op, actor, target)
      BY <2>1, AuthorizeKeeps
    <2>2. CASE \E t \in Tx : List(t)
      BY <2>2, ListKeeps
    <2>3. CASE \E t \in Tx : LockListed(t)
      BY <2>3, LockListedKeeps
    <2>4. CASE \E t \in Tx : LockTarget(t)
      BY <2>4, LockTargetKeeps
    <2>5. CASE \E t \in Tx : TargetMissing(t) \/ Refused(t) \/ Abandon(t) \/ DeadlockVictim(t)
      BY <2>5, EndKeeps DEF TargetMissing, Refused, Abandon, DeadlockVictim
    <2>6. CASE \E t \in Tx : Committed(t)
      BY <2>6, CommittedKeeps
    <2>7. CASE UNCHANGED vars
      BY <2>7 DEF vars, GuardInv, TypeOK, LocksOwned, ListedStayLive, DecidesUnderLock,
                  SuperuserRemains, Holds, Found, Live
    <2> QED BY <2>1, <2>2, <2>3, <2>4, <2>5, <2>6, <2>7 DEF Next, Serve
  <1> QED BY <1>1, InitGuarded, PTL DEF Spec

\* The last active superuser cannot be disabled or deleted.
THEOREM LastSuperuserKept == Spec => []SuperuserRemains
  BY Guarded, PTL DEF GuardInv
-----------------------------------------------------------------------------
\* Until it asks for its target, a call holds the rows its list has given it so
\* far, and they come before the rows it has still to lock.
LocksInOrder ==
    \A t \in Tx : tx[t] # None =>
        /\ tx[t].want \subseteq tx[t].listed
        /\ tx[t].pc = "authorized" => tx[t].listed = {}
        /\ tx[t].pc # "deciding" =>
              \A u \in Users : Holds(t, u) <=> u \in tx[t].listed \ tx[t].want
        /\ \A u \in tx[t].listed \ tx[t].want, w \in tx[t].want : u < w

LEMMA InitOrdered == Init => LocksInOrder
  BY DEF Init, LocksInOrder

LEMMA EndKeepsOrder ==
  ASSUME GuardInv, LocksInOrder, NEW t \in Tx, End(t)
  PROVE  LocksInOrder'
  <1>1. /\ tx'[t] = None /\ \A s \in Tx \ {t} : tx'[s] = tx[s]
        /\ \A u \in Users : lock'[u] = IF lock[u] = t THEN None ELSE lock[u]
    BY DEF End, GuardInv, TypeOK, Holds
  <1>2. \A s \in Tx \ {t}, u \in Users : Holds(s, u)' <=> Holds(s, u)
    BY <1>1 DEF Holds
  <1> QED BY <1>1, <1>2 DEF LocksInOrder

LEMMA AuthorizeKeepsOrder ==
  ASSUME GuardInv, LocksInOrder,
         NEW t \in Tx, NEW op \in Ops, NEW actor \in Users, NEW target \in Users,
         Authorize(t, op, actor, target)
  PROVE  LocksInOrder'
  <1>1. /\ tx'[t].listed = {} /\ tx'[t].want = {}
        /\ \A s \in Tx \ {t} : tx'[s] = tx[s]
        /\ tx[t] = None /\ lock' = lock
    BY DEF Authorize, GuardInv, TypeOK
  <1>2. \A u \in Users : ~Holds(t, u)
    BY <1>1 DEF Holds, GuardInv, LocksOwned
  <1>3. \A s \in Tx, u \in Users : Holds(s, u)' <=> Holds(s, u)
    BY <1>1 DEF Holds
  <1> QED BY <1>1, <1>2, <1>3 DEF LocksInOrder

LEMMA ListKeepsOrder ==
  ASSUME GuardInv, LocksInOrder, NEW t \in Tx, List(t)
  PROVE  LocksInOrder'
  <1>1. PICK found \in SUBSET Superusers :
            tx' = [tx EXCEPT ![t].pc = "locking", ![t].listed = found, ![t].want = found]
    BY DEF List
  <1>2. tx[t] # None /\ tx[t] \in Transaction /\ tx[t].pc = "authorized" /\ lock' = lock
    BY DEF List, GuardInv, TypeOK
  <1>3. /\ tx'[t].listed = found /\ tx'[t].want = found /\ tx'[t].pc = "locking"
        /\ \A s \in Tx \ {t} : tx'[s] = tx[s]
    BY <1>1, <1>2 DEF GuardInv, TypeOK, Transaction
  <1>4. \A u \in Users : ~Holds(t, u)
    BY <1>2 DEF LocksInOrder
  <1>5. \A s \in Tx, u \in Users : Holds(s, u)' <=> Holds(s, u)
    BY <1>2 DEF Holds
  <1> QED BY <1>3, <1>4, <1>5 DEF LocksInOrder

LEMMA LockListedKeepsOrder ==
  ASSUME GuardInv, LocksInOrder, NEW t \in Tx, LockListed(t)
  PROVE  LocksInOrder'
  <1>0. tx[t] # None /\ tx[t] \in Transaction /\ tx[t].pc = "locking"
    BY DEF LockListed, GuardInv, TypeOK
  <1>1. PICK u \in tx[t].want :
          /\ \A w \in tx[t].want : u =< w
          /\ Grantable(t, u)
          /\ lock' = [lock EXCEPT ![u] = t]
          /\ tx' = [tx EXCEPT ![t].want = @ \ {u},
                              ![t].got = IF Live(u) THEN @ \cup {u} ELSE @]
    BY <1>0 DEF LockListed
  <1>2. u \in Users /\ tx[t].listed \subseteq Nat /\ tx[t].want \subseteq tx[t].listed
    BY <1>0, <1>1 DEF Transaction, LocksInOrder
  <1>3. /\ tx'[t].listed = tx[t].listed /\ tx'[t].want = tx[t].want \ {u}
        /\ tx'[t].pc = "locking"
        /\ \A s \in Tx \ {t} : tx'[s] = tx[s]
    <2> HIDE DEF Live
    <2>1. PICK got : got = IF Live(u) THEN tx[t].got \cup {u} ELSE tx[t].got
      OBVIOUS
    <2>2. tx' = [tx EXCEPT ![t] = [tx[t] EXCEPT !.want = tx[t].want \ {u}, !.got = got]]
      BY <1>0, <1>1, <2>1 DEF GuardInv, TypeOK, Transaction
    <2> QED BY <1>0, <2>2 DEF GuardInv, TypeOK, Transaction
  <1>4. /\ \A s \in Tx \ {t}, w \in Users : Holds(s, w)' <=> Holds(s, w)
        /\ \A w \in Users : Holds(t, w)' <=> Holds(t, w) \/ w = u
    BY <1>1, <1>2 DEF Grantable, Holds, GuardInv, TypeOK
  <1>5. \A s \in Tx \ {t} : tx'[s] # None =>
          /\ tx'[s].want \subseteq tx'[s].listed
          /\ tx'[s].pc = "authorized" => tx'[s].listed = {}
          /\ tx'[s].pc # "deciding" =>
                \A w \in Users : Holds(s, w)' <=> w \in tx'[s].listed \ tx'[s].want
          /\ \A v \in tx'[s].listed \ tx'[s].want, w \in tx'[s].want : v < w
    BY <1>3, <1>4 DEF LocksInOrder
  <1>6. \A w \in Users : Holds(t, w)' <=> w \in tx'[t].listed \ tx'[t].want
    <2>1. \A w \in Users : Holds(t, w) <=> w \in tx[t].listed \ tx[t].want
      BY <1>0 DEF LocksInOrder
    <2> QED BY <1>1, <1>2, <1>3, <1>4, <2>1
  <1>7. \A v \in tx'[t].listed \ tx'[t].want, w \in tx'[t].want : v < w
    <2>1. \A v \in tx[t].listed \ tx[t].want, w \in tx[t].want : v < w
      BY <1>0 DEF LocksInOrder
    <2>2. \A w \in tx[t].want \ {u} : u \in Nat /\ w \in Nat /\ u < w
      <3> SUFFICES ASSUME NEW w \in tx[t].want, w # u PROVE u \in Nat /\ w \in Nat /\ u < w
        OBVIOUS
      <3>1. u \in Nat /\ w \in Nat
        BY <1>2
      <3> QED BY <1>1, <3>1
    <2>3. \A v : v \in tx'[t].listed \ tx'[t].want =>
              v = u \/ v \in tx[t].listed \ tx[t].want
      BY <1>3
    <2> QED BY <1>3, <2>1, <2>2, <2>3
  <1> QED BY <1>2, <1>3, <1>5, <1>6, <1>7 DEF LocksInOrder

LEMMA LockTargetKeepsOrder ==
  ASSUME GuardInv, LocksInOrder, NEW t \in Tx, LockTarget(t)
  PROVE  LocksInOrder'
  <1>0. /\ tx[t] # None /\ tx[t] \in Transaction
        /\ Grantable(t, tx[t].target) /\ tx[t].target \in Users
    BY DEF LockTarget, GuardInv, TypeOK, Transaction
  <1>1. /\ tx'[t].listed = tx[t].listed /\ tx'[t].want = tx[t].want
        /\ tx'[t].pc = "deciding"
        /\ \A s \in Tx \ {t} : tx'[s] = tx[s]
    BY <1>0 DEF LockTarget, GuardInv, TypeOK, Transaction
  <1>2. \A s \in Tx \ {t}, w \in Users : Holds(s, w)' <=> Holds(s, w)
    BY <1>0 DEF LockTarget, Grantable, Holds, GuardInv, TypeOK
  <1> QED BY <1>0, <1>1, <1>2 DEF LocksInOrder

\* Each call of a circle waits for a row beyond all it holds, so the rows asked
\* for would ascend for ever round the circle; superusers are finitely many.
LEMMA OrderBreaksCycles ==
  ASSUME GuardInv, LocksInOrder
  PROVE  CycleNeedsChange
  <1> SUFFICES ASSUME NEW S \in SUBSET Tx, Deadlocked(S),
                      \A t, s \in S : tx[t].target \notin tx[s].listed \ tx[t].listed
               PROVE  FALSE
    BY DEF CycleNeedsChange
  <1> DEFINE Beyond(t) == {x \in Superusers : \E w \in tx[t].want : w < x}
             Sets == {Beyond(t) : t \in S}
  <1>1. \A t \in S : tx[t] # None /\ tx[t] \in Transaction /\ tx[t].pc = "locking"
    BY DEF Deadlocked, WaitsFor, GuardInv, TypeOK
  <1>2. ASSUME NEW t \in S
        PROVE  \E s \in S, u \in tx[t].want :
                  /\ \A w \in tx[t].want : u =< w
                  /\ u \in tx[s].listed \ tx[s].want
    <2>1. PICK s \in S : WaitsFor(t, s)
      BY DEF Deadlocked
    <2>2. /\ \A u \in Users : Holds(s, u) <=> u \in tx[s].listed \ tx[s].want
          /\ \A u \in Users : Holds(t, u) <=> u \in tx[t].listed \ tx[t].want
      BY <1>1 DEF LocksInOrder
    <2>3. /\ tx[t].target \in Users /\ tx[t].want \subseteq Users
          /\ tx[s].listed \subseteq Superusers
      BY <1>1 DEF Transaction
    <2>4. ~(tx[t].want = {} /\ Holds(s, tx[t].target))
      <3> SUFFICES ASSUME tx[t].want = {}, Holds(s, tx[t].target) PROVE FALSE
        OBVIOUS
      <3>1. tx[t].target \in tx[s].listed
        BY <2>2, <2>3
      <3>2. Holds(t, tx[t].target)
        BY <2>2, <2>3, <3>1
      <3> QED BY <2>1, <3>2 DEF Holds, WaitsFor
    <2> QED BY <2>1, <2>2, <2>3, <2>4 DEF WaitsFor
  <1>3. ASSUME NEW t \in S
        PROVE  \E s \in S : Beyond(s) \subseteq Beyond(t) /\ Beyond(s) # Beyond(t)
    <2>1. PICK s \in S, u \in tx[t].want :
             u \in tx[s].listed \ tx[s].want /\ \A w \in tx[t].want : u =< w
      BY <1>2
    <2>2. PICK v \in tx[s].want : \A w \in tx[s].want : v =< w
      BY <1>2
    <2>3. tx[t].want \subseteq Nat /\ tx[s].want \subseteq Superusers /\ Superusers \subseteq Nat
      BY <1>1 DEF Transaction
    <2>4. \A w \in tx[s].want : u < w
      BY <1>1, <2>1 DEF LocksInOrder
    <2>5. v \in Beyond(t) /\ v \notin Beyond(s)
      <3>1. v \in Superusers /\ u < v
        BY <2>3, <2>4
      <3>2. \A w \in tx[s].want : v \in Nat /\ w \in Nat /\ ~(w < v)
        <4> SUFFICES ASSUME NEW w \in tx[s].want PROVE v \in Nat /\ w \in Nat /\ ~(w < v)
          OBVIOUS
        <4>1. v \in Nat /\ w \in Nat
          BY <2>3
        <4>2. v =< w
          BY <2>2
        <4> QED BY <4>1, <4>2
      <3> QED BY <3>1, <3>2
    <2>6. Beyond(s) \subseteq Beyond(t)
      <3> SUFFICES ASSUME NEW x \in Superusers, NEW w \in tx[s].want, w < x
                   PROVE  u < x
        BY <2>1
      <3>1. u \in Nat /\ w \in Nat /\ x \in Nat
        BY <2>3
      <3>2. u < w
        BY <2>4
      <3> QED BY <3>1, <3>2
    <2> QED BY <2>5, <2>6
  <1>4. PICK B \in Sets : \A C \in Sets : <<C, B>> \notin StrictSubsetOrdering(Superusers)
    <2>1. Sets \subseteq FiniteSubsetsOf(Superusers)
      <3>1. \A t \in S : Beyond(t) \in SUBSET Superusers
        OBVIOUS
      <3>2. \A T \in SUBSET Superusers : IsFiniteSet(T)
        BY FS_Subset
      <3> QED BY <3>1, <3>2 DEF FiniteSubsetsOf
    <2>2. Sets # {}
      <3>1. PICK t \in S : TRUE
        BY DEF Deadlocked
      <3>2. Beyond(t) \in Sets
        OBVIOUS
      <3> QED BY <3>2
    <2>3. IsWellFoundedOn(StrictSubsetOrdering(Superusers), FiniteSubsetsOf(Superusers))
      BY FS_StrictSubsetOrderingWellFounded
    <2> HIDE DEF Sets
    <2> QED BY <2>1, <2>2, <2>3, WFMin
  <1>5. PICK t \in S : B = Beyond(t)
    BY <1>4
  <1>6. PICK s \in S : Beyond(s) \subseteq Beyond(t) /\ Beyond(s) # Beyond(t)
    BY <1>3
  <1>7. <<Beyond(s), Beyond(t)>> \in StrictSubsetOrdering(Superusers)
    BY <1>6 DEF StrictSubsetOrdering
  <1> QED BY <1>4, <1>5, <1>7

\* For any superusers and calls: calls that wait in a circle listed different
\* superusers, and one of them was asked to change a superuser only another listed.
THEOREM CyclesNeedAChange == Spec => []CycleNeedsChange
  <1>1. GuardInv /\ LocksInOrder /\ [Next]_vars => LocksInOrder'
    <2> SUFFICES ASSUME GuardInv, LocksInOrder, [Next]_vars PROVE LocksInOrder'
      OBVIOUS
    <2>1. CASE \E t \in Tx, op \in Ops, actor, target \in Users : Authorize(t, op, actor, target)
      BY <2>1, AuthorizeKeepsOrder
    <2>2. CASE \E t \in Tx : List(t)
      BY <2>2, ListKeepsOrder
    <2>3. CASE \E t \in Tx : LockListed(t)
      BY <2>3, LockListedKeepsOrder
    <2>4. CASE \E t \in Tx : LockTarget(t)
      BY <2>4, LockTargetKeepsOrder
    <2>5. CASE \E t \in Tx : TargetMissing(t) \/ Refused(t) \/ Committed(t) \/ Abandon(t)
                               \/ DeadlockVictim(t)
      BY <2>5, EndKeepsOrder DEF TargetMissing, Refused, Committed, Abandon, DeadlockVictim
    <2>6. CASE UNCHANGED vars
      BY <2>6 DEF vars, LocksInOrder, Holds
    <2> QED BY <2>1, <2>2, <2>3, <2>4, <2>5, <2>6 DEF Next, Serve
  <1>2. GuardInv /\ LocksInOrder => CycleNeedsChange
    BY OrderBreaksCycles
  <1> QED BY <1>1, <1>2, InitOrdered, Guarded, PTL DEF Spec
=============================================================================
