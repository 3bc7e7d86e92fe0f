--------------------------- MODULE SuperuserGuard ---------------------------
(***************************************************************************)
(* The guard of services/users.py that keeps the last active superuser:    *)
(* the statements of update_user, delete_user and the recycle bin's        *)
(* restore, each an action, with the row locks PostgreSQL grants them      *)
(* under READ COMMITTED.                                                   *)
(*                                                                         *)
(* rows holds committed versions only: the one write of a transaction is   *)
(* made under the row's lock and seen by nobody before the commit, which   *)
(* is the step that makes it.                                              *)
(***************************************************************************)
EXTENDS Integers, FiniteSets

CONSTANTS
    Users,       \* users.id, ordered
    Superusers,  \* is_superuser, which no endpoint changes
    Tx,          \* slots for transactions in progress
    None

ASSUME GuardAssumption ==
    /\ Users \subseteq Nat /\ Superusers \subseteq Users /\ IsFiniteSet(Superusers)
    /\ None \notin Tx

VARIABLES
    rows,   \* users table: id -> committed row
    lock,   \* FOR NO KEY UPDATE: row -> the transaction that holds it
    tx      \* transactions in progress

vars == <<rows, lock, tx>>

Ops == {"disable", "enable", "delete", "restore"}
Row == [active : BOOLEAN, deleted : BOOLEAN]

\* listed: what the list query saw.  want: what it has still to lock.
\* got: the ids it returns.
Transaction ==
    [op : Ops, actor : Users, target : Users,
     pc : {"authorized", "locking", "deciding"},
     listed : SUBSET Superusers, want : SUBSET Superusers, got : SUBSET Superusers]

ASSUME NoTransaction == None \notin Transaction

TypeOK ==
    /\ rows \in [Users -> Row]
    /\ lock \in [Users -> Tx \cup {None}]
    /\ tx \in [Tx -> Transaction \cup {None}]

Live(u) == rows[u].active /\ ~rows[u].deleted

\* The bootstrap leaves an active superuser behind; nothing else is assumed of
\* the accounts.
Init ==
    /\ rows \in [Users -> Row]
    /\ \E u \in Superusers : Live(u)
    /\ lock = [u \in Users |-> None]
    /\ tx = [t \in Tx |-> None]

-----------------------------------------------------------------------------
Removes(t) == tx[t].op \in {"disable", "delete"}

\* The row the last locking query asks for.
Found(t) == rows[tx[t].target].deleted <=> tx[t].op = "restore"

Holds(t, u) == lock[u] = t
Grantable(t, u) == lock[u] \in {None, t}

\* Commit, rollback and a lost connection all release every lock.
End(t) ==
    /\ tx' = [tx EXCEPT ![t] = None]
    /\ lock' = [u \in Users |-> IF Holds(t, u) THEN None ELSE lock[u]]

\* get_current_user: the actor is checked once, without a lock.
Authorize(t, op, actor, target) ==
    /\ tx[t] = None /\ Live(actor)
    /\ tx' = [tx EXCEPT ![t] =
            [op |-> op, actor |-> actor, target |-> target,
             pc |-> IF op \in {"disable", "delete"} THEN "authorized" ELSE "locking",
             listed |-> {}, want |-> {}, got |-> {}]]
    /\ UNCHANGED <<rows, lock>>

\* mutant: the ids are read, not locked
ListUnlocked(t) ==
    LET found == {u \in Superusers : Live(u)} IN
    /\ tx[t] # None /\ tx[t].pc = "authorized"
    /\ tx' = [tx EXCEPT ![t].pc = "locking", ![t].listed = found, ![t].got = found]
    /\ UNCHANGED <<rows, lock>>

\* lock_active_superuser_ids: the snapshot of its query ...
List(t) ==
    LET found == {u \in Superusers : Live(u)} IN
    /\ tx[t] # None /\ tx[t].pc = "authorized"
    /\ tx' = [tx EXCEPT ![t].pc = "locking", ![t].listed = found, ![t].want = found]
    /\ UNCHANGED <<rows, lock>>

\* mutant: ORDER BY is dropped
LockAnyListed(t) ==
    /\ tx[t] # None /\ tx[t].pc = "locking"
    /\ \E u \in tx[t].want :
        /\ Grantable(t, u)
        /\ lock' = [lock EXCEPT ![u] = t]
        /\ tx' = [tx EXCEPT ![t].want = @ \ {u},
                            ![t].got = IF Live(u) THEN @ \cup {u} ELSE @]
    /\ UNCHANGED rows

\* ... whose rows are locked in the order of their ids.  A row that changed
\* while the query waited is looked at again: it stays locked, and is returned
\* only if it still qualifies.
LockListed(t) ==
    /\ tx[t] # None /\ tx[t].pc = "locking"
    /\ \E u \in tx[t].want :
        /\ \A w \in tx[t].want : u =< w
        /\ Grantable(t, u)
        /\ lock' = [lock EXCEPT ![u] = t]
        /\ tx' = [tx EXCEPT ![t].want = @ \ {u},
                            ![t].got = IF Live(u) THEN @ \cup {u} ELSE @]
    /\ UNCHANGED rows

\* mutant: get_with_roles, without FOR UPDATE
LockTargetUnlocked(t) ==
    /\ tx[t] # None /\ tx[t].pc = "locking" /\ tx[t].want = {}
    /\ Found(t)
    /\ tx' = [tx EXCEPT ![t].pc = "deciding"]
    /\ UNCHANGED <<rows, lock>>

\* get_with_roles_for_update, lock_active, restore: the target by its id.
LockTarget(t) ==
    /\ tx[t] # None /\ tx[t].pc = "locking" /\ tx[t].want = {}
    /\ Found(t) /\ Grantable(t, tx[t].target)
    /\ lock' = [lock EXCEPT ![tx[t].target] = t]
    /\ tx' = [tx EXCEPT ![t].pc = "deciding"]
    /\ UNCHANGED rows

\* NotFoundError.
TargetMissing(t) ==
    /\ tx[t] # None /\ tx[t].pc = "locking" /\ tx[t].want = {}
    /\ ~Found(t)
    /\ End(t)
    /\ UNCHANGED rows

\* ensure_can_manage, the check against the actor's own account, and
\* _ensure_other_active_superuser.
Refusal(t) ==
    LET target == tx[t].target IN
    \/ target \in Superusers /\ tx[t].actor \notin Superusers
    \/ /\ Removes(t)
       /\ \/ target = tx[t].actor
          \/ /\ target \in Superusers /\ rows[target].active
             /\ tx[t].got \subseteq {target}

\* mutant: the refusal keeps its transaction open
RefusedKeepingLocks(t) ==
    /\ tx[t] # None /\ tx[t].pc = "deciding" /\ Refusal(t)
    /\ tx' = [tx EXCEPT ![t] = None]
    /\ UNCHANGED <<rows, lock>>

Refused(t) ==
    /\ tx[t] # None /\ tx[t].pc = "deciding" /\ Refusal(t)
    /\ End(t)
    /\ UNCHANGED rows

Changed(row, op) ==
    CASE op = "disable" -> [row EXCEPT !.active = FALSE]
      [] op = "enable"  -> [row EXCEPT !.active = TRUE]
      [] op = "delete"  -> [row EXCEPT !.deleted = TRUE]
      [] op = "restore" -> [row EXCEPT !.deleted = FALSE]

Committed(t) ==
    /\ tx[t] # None /\ tx[t].pc = "deciding" /\ ~Refusal(t)
    /\ rows' = [rows EXCEPT ![tx[t].target] = Changed(@, tx[t].op)]
    /\ End(t)

\* A disconnect or a restart, at any statement.
Abandon(t) ==
    /\ tx[t] # None
    /\ End(t)
    /\ UNCHANGED rows

\* The row t asks for next is held by s.
WaitsFor(t, s) ==
    /\ s # t /\ tx[t] # None /\ tx[t].pc = "locking"
    /\ \/ \E u \in tx[t].want : (\A w \in tx[t].want : u =< w) /\ Holds(s, u)
       \/ tx[t].want = {} /\ Found(t) /\ Holds(s, tx[t].target)

Deadlocked(S) == S # {} /\ \A t \in S : \E s \in S : WaitsFor(t, s)

\* PostgreSQL aborts one transaction of a cycle.
DeadlockVictim(t) ==
    /\ \E S \in SUBSET Tx : t \in S /\ Deadlocked(S)
    /\ End(t)
    /\ UNCHANGED rows

Serve(t) ==
    \/ List(t) \/ LockListed(t) \/ LockTarget(t) \/ TargetMissing(t)
    \/ Refused(t) \/ Committed(t)

Next ==
    \E t \in Tx :
        \/ \E op \in Ops, actor \in Users, target \in Users :
                Authorize(t, op, actor, target)
        \/ Serve(t)
        \/ Abandon(t)
        \/ DeadlockVictim(t)

Spec == Init /\ [][Next]_vars

\* The event loop resumes every call, PostgreSQL queues the waiters of a row in
\* the order they came and runs its deadlock detector.
FairSpec ==
    Spec /\ \A t \in Tx : SF_vars(Serve(t)) /\ WF_vars(DeadlockVictim(t))

-----------------------------------------------------------------------------
\* However many removals run at once, an active superuser remains: two that
\* remove each other, a removal that waited while another one committed, one
\* whose actor was removed meanwhile.
SuperuserRemains == \E u \in Superusers : Live(u)

\* Why: what the list query returned stays locked and live, and the row a call
\* decides on is locked, so the account that is left cannot go either.
LocksOwned == \A u \in Users : lock[u] # None => tx[lock[u]] # None

ListedStayLive ==
    \A t \in Tx : tx[t] # None =>
        \A u \in tx[t].got : Holds(t, u) /\ Live(u)

DecidesUnderLock ==
    \A t \in Tx : tx[t] # None /\ tx[t].pc = "deciding" =>
        Holds(t, tx[t].target) /\ Found(t)

GuardInv ==
    /\ TypeOK
    /\ LocksOwned
    /\ ListedStayLive
    /\ DecidesUnderLock
    /\ SuperuserRemains

\* The rows of a list are locked in one order, so calls that saw the same
\* superusers never wait in a circle.  A circle takes a target that one of its
\* calls listed and the call asked to change it did not: that superuser was
\* disabled, enabled, deleted or restored between the two lists.
CycleNeedsChange ==
    \A S \in SUBSET Tx : Deadlocked(S) =>
        \E t, s \in S : tx[t].target \in tx[s].listed \ tx[t].listed

\* Every call is answered, refused or aborted: no call leaves a lock behind
\* that keeps the others waiting.
EveryCallEnds == \A t \in Tx : tx[t] # None ~> tx[t] = None
=============================================================================
