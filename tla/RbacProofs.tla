----------------------------- MODULE RbacProofs -----------------------------
(***************************************************************************)
(* The invariant of Rbac, and from it the delegation rule, for any users,  *)
(* roles, permissions and number of calls.                                 *)
(***************************************************************************)
EXTENDS Rbac, FiniteSetTheorems, TLAPS

USE RbacAssumption, NoCall

-----------------------------------------------------------------------------
\* What one write leaves alone

\* x is the row written; the associations of a purged row go with it.
OnlyWrites(x) ==
    /\ x \in Rows
    /\ user' \in [Users -> [is : Kept, roles : SUBSET Roles]]
    /\ role' \in [Roles -> [is : Kept, active : BOOLEAN, permissions : SUBSET Permissions]]
    /\ permission' \in [Permissions -> [is : Kept, active : BOOLEAN]]
    /\ \A u \in Users \ {x} :
          /\ user'[u].is = user[u].is
          /\ user'[u].roles \subseteq user[u].roles
          /\ \A r \in Roles \ {x} : r \in user'[u].roles <=> r \in user[u].roles
    /\ \A r \in Roles \ {x} :
          /\ role'[r].is = role[r].is /\ role'[r].active = role[r].active
          /\ role'[r].permissions \subseteq role[r].permissions
          /\ \A p \in Permissions \ {x} : p \in role'[r].permissions <=> p \in role[r].permissions
    /\ \A p \in Permissions \ {x} : permission'[p] = permission[p]

LEMMA AssignRolesWrites ==
  ASSUME TypeOK, NEW u \in Users, NEW new \in SUBSET Roles, NEW t, AssignRoles(u, new, t)
  PROVE  OnlyWrites(u)
  BY DEF TypeOK, AssignRoles, OnlyWrites, Rows

LEMMA AssignPermissionsWrites ==
  ASSUME TypeOK, NEW r \in Roles, NEW new \in SUBSET Permissions, NEW t,
         AssignPermissions(r, new, t)
  PROVE  OnlyWrites(r)
  BY DEF TypeOK, AssignPermissions, OnlyWrites, Rows

LEMMA SetRoleActiveWrites ==
  ASSUME TypeOK, NEW r \in Roles, NEW on \in BOOLEAN, NEW t, SetRoleActive(r, on, t)
  PROVE  OnlyWrites(r)
  BY DEF TypeOK, SetRoleActive, OnlyWrites, Rows

LEMMA SetPermissionActiveWrites ==
  ASSUME TypeOK, NEW p \in Permissions, NEW on \in BOOLEAN, NEW t, SetPermissionActive(p, on, t)
  PROVE  OnlyWrites(p)
  BY DEF TypeOK, SetPermissionActive, OnlyWrites, Rows

LEMMA RestoreRoleWrites ==
  ASSUME TypeOK, NEW r \in Roles, RestoreRole(r)
  PROVE  OnlyWrites(r)
  BY DEF TypeOK, RestoreRole, OnlyWrites, Rows, Kept

LEMMA RestorePermissionWrites ==
  ASSUME TypeOK, NEW p \in Permissions, RestorePermission(p)
  PROVE  OnlyWrites(p)
  BY DEF TypeOK, RestorePermission, OnlyWrites, Rows, Kept

LEMMA DeleteRoleWrites ==
  ASSUME TypeOK, NEW r \in Roles, DeleteRole(r)
  PROVE  OnlyWrites(r)
  BY DEF TypeOK, DeleteRole, OnlyWrites, Rows, Kept

-----------------------------------------------------------------------------
\* A write, seen by the calls it does not belong to

\* Nobody who stays holds a lock on x, and who is seen to hold a role held it
\* before, came back, or was given it while it was live and free.
Write(x) ==
    /\ OnlyWrites(x)
    /\ left' \in 0..MaxCalls
    /\ revived \subseteq revived' /\ revived' \subseteq Users
    /\ calls' \in [Tx -> Call \cup {None}]
    /\ \A s \in Tx : calls'[s] # None =>
          /\ calls[s] # None /\ calls'[s] = [calls[s] EXCEPT !.touched = @ \cup {x}]
          /\ calls[s].op \in LocksFirst => calls[s].row # x
    /\ \A u \in Users, r \in Roles :
          user'[u].is = "live" /\ r \in user'[u].roles =>
              \/ user[u].is = "live" /\ r \in user[u].roles
              \/ u \in revived'
              \/ /\ role[r].is = "live" /\ r # x
                 /\ \A s \in Tx : calls'[s] # None /\ calls[s].op \in LocksFirst => calls[s].row # r

LEMMA WriteTyped ==
  ASSUME TypeOK, NEW x \in Rows, Write(x)
  PROVE  TypeOK'
  BY DEF TypeOK, Write, OnlyWrites

\* What a remaining call is, but for the rows it has seen written.
LEMMA StaysAs ==
  ASSUME TypeOK, NEW x \in Rows, Write(x), NEW s \in Tx, calls'[s] # None
  PROVE  /\ calls[s] # None /\ calls[s] \in Call
         /\ calls'[s].op = calls[s].op /\ calls'[s].row = calls[s].row
         /\ calls'[s].new = calls[s].new /\ calls'[s].at = calls[s].at
         /\ calls'[s].added = calls[s].added /\ calls'[s].codes = calls[s].codes
         /\ calls'[s].owned = calls[s].owned
         /\ calls'[s].touched = calls[s].touched \cup {x}
  <1>1. calls[s] # None /\ calls[s] \in Call
    BY DEF TypeOK, Write
  <1>2. calls'[s] = [calls[s] EXCEPT !.touched = @ \cup {x}]
    BY DEF Write
  <1> QED BY <1>1, <1>2 DEF Call

LEMMA WriteKeepsRows ==
  ASSUME TypeOK, RowsFit, CodesOwned, NEW x \in Rows, Write(x)
  PROVE  RowsFit' /\ CodesOwned'
  <1>1. RowsFit'
    BY StaysAs DEF RowsFit
  <1>2. CodesOwned'
    BY StaysAs DEF CodesOwned
  <1> QED BY <1>1, <1>2

LEMMA WriteKeepsAnswers ==
  ASSUME TypeOK, RowsFit, AnswersHold, NEW x \in Rows, Write(x)
  PROVE  AnswersHold'
  <1> SUFFICES ASSUME NEW s \in Tx, NEW u \in Users, NEW r \in Roles, NEW p \in Permissions,
                      calls'[s] # None, {u, r, p} \cap calls'[s].touched = {},
                      Gives(calls[s], <<u, r, p>>)'
               PROVE  /\ calls[s].at # "finding" => Through(calls[s], <<u, r, p>>)' \in calls[s].added
                      /\ calls[s].at \in {"asking", "writing"} /\ HasCode(calls[s], <<u, r, p>>)'
                           => p \in calls[s].codes
    BY StaysAs DEF AnswersHold
  <1> DEFINE c == calls[s]
             g == <<u, r, p>>
  <1>1. /\ c # None /\ c \in Call /\ {u, r, p} \cap c.touched = {}
        /\ u # x /\ r # x /\ p # x
        /\ calls'[s].op = c.op /\ calls'[s].row = c.row /\ calls'[s].new = c.new
    BY StaysAs
  <1>2. /\ user'[u].is = user[u].is /\ (r \in user'[u].roles <=> r \in user[u].roles)
        /\ role'[r].is = role[r].is
        /\ (p \in role'[r].permissions <=> p \in role[r].permissions)
        /\ permission'[p] = permission[p]
    BY <1>1 DEF Write, OnlyWrites
  <1>3. Gives(c, g)
    BY <1>1, <1>2 DEF Gives
  <1>4. Through(c, g)' = Through(c, g)
    BY <1>1 DEF Through
  <1>5. HasCode(c, g)' => HasCode(c, g)
    BY <1>1, <1>2 DEF HasCode
  <1> QED BY <1>1, <1>3, <1>4, <1>5 DEF AnswersHold

LEMMA WriteKeepsLocks ==
  ASSUME TypeOK, RowsFit, LockedRowStays, NEW x \in Rows, Write(x)
  PROVE  LockedRowStays'
  <1> SUFFICES ASSUME NEW s \in Tx, calls'[s] # None, calls[s].op \in LocksFirst
               PROVE  /\ Found(calls[s].op, calls[s].row)'
                      /\ calls[s].row \notin calls'[s].touched
                      /\ Free(calls[s].row, s)'
    BY StaysAs DEF LockedRowStays
  <1> DEFINE c == calls[s]
  <1>1. /\ c # None /\ c.row # x /\ calls'[s].touched = c.touched \cup {x}
        /\ calls'[s].op = c.op /\ calls'[s].row = c.row
    BY StaysAs DEF Write
  <1>2. Found(c.op, c.row) /\ c.row \notin c.touched /\ Free(c.row, s)
    BY <1>1 DEF LockedRowStays
  <1>3. Found(c.op, c.row)'
    <2>1. CASE c.op = "enable role" \/ c.op = "delete role"
      <3>1. c.row \in Roles \ {x}
        BY <1>1, <2>1 DEF RowsFit
      <3>2. role'[c.row].is = role[c.row].is /\ role'[c.row].active = role[c.row].active
        BY <3>1 DEF Write, OnlyWrites
      <3> QED BY <1>1, <1>2, <2>1, <3>2 DEF Found
    <2>2. CASE c.op = "enable permission"
      <3>1. c.row \in Permissions \ {x}
        BY <1>1, <2>2 DEF RowsFit
      <3>2. permission'[c.row] = permission[c.row]
        BY <3>1 DEF Write, OnlyWrites
      <3> QED BY <1>1, <1>2, <2>2, <3>2 DEF Found
    <2> QED BY <2>1, <2>2 DEF LocksFirst
  <1>4. Free(c.row, s)'
    BY <1>1, <1>2, StaysAs DEF Free
  <1> QED BY <1>1, <1>2, <1>3, <1>4

LEMMA WriteKeepsCounted ==
  ASSUME TypeOK, RowsFit, CountedUnused, NEW x \in Rows, Write(x)
  PROVE  CountedUnused'
  <1> SUFFICES ASSUME NEW s \in Tx, calls'[s] # None,
                      calls[s].op = "delete role", calls[s].at # "finding",
                      NEW u \in Users, user'[u].is = "live", calls[s].row \in user'[u].roles
               PROVE  u \in revived'
    BY StaysAs DEF CountedUnused
  <1>1. calls[s] # None /\ calls[s].row \in Roles
    BY StaysAs DEF RowsFit
  <1>2. \/ user[u].is = "live" /\ calls[s].row \in user[u].roles
        \/ u \in revived'
    BY <1>1 DEF Write, LocksFirst
  <1> QED BY <1>1, <1>2 DEF CountedUnused, Write

LEMMA WriteKeepsDeleted ==
  ASSUME TypeOK, DeletedRolesUnused, NEW x \in Rows, Write(x),
         \A r \in Roles : role'[r].is = "deleted" => role[r].is = "deleted"
  PROVE  DeletedRolesUnused'
  BY DEF DeletedRolesUnused, Write

LEMMA WriteKeeps ==
  ASSUME RbacInv, NEW x \in Rows, Write(x), DeletedRolesUnused'
  PROVE  RbacInv'
  BY WriteTyped, WriteKeepsRows, WriteKeepsAnswers, WriteKeepsLocks, WriteKeepsCounted
     DEF RbacInv

-----------------------------------------------------------------------------
\* A step of one call that writes no row

Fits(c) ==
    /\ CASE c.op = "assign roles" -> c.row \in Users /\ c.new \subseteq Roles
         [] c.op = "assign permissions" -> c.row \in Roles /\ c.new \subseteq Permissions
         [] c.op \in {"enable permission", "restore permission"} -> c.row \in Permissions
         [] OTHER -> c.row \in Roles
    /\ c.added \subseteq IF c.op \in GivesRoles THEN Roles ELSE Permissions

Locks(c, t) ==
    c.op \in LocksFirst => Found(c.op, c.row) /\ c.row \notin c.touched /\ Free(c.row, t)

Answers(c) ==
    \A u \in Users, r \in Roles, p \in Permissions :
        {u, r, p} \cap c.touched = {} /\ Gives(c, <<u, r, p>>) =>
            /\ c.at # "finding" => Through(c, <<u, r, p>>) \in c.added
            /\ c.at \in {"asking", "writing"} /\ HasCode(c, <<u, r, p>>) => p \in c.codes

Counted(c) ==
    c.op = "delete role" /\ c.at # "finding" =>
        \A u \in Users : user[u].is = "live" /\ c.row \in user[u].roles => u \in revived

Sound(t) ==
    calls[t] # None =>
        /\ Fits(calls[t]) /\ Locks(calls[t], t)
        /\ Answers(calls[t])
        /\ calls[t].at # "asking" => calls[t].codes \subseteq calls[t].owned
        /\ Counted(calls[t])

LEMMA AllSound ==
  ASSUME RowsFit, LockedRowStays, AnswersHold, CodesOwned, CountedUnused, NEW t \in Tx
  PROVE  Sound(t)
  <1> SUFFICES ASSUME calls[t] # None PROVE Sound(t)
    BY DEF Sound
  <1>1. Fits(calls[t])
    BY DEF RowsFit, Fits
  <1>2. Locks(calls[t], t)
    BY DEF LockedRowStays, Locks
  <1>3. Answers(calls[t])
    BY DEF AnswersHold, Answers
  <1>4. Counted(calls[t])
    BY DEF CountedUnused, Counted
  <1> QED BY <1>1, <1>2, <1>3, <1>4 DEF Sound, CodesOwned

LEMMA OneLess ==
  ASSUME NEW n \in 0..MaxCalls, n > 0
  PROVE  n - 1 \in 0..MaxCalls
  OBVIOUS

\* The call of t changes, the others and the rows do not.
OnlyCall(t) ==
    /\ UNCHANGED <<rows, revived>>
    /\ left' \in 0..MaxCalls
    /\ calls' \in [Tx -> Call \cup {None}]
    /\ \A s \in Tx \ {t} : calls'[s] = calls[s]

LEMMA SameAnswers ==
  ASSUME UNCHANGED rows, NEW s \in Tx, calls'[s] = calls[s], Answers(calls[s])
  PROVE  Answers(calls[s])'
  <1> SUFFICES ASSUME NEW u \in Users, NEW r \in Roles, NEW p \in Permissions,
                      {u, r, p} \cap calls[s].touched = {}, Gives(calls[s], <<u, r, p>>)'
               PROVE  /\ calls[s].at # "finding" => Through(calls[s], <<u, r, p>>)' \in calls[s].added
                      /\ calls[s].at \in {"asking", "writing"} /\ HasCode(calls[s], <<u, r, p>>)'
                           => p \in calls[s].codes
    BY DEF Answers
  <1>1. Gives(calls[s], <<u, r, p>>)
    BY DEF Gives, rows
  <1>2. Through(calls[s], <<u, r, p>>)' = Through(calls[s], <<u, r, p>>)
    BY DEF Through
  <1>3. HasCode(calls[s], <<u, r, p>>)' => HasCode(calls[s], <<u, r, p>>)
    BY DEF HasCode, rows
  <1> QED BY <1>1, <1>2, <1>3 DEF Answers

LEMMA CallKeeps ==
  ASSUME RbacInv, NEW t \in Tx, OnlyCall(t), Sound(t)'
  PROVE  RbacInv'
  <1> USE DEF OnlyCall, rows
  <1>1. TypeOK'
    BY DEF RbacInv, TypeOK
  <1>2. DeletedRolesUnused'
    BY DEF RbacInv, DeletedRolesUnused
  <1>3. ASSUME NEW s \in Tx \ {t}, calls[s] # None PROVE Sound(s)'
    <2>1. /\ calls'[s] = calls[s] /\ Fits(calls[s]) /\ Locks(calls[s], s) /\ Answers(calls[s])
          /\ calls[s].at # "asking" => calls[s].codes \subseteq calls[s].owned
          /\ Counted(calls[s])
      BY <1>3, AllSound DEF RbacInv, Sound
    <2>2. Fits(calls[s])' /\ Counted(calls[s])'
      BY <2>1 DEF Fits, Counted
    <2>3. Answers(calls[s])'
      BY <2>1, SameAnswers
    <2>4. Locks(calls[s], s)'
      <3> SUFFICES ASSUME calls[s].op \in LocksFirst
                   PROVE  /\ Found(calls[s].op, calls[s].row)'
                          /\ calls[s].row \notin calls[s].touched
                          /\ Free(calls[s].row, s)'
        BY <2>1 DEF Locks
      <3>1. Found(calls[s].op, calls[s].row)' /\ calls[s].row \notin calls[s].touched
        BY <2>1 DEF Locks, Found
      <3>2. calls'[t] # None /\ calls'[t].op \in LocksFirst => calls'[t].row # calls[s].row
        BY <1>3, <2>1 DEF Sound, Locks, Free
      <3>3. Free(calls[s].row, s)'
        BY <2>1, <3>2 DEF Locks, Free
      <3> QED BY <3>1, <3>3
    <2> QED BY <2>1, <2>2, <2>3, <2>4 DEF Sound
  <1>4. \A s \in Tx : Sound(s)'
    BY <1>3 DEF Sound
  <1>5. RowsFit'
    BY <1>4 DEF Sound, RowsFit, Fits
  <1>6. LockedRowStays'
    BY <1>4 DEF Sound, LockedRowStays, Locks
  <1>7. AnswersHold' /\ CodesOwned'
    BY <1>4 DEF Sound, AnswersHold, Answers, CodesOwned
  <1>8. CountedUnused'
    BY <1>4 DEF Sound, CountedUnused, Counted
  <1> QED BY <1>1, <1>2, <1>5, <1>6, <1>7, <1>8 DEF RbacInv

LEMMA AbandonKeeps ==
  ASSUME RbacInv, NEW t \in Tx, Abandon(t)
  PROVE  RbacInv'
  <1>1. OnlyCall(t) /\ calls'[t] = None
    BY DEF Abandon, OnlyCall, rows, RbacInv, TypeOK
  <1> QED BY <1>1, CallKeeps DEF Sound

LEMMA BeginKeeps ==
  ASSUME RbacInv, NEW t \in Tx, NEW op \in Grants \cup {"delete role"}, NEW actor \in Users,
         NEW a \in Asked(op), Begin(t, op, actor, a[1], a[2])
  PROVE  RbacInv'
  <1> DEFINE c == [op |-> op, actor |-> actor, row |-> a[1], new |-> a[2], at |-> "finding",
                   added |-> {}, codes |-> {}, owned |-> {}, touched |-> {}]
  <1>1. /\ c.op = op /\ c.row = a[1] /\ c.new = a[2] /\ c.at = "finding"
        /\ c.touched = {} /\ c.codes = {}
    OBVIOUS
  <1>2. Fits(c) /\ c.row \in Rows /\ c.new \subseteq Roles \cup Permissions
    <2>1. CASE op = "assign roles"
      BY <2>1 DEF Asked, Fits, Rows
    <2>2. CASE op = "assign permissions"
      BY <2>2 DEF Asked, Fits, Rows
    <2>3. CASE op \in {"enable permission", "restore permission"}
      BY <2>3 DEF Asked, Fits, Rows
    <2>4. CASE op \in {"enable role", "restore role", "delete role"}
      BY <2>4 DEF Asked, Fits, Rows
    <2> QED BY <2>1, <2>2, <2>3, <2>4 DEF Grants
  <1>3. c \in Call
    BY <1>2 DEF Call
  <1>4. /\ calls' = [calls EXCEPT ![t] = c] /\ UNCHANGED <<rows, revived>>
        /\ left > 0 /\ left' = left - 1
        /\ op \in LocksFirst => Found(op, c.row) /\ Free(c.row, t)
    BY DEF Begin
  <1> HIDE DEF c
  <1>5. OnlyCall(t) /\ calls'[t] = c
    <2>1. calls' \in [Tx -> Call \cup {None}] /\ calls'[t] = c
      BY <1>3, <1>4 DEF RbacInv, TypeOK
    <2>2. left' \in 0..MaxCalls
      BY <1>4, OneLess DEF RbacInv, TypeOK
    <2>3. \A s \in Tx \ {t} : calls'[s] = calls[s]
      BY <1>4 DEF RbacInv, TypeOK
    <2> QED BY <1>4, <2>1, <2>2, <2>3 DEF OnlyCall
  <1>6. Fits(calls[t])'
    BY <1>2, <1>5 DEF Fits
  <1>7. Locks(calls[t], t)'
    <2> SUFFICES ASSUME op \in LocksFirst
                 PROVE  Found(c.op, c.row)' /\ c.row \notin c.touched /\ Free(c.row, t)'
      BY <1>1, <1>5 DEF Locks
    <2>1. Found(op, c.row) /\ Free(c.row, t)
      BY <1>4
    <2>2. Found(c.op, c.row)'
      BY <1>1, <1>4, <2>1 DEF Found, rows, c
    <2>3. Free(c.row, t)'
      BY <1>5, <2>1 DEF Free, OnlyCall, c
    <2> QED BY <1>1, <2>2, <2>3
  <1>8. Sound(t)'
    <2>1. Answers(calls[t])' /\ Counted(calls[t])' /\ calls'[t].codes = {}
      BY <1>1, <1>5 DEF Answers, Counted
    <2> QED BY <1>6, <1>7, <2>1 DEF Sound
  <1> QED BY <1>5, <1>8, CallKeeps

LEMMA CountedNone ==
  ASSUME NEW r, UserCount(r) = 0, NEW u \in Users, user[u].is = "live"
  PROVE  r \notin user[u].roles
  <1> DEFINE S == {v \in Users : user[v].is = "live" /\ r \in user[v].roles}
  <1>1. IsFiniteSet(S)
    BY FS_Subset
  <1>2. S = {}
    BY <1>1, FS_EmptySet DEF UserCount
  <1> QED BY <1>2

LEMMA CountedSome ==
  ASSUME NEW r, NEW u \in Users, user[u].is = "live", r \in user[u].roles
  PROVE  UserCount(r) > 0
  <1> DEFINE S == {v \in Users : user[v].is = "live" /\ r \in user[v].roles}
  <1>1. IsFiniteSet(S) /\ S # {}
    BY FS_Subset
  <1>2. Cardinality(S) \in Nat /\ Cardinality(S) # 0
    BY <1>1, FS_EmptySet, FS_CardinalityType
  <1> QED BY <1>2 DEF UserCount

LEMMA AddedFits ==
  ASSUME NEW c, Fits(c), c.op \in Grants \cup {"delete role"}
  PROVE  /\ Added(c) \subseteq IF c.op \in GivesRoles THEN Roles ELSE Permissions
         /\ c.op = "delete role" => Added(c) = {}
  BY DEF Fits, Added, GivesRoles, Grants

\* The first query finds whatever the commit would give.
LEMMA AddedCovers ==
  ASSUME NEW c, Fits(c), NEW u \in Users, NEW r \in Roles, NEW p \in Permissions,
         Gives(c, <<u, r, p>>), c.op \in Grants \cup {"delete role"}
  PROVE  Through(c, <<u, r, p>>) \in Added(c)
  <1>1. CASE c.op = "assign roles"
    BY <1>1 DEF Gives, Through, Added, GivesRoles
  <1>2. CASE c.op = "assign permissions"
    BY <1>2 DEF Gives, Through, Added, GivesRoles
  <1>3. CASE c.op \in {"enable role", "restore role"}
    <2>1. c.row = r /\ UserCount(r) > 0
      BY <1>3, CountedSome DEF Gives
    <2> QED BY <1>3, <2>1 DEF Through, Added, GivesRoles
  <1>4. CASE c.op \in {"enable permission", "restore permission"}
    <2>1. c.row = p /\ GrantedThroughLiveRole(p)
      BY <1>4 DEF Gives, GrantedThroughLiveRole
    <2> QED BY <1>4, <2>1 DEF Through, Added, GivesRoles
  <1>5. CASE c.op = "delete role"
    BY <1>5 DEF Gives
  <1> QED BY <1>1, <1>2, <1>3, <1>4, <1>5 DEF Grants

\* The second finds its code.
LEMMA CodesCover ==
  ASSUME NEW c, NEW u \in Users, NEW r \in Roles, NEW p \in Permissions,
         Through(c, <<u, r, p>>) \in c.added, HasCode(c, <<u, r, p>>)
  PROVE  p \in Codes(c)
  <1>1. CASE c.op \in GivesRoles
    <2>1. r \in c.added /\ p \in role[r].permissions /\ permission[p].is = "live"
      BY <1>1 DEF Through, HasCode, GivesRoles
    <2>2. p \in RoleCodes(c.added)
      BY <2>1 DEF RoleCodes
    <2> QED BY <1>1, <2>2 DEF Codes, GivesRoles
  <1>2. CASE c.op = "assign permissions"
    BY <1>2 DEF Through, HasCode, Codes, GivesRoles
  <1>3. CASE c.op \notin GivesRoles /\ c.op # "assign permissions"
    BY <1>3 DEF Through, HasCode, Codes, GivesRoles
  <1> QED BY <1>1, <1>2, <1>3

LEMMA CodesFit ==
  ASSUME TypeOK, NEW c, Fits(c)
  PROVE  Codes(c) \subseteq Permissions
  <1>1. CASE c.op \in GivesRoles
    <2>1. c.added \subseteq Roles
      BY <1>1 DEF Fits
    <2>2. RoleCodes(c.added) \subseteq Permissions
      BY <2>1 DEF RoleCodes, TypeOK
    <2> QED BY <1>1, <2>2 DEF Codes, GivesRoles
  <1>2. CASE c.op \notin GivesRoles
    BY <1>2 DEF Fits, Codes
  <1> QED BY <1>1, <1>2

LEMMA FindAddedKeeps ==
  ASSUME RbacInv, NEW t \in Tx, FindAdded(t)
  PROVE  RbacInv'
  <1> DEFINE c == calls[t]
             d == [c EXCEPT !.added = Added(c), !.at = IF Added(c) = {} THEN "writing" ELSE "coding"]
  <1>1. /\ c # None /\ c \in Call /\ c.at = "finding" /\ UNCHANGED <<rows, left, revived>>
        /\ c.op = "delete role" => UserCount(c.row) = 0
        /\ calls' = [calls EXCEPT ![t] = d] /\ Sound(t)
    BY AllSound DEF FindAdded, RbacInv, TypeOK
  <1>2. Fits(c) /\ c.op \in Grants \cup {"delete role"} /\ c.codes \subseteq c.owned
    BY <1>1 DEF Sound, Call
  <1>3. /\ Added(c) \subseteq IF c.op \in GivesRoles THEN Roles ELSE Permissions
        /\ c.op = "delete role" => Added(c) = {}
    BY <1>2, AddedFits
  <1>4. /\ d \in Call /\ d # None
        /\ d.op = c.op /\ d.row = c.row /\ d.new = c.new /\ d.touched = c.touched
        /\ d.codes = c.codes /\ d.owned = c.owned /\ d.added = Added(c)
        /\ d.at = IF Added(c) = {} THEN "writing" ELSE "coding"
    BY <1>1, <1>3 DEF Call
  <1> HIDE DEF d
  <1>5. OnlyCall(t) /\ calls'[t] = d
    BY <1>1, <1>4 DEF OnlyCall, RbacInv, TypeOK
  <1>6. Fits(calls[t])'
    BY <1>2, <1>3, <1>4, <1>5 DEF Fits
  <1>7. Locks(calls[t], t)'
    <2>1. Locks(c, t)
      BY <1>1 DEF Sound
    <2>2. Found(c.op, c.row) => Found(calls[t].op, calls[t].row)'
      BY <1>1, <1>4, <1>5 DEF Found, rows
    <2> QED BY <2>1, <2>2, <1>4, <1>5 DEF Locks, Free, OnlyCall
  <1>8. Answers(calls[t])'
    <2> SUFFICES ASSUME NEW u \in Users, NEW r \in Roles, NEW p \in Permissions,
                        Gives(calls[t], <<u, r, p>>)'
                 PROVE  Through(calls[t], <<u, r, p>>)' \in Added(c)
      BY <1>4, <1>5 DEF Answers
    <2>1. Gives(c, <<u, r, p>>)
      BY <1>1, <1>4, <1>5 DEF Gives, rows
    <2>2. Through(calls[t], <<u, r, p>>)' = Through(c, <<u, r, p>>)
      BY <1>4, <1>5 DEF Through
    <2> QED BY <1>2, <2>1, <2>2, AddedCovers
  <1>9. Counted(calls[t])'
    BY <1>1, <1>4, <1>5, CountedNone DEF Counted, rows
  <1>10. Sound(t)'
    BY <1>2, <1>4, <1>5, <1>6, <1>7, <1>8, <1>9 DEF Sound
  <1> QED BY <1>5, <1>10, CallKeeps

LEMMA FindCodesKeeps ==
  ASSUME RbacInv, NEW t \in Tx, FindCodes(t)
  PROVE  RbacInv'
  <1> DEFINE c == calls[t]
             d == [c EXCEPT !.codes = Codes(c), !.at = IF Codes(c) = {} THEN "writing" ELSE "asking"]
  <1>1. /\ c # None /\ c \in Call /\ c.at = "coding" /\ UNCHANGED <<rows, left, revived>>
        /\ calls' = [calls EXCEPT ![t] = d] /\ Sound(t)
    BY AllSound DEF FindCodes, RbacInv, TypeOK
  <1>2. Fits(c) /\ Answers(c) /\ Codes(c) \subseteq Permissions
    BY <1>1, CodesFit DEF Sound, RbacInv
  <1>3. /\ d \in Call /\ d # None
        /\ d.op = c.op /\ d.row = c.row /\ d.new = c.new /\ d.touched = c.touched
        /\ d.codes = Codes(c) /\ d.owned = c.owned /\ d.added = c.added
        /\ d.at = IF Codes(c) = {} THEN "writing" ELSE "asking"
    BY <1>1, <1>2 DEF Call
  <1> HIDE DEF d
  <1>4. OnlyCall(t) /\ calls'[t] = d
    BY <1>1, <1>3 DEF OnlyCall, RbacInv, TypeOK
  <1>5. Fits(calls[t])'
    BY <1>2, <1>3, <1>4 DEF Fits
  <1>6. Locks(calls[t], t)'
    <2>1. Locks(c, t)
      BY <1>1 DEF Sound
    <2>2. Found(c.op, c.row) => Found(calls[t].op, calls[t].row)'
      BY <1>1, <1>3, <1>4 DEF Found, rows
    <2> QED BY <2>1, <2>2, <1>3, <1>4 DEF Locks, Free, OnlyCall
  <1>7. Answers(calls[t])'
    <2> SUFFICES ASSUME NEW u \in Users, NEW r \in Roles, NEW p \in Permissions,
                        {u, r, p} \cap c.touched = {}, Gives(calls[t], <<u, r, p>>)'
                 PROVE  /\ Through(calls[t], <<u, r, p>>)' \in c.added
                        /\ HasCode(calls[t], <<u, r, p>>)' => p \in Codes(c)
      BY <1>3, <1>4 DEF Answers
    <2>1. Gives(c, <<u, r, p>>)
      BY <1>1, <1>3, <1>4 DEF Gives, rows
    <2>2. Through(calls[t], <<u, r, p>>)' = Through(c, <<u, r, p>>)
      BY <1>3, <1>4 DEF Through
    <2>3. HasCode(calls[t], <<u, r, p>>)' => HasCode(c, <<u, r, p>>)
      BY <1>1, <1>3, <1>4 DEF HasCode, rows
    <2>4. Through(c, <<u, r, p>>) \in c.added
      BY <1>1, <1>2, <2>1 DEF Answers
    <2> QED BY <2>2, <2>3, <2>4, CodesCover
  <1>8. Counted(calls[t])'
    BY <1>1, <1>3, <1>4 DEF Sound, Counted, rows
  <1>9. Sound(t)'
    BY <1>3, <1>4, <1>5, <1>6, <1>7, <1>8 DEF Sound
  <1> QED BY <1>4, <1>9, CallKeeps

LEMMA AllowedKeeps ==
  ASSUME RbacInv, NEW t \in Tx, Allowed(t)
  PROVE  RbacInv'
  <1> DEFINE c == calls[t]
             d == [c EXCEPT !.owned = PermissionCodes(c.actor), !.at = "writing"]
  <1>1. /\ c # None /\ c \in Call /\ c.at = "asking" /\ UNCHANGED <<rows, left, revived>>
        /\ c.codes \subseteq PermissionCodes(c.actor)
        /\ calls' = [calls EXCEPT ![t] = d] /\ Sound(t)
    BY AllSound DEF Allowed, RbacInv, TypeOK
  <1>2. Fits(c) /\ Answers(c)
    BY <1>1 DEF Sound
  <1>3. /\ d \in Call /\ d # None
        /\ d.op = c.op /\ d.row = c.row /\ d.new = c.new /\ d.touched = c.touched
        /\ d.codes = c.codes /\ d.owned = PermissionCodes(c.actor) /\ d.added = c.added
        /\ d.at = "writing"
    <2>1. PermissionCodes(c.actor) \subseteq Permissions
      BY DEF PermissionCodes
    <2> QED BY <1>1, <2>1 DEF Call
  <1> HIDE DEF d
  <1>4. OnlyCall(t) /\ calls'[t] = d
    BY <1>1, <1>3 DEF OnlyCall, RbacInv, TypeOK
  <1>5. Fits(calls[t])'
    BY <1>2, <1>3, <1>4 DEF Fits
  <1>6. Locks(calls[t], t)'
    <2>1. Locks(c, t)
      BY <1>1 DEF Sound
    <2>2. Found(c.op, c.row) => Found(calls[t].op, calls[t].row)'
      BY <1>1, <1>3, <1>4 DEF Found, rows
    <2> QED BY <2>1, <2>2, <1>3, <1>4 DEF Locks, Free, OnlyCall
  <1>7. Answers(calls[t])'
    <2> SUFFICES ASSUME NEW u \in Users, NEW r \in Roles, NEW p \in Permissions,
                        {u, r, p} \cap c.touched = {}, Gives(calls[t], <<u, r, p>>)'
                 PROVE  /\ Through(calls[t], <<u, r, p>>)' \in c.added
                        /\ HasCode(calls[t], <<u, r, p>>)' => p \in c.codes
      BY <1>3, <1>4 DEF Answers
    <2>1. Gives(c, <<u, r, p>>)
      BY <1>1, <1>3, <1>4 DEF Gives, rows
    <2>2. Through(calls[t], <<u, r, p>>)' = Through(c, <<u, r, p>>)
      BY <1>3, <1>4 DEF Through
    <2>3. HasCode(calls[t], <<u, r, p>>)' => HasCode(c, <<u, r, p>>)
      BY <1>1, <1>3, <1>4 DEF HasCode, rows
    <2> QED BY <1>1, <1>2, <2>1, <2>2, <2>3 DEF Answers
  <1>8. Counted(calls[t])'
    BY <1>1, <1>3, <1>4 DEF Sound, Counted, rows
  <1>9. Sound(t)'
    BY <1>1, <1>3, <1>4, <1>5, <1>6, <1>7, <1>8 DEF Sound
  <1> QED BY <1>4, <1>9, CallKeeps

-----------------------------------------------------------------------------
\* The writes

\* What user' shows was so before, or came back, or was live and free to give.
Held(t, x) ==
    \A u \in Users, r \in Roles : user'[u].is = "live" /\ r \in user'[u].roles =>
        \/ user[u].is = "live" /\ r \in user[u].roles
        \/ u \in revived'
        \/ role[r].is = "live" /\ r # x /\ Free(r, t)

NoneDeleted == \A r \in Roles : role'[r].is = "deleted" => role[r].is = "deleted"

May(t, x) == OnlyWrites(x) /\ Free(x, t) /\ Held(t, x) /\ NoneDeleted

LEMMA NoticedCalls ==
  ASSUME NEW cs \in [Tx -> Call \cup {None}], NEW x \in Rows
  PROVE  /\ Noticed(x, cs) \in [Tx -> Call \cup {None}]
         /\ \A s \in Tx : Noticed(x, cs)[s] # None =>
                cs[s] # None /\ Noticed(x, cs)[s] = [cs[s] EXCEPT !.touched = @ \cup {x}]
  <1>1. ASSUME NEW s \in Tx, cs[s] # None PROVE [cs[s] EXCEPT !.touched = @ \cup {x}] \in Call
    <2>1. cs[s] \in Call
      BY <1>1
    <2> QED BY <2>1 DEF Call
  <1> QED BY <1>1 DEF Noticed

LEMMA UserUnlocked ==
  ASSUME RowsFit, NEW u \in Users, NEW t
  PROVE  Free(u, t)
  <1> SUFFICES ASSUME NEW s \in Tx, calls[s] # None, calls[s].op \in LocksFirst
               PROVE  calls[s].row # u
    BY DEF Free
  <1>1. calls[s].row \in Roles \cup Permissions
    BY DEF RowsFit, LocksFirst
  <1> QED BY <1>1

LEMMA DeletedUnlocked ==
  ASSUME RowsFit, LockedRowStays, NEW t
  PROVE  /\ \A r \in Roles : role[r].is = "deleted" => Free(r, t)
         /\ \A p \in Permissions : permission[p].is = "deleted" => Free(p, t)
  <1>1. ASSUME NEW s \in Tx, calls[s] # None, calls[s].op \in LocksFirst
        PROVE  /\ calls[s].row \in Roles => role[calls[s].row].is = "live"
               /\ calls[s].row \in Permissions => permission[calls[s].row].is = "live"
    <2>1. Found(calls[s].op, calls[s].row)
      BY <1>1 DEF LockedRowStays
    <2>2. calls[s].op = "enable permission" => calls[s].row \in Permissions
      BY <1>1 DEF RowsFit
    <2>3. calls[s].op \in {"enable role", "delete role"} => calls[s].row \in Roles
      BY <1>1 DEF RowsFit
    <2> QED BY <1>1, <2>1, <2>2, <2>3 DEF Found, LocksFirst
  <1> QED BY <1>1 DEF Free

\* A write that is free to be made is one the other calls can live with.
LEMMA MayIsWrite ==
  ASSUME RbacInv, NEW x \in Rows, NEW t, OnlyWrites(x), Free(x, t), Held(t, x),
         NEW cs \in [Tx -> Call \cup {None}], calls' = Noticed(x, cs),
         \A s \in Tx : cs[s] # None => cs[s] = calls[s] /\ s # t,
         left' \in 0..MaxCalls, revived \subseteq revived', revived' \subseteq Users
  PROVE  Write(x)
  <1>1. /\ calls' \in [Tx -> Call \cup {None}]
        /\ \A s \in Tx : calls'[s] # None =>
              /\ calls[s] # None /\ calls'[s] = [calls[s] EXCEPT !.touched = @ \cup {x}]
              /\ s # t
    <2>1. calls' \in [Tx -> Call \cup {None}]
      BY NoticedCalls
    <2>2. ASSUME NEW s \in Tx, calls'[s] # None
          PROVE  cs[s] # None /\ calls'[s] = [cs[s] EXCEPT !.touched = @ \cup {x}]
      BY <2>2, NoticedCalls
    <2> QED BY <2>1, <2>2
  <1>2. \A s \in Tx : calls'[s] # None /\ calls[s].op \in LocksFirst => calls[s].row # x
    BY <1>1 DEF Free
  <1>3. \A r \in Roles : Free(r, t) =>
          \A s \in Tx : calls'[s] # None /\ calls[s].op \in LocksFirst => calls[s].row # r
    BY <1>1 DEF Free
  <1> QED BY <1>1, <1>2, <1>3 DEF Write, Held

LEMMA AssignRolesMay ==
  ASSUME RbacInv, NEW u \in Users, NEW new \in SUBSET Roles, NEW t, AssignRoles(u, new, t)
  PROVE  May(t, u)
  <1>1. OnlyWrites(u) /\ Free(u, t)
    BY AssignRolesWrites, UserUnlocked DEF RbacInv
  <1>2. Held(t, u)
    BY DEF Held, AssignRoles, RbacInv, TypeOK
  <1> QED BY <1>1, <1>2 DEF May, NoneDeleted, AssignRoles

LEMMA AssignPermissionsMay ==
  ASSUME RbacInv, NEW r \in Roles, NEW new \in SUBSET Permissions, NEW t,
         AssignPermissions(r, new, t)
  PROVE  May(t, r)
  <1>1. OnlyWrites(r) /\ Free(r, t)
    BY AssignPermissionsWrites DEF RbacInv, AssignPermissions
  <1>2. Held(t, r) /\ NoneDeleted
    BY DEF Held, NoneDeleted, AssignPermissions, RbacInv, TypeOK
  <1> QED BY <1>1, <1>2 DEF May

LEMMA SetRoleActiveMay ==
  ASSUME RbacInv, NEW r \in Roles, NEW on \in BOOLEAN, NEW t, SetRoleActive(r, on, t)
  PROVE  May(t, r)
  <1>1. OnlyWrites(r) /\ Free(r, t)
    BY SetRoleActiveWrites DEF RbacInv, SetRoleActive
  <1>2. Held(t, r) /\ NoneDeleted
    BY DEF Held, NoneDeleted, SetRoleActive, RbacInv, TypeOK
  <1> QED BY <1>1, <1>2 DEF May

LEMMA SetPermissionActiveMay ==
  ASSUME RbacInv, NEW p \in Permissions, NEW on \in BOOLEAN, NEW t, SetPermissionActive(p, on, t)
  PROVE  May(t, p)
  <1>1. OnlyWrites(p) /\ Free(p, t)
    BY SetPermissionActiveWrites DEF RbacInv, SetPermissionActive
  <1>2. Held(t, p) /\ NoneDeleted
    BY DEF Held, NoneDeleted, SetPermissionActive, RbacInv, TypeOK
  <1> QED BY <1>1, <1>2 DEF May

LEMMA RestoreRoleMay ==
  ASSUME RbacInv, NEW r \in Roles, NEW t, RestoreRole(r)
  PROVE  May(t, r)
  <1>1. OnlyWrites(r) /\ Free(r, t)
    BY RestoreRoleWrites, DeletedUnlocked DEF RbacInv, RestoreRole
  <1>2. Held(t, r) /\ NoneDeleted
    BY DEF Held, NoneDeleted, RestoreRole, RbacInv, TypeOK
  <1> QED BY <1>1, <1>2 DEF May

LEMMA RestorePermissionMay ==
  ASSUME RbacInv, NEW p \in Permissions, NEW t, RestorePermission(p)
  PROVE  May(t, p)
  <1>1. OnlyWrites(p) /\ Free(p, t)
    BY RestorePermissionWrites, DeletedUnlocked DEF RbacInv, RestorePermission
  <1>2. Held(t, p) /\ NoneDeleted
    BY DEF Held, NoneDeleted, RestorePermission, RbacInv, TypeOK
  <1> QED BY <1>1, <1>2 DEF May

LEMMA PurgeMay ==
  ASSUME RbacInv, Purge
  PROVE  revived' = revived /\ \E x \in Rows : May(None, x) /\ Once(x)
  <1> USE DEF RbacInv, TypeOK
  <1>1. CASE \E u \in Users :
          /\ user[u].is = "deleted"
          /\ user' = [user EXCEPT ![u] = [is |-> "purged", roles |-> {}]]
          /\ Once(u) /\ UNCHANGED <<role, permission, revived>>
    <2> PICK u \in Users :
          /\ user' = [user EXCEPT ![u] = [is |-> "purged", roles |-> {}]]
          /\ Once(u) /\ UNCHANGED <<role, permission, revived>>
      BY <1>1
    <2>1. OnlyWrites(u) /\ Held(None, u) /\ NoneDeleted
      BY DEF OnlyWrites, Held, NoneDeleted, Rows, Kept
    <2> QED BY <2>1, UserUnlocked DEF Rows, May
  <1>2. CASE \E r \in Roles :
          /\ role[r].is = "deleted"
          /\ role' = [role EXCEPT ![r] =
                [is |-> "purged", active |-> FALSE, permissions |-> {}]]
          /\ user' = [u \in Users |-> [user[u] EXCEPT !.roles = @ \ {r}]]
          /\ Once(r) /\ UNCHANGED <<permission, revived>>
    <2> PICK r \in Roles :
          /\ role[r].is = "deleted"
          /\ role' = [role EXCEPT ![r] =
                [is |-> "purged", active |-> FALSE, permissions |-> {}]]
          /\ user' = [u \in Users |-> [user[u] EXCEPT !.roles = @ \ {r}]]
          /\ Once(r) /\ UNCHANGED <<permission, revived>>
      BY <1>2
    <2>1. OnlyWrites(r) /\ NoneDeleted
      BY DEF OnlyWrites, NoneDeleted, Rows, Kept
    <2>2. Held(None, r)
      BY DEF Held
    <2> QED BY <2>1, <2>2, DeletedUnlocked DEF Rows, May
  <1>3. CASE \E p \in Permissions :
          /\ permission[p].is = "deleted"
          /\ permission' = [permission EXCEPT ![p] = [is |-> "purged", active |-> FALSE]]
          /\ role' = [r \in Roles |-> [role[r] EXCEPT !.permissions = @ \ {p}]]
          /\ Once(p) /\ UNCHANGED <<user, revived>>
    <2> PICK p \in Permissions :
          /\ permission[p].is = "deleted"
          /\ permission' = [permission EXCEPT ![p] = [is |-> "purged", active |-> FALSE]]
          /\ role' = [r \in Roles |-> [role[r] EXCEPT !.permissions = @ \ {p}]]
          /\ Once(p) /\ UNCHANGED <<user, revived>>
      BY <1>3
    <2>1. OnlyWrites(p)
      BY DEF OnlyWrites, Rows, Kept
    <2>2. Held(None, p) /\ NoneDeleted
      BY DEF Held, NoneDeleted
    <2> QED BY <2>1, <2>2, DeletedUnlocked DEF Rows, May
  <1> QED BY <1>1, <1>2, <1>3 DEF Purge

LEMMA BySuperuserMay ==
  ASSUME RbacInv, BySuperuser
  PROVE  revived' = revived /\ \E x \in Rows : May(None, x) /\ Once(x)
  BY AssignRolesMay, AssignPermissionsMay, SetRoleActiveMay,
     SetPermissionActiveMay, RestoreRoleMay, RestorePermissionMay
     DEF BySuperuser, Rows

LEMMA LessenMay ==
  ASSUME RbacInv, Lessen
  PROVE  revived' = revived /\ \E x \in Rows : May(None, x) /\ Once(x)
  <1>1. CASE \E r \in Roles : SetRoleActive(r, FALSE, None) /\ Once(r) /\ UNCHANGED revived
    BY <1>1, SetRoleActiveMay DEF Rows
  <1>2. CASE \E p \in Permissions :
          SetPermissionActive(p, FALSE, None) /\ Once(p) /\ UNCHANGED revived
    BY <1>2, SetPermissionActiveMay DEF Rows
  <1>3. CASE \E p \in Permissions :
          /\ Free(p, None) /\ permission' = [permission EXCEPT ![p].is = "deleted"]
          /\ UNCHANGED <<user, role>> /\ Once(p) /\ UNCHANGED revived
    <2> PICK p \in Permissions :
          /\ Free(p, None) /\ permission' = [permission EXCEPT ![p].is = "deleted"]
          /\ UNCHANGED <<user, role>> /\ Once(p) /\ UNCHANGED revived
      BY <1>3
    <2>1. OnlyWrites(p)
      BY DEF OnlyWrites, Rows, Kept, RbacInv, TypeOK
    <2>2. Held(None, p) /\ NoneDeleted
      BY DEF Held, NoneDeleted
    <2> QED BY <2>1, <2>2 DEF Rows, May
  <1>4. CASE \E u \in Users :
          /\ user' = [user EXCEPT ![u].is = "deleted"]
          /\ Once(u) /\ UNCHANGED <<role, permission, revived>>
    <2> PICK u \in Users :
          /\ user' = [user EXCEPT ![u].is = "deleted"]
          /\ Once(u) /\ UNCHANGED <<role, permission, revived>>
      BY <1>4
    <2>1. OnlyWrites(u) /\ Held(None, u) /\ NoneDeleted
      BY DEF OnlyWrites, Held, NoneDeleted, Rows, Kept, RbacInv, TypeOK
    <2> QED BY <2>1, UserUnlocked DEF Rows, May, RbacInv
  <1> QED BY <1>1, <1>2, <1>3, <1>4 DEF Lessen

LEMMA RestoreUserMay ==
  ASSUME RbacInv, RestoreUser
  PROVE  \E x \in Users : May(None, x) /\ Once(x) /\ revived' = revived \cup {x}
  <1> PICK u \in Users :
        /\ user' = [user EXCEPT ![u].is = "live"]
        /\ revived' = revived \cup {u}
        /\ Once(u) /\ UNCHANGED <<role, permission>>
    BY DEF RestoreUser
  <1>1. OnlyWrites(u) /\ Held(None, u) /\ NoneDeleted
    BY DEF OnlyWrites, Held, NoneDeleted, Rows, Kept, RbacInv, TypeOK
  <1> QED BY <1>1, UserUnlocked DEF May, RbacInv

LEMMA OnceKeeps ==
  ASSUME RbacInv, NEW x \in Rows, May(None, x), Once(x),
         revived \subseteq revived', revived' \subseteq Users
  PROVE  RbacInv'
  <1>1. /\ calls \in [Tx -> Call \cup {None}] /\ calls' = Noticed(x, calls)
        /\ left \in 0..MaxCalls /\ left > 0 /\ left' = left - 1
    BY DEF RbacInv, TypeOK, Once
  <1>2. left' \in 0..MaxCalls
    BY <1>1, OneLess
  <1>3. \A s \in Tx : calls[s] # None => calls[s] = calls[s] /\ s # None
    OBVIOUS
  <1>4. Write(x)
    BY <1>1, <1>2, <1>3, MayIsWrite DEF May
  <1>5. DeletedRolesUnused'
    BY <1>4, WriteKeepsDeleted DEF May, NoneDeleted, RbacInv
  <1> QED BY <1>4, <1>5, WriteKeeps

\* The row of a call that commits.
LEMMA WrittenIs ==
  ASSUME RbacInv, NEW t \in Tx, Written(t)
  PROVE  /\ calls[t].row \in Rows
         /\ calls[t].op = "delete role" => DeleteRole(calls[t].row)
         /\ calls[t].op # "delete role" => May(t, calls[t].row)
  <1> DEFINE c == calls[t]
  <1>1. /\ c # None /\ c \in Call /\ c.op \in Grants \cup {"delete role"} /\ c.row \in Rows
        /\ c.new \in SUBSET (Roles \cup Permissions)
    BY DEF Written, RbacInv, TypeOK, Call
  <1>2. CASE c.op = "assign roles"
    <2>1. c.row \in Users /\ c.new \in SUBSET Roles /\ AssignRoles(c.row, c.new, t)
      BY <1>1, <1>2 DEF Written, RbacInv, RowsFit
    <2> QED BY <1>1, <1>2, <2>1, AssignRolesMay
  <1>3. CASE c.op = "assign permissions"
    <2>1. /\ c.row \in Roles /\ c.new \in SUBSET Permissions
          /\ AssignPermissions(c.row, c.new, t)
      BY <1>1, <1>3 DEF Written, RbacInv, RowsFit
    <2> QED BY <1>1, <1>3, <2>1, AssignPermissionsMay
  <1>4. CASE c.op = "enable role"
    <2>1. c.row \in Roles /\ SetRoleActive(c.row, TRUE, t)
      BY <1>1, <1>4 DEF Written, RbacInv, RowsFit
    <2> QED BY <1>1, <1>4, <2>1, SetRoleActiveMay
  <1>5. CASE c.op = "enable permission"
    <2>1. c.row \in Permissions /\ SetPermissionActive(c.row, TRUE, t)
      BY <1>1, <1>5 DEF Written, RbacInv, RowsFit
    <2> QED BY <1>1, <1>5, <2>1, SetPermissionActiveMay
  <1>6. CASE c.op = "restore role"
    <2>1. c.row \in Roles /\ RestoreRole(c.row)
      BY <1>1, <1>6 DEF Written, RbacInv, RowsFit
    <2> QED BY <1>1, <1>6, <2>1, RestoreRoleMay
  <1>7. CASE c.op = "restore permission"
    <2>1. c.row \in Permissions /\ RestorePermission(c.row)
      BY <1>1, <1>7 DEF Written, RbacInv, RowsFit
    <2> QED BY <1>1, <1>7, <2>1, RestorePermissionMay
  <1>8. CASE c.op = "delete role"
    BY <1>1, <1>8 DEF Written
  <1> QED BY <1>1, <1>2, <1>3, <1>4, <1>5, <1>6, <1>7, <1>8 DEF Grants

LEMMA WrittenKeeps ==
  ASSUME RbacInv, NEW t \in Tx, Written(t)
  PROVE  RbacInv'
  <1> DEFINE c == calls[t]
             cs == [calls EXCEPT ![t] = None]
  <1>1. /\ c # None /\ c.at = "writing" /\ c.row \in Rows
        /\ calls' = Noticed(c.row, cs) /\ left' = left /\ revived' = revived
    BY WrittenIs DEF Written
  <1>2. /\ cs \in [Tx -> Call \cup {None}]
        /\ \A s \in Tx : cs[s] # None => cs[s] = calls[s] /\ s # t
        /\ left' \in 0..MaxCalls /\ revived \subseteq revived' /\ revived' \subseteq Users
    BY <1>1 DEF RbacInv, TypeOK
  <1> HIDE DEF cs
  <1>3. CASE c.op # "delete role"
    <2>1. Write(c.row)
      BY <1>1, <1>2, <1>3, WrittenIs, MayIsWrite DEF May
    <2>2. DeletedRolesUnused'
      BY <1>1, <1>3, <2>1, WrittenIs, WriteKeepsDeleted DEF May, NoneDeleted, RbacInv
    <2> QED BY <1>1, <2>1, <2>2, WriteKeeps
  <1>4. CASE c.op = "delete role"
    <2>1. DeleteRole(c.row) /\ c.row \in Roles
      BY <1>1, <1>4, WrittenIs DEF RbacInv, RowsFit
    <2>2. OnlyWrites(c.row)
      BY <2>1, DeleteRoleWrites DEF RbacInv
    <2>3. Free(c.row, t)
      BY <1>1, <1>4 DEF RbacInv, LockedRowStays, LocksFirst
    <2>4. Held(t, c.row)
      BY <2>1 DEF Held, DeleteRole
    <2>5. Write(c.row)
      BY <1>1, <1>2, <2>2, <2>3, <2>4, MayIsWrite
    <2>6. DeletedRolesUnused'
      <3> SUFFICES ASSUME NEW r \in Roles, NEW u \in Users, role'[r].is = "deleted",
                          user[u].is = "live", r \in user[u].roles
                   PROVE  u \in revived
        BY <1>1, <2>1 DEF DeletedRolesUnused, DeleteRole
      <3>1. CASE r = c.row
        BY <1>1, <1>4, <3>1 DEF RbacInv, CountedUnused
      <3>2. CASE r # c.row
        BY <2>1, <3>2 DEF RbacInv, DeletedRolesUnused, DeleteRole, TypeOK
      <3> QED BY <3>1, <3>2
    <2> QED BY <1>1, <2>5, <2>6, WriteKeeps
  <1> QED BY <1>3, <1>4

-----------------------------------------------------------------------------
LEMMA InitRbac == Init => RbacInv
  <1> SUFFICES ASSUME Init PROVE RbacInv
    OBVIOUS
  <1>1. TypeOK
    <2>1. /\ user \in [Users -> [is : Kept, roles : SUBSET Roles]]
          /\ role \in [Roles -> [is : Kept, active : BOOLEAN, permissions : SUBSET Permissions]]
          /\ permission \in [Permissions -> [is : Kept, active : BOOLEAN]]
      BY DEF Init, Kept
    <2>2. calls \in [Tx -> Call \cup {None}] /\ left \in 0..MaxCalls /\ revived \subseteq Users
      BY DEF Init
    <2> QED BY <2>1, <2>2 DEF TypeOK
  <1>2. \A t \in Tx : calls[t] = None
    BY DEF Init
  <1>3. DeletedRolesUnused
    BY DEF Init, DeletedRolesUnused
  <1> QED BY <1>1, <1>2, <1>3
          DEF RbacInv, RowsFit, LockedRowStays, AnswersHold, CodesOwned, CountedUnused

LEMMA StepKeeps == RbacInv /\ [Next]_vars => RbacInv'
  <1> SUFFICES ASSUME RbacInv, [Next]_vars PROVE RbacInv'
    OBVIOUS
  <1>1. CASE \E t \in Tx, op \in Grants \cup {"delete role"}, actor \in Users :
               \E a \in Asked(op) : Begin(t, op, actor, a[1], a[2])
    BY <1>1, BeginKeeps
  <1>2. CASE \E t \in Tx : FindAdded(t) \/ FindCodes(t) \/ Allowed(t) \/ Written(t) \/ Abandon(t)
    BY <1>2, FindAddedKeeps, FindCodesKeeps, AllowedKeeps, WrittenKeeps, AbandonKeeps
  <1>3. CASE BySuperuser \/ Lessen \/ Purge
    <2>1. PICK x \in Rows : May(None, x) /\ Once(x)
      BY <1>3, BySuperuserMay, LessenMay, PurgeMay
    <2>2. revived' = revived /\ revived \subseteq Users
      BY <1>3, BySuperuserMay, LessenMay, PurgeMay DEF RbacInv, TypeOK
    <2> QED BY <2>1, <2>2, OnceKeeps
  <1>4. CASE RestoreUser
    <2>1. PICK x \in Users : May(None, x) /\ Once(x) /\ revived' = revived \cup {x}
      BY <1>4, RestoreUserMay
    <2>2. x \in Rows /\ revived \subseteq Users
      BY DEF Rows, RbacInv, TypeOK
    <2> QED BY <2>1, <2>2, OnceKeeps
  <1>5. CASE UNCHANGED vars
    <2> USE <1>5 DEF vars, rows
    <2>1. TypeOK' /\ RowsFit' /\ CodesOwned'
      BY DEF RbacInv, TypeOK, RowsFit, CodesOwned
    <2>2. LockedRowStays'
      BY DEF RbacInv, LockedRowStays, Found, Free
    <2>3. AnswersHold'
      <3>1. ASSUME NEW t \in Tx, calls[t] # None PROVE Answers(calls[t])'
        BY <3>1, AllSound, SameAnswers DEF RbacInv, Sound
      <3> QED BY <3>1 DEF AnswersHold, Answers
    <2>4. CountedUnused' /\ DeletedRolesUnused'
      BY DEF RbacInv, CountedUnused, DeletedRolesUnused
    <2> QED BY <2>1, <2>2, <2>3, <2>4 DEF RbacInv
  <1> QED BY <1>1, <1>2, <1>3, <1>4, <1>5 DEF Next

\* What every query was told still holds of the rows nobody else has written,
\* locked rows stay, and a role of the recycle bin is held by no live user who
\* did not come back from it.
THEOREM RolesConsistent == Spec => []RbacInv
  BY InitRbac, StepKeeps, PTL DEF Spec

\* A call that others notice is still one.
LEMMA StaysACall ==
  ASSUME TypeOK, NEW t \in Tx, calls[t] # None, NEW x \in Rows
  PROVE  [calls[t] EXCEPT !.touched = @ \cup {x}] # None
  <1>1. calls[t] \in Call
    BY DEF TypeOK
  <1>2. [calls[t] EXCEPT !.touched = @ \cup {x}] \in Call
    BY <1>1 DEF Call
  <1> QED BY <1>2

\* What becomes a right at a commit, the call gives, and its code is one the
\* second query sees.
LEMMA NewRightsAreGiven ==
  ASSUME RbacInv, NEW t \in Tx, Written(t), NEW g \in Rights' \ Rights
  PROVE  /\ g[1] \in Users /\ g[2] \in Roles /\ g[3] \in Permissions
         /\ Gives(calls[t], <<g[1], g[2], g[3]>>)
         /\ HasCode(calls[t], <<g[1], g[2], g[3]>>)
  <1> DEFINE c == calls[t]
  <1>1. /\ g[1] \in Users /\ g[2] \in Roles /\ g[3] \in Permissions /\ g = <<g[1], g[2], g[3]>>
        /\ user'[g[1]].is = "live" /\ g[2] \in user'[g[1]].roles /\ Carries(g[2], g[3])'
        /\ ~(user[g[1]].is = "live" /\ g[2] \in user[g[1]].roles /\ Carries(g[2], g[3]))
    BY DEF Rights
  <1> PICK u \in Users, r \in Roles, p \in Permissions : u = g[1] /\ r = g[2] /\ p = g[3]
    BY <1>1
  <1>2. /\ user'[u].is = "live" /\ r \in user'[u].roles
        /\ role'[r].is = "live" /\ role'[r].active /\ p \in role'[r].permissions
        /\ permission'[p].is = "live" /\ permission'[p].active
        /\ ~(/\ user[u].is = "live" /\ r \in user[u].roles
             /\ role[r].is = "live" /\ role[r].active /\ p \in role[r].permissions
             /\ permission[p].is = "live" /\ permission[p].active)
    BY <1>1 DEF Carries
  <1>3. c.op \in Grants \cup {"delete role"}
    BY DEF Written, RbacInv, TypeOK, Call
  <1> USE DEF RbacInv, TypeOK
  <1>4. CASE c.op = "assign roles"
    <2>1. AssignRoles(c.row, c.new, t) /\ c.row \in Users
      BY <1>4 DEF Written, RowsFit
    <2>2. u = c.row /\ r \in c.new \ user[u].roles /\ p \in role[r].permissions /\ permission[p].is = "live"
      BY <1>2, <2>1 DEF AssignRoles
    <2> QED BY <1>4, <2>2 DEF Gives, HasCode, GivesRoles
  <1>5. CASE c.op = "assign permissions"
    <2>1. AssignPermissions(c.row, c.new, t) /\ c.row \in Roles
      BY <1>5 DEF Written, RowsFit
    <2>2. r = c.row /\ p \in c.new \ role[r].permissions /\ permission[p].is = "live"
      BY <1>2, <2>1 DEF AssignPermissions
    <2> QED BY <1>5, <2>2 DEF Gives, HasCode, GivesRoles
  <1>6. CASE c.op \in {"enable role", "restore role"}
    <2>1. SetRoleActive(c.row, TRUE, t) \/ RestoreRole(c.row)
      BY <1>6 DEF Written
    <2>2. c.row \in Roles
      BY <1>6 DEF Written, RowsFit
    <2>3. /\ r = c.row /\ user[u].is = "live" /\ r \in user[u].roles
          /\ p \in role[r].permissions /\ permission[p].is = "live"
      BY <1>2, <2>1, <2>2 DEF SetRoleActive, RestoreRole
    <2> QED BY <1>6, <2>3 DEF Gives, HasCode, GivesRoles
  <1>7. CASE c.op \in {"enable permission", "restore permission"}
    <2>1. SetPermissionActive(c.row, TRUE, t) \/ RestorePermission(c.row)
      BY <1>7 DEF Written
    <2>2. c.row \in Permissions
      BY <1>7 DEF Written, RowsFit
    <2>3. p = c.row /\ role[r].is = "live" /\ p \in role[r].permissions
      BY <1>2, <2>1, <2>2 DEF SetPermissionActive, RestorePermission
    <2> QED BY <1>7, <2>3 DEF Gives, HasCode, GivesRoles
  <1>8. CASE c.op = "delete role"
    <2>1. DeleteRole(c.row) /\ c.row \in Roles
      BY <1>8 DEF Written, RowsFit
    <2>2. FALSE
      BY <1>2, <2>1 DEF DeleteRole
    <2> QED BY <2>2
  <1> QED BY <1>1, <1>3, <1>4, <1>5, <1>6, <1>7, <1>8 DEF Grants

LEMMA CommitGivesWhatWasHeld ==
  ASSUME RbacInv, NEW t \in Tx, Written(t), NEW g \in Rights' \ Rights
  PROVE  \/ g[3] \in calls[t].owned
         \/ {g[1], g[2], g[3]} \cap calls[t].touched # {}
  <1> SUFFICES ASSUME {g[1], g[2], g[3]} \cap calls[t].touched = {}
               PROVE  g[3] \in calls[t].owned
    OBVIOUS
  <1>1. calls[t] # None /\ calls[t].at = "writing"
    BY DEF Written
  <1>2. g[3] \in calls[t].codes
    BY <1>1, NewRightsAreGiven DEF RbacInv, AnswersHold
  <1> QED BY <1>1, <1>2 DEF RbacInv, CodesOwned

\* An administrator who is no superuser gives what he held when he was asked, by
\* whatever call, in whatever interleaving; what comes of rows that others wrote
\* under the call is all that escapes him.
THEOREM DelegationKept == Spec => GrantedWasHeld
  <1>1. ASSUME RbacInv, Next, NEW t \in Tx, calls[t] # None, calls'[t] = None,
               NEW g \in Rights' \ Rights
        PROVE  \/ g[3] \in calls[t].owned
               \/ {g[1], g[2], g[3]} \cap calls[t].touched # {}
    <2>1. CASE Written(t)
      BY <1>1, <2>1, CommitGivesWhatWasHeld
    <2>2. CASE UNCHANGED rows
      BY <1>1, <2>2 DEF rows, Rights, Carries
    <2>3. CASE \E s \in Tx \ {t} : Written(s)
      <3>1. PICK s \in Tx \ {t}, x \in Rows : calls' = Noticed(x, [calls EXCEPT ![s] = None])
        BY <1>1, <2>3, WrittenIs DEF Written
      <3>2. calls'[t] = [calls[t] EXCEPT !.touched = @ \cup {x}]
        BY <1>1, <3>1 DEF Noticed, RbacInv, TypeOK
      <3> QED BY <1>1, <3>1, <3>2, StaysACall DEF RbacInv
    <2>4. CASE \E x \in Rows : Once(x)
      <3>1. PICK x \in Rows : calls'[t] = [calls[t] EXCEPT !.touched = @ \cup {x}]
        BY <1>1, <2>4 DEF Once, Noticed
      <3> QED BY <1>1, <3>1, StaysACall DEF RbacInv
    <2> QED BY <1>1, <2>1, <2>2, <2>3, <2>4, BySuperuserMay, LessenMay, PurgeMay, RestoreUserMay
            DEF Next, Begin, FindAdded, FindCodes, Allowed, Abandon, Rows
  <1>2. RbacInv /\ [Next]_vars =>
          [\A t \in Tx : calls[t] # None /\ calls'[t] = None =>
              \A g \in Rights' \ Rights :
                  \/ g[3] \in calls[t].owned
                  \/ {g[1], g[2], g[3]} \cap calls[t].touched # {}]_vars
    BY <1>1
  <1> QED BY <1>2, RolesConsistent, PTL DEF Spec, GrantedWasHeld

=============================================================================
