-------------------------------- MODULE Rbac --------------------------------
(***************************************************************************)
(* Users, roles and permissions, and the rules by which an administrator   *)
(* who is no superuser may hand on rights: services/guards.py, roles.py,   *)
(* permissions.py, assign_roles of users.py, and the recycle bin.          *)
(*                                                                         *)
(* What a call adds is compared with what the actor holds by up to three   *)
(* queries, each of which sees what is committed when it runs; the row     *)
(* that is written is locked before them (enabling, deleting) or only      *)
(* after them (assigning, restoring).  A call of a superuser asks nothing  *)
(* before it locks, so it is one action, and so is every call that only    *)
(* takes rights away.  Superusers themselves, and who may call which       *)
(* endpoint, are left to SuperuserGuard and Console; disabled accounts     *)
(* keep their rights, as the queries have it.                              *)
(***************************************************************************)
EXTENDS Integers, FiniteSets

CONSTANTS
    Users, Roles, Permissions,
    Tx,        \* slots for calls in progress
    MaxCalls,  \* bound: calls that get past the endpoint
    None

ASSUME RbacAssumption ==
    /\ Users \cap Roles = {} /\ Users \cap Permissions = {} /\ Roles \cap Permissions = {}
    /\ IsFiniteSet(Users) /\ MaxCalls \in Nat
    /\ None \notin Tx

VARIABLES
    user,        \* users with user_roles
    role,        \* roles with role_permissions
    permission,  \* permissions
    calls,       \* calls between their first query and their commit
    left,        \* calls still to come
    revived      \* history: users that came back from the recycle bin

rows == <<user, role, permission>>
vars == <<rows, calls, left, revived>>

Rows == Users \cup Roles \cup Permissions
Kept == {"live", "deleted", "purged"}

Grants == {"assign roles", "assign permissions", "enable role", "enable permission",
           "restore role", "restore permission"}

GivesRoles == {"assign roles", "enable role", "restore role"}

\* added: the roles or permissions a query found to be added.  codes: theirs.
\* owned: what the actor held when it was asked.  touched: history, the rows
\* that others have written since the call began.
Call ==
    [op : Grants \cup {"delete role"}, actor : Users, row : Rows,
     new : SUBSET (Roles \cup Permissions),
     at : {"finding", "coding", "asking", "writing"},
     added : SUBSET (Roles \cup Permissions), codes : SUBSET Permissions,
     owned : SUBSET Permissions, touched : SUBSET Rows]

ASSUME NoCall == None \notin Call

TypeOK ==
    /\ user \in [Users -> [is : Kept, roles : SUBSET Roles]]
    /\ role \in [Roles -> [is : Kept, active : BOOLEAN, permissions : SUBSET Permissions]]
    /\ permission \in [Permissions -> [is : Kept, active : BOOLEAN]]
    /\ calls \in [Tx -> Call \cup {None}]
    /\ left \in 0..MaxCalls /\ revived \subseteq Users

\* What was done before, in any order: a live user holds a role of the recycle
\* bin only if he came back from it.
Init ==
    /\ user \in [Users -> [is : {"live", "deleted"}, roles : SUBSET Roles]]
    /\ role \in [Roles ->
          [is : {"live", "deleted"}, active : BOOLEAN, permissions : SUBSET Permissions]]
    /\ permission \in [Permissions -> [is : {"live", "deleted"}, active : BOOLEAN]]
    /\ calls = [t \in Tx |-> None]
    /\ left = MaxCalls
    /\ revived = {u \in Users : user[u].is = "live"
                      /\ \E r \in user[u].roles : role[r].is = "deleted"}

-----------------------------------------------------------------------------
\* What the queries see

UserCount(r) == Cardinality({u \in Users : user[u].is = "live" /\ r \in user[u].roles})

GrantedThroughLiveRole(p) == \E r \in Roles : role[r].is = "live" /\ p \in role[r].permissions

\* Codes of the permissions that are not deleted, whatever is disabled.
RoleCodes(R) ==
    {p \in UNION {role[r].permissions : r \in R} : permission[p].is = "live"}

Carries(r, p) ==
    /\ role[r].is = "live" /\ role[r].active /\ p \in role[r].permissions
    /\ permission[p].is = "live" /\ permission[p].active

\* get_permission_codes: through roles and permissions in force.
PermissionCodes(u) == {p \in Permissions : \E r \in user[u].roles : Carries(r, p)}

\* The rights in force, with the role each comes through.
Rights ==
    {g \in Users \X Roles \X Permissions :
        /\ user[g[1]].is = "live" /\ g[2] \in user[g[1]].roles
        /\ Carries(g[2], g[3])}

-----------------------------------------------------------------------------
\* Locks and writes

LocksFirst == {"enable role", "enable permission", "delete role"}

Free(x, t) ==
    \A s \in Tx \ {t} : calls[s] # None /\ calls[s].op \in LocksFirst => calls[s].row # x

\* Calls under way remember what others write.
Noticed(x, cs) ==
    [s \in Tx |-> IF cs[s] = None THEN None ELSE [cs[s] EXCEPT !.touched = @ \cup {x}]]

\* mutant: the roles that are assigned are not locked
AssignUnlocked(u, new, t) ==
    /\ user[u].is = "live"
    /\ \A r \in new : role[r].is = "live"
    /\ user' = [user EXCEPT ![u].roles = new]
    /\ UNCHANGED <<role, permission>>

\* get_with_all_roles_for_update and _get_required_roles: every association is
\* replaced, the hidden ones too, and the roles asked for exist.
AssignRoles(u, new, t) ==
    /\ user[u].is = "live"
    /\ \A r \in new : role[r].is = "live" /\ Free(r, t)
    /\ user' = [user EXCEPT ![u].roles = new]
    /\ UNCHANGED <<role, permission>>

AssignPermissions(r, new, t) ==
    /\ role[r].is = "live" /\ Free(r, t)
    /\ \A p \in new : permission[p].is = "live" /\ Free(p, t)
    /\ role' = [role EXCEPT ![r].permissions = new]
    /\ UNCHANGED <<user, permission>>

SetRoleActive(r, on, t) ==
    /\ role[r].is = "live" /\ role[r].active = ~on /\ Free(r, t)
    /\ role' = [role EXCEPT ![r].active = on]
    /\ UNCHANGED <<user, permission>>

SetPermissionActive(p, on, t) ==
    /\ permission[p].is = "live" /\ permission[p].active = ~on /\ Free(p, t)
    /\ permission' = [permission EXCEPT ![p].active = on]
    /\ UNCHANGED <<user, role>>

\* SoftDeleteCRUD.restore looks at the row again under its lock.
RestoreRole(r) ==
    /\ role[r].is = "deleted"
    /\ role' = [role EXCEPT ![r].is = "live"]
    /\ UNCHANGED <<user, permission>>

RestorePermission(p) ==
    /\ permission[p].is = "deleted"
    /\ permission' = [permission EXCEPT ![p].is = "live"]
    /\ UNCHANGED <<user, role>>

DeleteRole(r) ==
    /\ role[r].is = "live"
    /\ role' = [role EXCEPT ![r].is = "deleted"]
    /\ UNCHANGED <<user, permission>>

-----------------------------------------------------------------------------
\* A call that has to be allowed

\* mutant: the recycle bin of the roles has no guard
AddedWithoutRestore(c) ==
    CASE c.op = "assign roles" -> c.new \ user[c.row].roles
      [] c.op = "assign permissions" -> c.new \ role[c.row].permissions
      [] c.op = "enable role" /\ UserCount(c.row) > 0 -> {c.row}
      [] c.op \in {"enable permission", "restore permission"}
           /\ GrantedThroughLiveRole(c.row) -> {c.row}
      [] OTHER -> {}

\* What the call would give to somebody: a role without users, or a permission
\* without roles, is nobody's.
Added(c) ==
    CASE c.op = "assign roles" -> c.new \ user[c.row].roles
      [] c.op = "assign permissions" -> c.new \ role[c.row].permissions
      [] c.op \in {"enable role", "restore role"} /\ UserCount(c.row) > 0 -> {c.row}
      [] c.op \in {"enable permission", "restore permission"}
           /\ GrantedThroughLiveRole(c.row) -> {c.row}
      [] OTHER -> {}

\* The codes of what is added.  A permission restored or enabled is its own code.
Codes(c) ==
    CASE c.op \in GivesRoles -> RoleCodes(c.added)
      [] c.op = "assign permissions" -> {p \in c.added : permission[p].is = "live"}
      [] OTHER -> c.added

\* The first query of a call finds its row as it has to be.  The permissions of
\* a role are compared before anybody asks whether the role exists.
Found(op, x) ==
    CASE op = "assign roles" -> user[x].is = "live"
      [] op = "assign permissions" -> TRUE
      [] op = "delete role" -> role[x].is = "live"
      [] op = "enable role" -> role[x].is = "live" /\ ~role[x].active
      [] op = "enable permission" -> permission[x].is = "live" /\ ~permission[x].active
      [] op = "restore role" -> role[x].is = "deleted"
      [] op = "restore permission" -> permission[x].is = "deleted"

\* Enabling and deleting lock the row they find.  Nobody changes his own roles.
Begin(t, op, actor, x, new) ==
    /\ calls[t] = None /\ left > 0
    /\ user[actor].is = "live" /\ x # actor
    /\ Found(op, x)
    /\ op \in LocksFirst => Free(x, t)
    /\ left' = left - 1
    /\ calls' = [calls EXCEPT ![t] =
          [op |-> op, actor |-> actor, row |-> x, new |-> new, at |-> "finding",
           added |-> {}, codes |-> {}, owned |-> {}, touched |-> {}]]
    /\ UNCHANGED <<rows, revived>>

\* get_role_ids, get_permission_ids, get_user_count or
\* is_granted_through_live_role.  A role in use is not deleted.
FindAdded(t) ==
    LET c == calls[t] IN
    /\ c # None /\ c.at = "finding"
    /\ c.op = "delete role" => UserCount(c.row) = 0
    /\ calls' = [calls EXCEPT ![t].added = Added(c),
                    ![t].at = IF Added(c) = {} THEN "writing" ELSE "coding"]
    /\ UNCHANGED <<rows, left, revived>>

\* get_permission_codes of the roles, get_codes_by_ids.
FindCodes(t) ==
    LET c == calls[t] IN
    /\ c # None /\ c.at = "coding"
    /\ calls' = [calls EXCEPT ![t].codes = Codes(c),
                    ![t].at = IF Codes(c) = {} THEN "writing" ELSE "asking"]
    /\ UNCHANGED <<rows, left, revived>>

\* ensure_grantable, with the rights the actor has by now.
Allowed(t) ==
    LET c == calls[t] IN
    /\ c # None /\ c.at = "asking"
    /\ c.codes \subseteq PermissionCodes(c.actor)
    /\ calls' = [calls EXCEPT ![t].owned = PermissionCodes(c.actor), ![t].at = "writing"]
    /\ UNCHANGED <<rows, left, revived>>

\* The row is locked, if it was not, and looked at again.
Written(t) ==
    LET c == calls[t] IN
    /\ c # None /\ c.at = "writing"
    /\ CASE c.op = "assign roles" -> AssignRoles(c.row, c.new, t)
         [] c.op = "assign permissions" -> AssignPermissions(c.row, c.new, t)
         [] c.op = "enable role" -> SetRoleActive(c.row, TRUE, t)
         [] c.op = "enable permission" -> SetPermissionActive(c.row, TRUE, t)
         [] c.op = "restore role" -> RestoreRole(c.row)
         [] c.op = "restore permission" -> RestorePermission(c.row)
         [] c.op = "delete role" -> DeleteRole(c.row)
    /\ calls' = Noticed(c.row, [calls EXCEPT ![t] = None])
    /\ UNCHANGED <<left, revived>>

\* Refused, not found any more, a row asked for that does not exist, a
\* disconnect: get_db rolls back.
Abandon(t) ==
    /\ calls[t] # None
    /\ calls' = [calls EXCEPT ![t] = None]
    /\ UNCHANGED <<rows, left, revived>>

-----------------------------------------------------------------------------
\* Calls that are one step: those of a superuser, and those that take away

Once(x) ==
    /\ left > 0 /\ left' = left - 1
    /\ calls' = Noticed(x, calls)

BySuperuser ==
    \/ \E u \in Users, new \in SUBSET Roles :
          AssignRoles(u, new, None) /\ Once(u) /\ UNCHANGED revived
    \/ \E r \in Roles :
          /\ \/ \E new \in SUBSET Permissions : AssignPermissions(r, new, None)
             \/ SetRoleActive(r, TRUE, None)
             \/ RestoreRole(r)
          /\ Once(r) /\ UNCHANGED revived
    \/ \E p \in Permissions :
          /\ SetPermissionActive(p, TRUE, None) \/ RestorePermission(p)
          /\ Once(p) /\ UNCHANGED revived

\* update_role, update_permission, delete_permission, delete_user.
Lessen ==
    \/ \E r \in Roles : SetRoleActive(r, FALSE, None) /\ Once(r) /\ UNCHANGED revived
    \/ \E p \in Permissions :
          /\ \/ SetPermissionActive(p, FALSE, None)
             \/ /\ permission[p].is = "live" /\ Free(p, None)
                /\ permission' = [permission EXCEPT ![p].is = "deleted"]
                /\ UNCHANGED <<user, role>>
          /\ Once(p) /\ UNCHANGED revived
    \/ \E u \in Users :
          /\ user[u].is = "live"
          /\ user' = [user EXCEPT ![u].is = "deleted"]
          /\ Once(u) /\ UNCHANGED <<role, permission, revived>>

\* hard_delete, with the associations that go by the foreign keys.
Purge ==
    \/ \E u \in Users :
          /\ user[u].is = "deleted"
          /\ user' = [user EXCEPT ![u] = [is |-> "purged", roles |-> {}]]
          /\ Once(u) /\ UNCHANGED <<role, permission, revived>>
    \/ \E r \in Roles :
          /\ role[r].is = "deleted"
          /\ role' = [role EXCEPT ![r] =
                [is |-> "purged", active |-> FALSE, permissions |-> {}]]
          /\ user' = [u \in Users |-> [user[u] EXCEPT !.roles = @ \ {r}]]
          /\ Once(r) /\ UNCHANGED <<permission, revived>>
    \/ \E p \in Permissions :
          /\ permission[p].is = "deleted"
          /\ permission' = [permission EXCEPT ![p] = [is |-> "purged", active |-> FALSE]]
          /\ role' = [r \in Roles |-> [role[r] EXCEPT !.permissions = @ \ {p}]]
          /\ Once(p) /\ UNCHANGED <<user, revived>>

\* guard_user_recycle compares accounts, not rights: a user comes back with
\* the roles he had, whoever restores him.
RestoreUser ==
    \E u \in Users :
        /\ user[u].is = "deleted"
        /\ user' = [user EXCEPT ![u].is = "live"]
        /\ revived' = revived \cup {u}
        /\ Once(u) /\ UNCHANGED <<role, permission>>

Asked(op) ==
    CASE op = "assign roles" -> Users \X SUBSET Roles
      [] op = "assign permissions" -> Roles \X SUBSET Permissions
      [] op \in {"enable permission", "restore permission"} -> Permissions \X {{}}
      [] OTHER -> Roles \X {{}}

Next ==
    \/ \E t \in Tx :
          \/ \E op \in Grants \cup {"delete role"}, actor \in Users :
                \E a \in Asked(op) : Begin(t, op, actor, a[1], a[2])
          \/ FindAdded(t) \/ FindCodes(t) \/ Allowed(t) \/ Written(t) \/ Abandon(t)
    \/ BySuperuser \/ Lessen \/ Purge \/ RestoreUser

Spec == Init /\ [][Next]_vars

-----------------------------------------------------------------------------
\* A role in the recycle bin is held by nobody who is not in it too, unless he
\* came back after it: a role is counted as unused and deleted while others are
\* assigning it, restoring its holders or purging it.
DeletedRolesUnused ==
    \A r \in Roles, u \in Users :
        role[r].is = "deleted" /\ user[u].is = "live" /\ r \in user[u].roles
            => u \in revived

\* The row of a call that locks first stays as it was found, and belongs to one
\* call.
LockedRowStays ==
    \A t \in Tx : calls[t] # None /\ calls[t].op \in LocksFirst =>
        /\ Found(calls[t].op, calls[t].row)
        /\ calls[t].row \notin calls[t].touched
        /\ Free(calls[t].row, t)

\* A right runs from a user through a role to a permission.  What the commit
\* of call c would add to it, if anything:
Gives(c, g) ==
    CASE c.op = "assign roles" -> g[1] = c.row /\ g[2] \in c.new \ user[g[1]].roles
      [] c.op = "assign permissions" -> g[2] = c.row /\ g[3] \in c.new \ role[g[2]].permissions
      [] c.op \in {"enable role", "restore role"} ->
            g[2] = c.row /\ user[g[1]].is = "live" /\ g[2] \in user[g[1]].roles
      [] c.op \in {"enable permission", "restore permission"} ->
            g[3] = c.row /\ role[g[2]].is = "live" /\ g[3] \in role[g[2]].permissions
      [] OTHER -> FALSE

Through(c, g) == IF c.op \in GivesRoles THEN g[2] ELSE g[3]

HasCode(c, g) ==
    CASE c.op \in GivesRoles ->
            g[3] \in role[g[2]].permissions /\ permission[g[3]].is = "live"
      [] c.op = "assign permissions" -> permission[g[3]].is = "live"
      [] OTHER -> TRUE

\* Each query's answer still covers the rows that nobody else has written since.
AnswersHold ==
    \A t \in Tx, u \in Users, r \in Roles, p \in Permissions :
        LET c == calls[t]
            g == <<u, r, p>> IN
        c # None /\ {u, r, p} \cap c.touched = {} /\ Gives(c, g) =>
            /\ c.at # "finding" => Through(c, g) \in c.added
            /\ c.at \in {"asking", "writing"} /\ HasCode(c, g) => p \in c.codes

CodesOwned ==
    \A t \in Tx : calls[t] # None /\ calls[t].at # "asking" => calls[t].codes \subseteq calls[t].owned

\* A role about to be deleted is held only by users that came back from the
\* recycle bin.
CountedUnused ==
    \A t \in Tx : calls[t] # None /\ calls[t].op = "delete role" /\ calls[t].at # "finding" =>
        \A u \in Users : user[u].is = "live" /\ calls[t].row \in user[u].roles => u \in revived

\* A call is about rows of its own kind.
RowsFit ==
    \A t \in Tx : calls[t] # None =>
        LET c == calls[t] IN
        /\ CASE c.op = "assign roles" -> c.row \in Users /\ c.new \subseteq Roles
             [] c.op = "assign permissions" -> c.row \in Roles /\ c.new \subseteq Permissions
             [] c.op \in {"enable permission", "restore permission"} -> c.row \in Permissions
             [] OTHER -> c.row \in Roles
        /\ c.added \subseteq IF c.op \in GivesRoles THEN Roles ELSE Permissions

RbacInv ==
    /\ TypeOK /\ RowsFit
    /\ LockedRowStays
    /\ AnswersHold /\ CodesOwned
    /\ CountedUnused /\ DeletedRolesUnused

\* What an administrator who is no superuser gives, by a role, a permission,
\* or by enabling or restoring one, he held himself when he was asked; or the
\* user, the role or the permission it runs through was written by somebody
\* else between the first query of the call and its commit.
GrantedWasHeld ==
    [][\A t \in Tx : calls[t] # None /\ calls'[t] = None =>
          \A g \in Rights' \ Rights :
              \/ g[3] \in calls[t].owned
              \/ {g[1], g[2], g[3]} \cap calls[t].touched # {}]_vars

=============================================================================
