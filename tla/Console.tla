------------------------------ MODULE Console ------------------------------
(***************************************************************************)
(* Where the administrator of the console can go and what the pages let    *)
(* him ask.  Three tables have to agree and nothing in the code keeps them *)
(* in step: the permission each route of App.tsx requires, the permission  *)
(* each link and button of the interface is shown for, and the permission  *)
(* each endpoint of the backend demands.  The interface decides with the   *)
(* rights it copied when the session was opened; the account they were     *)
(* copied from may have changed since.                                     *)
(*                                                                         *)
(* A permission code is a pair <<resource, verb>>, a call of the API a     *)
(* pair <<resource, operation>>.                                           *)
(***************************************************************************)
EXTENDS Naturals

CONSTANTS Accounts,     \* the rights an account may be given
          MaxChanges    \* bound on the changes made to the account

PERMISSIONS ==
  ({"users"} \X {"read", "create", "update", "delete", "assign", "reset"})
  \cup ({"roles"} \X {"read", "create", "update", "delete", "assign"})
  \cup ({"permissions"} \X {"read", "create", "update", "delete"})
  \cup {<<"audit", "read">>}

Rights == [in : BOOLEAN, superuser : BOOLEAN, codes : SUBSET PERMISSIONS]

ASSUME ConsoleAssumption ==
  /\ Accounts \subseteq {r \in Rights : r.in}
  /\ MaxChanges \in Nat

VARIABLES account,   \* what the account holds on the server
          left,      \* how many more times it may change
          rights,    \* what the auth store of the page holds
          changed,   \* the account was changed since rights was loaded
          path,      \* the page shown
          via,       \* what led to it
          create,    \* ?create=1 is still in the address
          form,      \* the create form is open
          drawer,    \* the mobile menu is open
          saving,    \* PUT /me of this document is under way
          refused    \* the calls of the last step that the server refused

vars == <<account, left, rights, changed, path, via, create, form, drawer, saving,
          refused>>

hasPermission(r, code) == r.superuser \/ code \in r.codes

------------------------------------------------------------------------------
(* The backend: the verb each endpoint demands on its resource. *)

Demands == [list |-> "read", one |-> "read", tree |-> "read",
            deleted |-> "delete", restore |-> "delete", purge |-> "delete",
            create |-> "create", update |-> "update", delete |-> "delete",
            assign |-> "assign", password |-> "reset"]

Refuses(call) == ~hasPermission(account, <<call[1], Demands[call[2]]>>)

Ask(calls, by) ==
  refused' = {[call |-> c, by |-> by, changed |-> changed] :
                 c \in {q \in calls : Refuses(q)}}

------------------------------------------------------------------------------
(* The routes: the codes that each page inside the layout requires. *)

Routes == [dashboard |-> {}, profile |-> {},
           users |-> {<<"users", "read">>},
           users_trash |-> {<<"users", "delete">>},
           roles |-> {<<"roles", "read">>},
           roles_trash |-> {<<"roles", "delete">>},
           permissions |-> {<<"permissions", "read">>},
           permissions_trash |-> {<<"permissions", "delete">>},
           audit |-> {<<"audit", "read">>}]

Inside == DOMAIN Routes
Outside == {"login", "forbidden", "not_found"}
Paths == Inside \cup Outside

Admits(p, r) == r.in /\ \A code \in Routes[p] : hasPermission(r, code)

ProtectedRoute(p, r) ==
  CASE p \in Outside \/ Admits(p, r) -> p
    [] p \in Inside /\ ~r.in -> "login"
    [] OTHER -> "forbidden"

(* The calls a page makes when it is mounted, where they need a code. *)
MountCalls(p) ==
  CASE p = "users" -> {<<"users", "list">>}
    [] p = "roles" -> {<<"roles", "list">>}
    [] p = "permissions" -> {<<"permissions", "list">>, <<"permissions", "tree">>}
    [] p = "users_trash" -> {<<"users", "deleted">>}
    [] p = "roles_trash" -> {<<"roles", "deleted">>}
    [] p = "permissions_trash" -> {<<"permissions", "deleted">>}
    [] p = "audit" -> {<<"audit", "list">>}
    [] OTHER -> {}

------------------------------------------------------------------------------
(* What is shown, and the code it is shown for. *)

NAV_ENTRIES == [dashboard |-> {},
                users |-> {<<"users", "read">>},
                roles |-> {<<"roles", "read">>},
                permissions |-> {<<"permissions", "read">>},
                audit |-> {<<"audit", "read">>}]

(* mutant: the filter of the menu keeps every child of a group it shows *)
NavListWholeGroup ==
  LET group == {"users", "roles", "permissions"}
      shown == {p \in DOMAIN NAV_ENTRIES :
                   \A code \in NAV_ENTRIES[p] : hasPermission(rights, code)}
  IN IF shown \cap group = {} THEN shown ELSE shown \cup group

NavList == {p \in DOMAIN NAV_ENTRIES :
               \A code \in NAV_ENTRIES[p] : hasPermission(rights, code)}

(* The quick actions of the dashboard: a page, and whether to create there. *)
QuickActions == {<<"users", TRUE>>, <<"roles", TRUE>>,
                 <<"permissions", TRUE>>, <<"audit", FALSE>>}

TrashOf == [users |-> "users_trash", roles |-> "roles_trash",
            permissions |-> "permissions_trash"]

ListPages == DOMAIN TrashOf

(* The buttons of each list page: the verb shown for, the operation asked. *)
UsersPage == {<<"create", "create">>, <<"update", "update">>, <<"assign", "assign">>,
              <<"reset", "password">>, <<"delete", "delete">>}

(* mutant: the role page hides its assignment behind the right to update *)
RolesPageOneMenu == {<<"create", "create">>, <<"update", "update">>,
                     <<"update", "assign">>, <<"delete", "delete">>}

RolesPage == {<<"create", "create">>, <<"update", "update">>,
              <<"assign", "assign">>, <<"delete", "delete">>}

PermissionsPage == {<<"create", "create">>, <<"update", "update">>,
                    <<"delete", "delete">>}

Buttons == [users |-> UsersPage, roles |-> RolesPage, permissions |-> PermissionsPage]

Offered(p) ==
  IF p \in ListPages
  THEN {<<p, b[2]>> : b \in {c \in Buttons[p] : hasPermission(rights, <<p, c[1]>>)}}
  ELSE UNION {{<<r, "restore">>, <<r, "purge">>} : r \in {q \in ListPages : TrashOf[q] = p}}

(* What an assignment dialog loads when it opens. *)
DialogCalls == [users |-> {<<"roles", "list">>},
                roles |-> {<<"permissions", "tree">>, <<"roles", "one">>}]

------------------------------------------------------------------------------
(* Moving about.  Changing the page with the rights r mounts it; the       *)
(* create form and the drawer belong to what is unmounted.                 *)

MayCreate(p, r) == p \in ListPages /\ hasPermission(r, <<p, "create">>)

Show(p, how, r, asked) ==
  LET shown == ProtectedRoute(p, r)
      opens == asked /\ shown = p
  IN /\ path' = shown
     /\ via' = how
     /\ form' = (opens /\ MayCreate(p, r))
     /\ create' = (opens /\ ~MayCreate(p, r))
     /\ Ask(IF shown = path THEN {} ELSE MountCalls(shown), "page")

(* The address bar, a bookmark or a reload: everything is loaded again,    *)
(* and what the document before was doing is gone.  The refresh may be     *)
(* refused, or GET /me fail after it.  The address may ask to create.      *)
Nobody == [in |-> FALSE, superuser |-> FALSE, codes |-> {}]

Load(p, r, asked) ==
  LET shown == ProtectedRoute(p, r)
      opens == asked /\ shown = p
  IN /\ rights' = r
     /\ changed' = FALSE
     /\ drawer' = FALSE /\ saving' = FALSE
     /\ path' = shown
     /\ via' = "address"
     /\ form' = (opens /\ MayCreate(p, r))
     /\ create' = (opens /\ ~MayCreate(p, r))
     /\ refused' = {[call |-> c, by |-> "page", changed |-> FALSE] :
                       c \in {q \in MountCalls(shown) : Refuses(q)}}
     /\ UNCHANGED <<account, left>>

OpenAddress ==
  \E p \in Paths, r \in {Nobody, [Nobody EXCEPT !.in = TRUE], account} :
    \/ Load(p, r, FALSE)
    \/ p \in ListPages /\ Load(p, r, TRUE)

(* A link of the page shown.  An open form or drawer covers the page. *)
Follow(p, how, asked) ==
  /\ ~form
  /\ Show(p, how, rights, asked)
  /\ UNCHANGED <<account, left, rights, changed, saving>>

FollowNav == /\ path \in Inside
             /\ \E p \in NavList : Follow(p, "menu", FALSE)
             /\ drawer' = FALSE

OpenProfile == /\ path \in Inside
               /\ Follow("profile", "menu", FALSE)
               /\ UNCHANGED drawer

FollowTrash == /\ path \in ListPages /\ ~drawer
               /\ hasPermission(rights, <<path, "delete">>)
               /\ Follow(TrashOf[path], "trash", FALSE)
               /\ UNCHANGED drawer

FollowTrail == /\ ~drawer
               /\ \E p \in ListPages : path = TrashOf[p] /\ Follow(p, "trail", FALSE)
               /\ UNCHANGED drawer

FollowQuickAction == /\ path = "dashboard" /\ ~drawer
                     /\ \E q \in QuickActions : Follow(q[1], "quick", q[2])
                     /\ UNCHANGED drawer

GoHome == /\ path \in {"forbidden", "not_found"}
          /\ Follow("dashboard", "home", FALSE)
          /\ UNCHANGED drawer

OpenDrawer == /\ path \in Inside /\ ~form /\ ~drawer
              /\ drawer' = TRUE /\ refused' = {}
              /\ UNCHANGED <<account, left, rights, changed, path, via, create, form,
                                saving>>

CloseDrawer == /\ drawer
               /\ drawer' = FALSE /\ refused' = {}
               /\ UNCHANGED <<account, left, rights, changed, path, via, create, form,
                              saving>>

------------------------------------------------------------------------------
(* The session. *)

LogIn == /\ path = "login"
         /\ rights' = account
         /\ changed' = FALSE
         /\ path' = "dashboard" /\ via' = "login"
         /\ refused' = {}
         /\ UNCHANGED <<account, left, create, form, drawer, saving>>

(* The token was set, and GET /me failed after it. *)
LogInWithoutProfile ==
  /\ path = "login"
  /\ rights' = [rights EXCEPT !.in = TRUE]
  /\ refused' = {}
  /\ UNCHANGED <<account, left, changed, path, via, create, form, drawer, saving>>

(* Whatever the server answered; a session it still knows is picked up     *)
(* again by the page that is loaded next.                                  *)
LogOut == path \in Inside /\ ~form /\ \E r \in {Nobody, account} : Load("login", r, FALSE)

SessionLost == path \in Inside /\ Load("login", Nobody, FALSE)

(* PUT /me, one at a time, which is a bound: ...                           *)
SaveProfile ==
  /\ path = "profile" /\ ~drawer /\ ~saving
  /\ saving' = TRUE /\ refused' = {}
  /\ UNCHANGED <<account, left, rights, changed, path, via, create, form, drawer>>

(* ... its answer is the user, and only the user is stored, on whatever    *)
(* page that finds the store; a page that waits to create looks again.     *)
ProfileSaved ==
  LET known == [rights EXCEPT !.superuser = account.superuser]
  IN /\ saving /\ saving' = FALSE
     /\ rights' = known
     /\ form' = (form \/ (create /\ MayCreate(path, known)))
     /\ create' = (create /\ ~MayCreate(path, known))
     /\ refused' = {}
     /\ UNCHANGED <<account, left, changed, path, via, drawer>>

SaveFailed ==
  /\ saving /\ saving' = FALSE /\ refused' = {}
  /\ UNCHANGED <<account, left, rights, changed, path, via, create, form, drawer>>

(* Another administrator gives the account other rights.  No endpoint      *)
(* makes or unmakes a superuser.                                           *)
ChangeAccount ==
  /\ left > 0
  /\ left' = left - 1
  /\ account' \in {a \in Accounts : a # account /\ a.superuser = account.superuser}
  /\ changed' = TRUE
  /\ refused' = {}
  /\ UNCHANGED <<rights, path, via, create, form, drawer, saving>>

------------------------------------------------------------------------------
(* Asking. *)

Press == /\ path \in Inside /\ ~drawer /\ ~form
         /\ \E call \in Offered(path) : Ask({call}, "button")
         /\ UNCHANGED <<account, left, rights, changed, path, via, create, form, drawer,
                        saving>>

OpenAssignment ==
  /\ path \in DOMAIN DialogCalls /\ ~drawer /\ ~form
  /\ <<path, "assign">> \in Offered(path)
  /\ Ask(DialogCalls[path], "dialog")
  /\ UNCHANGED <<account, left, rights, changed, path, via, create, form, drawer, saving>>

SubmitForm == /\ form
              /\ form' = FALSE
              /\ Ask({<<path, "create">>}, "button")
              /\ UNCHANGED <<account, left, rights, changed, path, via, create, drawer,
                              saving>>

DismissForm == /\ form
               /\ form' = FALSE /\ refused' = {}
               /\ UNCHANGED <<account, left, rights, changed, path, via, create, drawer,
                              saving>>

------------------------------------------------------------------------------

Init == /\ account \in Accounts
        /\ left = MaxChanges
        /\ rights = Nobody
        /\ changed = FALSE
        /\ path = "login" /\ via = "address"
        /\ create = FALSE /\ form = FALSE /\ drawer = FALSE /\ saving = FALSE
        /\ refused = {}

Next == \/ OpenAddress
        \/ FollowNav \/ OpenProfile \/ FollowTrash \/ FollowTrail
        \/ FollowQuickAction \/ GoHome
        \/ OpenDrawer \/ CloseDrawer
        \/ LogIn \/ LogInWithoutProfile \/ LogOut \/ SessionLost
        \/ SaveProfile \/ ProfileSaved \/ SaveFailed \/ ChangeAccount
        \/ Press \/ OpenAssignment \/ SubmitForm \/ DismissForm

Spec == Init /\ [][Next]_vars

------------------------------------------------------------------------------

Vias == {"address", "menu", "trash", "trail", "quick", "home", "login"}

TypeOK == /\ account \in Accounts
          /\ left \in 0..MaxChanges
          /\ rights \in Rights
          /\ changed \in BOOLEAN
          /\ path \in Paths
          /\ via \in Vias
          /\ create \in BOOLEAN /\ form \in BOOLEAN
          /\ drawer \in BOOLEAN /\ saving \in BOOLEAN

(* The page shown is one the rights of the store admit, and what is open   *)
(* on it belongs to it.                                                    *)
ShownInv == /\ path \in Inside => Admits(path, rights)
            /\ drawer => path \in Inside
            /\ form => MayCreate(path, rights)
            /\ create => path \in ListPages /\ ~MayCreate(path, rights)

(* Until the account changes, the store holds no code the account does not, *)
(* and never says that it is a superuser when it is not.                    *)
CopyInv == /\ rights.superuser => account.superuser
           /\ ~changed => rights.codes \subseteq account.codes

(* Only an address, a quick action of the dashboard or the way back from a *)
(* recycle bin leads to the refusal page: the menu and the link to the bin *)
(* are shown to those the route admits, whatever happened to the rights    *)
(* since (Sidebar.tsx, UsersPage.tsx against App.tsx).  The quick actions  *)
(* and the way back are shown to everyone.                                 *)
ForbiddenNeedsCause == path = "forbidden" => via \in {"address", "quick", "trail"}

(* The invariant of the console, from which the two statements follow. *)
ConsoleInv == TypeOK /\ ShownInv /\ CopyInv /\ ForbiddenNeedsCause

(* A call the interface lets the user make and the server refuses for want *)
(* of a permission needs a change of the account since its rights were     *)
(* copied: the codes of pages, buttons and endpoints agree.  The lists     *)
(* that the assignment dialogs load are the exception: they need the right *)
(* to read roles or permissions, and the button only the right to assign.  *)
RefusedNeedsChange ==
  \A c \in refused :
     \/ c.changed
     \/ /\ c.by = "dialog"
        /\ c.call \in {<<"roles", "list">>, <<"permissions", "tree">>}
=============================================================================
