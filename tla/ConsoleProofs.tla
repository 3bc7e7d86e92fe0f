--------------------------- MODULE ConsoleProofs ---------------------------
(***************************************************************************)
(* The invariant of the console, for every choice of accounts: the routes, *)
(* what is shown and what the endpoints demand agree.                      *)
(***************************************************************************)
EXTENDS Console, TLAPS

------------------------------------------------------------------------------
(* The guard of the routes and the three tables. *)

(* ProtectedRoute shows a page inside the layout only to those it admits,  *)
(* and the refusal page to those the page asked for does not admit.        *)
LEMMA GuardLemma ==
  ASSUME NEW p \in Paths, NEW r \in Rights
  PROVE  /\ ProtectedRoute(p, r) \in Paths
         /\ ProtectedRoute(p, r) \in Inside => Admits(ProtectedRoute(p, r), r)
         /\ Admits(p, r) => ProtectedRoute(p, r) = p
         /\ ProtectedRoute(p, r) = "forbidden" =>
              p = "forbidden" \/ (p \in Inside /\ r.in /\ ~Admits(p, r))
<1>1. /\ "login" \in Paths /\ "forbidden" \in Paths
      /\ "login" \notin Inside /\ "forbidden" \notin Inside
      /\ \A q \in Outside : q \notin Inside
  BY DEF Paths, Inside, Outside, Routes
<1>2. r.in \in BOOLEAN
  BY DEF Rights
<1>3. CASE p \in Outside \/ Admits(p, r)
  <2>1. ProtectedRoute(p, r) = p
    <3>1. ~(p \in Inside /\ ~r.in)
      BY <1>1, <1>2, <1>3 DEF Admits
    <3> QED BY <1>3, <3>1 DEF ProtectedRoute
  <2> QED BY <1>1, <1>3, <2>1
<1>4. CASE p \in Inside /\ ~r.in
  <2>1. ~(p \in Outside \/ Admits(p, r))
    BY <1>1, <1>4 DEF Admits
  <2>2. ProtectedRoute(p, r) = "login"
    BY <1>4, <2>1 DEF ProtectedRoute
  <2> QED BY <1>1, <2>1, <2>2
<1>5. CASE p \in Inside /\ r.in /\ ~Admits(p, r)
  <2>1. ~(p \in Outside \/ Admits(p, r)) /\ ~(p \in Inside /\ ~r.in)
    BY <1>1, <1>5
  <2>2. ProtectedRoute(p, r) = "forbidden"
    BY <2>1 DEF ProtectedRoute
  <2> QED BY <1>1, <1>5, <2>2
<1> QED BY <1>2, <1>3, <1>4, <1>5 DEF Paths

(* What a page asks when it is mounted, the endpoints grant to those the   *)
(* route admits.                                                           *)
LEMMA MountLemma ==
  ASSUME NEW p \in Paths, NEW r, NEW call \in MountCalls(p),
         p \in Inside => Admits(p, r)
  PROVE  hasPermission(r, <<call[1], Demands[call[2]]>>)
<1>1. CASE p \in {"users", "roles", "permissions"}
  BY <1>1 DEF MountCalls, Admits, Inside, Routes, Demands
<1>2. CASE p \in {"users_trash", "roles_trash", "permissions_trash"}
  BY <1>2 DEF MountCalls, Admits, Inside, Routes, Demands
<1>3. CASE p = "audit"
  BY <1>3 DEF MountCalls, Admits, Inside, Routes, Demands
<1>4. CASE p \in Outside \cup {"dashboard", "profile"}
  BY <1>4 DEF MountCalls, Outside
<1> QED BY <1>1, <1>2, <1>3, <1>4 DEF Paths, Inside, Routes

(* What a page offers, the endpoints grant, as long as the copy of the     *)
(* rights is no more than the account.                                     *)
LEMMA OfferedLemma ==
  ASSUME path \in Inside, Admits(path, rights), NEW call \in Offered(path)
  PROVE  hasPermission(rights, <<call[1], Demands[call[2]]>>)
<1>1. CASE path \in ListPages
  <2>1. PICK b \in Buttons[path] :
           hasPermission(rights, <<path, b[1]>>) /\ call = <<path, b[2]>>
    BY <1>1 DEF Offered
  <2>2. b[1] = Demands[b[2]]
    <3>1. CASE path = "users"
      BY <3>1, <2>1 DEF Buttons, UsersPage, Demands
    <3>2. CASE path = "roles"
      BY <3>2, <2>1 DEF Buttons, RolesPage, Demands
    <3>3. CASE path = "permissions"
      BY <3>3, <2>1 DEF Buttons, PermissionsPage, Demands
    <3> QED BY <1>1, <3>1, <3>2, <3>3 DEF ListPages, TrashOf
  <2> QED BY <2>1, <2>2
<1>2. CASE path \notin ListPages
  <2>1. PICK r \in ListPages :
           TrashOf[r] = path /\ call \in {<<r, "restore">>, <<r, "purge">>}
    BY <1>2 DEF Offered
  <2>2. Demands[call[2]] = "delete" /\ call[1] = r
    BY <2>1 DEF Demands
  <2>3. hasPermission(rights, <<r, "delete">>)
    BY <2>1 DEF ListPages, TrashOf, Admits, Routes
  <2> QED BY <2>2, <2>3
<1> QED BY <1>1, <1>2

LEMMA CopyLemma ==
  ASSUME CopyInv, ~changed, NEW code, hasPermission(rights, code)
  PROVE  hasPermission(account, code)
BY DEF CopyInv, hasPermission

------------------------------------------------------------------------------
(* The invariant. *)

(* What a page asks when it is mounted is refused only after a change.     *)
LEMMA MountedLemma ==
  ASSUME CopyInv, rights \in Rights, NEW p \in Paths,
         p \in Inside => Admits(p, rights),
         NEW call \in MountCalls(p), Refuses(call)
  PROVE  changed
<1> SUFFICES ASSUME ~changed PROVE FALSE
  OBVIOUS
<1>1. hasPermission(rights, <<call[1], Demands[call[2]]>>)
  BY MountLemma
<1>2. hasPermission(account, <<call[1], Demands[call[2]]>>)
  BY <1>1, CopyLemma
<1> QED BY <1>2 DEF Refuses

(* Following a link to p: it is one that may be refused, or one shown only *)
(* to those that p admits.                                                 *)
LEMMA FollowLemma ==
  ASSUME ConsoleInv, NEW p \in Inside, NEW how \in Vias, NEW asked \in BOOLEAN,
         Follow(p, how, asked),
         asked => p \in ListPages,
         how \in {"quick", "trail"} \/ (rights.in => Admits(p, rights))
  PROVE  /\ path' \in Paths /\ via' \in Vias
         /\ path' \in Inside => Admits(path', rights')
         /\ form' \in BOOLEAN /\ create' \in BOOLEAN
         /\ form' => MayCreate(path', rights')
         /\ create' => path' \in ListPages /\ ~MayCreate(path', rights')
         /\ CopyInv' /\ ForbiddenNeedsCause' /\ RefusedNeedsChange'
<1> DEFINE shown == ProtectedRoute(p, rights)
           calls == IF shown = path THEN {} ELSE MountCalls(shown)
<1>1. /\ path' = shown /\ via' = how
      /\ form' = (asked /\ shown = p /\ MayCreate(p, rights))
      /\ create' = (asked /\ shown = p /\ ~MayCreate(p, rights))
      /\ account' = account /\ rights' = rights /\ changed' = changed
      /\ Ask(calls, "page")
  BY DEF Follow, Show
<1>2. rights \in Rights /\ CopyInv /\ rights.superuser \in BOOLEAN
  BY DEF ConsoleInv, TypeOK, Rights
<1>3. p \in Paths /\ "forbidden" \notin Inside
  BY DEF Paths, Inside, Routes
<1>4. /\ shown \in Paths
      /\ shown \in Inside => Admits(shown, rights)
      /\ shown = "forbidden" =>
              p = "forbidden" \/ (p \in Inside /\ rights.in /\ ~Admits(p, rights))
  BY <1>2, <1>3, GuardLemma
<1>5. MayCreate(p, rights) \in BOOLEAN
  BY DEF MayCreate
<1> HIDE DEF shown
<1>6. RefusedNeedsChange'
  <2>1. \A call \in calls : Refuses(call) => changed
    BY <1>2, <1>4, MountedLemma
  <2>2. \A c \in refused' : c.changed
    BY <1>1, <2>1 DEF Ask
  <2> QED BY <2>2 DEF RefusedNeedsChange
<1>7. CopyInv'
  BY <1>1, <1>2 DEF CopyInv
<1>8. ForbiddenNeedsCause'
  BY <1>1, <1>3, <1>4 DEF ForbiddenNeedsCause
<1> HIDE DEF calls
<1>9. form' \in BOOLEAN /\ create' \in BOOLEAN
  BY <1>1, <1>5
<1>10. path' \in Inside => Admits(path', rights')
  BY <1>1, <1>4
<1>11. form' => MayCreate(path', rights')
  BY <1>1
<1>12. create' => path' \in ListPages /\ ~MayCreate(path', rights')
  BY <1>1
<1> QED BY <1>1, <1>4, <1>6, <1>7, <1>8, <1>9, <1>10, <1>11, <1>12

(* Loading the page at p with the rights r.                                *)
LEMMA LoadLemma ==
  ASSUME ConsoleInv, NEW p \in Paths, NEW r \in {Nobody, [Nobody EXCEPT !.in = TRUE], account},
         NEW asked \in BOOLEAN, asked => p \in ListPages, Load(p, r, asked)
  PROVE  ConsoleInv' /\ RefusedNeedsChange'
<1> DEFINE shown == ProtectedRoute(p, r)
<1>1. account \in Rights /\ (r.superuser => account.superuser)
                         /\ r.codes \subseteq account.codes /\ r \in Rights
  <2>1. account \in Rights
    BY ConsoleAssumption DEF ConsoleInv, TypeOK
  <2>2. CASE r = account
    BY <2>1, <2>2
  <2>3. CASE r \in {Nobody, [Nobody EXCEPT !.in = TRUE]}
    <3>1. PICK b \in BOOLEAN : r = [in |-> b, superuser |-> FALSE, codes |-> {}]
      <4>1. CASE r = Nobody
        BY <4>1 DEF Nobody
      <4>2. CASE r = [Nobody EXCEPT !.in = TRUE]
        BY <4>2 DEF Nobody
      <4> QED BY <2>3, <4>1, <4>2
    <3>2. {} \in SUBSET PERMISSIONS
      OBVIOUS
    <3>3. r \in Rights /\ ~r.superuser /\ r.codes = {}
      BY <3>1, <3>2 DEF Rights
    <3> QED BY <2>1, <3>3
  <2> QED BY <2>2, <2>3
<1>2. shown \in Paths /\ (shown \in Inside => Admits(shown, r))
  BY <1>1, GuardLemma
<1>3. /\ rights' = r /\ changed' = FALSE /\ drawer' = FALSE /\ saving' = FALSE
      /\ path' = shown /\ via' = "address"
      /\ form' = (asked /\ shown = p /\ MayCreate(p, r))
      /\ create' = (asked /\ shown = p /\ ~MayCreate(p, r))
      /\ account' = account /\ left' = left
  BY DEF Load
<1>4. refused' = {}
  <2>1. ASSUME NEW call \in MountCalls(shown) PROVE ~Refuses(call)
    <3>1. hasPermission(r, <<call[1], Demands[call[2]]>>)
      BY <1>2, <2>1, MountLemma
    <3> QED BY <1>1, <3>1 DEF Refuses, hasPermission
  <2> HIDE DEF shown
  <2>2. {q \in MountCalls(shown) : Refuses(q)} = {}
    BY <2>1
  <2>3. refused' = {[call |-> c, by |-> "page", changed |-> FALSE] :
                       c \in {q \in MountCalls(shown) : Refuses(q)}}
    BY DEF Load, shown
  <2> QED BY <2>2, <2>3
<1> HIDE DEF shown
<1>a. form' \in BOOLEAN /\ create' \in BOOLEAN
  BY <1>3 DEF MayCreate
<1>b. /\ form' => MayCreate(path', rights')
      /\ create' => path' \in ListPages /\ ~MayCreate(path', rights')
  BY <1>3
<1>5. TypeOK'
  BY <1>1, <1>2, <1>3, <1>a DEF ConsoleInv, TypeOK, Vias
<1>6. ShownInv'
  BY <1>2, <1>3, <1>b DEF ShownInv
<1>7. CopyInv'
  BY <1>1, <1>3 DEF CopyInv
<1>8. ForbiddenNeedsCause'
  BY <1>3 DEF ForbiddenNeedsCause
<1>9. RefusedNeedsChange'
  BY <1>4 DEF RefusedNeedsChange
<1> QED BY <1>5, <1>6, <1>7, <1>8, <1>9 DEF ConsoleInv
(* A step that leaves the page alone.                                      *)
LEMMA StayLemma ==
  ASSUME ConsoleInv, UNCHANGED <<account, left, rights, changed, path, via, create>>,
         form' \in BOOLEAN, form' => form,
         drawer' \in BOOLEAN, drawer' => path \in Inside,
         saving' \in BOOLEAN
  PROVE  ConsoleInv'
<1>1. TypeOK'
  BY DEF ConsoleInv, TypeOK
<1>2. ShownInv'
  BY DEF ConsoleInv, ShownInv, MayCreate, Admits
<1>3. CopyInv' /\ ForbiddenNeedsCause'
  BY DEF ConsoleInv, CopyInv, ForbiddenNeedsCause
<1> QED BY <1>1, <1>2, <1>3 DEF ConsoleInv

(* Every step of the console keeps both statements. *)
LEMMA StepLemma ==
  ASSUME ConsoleInv, RefusedNeedsChange, [Next]_vars
  PROVE  ConsoleInv' /\ RefusedNeedsChange'
<1> USE DEF ConsoleInv
<1>0. TypeOK /\ ShownInv /\ CopyInv /\ ForbiddenNeedsCause
  OBVIOUS
<1>A. ASSUME refused' = {} PROVE RefusedNeedsChange'
  BY <1>A DEF RefusedNeedsChange
<1>B. ASSUME NEW how \in Vias, NEW p \in Inside, NEW asked \in BOOLEAN,
             Follow(p, how, asked), asked => p \in ListPages,
             how \in {"quick", "trail"} \/ (rights.in => Admits(p, rights)),
             drawer' \in BOOLEAN, drawer' => path' \in Inside
      PROVE  ConsoleInv' /\ RefusedNeedsChange'
  <2>1. UNCHANGED <<account, left, rights, changed, saving>>
    BY <1>B DEF Follow
  <2>2. /\ path' \in Paths /\ via' \in Vias
        /\ path' \in Inside => Admits(path', rights')
        /\ form' \in BOOLEAN /\ create' \in BOOLEAN
        /\ form' => MayCreate(path', rights')
        /\ create' => path' \in ListPages /\ ~MayCreate(path', rights')
        /\ CopyInv' /\ ForbiddenNeedsCause' /\ RefusedNeedsChange'
    BY <1>B, FollowLemma
  <2>3. TypeOK'
    BY <1>0, <1>B, <2>1, <2>2 DEF TypeOK
  <2>4. ShownInv'
    BY <1>B, <2>2 DEF ShownInv
  <2> QED BY <2>2, <2>3, <2>4
<1>C. rights \in Rights /\ account \in Rights /\ account.in = TRUE
  BY <1>0, ConsoleAssumption DEF TypeOK
<1>D. "dashboard" \in Inside /\ "profile" \in Inside /\ "login" \notin Inside
      /\ Routes["dashboard"] = {} /\ Routes["profile"] = {}
      /\ "dashboard" \notin ListPages /\ "login" \in Paths
      /\ "dashboard" # "forbidden" /\ "login" \notin ListPages
  BY DEF Inside, Routes, Outside, Paths, ListPages, TrashOf
<1>E. ListPages \subseteq Inside /\ \A q \in ListPages : TrashOf[q] \in Inside
  BY DEF ListPages, TrashOf, Inside, Routes
<1>1. CASE OpenAddress
  <2>1. PICK p \in Paths, r \in {Nobody, [Nobody EXCEPT !.in = TRUE], account} :
           Load(p, r, FALSE) \/ (p \in ListPages /\ Load(p, r, TRUE))
    BY <1>1 DEF OpenAddress
  <2> QED BY <2>1, LoadLemma
<1>2. CASE FollowNav
  <2>1. PICK p \in NavList : Follow(p, "menu", FALSE)
    BY <1>2 DEF FollowNav
  <2>2. p \in Inside /\ (rights.in => Admits(p, rights))
    <3>1. p \in {"dashboard", "users", "roles", "permissions", "audit"}
          /\ \A code \in NAV_ENTRIES[p] : hasPermission(rights, code)
      BY <2>1 DEF NavList, NAV_ENTRIES
    <3>2. NAV_ENTRIES[p] = Routes[p]
      <4>1. /\ NAV_ENTRIES["dashboard"] = {} /\ NAV_ENTRIES["audit"] = {<<"audit", "read">>}
            /\ NAV_ENTRIES["users"] = {<<"users", "read">>}
            /\ NAV_ENTRIES["roles"] = {<<"roles", "read">>}
            /\ NAV_ENTRIES["permissions"] = {<<"permissions", "read">>}
        BY DEF NAV_ENTRIES
      <4>2. /\ Routes["dashboard"] = {} /\ Routes["audit"] = {<<"audit", "read">>}
            /\ Routes["users"] = {<<"users", "read">>}
            /\ Routes["roles"] = {<<"roles", "read">>}
            /\ Routes["permissions"] = {<<"permissions", "read">>}
        BY DEF Routes
      <4> QED BY <3>1, <4>1, <4>2
    <3>3. p \in Inside
      BY <3>1 DEF Inside, Routes
    <3> QED BY <3>1, <3>2, <3>3 DEF Admits
  <2>3. drawer' = FALSE
    BY <1>2 DEF FollowNav
  <2> QED BY <1>B, <2>1, <2>2, <2>3 DEF Vias
<1>3. CASE OpenProfile
  <2>1. Follow("profile", "menu", FALSE) /\ drawer' = drawer /\ path \in Inside
    BY <1>3 DEF OpenProfile
  <2>2. rights.in
    BY <1>0, <2>1 DEF ShownInv, Admits
  <2>3. Admits("profile", rights)
    BY <1>D, <2>2 DEF Admits
  <2>4. path' \in Inside
    BY <1>C, <1>D, <2>1, <2>3, GuardLemma DEF Follow, Show, Paths
  <2>5. drawer' \in BOOLEAN
    BY <1>0, <2>1 DEF TypeOK
  <2> QED BY <1>B, <1>D, <2>1, <2>3, <2>4, <2>5 DEF Vias
<1>4. CASE FollowTrash
  <2>1. /\ path \in ListPages /\ hasPermission(rights, <<path, "delete">>)
        /\ Follow(TrashOf[path], "trash", FALSE) /\ drawer' = FALSE
    BY <1>0, <1>4 DEF FollowTrash, TypeOK
  <2>2. Admits(TrashOf[path], rights) \/ ~rights.in
    <3>1. Routes[TrashOf[path]] = {<<path, "delete">>}
      BY <2>1 DEF Routes, TrashOf, ListPages
    <3> QED BY <2>1, <3>1 DEF Admits
  <2> QED BY <1>B, <1>E, <2>1, <2>2 DEF Vias
<1>5. CASE FollowTrail
  <2>1. PICK p \in ListPages : path = TrashOf[p] /\ Follow(p, "trail", FALSE)
    BY <1>5 DEF FollowTrail
  <2>2. drawer' = FALSE
    BY <1>0, <1>5 DEF FollowTrail, TypeOK
  <2> QED BY <1>B, <1>E, <2>1, <2>2 DEF Vias
<1>6. CASE FollowQuickAction
  <2>1. PICK q \in QuickActions : Follow(q[1], "quick", q[2])
    BY <1>6 DEF FollowQuickAction
  <2>2. drawer' = FALSE
    BY <1>0, <1>6 DEF FollowQuickAction, TypeOK
  <2>3. q[1] \in Inside /\ q[2] \in BOOLEAN /\ (q[2] => q[1] \in ListPages)
    <3>1. q[1] \in {"users", "roles", "permissions", "audit"} /\ q[2] \in BOOLEAN
          /\ (q[2] => q[1] \in {"users", "roles", "permissions"})
      <4>1. ASSUME NEW r \in ListPages, q = <<r, TRUE>>
            PROVE  q[1] \in {"users", "roles", "permissions"} /\ q[2] = TRUE
        BY <4>1 DEF ListPages, TrashOf
      <4>2. CASE q = <<"audit", FALSE>>
        BY <4>2
      <4>3. QuickActions = {<<r, TRUE>> : r \in ListPages} \cup {<<"audit", FALSE>>}
        BY DEF QuickActions, ListPages, TrashOf
      <4> QED BY <2>1, <4>1, <4>2, <4>3
    <3> QED BY <3>1 DEF Inside, Routes, ListPages, TrashOf
  <2> QED BY <1>B, <2>1, <2>2, <2>3 DEF Vias
<1>7. CASE GoHome
  <2>1. Follow("dashboard", "home", FALSE) /\ drawer' = drawer
        /\ path \in {"forbidden", "not_found"}
    BY <1>7 DEF GoHome
  <2>2. rights.in => Admits("dashboard", rights)
    BY <1>D DEF Admits
  <2>3. drawer' = FALSE
    BY <1>0, <2>1 DEF TypeOK, ShownInv, Inside, Routes
  <2> QED BY <1>B, <1>D, <2>1, <2>2, <2>3 DEF Vias
<1>8. CASE OpenDrawer \/ CloseDrawer
  <2>1. refused' = {} /\ form' = form
        /\ UNCHANGED <<account, left, rights, changed, path, via, create, saving>>
    BY <1>8 DEF OpenDrawer, CloseDrawer
  <2>2. drawer' \in BOOLEAN /\ (drawer' => path \in Inside)
    BY <1>8 DEF OpenDrawer, CloseDrawer
  <2>3. form' \in BOOLEAN /\ saving' \in BOOLEAN
    BY <1>0, <2>1 DEF TypeOK
  <2> QED BY <1>A, <2>1, <2>2, <2>3, StayLemma
<1>9. CASE LogIn
  <2>1. path = "login" /\ rights' = account /\ changed' = FALSE
        /\ path' = "dashboard" /\ via' = "login" /\ refused' = {}
        /\ UNCHANGED <<account, left, create, form, drawer, saving>>
    BY <1>9 DEF LogIn
  <2>2. ~create /\ ~form /\ ~drawer
    BY <1>0, <1>D, <2>1 DEF ShownInv, MayCreate
  <2>3. TypeOK'
    BY <1>0, <1>C, <1>D, <2>1 DEF TypeOK, Vias, Paths
  <2>4. ShownInv'
    BY <1>C, <1>D, <2>1, <2>2 DEF ShownInv, Admits
  <2>5. CopyInv' /\ ForbiddenNeedsCause'
    BY <1>D, <2>1 DEF CopyInv, ForbiddenNeedsCause
  <2> QED BY <1>A, <2>1, <2>3, <2>4, <2>5
<1>10. CASE LogInWithoutProfile
  <2>1. path = "login" /\ rights' = [rights EXCEPT !.in = TRUE] /\ refused' = {}
        /\ UNCHANGED <<account, left, changed, path, via, create, form, drawer, saving>>
    BY <1>10 DEF LogInWithoutProfile
  <2>2. ~create /\ ~form
    BY <1>0, <1>D, <2>1 DEF ShownInv, MayCreate
  <2>3. rights' \in Rights /\ rights'.superuser = rights.superuser
        /\ rights'.codes = rights.codes
    BY <1>C, <2>1 DEF Rights
  <2>4. TypeOK'
    BY <1>0, <2>1, <2>3 DEF TypeOK
  <2>5. ShownInv'
    BY <1>0, <1>D, <2>1, <2>2 DEF ShownInv
  <2>6. CopyInv' /\ ForbiddenNeedsCause'
    BY <1>0, <2>1, <2>3 DEF CopyInv, ForbiddenNeedsCause
  <2> QED BY <1>A, <2>1, <2>4, <2>5, <2>6
<1>11. CASE LogOut \/ SessionLost
  BY <1>11, <1>D, LoadLemma DEF LogOut, SessionLost
<1>12. CASE SaveProfile \/ SaveFailed
  <2>1. refused' = {} /\ form' = form /\ drawer' = drawer /\ saving' \in BOOLEAN
        /\ UNCHANGED <<account, left, rights, changed, path, via, create>>
    BY <1>12 DEF SaveProfile, SaveFailed
  <2> QED BY <1>0, <1>A, <2>1, StayLemma DEF TypeOK, ShownInv
<1>19. CASE ProfileSaved
  <2> DEFINE known == [rights EXCEPT !.superuser = account.superuser]
  <2>1. /\ rights' = known /\ saving' = FALSE /\ refused' = {}
        /\ form' = (form \/ (create /\ MayCreate(path, known)))
        /\ create' = (create /\ ~MayCreate(path, known))
        /\ UNCHANGED <<account, left, changed, path, via, drawer>>
    BY <1>19 DEF ProfileSaved
  <2>2. known \in Rights /\ known.superuser = account.superuser
        /\ known.codes = rights.codes /\ known.in = rights.in
    BY <1>C DEF Rights
  <2> HIDE DEF known
  <2>3. \A code : hasPermission(rights, code) => hasPermission(known, code)
    BY <1>0, <2>2 DEF hasPermission, CopyInv
  <2>4. TypeOK'
    BY <1>0, <2>1, <2>2 DEF TypeOK, MayCreate
  <2>5. path' \in Inside => Admits(path', rights')
    BY <1>0, <2>1, <2>2, <2>3 DEF ShownInv, Admits
  <2>6. form' => MayCreate(path', rights')
    BY <1>0, <2>1, <2>3 DEF ShownInv, MayCreate
  <2>7. ShownInv'
    BY <1>0, <2>1, <2>5, <2>6 DEF ShownInv
  <2>8. CopyInv' /\ ForbiddenNeedsCause'
    BY <1>0, <2>1, <2>2 DEF CopyInv, ForbiddenNeedsCause
  <2> QED BY <1>A, <2>1, <2>4, <2>7, <2>8
<1>13. CASE ChangeAccount
  <2>1. left > 0 /\ left' = left - 1 /\ account' \in Accounts /\ changed' = TRUE
        /\ account'.superuser = account.superuser
        /\ refused' = {} /\ UNCHANGED <<rights, path, via, create, form, drawer, saving>>
    BY <1>13 DEF ChangeAccount
  <2>2. TypeOK'
    BY <1>0, <2>1, ConsoleAssumption DEF TypeOK
  <2>3. ShownInv'
    BY <1>0, <2>1 DEF ShownInv, Admits, MayCreate
  <2>4. CopyInv' /\ ForbiddenNeedsCause'
    BY <1>0, <2>1 DEF CopyInv, ForbiddenNeedsCause
  <2> QED BY <1>A, <2>1, <2>2, <2>3, <2>4
<1>14. CASE Press
  <2>1. PICK call \in Offered(path) : Ask({call}, "button")
    BY <1>14 DEF Press
  <2>2. path \in Inside /\ Admits(path, rights)
        /\ UNCHANGED <<account, left, rights, changed, path, via, create, form, drawer,
                        saving>>
    BY <1>0, <1>14 DEF Press, ShownInv
  <2>3. Refuses(call) => changed
    BY <1>0, <2>2, OfferedLemma, CopyLemma DEF Refuses
  <2>4. RefusedNeedsChange'
    BY <2>1, <2>3 DEF Ask, RefusedNeedsChange
  <2> QED BY <1>0, <2>2, <2>4, StayLemma DEF TypeOK, ShownInv
<1>15. CASE OpenAssignment
  <2>1. path \in DOMAIN DialogCalls /\ Ask(DialogCalls[path], "dialog")
        /\ UNCHANGED <<account, left, rights, changed, path, via, create, form, drawer,
                        saving>>
    BY <1>15 DEF OpenAssignment
  <2>2. path \in {"users", "roles"} /\ path \in Inside
    BY <2>1 DEF DialogCalls, Inside, Routes
  <2>3. ASSUME Refuses(<<"roles", "one">>), path = "roles" PROVE changed
    <3>1. hasPermission(rights, <<"roles", "read">>)
      BY <1>0, <2>2, <2>3 DEF ShownInv, Admits, Routes
    <3> QED BY <1>0, <2>3, <3>1, CopyLemma DEF Refuses, Demands
  <2>4. \A c \in DialogCalls[path] : Refuses(c) =>
          changed \/ c \in {<<"roles", "list">>, <<"permissions", "tree">>}
    BY <2>2, <2>3 DEF DialogCalls
  <2>5. RefusedNeedsChange'
    BY <2>1, <2>4 DEF Ask, RefusedNeedsChange
  <2> QED BY <1>0, <2>1, <2>2, <2>5, StayLemma DEF TypeOK, ShownInv
<1>16. CASE SubmitForm
  <2>1. form /\ form' = FALSE /\ Ask({<<path, "create">>}, "button")
        /\ UNCHANGED <<account, left, rights, changed, path, via, create, drawer, saving>>
    BY <1>16 DEF SubmitForm
  <2>2. hasPermission(rights, <<path, "create">>)
    BY <1>0, <2>1 DEF ShownInv, MayCreate
  <2>3. Refuses(<<path, "create">>) => changed
    BY <1>0, <2>2, CopyLemma DEF Refuses, Demands
  <2>4. RefusedNeedsChange'
    BY <2>1, <2>3 DEF Ask, RefusedNeedsChange
  <2> QED BY <1>0, <2>1, <2>4, StayLemma DEF TypeOK, ShownInv
<1>17. CASE DismissForm
  BY <1>0, <1>17, <1>A, StayLemma DEF DismissForm, TypeOK, ShownInv
<1>18. CASE UNCHANGED vars
  <2>1. UNCHANGED <<account, left, rights, changed, path, via, create>>
        /\ form' = form /\ drawer' = drawer /\ saving' = saving /\ refused' = refused
    BY <1>18 DEF vars
  <2>2. RefusedNeedsChange'
    BY <2>1 DEF RefusedNeedsChange
  <2> QED BY <1>0, <2>1, <2>2, StayLemma DEF TypeOK, ShownInv
<1> QED BY <1>1, <1>2, <1>3, <1>4, <1>5, <1>6, <1>7, <1>8, <1>9, <1>10, <1>11,
           <1>12, <1>13, <1>14, <1>15, <1>16, <1>17, <1>18, <1>19 DEF Next

LEMMA InitLemma ==
  ASSUME Init
  PROVE  ConsoleInv /\ RefusedNeedsChange
<1>1. rights \in Rights
  <2>1. {} \in SUBSET PERMISSIONS
    OBVIOUS
  <2> QED BY <2>1 DEF Init, Nobody, Rights
<1>2. left \in 0..MaxChanges
  BY ConsoleAssumption DEF Init
<1>3. TypeOK
  BY <1>1, <1>2 DEF Init, TypeOK, Vias, Paths, Outside
<1>4. ShownInv /\ CopyInv /\ ForbiddenNeedsCause /\ RefusedNeedsChange
  BY DEF Init, ShownInv, CopyInv, ForbiddenNeedsCause, RefusedNeedsChange, Nobody,
         Inside, Routes
<1> QED BY <1>3, <1>4 DEF ConsoleInv

LEMMA Always == Spec => []ConsoleInv /\ []RefusedNeedsChange
BY InitLemma, StepLemma, PTL DEF Spec

(* The page shown is always one the rights of the store admit, what is     *)
(* open on it belongs to it, and the store holds no more than the account  *)
(* until that changes.                                                     *)
THEOREM ConsoleInvariant == Spec => []ConsoleInv
BY Always, PTL

(* The refusal page is reached only through an address, a quick action or  *)
(* the way back from a recycle bin, whatever the rights and their changes. *)
THEOREM ForbiddenNeedsACause == Spec => []ForbiddenNeedsCause
<1>1. ConsoleInv => ForbiddenNeedsCause
  BY DEF ConsoleInv
<1> QED BY <1>1, Always, PTL

(* What the interface offers the server grants, until the account changes, *)
(* except the lists that the assignment dialogs load.                      *)
THEOREM RefusalNeedsAChange == Spec => []RefusedNeedsChange
BY Always, PTL
=============================================================================
