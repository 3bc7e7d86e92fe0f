---------------------------- MODULE PagesProofs ----------------------------
(***************************************************************************)
(* The list pages, for any number of rows, requests, loads and writes:     *)
(* what their dialogs send, what the list shows and what the pager asks.   *)
(***************************************************************************)
EXTENDS ListPage, PageDialogs, TLAPS

-----------------------------------------------------------------------------
(* The dialogs *)

Fields == dialog.fill = "row" /\ open => own

Loading ==
  /\ \A l \in Loads : loads[l] # None /\ loads[l].newest => loads[l].row = row
  /\ \A l \in Loads : loads[l] # None => dialog.loads
  /\ isLoading => \E l \in Loads : loads[l] # None

Submitting ==
  /\ isSubmitting => \E w \in Writes : writes[w] # None /\ writes[w].attached
  /\ dialog.life = "kept" => \A w \in Writes : writes[w] # None => writes[w].attached

(* Inductive: DialogInv and the two properties, and that only a dialog that *)
(* loads has loads, and that a dialog that is kept hears all its answers.  *)
IInv ==
  /\ TypeOK
  /\ own => owner = row
  /\ open => row # None
  /\ Fields /\ Loading /\ Submitting
  /\ SentForItsRow /\ OneWritePerDialog

LEMMA Recorded ==
  /\ \A r \in Rows, b \in BOOLEAN : [row |-> r, newest |-> b] \in Loaded
  /\ \A r \in Rows, o \in Rows \cup {None}, b, c \in BOOLEAN :
        [row |-> r, owner |-> o, own |-> b, attached |-> c] \in Written
  /\ \A x \in Loaded : /\ x # None /\ x.row \in Rows /\ x.newest \in BOOLEAN
                       /\ [x EXCEPT !.newest = FALSE] \in Loaded
                       /\ [x EXCEPT !.newest = FALSE].newest = FALSE
  /\ \A x \in Written :
        /\ x # None /\ x.row \in Rows /\ x.owner \in Rows \cup {None}
        /\ x.own \in BOOLEAN /\ x.attached \in BOOLEAN
        /\ [x EXCEPT !.attached = FALSE] \in Written
        /\ [x EXCEPT !.attached = FALSE].row = x.row
        /\ [x EXCEPT !.attached = FALSE].owner = x.owner
        /\ [x EXCEPT !.attached = FALSE].own = x.own
BY DialogAssumption DEF Loaded, Written

(* The writes of a component that is replaced are the same, unheard. *)
LEMMA Unheard ==
  ASSUME TypeOK
  PROVE  /\ Detached \in [Writes -> Written \cup {None}]
         /\ \A w \in Writes : /\ writes[w] = None <=> Detached[w] = None
                              /\ writes[w] # None =>
                                   /\ Detached[w].row = writes[w].row
                                   /\ Detached[w].owner = writes[w].owner
                                   /\ Detached[w].own = writes[w].own
<1>1. \A w \in Writes : writes[w] = None \/ writes[w] \in Written
  BY DEF TypeOK
<1>2. \A w \in Writes : Detached[w] = IF writes[w] = None THEN None
                                      ELSE [writes[w] EXCEPT !.attached = FALSE]
  BY DEF Detached
<1>3. ASSUME NEW w \in Writes, writes[w] # None
      PROVE  /\ Detached[w] \in Written /\ Detached[w] # None
             /\ Detached[w].row = writes[w].row
             /\ Detached[w].owner = writes[w].owner
             /\ Detached[w].own = writes[w].own
  <2>1. writes[w] \in Written
    BY <1>1, <1>3
  <2>2. Detached[w] = [writes[w] EXCEPT !.attached = FALSE]
    BY <1>2, <1>3
  <2> QED BY <2>1, <2>2, Recorded
<1>4. Detached \in [Writes -> Written \cup {None}]
  <2>1. \A w \in Writes : Detached[w] \in Written \cup {None}
    BY <1>2, <1>3
  <2>2. Detached = [w \in Writes |-> Detached[w]]
    BY DEF Detached
  <2> QED BY <2>1, <2>2
<1> QED BY <1>2, <1>3, <1>4

(* What a load does to the requests of a dialog. *)
LEMMA Asked ==
  ASSUME TypeOK, NEW r \in Rows, Load(r)
  PROVE  /\ isLoading' \in BOOLEAN /\ loads' \in [Loads -> Loaded \cup {None}]
         /\ \/ /\ dialog.loads
               /\ \E l \in Loads :
                     /\ loads'[l] # None /\ loads'[l].row = r
                     /\ \A k \in Loads : k # l /\ loads'[k] # None => ~loads'[k].newest
            \/ ~dialog.loads /\ UNCHANGED <<isLoading, loads>>
<1>1. CASE ~dialog.loads
  BY <1>1 DEF Load, TypeOK
<1>2. CASE dialog.loads
  <2>1. PICK l \in Loads :
            loads' = [k \in Loads |-> IF k = l THEN [row |-> r, newest |-> TRUE]
                                      ELSE IF loads[k] = None THEN None
                                      ELSE [loads[k] EXCEPT !.newest = FALSE]]
    BY <1>2 DEF Load
  <2>2. \A k \in Loads : loads[k] = None \/ loads[k] \in Loaded
    BY DEF TypeOK
  <2>3. [row |-> r, newest |-> TRUE] \in Loaded
    BY Recorded
  <2>4. loads'[l] = [row |-> r, newest |-> TRUE] /\ loads'[l] # None
    BY <2>1, <2>3, Recorded
  <2>5. \A k \in Loads : k # l => /\ loads'[k] \in Loaded \cup {None}
                                  /\ loads'[k] # None => ~loads'[k].newest
    BY <2>1, <2>2, Recorded
  <2>6. loads' \in [Loads -> Loaded \cup {None}]
    <3>1. \A k \in Loads : loads'[k] \in Loaded \cup {None}
      BY <2>3, <2>4, <2>5
    <3> QED BY <2>1, <3>1
  <2>7. isLoading' = TRUE
    BY <1>2 DEF Load
  <2> QED BY <1>2, <2>4, <2>5, <2>6, <2>7
<1> QED BY <1>1, <1>2

LEMMA Begin ==
  ASSUME Init
  PROVE  IInv
BY DEF Init, IInv, TypeOK, Fields, Loading, Submitting, SentForItsRow, OneWritePerDialog

LEMMA OpenStep ==
  ASSUME IInv, NEW r \in Rows, Open(r)
  PROVE  IInv'
<1>0. /\ TypeOK /\ Loading /\ Submitting /\ SentForItsRow /\ OneWritePerDialog /\ ~open
      /\ dialog' = dialog /\ open' = TRUE /\ row' = r /\ r # None
  BY DialogAssumption DEF IInv, Open
<1>1. \/ dialog.fill = "row" /\ owner' = r /\ own' = TRUE
      \/ dialog.fill # "row" /\ owner' = owner /\ own' = FALSE
  BY DEF Open
<1>2. /\ isLoading' \in BOOLEAN /\ loads' \in [Loads -> Loaded \cup {None}]
      /\ \/ /\ dialog.loads
            /\ \E l \in Loads :
                  /\ loads'[l] # None /\ loads'[l].row = r
                  /\ \A k \in Loads : k # l /\ loads'[k] # None => ~loads'[k].newest
         \/ ~dialog.loads /\ UNCHANGED <<isLoading, loads>>
  BY <1>0, Asked DEF Open
<1>3. /\ isSubmitting' = (IF dialog.life = "kept" THEN isSubmitting ELSE FALSE)
      /\ writes' = (IF dialog.life = "mounted" THEN Detached ELSE writes)
  BY DEF Open
<1>4. TypeOK'
  BY <1>0, <1>1, <1>2, <1>3, Unheard DEF TypeOK
<1>5. Loading'
  BY <1>0, <1>2 DEF Loading
<1>6. Submitting'
  BY <1>0, <1>3 DEF Submitting
<1>7. SentForItsRow'
  BY <1>0, <1>3, Unheard DEF SentForItsRow
<1>8. OneWritePerDialog'
  BY <1>0, <1>3 DEF OneWritePerDialog
<1> QED BY <1>0, <1>1, <1>4, <1>5, <1>6, <1>7, <1>8 DEF IInv, Fields

LEMMA LoadStep ==
  ASSUME IInv, NEW l \in Loads, LoadAnswered(l) \/ LoadFailed(l)
  PROVE  IInv'
<1>0. /\ TypeOK /\ Loading /\ Submitting /\ SentForItsRow /\ OneWritePerDialog
      /\ loads[l] # None /\ isLoading' = FALSE /\ loads' = [loads EXCEPT ![l] = None]
      /\ UNCHANGED <<dialog, open, row, isSubmitting, writes>>
  BY DEF IInv, LoadAnswered, LoadFailed
<1>1. \/ /\ dialog.fill = "load" /\ owner' = loads[l].row /\ own' = loads[l].newest
      \/ UNCHANGED <<owner, own>>
  BY DEF LoadAnswered, LoadFailed
<1>2. loads[l] \in Loaded /\ loads[l].row \in Rows /\ loads[l].newest \in BOOLEAN
  BY <1>0, Recorded DEF TypeOK
<1>3. loads' \in [Loads -> Loaded \cup {None}]
      /\ \A k \in Loads : loads'[k] # None => loads'[k] = loads[k]
  BY <1>0 DEF TypeOK
<1>4. TypeOK'
  BY <1>0, <1>1, <1>2, <1>3 DEF TypeOK
<1>5. own' => owner' = row'
  <2>1. CASE owner' = loads[l].row /\ own' = loads[l].newest
    BY <1>0, <2>1 DEF Loading
  <2>2. CASE UNCHANGED <<owner, own>>
    BY <1>0, <2>2 DEF IInv
  <2> QED BY <1>1, <2>1, <2>2
<1>6. Loading'
  BY <1>0, <1>3 DEF Loading
<1>7. Fields'
  BY <1>0, <1>1 DEF IInv, Fields
<1>8. (open' => row' # None) /\ Submitting' /\ SentForItsRow' /\ OneWritePerDialog'
  BY <1>0 DEF IInv, Submitting, SentForItsRow, OneWritePerDialog
<1> QED BY <1>4, <1>5, <1>6, <1>7, <1>8 DEF IInv

LEMMA TypeStep ==
  ASSUME IInv, Type
  PROVE  IInv'
<1>1. UNCHANGED <<dialog, open, row, isLoading, isSubmitting, loads, writes>>
      /\ owner' = row /\ own' = TRUE
  BY DEF Type
<1>2. TypeOK'
  BY <1>1 DEF IInv, TypeOK
<1>3. Loading' /\ Submitting' /\ SentForItsRow' /\ OneWritePerDialog'
  BY <1>1 DEF IInv, Loading, Submitting, SentForItsRow, OneWritePerDialog
<1> QED BY <1>1, <1>2, <1>3 DEF IInv, Fields

LEMMA CloseStep ==
  ASSUME IInv, Close
  PROVE  IInv'
<1>0. /\ TypeOK /\ Loading /\ Submitting /\ SentForItsRow /\ OneWritePerDialog
      /\ open' = FALSE /\ UNCHANGED <<dialog, row, owner, own, isLoading, loads>>
      /\ writes' = (IF dialog.life = "mounted" THEN Detached ELSE writes)
      /\ isSubmitting' = (IF dialog.life = "mounted" THEN FALSE ELSE isSubmitting)
  BY DEF IInv, Close
<1>1. TypeOK'
  BY <1>0, Unheard DEF TypeOK
<1>2. Loading'
  BY <1>0 DEF Loading
<1>3. Submitting'
  BY <1>0 DEF Submitting
<1>4. SentForItsRow'
  BY <1>0, Unheard DEF SentForItsRow
<1>5. OneWritePerDialog'
  BY <1>0 DEF OneWritePerDialog
<1> QED BY <1>0, <1>1, <1>2, <1>3, <1>4, <1>5 DEF IInv, Fields

LEMMA ConfirmStep ==
  ASSUME IInv, NEW w \in Writes, Confirm(w)
  PROVE  IInv'
<1> DEFINE new == [row |-> row, owner |-> owner, own |-> own, attached |-> TRUE]
<1>0. /\ TypeOK /\ Loading /\ Submitting /\ SentForItsRow /\ OneWritePerDialog /\ Fields
      /\ open /\ row # None /\ (own => owner = row)
  BY DEF IInv, Confirm
<1>1. /\ ~isSubmitting /\ writes[w] = None /\ isSubmitting' = TRUE
      /\ UNCHANGED <<dialog, open, row, owner, own, isLoading, loads>>
  BY DEF Confirm
<1>2. writes' = [writes EXCEPT ![w] = new]
  BY DEF Confirm
<1>3. new \in Written /\ new # None
  BY <1>0, Recorded DEF TypeOK
<1>4. /\ new.row = row /\ new.owner = owner /\ new.own = own /\ new.attached = TRUE
  OBVIOUS
<1>5. \E x : /\ writes'[w] = x /\ x \in Written /\ x # None
             /\ x.row = row /\ x.owner = owner /\ x.own = own /\ x.attached = TRUE
  BY <1>0, <1>2, <1>3, <1>4 DEF TypeOK
<1>6. writes' \in [Writes -> Written \cup {None}]
      /\ \A v \in Writes : v # w => writes'[v] = writes[v]
  BY <1>0, <1>2, <1>3 DEF TypeOK
<1> HIDE DEF new
<1>7. TypeOK'
  BY <1>0, <1>1, <1>6 DEF TypeOK
<1>8. Loading'
  BY <1>0, <1>1 DEF Loading
<1>9. Submitting'
  BY <1>0, <1>1, <1>5, <1>6 DEF Submitting
<1>10. SentForItsRow'
  <2>1. writes'[w].own => writes'[w].owner = writes'[w].row
    BY <1>0, <1>5
  <2>2. dialog'.fill = "row" => writes'[w].own
    BY <1>0, <1>1, <1>5 DEF Fields
  <2> QED BY <1>0, <1>1, <1>6, <2>1, <2>2 DEF SentForItsRow
<1>11. OneWritePerDialog'
  BY <1>0, <1>1, <1>5, <1>6 DEF OneWritePerDialog
<1> QED BY <1>0, <1>1, <1>7, <1>8, <1>9, <1>10, <1>11 DEF IInv, Fields

LEMMA AnsweredStep ==
  ASSUME IInv, NEW w \in Writes, Answered(w)
  PROVE  IInv'
<1>0. /\ TypeOK /\ Loading /\ Submitting /\ SentForItsRow /\ OneWritePerDialog /\ Fields
      /\ (own => owner = row) /\ (open => row # None)
  BY DEF IInv
<1>1. /\ writes[w] # None /\ (open' => open) /\ open' \in BOOLEAN
      /\ isSubmitting' = (IF writes[w].attached THEN FALSE ELSE isSubmitting)
      /\ UNCHANGED <<dialog, row, owner, own, isLoading, loads>>
  <2>1. open' \in {FALSE, open} /\ open \in BOOLEAN
    BY <1>0 DEF Answered, TypeOK
  <2>2. open' = FALSE \/ open' = open
    BY <2>1
  <2>3. (open' => open) /\ open' \in BOOLEAN
    <3>1. CASE open' = FALSE
      BY <3>1
    <3>2. CASE open' = open
      BY <2>1, <3>2
    <3> QED BY <2>2, <3>1, <3>2
  <2>4. /\ writes[w] # None
        /\ isSubmitting' = (IF writes[w].attached THEN FALSE ELSE isSubmitting)
        /\ UNCHANGED <<dialog, row, owner, own, isLoading, loads>>
    BY DEF Answered
  <2> QED BY <2>3, <2>4
<1>2. /\ writes' \in [Writes -> Written \cup {None}] /\ writes'[w] = None
      /\ \A v \in Writes : v # w => writes'[v] = writes[v]
  <2>1. writes' = [writes EXCEPT ![w] = None] /\ writes \in [Writes -> Written \cup {None}]
    BY <1>0 DEF Answered, TypeOK
  <2> QED BY <2>1
<1>3. TypeOK'
  BY <1>0, <1>1, <1>2 DEF TypeOK
<1>4. Loading'
  BY <1>0, <1>1 DEF Loading
<1>5. Submitting'
  BY <1>0, <1>1, <1>2 DEF Submitting
<1>6. SentForItsRow'
  BY <1>0, <1>1, <1>2 DEF SentForItsRow
<1>7. OneWritePerDialog'
  BY <1>0, <1>1, <1>2 DEF OneWritePerDialog, Submitting
<1> QED BY <1>0, <1>1, <1>3, <1>4, <1>5, <1>6, <1>7 DEF IInv, Fields

LEMMA Step ==
  ASSUME IInv, [Next]_vars
  PROVE  IInv'
<1>1. CASE UNCHANGED vars
  <2>1. TypeOK' /\ Loading' /\ Submitting'
    BY <1>1 DEF vars, IInv, TypeOK, Loading, Submitting
  <2>2. SentForItsRow' /\ OneWritePerDialog'
    BY <1>1 DEF vars, IInv, SentForItsRow, OneWritePerDialog
  <2> QED BY <1>1, <2>1, <2>2 DEF vars, IInv, Fields
<1> QED BY <1>1, OpenStep, LoadStep, TypeStep, CloseStep, ConfirmStep, AnsweredStep DEF Next

LEMMA Consequences ==
  ASSUME IInv
  PROVE  DialogInv /\ SentForItsRow /\ OneWritePerDialog
BY DEF IInv, Fields, Loading, Submitting, DialogInv

LEMMA Inductive == Spec => []IInv
<1>1. Init => IInv
  BY Begin
<1>2. IInv /\ [Next]_vars => IInv'
  BY Step
<1> QED BY <1>1, <1>2, PTL DEF Spec

(* Fields filled since a dialog was opened are those of its row, and a     *)
(* skeleton or a disabled button has a request that ends it (the dialogs   *)
(* of frontend/src/components).                                            *)
THEOREM DialogInvariant == Spec => []DialogInv
BY Inductive, Consequences, PTL

(* What a dialog sends to a row was filled in for that row, but for the    *)
(* exceptions SentForItsRow names (the confirm handlers of the list pages). *)
THEOREM SentForTheRow == Spec => []SentForItsRow
BY Inductive, Consequences, PTL

(* A dialog that keeps its isSubmitting has one write under way at most,   *)
(* however often it is dismissed and opened again.                         *)
THEOREM OneWriteAtATime == Spec => []OneWritePerDialog
BY Inductive, Consequences, PTL

-----------------------------------------------------------------------------
(* The lists *)

(* Inductive: the three properties, and that the audit list, whose query is *)
(* always one the server serves, makes no writes.                          *)
ListIInv ==
  /\ ListInv
  /\ AskedWithinCap
  /\ view.capped => \A w \in WriteSlots : pending[w] = Nothing
  /\ Served(query)

LEMMA ListConstants ==
  /\ Cap \in Nat /\ Cap >= 1 /\ MaxRows \in Nat
  /\ \A z \in Sizes : z \in Nat /\ z >= 1
  /\ DefaultSize \in Sizes /\ LongSize \in Sizes
BY ListAssumption

LEMMA ListRecords ==
  /\ \A q \in Query, a, b \in BOOLEAN : [query |-> q, newest |-> a, after |-> b] \in Answer
  /\ \A q \in Query, n \in 0..(Cap + MaxRows + 1), b \in BOOLEAN :
        [query |-> q, total |-> n, after |-> b] \in Shown
  /\ \A s \in Refetch : s # Nothing
  /\ \A r \in Answer : /\ r # Nothing /\ r.query \in Query
                       /\ r.newest \in BOOLEAN /\ r.after \in BOOLEAN
  /\ \A r \in Shown : /\ r # Nothing /\ r.query \in Query /\ r.total \in Nat
                      /\ r.after \in BOOLEAN
BY ListAssumption DEF Answer, Shown

LEMMA SupersededRecords ==
  ASSUME NEW acked \in BOOLEAN
  PROVE  /\ Superseded(Nothing, acked) = Nothing /\ Older(Nothing, acked) = Nothing
         /\ \A r \in Answer : /\ Superseded(r, acked) \in Answer
                              /\ Superseded(r, acked).query = r.query
                              /\ Superseded(r, acked).newest = FALSE
         /\ \A r \in Shown : /\ Older(r, acked) \in Shown
                             /\ Older(r, acked).total = r.total
<1>1. ASSUME NEW r \in Answer
      PROVE  /\ Superseded(r, acked) \in Answer
             /\ Superseded(r, acked).query = r.query
             /\ Superseded(r, acked).newest = FALSE
  <2>1. r # Nothing
    BY ListRecords
  <2>2. PICK b \in BOOLEAN : b = (r.after /\ ~acked)
    OBVIOUS
  <2>3. Older(r, acked) = [r EXCEPT !.after = b]
    BY <2>1, <2>2 DEF Older, Answer
  <2>4. Superseded(r, acked) = [Older(r, acked) EXCEPT !.newest = FALSE]
    BY <2>1 DEF Superseded
  <2> QED BY <2>3, <2>4 DEF Answer
<1>2. ASSUME NEW r \in Shown
      PROVE  Older(r, acked) \in Shown /\ Older(r, acked).total = r.total
  <2>1. r # Nothing
    BY ListRecords
  <2>2. PICK b \in BOOLEAN : b = (r.after /\ ~acked)
    OBVIOUS
  <2>3. Older(r, acked) = [r EXCEPT !.after = b]
    BY <2>1, <2>2 DEF Older, Shown
  <2> QED BY <2>3 DEF Shown
<1> QED BY <1>1, <1>2 DEF Superseded, Older

LEMMA FirstQuery ==
  ASSUME NEW v \in Views
  PROVE  InitialQuery(v) \in Query /\ Skip(InitialQuery(v)) = 0
<1>1. v.size \in Sizes
  BY ListConstants DEF Views, UsersPage, RolesPage, PermissionsPage, AuditLogsPage,
                       UsersTrashPage, RolesTrashPage, PermissionsTrashPage
<1>2. 1 \in 1..(Cap + MaxRows + 1)
  BY ListConstants
<1>3. NoFilter \in Filters
  BY ListAssumption
<1>4. (1 - 1) * v.size = 0
  BY <1>1, ListConstants
<1> QED BY <1>1, <1>2, <1>3, <1>4 DEF InitialQuery, Query, Skip

LEMMA ListBegin == ListInit => ListIInv
<1> SUFFICES ASSUME ListInit PROVE ListIInv
  OBVIOUS
<1>1. InitialQuery(view) \in Query /\ Served(query)
  BY FirstQuery, ListConstants DEF ListInit, Served
<1>2. Mounted(view) \in Answer
  BY <1>1, ListRecords DEF Mounted
<1>3. PICK f \in Fetches : fetches = [g \in Fetches |-> IF g = f THEN Mounted(view) ELSE Nothing]
  BY DEF ListInit
<1>4. \A g \in Fetches : fetches[g] # Nothing => g = f /\ fetches[g] = Mounted(view)
  BY <1>3
<1>5. ListTypeOK
  BY <1>1, <1>2, <1>3 DEF ListInit, ListTypeOK
<1>6. ListInv
  <2>1. fetches[f] # Nothing /\ fetches[f] = Mounted(view)
    BY <1>2, <1>3, ListRecords
  <2>2. NewestOut
    BY <2>1 DEF NewestOut, Mounted
  <2> QED BY <1>4, <1>5, <2>1, <2>2 DEF ListInv, ListInit, Mounted
<1>7. AskedWithinCap
  BY <1>1, <1>4 DEF AskedWithinCap, Mounted, ListInit
<1> QED BY <1>1, <1>6, <1>7 DEF ListIInv, ListInit

(* fetchData, for a query the server serves. *)
LEMMA FetchKeeps ==
  ASSUME ListIInv, NEW q \in Query, NEW acked \in BOOLEAN, FetchData(q, acked),
         UNCHANGED view, query' \in Query, Served(q), Served(query)',
         pending' \in [WriteSlots -> Refetch \cup {Nothing}],
         view.capped => \A w \in WriteSlots : pending'[w] = Nothing
  PROVE  ListIInv'
<1>1. PICK f \in Fetches :
        /\ fetches[f] = Nothing
        /\ fetches' = [g \in Fetches |->
              IF g = f
              THEN [query |-> q, newest |-> TRUE, after |-> TRUE]
              ELSE Superseded(fetches[g], acked)]
  BY DEF FetchData
<1>2. fetches \in [Fetches -> Answer \cup {Nothing}]
  BY DEF ListIInv, ListInv, ListTypeOK
<1>3. /\ trouble' \subseteq {"outdated", "overtaken", "failed"}
      /\ q = query' \/ "outdated" \in trouble'
  BY DEF FetchData
<1>4. PICK r \in Answer : r = [query |-> q, newest |-> TRUE, after |-> TRUE]
  BY ListRecords
<1>5. /\ fetches'[f] = r /\ r # Nothing /\ r.newest
      /\ r.query = q /\ r.after /\ (q = query' \/ "outdated" \in trouble')
  BY <1>1, <1>3, <1>4, ListRecords
<1>6. ASSUME NEW g \in Fetches, g # f
      PROVE  /\ fetches'[g] \in Answer \cup {Nothing}
             /\ fetches'[g] # Nothing => /\ fetches[g] # Nothing
                                         /\ fetches'[g].newest = FALSE
                                         /\ fetches'[g].query = fetches[g].query
  <2>1. fetches'[g] = Superseded(fetches[g], acked)
    BY <1>1, <1>6
  <2>2. CASE fetches[g] = Nothing
    BY <2>1, <2>2, SupersededRecords
  <2>3. CASE fetches[g] \in Answer
    <3>1. PICK a \in Answer : a = fetches[g]
      BY <2>3
    <3>2. /\ Superseded(a, acked) \in Answer /\ Superseded(a, acked).query = a.query
          /\ Superseded(a, acked).newest = FALSE
      BY SupersededRecords
    <3>3. a # Nothing
      BY ListRecords
    <3> QED BY <2>1, <3>1, <3>2, <3>3
  <2> QED BY <1>2, <2>2, <2>3
<1>7. fetches' \in [Fetches -> Answer \cup {Nothing}]
  <2>1. \A g \in Fetches : fetches'[g] \in Answer \cup {Nothing}
    BY <1>5, <1>6
  <2>2. fetches' = [g \in Fetches |-> fetches'[g]]
    BY <1>1
  <2> HIDE <1>1
  <2> QED BY <2>1, <2>2
<1>8. items' # Nothing => /\ items # Nothing
                          /\ items' \in Shown /\ items'.total = items.total
  BY SupersededRecords DEF FetchData, ListIInv, ListInv, ListTypeOK
<1>9. ListTypeOK'
  <2>1. view \in Views /\ (items # Nothing => items.total \in Countable(view))
    BY DEF ListIInv, ListInv, ListTypeOK
  <2>2. loading' = TRUE
    BY DEF FetchData
  <2> QED BY <1>3, <1>7, <1>8, <2>1, <2>2 DEF ListTypeOK, Countable
<1>10. ListInv'
  <2>1. ASSUME NEW g \in Fetches, fetches'[g] # Nothing, fetches'[g].newest PROVE g = f
    BY <1>6, <2>1
  <2>2. NewestOut'
    BY <1>5 DEF NewestOut
  <2> QED BY <1>5, <1>9, <2>1, <2>2 DEF ListInv
<1>11. AskedWithinCap'
  <2> SUFFICES ASSUME NEW g \in Fetches, fetches'[g] # Nothing
               PROVE  ~view.capped \/ Skip(fetches'[g].query) < Cap
    BY DEF AskedWithinCap, Served, Skip
  <2>1. CASE g = f
    BY <1>5, <2>1 DEF Served
  <2>2. CASE g # f
    BY <1>6, <2>2 DEF ListIInv, AskedWithinCap, Served
  <2> QED BY <2>1, <2>2
<1> QED BY <1>8, <1>10, <1>11 DEF ListIInv

(* Rounding up to whole pages. *)
LEMMA PagesCover ==
  ASSUME NEW rows \in Nat, NEW size \in Nat, size >= 1
  PROVE  /\ (rows + size - 1) \div size \in Nat
         /\ (rows + size - 1) \div size <= rows
         /\ (rows + size - 1) \div size >= 1 =>
               ((rows + size - 1) \div size - 1) * size < rows
<1>1. PICK q \in Int : q = (rows + size - 1) \div size
  OBVIOUS
<1>2. q * size <= rows + size - 1 /\ rows + size - 1 < q * size + size
  BY <1>1
<1>3. q >= 0
  <2>1. SUFFICES ASSUME q <= -1 PROVE FALSE
    OBVIOUS
  <2>2. q * size <= -size
    BY <2>1
  <2>3. q * size \in Int
    OBVIOUS
  <2> QED BY <1>2, <2>2, <2>3
<1>4. (q - 1) * size = q * size - size /\ q * size \in Int
  OBVIOUS
<1>5. (q - 1) * size < rows
  BY <1>2, <1>4
<1>6. q <= rows
  <2>1. SUFFICES ASSUME q >= rows + 1 PROVE FALSE
    OBVIOUS
  <2>2. (q - 1) * size >= q - 1
    BY <2>1
  <2> QED BY <1>4, <1>5, <2>1, <2>2
<1> QED BY <1>1, <1>3, <1>5, <1>6

(* The pager: how far its buttons lead. *)
LEMMA PagerRange ==
  ASSUME ListIInv
  PROVE  /\ TotalPages \in 1..(Cap + MaxRows + 1)
         /\ view.capped => (TotalPages - 1) * query.size < Cap
<1> DEFINE countable == IF view.capped /\ Total > Cap THEN Cap ELSE Total
<1>1. /\ query.size \in Nat /\ query.size >= 1 /\ Cap \in Nat /\ Cap >= 1 /\ MaxRows \in Nat
  BY ListConstants DEF ListIInv, ListInv, ListTypeOK, Query
<1>2. countable \in Nat /\ countable <= Cap + MaxRows /\ (view.capped => countable <= Cap)
  <2>1. Total \in Countable(view) \/ Total = 0
    BY DEF Total, ListIInv, ListInv, ListTypeOK
  <2>2. /\ Total \in Nat
        /\ view.capped => Total <= Cap + 1
        /\ ~view.capped => Total <= MaxRows
    BY <1>1, <2>1 DEF Countable
  <2>3. CASE view.capped
    BY <1>1, <2>2, <2>3
  <2>4. CASE ~view.capped
    BY <1>1, <2>2, <2>4
  <2> QED BY <2>3, <2>4
<1>3. PICK rows \in Nat, size \in Nat : rows = countable /\ size = query.size /\ size >= 1
  BY <1>1, <1>2
<1>4. PICK pages \in Nat : /\ pages = (rows + size - 1) \div size
                           /\ pages <= rows
                           /\ pages >= 1 => (pages - 1) * size < rows
  BY <1>3, PagesCover
<1>5. TotalPages = IF pages < 1 THEN 1 ELSE pages
  BY <1>3, <1>4 DEF TotalPages
<1>6. TotalPages \in 1..(Cap + MaxRows + 1)
  <2>1. rows <= Cap + MaxRows /\ pages <= rows
    BY <1>2, <1>3, <1>4
  <2> HIDE DEF countable
  <2> QED BY <1>1, <1>5, <2>1
<1>7. ASSUME view.capped PROVE (TotalPages - 1) * query.size < Cap
  <2>1. CASE pages < 1
    <3>1. (1 - 1) * size = 0
      OBVIOUS
    <3> QED BY <1>1, <1>3, <1>5, <2>1, <3>1
  <2>2. CASE pages >= 1
    <3>1. (pages - 1) * size \in Int /\ (pages - 1) * size < rows /\ rows <= Cap
      BY <1>2, <1>3, <1>4, <1>7, <2>2
    <3> QED BY <1>1, <1>3, <1>5, <2>2, <3>1
  <2> QED BY <2>1, <2>2
<1> QED BY <1>6, <1>7

LEMMA AskKeeps ==
  ASSUME ListIInv, NEW q \in Query, Served(q), Ask(q)
  PROVE  ListIInv'
<1>1. /\ UNCHANGED <<view, pending>> /\ query' = q /\ FetchData(q, FALSE)
  BY DEF Ask
<1>2. Served(query)'
  BY <1>1 DEF Served, Skip
<1>3. pending' \in [WriteSlots -> Refetch \cup {Nothing}]
  BY <1>1 DEF ListIInv, ListInv, ListTypeOK
<1>4. view.capped => \A w \in WriteSlots : pending'[w] = Nothing
  BY <1>1 DEF ListIInv
<1> QED BY <1>1, <1>2, <1>3, <1>4, FetchKeeps

(* A page of the same list that is not beyond what the server skips to. *)
LEMMA PageServed ==
  ASSUME ListIInv, NEW p \in 1..(Cap + MaxRows + 1),
         view.capped => (p - 1) * query.size < Cap
  PROVE  [query EXCEPT !.page = p] \in Query /\ Served([query EXCEPT !.page = p])
BY DEF ListIInv, ListInv, ListTypeOK, Query, Served, Skip

LEMMA ChangeFilterKeeps ==
  ASSUME ListIInv, NEW s \in Filters, ChangeFilter(s)
  PROVE  ListIInv'
<1> DEFINE q == [query EXCEPT !.filter = s, !.page = 1]
<1>1. query \in Query /\ 1 \in 1..(Cap + MaxRows + 1)
  BY ListConstants DEF ListIInv, ListInv, ListTypeOK
<1>2. q \in Query /\ q.page = 1 /\ q.size = query.size
  BY <1>1 DEF Query
<1>3. (1 - 1) * query.size = 0
  BY <1>1, ListConstants DEF Query
<1>4. Served(q)
  BY <1>2, <1>3, ListConstants DEF Served, Skip
<1> QED BY <1>2, <1>4, AskKeeps DEF ChangeFilter

LEMMA PageSizeKeeps ==
  ASSUME ListIInv, NEW z \in Sizes, HandlePageSizeChange(z)
  PROVE  ListIInv'
<1> DEFINE q == [query EXCEPT !.size = z, !.page = 1]
<1>1. query \in Query /\ 1 \in 1..(Cap + MaxRows + 1)
  BY ListConstants DEF ListIInv, ListInv, ListTypeOK
<1>2. q \in Query /\ q.page = 1 /\ q.size = z
  BY <1>1 DEF Query
<1>3. (1 - 1) * z = 0
  BY ListConstants
<1>4. Served(q)
  BY <1>2, <1>3, ListConstants DEF Served, Skip
<1> QED BY <1>2, <1>4, AskKeeps DEF HandlePageSizeChange

LEMMA OnPageChangeKeeps ==
  ASSUME ListIInv, OnPageChange
  PROVE  ListIInv'
<1>1. /\ query.page \in 1..(Cap + MaxRows + 1) /\ query.size \in Nat /\ query.size >= 1
      /\ Cap \in Nat /\ Cap >= 1 /\ MaxRows \in Nat
  BY ListConstants DEF ListIInv, ListInv, ListTypeOK, Query
<1>2. /\ TotalPages \in 1..(Cap + MaxRows + 1)
      /\ view.capped => (TotalPages - 1) * query.size < Cap
  BY PagerRange
<1>3. PICK p : /\ Ask([query EXCEPT !.page = p])
               /\ \/ query.page > 1 /\ p \in {1, query.page - 1}
                  \/ query.page < TotalPages /\ p \in {query.page + 1, TotalPages}
  BY DEF OnPageChange
<1>4. p \in 1..(Cap + MaxRows + 1) /\ (p <= query.page \/ p <= TotalPages)
  BY <1>1, <1>2, <1>3
<1>5. ASSUME view.capped PROVE (p - 1) * query.size < Cap
  <2>1. (query.page - 1) * query.size < Cap
    BY <1>5 DEF ListIInv, Served, Skip
  <2>2. PICK m \in Nat : p - 1 <= m /\ m * query.size < Cap
    BY <1>1, <1>2, <1>4, <1>5, <2>1
  <2>3. (p - 1) * query.size <= m * query.size
    BY <1>1, <1>4, <2>2
  <2>4. (p - 1) * query.size \in Int /\ m * query.size \in Int
    BY <1>1, <1>4
  <2> QED BY <1>1, <2>2, <2>3, <2>4
<1> QED BY <1>3, <1>4, <1>5, PageServed, AskKeeps

LEMMA AnsweredKeeps ==
  ASSUME ListIInv, NEW f \in Fetches, FetchAnswered(f)
  PROVE  ListIInv'
<1>1. /\ UNCHANGED <<view, query, pending>> /\ loading' = FALSE
      /\ fetches[f] # Nothing /\ fetches' = [fetches EXCEPT ![f] = Nothing]
  BY DEF FetchAnswered
<1>2. fetches \in [Fetches -> Answer \cup {Nothing}] /\ fetches[f] \in Answer
  BY <1>1 DEF ListIInv, ListInv, ListTypeOK
<1>3. PICK n \in Countable(view) :
        items' = [query |-> fetches[f].query, total |-> n, after |-> fetches[f].after]
  BY DEF FetchAnswered
<1>4. n \in 0..(Cap + MaxRows + 1)
  BY ListConstants DEF Countable
<1>5. /\ items' \in Shown /\ items'.total = n
      /\ items'.query = fetches[f].query /\ items'.after = fetches[f].after
  BY <1>2, <1>3, <1>4, ListRecords
<1>6. /\ fetches' \in [Fetches -> Answer \cup {Nothing}] /\ fetches'[f] = Nothing
      /\ \A g \in Fetches \ {f} : fetches'[g] = fetches[g]
  BY <1>1, <1>2
<1>7. ListTypeOK'
  <2>1. trouble' \subseteq {"outdated", "overtaken", "failed"}
    BY DEF FetchAnswered, ListIInv, ListInv, ListTypeOK
  <2> QED BY <1>1, <1>5, <1>6, <2>1 DEF ListIInv, ListInv, ListTypeOK, Countable
<1>8. ListInv'
  <2>1. "outdated" \in trouble => "outdated" \in trouble'
    BY DEF FetchAnswered
  <2>2. \A g \in Fetches : fetches'[g] # Nothing /\ fetches'[g].newest =>
          /\ fetches'[g].after /\ (fetches'[g].query = query' \/ "outdated" \in trouble')
          /\ \A h \in Fetches \ {g} : fetches'[h] # Nothing => ~fetches'[h].newest
    BY <1>1, <1>6, <2>1 DEF ListIInv, ListInv
  <2>3. ASSUME ~NewestOut', trouble' = {} PROVE Current'
    <3>1. NewestOut /\ trouble = {}
      BY <2>3 DEF FetchAnswered
    <3>2. PICK g \in Fetches : fetches[g] # Nothing /\ fetches[g].newest
      BY <3>1 DEF NewestOut
    <3>3. g = f
      BY <1>6, <2>3, <3>2 DEF NewestOut
    <3>4. fetches[f].after /\ fetches[f].query = query
      BY <3>1, <3>2, <3>3 DEF ListIInv, ListInv
    <3>5. items' # Nothing
      BY <1>5, ListRecords
    <3> QED BY <1>1, <1>5, <3>4, <3>5 DEF Current
  <2> QED BY <1>1, <1>7, <2>2, <2>3 DEF ListInv
<1>9. AskedWithinCap'
  BY <1>1, <1>6 DEF ListIInv, AskedWithinCap, Served, Skip
<1> QED BY <1>1, <1>8, <1>9 DEF ListIInv, Served, Skip

LEMMA FetchFailedKeeps ==
  ASSUME ListIInv, NEW f \in Fetches, FetchFailed(f)
  PROVE  ListIInv'
<1>1. /\ UNCHANGED <<view, query, items, pending>> /\ loading' = FALSE
      /\ fetches' = [fetches EXCEPT ![f] = Nothing]
  BY DEF FetchFailed
<1>2. fetches \in [Fetches -> Answer \cup {Nothing}]
  BY DEF ListIInv, ListInv, ListTypeOK
<1>3. /\ fetches' \in [Fetches -> Answer \cup {Nothing}] /\ fetches'[f] = Nothing
      /\ \A g \in Fetches \ {f} : fetches'[g] = fetches[g]
  BY <1>1, <1>2
<1>4. ListTypeOK'
  <2>1. trouble' \subseteq {"outdated", "overtaken", "failed"}
    BY DEF FetchFailed, FailureNoted, ListIInv, ListInv, ListTypeOK
  <2> QED BY <1>1, <1>3, <2>1 DEF ListIInv, ListInv, ListTypeOK, Countable
<1>5. ListInv'
  <2>1. trouble \subseteq trouble' /\ (fetches[f].newest => trouble' # {})
    BY DEF FetchFailed, FailureNoted
  <2>2. \A g \in Fetches : fetches'[g] # Nothing /\ fetches'[g].newest =>
          /\ fetches'[g].after /\ (fetches'[g].query = query' \/ "outdated" \in trouble')
          /\ \A h \in Fetches \ {g} : fetches'[h] # Nothing => ~fetches'[h].newest
    BY <1>1, <1>3, <2>1 DEF ListIInv, ListInv
  <2>3. ASSUME ~NewestOut', trouble' = {} PROVE Current'
    <3>1. ~NewestOut /\ trouble = {}
      BY <1>3, <2>1, <2>3 DEF NewestOut
    <3>2. Current
      BY <3>1 DEF ListIInv, ListInv
    <3> QED BY <1>1, <3>2 DEF Current
  <2> QED BY <1>1, <1>4, <2>2, <2>3 DEF ListInv
<1>6. AskedWithinCap'
  BY <1>1, <1>3 DEF ListIInv, AskedWithinCap, Served, Skip
<1> QED BY <1>1, <1>5, <1>6 DEF ListIInv, Served, Skip

(* A write that starts, is refused or asks for no list touches nothing but *)
(* its slot.                                                               *)
LEMMA PendingKeeps ==
  ASSUME ListIInv, UNCHANGED <<view, query, items, loading, fetches, trouble>>,
         pending' \in [WriteSlots -> Refetch \cup {Nothing}],
         view.capped => \A w \in WriteSlots : pending'[w] = Nothing
  PROVE  ListIInv'
<1>1. ListInv'
  BY DEF ListIInv, ListInv, ListTypeOK, Countable, NewestOut, Current
<1>2. AskedWithinCap' /\ Served(query)'
  BY DEF ListIInv, AskedWithinCap, Served, Skip
<1> QED BY <1>1, <1>2 DEF ListIInv

LEMMA WriteKeeps ==
  ASSUME ListIInv, NEW w \in WriteSlots, NEW c \in {"render", "mount", "none"}, Write(w, c)
  PROVE  ListIInv'
<1>1. view \in Views /\ query \in Query /\ pending \in [WriteSlots -> Refetch \cup {Nothing}]
  BY DEF ListIInv, ListInv, ListTypeOK
<1>2. PICK s \in Refetch : pending' = [pending EXCEPT ![w] = s]
  <2>1. InitialQuery(view) \in Query
    BY <1>1, FirstQuery
  <2>2. {query} \in Refetch /\ {InitialQuery(view)} \in Refetch /\ {} \in Refetch
    BY <1>1, <2>1 DEF Refetch
  <2> QED BY <2>2 DEF Write
<1>3. ~view.capped
  BY <1>1 DEF Write, Views, UsersPage, RolesPage, PermissionsPage, AuditLogsPage,
                    UsersTrashPage, RolesTrashPage, PermissionsTrashPage
<1>4. pending' \in [WriteSlots -> Refetch \cup {Nothing}]
  BY <1>1, <1>2
<1> QED BY <1>3, <1>4, PendingKeeps DEF Write

LEMMA AcknowledgedKeeps ==
  ASSUME ListIInv, NEW w \in WriteSlots, WriteAcknowledged(w)
  PROVE  ListIInv'
<1>1. PICK q \in pending[w] :
        /\ pending[w] # Nothing /\ UNCHANGED <<view, query>>
        /\ FetchData(q, TRUE) /\ pending' = [pending EXCEPT ![w] = Nothing]
  BY DEF WriteAcknowledged
<1>2. pending \in [WriteSlots -> Refetch \cup {Nothing}] /\ query \in Query
  BY DEF ListIInv, ListInv, ListTypeOK
<1>3. q \in Query /\ pending' \in [WriteSlots -> Refetch \cup {Nothing}]
  BY <1>1, <1>2 DEF Refetch
<1>4. ~view.capped
  BY <1>1 DEF ListIInv
<1>5. Served(q) /\ Served(query)'
  BY <1>1, <1>4 DEF Served
<1> QED BY <1>1, <1>2, <1>3, <1>4, <1>5, FetchKeeps

LEMMA RefusedKeeps ==
  ASSUME ListIInv, NEW w \in WriteSlots, WriteRefused(w) \/ ResetAcknowledged(w)
  PROVE  ListIInv'
<1>1. pending \in [WriteSlots -> Refetch \cup {Nothing}]
  BY DEF ListIInv, ListInv, ListTypeOK
<1>2. /\ pending' \in [WriteSlots -> Refetch \cup {Nothing}]
      /\ view.capped => \A v \in WriteSlots : pending'[v] = Nothing
  BY <1>1 DEF WriteRefused, ResetAcknowledged, ListIInv
<1> QED BY <1>2, PendingKeeps DEF WriteRefused, ResetAcknowledged

LEMMA LeaveKeeps ==
  ASSUME NEW v \in Views, Leave(v)
  PROVE  ListIInv'
<1>1. ListInit'
  BY DEF Leave, ListInit, InitialQuery, Mounted
<1>2. ListIInv'
  BY <1>1, ListBegin, PTL
<1> QED BY <1>2

LEMMA ListStep ==
  ASSUME ListIInv, [ListNext]_listVars
  PROVE  ListIInv'
<1>1. CASE UNCHANGED listVars
  <2>1. UNCHANGED <<view, query, items, loading, fetches, pending, trouble>>
    BY <1>1 DEF listVars
  <2>2. pending' \in [WriteSlots -> Refetch \cup {Nothing}]
    BY <2>1 DEF ListIInv, ListInv, ListTypeOK
  <2>3. view.capped => \A w \in WriteSlots : pending'[w] = Nothing
    BY <2>1 DEF ListIInv
  <2> QED BY <2>1, <2>2, <2>3, PendingKeeps
<1> QED BY <1>1, AnsweredKeeps, FetchFailedKeeps, ChangeFilterKeeps, PageSizeKeeps,
           OnPageChangeKeeps, WriteKeeps, AcknowledgedKeeps, RefusedKeeps, LeaveKeeps
        DEF ListNext

LEMMA ListInductive == ListSpec => []ListIInv
<1>1. ListInit => ListIInv
  BY ListBegin
<1>2. ListIInv /\ [ListNext]_listVars => ListIInv'
  BY ListStep
<1> QED BY <1>1, <1>2, PTL DEF ListSpec

(* The skeleton of usePaginatedQuery never outlives its requests, one of   *)
(* which at most is the newest; its answer makes the list current.         *)
THEOREM ListInvariant == ListSpec => []ListInv
<1>1. ListIInv => ListInv
  BY DEF ListIInv
<1> QED BY <1>1, ListInductive, PTL

(* What a list page shows once nothing is under way belongs to its controls *)
(* and was read after every write that changes the list, unless something   *)
(* named happened to the newest request.                                    *)
THEOREM ListShowsCurrent == ListSpec => []ShownIsCurrent
<1>1. ListIInv => ShownIsCurrent
  BY DEF ListIInv, ListInv, ShownIsCurrent, NewestOut
<1> QED BY <1>1, ListInductive, PTL

(* Whatever the page sizes, the counts and the cap, the pager of the audit *)
(* list never asks the server to skip as many rows as the cap.             *)
THEOREM PagerStaysWithinCap == ListSpec => []AskedWithinCap
<1>1. ListIInv => AskedWithinCap
  BY DEF ListIInv
<1> QED BY <1>1, ListInductive, PTL

=============================================================================
