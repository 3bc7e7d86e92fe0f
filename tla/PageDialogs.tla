----------------------------- MODULE PageDialogs -----------------------------
(***************************************************************************)
(* The dialogs of the list pages under frontend/src/components: what a     *)
(* dialog shows when it is opened for a row, what it sends, and what the   *)
(* answer does to the dialog, which may meanwhile be closed or open for    *)
(* another row.  Cancel waits for the answer; Escape, the close button and *)
(* the backdrop do not.  Dialogs are modal and share nothing, so a         *)
(* behaviour follows one of them.                                          *)
(***************************************************************************)
EXTENDS Integers

CONSTANTS
    Rows,      \* rows a dialog can be opened for; one of them may be "new"
    Loads,     \* bound: loads under way
    Writes,    \* bound: writes under way
    None

\* A load and a write under way.
Loaded == [row : Rows, newest : BOOLEAN]
Written == [row : Rows, owner : Rows \cup {None}, own : BOOLEAN, attached : BOOLEAN]

ASSUME DialogAssumption ==
    None \notin Rows /\ None \notin Loaded /\ None \notin Written

VARIABLES
    dialog,       \* the component
    open,
    row,          \* the row the page has set: editingUser, assignRole, target...
    owner,        \* the row the fields or the selection come from
    own,          \* they were filled since the dialog was opened
    isLoading,
    isSubmitting,
    loads,        \* loads without an answer
    writes        \* writes without an answer

vars == <<dialog, open, row, owner, own, isLoading, isSubmitting, loads, writes>>

\* fill: where the fields come from.  "row": set from the row by the first render
\* or by an effect on open and row; "load": set by the answer of a request the
\* effect makes; "typed": by the user alone; "none": there are no fields.
\* life: what an opening does to the component's state.  "mounted": it is new,
\* with a component inside the popup; "reset": form.reset, isSubmitting
\* included; "kept": it stays as it is.
CreateUserForm == [fill |-> "row", life |-> "mounted", loads |-> FALSE]
EditUserForm == [fill |-> "row", life |-> "mounted", loads |-> FALSE]
RoleFormDialog == [fill |-> "row", life |-> "reset", loads |-> FALSE]
PermissionFormDialog == [fill |-> "row", life |-> "reset", loads |-> FALSE]
AssignRolesDialog == [fill |-> "row", life |-> "kept", loads |-> TRUE]
AssignPermissionsDialog == [fill |-> "load", life |-> "kept", loads |-> TRUE]
ResetPasswordDialog == [fill |-> "typed", life |-> "kept", loads |-> FALSE]
ConfirmDialog == [fill |-> "none", life |-> "kept", loads |-> FALSE]

Dialogs == {CreateUserForm, EditUserForm, RoleFormDialog, PermissionFormDialog,
            AssignRolesDialog, AssignPermissionsDialog, ResetPasswordDialog,
            ConfirmDialog}

Init ==
    /\ dialog \in Dialogs
    /\ open = FALSE /\ row = None /\ owner = None /\ own = FALSE
    /\ isLoading = FALSE /\ isSubmitting = FALSE
    /\ loads = [l \in Loads |-> None]
    /\ writes = [w \in Writes |-> None]

-----------------------------------------------------------------------------
\* Opening and filling

\* The effect on open and row asks for what the dialog offers; the pages of
\* fetchAllRoles, and the two requests of Promise.all, are one load.
Load(r) ==
    IF dialog.loads
    THEN /\ isLoading' = TRUE
         /\ \E l \in Loads :
               /\ loads[l] = None
               /\ loads' = [k \in Loads |->
                     IF k = l THEN [row |-> r, newest |-> TRUE]
                     ELSE IF loads[k] = None THEN None
                     ELSE [loads[k] EXCEPT !.newest = FALSE]]
    ELSE UNCHANGED <<isLoading, loads>>

\* Writes of a component that is gone no longer reach it.
Detached == [w \in Writes |-> IF writes[w] = None THEN None
                              ELSE [writes[w] EXCEPT !.attached = FALSE]]

\* mutant: default values only, no effect that resets the fields
OpenWithDefaults(r) ==
    /\ ~open /\ open' = TRUE
    /\ row' = r
    /\ IF dialog.fill = "row"
       THEN owner' = (IF owner = None THEN r ELSE owner) /\ own' = TRUE
       ELSE own' = FALSE /\ UNCHANGED owner
    /\ Load(r)
    /\ isSubmitting' = IF dialog.life = "kept" THEN isSubmitting ELSE FALSE
    /\ writes' = IF dialog.life = "mounted" THEN Detached ELSE writes
    /\ UNCHANGED dialog

\* handleCreate, handleEdit, handleAssignRoles and the like.
Open(r) ==
    /\ ~open /\ open' = TRUE
    /\ row' = r
    /\ IF dialog.fill = "row"
       THEN owner' = r /\ own' = TRUE
       ELSE own' = FALSE /\ UNCHANGED owner
    /\ Load(r)
    /\ isSubmitting' = IF dialog.life = "kept" THEN isSubmitting ELSE FALSE
    /\ writes' = IF dialog.life = "mounted" THEN Detached ELSE writes
    /\ UNCHANGED dialog

\* The permissions of a role become the selection, whichever role is shown by
\* now; the roles a user may get are only the list to choose from.
LoadAnswered(l) ==
    /\ loads[l] # None
    /\ isLoading' = FALSE
    /\ IF dialog.fill = "load"
       THEN owner' = loads[l].row /\ own' = loads[l].newest
       ELSE UNCHANGED <<owner, own>>
    /\ loads' = [loads EXCEPT ![l] = None]
    /\ UNCHANGED <<dialog, open, row, isSubmitting, writes>>

\* mutant: setIsLoading(false) is not in a finally
FailedWithoutFinally(l) ==
    /\ loads[l] # None
    /\ loads' = [loads EXCEPT ![l] = None]
    /\ UNCHANGED <<dialog, open, row, owner, own, isLoading, isSubmitting, writes>>

LoadFailed(l) ==
    /\ loads[l] # None
    /\ isLoading' = FALSE
    /\ loads' = [loads EXCEPT ![l] = None]
    /\ UNCHANGED <<dialog, open, row, owner, own, isSubmitting, writes>>

\* A password is typed; the field keeps it until it is typed over.
Type ==
    /\ open /\ dialog.fill = "typed"
    /\ owner' = row /\ own' = TRUE
    /\ UNCHANGED <<dialog, open, row, isLoading, isSubmitting, loads, writes>>

-----------------------------------------------------------------------------
\* Submitting and closing

\* An empty password is not sent.  A selection is, loaded or not.
Confirm(w) ==
    /\ open /\ ~isSubmitting /\ writes[w] = None
    /\ dialog.fill = "typed" => owner # None
    /\ isSubmitting' = TRUE
    /\ writes' = [writes EXCEPT ![w] =
          [row |-> row, owner |-> owner, own |-> own, attached |-> TRUE]]
    /\ UNCHANGED <<dialog, open, row, owner, own, isLoading, loads>>

\* Success closes what is open by now; failure leaves it open.
Answered(w) ==
    /\ writes[w] # None
    /\ isSubmitting' = IF writes[w].attached THEN FALSE ELSE isSubmitting
    /\ open' \in {FALSE, open}
    /\ writes' = [writes EXCEPT ![w] = None]
    /\ UNCHANGED <<dialog, row, owner, own, isLoading, loads>>

\* mutant: closing enables the button again
CloseAndEnable ==
    /\ open /\ open' = FALSE
    /\ isSubmitting' = FALSE
    /\ writes' = IF dialog.life = "mounted" THEN Detached ELSE writes
    /\ UNCHANGED <<dialog, row, owner, own, isLoading, loads>>

\* Escape, the close button, the backdrop; or Cancel, when it is enabled.
Close ==
    /\ open /\ open' = FALSE
    /\ writes' = IF dialog.life = "mounted" THEN Detached ELSE writes
    /\ isSubmitting' = IF dialog.life = "mounted" THEN FALSE ELSE isSubmitting
    /\ UNCHANGED <<dialog, row, owner, own, isLoading, loads>>

Next ==
    \/ \E r \in Rows : Open(r)
    \/ \E l \in Loads : LoadAnswered(l) \/ LoadFailed(l)
    \/ Type \/ Close
    \/ \E w \in Writes : Confirm(w) \/ Answered(w)

Spec == Init /\ [][Next]_vars

-----------------------------------------------------------------------------
TypeOK ==
    /\ dialog \in Dialogs /\ open \in BOOLEAN
    /\ row \in Rows \cup {None} /\ owner \in Rows \cup {None} /\ own \in BOOLEAN
    /\ isLoading \in BOOLEAN /\ isSubmitting \in BOOLEAN
    /\ loads \in [Loads -> Loaded \cup {None}]
    /\ writes \in [Writes -> Written \cup {None}]

\* Fields filled since the dialog was opened are those of the row it was opened
\* for, whatever late answer arrives; a skeleton or a disabled button always
\* has a request that will end it.
DialogInv ==
    /\ TypeOK
    /\ own => owner = row
    /\ open => row # None
    /\ dialog.fill = "row" /\ open => own
    /\ \A l \in Loads : loads[l] # None /\ loads[l].newest => loads[l].row = row
    /\ isLoading => \E l \in Loads : loads[l] # None
    /\ isSubmitting => \E w \in Writes : writes[w] # None /\ writes[w].attached

\* What a dialog sends to a row was filled in for that row.  The exceptions are
\* those of the code: a selection confirmed before, or overwritten after, the
\* answer of its own load, and a password left from an earlier opening.
SentForItsRow ==
    \A w \in Writes : writes[w] # None =>
        /\ writes[w].own => writes[w].owner = writes[w].row
        /\ dialog.fill = "row" => writes[w].own

\* However often it is dismissed and opened again, for this row or another, a dialog
\* that keeps its isSubmitting has one write under way at most, and offers
\* nothing to click until that write is answered.
OneWritePerDialog ==
    dialog.life = "kept" =>
        /\ \A v, w \in Writes : writes[v] # None /\ writes[w] # None => v = w
        /\ isSubmitting <=> \E w \in Writes : writes[w] # None

=============================================================================
