------------------------------ MODULE ListPage ------------------------------
(***************************************************************************)
(* A list page of the console: usePaginatedQuery, Pagination and DataTable *)
(* as the pages under frontend/src/pages use them, with the writes a page  *)
(* makes and the refetch that follows those which change the list.         *)
(* Answers come back in any order.  Rows are not modelled; what matters of *)
(* an answer is the query it answers and whether it was asked after the    *)
(* last such write was acknowledged.                                       *)
(***************************************************************************)
EXTENDS Integers

CONSTANTS
    Filters,   \* values of the search box and of the selects together
    NoFilter,  \* the empty search and "all"
    Sizes,     \* PAGE_SIZE_OPTIONS
    DefaultSize, LongSize,   \* initialPageSize, of most pages and of the rest
    Cap,       \* AUDIT_COUNT_CAP, CRUDAuditLog.count_cap
    MaxRows,   \* bound: rows the server counts, where it counts them all
    Fetches,   \* bound: list requests under way
    WriteSlots,  \* bound: writes under way
    Nothing

Query == [filter : Filters, page : 1..(Cap + MaxRows + 1), size : Sizes]

\* newest: nothing was asked since; after: asked after the last acknowledged
\* write that changes the list.
Answer == [query : Query, newest : BOOLEAN, after : BOOLEAN]
Shown == [query : Query, total : 0..(Cap + MaxRows + 1), after : BOOLEAN]

\* The queries a write asks the list with when it is acknowledged: one or none.
Refetch == {{q} : q \in Query} \cup {{}}

ASSUME ListAssumption ==
    /\ NoFilter \in Filters
    /\ Sizes \subseteq Nat \ {0} /\ {DefaultSize, LongSize} \subseteq Sizes
    /\ Cap \in Nat \ {0} /\ MaxRows \in Nat
    /\ Nothing \notin Answer \cup Shown \cup Refetch

VARIABLES
    view,      \* what distinguishes the page that is mounted
    query,     \* search and selects, page, pageSize
    items,     \* the answer on display, with its total
    loading,   \* isLoading
    fetches,   \* requests for the list without an answer
    pending,   \* writes without an answer: what refetch will ask
    trouble    \* history: what went wrong since the newest request was made

listVars == <<view, query, items, loading, fetches, pending, trouble>>

\* "render": the write is made by a closure of the current render, so that its
\* refetch asks for what the page shows at the click.  "mount": by a closure
\* of the first render, which useMemo with no dependencies has kept.  "none":
\* no refetch, as after the reset of a password, which no column shows.
UsersPage == [size |-> DefaultSize, capped |-> FALSE, closures |-> {"render", "none"}]
RolesPage == [size |-> DefaultSize, capped |-> FALSE, closures |-> {"render"}]
PermissionsPage == [size |-> LongSize, capped |-> FALSE, closures |-> {"render"}]
AuditLogsPage == [size |-> LongSize, capped |-> TRUE, closures |-> {}]
UsersTrashPage == [size |-> DefaultSize, capped |-> FALSE, closures |-> {"render", "mount"}]
RolesTrashPage == [size |-> DefaultSize, capped |-> FALSE, closures |-> {"render", "mount"}]
PermissionsTrashPage ==
    [size |-> DefaultSize, capped |-> FALSE, closures |-> {"render", "mount"}]

Views == {UsersPage, RolesPage, PermissionsPage, AuditLogsPage, UsersTrashPage,
          RolesTrashPage, PermissionsTrashPage}

InitialQuery(v) == [filter |-> NoFilter, page |-> 1, size |-> v.size]

\* The first render, and the effect that asks for its list.
Mounted(v) == [query |-> InitialQuery(v), newest |-> TRUE, after |-> TRUE]

ListInit ==
    /\ view \in Views
    /\ query = InitialQuery(view)
    /\ items = Nothing
    /\ loading = TRUE
    /\ \E f \in Fetches :
          fetches = [g \in Fetches |-> IF g = f THEN Mounted(view) ELSE Nothing]
    /\ pending = [w \in WriteSlots |-> Nothing]
    /\ trouble = {}

Total == IF items = Nothing THEN 0 ELSE items.total

-----------------------------------------------------------------------------
\* Asking and answering

\* An acknowledged write leaves what was asked before it behind.
Older(r, acked) == IF r = Nothing THEN Nothing ELSE [r EXCEPT !.after = @ /\ ~acked]

Superseded(r, acked) ==
    IF r = Nothing THEN Nothing ELSE [Older(r, acked) EXCEPT !.newest = FALSE]

NewestOut == \E f \in Fetches : fetches[f] # Nothing /\ fetches[f].newest

\* fetchData with query q, which is that of the page or an older one.
FetchData(q, acked) ==
    /\ loading' = TRUE
    /\ items' = Older(items, acked)
    /\ trouble' = IF q = query' THEN {} ELSE {"outdated"}
    /\ \E f \in Fetches :
          /\ fetches[f] = Nothing
          /\ fetches' = [g \in Fetches |->
                IF g = f
                THEN [query |-> q, newest |-> TRUE, after |-> TRUE]
                ELSE Superseded(fetches[g], acked)]

\* The server counts at most one row more than the cap, and refuses to skip as
\* many as the cap.
Countable(v) == 0..(IF v.capped THEN Cap + 1 ELSE MaxRows)
Skip(q) == (q.page - 1) * q.size
Served(q) == ~view.capped \/ Skip(q) < Cap

FetchAnswered(f) ==
    /\ fetches[f] # Nothing /\ Served(fetches[f].query)
    /\ \E n \in Countable(view) :
          items' = [query |-> fetches[f].query, total |-> n, after |-> fetches[f].after]
    /\ trouble' = IF NewestOut THEN trouble ELSE trouble \cup {"overtaken"}
    /\ loading' = FALSE
    /\ fetches' = [fetches EXCEPT ![f] = Nothing]
    /\ UNCHANGED <<view, query, pending>>

FailureNoted(f) ==
    trouble' = IF fetches[f].newest THEN trouble \cup {"failed"} ELSE trouble

\* mutant: setIsLoading(false) is not in a finally
FetchFailedWithoutFinally(f) ==
    /\ fetches[f] # Nothing
    /\ fetches' = [fetches EXCEPT ![f] = Nothing]
    /\ FailureNoted(f)
    /\ UNCHANGED <<view, query, items, loading, pending>>

\* A refusal or no answer within the timeout: a toast, and what was shown stays.
FetchFailed(f) ==
    /\ fetches[f] # Nothing
    /\ loading' = FALSE
    /\ fetches' = [fetches EXCEPT ![f] = Nothing]
    /\ FailureNoted(f)
    /\ UNCHANGED <<view, query, items, pending>>

-----------------------------------------------------------------------------
\* What changes the query, each followed by the effect on fetchData

Ask(q) ==
    /\ q # query
    /\ query' = q
    /\ FetchData(q, FALSE)
    /\ UNCHANGED <<view, pending>>

ChangeFilter(s) == Ask([query EXCEPT !.filter = s, !.page = 1])

\* mutant: the page is kept when the size changes
ResizeInPlace(size) == Ask([query EXCEPT !.size = size])

HandlePageSizeChange(size) == Ask([query EXCEPT !.size = size, !.page = 1])

TotalPages ==
    LET countable == IF view.capped /\ Total > Cap THEN Cap ELSE Total
        pages == (countable + query.size - 1) \div query.size
    IN  IF pages < 1 THEN 1 ELSE pages

\* The four buttons, where they are not disabled.
OnPageChange ==
    \/ /\ query.page > 1
       /\ \E p \in {1, query.page - 1} : Ask([query EXCEPT !.page = p])
    \/ /\ query.page < TotalPages
       /\ \E p \in {query.page + 1, TotalPages} : Ask([query EXCEPT !.page = p])

-----------------------------------------------------------------------------
\* Writes and the refetch after each

\* A click on a row that is displayed, or the confirmation of an open dialog.
Write(w, closure) ==
    /\ closure \in view.closures /\ pending[w] = Nothing
    /\ closure = "mount" => ~loading /\ Total > 0
    /\ pending' = [pending EXCEPT ![w] =
          CASE closure = "render" -> {query}
            [] closure = "mount"  -> {InitialQuery(view)}
            [] closure = "none"   -> {}]
    /\ UNCHANGED <<view, query, items, loading, fetches, trouble>>

\* mutant: no refetch after a write that changes the list
AcknowledgedOnly(w) ==
    /\ pending[w] # Nothing /\ pending[w] # {}
    /\ pending' = [pending EXCEPT ![w] = Nothing]
    /\ items' = Older(items, TRUE)
    /\ fetches' = [f \in Fetches |-> Older(fetches[f], TRUE)]
    /\ UNCHANGED <<view, query, loading, trouble>>

WriteAcknowledged(w) ==
    /\ pending[w] # Nothing
    /\ UNCHANGED <<view, query>>
    /\ \E q \in pending[w] : FetchData(q, TRUE)
    /\ pending' = [pending EXCEPT ![w] = Nothing]

\* handleResetPasswordConfirm: the dialog closes, the list is left as it is.
ResetAcknowledged(w) ==
    /\ pending[w] = {}
    /\ pending' = [pending EXCEPT ![w] = Nothing]
    /\ UNCHANGED <<view, query, items, loading, fetches, trouble>>

WriteRefused(w) ==
    /\ pending[w] # Nothing
    /\ pending' = [pending EXCEPT ![w] = Nothing]
    /\ UNCHANGED <<view, query, items, loading, fetches, trouble>>

\* Navigation mounts another page; what is under way no longer reaches the screen.
Leave(v) ==
    /\ view' = v /\ query' = InitialQuery(v)
    /\ items' = Nothing /\ loading' = TRUE
    /\ \E f \in Fetches :
          fetches' = [g \in Fetches |-> IF g = f THEN Mounted(v) ELSE Nothing]
    /\ pending' = [w \in WriteSlots |-> Nothing]
    /\ trouble' = {}

ListNext ==
    \/ \E f \in Fetches : FetchAnswered(f) \/ FetchFailed(f)
    \/ \E s \in Filters : ChangeFilter(s)
    \/ \E z \in Sizes : HandlePageSizeChange(z)
    \/ OnPageChange
    \/ \E w \in WriteSlots :
          \/ \E c \in {"render", "mount", "none"} : Write(w, c)
          \/ WriteAcknowledged(w) \/ ResetAcknowledged(w) \/ WriteRefused(w)
    \/ \E v \in Views : Leave(v)

ListSpec == ListInit /\ [][ListNext]_listVars

-----------------------------------------------------------------------------
ListTypeOK ==
    /\ view \in Views /\ query \in Query
    /\ items # Nothing => items \in Shown /\ items.total \in Countable(view)
    /\ loading \in BOOLEAN
    /\ fetches \in [Fetches -> Answer \cup {Nothing}]
    /\ pending \in [WriteSlots -> Refetch \cup {Nothing}]
    /\ trouble \subseteq {"outdated", "overtaken", "failed"}

Current ==
    items # Nothing /\ items.query = query /\ items.after

\* The skeleton never outlives the requests.  One request at most is the
\* newest, and it asks for what the controls say unless an old closure made
\* it; when it is answered the list is current, until something goes wrong.
ListInv ==
    /\ ListTypeOK
    /\ loading => \E f \in Fetches : fetches[f] # Nothing
    /\ \A f \in Fetches : fetches[f] # Nothing /\ fetches[f].newest =>
          /\ fetches[f].after /\ (fetches[f].query = query \/ "outdated" \in trouble)
          /\ \A g \in Fetches \ {f} : fetches[g] # Nothing => ~fetches[g].newest
    /\ ~NewestOut /\ trouble = {} => Current

\* Once no request is under way, rows and total on display belong to the
\* filters, page and size the controls show, and were read after every
\* acknowledged write that changes the list.  Only what happened to the newest
\* request excuses them: it failed, an earlier one was answered after it, or
\* an old closure made it.  Whatever went wrong before, the next request mends.
ShownIsCurrent ==
    (\A f \in Fetches : fetches[f] = Nothing) /\ trouble = {} => Current

\* The audit list never asks for a page the server refuses to skip to, whatever
\* the counts it was told, and the filters and sizes it went through.
AskedWithinCap ==
    \A f \in Fetches : fetches[f] # Nothing => Served(fetches[f].query)

=============================================================================
