# fastapi-admin: models, checks and proofs

This directory holds TLA+ models of the parts of fastapi-admin whose correctness
depends on the order in which things happen: the refresh-session tables, the
account operations that end sessions, the guard that keeps the last superuser,
the password checks of login, change and reset, the login rate limiter, the
gate in front of the password threads, the delegation of roles and permissions;
and, in the browser, the session client of every tab, the list pages, their
dialogs and who may go where in the console.
TLC checks each model exhaustively on a small instance; TLAPS proves the central
properties for every size.

Paths below are relative to the repository's root; `auth.py` without a
directory is `backend/app/services/auth.py`, and paths that begin with `lib`,
`hooks`, `store`, `components` or `pages` are under `frontend/src`.

## 1. Inventory

The repository is an administration back end (FastAPI, async SQLAlchemy,
PostgreSQL) with a React front end.  An endpoint opens one database session
(`get_db`), calls services that flush and lock rows but never commit, and
commits once together with its audit record; any exception or disconnect rolls
back.

| Part | Source | State it keeps | Operations | Talks to |
| --- | --- | --- | --- | --- |
| Refresh sessions | `auth.py` 235-600, `core/security.py` 167-255, `api/v1/auth.py` | `refresh_session_families`, `refresh_sessions`; the JWTs in circulation | login, rotate, logout, revoke all, validate an access token | accounts (row lock, `token_version`), browser (cookie) |
| Accounts | `services/users.py`, `crud/user.py`, `crud/base.py`, `recycle_bin.py`, `me.py` | `users` | create, update, disable, enable, soft-delete, restore, purge, change and reset a password, assign roles | sessions (`revoke_all_refresh_sessions`), RBAC guards |
| Last-superuser guard | `services/users.py` 26-34, `crud/user.py` 270-283 | row locks | lock the active superusers, lock the target, decide | accounts |
| Retention job | `services/session_cleanup.py`, `cleanup_sessions.py` | none of its own | delete one batch, drain | sessions, a second job |
| Credential checks | `auth.py` 208-232, `users.py` 122-170, `core/security.py` | `users.hashed_password` | verify, upgrade bcrypt to Argon2id, change, reset | password gate, sessions |
| Login limiter | `auth.py` 65-205 | bounded table of sliding windows, LRU order | hit, clear, reset, evict | login, registration |
| Password gate | `core/security.py` 76-102 | semaphore, running threads | queue with a timeout, run, release | every KDF caller |
| Roles and permissions | `services/guards.py`, `roles.py`, `permissions.py`, `permission_sync.py`, `crud/role.py`, `crud/permission.py` | `roles`, `permissions`, two association tables | create, update, delete, restore, purge, assign | accounts, access checks |
| Unit of work, audit | `core/database.py`, `core/deps.py`, `utils/audit.py` | the open transaction, `audit_logs` | commit with audit, rollback | everything |
| Bootstrap | `init_db.py` | advisory lock | seed permissions, create the first superuser | permissions, accounts |
| Browser session client | `lib/api.ts`, `hooks/use-auth.ts`, `store/auth.ts` | per tab: access token, user and rights, `isRefreshing`, `failedQueue`; shared: cookie, Web Lock | call, refresh, replay the queue, bootstrap, login, logout, reload | `/auth/*`, `/me`, the other tabs |
| List pages | `hooks/use-paginated-query.ts`, `components/common/Pagination.tsx`, the list and recycle-bin pages | filters, page, page size; the answer on display | filter, page, resize, write and refetch | listing endpoints |
| Dialogs | `components/users`, `roles`, `permissions`, `common/ConfirmDialog.tsx` | open, row, fields or selection, `isLoading`, `isSubmitting` | open, load, type, submit, dismiss | the page, write endpoints |
| Navigation and gating | `App.tsx`, `ProtectedRoute.tsx`, `Sidebar.tsx`, `Header.tsx`, `use-permission.ts` | the route, the mobile drawer, `?create=1` | go to an address, follow a link, press a button | the rights in the store, every endpoint |
| Configuration, schemas, middleware, listings, migrations, presentation | the rest | none that two actors share | validation, formatting, rendering | |

What is hard, and what makes each part correct:

- **Refresh sessions.** A refresh token is valid once.  Two calls can carry the
  same token past the signature check before either holds a lock; the loser
  must end the whole family and that must be committed although the call fails.
  Three expiries (token, session row, family) and an absolute limit must agree.
  Correct when an open family offers exactly one token, the newest; a token is
  consumed once; replay and logout end the family; nothing outlives the absolute
  limit; nothing ended comes back.
- **Accounts.** Disable, delete and password changes must end every session in
  the same transaction; enable and restore must revive none.
- **Last-superuser guard.** Several removals at once, each counting the others'
  victims.  Correct when an active superuser always remains and no call hangs.
- **Retention job.** May delete only what no valid token still needs: a replay
  must be recognisable for as long as the token could be presented.
- **Credential checks.** A hash is verified without a lock and confirmed under
  one.  Correct when only the password stored at the commit opens a session.
- **Login limiter.** Correct when no window exceeds its limit unless it was
  evicted or cleared, the table is bounded, and `Retry-After` is long enough.
- **Password gate.** Correct when permits are never lost or doubled, under
  cancellation, and never more threads run than permits exist.
- **Roles and permissions.** A call compares what it adds with what the actor
  holds by up to three queries.  Enabling and deleting lock the row first;
  assigning and restoring lock it only after the queries.  Correct when an
  administrator gives only what he holds, and a role in use is not deleted.
- **Browser session client.**  Calls of a page fail together while one refresh
  runs; tabs share a cookie whose token is good once; answers get lost; a tab
  logs in or out while another refreshes.  Correct when the tabs never replay a
  token themselves, every queued call is settled, nobody is sent to the login
  page without a cause, and a page shows the account its token belongs to.
- **List pages.**  Answers come back in any order, each write is followed by a
  refetch, and the audit list is counted only up to a cap.  Correct when rows,
  total and controls on display belong together and no page is offered that the
  server refuses.
- **Dialogs.**  A dialog outlives its row: it can be dismissed while it loads or
  writes and opened for another.  Correct when what is sent to a row was filled
  in for it, and once.
- **Navigation and gating.**  Routes, links, buttons and endpoints each name a
  permission, in four places, and the browser's rights are a copy.  Correct when
  nothing is offered that will be refused, unless the account changed.

`PROJECT.json` lists every part under `components` with its status, and the
places where the code can go wrong under `hazards`.

## 2. Plan

| # | Module | Models | Abstract specification or composition | Status |
| --- | --- | --- | --- | --- |
| 1 | `RefreshSessions` | session tables, account operations, retention job | implements `SessionPromise` | checked, proved |
| 2 | `SuperuserGuard` | statements and row locks of the removals | | checked, safety proved |
| 3 | `Credentials` | optimistic hash check of login, change, reset | implements `PasswordVault` | checked, proved |
| 4 | `RateLimiter` | three windows, clear, bounded LRU table | composed with a history of failed logins in `LoginFailures` | checked, proved |
| 5 | `SessionClient` | tabs, cookie, Web Lock, queue of failed calls, lost requests and answers | its server takes the steps of `SessionPromise` | checked, proved |
| 6 | `ListPage` | query, answers in any order, writes and refetches, the capped pager | | checked, proved |
| 7 | `PageDialogs` | one dialog over several rows | | checked, proved |
| 8 | `Console` | routes, menu, buttons and endpoints against a copy of the account's rights | | checked, proved |
| 9 | `PasswordGate` | semaphore, queue timeout, cancellation, disconnects | composed with `LoginFailures` in `LoginPath` | checked, proved |
| 10 | `RetentionJobs` | two drain loops, `SKIP LOCKED`, cascades | | not built |
| 11 | `Rbac` | delegation rules, enabling, recycle bin | statement by statement, check-then-act | checked, proved |
| 12 | `SessionTransactions` | the statements of rotate, logout and revoke-all with row locks | would refine `RefreshSessions` | not built |

Order: what a wrong interleaving costs most comes first, and the browser, where
most of the code is, before the remaining corners of the back end.  Modules 10
and 12 are where the project would go on; section 6 says what their absence leaves
open.  Bounds stay at two or three actors per model: every hazard listed is a
race of two, and the third actor is there to be harmed by it.

## 3. The modules

### `RefreshSessions`

One action is one committed transaction.  That is justified because login,
rotation, logout and every account operation lock the user row first
(`_get_user_for_update`, `lock_active`, `get_with_roles_for_update`) and keep
the lock to the commit, so two of them on one account never overlap.  What is
*not* under the lock is kept apart: `decode_token` checks signature and expiry
before the lock is requested.  A call is therefore first `Decode`d into a slot
of `requests` and served later, any number of transactions and clock ticks
afterwards, or abandoned.

| Variable | In the code |
| --- | --- |
| `users` | `users` rows: `is_active`, `is_deleted`, `token_version`; `None` once purged |
| `families` | `refresh_session_families` rows |
| `sessions` | `refresh_sessions` rows |
| `issued`, `access` | every JWT signed so far; they outlive the rows |
| `requests` | calls to `/auth/refresh` and `/auth/logout` past `decode_token` |
| `now` | `datetime.now(UTC)` |

| Action | Code |
| --- | --- |
| `Login` | `create_login_session`, with the lock `authenticate_user` holds |
| `Decode` | `decode_token` |
| `RefreshUnknown`, `RefreshRefused`, `RefreshRotated` | `rotate_refresh_session` with the `except` branches of the endpoint: rollback, commit of the revocation, commit of the rotation.  `RefreshFault` is the order of its checks |
| `LogoutIgnored`, `LogoutServed` | `revoke_refresh_session` returning `None`, and revoking |
| `DisableUser`, `EnableUser`, `DeleteUser`, `ReplacePassword` | `update_user`, `delete_user`, `change_password`, `reset_password`, each with `revoke_all_refresh_sessions` where the code calls it |
| `RestoreUser`, `PurgeUser` | recycle bin, foreign-key cascades included |
| `Cleanup` | one transaction of `purge_expired_refresh_history`: the batch limit and `SKIP LOCKED` let it take any part of what has expired |
| `Abandon` | rollback of `get_db`: disconnect, lost connection, restart |

Abstractions: a token's id stands for its digest and its signature (a forged or
altered token never passes `Decode`); `revoked_at` and `revoked_reason` are one
field; the reasons callers of `revoke_all_refresh_sessions` pass are one reason,
because no code tells them apart; days and minutes are ticks, and the truncation
of `exp` to whole seconds is below a tick.

### `SessionPromise`

What the holder of a session is promised, with no clock, rows or accounts: a
session begins once, offers one token at a time, an exchange replaces it by a
fresh one, and an ended session offers none ever again.  `RefreshSessions`
implements it under the mapping `Promise`: sessions are families, a family
offers the tokens whose rotation would succeed now.

### `SuperuserGuard`

Here the interesting thing is *between* the statements, so each statement of
`update_user`, `delete_user` and `restore` is an action.

| Variable | In the code |
| --- | --- |
| `rows` | committed `is_active`, `is_deleted`; `Superusers` is `is_superuser`, which no endpoint changes |
| `lock` | holder of the row's `FOR NO KEY UPDATE` lock |
| `tx` | open calls: what the list query saw (`listed`), has still to lock (`want`), returns (`got`) |

`Authorize` is `get_current_user`: the actor is checked once, unlocked.  `List`
and `LockListed` are `lock_active_superuser_ids`: a snapshot, then the rows one
after the other in the order of their ids; a row that changed while the query
waited is looked at again and dropped from the result if it no longer qualifies
(READ COMMITTED), but stays locked.  `LockTarget` and `TargetMissing` are the
second query.  `Refused` and `Committed` are the checks and the one write,
visible at the commit.  `Abandon` and `DeadlockVictim` end a call from outside.
Row locks, lock waits and the deadlock detector are PostgreSQL's and marked
external.

### `Credentials`

A key derivation takes long, so the code runs it with no transaction open: it
reads the hash, gives the connection back, derives, then locks the row and
decides again.  A call is *read* (the row as it is then) and *served* later,
with anything in between.

| Variable | In the code |
| --- | --- |
| `rows` | `users`: `hashed_password`, the address a login names, `is_active`, `is_deleted` |
| `open` | the sessions not revoked, reduced to account and password given |
| `tx` | calls in progress: what they asked, and in `seen` the hash their password was found valid for |

| Action | Code |
| --- | --- |
| `LoginRead` | `get_by_identifier` and the first verification in `authenticate_user` |
| `LoginServed`, `LoginRefused` | `get_by_identifier_for_update`, the second verification if the hash changed (`Confirmed`), the upgrade (`Upgraded`), `create_login_session`, commit |
| `ChangeBegun` | `get_current_user` and the request schema |
| `ChangeRead`, `ChangeServed`, `ChangeRefused` | the two halves of `change_password` around its KDF |
| `ResetBegun`, `ResetServed`, `ResetRefused` | `reset_password` before and after hashing |
| `Disable`, `Enable`, `Delete`, `Restore`, `MoveIdent` | the account operations that commit meanwhile; an address may pass to another account |
| `SessionEnds` | logout, replay, expiry, as `RefreshSessions` has them |
| `Abandon` | disconnect, restart, a full password queue |

Abstractions: the salt of a hash is its owner and a count, so two hashes are
equal only if they are the same text; a key derivation is a comparison, except
that a bcrypt hash compares the first 72 bytes (`Prefix`), as the code makes it
do; username and e-mail are one address.

### `PasswordVault`

Every account accepts some passwords; a session is opened by one of them, from
which moment the account accepts that one only; replacing the password closes
the account's sessions.  No hashes, no locks, no calls in progress.  Under the
mapping `Vault` an account accepts the passwords its stored hash verifies, and
`Credentials` implements it: every call takes effect in one instant, its commit.

### `PasswordGate`

`_run_password_work`: a permit of `PASSWORD_HASH_SEMAPHORE` is taken with a
bounded wait, and given back by the done callback of the thread, which goes on
when the request that started it has gone.

| Variable | In the code |
| --- | --- |
| `at` | where each caller is: outside, with a future in the semaphore's queue, with that future set or cancelled and not yet resumed, or waiting for its thread |
| `free` | `Semaphore._value` |
| `orphans` | threads whose request has gone |

| Action | Code |
| --- | --- |
| `Acquire`, `Resumed` | `PASSWORD_HASH_SEMAPHORE.acquire()` to its first await and after it, and the start of the thread |
| `WaitCancelled`, `Left` | the timeout or a disconnect while queued, and the exception it ends in |
| `PermitReturned` | the same after the future was set, and `except BaseException` where no task could be created |
| `GateRestart` | a new process |
| `ThreadEnded`, `Detached`, `OrphanEnded` | the done callback; a disconnect that `shield` keeps from the thread; the callback of such a thread |

The semaphore is `asyncio`'s and external (`Wake`, `Locked`).  The order of its
queue is left out: whoever waits may be woken.

### `RateLimiter`

`hit` and `clear` take the limiter's lock and never wait while they hold it, so
each is one action.  Between the two of one login the password is verified, and
any number of other calls come in: a slot of `logins` is a login past `hit`.

| Variable | In the code |
| --- | --- |
| `attempts` | `_entries`: a key's deque of times; empty when the key is absent |
| `older` | the order of the dict, which is the order of last use |
| `logins` | calls of the login endpoint between `hit` and `clear`; `at`, the time `hit` recorded, is not kept by the code |
| `now` | `monotonic()`, `Second` ticks to the second |

| Action | Code |
| --- | --- |
| `Refused` | `hit` returning seconds: the three windows are pruned, nothing is recorded and the order of use stays (`RetryAfter` is the answer) |
| `Admitted` | `hit` returning `None`: pruning, `_evict_until_room` (`Evicted`), append, re-insertion at the end (`MovedToEnd`) |
| `Succeeded` | `clear` after a login that succeeded |
| `Failed` | the login endpoint leaving without `clear` |
| `Restart` | a new process, or `reset`; nothing is stored outside the process |

Abstractions: the HMAC of a key is injective, so a key is what it is made from;
`Factor` stands for the 5 of the code.  The registration limiter is the same
class and never calls `clear`: its behaviours are those without `Succeeded`.

### `LoginFailures`

`RateLimiter` with one history variable, `failed`: when each failed login of an
address was attempted.  The address window exists to bound these, so the
properties compare the two.

### `LoginPath`

The login endpoint from `hit` to `clear`: `LoginFailures` and `PasswordGate` with
the steps they take together.  A login that was admitted (`Knock`) goes through
the gate once, or twice if its hash has changed (`Verify`, `Verified`), and
succeeds only after a thread has answered (`Answered`; `checked` holds those); one that
the gate turns away or whose client disconnects ends before `clear`, so its
attempt stays counted (`Dropped`).  The other callers are registrations, changes
and resets of passwords.  `PathRestart` is a new process: table and semaphore are new.

### `Rbac`

Who holds which role, which role carries which permission, and what an
administrator who is no superuser may add to either.  Each query of such a call
is an action, with anything in between.

| Variable | In the code |
| --- | --- |
| `user`, `role`, `permission` | the rows (`is`: live, in the recycle bin, purged), `is_active`, `user_roles`, `role_permissions` |
| `calls` | calls in progress: what they found to be added, its codes, what the actor held when asked; as history, the rows others wrote since (`touched`) |
| `left`, `revived` | the bound on calls; history, the users that came back from the recycle bin |

| Action | Code |
| --- | --- |
| `Begin` | the first query: `get_with_roles`, `get_with_permissions_for_update`, `get_deleted`; enabling and deleting lock here |
| `FindAdded` | `get_role_ids`, `get_permission_ids`, `get_user_count`, `is_granted_through_live_role` (`Added`); for `delete_role`, the count that refuses a role in use |
| `FindCodes`, `Allowed` | `get_permission_codes` of the roles, `get_codes_by_ids`; `ensure_grantable` |
| `Written` | the write under the row locks it takes (`AssignRoles`, `AssignPermissions`, `SetRoleActive`, ...), and the commit |
| `Abandon` | every refusal, and a disconnect |
| `BySuperuser`, `Lessen`, `Purge`, `RestoreUser` | calls that ask nothing before they lock: a superuser's, those that take rights away, the recycle bin of users |

Abstractions: permissions are those an administrator made, since system
permissions can neither be deleted nor purged, which only removes behaviours; a
disabled account keeps its rights, as the queries have it; who may call the
endpoint is in `Console`, superuser accounts are in `SuperuserGuard`.

### `SessionClient`

Every tab of one browser runs the same script; what the tabs share is the cookie
and, where `navigator` has it, the lock `REFRESH_LOCK_NAME`.  JavaScript runs to
the next `await`, so one action is what happens between two awaits of one tab.
The server is one number per token: the family it belongs to.  That this server
is the one of `RefreshSessions` is not left to the reader: both take the steps of
`SessionPromise` (`ServerKeepsPromise` here, `ImplementsPromise` there).  A family
begun before the first page opened is why it is the steps and not the initial
state that are compared.

| Variable | In the code |
| --- | --- |
| `issued`, `root`, `open` | the tokens answered so far, their families, and the families still alive |
| `strays` | refresh requests still on the wire whose document is gone |
| `locks`, `holder`, `ahead` | `"locks" in navigator`; the Web Lock and its queue |
| `cookie` | the refresh cookie |
| `page` | where a document is: `closed`; `restoring` and `profile`, the two awaits of `bootstrap`; `open`; `refused` and `left`, after `window.location.href = "/login"` |
| `token`, `profile` | `accessToken` with its copy in the store; the account whose `user` and `permissions` the store shows |
| `refreshing`, `refresh` | `isRefreshing`; the call of `refreshAccessToken` from the request for the lock to the resolved promise |
| `calls` | calls of the axios instance: out, `waits` for the refresh it started, `queued` in `failedQueue`, repeated (`again`) |
| `asking`, `login`, `logout` | the token of `GET /me`; the calls of `login` and `logoutAction` |
| `happened` | history, for the properties: an answer was lost, a session ended, a late refusal cleared a newer cookie, a login met another session |

| Action | Code |
| --- | --- |
| `Call`, `CallSettled`, `CallQueued`, `CallStartsRefresh` | request interceptor; success or an error that is passed on; a first 401 with `isRefreshing`; a first 401 without.  A queued call is not marked `_retry`, so after the replay it may start a refresh of its own: it becomes `out`, not `again` |
| `RefreshAccessToken`, `Grant`, `ServeRefresh`, `RefreshAnswered`, `RefreshLost` | `refreshAccessToken`, `requestNewAccessToken` and `/auth/refresh`, with the lock's release |
| `RefreshDone`, `RefreshFailed` | the rest of the response interceptor: `processQueue`, the redirect, `finally` |
| `OpenPage`, `Restored` | the effect of `App` and `bootstrap` |
| `Login`, `LoginAnswered`, `LoginFails`, `Logout`, `LogoutEnds` | `use-auth.ts`, both awaits of `login` |
| `ClosePage` | reload, closed tab, and the navigation a redirect began |
| `ServeStray`, `EndSession` | a request of a closed page reaching the server; expiry, an administrator, a late logout |

Abstractions: one number is the refresh and the access token of one answer; a
family stands for the account that logged in; a token may expire at any moment,
so any call may be answered 401; a login is served and answered in one step,
because nobody can use the new family before.

### `ListPage`

`usePaginatedQuery` with `Pagination` and `DataTable`.  The seven pages differ in
what the module's records say of each: their first page size (`DefaultSize`, or
`LongSize` for permissions and audit logs), whether the count is capped, and which
closures make writes.  A list request carries the query it
was made with, whether anything was asked since (`newest`) and whether the last
acknowledged write that changes the list came before it (`after`); the answer on
display (`items`) the query it answers, its total and `after`.  `trouble` is
history: what went wrong since the newest request was made.

| Action | Code |
| --- | --- |
| `FetchAnswered`, `FetchFailed` | the `try`, `catch` and `finally` of `fetchData` |
| `ChangeFilter`, `HandlePageSizeChange`, `OnPageChange` | the controls, each with the effect on `fetchData` that follows |
| `Write`, `WriteAcknowledged`, `WriteRefused` | a write made from a row or a dialog, and the `refetch` its success makes; in the recycle bins the row buttons keep the `refetch` of the first render (`useMemo` with `[]`) |
| `ResetAcknowledged` | `handleResetPasswordConfirm` of the users page: the one write no `refetch` follows, since no column shows a password |
| `Leave` | navigation to another list |

`loading` is `isLoading`; `pending` are the writes without an answer, with the
query their `refetch` will use, if there is one.  `Countable`, `Skip` and `Served`
are the cap of `crud/audit_log.py` and the refusal of `audit_logs.py`;
`TotalPages` is the pager's arithmetic on them.

### `PageDialogs`

The dialogs are modal, so a behaviour follows one of the eight; each is a record
of where its fields come from, what opening does to its state and whether it
loads anything.

| Variable | In the code |
| --- | --- |
| `open`, `row` | the page's `formOpen`, `assignOpen`, ... and `editingUser`, `assignRole`, ... |
| `owner`, `own` | the row the fields or the selection stem from, and whether they were filled since the dialog was opened |
| `isLoading`, `isSubmitting` | the same; for the `react-hook-form` dialogs `formState.isSubmitting` |
| `loads`, `writes` | requests under way, with the row they are for |

`Open` is the page's handler together with the effect on `open` and `row`;
`LoadAnswered` and `LoadFailed` that effect's promise; `Type` the user; `Confirm`
and `Answered` the submit handler before and after its `await`; `Close` Escape,
the backdrop, the close button, or Cancel.

### `Console`

Four tables that the code keeps in different files: the permissions routes
require (`Routes`), menu entries (`NAV_ENTRIES`), the buttons of the list pages
(`Buttons`) and the endpoints (`Demands`).  `rights` is the copy in the auth
store, `account` what the server has; `ChangeAccount` is another administrator,
who can make or unmake no superuser (`guards.py` 19).  `saving` is a `PUT /me`
under way.

| Action | Code |
| --- | --- |
| `OpenAddress`, `LogOut`, `SessionLost` | a document that loads: `bootstrap`, then the route, with or without `?create=1`; the refresh may be refused, and `GET /me` may fail after it |
| `FollowNav`, `OpenProfile`, `FollowTrash`, `FollowTrail`, `FollowQuickAction`, `GoHome` | the links of `Sidebar`, `UserMenu`, list pages, breadcrumbs, dashboard, and the refusal pages; each mounts the page, makes its calls and reads `?create=1` |
| `OpenDrawer`, `CloseDrawer` | the mobile menu of `AppLayout` |
| `LogIn`, `LogInWithoutProfile` | `LoginPage`, with `GET /me` answered or not |
| `SaveProfile`, `ProfileSaved`, `SaveFailed` | `PUT /me` and its answer, which may find another page: the user is stored, the rights are not |
| `Press`, `OpenAssignment`, `SubmitForm`, `DismissForm` | the buttons, and what an assignment dialog loads |

`refused` holds the calls of the last step that the server refused for want of a
permission.

## 4. What is checked

| Run | Instance | Question |
| --- | --- | --- |
| `refresh_sessions` | one account, two families, three tokens, two calls in flight, clock to 4, one version bump; 380 047 states up to symmetry | do the tables keep their invariants and implement `SessionPromise` |
| `last_superuser` | two superusers, two calls, fair scheduling; 23 475 states | does an active superuser remain, when can calls wait in a circle, does every call end and release its rows |
| `credentials` | two accounts, three addresses, two passwords with the same first 72 bytes, two calls; 366 008 states up to symmetry | are passwords checked as if at the commit |
| `rate_limiter` | two addresses, two accounts, two logins at once, room for five of the eight windows, clock to 5; 47 222 states up to symmetry | is the table bounded and ordered, is `Retry-After` long enough, what is evicted |
| `login_path` | one address, three accounts, one login at a time; two more callers at a gate of two permits; clock to 5; 195 772 states up to symmetry | does a success leave the failures of its address counted, is a permit ever lost, returned twice, or idle while somebody waits |
| `login_overlap` | the limiter alone, with two logins at once | does a success leave the failures counted: it does not |
| `delegation` | two users, two roles and one permission in any state, two calls; 1 084 940 states up to symmetry | does an administrator give only what he holds, is a role in use never deleted |
| `client_tabs` | two tabs, one call each and `GET /me`, Web Locks, three answers with tokens | do the tabs of one browser replay a token, strand a call, leave without a cause, or show the wrong account |
| `client_calls` | one page, two calls and `GET /me`, with and without Web Locks, two answers with tokens, one stray request, fair scheduling | does every call come back, the inductive invariant, and is the server the one of `SessionPromise` |
| `list_page` | seven pages, two filters, two sizes, two requests and one write under way, a cap of two; 210 667 states | does what is on display belong together and become current, and stay within the cap |
| `dialogs` | eight dialogs, three rows, three loads and three writes under way; 1 748 states up to symmetry | what is sent to which row, and how often |
| `console` | nine accounts, two changes of rights, one save under way; 10 127 states | do routes, links, buttons and endpoints agree |

`refresh_sessions` checks that an open family offers exactly one
token, the newest (`OpenFamilyOffersOneToken`); no two tokens descend from one
(`ConsumedOnce`); no family stays open when its account was disabled, deleted
or given a new password (`OpenFamilyMatchesAccount`); nothing outlives the
absolute limit (`AbsoluteLifetime`); the retention job leaves what replay
detection needs (`EvidenceOutlivesToken`); the inductive invariant
(`SessionInv`); a refused access token stays refused, through enable and
restore (`AccessNeverRevived`); serving a replay, and answering a logout with
any generation of the token, leave nothing of the family alive
(`ReplayEndsFamily`, `LogoutEndsFamily`); and the refinement
(`ImplementsPromise`).

`last_superuser` also shows something the code does not say: the comment-free
order "list, then target" *can* deadlock, but not between calls that listed the
same superusers.  A circle takes a target that one of its calls listed and the
call asked to change it did not, that is, a superuser that was disabled, enabled,
deleted or restored between the two lists (`CycleNeedsChange`).  For example, one
call lists {1, 2}; another disables 1 and commits; a third, asked to delete 1,
lists {2} and locks it; the first locks 1 and waits for 2, the third waits for 1.
PostgreSQL then aborts one call, which changes nothing.

`credentials` checks that nobody is logged in but with the password stored now,
on an account usable now (`OpenedWithStoredPassword`); that a change verified
before an administrator's reset does not overwrite it (`ResetSticks`); the
inductive invariant (`CredentialsInv`); and the refinement (`ImplementsVault`).
That a right password is not refused is no property here: a refusal *is* the
answer of the second check, so the statement would only repeat it.

`rate_limiter` checks that the table keeps its bound, no window counts more than
its limit and the dict order is total (`LimiterInv`); that a refused client that
waits as told finds all three windows below their limits, if nobody else used
them (`RetryAfterEnough`: pruning drops an attempt exactly at its age, the wait
is rounded up); and that a window which still counts goes only when no expired
one is left and every window kept was used later (`LiveEvictedLast`).  Two
things the code does are not stated as properties: the windows of the very
attempt that makes room may be evicted, and a refused attempt does not count as
a use, so the window of a persistent offender is not kept for its persistence.

`login_path` checks that every failure of the last window is still in the window
of its address (`FailuresRetained`), whatever successes lie between and whether
the login failed by its password, an overloaded gate or a disconnect; and that
every permit is free, with one caller that was woken or works, or with one thread
whose request has gone, however timeouts and disconnects fall, so that no more
threads run than there are permits, and none is free while somebody waits unless
a woken caller is about to pass it on (both in `GateInv`).
`login_overlap` shows that the first fails as soon as two logins of one address
overlap, which the docstring of `clear`, "Remove the successful attempt while
retaining prior IP failures", does not allow for: `clear` pops the newest
attempt of the window, whoever made it.  If login B is recorded after login A,
fails, and A succeeds afterwards, B's failure is taken off and A's own attempt
stays.  Where the two have different times, the window then forgets the attempt
that is left sooner than it should have forgotten B's failure.

`delegation` checks the third delegation rule of `docs/ARCHITECTURE.md` (a right
newly granted is one the actor holds): a right that comes into force at the
commit of an administrator's call was his when he was asked, or the user, the
role or the permission it runs through was written by another call after the
first query of this one (`GrantedWasHeld`).  The second half is what the missing
locks cost: a permission added to a role, a user given a role or restored while
the queries run is covered by none of their answers.  "When he was asked" is
meant literally: the actor's rights are read once, without a lock.  `RbacInv`
says that a live user holds a role of the recycle bin only if he came back from
it afterwards (`delete_role` counts live users only), and its other parts make
it inductive.  Two ways round the rule are the code's, and outside the property:
restoring a user gives him back his roles whatever the restorer holds, because
`guard_user_recycle` compares the accounts only; and a role without live users,
or a permission without live roles, is restored or enabled unchecked, since it
is nobody's at that moment.

`client_tabs` checks that whoever waits for a refresh has exactly one to wait for
(`NoCallStranded`); that with Web Locks the server sees a replay only after an
answer was lost or its page was closed under it (`SelfReplayNeedsLoss`); that a
page is sent to the login page only after a loss, an ended session, or a refusal
that cleared a newer login's cookie (`RedirectNeedsCause`); and that a page shows
the user its token belongs to (`ProfileMatchesToken`).  `client_calls` checks
that every call comes back to its caller and every page gets past restoring its
session (`EveryCallSettles`), the inductive invariant (`ClientInv`), and that the
server the page meets does nothing `SessionPromise` does not
(`ServerKeepsPromise`).  What
the code does and the properties except, by name:

- a lost answer of a refresh leaves the consumed token in the cookie, and the
  next refresh ends the session (`"lost"`);
- a refused refresh answered after a login elsewhere clears the cookie that login
  has set, and the page that logged in is sent away at its next refresh
  (`"cleared"`);
- two accounts in two tabs share one cookie: a tab that refreshes goes on with
  the other account's token while it shows its own user (`"mixed"`);
- without Web Locks two tabs do replay a token: `refreshAccessToken` says so
  itself.

`list_page` checks that once no request is under way, rows and total belong to the
controls and were read after every acknowledged write that changes the list,
unless something happened to the *newest* request (`ShownIsCurrent`); that the
skeleton never outlives its request (part of `ListInv`); and that the audit list
never asks for what the server refuses to skip to (`AskedWithinCap`).  What can
happen to the newest request is, again, the code's: an answer is displayed
whichever request it answers, so a late answer of an older query overwrites the
newer one's (`"overtaken"`); a failed request leaves the rows of the query before
it under the controls of the new one (`"failed"`); a restore in a recycle bin
refetches page one of the unfiltered list whatever the controls show, and a write
made before a filter was changed refetches with the query of its own render
(`"outdated"`).  The property says that nothing else leaves the list behind, and
that the next request makes up for whatever happened before it.

`dialogs` checks that what a dialog sends was filled in for its row
(`SentForItsRow`), that a dialog which keeps its `isSubmitting` has one write
under way at most (`OneWritePerDialog`), and the inductive invariant
(`DialogInv`).  The exceptions: the selection of permissions may be confirmed
before it has loaded, and overwritten by the late answer for the role opened
before; the password typed for one user is still in the field when the dialog is
opened for the next, because `handleOpenChange` is not called when the page
opens it; the form dialogs are new or reset at each opening, so a form dismissed
while it is sent may be sent again; and a success closes whichever row's dialog
is open by then.

`console` checks that the page shown is one the rights held admit and what is open
on it belongs to it (`ConsoleInv`, which also says that the refusal page is
reached only from an address, a quick action or the way back from a recycle
bin), and that a call the interface offers is refused only after the account
changed (`RefusedNeedsChange`).  The exceptions: the quick actions of the
dashboard and the breadcrumb of a recycle bin are shown to everyone; the
assignment dialogs load lists that need the right to read roles or permissions,
which the button does not ask for.  Also in the model, and nobody's property: the
link to the profile leaves the mobile drawer open; a logout that the server
did not hear signs the user back in at `/login`; a failed `GET /me` leaves a session
without rights; saving the profile renews the user and not the rights, on whatever page its
answer finds the store;
`?create=1` stays in the address of whoever may not create; a login leads to the
dashboard and not to the page that asked for it.

**Bounds.** In `refresh_sessions`, three tokens give a chain of two rotations
in one family, or one in each of two; two calls make every race of refresh with
refresh or logout on one token; one account suffices because no action reads
two accounts, and the theorems hold for any number.  `RefreshLife` 2,
`AbsoluteLife` 3 and `MaxTime` 4 make a rotation capped by the absolute limit,
a family lapsing and the retention of both tables happen; a replay grace of 0
is the tightest setting the configuration allows.  `MaxVersion` 1 allows one
version bump, enough for disable-then-enable and delete-then-restore; the
proofs do not depend on it being small.  In `last_superuser` two superusers is
the case where the last one is at stake; slots are reused, so calls follow one
another without bound.  There is no ordinary account: the calls on one lock one
row and read no list, and the proofs cover any accounts.  In `delegation` the
initial states are whatever calls before may have left, so two calls are one
and the one it meets; two roles are the role given and the role the right is
held through; `FewHidden` lets two rows at once be disabled or not live (the
proofs cover any number of everything).  In `credentials` the third address lets
an address pass from one account to the other; two calls are every pair of login, change and
reset, and slots are reused; the initial hashes are of every age and algorithm;
`MaxHashes` 2 allows a reset followed by a change, or two upgrades; that the two
passwords agree in their first 72 bytes makes a bcrypt hash accept both, the
case in which an upgrade changes what the account accepts.  In `rate_limiter`
five entries is less than two attempts of different address and account need
(six), so live windows are evicted, and more than three, so some survive; two
ticks to the second and a window of two seconds make rounding matter; `MaxTime`
5 is a window and one tick; one attempt to a pair and two to an address fill
every kind of window.  In the two history runs the table has room for every
window, so that what is missing was taken off by `clear`; three accounts fill
the window of the address and knock once more; `MaxTime` 5 is two windows and a
tick.  At the gate of `login_path` threads whose request has gone hold permits
too, so that three callers can all be queued before two permits that come back
while one of them goes away.  In
`client_tabs` two tabs are what the lock is for, and three tokens give a login,
its rotation and a second login or rotation beside it; in `client_calls` two
calls and `GET /me` meet a refresh as the one that starts it, the one that
queues and the one that comes later, and the stray is the request that a reload
leaves on the wire; `FewMishaps` stops a behaviour of `client_tabs` at the third
kind of mishap; the proofs hold for any numbers.  In `list_page` two requests
are what it takes to be answered out of order, and one write with them makes
the refetch race; a cap of two with sizes of one and two has a last page that
begins before the cap and one that would begin at it.  In `dialogs` the third
row distinguishes "the row before" from "another row", and three loads and
writes let two be late at once.  In `console` the nine accounts are the
superuser, all, none, and those that hold one side of each pair of codes an
interface and an endpoint must agree on; two changes take a right away and give
it back.

**Deadlock** checking is off for `refresh_sessions`, whose clock and versions are
bounded, and for `delegation`, whose calls are.  It is on for the others: a page can always be
reloaded, left or closed.

**Fairness.** `RefreshSessions` claims no liveness: whether a client comes back
is its own affair.  `FairSpec` of `SuperuserGuard` assumes strong fairness of a
call's next statement, because PostgreSQL queues the waiters of a row in order
of arrival and the event loop resumes every coroutine whose statement finished,
and weak fairness of the deadlock detector, which runs after a fixed timeout.
Nothing is assumed of `Abandon`: no client need disconnect.  `FairSpec` of
`SessionClient` assumes weak fairness of what nobody decides: the browser grants
a lock that is free, a request is served, answered or given up, promises resume,
and a document told to leave goes.  Calls through the axios instance give up
after its 30 seconds.  The refresh itself is made with plain `axios` and has no
timeout of its own; that it ends, and frees the lock for the other tabs, rests on
the browser giving up a connection that has died.  No fairness is assumed of
the user, who need not call, log in or close anything.

Every property has a mutant in `PROJECT.json`: the operators marked `mutant:`
in the modules are plausible bugs (a forgotten revocation, an uncapped expiry, a
rollback where the code commits, a list that is read but not locked), and TLC
finds each property violated under its mutant.  No definition of a model uses
them.

## 5. What is proved

TLAPS checks these for every number of accounts, families, tokens, calls, tabs
and rows, and every lifetime that satisfies `ConfigAssumption`.

**`RefreshSessionsProofs`.**  None of the safety properties is inductive alone.
`SessionInv` strengthens them with what ties the three tables to the tokens in
circulation: a row says what its token says (`RowsMatchTokens`), a token expires
no later than its family (`TokensMatchFamily`), a token with a successor has a
revoked row (`Lineage`), an unrevoked family has exactly one unconsumed row,
which ends with it (`NewestRow`).  `EvidenceOutlivesToken` is part of it: were
the row of a valid token deleted, `NewestRow` would fail at the next rotation.
One lemma per action shows that the step keeps `SessionInv` (`LoginKeeps`, ...,
`TickKeeps`), `TablesConsistent` concludes `Spec => []SessionInv`, and every
state property of the run follows.

The action properties use it further.  Outside `Login` and `RefreshRotated`
every step only closes (`OtherStepsClose`): an account's version grows, a
family stays revoked or vanishes.  From that, `AccessStaysRefused`; from
"a served call leaves its family closed" (`ServedCallCloses`) and "a closed
family is dead" (`ClosedIsDead`), `ReplayEndsEverything` and
`LogoutEndsEverything`.  For the refinement, `OfferMeans` restates the offer of
a family by its rows, and each action maps to `Begin`, `Exchange`, `End` or a
stutter: `TablesKeepPromise`.

`EndedStaysEnded` carries over what the abstract specification promises of every
session: once it has ended it never offers a token again.

**`SuperuserGuardProofs`.**  `SuperuserRemains` is not inductive: the last
decision of a call rests on ids read earlier.  `GuardInv` adds that the ids a
call got back are locked by it and still live (`ListedStayLive`), that it
decides with the target locked (`DecidesUnderLock`), and that locks have living
owners.  Then `Committed` is the only step that could break it: nobody else
holds the row it writes, so nobody else's list names it, and if it takes a live
superuser away its own list names another one.  `LastSuperuserKept` follows for
any accounts and any number of calls.

For `CyclesNeedAChange`, `LocksInOrder` says that until a call asks for its target
it holds exactly the rows its list has given it, and that these come before the
rows it has still to lock.  So in a circle where every target that any of its
calls listed is in its own call's list, every call waits for a row beyond all it
holds, and the superusers beyond the row asked for shrink strictly from one call
to the next: with finitely many superusers that
cannot go on (`OrderBreaksCycles`, by the library's theorem that strict inclusion
of finite sets is well-founded).

**`CredentialsProofs`.**  `OpenedWithStoredPassword` needs that a remembered hash
is only remembered with a password it accepts (`SeenChecked`): then a login whose
hash did not change is admitted on the stored hash, and one whose hash did change
was verified again.  `HashesOwned` and `IdentsUnique` make a hash and an address
lead to one account.  `CredentialsSound` is `Spec => []CredentialsInv`;
`ResetsStick` follows from the same facts.  For
`CallsKeepVault`, a login maps to `Open`, a served change or reset to `Replace`,
every other step leaves the hashes alone and opens nothing (`OtherStepsClose`),
so it is a `Close`.

The gate is in the same module.  `GateInv` is inductive; what there is to show is
the counting.  A step moves at most one caller and wakes some of those queued
(`MoveCounts`, `WakeCounts`), so that permits free, held and orphaned add up to
the same number (`StepCounts`); and since a permit that comes back wakes
somebody or finds nobody queued, none lies idle: `GatePermitsKept`.  Every step of
`LoginPath` takes a step of the gate or leaves it alone, so that it holds there too.

**`RateLimiterProofs`.**  `LimiterInv` is inductive as it stands; the work is in
its parts.  The bound holds because eviction leaves room for three
(`EvictedLeavesRoom`, `ThreeMore`), although a key evicted may be one that is
about to be written; the order stays total because the keys of the attempt move
behind all others (`MovedTotal`); a window stays within its limit because it was
pruned and found below it (`PrunedSound`, `AppendSound`).  `LimiterSound` is
`Spec => []LimiterInv`.  `RetryAfterSuffices` follows from the times in a window
being in order: pruning removes exactly what has expired (`PrunedExactly`), the
rounded wait covers what is left of the oldest attempt (`CeilingCovers`), and
after it that attempt no longer counts (`CountedLater`).  `EvictsExpiredFirst` is
about one step: a window given up that still counts is not among the stale, so
room was short without them too, and they went as well (`AdmittedEvicts`).

`FailuresStayCounted` is `FailuresRetained` for any clients, limits and windows, and
the one theorem with hypotheses on the behaviour: the logins of one address do
not overlap (`LoginsApart`), and no attempt needs a window given up (`HasRoom`).
Both are what the property is true under, not what the proof happens to need:
`login_overlap` violates it without the first, and an evicted window forgets all it
held.  `FailuresRetained` says nothing of the login in flight, whose attempt lies
behind the failures and is the one `clear` takes off; `HistoryInv` does.  While no
login of an address is in flight its window is a tail of all failures, and with
one it is a tail of the failures and that attempt (`Ledger`), where what a tail has
lost has expired (`TailOf`).  Admission appends, pruning shortens, `clear` takes the
last element off both (`TailAppended`, `TailPruned`, `TailShortened`); `TailKeeps` then
says that a tail contains every failure that still counts.

**`RbacProofs`.**  A query's answer may be wrong by the time of the commit, so the
invariant says of whom it is still right: of the rows nobody else has written
since (`AnswersHold`).  A step writes one row, or a row and the associations that
go with it (`OnlyWrites`), and every call under way notices it; so an answer
about rows a call has not noticed is about rows that did not change, and one
lemma serves all the writers (`WriteKeeps`).  `NewRightsAreGiven` is the other
half: a right that is new after a commit is one the call gives.  With what was
asked (`CodesOwned`) that is `DelegationKept`.  For `RolesConsistent`, a role is
locked from the count to its deletion (`LockedRowStays`), so that who holds it
then held it at the count or came back since (`CountedUnused`); the count is
zero only if nobody is counted, which is where the users have to be finitely
many.

**`SessionClientProofs`.**  `ClientInv` says too little about one page at a time to
be inductive in the form TLC checks it, so the proof works with pointwise
versions and `IInv` joins them: `Known` (types; `ServerSound` and `HeldSound`, no
token that was not issued; `LockInv`; `PageSound`, what a page waits for is under
way), `OneWaits`, and three parts that hold until the first mishap of their kind.
One lemma per part shows that every action keeps it.

- `OneWaits` replaces the cardinality of `NoCallStranded` by "some call, and no
  other": with `PageSound`, `isRefreshing` and the call in progress come and go
  together, so `processQueue` always has somebody to run it
  (`CallsAreWaitedFor`).
- `Newests`: what is out, and what the cookie holds, is the newest of its family,
  but for the answer on its way.  `LockInv` is what makes it inductive: the lock is
  held exactly while a request is out, so there is one at most (`OneOut`), and
  the cookie read at the grant is the last answer's.  `ReplayNeedsALoss` follows.
- `Accepts`: while no answer, session or cookie was lost, every family is open
  and no refresh of a signed-in page can be refused: `RedirectNeedsACause`.
- `Family`: until a login meets another session, all the browser holds is of one
  family, and so is what a page asked `GET /me` with: `ProfileIsTheTokens`.

- The server: an exchange or a login adds one token, which becomes what its family
  offers and leaves every other family alone (`OfferReplaced`); whatever else
  changes the server only closes families (`ServerTurns`, `ServerEnd`).  So each
  step is one of `SessionPromise` (`ServerIsPromised`), and what that specification
  promises holds for the pages as well (`EndedForPages`).

**`PagesProofs`, the dialogs.**  `DialogInv` and what the writes under way were filled
from are inductive together.  What needs the invariant is the late answer: it
counts as the opening's own only if its load is the newest, and the newest load
is for the row on display.  `OneWriteAtATime` needs that `isSubmitting` stands
for a write that reaches the component, which dismissing keeps and an opening of
such a dialog does not reset.

**`PagesProofs`, the lists.**  `ListInv`, `ShownIsCurrent` and `AskedWithinCap` are
proved together (`ListIInv`).  `ShownIsCurrent` needs that the newest request, while it is out, asks for what the controls say unless
`trouble` says otherwise, and was made after the last acknowledged write that
changes the list, because the refetch of such a write is itself the newest
request and makes every other one older (`Superseded`); and that when none is
out and nothing went wrong since, its answer is the one on display.
`AskedWithinCap` needs that the page's own query stays one the
server serves (`Served(query)`), which holds because the pager divides at most
`Cap` rows into pages, so that the last one begins below the cap, and that the
capped list makes no writes, whose refetch would repeat an older query.

**`ConsoleProofs`.**  `ConsoleInv` is inductive.  Until the account changes the
rights held are within the account's (`CopyInv`), so a code the interface checked
is one the endpoint finds; what remains is the agreement of the four tables, row
by row.  `ForbiddenNeedsACause` is one of its parts: a link that is shown leads
where the route admits, because both ask for the same code of the same copy.

Assumptions: the named `ASSUME`s of the modules (positive lifetimes, refresh
lifetime at most the absolute one as `validate_security_settings` demands, an
absent row is not a row, finitely many users and callers, first page sizes among those
offered), which TLC evaluates in every run.

**Only model-checked:** `EveryCallEnds` and `EveryCallSettles`, which are liveness
under fairness and need ENABLED.  Every other property of the passing runs is
stated by a theorem.

## 6. Not modelled, and why

- Isolation below the transaction in `RefreshSessions` rests on the user row lock
  as argued above; the refinement that would show it is not written.
- How long a key derivation takes, and in which order callers queue for a
  permit.  A queue that times out is the `Abandon` of `Credentials`; a hash that
  is verified again under the row lock keeps the account locked while it queues.
- The row locks of two retention jobs: PostgreSQL aborts one if they wait for each
  other, which changes nothing, but that it cannot happen for ever is not shown.
- Creating and renaming roles and permissions, and the sync of system permissions
  with the registry: a new row is nobody's, and the operator's sync writes what a
  superuser's restore does.
- Creating accounts and bootstrap: uniqueness is the database's constraint, one
  bootstrap at a time the advisory lock's.
- Audit rows are written in the transaction of the change, and nothing reads them
  back to decide anything.
- Signatures, key rotation, cookie attributes, trusted origins: stateless
  checks on one request.
- Going back in the history of a document: the routes check again what it leads
  to.  The forms of the profile page, the theme, the drawer of an audit record,
  the error boundary and the wrappers under `components/ui`: drawing, and state
  that nothing else reads.
- Configuration, schemas, middleware, listing endpoints: no state that two actors
  share.
- Migrations run while the service is stopped.

## 7. Running

    tlc -config MCRefreshSessions.cfg MCRefreshSessions
    tlc -config MCSuperuserGuard.cfg MCSuperuserGuard
    tlc -config MCCredentials.cfg MCCredentials
    tlc -config MCRateLimiter.cfg MCRateLimiter
    tlc -config MCLoginPath.cfg MCLoginPath
    tlc -config MCLoginOverlap.cfg MCLoginFailures
    tlc -config MCRbac.cfg MCRbac
    tlc -config MCSessionClient.cfg MCSessionClient
    tlc -config MCClientCalls.cfg MCSessionClient
    tlc -config MCListPage.cfg MCListPage
    tlc -config MCPageDialogs.cfg MCPageDialogs
    tlc -config MCConsole.cfg MCConsole
    tlapm RefreshSessionsProofs.tla
    tlapm SuperuserGuardProofs.tla
    tlapm CredentialsProofs.tla
    tlapm RateLimiterProofs.tla
    tlapm RbacProofs.tla
    tlapm SessionClientProofs.tla
    tlapm PagesProofs.tla
    tlapm ConsoleProofs.tla
