---------------------------- MODULE SessionClient ----------------------------
(***************************************************************************)
(* The browser's side of a session: frontend/src/lib/api.ts, use-auth.ts   *)
(* and store/auth.ts, in every tab of one browser.  The tabs share the     *)
(* refresh cookie and, where the browser has Web Locks, the lock under     *)
(* which they refresh.  The server is what RefreshSessions and             *)
(* SessionPromise say of it: a family offers its newest token, a consumed  *)
(* token that comes back ends the family.                                  *)
(*                                                                         *)
(* Tokens are numbered in the order they are issued; one number stands for *)
(* the refresh token and the access token of one answer, 0 for none.  A    *)
(* family is named by its first token, and stands for the account that     *)
(* logged in.  A call other than login, refresh and logout changes nothing *)
(* here, so it is served when its answer is handled; a token may expire at *)
(* any moment, so the answer may always be 401.                            *)
(***************************************************************************)
EXTENDS Integers, FiniteSets

CONSTANTS
    Tabs,       \* tabs and windows of one browser
    Calls,      \* calls a page can have under way, besides Me
    Me,         \* GET /me, made by bootstrap and by login
    MaxTokens,  \* bound: answers that carry tokens
    MaxStrays,  \* bound: requests under way whose page is gone
    LockSupport, \* the values "locks" in navigator may have
    None

ASSUME ClientAssumption ==
    /\ MaxTokens \in Nat /\ MaxStrays \in Nat /\ LockSupport \subseteq BOOLEAN
    /\ None \notin Tabs /\ Me \notin Calls

VARIABLES
    issued,     \* tokens issued so far
    root,       \* token -> the family it belongs to
    open,       \* families not revoked and not expired
    strays,     \* tokens of refresh requests whose page is gone, still to be served
    locks,      \* "locks" in navigator, the same for all pages
    cookie,     \* the refresh cookie all tabs share
    holder,     \* the tab that holds REFRESH_LOCK_NAME
    ahead,      \* tab -> tabs that asked for the lock before it
    page,       \* tab -> where its document is
    token,      \* tab -> accessToken, and the store's copy of it
    profile,    \* tab -> the family whose account the store shows as user
    refreshing, \* tab -> isRefreshing
    refresh,    \* tab -> its call of refreshAccessToken
    calls,      \* tab -> call -> its progress; "queued" is failedQueue
    asking,     \* tab -> the token GET /me went out with
    login,      \* tab -> its call of login
    logout,     \* tab -> its call of logoutAction
    happened    \* what has happened in this browser, for the properties

server == <<issued, root, open, strays>>
browser == <<locks, cookie, holder, ahead>>
store == <<page, token, profile>>
work == <<calls, asking>>
vars == <<server, browser, store, refreshing, refresh, work, login, logout,
          happened>>

Token == 1..MaxTokens
Idle == [at |-> "idle", tok |-> 0]

RefreshAt == {"idle", "waiting", "sent", "served", "refused", "done", "failed"}
CallAt == {"idle", "out", "again", "waits", "queued"}
LoginAt == {"idle", "sent", "me"}
PageAt == {"closed", "restoring", "profile", "open", "refused", "left"}
Events == {"lost", "ended", "cleared", "mixed", "replay"}

TypeOK ==
    /\ issued \in 0..MaxTokens /\ root \in [Token -> 0..MaxTokens]
    /\ open \subseteq Token /\ strays \subseteq 0..MaxTokens
    /\ locks \in LockSupport /\ cookie \in 0..MaxTokens
    /\ holder \in Tabs \cup {None} /\ ahead \in [Tabs -> SUBSET Tabs]
    /\ page \in [Tabs -> PageAt]
    /\ token \in [Tabs -> 0..MaxTokens] /\ profile \in [Tabs -> 0..MaxTokens]
    /\ refreshing \in [Tabs -> BOOLEAN]
    /\ refresh \in [Tabs -> [at : RefreshAt, tok : 0..MaxTokens]]
    /\ calls \in [Tabs -> [Calls \cup {Me} -> CallAt]]
    /\ asking \in [Tabs -> 0..MaxTokens]
    /\ login \in [Tabs -> LoginAt]
    /\ logout \in [Tabs -> [at : {"idle", "sent"}, tok : 0..MaxTokens]]
    /\ happened \subseteq Events

\* Either nobody has a session, or a cookie is left from an earlier visit.
Init ==
    /\ issued \in {0, 1} \cap 0..MaxTokens
    /\ cookie = issued /\ open = 1..issued
    /\ root = [k \in Token |-> IF k <= issued THEN 1 ELSE 0]
    /\ strays = {}
    /\ locks \in LockSupport /\ holder = None /\ ahead = [t \in Tabs |-> {}]
    /\ page = [t \in Tabs |-> "closed"]
    /\ token = [t \in Tabs |-> 0] /\ profile = [t \in Tabs |-> 0]
    /\ refreshing = [t \in Tabs |-> FALSE]
    /\ refresh = [t \in Tabs |-> Idle]
    /\ calls = [t \in Tabs |-> [c \in Calls \cup {Me} |-> "idle"]]
    /\ asking = [t \in Tabs |-> 0]
    /\ login = [t \in Tabs |-> "idle"] /\ logout = [t \in Tabs |-> Idle]
    /\ happened = {}

-----------------------------------------------------------------------------
\* The server

Newest(k) == \A j \in 1..issued : root[j] = root[k] => j <= k

\* mutant: a consumed token is exchanged as well
ExchangeableConsumed(k) == k # 0 /\ root[k] \in open

Exchangeable(k) == k # 0 /\ root[k] \in open /\ Newest(k)
Accepted(k) == k # 0 /\ root[k] \in open

Issue(r) ==
    /\ issued < MaxTokens
    /\ issued' = issued + 1
    /\ root' = [root EXCEPT ![issued + 1] = r]

EndFamily(k) == open' = IF k = 0 THEN open ELSE open \ {root[k]}

\* The exchange of token k, answered by a token; or its refusal.
Rotate(k) == Exchangeable(k) /\ Issue(root[k]) /\ UNCHANGED open
Refuse(k) ==
    /\ ~Exchangeable(k)
    /\ EndFamily(k)
    /\ UNCHANGED <<issued, root>>
Replayed(k) == IF k # 0 /\ root[k] \in open THEN {"replay"} ELSE {}

ServeRefresh(t) ==
    LET k == refresh[t].tok IN
    /\ refresh[t].at = "sent"
    /\ \/ /\ Rotate(k)
          /\ refresh' = [refresh EXCEPT ![t] = [at |-> "served", tok |-> issued + 1]]
          /\ UNCHANGED happened
       \/ /\ Refuse(k)
          /\ refresh' = [refresh EXCEPT ![t].at = "refused"]
          /\ happened' = happened \cup Replayed(k)
    /\ UNCHANGED <<strays, browser, store, refreshing, work, login, logout>>

\* What a closed page had sent may still be served; nobody gets the answer.
\* A logout served so late is an EndSession.
ServeStray(k) ==
    /\ k \in strays /\ strays' = strays \ {k}
    /\ Rotate(k) \/ Refuse(k)
    /\ UNCHANGED <<browser, store, refreshing, refresh, work, login, logout,
                   happened>>

\* Expiry of the family, a password change, an administrator, a late logout.
EndSession(r) ==
    /\ r \in open /\ open' = open \ {r}
    /\ happened' = happened \cup {"ended"}
    /\ UNCHANGED <<issued, root, strays, browser, store, refreshing,
                   refresh, work, login, logout>>

-----------------------------------------------------------------------------
\* refreshAccessToken

LoginUnderWay == \E u \in Tabs : login[u] = "sent"
Mixed == IF LoginUnderWay THEN {"mixed"} ELSE {}

SendRefresh(t) == refresh' = [refresh EXCEPT ![t] = [at |-> "sent", tok |-> cookie]]

\* mutant: requestNewAccessToken is called without the lock
RefreshUnlocked(t) ==
    /\ SendRefresh(t)
    /\ happened' = happened \cup Mixed
    /\ UNCHANGED ahead

RefreshAccessToken(t) ==
    \/ /\ locks
       /\ refresh' = [refresh EXCEPT ![t] = [at |-> "waiting", tok |-> 0]]
       /\ ahead' = [ahead EXCEPT ![t] = {u \in Tabs : refresh[u].at = "waiting"}]
       /\ UNCHANGED happened
    \/ /\ ~locks /\ SendRefresh(t)
       /\ happened' = happened \cup Mixed
       /\ UNCHANGED ahead

\* mutant: the callback under the lock does not return its promise
GrantNotAwaited(t) ==
    /\ refresh[t].at = "waiting" /\ holder = None /\ ahead[t] = {}
    /\ ahead' = [u \in Tabs |-> ahead[u] \ {t}]
    /\ SendRefresh(t)
    /\ happened' = happened \cup Mixed
    /\ UNCHANGED <<server, locks, cookie, holder, store, refreshing, work, login, logout>>

\* The lock is granted in the order it was asked for.
Grant(t) ==
    /\ refresh[t].at = "waiting" /\ holder = None /\ ahead[t] = {}
    /\ holder' = t
    /\ ahead' = [u \in Tabs |-> ahead[u] \ {t}]
    /\ SendRefresh(t)
    /\ happened' = happened \cup Mixed
    /\ UNCHANGED <<server, locks, cookie, store, refreshing, work, login, logout>>

\* mutant: the lock is taken for good
NoRelease(t) == UNCHANGED holder

Release(t) == holder' = IF holder = t THEN None ELSE holder

\* requestNewAccessToken gets its answer; the browser stores the cookie first.
RefreshAnswered(t) ==
    LET k == refresh[t].tok IN
    /\ \/ /\ refresh[t].at = "served"
          /\ cookie' = k
          /\ token' = [token EXCEPT ![t] = k]
          /\ refresh' = [refresh EXCEPT ![t].at = "done"]
          /\ UNCHANGED happened
       \/ /\ refresh[t].at = "refused"
          /\ cookie' = IF k = 0 THEN cookie ELSE 0
          /\ refresh' = [refresh EXCEPT ![t].at = "failed"]
          /\ happened' = happened \cup
                (IF k # 0 /\ cookie \notin {0, k} THEN {"cleared"} ELSE {})
          /\ UNCHANGED token
    /\ Release(t)
    /\ UNCHANGED <<server, locks, ahead, page, profile, refreshing, work, login, logout>>

\* A request given up before it was served is lost on its way, or is a stray.
Vanish(t) ==
    \/ UNCHANGED strays
    \/ /\ refresh[t].at = "sent" /\ Cardinality(strays) < MaxStrays
       /\ strays' = strays \cup {refresh[t].tok}
Loss(t) == IF refresh[t].at \in {"sent", "served"} THEN {"lost"} ELSE {}

\* No answer, before or after the server has served the request.
RefreshLost(t) ==
    /\ refresh[t].at \in {"sent", "served", "refused"}
    /\ refresh' = [refresh EXCEPT ![t].at = "failed"]
    /\ Vanish(t)
    /\ happened' = happened \cup Loss(t)
    /\ Release(t)
    /\ UNCHANGED <<locks, issued, root, open, cookie, ahead, store, refreshing,
                   work, login, logout>>

-----------------------------------------------------------------------------
\* Calls through the axios instance

\* A page makes a call; the request interceptor adds the token.
Call(t, c) ==
    /\ page[t] = "open" /\ token[t] # 0 /\ login[t] = "idle"
    /\ calls[t][c] = "idle"
    /\ calls' = [calls EXCEPT ![t][c] = "out"]
    /\ UNCHANGED <<server, browser, store, refreshing, refresh, asking, login,
                   logout, happened>>

\* What waited for GET /me goes on: bootstrap ends, login ends.
Continue(t) ==
    /\ page' = [page EXCEPT ![t] = IF @ = "profile" THEN "open" ELSE @]
    /\ login' = [login EXCEPT ![t] = IF @ = "me" THEN "idle" ELSE @]

\* The call succeeds, fails with another error than 401, or gets a 401 after
\* it was repeated: its caller has an answer.
CallSettled(t, c) ==
    /\ calls[t][c] \in {"out", "again"}
    /\ calls' = [calls EXCEPT ![t][c] = "idle"]
    /\ \/ /\ c = Me /\ Continue(t)
          /\ asking' = [asking EXCEPT ![t] = 0]
          /\ \/ Accepted(asking[t]) /\ profile' = [profile EXCEPT ![t] = root[asking[t]]]
             \/ UNCHANGED profile
       \/ c # Me /\ UNCHANGED <<page, profile, login, asking>>
    /\ UNCHANGED <<server, browser, token, refreshing, refresh, logout, happened>>

\* A first 401 while isRefreshing: the call joins failedQueue.
CallQueued(t, c) ==
    /\ calls[t][c] = "out" /\ refreshing[t]
    /\ calls' = [calls EXCEPT ![t][c] = "queued"]
    /\ UNCHANGED <<server, browser, store, refreshing, refresh, asking, login,
                   logout, happened>>

\* A first 401 otherwise: the call starts the refresh and waits for it.
CallStartsRefresh(t, c) ==
    /\ calls[t][c] = "out" /\ ~refreshing[t]
    /\ calls' = [calls EXCEPT ![t][c] = "waits"]
    /\ refreshing' = [refreshing EXCEPT ![t] = TRUE]
    /\ RefreshAccessToken(t)
    /\ UNCHANGED <<server, locks, cookie, holder, store, asking, login, logout>>

\* mutant: failedQueue is emptied before it is walked
ProcessEmptied(t) ==
    calls' = [calls EXCEPT ![t] = [c \in Calls \cup {Me} |->
        IF @[c] = "waits" THEN "again" ELSE @[c]]]

\* processQueue(null), and the call that waited is repeated.
ProcessQueue(t) ==
    calls' = [calls EXCEPT ![t] = [c \in Calls \cup {Me} |->
        CASE @[c] = "waits" -> "again"
          [] @[c] = "queued" -> "out"
          [] OTHER -> @[c]]]

RejectQueue(t) ==
    calls' = [calls EXCEPT ![t] = [c \in Calls \cup {Me} |->
        IF @[c] \in {"waits", "queued"} THEN "idle" ELSE @[c]]]

\* The interceptor puts the current token on what is sent again; a signed-out
\* page keeps the one the refresh returned.
RefreshDone(t) ==
    /\ refresh[t].at = "done" /\ refreshing[t]
    /\ ProcessQueue(t)
    /\ asking' = [asking EXCEPT ![t] =
          IF calls[t][Me] \notin {"waits", "queued"} THEN @
          ELSE IF token[t] # 0 THEN token[t]
          ELSE IF calls[t][Me] = "waits" THEN refresh[t].tok ELSE 0]
    /\ refreshing' = [refreshing EXCEPT ![t] = FALSE]
    /\ refresh' = [refresh EXCEPT ![t] = Idle]
    /\ UNCHANGED <<server, browser, store, login, logout, happened>>

\* mutant: no finally, so isRefreshing stays true after a failure
FailedWithoutFinally(t) ==
    /\ refresh[t].at = "failed" /\ refreshing[t]
    /\ token' = [token EXCEPT ![t] = 0]
    /\ RejectQueue(t)
    /\ page' = [page EXCEPT ![t] = "refused"]
    /\ refresh' = [refresh EXCEPT ![t] = Idle]
    /\ UNCHANGED <<server, browser, profile, refreshing, asking, login, logout, happened>>

\* The failed refresh fails the calls that waited for it, and the document
\* leaves for the login page.
RefreshFailed(t) ==
    LET meWaits == calls[t][Me] \in {"waits", "queued"} IN
    /\ refresh[t].at = "failed" /\ refreshing[t]
    /\ token' = [token EXCEPT ![t] = 0]
    /\ RejectQueue(t)
    /\ login' = [login EXCEPT ![t] = IF meWaits /\ @ = "me" THEN "idle" ELSE @]
    /\ page' = [page EXCEPT ![t] = "refused"]
    /\ refreshing' = [refreshing EXCEPT ![t] = FALSE]
    /\ refresh' = [refresh EXCEPT ![t] = Idle]
    /\ asking' = [asking EXCEPT ![t] = IF meWaits THEN 0 ELSE @]
    /\ UNCHANGED <<server, browser, profile, logout, happened>>

-----------------------------------------------------------------------------
\* bootstrap, login, logout and the life of a page

\* A document loads, empty, and bootstrap asks for a token once.
OpenPage(t) ==
    /\ page[t] = "closed"
    /\ page' = [page EXCEPT ![t] = "restoring"]
    /\ RefreshAccessToken(t)
    /\ UNCHANGED <<server, locks, cookie, holder, token, profile, refreshing, work,
                   login, logout>>

AskMe(t, k) ==
    /\ calls' = [calls EXCEPT ![t][Me] = "out"]
    /\ asking' = [asking EXCEPT ![t] = k]

\* bootstrap goes on: fetchProfile, or no session, with no redirect.
Restored(t) ==
    /\ page[t] = "restoring"
    /\ \/ /\ refresh[t].at = "done"
          /\ AskMe(t, token[t])
          /\ page' = [page EXCEPT ![t] = "profile"]
       \/ /\ refresh[t].at = "failed"
          /\ page' = [page EXCEPT ![t] = "open"]
          /\ UNCHANGED work
    /\ refresh' = [refresh EXCEPT ![t] = Idle]
    /\ UNCHANGED <<server, browser, token, profile, refreshing, login, logout, happened>>

\* A login that meets a page signed in, a refresh or a login under way.
Alone == \A u \in Tabs : /\ token[u] = 0
                         /\ login[u] = "idle"
                         /\ refresh[u].at \notin {"sent", "served"}

Login(t) ==
    /\ page[t] = "open" /\ login[t] = "idle" /\ logout[t] = Idle
    /\ login' = [login EXCEPT ![t] = "sent"]
    /\ happened' = happened \cup (IF Alone THEN {} ELSE {"mixed"})
    /\ UNCHANGED <<server, browser, store, refreshing, refresh, work, logout>>

\* create_login_session opens a family.  Serving and answering are one step:
\* nobody else can use the new family before the answer.
LoginAnswered(t) ==
    LET k == issued + 1 IN
    /\ login[t] = "sent"
    /\ Issue(k) /\ open' = open \cup {k}
    /\ cookie' = k
    /\ token' = [token EXCEPT ![t] = k]
    /\ AskMe(t, k)
    /\ login' = [login EXCEPT ![t] = "me"]
    /\ UNCHANGED <<locks, strays, holder, ahead, page, profile, refreshing, refresh,
                   logout, happened>>

\* Wrong password, rate limit, or no answer.  A 401 of /auth/login starts no
\* refresh.
LoginFails(t) ==
    /\ login[t] = "sent"
    /\ login' = [login EXCEPT ![t] = "idle"]
    /\ UNCHANGED <<server, browser, store, refreshing, refresh, work, logout, happened>>

Logout(t) ==
    /\ page[t] = "open" /\ token[t] # 0 /\ login[t] = "idle" /\ logout[t] = Idle
    /\ logout' = [logout EXCEPT ![t] = [at |-> "sent", tok |-> cookie]]
    /\ UNCHANGED <<server, browser, store, refreshing, refresh, work, login, happened>>

\* mutant: logout drops the token and stays on the page
LogoutInPlace(t) ==
    /\ logout[t].at = "sent"
    /\ EndFamily(logout[t].tok) /\ cookie' = 0
    /\ happened' = happened \cup {"ended"}
    /\ logout' = [logout EXCEPT ![t] = Idle]
    /\ token' = [token EXCEPT ![t] = 0]
    /\ UNCHANGED <<locks, issued, root, strays, holder, ahead, page, profile, refreshing,
                   refresh, work, login>>

\* The answer clears the cookie; with or without it the page signs out.
LogoutEnds(t) ==
    /\ logout[t].at = "sent"
    /\ \/ EndFamily(logout[t].tok) /\ cookie' = 0
       \/ (EndFamily(logout[t].tok) \/ UNCHANGED open) /\ UNCHANGED cookie
    /\ happened' = happened \cup {"ended"}
    /\ logout' = [logout EXCEPT ![t] = Idle]
    /\ token' = [token EXCEPT ![t] = 0]
    /\ profile' = [profile EXCEPT ![t] = 0]
    /\ page' = [page EXCEPT ![t] = "left"]
    /\ UNCHANGED <<locks, issued, root, strays, holder, ahead, refreshing, refresh, work,
                   login>>

\* A reload, a closed tab, or the navigation that location.href began.  The
\* browser takes the lock back and drops the answers still to come.
ClosePage(t) ==
    /\ page[t] # "closed"
    /\ page' = [page EXCEPT ![t] = "closed"]
    /\ token' = [token EXCEPT ![t] = 0] /\ profile' = [profile EXCEPT ![t] = 0]
    /\ refreshing' = [refreshing EXCEPT ![t] = FALSE]
    /\ refresh' = [refresh EXCEPT ![t] = Idle]
    /\ calls' = [calls EXCEPT ![t] = [c \in Calls \cup {Me} |-> "idle"]]
    /\ asking' = [asking EXCEPT ![t] = 0]
    /\ login' = [login EXCEPT ![t] = "idle"] /\ logout' = [logout EXCEPT ![t] = Idle]
    /\ Release(t)
    /\ ahead' = [u \in Tabs |-> IF u = t THEN {} ELSE ahead[u] \ {t}]
    /\ Vanish(t)
    /\ happened' = happened \cup Loss(t)
    /\ UNCHANGED <<locks, issued, root, open, cookie>>

-----------------------------------------------------------------------------
Server ==
    \/ \E t \in Tabs : ServeRefresh(t)
    \/ \E k \in strays : ServeStray(k)
    \/ \E r \in open : EndSession(r)

Refresh(t) ==
    \/ Grant(t) \/ RefreshAnswered(t) \/ RefreshLost(t)
    \/ RefreshDone(t) \/ RefreshFailed(t) \/ Restored(t)

CallStep(t, c) == CallSettled(t, c) \/ CallQueued(t, c) \/ CallStartsRefresh(t, c)

User(t) ==
    \/ OpenPage(t) \/ ClosePage(t) \/ Login(t) \/ Logout(t)
    \/ \E c \in Calls : Call(t, c)

Page(t) ==
    \/ Refresh(t) \/ LoginAnswered(t) \/ LoginFails(t) \/ LogoutEnds(t)
    \/ \E c \in Calls \cup {Me} : CallStep(t, c)

Next == Server \/ \E t \in Tabs : User(t) \/ Page(t)

Spec == Init /\ [][Next]_vars

\* The browser grants a free lock, the network answers or gives up, promises
\* are resumed, and a document told to leave goes.
Fairness ==
    \A t \in Tabs :
        /\ WF_vars(ServeRefresh(t) \/ Refresh(t))
        /\ WF_vars(LoginAnswered(t) \/ LoginFails(t) \/ LogoutEnds(t))
        /\ \A c \in Calls \cup {Me} : WF_vars(CallStep(t, c))
        /\ WF_vars(page[t] \in {"refused", "left"} /\ ClosePage(t))

FairSpec == Spec /\ Fairness

-----------------------------------------------------------------------------
\* Every call that waits for a refresh has one to wait for, and isRefreshing
\* stands for exactly one call that will settle them all: no interleaving of
\* 401s, refresh answers and sign-outs strands a member of failedQueue.
NoCallStranded ==
    \A t \in Tabs :
        LET Waiting(how) == {c \in Calls \cup {Me} : calls[t][c] = how} IN
        /\ Waiting("waits") \cup Waiting("queued") # {} => refreshing[t]
        /\ refreshing[t] => /\ refresh[t].at # "idle"
                            /\ Cardinality(Waiting("waits")) = 1

\* With Web Locks the tabs of one browser, refreshing, logging in and out at
\* the same time, make the server see a replay only after the answer of a
\* refresh was lost or its page was closed under it.
SelfReplayNeedsLoss ==
    locks /\ "replay" \in happened => "lost" \in happened

\* A signed-in page is sent to the login page by the failure of a refresh only
\* if an answer was lost, a session was ended, or the refusal of an older
\* refresh cleared the cookie a newer login had set.
RedirectNeedsCause ==
    locks /\ (\E t \in Tabs : page[t] = "refused")
        => happened \cap {"lost", "ended", "cleared"} # {}

\* The user and permissions an open page shows are those of the account its token
\* belongs to, unless someone logged in on this browser while another page
\* was signed in or a refresh or login was under way.
ProfileMatchesToken ==
    "mixed" \notin happened =>
        \A t \in Tabs : page[t] = "open" /\ profile[t] # 0
            => token[t] # 0 /\ root[token[t]] = profile[t]

\* Every call comes back to its caller, and every page that loads gets past
\* the restoring of its session, whatever is lost or refused meanwhile.
EveryCallSettles ==
    \A t \in Tabs :
        /\ \A c \in Calls \cup {Me} : calls[t][c] # "idle" ~> calls[t][c] = "idle"
        /\ page[t] = "restoring" ~> page[t] # "restoring"

\* The server the pages meet, with the requests of closed pages and whatever
\* ends a session, takes only steps RefreshSessions has been shown to take: one
\* token at a time for a family, a new one for each exchange, none once it ended.
Promise == INSTANCE SessionPromise WITH
    Sessions <- Token, Tokens <- Token,
    begun <- {root[k] : k \in 1..issued}, signed <- 1..issued,
    offer <- [r \in Token |-> {k \in 1..issued : root[k] = r /\ Exchangeable(k)}]

ServerKeepsPromise == [][Promise!PromiseNext]_(Promise!promiseVars)

-----------------------------------------------------------------------------
\* The inductive invariant, in parts.

InFlight(t) == refresh[t].at \in {"sent", "served", "refused"}

\* The lock is held exactly while a request is out, by one tab.
LockInv ==
    /\ locks => \A t \in Tabs : InFlight(t) <=> holder = t
    /\ ~locks => holder = None /\ \A t \in Tabs : refresh[t].at # "waiting"

\* Families are named by a token of theirs; nobody holds a token not issued.
TokenInv ==
    /\ \A k \in Token : root[k] # 0 <=> k <= issued
    /\ \A k \in 1..issued : root[k] <= k /\ root[root[k]] = root[k]
    /\ open \subseteq {k \in 1..issued : root[k] = k}
    /\ cookie <= issued
    /\ \A t \in Tabs : /\ token[t] <= issued /\ refresh[t].tok <= issued
                       /\ asking[t] <= issued /\ logout[t].tok <= issued

\* What a page waits for is under way, and what is under way is waited for.
PageInv ==
    \A t \in Tabs :
        /\ refresh[t].at # "idle" <=> refreshing[t] \/ page[t] = "restoring"
        /\ page[t] \in {"closed", "restoring"} =>
              /\ ~refreshing[t] /\ login[t] = "idle" /\ logout[t].at = "idle"
              /\ profile[t] = 0 /\ asking[t] = 0
              /\ \A c \in Calls \cup {Me} : calls[t][c] = "idle"
        /\ refresh[t].at \in {"served", "done"} => refresh[t].tok # 0
        /\ login[t] = "sent" \/ (page[t] = "open" /\ login[t] = "idle")
              => calls[t][Me] = "idle"

\* Until an answer is lost, what is out and what the browser keeps is newest,
\* but for the answer that is on its way.
NewestInv ==
    locks /\ "lost" \notin happened =>
        /\ "replay" \notin happened /\ strays = {}
        /\ \A t \in Tabs : refresh[t].at \in {"sent", "served"} /\ refresh[t].tok # 0
              => Newest(refresh[t].tok)
        /\ \/ cookie = 0 \/ Newest(cookie)
           \/ \E t \in Tabs : /\ refresh[t].at = "served"
                              /\ root[refresh[t].tok] = root[cookie]

\* Until a session ends or an answer or a cookie is lost, what a signed-in page
\* sends is accepted.
AcceptedInv ==
    locks /\ happened \cap {"lost", "ended", "cleared"} = {} =>
        /\ \A k \in 1..issued : root[k] \in open
        /\ issued # 0 => cookie # 0
        /\ \A t \in Tabs :
              /\ page[t] # "refused"
              /\ (\E c \in Calls \cup {Me} : calls[t][c] # "idle") \/ token[t] # 0
                    => issued # 0
              /\ refreshing[t] => /\ refresh[t].at \notin {"refused", "failed"}
                                  /\ refresh[t].at = "sent" => refresh[t].tok # 0
              /\ refresh[t].at = "refused" => refresh[t].tok = 0

Held == ({cookie} \cup {token[t] : t \in Tabs}
           \cup {refresh[t].tok : t \in {u \in Tabs : refresh[u].at \in {"sent", "served"}}})
        \ {0}

\* Until a login meets a page signed in, all the browser holds is one family's.
FamilyInv ==
    "mixed" \notin happened =>
        /\ \A j, k \in Held : root[j] = root[k]
        /\ \A t \in Tabs : login[t] = "sent" =>
              \A u \in Tabs : /\ token[u] = 0
                              /\ refresh[u].at \notin {"sent", "served"}
                              /\ login[u] = "sent" => u = t
        /\ \A t \in Tabs : page[t] \in {"profile", "open"} =>
              /\ asking[t] # 0 => token[t] # 0 /\ root[token[t]] = root[asking[t]]
              /\ profile[t] # 0 => token[t] # 0 /\ root[token[t]] = profile[t]
              /\ refresh[t].at = "done" => token[t] # 0

\* What the pages and the server know of each other at any moment: the
\* lock, the tokens, what waits for what, and until the first mishap that the
\* browser holds the newest token of one open family.
ClientInv ==
    /\ TypeOK /\ LockInv /\ TokenInv /\ PageInv /\ NoCallStranded
    /\ NewestInv /\ AcceptedInv /\ FamilyInv

=============================================================================
