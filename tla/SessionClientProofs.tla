------------------------ MODULE SessionClientProofs ------------------------
(***************************************************************************)
(* The invariant of the tabs of one browser, for any number of tabs, calls *)
(* and tokens.                                                             *)
(***************************************************************************)
EXTENDS SessionClient, FiniteSetTheorems, TLAPS

All == Calls \cup {Me}
Num == 0..MaxTokens
RefreshRec == [at : RefreshAt, tok : Num]
LogoutRec == [at : {"idle", "sent"}, tok : Num]
CallRec == [All -> CallAt]

------------------------------------------------------------------------------
(* Types.                                                                  *)

LEMMA Updated ==
  ASSUME NEW S, NEW R, NEW f \in [S -> R], NEW x \in S, NEW y \in R
  PROVE  [f EXCEPT ![x] = y] \in [S -> R]
OBVIOUS

LEMMA Recorded ==
  /\ \A a \in RefreshAt, k \in Num : [at |-> a, tok |-> k] \in RefreshRec
  /\ \A r \in RefreshRec : r.at \in RefreshAt /\ r.tok \in Num
  /\ \A a \in {"idle", "sent"}, k \in Num : [at |-> a, tok |-> k] \in LogoutRec
  /\ \A r \in LogoutRec : r.at \in {"idle", "sent"} /\ r.tok \in Num
  /\ Idle \in RefreshRec /\ Idle \in LogoutRec
  /\ Idle.at = "idle" /\ Idle.tok = 0
<1>1. 0 \in Num
  BY ClientAssumption DEF Num
<1>2. /\ \A a \in RefreshAt, k \in Num : [at |-> a, tok |-> k] \in RefreshRec
      /\ \A a \in {"idle", "sent"}, k \in Num : [at |-> a, tok |-> k] \in LogoutRec
  BY DEF RefreshRec, LogoutRec
<1>3. /\ \A r \in RefreshRec : r.at \in RefreshAt /\ r.tok \in Num
      /\ \A r \in LogoutRec : r.at \in {"idle", "sent"} /\ r.tok \in Num
  BY DEF RefreshRec, LogoutRec
<1>4. "idle" \in RefreshAt
  BY DEF RefreshAt
<1> QED BY <1>1, <1>2, <1>3, <1>4 DEF Idle

LEMMA AtSet ==
  ASSUME NEW f \in [Tabs -> RefreshRec], NEW t \in Tabs, NEW a \in RefreshAt
  PROVE  /\ [f EXCEPT ![t].at = a] \in [Tabs -> RefreshRec]
         /\ [f EXCEPT ![t].at = a] = [f EXCEPT ![t] = [at |-> a, tok |-> f[t].tok]]
<1>1. f[t] \in RefreshRec
  OBVIOUS
<1>2. [f[t] EXCEPT !.at = a] = [at |-> a, tok |-> f[t].tok]
  BY <1>1 DEF RefreshRec
<1>3. [at |-> a, tok |-> f[t].tok] \in RefreshRec
  BY <1>1, Recorded
<1> QED BY <1>2, <1>3

(* TypeOK with its sets named, and what the named sets hold.               *)
Typed ==
  /\ issued \in Num /\ root \in [Token -> Num]
  /\ open \subseteq Token /\ strays \subseteq Num
  /\ locks \in LockSupport /\ cookie \in Num
  /\ holder \in Tabs \cup {None} /\ ahead \in [Tabs -> SUBSET Tabs]
  /\ page \in [Tabs -> PageAt]
  /\ token \in [Tabs -> Num] /\ profile \in [Tabs -> Num]
  /\ refreshing \in [Tabs -> BOOLEAN]
  /\ refresh \in [Tabs -> RefreshRec]
  /\ calls \in [Tabs -> CallRec]
  /\ asking \in [Tabs -> Num]
  /\ login \in [Tabs -> LoginAt]
  /\ logout \in [Tabs -> LogoutRec]
  /\ happened \subseteq Events

LEMMA TypedIsTypeOK == Typed <=> TypeOK
BY DEF Typed, TypeOK, Num, RefreshRec, LogoutRec, CallRec, All

LEMMA Sets ==
  /\ {"idle", "waiting", "sent", "served", "refused", "done", "failed"} \subseteq RefreshAt
  /\ {"idle", "out", "again", "waits", "queued"} \subseteq CallAt
  /\ {"idle", "sent", "me"} \subseteq LoginAt
  /\ {"closed", "restoring", "profile", "open", "refused", "left"} \subseteq PageAt
  /\ {"lost", "ended", "cleared", "mixed", "replay"} \subseteq Events
  /\ 0 \in Num /\ Num \subseteq Nat
  /\ Token = Num \ {0} /\ Me \in All /\ Calls \subseteq All /\ Idle \in RefreshRec
  /\ \A k \in Num : k < MaxTokens => k + 1 \in Num /\ k + 1 \in Token
BY ClientAssumption, Recorded
   DEF RefreshAt, CallAt, LoginAt, PageAt, Events, Num, Token, All

(* The request that refreshAccessToken makes, or its place in the queue.   *)
LEMMA RefreshTyped ==
  ASSUME Typed, NEW t \in Tabs, RefreshAccessToken(t)
  PROVE  /\ refresh' \in [Tabs -> RefreshRec] /\ ahead' \in [Tabs -> SUBSET Tabs]
         /\ happened' \subseteq Events
<1>1. \E r \in RefreshRec : refresh' = [refresh EXCEPT ![t] = r]
  <2>1. [at |-> "sent", tok |-> cookie] \in RefreshRec /\ [at |-> "waiting", tok |-> 0] \in RefreshRec
    BY Sets, Recorded DEF Typed
  <2> QED BY <2>1 DEF RefreshAccessToken, SendRefresh
<1>2. refresh' \in [Tabs -> RefreshRec]
  BY <1>1, Updated DEF Typed
<1>3. ahead' \in [Tabs -> SUBSET Tabs]
  BY DEF Typed, RefreshAccessToken
<1>4. happened' \subseteq Events
  BY Sets DEF Typed, RefreshAccessToken, Mixed
<1> QED BY <1>2, <1>3, <1>4

(* Every step keeps the types. *)
LEMMA TypeStep ==
  ASSUME Typed, [Next]_vars
  PROVE  Typed'
<1>0. Typed
  OBVIOUS
<1>1. ASSUME NEW t \in Tabs, ServeRefresh(t) PROVE Typed'
  <2>0. refresh[t] \in RefreshRec /\ refresh[t].at \in RefreshAt /\ refresh[t].tok \in Num
    BY Recorded DEF Typed
  <2>1. ASSUME NEW x \in Num, Rotate(x) \/ Refuse(x)
        PROVE  issued' \in Num /\ root' \in [Token -> Num] /\ open' \subseteq Token
    <3>1. CASE Refuse(x)
      BY <1>0, <3>1 DEF Typed, Refuse, EndFamily
    <3>2. CASE Rotate(x)
      <4>1. x \in Token
        BY <3>2, Sets DEF Rotate, Exchangeable
      <4>2. root[x] \in Num
        BY <1>0, <4>1 DEF Typed
      <4> QED BY <1>0, <3>2, <4>2, Sets, Updated DEF Typed, Rotate, Issue
    <3> QED BY <2>1, <3>1, <3>2
  <2>2. Rotate(refresh[t].tok) \/ Refuse(refresh[t].tok)
    BY <1>1 DEF ServeRefresh
  <2>3. refresh' \in [Tabs -> RefreshRec]
    <3>1. CASE /\ Rotate(refresh[t].tok)
               /\ refresh' = [refresh EXCEPT ![t] = [at |-> "served", tok |-> issued + 1]]
      <4>1. issued + 1 \in Num
        BY <1>0, <3>1, Sets DEF Typed, Rotate, Issue
      <4>2. [at |-> "served", tok |-> issued + 1] \in RefreshRec
        BY <4>1, Sets, Recorded
      <4> QED BY <1>0, <3>1, <4>2, Updated DEF Typed
    <3>2. CASE refresh' = [refresh EXCEPT ![t].at = "refused"]
      BY <1>0, <3>2, AtSet, Sets DEF Typed
    <3> QED BY <1>1, <3>1, <3>2 DEF ServeRefresh
  <2>4. happened' \subseteq Events
    BY <1>0, <1>1, Sets DEF Typed, ServeRefresh, Replayed
  <2> QED BY <1>0, <1>1, <2>0, <2>1, <2>2, <2>3, <2>4 DEF Typed, ServeRefresh, browser, store, work
<1>2. ASSUME NEW k \in strays, ServeStray(k) PROVE Typed'
  <2>1. ASSUME NEW x \in Num, Rotate(x) \/ Refuse(x)
        PROVE  issued' \in Num /\ root' \in [Token -> Num] /\ open' \subseteq Token
    <3>1. CASE Refuse(x)
      BY <1>0, <3>1 DEF Typed, Refuse, EndFamily
    <3>2. CASE Rotate(x)
      <4>1. x \in Token
        BY <3>2, Sets DEF Rotate, Exchangeable
      <4>2. root[x] \in Num
        BY <1>0, <4>1 DEF Typed
      <4> QED BY <1>0, <3>2, <4>2, Sets, Updated DEF Typed, Rotate, Issue
    <3> QED BY <2>1, <3>1, <3>2
  <2>2. k \in Num /\ (Rotate(k) \/ Refuse(k)) /\ strays' \subseteq Num
    BY <1>0, <1>2 DEF Typed, ServeStray
  <2> QED BY <1>0, <1>2, <2>1, <2>2 DEF Typed, ServeStray, browser, store, work
<1>3. ASSUME NEW r \in open, EndSession(r) PROVE Typed'
  BY <1>0, <1>3, Sets DEF Typed, EndSession, browser, store, work
<1>4. ASSUME NEW t \in Tabs, Grant(t) PROVE Typed'
  <2>1. refresh' = [refresh EXCEPT ![t] = [at |-> "sent", tok |-> cookie]]
    BY <1>4 DEF Grant, SendRefresh
  <2>2. refresh' \in [Tabs -> RefreshRec]
    <3>1. [at |-> "sent", tok |-> cookie] \in RefreshRec
      BY <1>0, Sets, Recorded DEF Typed
    <3> QED BY <1>0, <2>1, <3>1, Updated DEF Typed
  <2>3. happened' \subseteq Events
    BY <1>0, <1>4, Sets DEF Typed, Grant, Mixed
  <2>4. ahead' \in [Tabs -> SUBSET Tabs]
    BY <1>0, <1>4 DEF Typed, Grant
  <2> QED BY <1>0, <1>4, <2>2, <2>3, <2>4 DEF Typed, Grant, server, store, work
<1>5. ASSUME NEW t \in Tabs, RefreshAnswered(t) PROVE Typed'
  <2>0. refresh[t] \in RefreshRec /\ refresh[t].at \in RefreshAt /\ refresh[t].tok \in Num
    BY Recorded DEF Typed
  <2>1. refresh' \in [Tabs -> RefreshRec]
    <3>1. PICK a \in {"done", "failed"} : refresh' = [refresh EXCEPT ![t].at = a]
      BY <1>5 DEF RefreshAnswered
    <3>2. a \in RefreshAt
      BY Sets
    <3> QED BY <1>0, <3>1, <3>2, AtSet DEF Typed
  <2>2. cookie' \in Num /\ token' \in [Tabs -> Num]
    BY <1>0, <1>5, <2>0, Sets, Updated DEF Typed, RefreshAnswered
  <2>3. happened' \subseteq Events
    BY <1>0, <1>5, Sets DEF Typed, RefreshAnswered
  <2>4. holder' \in Tabs \cup {None}
    BY <1>0, <1>5 DEF Typed, RefreshAnswered, Release
  <2> QED BY <1>0, <1>5, <2>1, <2>2, <2>3, <2>4 DEF Typed, RefreshAnswered, server, store, work
<1>6. ASSUME NEW t \in Tabs, RefreshLost(t) PROVE Typed'
  <2>0. refresh[t] \in RefreshRec /\ refresh[t].at \in RefreshAt /\ refresh[t].tok \in Num
    BY Recorded DEF Typed
  <2>1. refresh' \in [Tabs -> RefreshRec]
    BY <1>0, <1>6, AtSet, Sets DEF Typed, RefreshLost
  <2>2. strays' \subseteq Num
    BY <1>0, <1>6, <2>0 DEF Typed, RefreshLost, Vanish
  <2>3. happened' \subseteq Events
    BY <1>0, <1>6, Sets DEF Typed, RefreshLost, Loss
  <2>4. holder' \in Tabs \cup {None}
    BY <1>0, <1>6 DEF Typed, RefreshLost, Release
  <2> QED BY <1>0, <1>6, <2>1, <2>2, <2>3, <2>4 DEF Typed, RefreshLost, store, work
<1>7. ASSUME NEW t \in Tabs, RefreshDone(t) PROVE Typed'
  <2>0. refresh[t] \in RefreshRec /\ refresh[t].at \in RefreshAt /\ refresh[t].tok \in Num
    BY Recorded DEF Typed
  <2>1. refresh' \in [Tabs -> RefreshRec] /\ refreshing' \in [Tabs -> BOOLEAN]
    BY <1>0, <1>7, Updated, Recorded DEF Typed, RefreshDone
  <2>2. calls' \in [Tabs -> CallRec]
    <3>1. calls[t] \in CallRec
      BY <1>0 DEF Typed
    <3>2. PICK g \in CallRec : calls' = [calls EXCEPT ![t] = g]
      <4>1. calls' = [calls EXCEPT ![t] = [c \in All |->
                CASE calls[t][c] = "waits" -> "again"
                  [] calls[t][c] = "queued" -> "out"
                  [] OTHER -> calls[t][c]]]
        BY <1>0, <1>7 DEF Typed, RefreshDone, ProcessQueue, All
      <4>2. [c \in All |-> CASE calls[t][c] = "waits" -> "again"
                             [] calls[t][c] = "queued" -> "out"
                             [] OTHER -> calls[t][c]] \in CallRec
        BY <3>1, Sets DEF CallRec
      <4> QED BY <4>1, <4>2
    <3> QED BY <1>0, <3>2, Updated DEF Typed
  <2>3. asking' \in [Tabs -> Num]
    BY <1>0, <1>7, <2>0, Sets DEF Typed, RefreshDone
  <2> QED BY <1>0, <1>7, <2>1, <2>2, <2>3 DEF Typed, RefreshDone, server, browser, store
<1>8. ASSUME NEW t \in Tabs, RefreshFailed(t) PROVE Typed'
  <2>1. refresh' \in [Tabs -> RefreshRec] /\ refreshing' \in [Tabs -> BOOLEAN]
    BY <1>0, <1>8, Updated, Recorded DEF Typed, RefreshFailed
  <2>2. calls' \in [Tabs -> CallRec]
    <3>1. calls[t] \in CallRec
      BY <1>0 DEF Typed
    <3>2. PICK g \in CallRec : calls' = [calls EXCEPT ![t] = g]
      <4>1. calls' = [calls EXCEPT ![t] = [c \in All |->
                IF calls[t][c] \in {"waits", "queued"} THEN "idle" ELSE calls[t][c]]]
        BY <1>0, <1>8 DEF Typed, RefreshFailed, RejectQueue, All
      <4>2. [c \in All |-> IF calls[t][c] \in {"waits", "queued"}
                           THEN "idle" ELSE calls[t][c]] \in CallRec
        BY <3>1, Sets DEF CallRec
      <4> QED BY <4>1, <4>2
    <3> QED BY <1>0, <3>2, Updated DEF Typed
  <2>3. asking' \in [Tabs -> Num] /\ token' \in [Tabs -> Num]
    BY <1>0, <1>8, Sets DEF Typed, RefreshFailed
  <2>4. login' \in [Tabs -> LoginAt] /\ page' \in [Tabs -> PageAt]
    BY <1>0, <1>8, Sets DEF Typed, RefreshFailed
  <2> QED BY <1>0, <1>8, <2>1, <2>2, <2>3, <2>4 DEF Typed, RefreshFailed, server, browser, store
<1>9. ASSUME NEW t \in Tabs, Restored(t) PROVE Typed'
  <2>0. refresh[t] \in RefreshRec /\ refresh[t].at \in RefreshAt /\ refresh[t].tok \in Num
    BY Recorded DEF Typed
  <2>1. refresh' \in [Tabs -> RefreshRec]
    BY <1>0, <1>9, Updated, Recorded DEF Typed, Restored
  <2>2. calls' \in [Tabs -> CallRec] /\ asking' \in [Tabs -> Num]
    <3>1. calls[t] \in CallRec /\ token[t] \in Num
      BY <1>0 DEF Typed
    <3>2. CASE AskMe(t, token[t])
      <4>1. [calls[t] EXCEPT ![Me] = "out"] \in CallRec
        BY <3>1, Sets, Updated DEF CallRec
      <4>2. calls' = [calls EXCEPT ![t] = [calls[t] EXCEPT ![Me] = "out"]]
        BY <1>0, <3>2 DEF Typed, AskMe
      <4>3. calls' \in [Tabs -> CallRec]
        BY <1>0, <4>1, <4>2, Updated DEF Typed
      <4> QED BY <1>0, <3>1, <3>2, <4>3, Updated DEF Typed, AskMe
    <3>3. CASE UNCHANGED work
      BY <1>0, <3>3 DEF Typed, work
    <3> QED BY <1>9, <3>2, <3>3 DEF Restored
  <2>3. page' \in [Tabs -> PageAt]
    BY <1>0, <1>9, Updated, Sets DEF Typed, Restored
  <2> QED BY <1>0, <1>9, <2>1, <2>2, <2>3 DEF Typed, Restored, server, browser, store
<1>10. ASSUME NEW t \in Tabs, OpenPage(t) PROVE Typed'
  <2>1. refresh' \in [Tabs -> RefreshRec] /\ ahead' \in [Tabs -> SUBSET Tabs]
        /\ happened' \subseteq Events
    BY <1>0, <1>10, RefreshTyped DEF OpenPage
  <2>2. page' \in [Tabs -> PageAt]
    BY <1>0, <1>10, Updated, Sets DEF Typed, OpenPage
  <2> QED BY <1>0, <1>10, <2>1, <2>2 DEF Typed, OpenPage, server, store, work
<1>11. ASSUME NEW t \in Tabs, ClosePage(t) PROVE Typed'
  <2>0. refresh[t] \in RefreshRec /\ refresh[t].at \in RefreshAt /\ refresh[t].tok \in Num
    BY Recorded DEF Typed
  <2>1. refresh' \in [Tabs -> RefreshRec] /\ logout' \in [Tabs -> LogoutRec]
    BY <1>0, <1>11, Updated, Recorded DEF Typed, ClosePage
  <2>2. strays' \subseteq Num
    BY <1>0, <1>11, <2>0 DEF Typed, ClosePage, Vanish
  <2>3. happened' \subseteq Events
    BY <1>0, <1>11, Sets DEF Typed, ClosePage, Loss
  <2>4. holder' \in Tabs \cup {None} /\ ahead' \in [Tabs -> SUBSET Tabs]
    BY <1>0, <1>11 DEF Typed, ClosePage, Release
  <2>5. /\ page' \in [Tabs -> PageAt] /\ login' \in [Tabs -> LoginAt]
        /\ refreshing' \in [Tabs -> BOOLEAN]
    BY <1>0, <1>11, Updated, Sets DEF Typed, ClosePage
  <2>6. token' \in [Tabs -> Num] /\ profile' \in [Tabs -> Num] /\ asking' \in [Tabs -> Num]
    BY <1>0, <1>11, Updated, Sets DEF Typed, ClosePage
  <2>7. calls' \in [Tabs -> CallRec]
    <3>1. calls[t] \in CallRec
      BY <1>0 DEF Typed
    <3>2. PICK g \in CallRec : calls' = [calls EXCEPT ![t] = g]
      <4>1. [c \in All |-> "idle"] \in CallRec
        BY Sets DEF CallRec
      <4> QED BY <1>11, <4>1 DEF ClosePage, All
    <3> QED BY <1>0, <3>2, Updated DEF Typed
  <2> QED BY <1>0, <1>11, <2>1, <2>2, <2>3, <2>4, <2>5, <2>6, <2>7 DEF Typed, ClosePage, work
<1>12. ASSUME NEW t \in Tabs, Login(t) PROVE Typed'
  <2>1. login' \in [Tabs -> LoginAt]
    BY <1>0, <1>12, Updated, Sets DEF Typed, Login
  <2>2. happened' \subseteq Events
    BY <1>0, <1>12, Sets DEF Typed, Login
  <2> QED BY <1>0, <1>12, <2>1, <2>2 DEF Typed, Login, server, browser, store, work
<1>13. ASSUME NEW t \in Tabs, Logout(t) PROVE Typed'
  <2>1. logout' \in [Tabs -> LogoutRec]
    <3>1. [at |-> "sent", tok |-> cookie] \in LogoutRec
      BY <1>0, Recorded DEF Typed
    <3> QED BY <1>0, <1>13, <3>1, Updated DEF Typed, Logout
  <2> QED BY <1>0, <1>13, <2>1 DEF Typed, Logout, server, browser, store, work
<1>14. ASSUME NEW t \in Tabs, NEW c \in Calls, Call(t, c) PROVE Typed'
  <2>1. calls' \in [Tabs -> CallRec]
    <3>1. calls[t] \in CallRec
      BY <1>0 DEF Typed
    <3>2. PICK g \in CallRec : calls' = [calls EXCEPT ![t] = g]
      <4>1. calls' = [calls EXCEPT ![t] = [calls[t] EXCEPT ![c] = "out"]]
        BY <1>0, <1>14 DEF Typed, Call
      <4>2. [calls[t] EXCEPT ![c] = "out"] \in CallRec
        BY <3>1, <1>14, Sets, Updated DEF CallRec, All
      <4> QED BY <4>1, <4>2
    <3> QED BY <1>0, <3>2, Updated DEF Typed
  <2> QED BY <1>0, <1>14, <2>1 DEF Typed, Call, server, browser, store, work
<1>15. ASSUME NEW t \in Tabs, LoginAnswered(t) PROVE Typed'
  <2>1. issued + 1 \in Num /\ issued + 1 \in Token
    BY <1>0, <1>15, Sets DEF Typed, LoginAnswered, Issue
  <2>2. issued' \in Num /\ root' \in [Token -> Num] /\ open' \subseteq Token /\ cookie' \in Num
    BY <1>0, <1>15, <2>1, Updated DEF Typed, LoginAnswered, Issue
  <2>3. token' \in [Tabs -> Num] /\ asking' \in [Tabs -> Num]
    BY <1>0, <1>15, <2>1, Updated DEF Typed, LoginAnswered, AskMe
  <2>4. login' \in [Tabs -> LoginAt]
    BY <1>0, <1>15, Updated, Sets DEF Typed, LoginAnswered
  <2>5. calls' \in [Tabs -> CallRec]
    <3>1. calls[t] \in CallRec
      BY <1>0 DEF Typed
    <3>2. PICK g \in CallRec : calls' = [calls EXCEPT ![t] = g]
      <4>1. calls' = [calls EXCEPT ![t] = [calls[t] EXCEPT ![Me] = "out"]]
        BY <1>0, <1>15 DEF Typed, LoginAnswered, AskMe
      <4>2. [calls[t] EXCEPT ![Me] = "out"] \in CallRec
        BY <3>1, <1>15, Sets, Updated DEF CallRec, All
      <4> QED BY <4>1, <4>2
    <3> QED BY <1>0, <3>2, Updated DEF Typed
  <2> QED BY <1>0, <1>15, <2>2, <2>3, <2>4, <2>5 DEF Typed, LoginAnswered, store, work
<1>16. ASSUME NEW t \in Tabs, LoginFails(t) PROVE Typed'
  <2>1. login' \in [Tabs -> LoginAt]
    BY <1>0, <1>16, Updated, Sets DEF Typed, LoginFails
  <2>2. happened' \subseteq Events
    BY <1>0, <1>16, Sets DEF Typed, LoginFails
  <2> QED BY <1>0, <1>16, <2>1, <2>2 DEF Typed, LoginFails, server, browser, store, work
<1>17. ASSUME NEW t \in Tabs, LogoutEnds(t) PROVE Typed'
  <2>1. logout' \in [Tabs -> LogoutRec]
    BY <1>0, <1>17, Recorded, Updated DEF Typed, LogoutEnds
  <2>2. token' \in [Tabs -> Num] /\ profile' \in [Tabs -> Num] /\ page' \in [Tabs -> PageAt]
    BY <1>0, <1>17, Updated, Sets DEF Typed, LogoutEnds
  <2>3. open' \subseteq Token /\ cookie' \in Num /\ happened' \subseteq Events
    BY <1>0, <1>17, Sets DEF Typed, LogoutEnds, EndFamily
  <2> QED BY <1>0, <1>17, <2>1, <2>2, <2>3 DEF Typed, LogoutEnds, store, work
<1>18. ASSUME NEW t \in Tabs, NEW c \in Calls \cup {Me}, CallSettled(t, c) PROVE Typed'
  <2>1. calls' \in [Tabs -> CallRec]
    <3>1. calls[t] \in CallRec
      BY <1>0 DEF Typed
    <3>2. PICK g \in CallRec : calls' = [calls EXCEPT ![t] = g]
      <4>1. calls' = [calls EXCEPT ![t] = [calls[t] EXCEPT ![c] = "idle"]]
        BY <1>0, <1>18 DEF Typed, CallSettled
      <4>2. [calls[t] EXCEPT ![c] = "idle"] \in CallRec
        BY <3>1, <1>18, Sets, Updated DEF CallRec, All
      <4> QED BY <4>1, <4>2
    <3> QED BY <1>0, <3>2, Updated DEF Typed
  <2>2. root[asking[t]] \in Num \/ ~Accepted(asking[t])
    BY <1>0, Sets DEF Typed, Accepted
  <2>3. profile' \in [Tabs -> Num] /\ asking' \in [Tabs -> Num]
    <3>1. profile' = profile \/ \E k \in Num : profile' = [profile EXCEPT ![t] = k]
      BY <1>0, <1>18, <2>2 DEF Typed, CallSettled
    <3>2. asking' = asking \/ asking' = [asking EXCEPT ![t] = 0]
      BY <1>18 DEF CallSettled
    <3>3. profile' \in [Tabs -> Num]
      BY <1>0, <3>1, Updated DEF Typed
    <3>4. asking' \in [Tabs -> Num]
      BY <1>0, <3>2, Updated, Sets DEF Typed
    <3> QED BY <3>3, <3>4
  <2>4. page' \in [Tabs -> PageAt] /\ login' \in [Tabs -> LoginAt]
    <3>1. CASE Continue(t)
      BY <1>0, <3>1, Sets DEF Typed, Continue
    <3>2. CASE UNCHANGED <<page, login>>
      BY <1>0, <3>2 DEF Typed
    <3> QED BY <1>18, <3>1, <3>2 DEF CallSettled
  <2> QED BY <1>0, <1>18, <2>1, <2>3, <2>4 DEF Typed, CallSettled, server, browser
<1>19. ASSUME NEW t \in Tabs, NEW c \in Calls \cup {Me}, CallQueued(t, c) PROVE Typed'
  <2>1. calls' \in [Tabs -> CallRec]
    <3>1. calls[t] \in CallRec
      BY <1>0 DEF Typed
    <3>2. PICK g \in CallRec : calls' = [calls EXCEPT ![t] = g]
      <4>1. calls' = [calls EXCEPT ![t] = [calls[t] EXCEPT ![c] = "queued"]]
        BY <1>0, <1>19 DEF Typed, CallQueued
      <4>2. [calls[t] EXCEPT ![c] = "queued"] \in CallRec
        BY <3>1, <1>19, Sets, Updated DEF CallRec, All
      <4> QED BY <4>1, <4>2
    <3> QED BY <1>0, <3>2, Updated DEF Typed
  <2> QED BY <1>0, <1>19, <2>1 DEF Typed, CallQueued, server, browser, store, work
<1>20. ASSUME NEW t \in Tabs, NEW c \in Calls \cup {Me}, CallStartsRefresh(t, c) PROVE Typed'
  <2>1. refresh' \in [Tabs -> RefreshRec] /\ ahead' \in [Tabs -> SUBSET Tabs]
        /\ happened' \subseteq Events
    BY <1>0, <1>20, RefreshTyped DEF CallStartsRefresh
  <2>2. calls' \in [Tabs -> CallRec]
    <3>1. calls[t] \in CallRec
      BY <1>0 DEF Typed
    <3>2. PICK g \in CallRec : calls' = [calls EXCEPT ![t] = g]
      <4>1. calls' = [calls EXCEPT ![t] = [calls[t] EXCEPT ![c] = "waits"]]
        BY <1>0, <1>20 DEF Typed, CallStartsRefresh
      <4>2. [calls[t] EXCEPT ![c] = "waits"] \in CallRec
        BY <3>1, <1>20, Sets, Updated DEF CallRec, All
      <4> QED BY <4>1, <4>2
    <3> QED BY <1>0, <3>2, Updated DEF Typed
  <2>3. refreshing' \in [Tabs -> BOOLEAN]
    BY <1>0, <1>20, Updated DEF Typed, CallStartsRefresh
  <2> QED BY <1>0, <1>20, <2>1, <2>2, <2>3 DEF Typed, CallStartsRefresh, server, store
<1>21. CASE UNCHANGED vars
  BY <1>0, <1>21 DEF vars, server, browser, store, work, Typed
<1> QED BY <1>1, <1>2, <1>3, <1>4, <1>5, <1>6, <1>7, <1>8, <1>9, <1>10, <1>11, <1>12, <1>13, <1>14, <1>15, <1>16, <1>17, <1>18, <1>19, <1>20, <1>21
     DEF Next, Server, User, Page, Refresh, CallStep

------------------------------------------------------------------------------
(* What the actions do to the call of refreshAccessToken and to the calls  *)
(* of a page, tab by tab.                                                  *)

RefreshBecomes(t, a, k) ==
  /\ refresh'[t].at = a /\ refresh'[t].tok = k
  /\ \A u \in Tabs : u # t => refresh'[u] = refresh[u]

CallBecomes(t, c, v) ==
  /\ calls'[t][c] = v
  /\ \A d \in All : d # c => calls'[t][d] = calls[t][d]
  /\ \A u \in Tabs : u # t => calls'[u] = calls[u]

LEMMA Became ==
  ASSUME Typed, NEW t \in Tabs, NEW a \in RefreshAt, NEW k \in Num,
         \/ refresh' = [refresh EXCEPT ![t] = [at |-> a, tok |-> k]]
         \/ refresh' = [refresh EXCEPT ![t].at = a] /\ k = refresh[t].tok
  PROVE  RefreshBecomes(t, a, k)
<1>1. refresh \in [Tabs -> RefreshRec]
  BY DEF Typed
<1>2. refresh' = [refresh EXCEPT ![t] = [at |-> a, tok |-> k]]
  <2>1. CASE refresh' = [refresh EXCEPT ![t] = [at |-> a, tok |-> k]]
    BY <2>1
  <2>2. CASE refresh' = [refresh EXCEPT ![t].at = a] /\ k = refresh[t].tok
    <3>1. [refresh EXCEPT ![t].at = a] = [refresh EXCEPT ![t] = [at |-> a, tok |-> refresh[t].tok]]
      <4>1. refresh[t] \in RefreshRec
        BY <1>1
      <4>2. [refresh[t] EXCEPT !.at = a] = [at |-> a, tok |-> refresh[t].tok]
        BY <4>1 DEF RefreshRec
      <4> QED BY <4>2
    <3> QED BY <3>1, <2>2
  <2> QED BY <2>1, <2>2
<1> QED BY <1>1, <1>2 DEF RefreshBecomes

LEMMA Requested ==
  ASSUME Typed, NEW t \in Tabs, RefreshAccessToken(t)
  PROVE  \/ locks /\ RefreshBecomes(t, "waiting", 0) /\ happened' = happened
         \/ /\ ~locks /\ RefreshBecomes(t, "sent", cookie)
            /\ happened' = happened \cup Mixed
<1>1. cookie \in Num
  BY DEF Typed
<1>2. CASE locks /\ refresh' = [refresh EXCEPT ![t] = [at |-> "waiting", tok |-> 0]]
           /\ happened' = happened
  BY <1>2, Became, Sets
<1>3. CASE /\ ~locks /\ refresh' = [refresh EXCEPT ![t] = [at |-> "sent", tok |-> cookie]]
           /\ happened' = happened \cup Mixed
  BY <1>1, <1>3, Became, Sets
<1> QED BY <1>2, <1>3 DEF RefreshAccessToken, SendRefresh

LEMMA Served ==
  ASSUME Typed, NEW t \in Tabs, ServeRefresh(t)
  PROVE  /\ refresh[t].at = "sent"
         /\ \/ /\ Rotate(refresh[t].tok) /\ RefreshBecomes(t, "served", issued + 1)
               /\ happened' = happened
            \/ /\ Refuse(refresh[t].tok) /\ RefreshBecomes(t, "refused", refresh[t].tok)
               /\ happened' = happened \cup Replayed(refresh[t].tok)
<1>1. refresh[t].tok \in Num
  BY Recorded DEF Typed
<1>2. CASE Rotate(refresh[t].tok) /\ happened' = happened
           /\ refresh' = [refresh EXCEPT ![t] = [at |-> "served", tok |-> issued + 1]]
  <2>1. issued + 1 \in Num
    BY <1>2, Sets DEF Typed, Rotate, Issue
  <2>2. RefreshBecomes(t, "served", issued + 1)
    BY <1>2, <2>1, Became, Sets
  <2> QED BY <1>2, <2>2 DEF ServeRefresh
<1>3. CASE Refuse(refresh[t].tok) /\ refresh' = [refresh EXCEPT ![t].at = "refused"]
           /\ happened' = happened \cup Replayed(refresh[t].tok)
  <2>1. RefreshBecomes(t, "refused", refresh[t].tok)
    BY <1>1, <1>3, Became, Sets
  <2> QED BY <1>3, <2>1 DEF ServeRefresh
<1> QED BY <1>2, <1>3 DEF ServeRefresh

LEMMA Sent ==
  ASSUME Typed, NEW t \in Tabs, Grant(t)
  PROVE  RefreshBecomes(t, "sent", cookie)
BY Became, Sets DEF Typed, Grant, SendRefresh

LEMMA Answer ==
  ASSUME Typed, NEW t \in Tabs, RefreshAnswered(t)
  PROVE  \/ /\ refresh[t].at = "served" /\ RefreshBecomes(t, "done", refresh[t].tok)
            /\ cookie' = refresh[t].tok /\ happened' = happened
            /\ token' = [token EXCEPT ![t] = refresh[t].tok]
         \/ /\ refresh[t].at = "refused" /\ RefreshBecomes(t, "failed", refresh[t].tok)
            /\ cookie' = (IF refresh[t].tok = 0 THEN cookie ELSE 0)
            /\ happened' = happened \cup
                  (IF refresh[t].tok # 0 /\ cookie \notin {0, refresh[t].tok}
                   THEN {"cleared"} ELSE {})
            /\ token' = token
<1>1. refresh[t].tok \in Num
  BY Recorded DEF Typed
<1>2. refresh' = [refresh EXCEPT ![t].at = "done"] => RefreshBecomes(t, "done", refresh[t].tok)
  BY <1>1, Became, Sets
<1>3. refresh' = [refresh EXCEPT ![t].at = "failed"] => RefreshBecomes(t, "failed", refresh[t].tok)
  BY <1>1, Became, Sets
<1> QED BY <1>2, <1>3 DEF RefreshAnswered

LEMMA GivenUp ==
  ASSUME Typed, NEW t \in Tabs, RefreshLost(t)
  PROVE  RefreshBecomes(t, "failed", refresh[t].tok)
<1>1. refresh[t].tok \in Num
  BY Recorded DEF Typed
<1> QED BY <1>1, Became, Sets DEF RefreshLost

LEMMA Finished ==
  ASSUME Typed, NEW t \in Tabs,
         RefreshDone(t) \/ RefreshFailed(t) \/ Restored(t) \/ ClosePage(t)
  PROVE  RefreshBecomes(t, "idle", 0)
<1>1. refresh' = [refresh EXCEPT ![t] = [at |-> "idle", tok |-> 0]]
  BY DEF RefreshDone, RefreshFailed, Restored, ClosePage, Idle
<1> QED BY <1>1, Became, Sets

LEMMA CallBecame ==
  ASSUME Typed, NEW t \in Tabs, NEW c \in All, NEW v, calls' = [calls EXCEPT ![t][c] = v]
  PROVE  CallBecomes(t, c, v)
<1>1. calls[t] \in CallRec
  BY DEF Typed
<1>2. calls' = [calls EXCEPT ![t] = [calls[t] EXCEPT ![c] = v]]
  OBVIOUS
<1> QED BY <1>1, <1>2 DEF Typed, CallRec, CallBecomes

LEMMA CallsResumed ==
  ASSUME Typed, NEW t \in Tabs, RefreshDone(t)
  PROVE  /\ \A c \in All : /\ calls[t][c] = "waits" => calls'[t][c] = "again"
                           /\ calls[t][c] = "queued" => calls'[t][c] = "out"
                           /\ calls[t][c] \notin {"waits", "queued"} =>
                                calls'[t][c] = calls[t][c]
         /\ \A u \in Tabs : u # t => calls'[u] = calls[u]
BY DEF Typed, RefreshDone, ProcessQueue, All

LEMMA CallsRejected ==
  ASSUME Typed, NEW t \in Tabs, RefreshFailed(t)
  PROVE  /\ \A c \in All : /\ calls[t][c] \in {"waits", "queued"} => calls'[t][c] = "idle"
                           /\ calls[t][c] \notin {"waits", "queued"} =>
                                calls'[t][c] = calls[t][c]
         /\ \A u \in Tabs : u # t => calls'[u] = calls[u]
BY DEF Typed, RefreshFailed, RejectQueue, All

LEMMA CallsDropped ==
  ASSUME Typed, NEW t \in Tabs, ClosePage(t)
  PROVE  /\ \A c \in All : calls'[t][c] = "idle"
         /\ \A u \in Tabs : u # t => calls'[u] = calls[u]
BY DEF Typed, ClosePage, All

LEMMA CallsSent ==
  ASSUME Typed, NEW t \in Tabs, NEW k, AskMe(t, k)
  PROVE  CallBecomes(t, Me, "out")
BY CallBecame DEF AskMe, All


------------------------------------------------------------------------------
(* Calls that wait for a refresh.                                          *)

(* Whoever waits has a refresh under way, for which exactly one call waits. *)
OneWaits ==
  \A t \in Tabs :
    /\ \A c \in All : calls[t][c] \in {"waits", "queued"} => refreshing[t]
    /\ refreshing[t] => \E c \in All : calls[t][c] = "waits"
    /\ \A c, d \in All : calls[t][c] = "waits" /\ calls[t][d] = "waits" => c = d

(* Every step keeps it. *)
LEMMA WaitStep ==
  ASSUME Typed, PageInv, OneWaits, [Next]_vars
  PROVE  OneWaits'
<1>0. Typed /\ PageInv /\ OneWaits
  OBVIOUS
<1>1. ASSUME NEW t \in Tabs, ServeRefresh(t) PROVE OneWaits'
  BY <1>0, <1>1 DEF ServeRefresh, work, OneWaits
<1>2. ASSUME NEW k \in strays, ServeStray(k) PROVE OneWaits'
  BY <1>0, <1>2 DEF ServeStray, work, OneWaits
<1>3. ASSUME NEW r \in open, EndSession(r) PROVE OneWaits'
  BY <1>0, <1>3 DEF EndSession, work, OneWaits
<1>4. ASSUME NEW t \in Tabs, Grant(t) PROVE OneWaits'
  BY <1>0, <1>4 DEF Grant, work, OneWaits
<1>5. ASSUME NEW t \in Tabs, RefreshAnswered(t) PROVE OneWaits'
  BY <1>0, <1>5 DEF RefreshAnswered, work, OneWaits
<1>6. ASSUME NEW t \in Tabs, RefreshLost(t) PROVE OneWaits'
  BY <1>0, <1>6 DEF RefreshLost, work, OneWaits
<1>7. ASSUME NEW t \in Tabs, RefreshDone(t) PROVE OneWaits'
  <2>1. \A u \in Tabs : u # t => calls'[u] = calls[u] /\ refreshing'[u] = refreshing[u]
    BY <1>0, <1>7, CallsResumed DEF RefreshDone, Typed
  <2>2. ~refreshing'[t]
    BY <1>0, <1>7 DEF RefreshDone, Typed
  <2>3. \A c \in All : calls'[t][c] \notin {"waits", "queued"}
    BY <1>0, <1>7, CallsResumed
  <2> QED BY <1>0, <2>1, <2>2, <2>3 DEF OneWaits
<1>8. ASSUME NEW t \in Tabs, RefreshFailed(t) PROVE OneWaits'
  <2>1. \A u \in Tabs : u # t => calls'[u] = calls[u] /\ refreshing'[u] = refreshing[u]
    BY <1>0, <1>8, CallsRejected DEF RefreshFailed, Typed
  <2>2. ~refreshing'[t]
    BY <1>0, <1>8 DEF RefreshFailed, Typed
  <2>3. \A c \in All : calls'[t][c] \notin {"waits", "queued"}
    BY <1>0, <1>8, CallsRejected
  <2> QED BY <1>0, <2>1, <2>2, <2>3 DEF OneWaits
<1>9. ASSUME NEW t \in Tabs, Restored(t) PROVE OneWaits'
  <2>1. calls' = calls \/ (calls[t][Me] = "idle" /\ CallBecomes(t, Me, "out"))
    BY <1>0, <1>9, CallsSent DEF Restored, PageInv, work
  <2>2. refreshing' = refreshing
    BY <1>9 DEF Restored
  <2> QED BY <1>0, <2>1, <2>2, Sets DEF OneWaits, CallBecomes
<1>10. ASSUME NEW t \in Tabs, OpenPage(t) PROVE OneWaits'
  BY <1>0, <1>10 DEF OpenPage, work, OneWaits
<1>11. ASSUME NEW t \in Tabs, ClosePage(t) PROVE OneWaits'
  <2>1. \A u \in Tabs : u # t => calls'[u] = calls[u] /\ refreshing'[u] = refreshing[u]
    BY <1>0, <1>11, CallsDropped DEF ClosePage, Typed
  <2>2. ~refreshing'[t]
    BY <1>0, <1>11 DEF ClosePage, Typed
  <2>3. \A c \in All : calls'[t][c] \notin {"waits", "queued"}
    BY <1>0, <1>11, CallsDropped
  <2> QED BY <1>0, <2>1, <2>2, <2>3 DEF OneWaits
<1>12. ASSUME NEW t \in Tabs, Login(t) PROVE OneWaits'
  BY <1>0, <1>12 DEF Login, work, OneWaits
<1>13. ASSUME NEW t \in Tabs, Logout(t) PROVE OneWaits'
  BY <1>0, <1>13 DEF Logout, work, OneWaits
<1>14. ASSUME NEW t \in Tabs, NEW c \in Calls, Call(t, c) PROVE OneWaits'
  <2>1. CallBecomes(t, c, "out")
    BY <1>0, <1>14, CallBecame DEF Call, All
  <2>2. c \in All /\ calls[t][c] # "waits" /\ calls[t][c] # "queued"
    BY <1>14 DEF Call, All
  <2>3. refreshing' = refreshing
    BY <1>14 DEF Call
  <2> QED BY <1>0, <2>1, <2>2, <2>3 DEF OneWaits, CallBecomes
<1>15. ASSUME NEW t \in Tabs, LoginAnswered(t) PROVE OneWaits'
  <2>1. calls[t][Me] = "idle" /\ CallBecomes(t, Me, "out")
    BY <1>0, <1>15, CallsSent DEF LoginAnswered, PageInv
  <2>2. refreshing' = refreshing
    BY <1>15 DEF LoginAnswered
  <2> QED BY <1>0, <2>1, <2>2, Sets DEF OneWaits, CallBecomes
<1>16. ASSUME NEW t \in Tabs, LoginFails(t) PROVE OneWaits'
  BY <1>0, <1>16 DEF LoginFails, work, OneWaits
<1>17. ASSUME NEW t \in Tabs, LogoutEnds(t) PROVE OneWaits'
  BY <1>0, <1>17 DEF LogoutEnds, work, OneWaits
<1>18. ASSUME NEW t \in Tabs, NEW c \in Calls \cup {Me}, CallSettled(t, c) PROVE OneWaits'
  <2>1. CallBecomes(t, c, "idle")
    BY <1>0, <1>18, CallBecame DEF CallSettled, All
  <2>2. c \in All /\ calls[t][c] # "waits" /\ calls[t][c] # "queued"
    BY <1>18 DEF CallSettled, All
  <2>3. refreshing' = refreshing
    BY <1>18 DEF CallSettled
  <2> QED BY <1>0, <2>1, <2>2, <2>3 DEF OneWaits, CallBecomes
<1>19. ASSUME NEW t \in Tabs, NEW c \in Calls \cup {Me}, CallQueued(t, c) PROVE OneWaits'
  <2>1. CallBecomes(t, c, "queued")
    BY <1>0, <1>19, CallBecame DEF CallQueued, All
  <2>2. c \in All /\ calls[t][c] # "waits" /\ refreshing[t]
    BY <1>19 DEF CallQueued, All
  <2>3. refreshing' = refreshing
    BY <1>19 DEF CallQueued
  <2> QED BY <1>0, <2>1, <2>2, <2>3 DEF OneWaits, CallBecomes
<1>20. ASSUME NEW t \in Tabs, NEW c \in Calls \cup {Me}, CallStartsRefresh(t, c) PROVE OneWaits'
  <2>1. CallBecomes(t, c, "waits") /\ c \in All
    BY <1>0, <1>20, CallBecame DEF CallStartsRefresh, All
  <2>2. ~refreshing[t] /\ refreshing' = [refreshing EXCEPT ![t] = TRUE]
    BY <1>20 DEF CallStartsRefresh
  <2> QED BY <1>0, <2>1, <2>2 DEF OneWaits, CallBecomes, Typed
<1>21. CASE UNCHANGED vars
  BY <1>0, <1>21 DEF vars, work, OneWaits
<1> QED BY <1>1, <1>2, <1>3, <1>4, <1>5, <1>6, <1>7, <1>8, <1>9, <1>10, <1>11, <1>12, <1>13, <1>14, <1>15, <1>16, <1>17, <1>18, <1>19, <1>20, <1>21
     DEF Next, Server, User, Page, Refresh, CallStep

------------------------------------------------------------------------------
(* What a page waits for.                                                  *)

(* A step of one tab leaves the pages in the others alone.                 *)
Elsewhere(t) ==
  \A u \in Tabs : u # t =>
    /\ page'[u] = page[u] /\ token'[u] = token[u] /\ profile'[u] = profile[u]
    /\ refreshing'[u] = refreshing[u] /\ refresh'[u] = refresh[u]
    /\ calls'[u] = calls[u] /\ asking'[u] = asking[u]
    /\ login'[u] = login[u] /\ logout'[u] = logout[u]

LEMMA Others ==
  ASSUME Typed, NEW t \in Tabs, ServeRefresh(t) \/ User(t) \/ Page(t)
  PROVE  Elsewhere(t)
<1>0. Typed
  OBVIOUS
<1>1. ASSUME ServeRefresh(t) PROVE Elsewhere(t)
  BY <1>0, <1>1, Served DEF ServeRefresh, Elsewhere, Typed, server, browser, store, work, RefreshBecomes
<1>2. ASSUME Grant(t) PROVE Elsewhere(t)
  BY <1>0, <1>2, Sent DEF Grant, Elsewhere, Typed, server, browser, store, work, RefreshBecomes
<1>3. ASSUME RefreshAnswered(t) PROVE Elsewhere(t)
  BY <1>0, <1>3, Answer DEF RefreshAnswered, Elsewhere, Typed, server, browser, store, work, RefreshBecomes
<1>4. ASSUME RefreshLost(t) PROVE Elsewhere(t)
  BY <1>0, <1>4, GivenUp DEF RefreshLost, Elsewhere, Typed, server, browser, store, work, RefreshBecomes
<1>5. ASSUME RefreshDone(t) PROVE Elsewhere(t)
  <2>1. \A u \in Tabs : u # t => refresh'[u] = refresh[u] /\ calls'[u] = calls[u]
    BY <1>0, <1>5, Finished, CallsResumed DEF RefreshBecomes
  <2>2. \A u \in Tabs : u # t => /\ page'[u] = page[u] /\ token'[u] = token[u]
                                /\ profile'[u] = profile[u] /\ logout'[u] = logout[u]
    BY <1>0, <1>5 DEF RefreshDone, Typed, store
  <2>3. \A u \in Tabs : u # t => /\ refreshing'[u] = refreshing[u]
                                /\ asking'[u] = asking[u] /\ login'[u] = login[u]
    BY <1>0, <1>5 DEF RefreshDone, Typed
  <2> QED BY <2>1, <2>2, <2>3 DEF Elsewhere
<1>6. ASSUME RefreshFailed(t) PROVE Elsewhere(t)
  <2>1. \A u \in Tabs : u # t => refresh'[u] = refresh[u] /\ calls'[u] = calls[u]
    BY <1>0, <1>6, Finished, CallsRejected DEF RefreshBecomes
  <2>2. \A u \in Tabs : u # t => /\ page'[u] = page[u] /\ token'[u] = token[u]
                                /\ profile'[u] = profile[u] /\ logout'[u] = logout[u]
    BY <1>0, <1>6 DEF RefreshFailed, Typed, store
  <2>3. \A u \in Tabs : u # t => /\ refreshing'[u] = refreshing[u]
                                /\ asking'[u] = asking[u] /\ login'[u] = login[u]
    BY <1>0, <1>6 DEF RefreshFailed, Typed
  <2> QED BY <2>1, <2>2, <2>3 DEF Elsewhere
<1>7. ASSUME Restored(t) PROVE Elsewhere(t)
  BY <1>0, <1>7, Finished, CallsSent DEF Restored, Elsewhere, Typed, server, browser, store, work, RefreshBecomes, CallBecomes, AskMe
<1>8. ASSUME OpenPage(t) PROVE Elsewhere(t)
  BY <1>0, <1>8, Requested DEF OpenPage, Elsewhere, Typed, server, browser, store, work, RefreshBecomes
<1>9. ASSUME ClosePage(t) PROVE Elsewhere(t)
  BY <1>0, <1>9, Finished, CallsDropped DEF ClosePage, Elsewhere, Typed, server, browser, store, work, RefreshBecomes
<1>10. ASSUME Login(t) PROVE Elsewhere(t)
  BY <1>0, <1>10 DEF Login, Elsewhere, Typed, server, browser, store, work
<1>11. ASSUME Logout(t) PROVE Elsewhere(t)
  BY <1>0, <1>11 DEF Logout, Elsewhere, Typed, server, browser, store, work
<1>12. ASSUME NEW c \in Calls, Call(t, c) PROVE Elsewhere(t)
  BY <1>0, <1>12 DEF Call, Elsewhere, Typed, server, browser, store, work
<1>13. ASSUME LoginAnswered(t) PROVE Elsewhere(t)
  BY <1>0, <1>13, CallsSent DEF LoginAnswered, Elsewhere, Typed, server, browser, store, work, CallBecomes, AskMe
<1>14. ASSUME LoginFails(t) PROVE Elsewhere(t)
  BY <1>0, <1>14 DEF LoginFails, Elsewhere, Typed, server, browser, store, work
<1>15. ASSUME LogoutEnds(t) PROVE Elsewhere(t)
  BY <1>0, <1>15 DEF LogoutEnds, Elsewhere, Typed, server, browser, store, work
<1>16. ASSUME NEW c \in Calls \cup {Me}, CallSettled(t, c) PROVE Elsewhere(t)
  BY <1>0, <1>16 DEF CallSettled, Elsewhere, Typed, server, browser, store, work, Continue
<1>17. ASSUME NEW c \in Calls \cup {Me}, CallQueued(t, c) PROVE Elsewhere(t)
  BY <1>0, <1>17 DEF CallQueued, Elsewhere, Typed, server, browser, store, work
<1>18. ASSUME NEW c \in Calls \cup {Me}, CallStartsRefresh(t, c) PROVE Elsewhere(t)
  BY <1>0, <1>18, Requested DEF CallStartsRefresh, Elsewhere, Typed, server, browser, store, work, RefreshBecomes
<1> QED BY <1>1, <1>2, <1>3, <1>4, <1>5, <1>6, <1>7, <1>8, <1>9, <1>10, <1>11, <1>12, <1>13, <1>14, <1>15, <1>16, <1>17, <1>18
     DEF User, Page, Refresh, CallStep

PageSound(t) ==
  /\ refresh[t].at # "idle" <=> refreshing[t] \/ page[t] = "restoring"
  /\ page[t] \in {"closed", "restoring"} =>
        /\ ~refreshing[t] /\ login[t] = "idle" /\ logout[t].at = "idle"
        /\ profile[t] = 0 /\ asking[t] = 0
        /\ \A c \in All : calls[t][c] = "idle"
  /\ refresh[t].at \in {"served", "done"} => refresh[t].tok # 0
  /\ login[t] = "sent" \/ (page[t] = "open" /\ login[t] = "idle") => calls[t][Me] = "idle"

LEMMA PageInvSound == PageInv <=> \A t \in Tabs : PageSound(t)
BY DEF PageInv, PageSound, All

(* Every step keeps it. *)
LEMMA PageStep ==
  ASSUME Typed, \A t \in Tabs : PageSound(t), [Next]_vars
  PROVE  (\A t \in Tabs : PageSound(t))'
<1>0. Typed /\ \A t \in Tabs : PageSound(t)
  OBVIOUS
<1>1. ASSUME NEW t \in Tabs, ServeRefresh(t) PROVE \A s \in Tabs : PageSound(s)'
  <2>1. page'[t] = page[t] /\ profile'[t] = profile[t] /\ refreshing'[t] = refreshing[t] /\ calls'[t] = calls[t] /\ asking'[t] = asking[t] /\ login'[t] = login[t] /\ logout'[t] = logout[t]
    BY <1>1 DEF ServeRefresh, store, work
  <2>2. refresh[t].at = "sent" /\ refresh'[t].at \in {"served", "refused"}
    BY <1>0, <1>1, Served DEF RefreshBecomes
  <2>3. refresh'[t].at = "served" => refresh'[t].tok # 0
    BY <1>0, <1>1, Served, Sets DEF RefreshBecomes, Typed
  <2>4. PageSound(t)'
    BY <1>0, <2>1, <2>2, <2>3, Sets DEF PageSound
  <2>5. ServeRefresh(t)
    BY <1>1 DEF ServeRefresh
  <2>6. Elsewhere(t)
    BY <1>0, <2>5, Others
  <2> QED BY <1>0, <2>4, <2>6 DEF Elsewhere, PageSound
<1>2. ASSUME NEW k \in strays, ServeStray(k) PROVE \A s \in Tabs : PageSound(s)'
  BY <1>0, <1>2 DEF ServeStray, PageSound, store, work
<1>3. ASSUME NEW r \in open, EndSession(r) PROVE \A s \in Tabs : PageSound(s)'
  BY <1>0, <1>3 DEF EndSession, PageSound, store, work
<1>4. ASSUME NEW t \in Tabs, Grant(t) PROVE \A s \in Tabs : PageSound(s)'
  <2>1. page'[t] = page[t] /\ profile'[t] = profile[t] /\ refreshing'[t] = refreshing[t] /\ calls'[t] = calls[t] /\ asking'[t] = asking[t] /\ login'[t] = login[t] /\ logout'[t] = logout[t]
    BY <1>4 DEF Grant, store, work
  <2>2. refresh[t].at = "waiting" /\ refresh'[t].at = "sent"
    BY <1>0, <1>4, Sent DEF Grant, RefreshBecomes
  <2>3. PageSound(t)'
    BY <1>0, <2>1, <2>2, Sets DEF PageSound
  <2>4. Page(t)
    BY <1>4 DEF Page, Refresh, CallStep
  <2>5. Elsewhere(t)
    BY <1>0, <2>4, Others
  <2> QED BY <1>0, <2>3, <2>5 DEF Elsewhere, PageSound
<1>5. ASSUME NEW t \in Tabs, RefreshAnswered(t) PROVE \A s \in Tabs : PageSound(s)'
  <2>1. page'[t] = page[t] /\ profile'[t] = profile[t] /\ refreshing'[t] = refreshing[t] /\ calls'[t] = calls[t] /\ asking'[t] = asking[t] /\ login'[t] = login[t] /\ logout'[t] = logout[t]
    BY <1>5 DEF RefreshAnswered, work
  <2>2. \/ refresh[t].at = "served" /\ refresh'[t].at = "done" /\ refresh'[t].tok = refresh[t].tok
        \/ refresh[t].at = "refused" /\ refresh'[t].at = "failed"
    BY <1>0, <1>5, Answer DEF RefreshBecomes
  <2>3. PageSound(t)'
    BY <1>0, <2>1, <2>2, Sets DEF PageSound
  <2>4. Page(t)
    BY <1>5 DEF Page, Refresh, CallStep
  <2>5. Elsewhere(t)
    BY <1>0, <2>4, Others
  <2> QED BY <1>0, <2>3, <2>5 DEF Elsewhere, PageSound
<1>6. ASSUME NEW t \in Tabs, RefreshLost(t) PROVE \A s \in Tabs : PageSound(s)'
  <2>1. page'[t] = page[t] /\ profile'[t] = profile[t] /\ refreshing'[t] = refreshing[t] /\ calls'[t] = calls[t] /\ asking'[t] = asking[t] /\ login'[t] = login[t] /\ logout'[t] = logout[t]
    BY <1>6 DEF RefreshLost, store, work
  <2>2. refresh[t].at \in {"sent", "served", "refused"} /\ refresh'[t].at = "failed"
    BY <1>0, <1>6, GivenUp DEF RefreshLost, RefreshBecomes
  <2>3. PageSound(t)'
    BY <1>0, <2>1, <2>2, Sets DEF PageSound
  <2>4. Page(t)
    BY <1>6 DEF Page, Refresh, CallStep
  <2>5. Elsewhere(t)
    BY <1>0, <2>4, Others
  <2> QED BY <1>0, <2>3, <2>5 DEF Elsewhere, PageSound
<1>7. ASSUME NEW t \in Tabs, RefreshDone(t) PROVE \A s \in Tabs : PageSound(s)'
  <2>1. page'[t] = page[t] /\ profile'[t] = profile[t] /\ login'[t] = login[t] /\ logout'[t] = logout[t]
    BY <1>7 DEF RefreshDone, store
  <2>2. refreshing[t] /\ ~refreshing'[t]
    BY <1>0, <1>7 DEF RefreshDone, Typed
  <2>3. refresh'[t].at = "idle"
    BY <1>0, <1>7, Finished DEF RefreshBecomes
  <2>4. calls[t][Me] = "idle" => calls'[t][Me] = "idle"
    BY <1>0, <1>7, CallsResumed, Sets
  <2>5. PageSound(t)'
    BY <1>0, <2>1, <2>2, <2>3, <2>4, Sets DEF PageSound
  <2>6. Page(t)
    BY <1>7 DEF Page, Refresh, CallStep
  <2>7. Elsewhere(t)
    BY <1>0, <2>6, Others
  <2> QED BY <1>0, <2>5, <2>7 DEF Elsewhere, PageSound
<1>8. ASSUME NEW t \in Tabs, RefreshFailed(t) PROVE \A s \in Tabs : PageSound(s)'
  <2>1. page'[t] = "refused" /\ (login'[t] = "sent" => login[t] = "sent")
    BY <1>0, <1>8 DEF RefreshFailed, Typed
  <2>2. refreshing[t] /\ ~refreshing'[t]
    BY <1>0, <1>8 DEF RefreshFailed, Typed
  <2>3. refresh'[t].at = "idle"
    BY <1>0, <1>8, Finished DEF RefreshBecomes
  <2>4. calls[t][Me] = "idle" => calls'[t][Me] = "idle"
    BY <1>0, <1>8, CallsRejected, Sets
  <2>5. PageSound(t)'
    BY <1>0, <2>1, <2>2, <2>3, <2>4, Sets DEF PageSound
  <2>6. Page(t)
    BY <1>8 DEF Page, Refresh, CallStep
  <2>7. Elsewhere(t)
    BY <1>0, <2>6, Others
  <2> QED BY <1>0, <2>5, <2>7 DEF Elsewhere, PageSound
<1>9. ASSUME NEW t \in Tabs, Restored(t) PROVE \A s \in Tabs : PageSound(s)'
  <2>1. login'[t] = login[t] /\ logout'[t] = logout[t] /\ refreshing'[t] = refreshing[t] /\ profile'[t] = profile[t]
    BY <1>9 DEF Restored
  <2>2. page[t] = "restoring" /\ page'[t] \in {"profile", "open"}
    BY <1>0, <1>9 DEF Restored, Typed
  <2>3. refresh'[t].at = "idle"
    BY <1>0, <1>9, Finished DEF RefreshBecomes
  <2>4. page'[t] = "open" => calls'[t][Me] = calls[t][Me]
    BY <1>0, <1>9 DEF Restored, work, Typed
  <2>5. PageSound(t)'
    BY <1>0, <2>1, <2>2, <2>3, <2>4, Sets DEF PageSound
  <2>6. Page(t)
    BY <1>9 DEF Page, Refresh, CallStep
  <2>7. Elsewhere(t)
    BY <1>0, <2>6, Others
  <2> QED BY <1>0, <2>5, <2>7 DEF Elsewhere, PageSound
<1>10. ASSUME NEW t \in Tabs, OpenPage(t) PROVE \A s \in Tabs : PageSound(s)'
  <2>1. profile'[t] = profile[t] /\ refreshing'[t] = refreshing[t] /\ calls'[t] = calls[t] /\ asking'[t] = asking[t] /\ login'[t] = login[t] /\ logout'[t] = logout[t]
    BY <1>10 DEF OpenPage, work
  <2>2. page[t] = "closed" /\ page'[t] = "restoring"
    BY <1>0, <1>10 DEF OpenPage, Typed
  <2>3. refresh'[t].at \in {"waiting", "sent"}
    BY <1>0, <1>10, Requested DEF OpenPage, RefreshBecomes
  <2>4. PageSound(t)'
    BY <1>0, <2>1, <2>2, <2>3, Sets DEF PageSound
  <2>5. User(t)
    BY <1>10 DEF User
  <2>6. Elsewhere(t)
    BY <1>0, <2>5, Others
  <2> QED BY <1>0, <2>4, <2>6 DEF Elsewhere, PageSound
<1>11. ASSUME NEW t \in Tabs, ClosePage(t) PROVE \A s \in Tabs : PageSound(s)'
  <2>1. page'[t] = "closed" /\ login'[t] = "idle" /\ logout'[t] = Idle /\ profile'[t] = 0 /\ asking'[t] = 0
    BY <1>0, <1>11 DEF ClosePage, Typed
  <2>2. ~refreshing'[t] /\ Idle.at = "idle"
    BY <1>0, <1>11, Recorded DEF ClosePage, Typed
  <2>3. refresh'[t].at = "idle"
    BY <1>0, <1>11, Finished DEF RefreshBecomes
  <2>4. \A c \in All : calls'[t][c] = "idle"
    BY <1>0, <1>11, CallsDropped
  <2>5. PageSound(t)'
    BY <1>0, <2>1, <2>2, <2>3, <2>4, Sets DEF PageSound
  <2>6. User(t)
    BY <1>11 DEF User
  <2>7. Elsewhere(t)
    BY <1>0, <2>6, Others
  <2> QED BY <1>0, <2>5, <2>7 DEF Elsewhere, PageSound
<1>12. ASSUME NEW t \in Tabs, Login(t) PROVE \A s \in Tabs : PageSound(s)'
  <2>1. page'[t] = page[t] /\ profile'[t] = profile[t] /\ refreshing'[t] = refreshing[t] /\ refresh'[t] = refresh[t] /\ calls'[t] = calls[t] /\ asking'[t] = asking[t] /\ logout'[t] = logout[t]
    BY <1>12 DEF Login, store, work
  <2>2. page[t] = "open" /\ login[t] = "idle" /\ login'[t] = "sent"
    BY <1>0, <1>12 DEF Login, Typed
  <2>3. PageSound(t)'
    BY <1>0, <2>1, <2>2, Sets DEF PageSound
  <2>4. User(t)
    BY <1>12 DEF User
  <2>5. Elsewhere(t)
    BY <1>0, <2>4, Others
  <2> QED BY <1>0, <2>3, <2>5 DEF Elsewhere, PageSound
<1>13. ASSUME NEW t \in Tabs, Logout(t) PROVE \A s \in Tabs : PageSound(s)'
  <2>1. page'[t] = page[t] /\ profile'[t] = profile[t] /\ refreshing'[t] = refreshing[t] /\ refresh'[t] = refresh[t] /\ calls'[t] = calls[t] /\ asking'[t] = asking[t] /\ login'[t] = login[t]
    BY <1>13 DEF Logout, store, work
  <2>2. page[t] = "open"
    BY <1>0, <1>13 DEF Logout, Typed
  <2>3. PageSound(t)'
    BY <1>0, <2>1, <2>2, Sets DEF PageSound
  <2>4. User(t)
    BY <1>13 DEF User
  <2>5. Elsewhere(t)
    BY <1>0, <2>4, Others
  <2> QED BY <1>0, <2>3, <2>5 DEF Elsewhere, PageSound
<1>14. ASSUME NEW t \in Tabs, NEW c \in Calls, Call(t, c) PROVE \A s \in Tabs : PageSound(s)'
  <2>1. page'[t] = page[t] /\ profile'[t] = profile[t] /\ refreshing'[t] = refreshing[t] /\ refresh'[t] = refresh[t] /\ asking'[t] = asking[t] /\ login'[t] = login[t] /\ logout'[t] = logout[t]
    BY <1>14 DEF Call, store
  <2>2. page[t] = "open"
    BY <1>0, <1>14 DEF Call, Typed
  <2>3. calls'[t][Me] = calls[t][Me]
    BY <1>0, <1>14, CallBecame, ClientAssumption DEF Call, All, CallBecomes
  <2>4. PageSound(t)'
    BY <1>0, <2>1, <2>2, <2>3, Sets DEF PageSound
  <2>5. User(t)
    BY <1>14 DEF User
  <2>6. Elsewhere(t)
    BY <1>0, <2>5, Others
  <2> QED BY <1>0, <2>4, <2>6 DEF Elsewhere, PageSound
<1>15. ASSUME NEW t \in Tabs, LoginAnswered(t) PROVE \A s \in Tabs : PageSound(s)'
  <2>1. page'[t] = page[t] /\ profile'[t] = profile[t] /\ refreshing'[t] = refreshing[t] /\ refresh'[t] = refresh[t] /\ logout'[t] = logout[t]
    BY <1>15 DEF LoginAnswered
  <2>2. login[t] = "sent" /\ login'[t] = "me"
    BY <1>0, <1>15 DEF LoginAnswered, Typed
  <2>3. PageSound(t)'
    BY <1>0, <2>1, <2>2, Sets DEF PageSound
  <2>4. Page(t)
    BY <1>15 DEF Page, Refresh, CallStep
  <2>5. Elsewhere(t)
    BY <1>0, <2>4, Others
  <2> QED BY <1>0, <2>3, <2>5 DEF Elsewhere, PageSound
<1>16. ASSUME NEW t \in Tabs, LoginFails(t) PROVE \A s \in Tabs : PageSound(s)'
  <2>1. page'[t] = page[t] /\ profile'[t] = profile[t] /\ refreshing'[t] = refreshing[t] /\ refresh'[t] = refresh[t] /\ calls'[t] = calls[t] /\ asking'[t] = asking[t] /\ logout'[t] = logout[t]
    BY <1>16 DEF LoginFails, store, work
  <2>2. login[t] = "sent" /\ login'[t] = "idle"
    BY <1>0, <1>16 DEF LoginFails, Typed
  <2>3. PageSound(t)'
    BY <1>0, <2>1, <2>2, Sets DEF PageSound
  <2>4. Page(t)
    BY <1>16 DEF Page, Refresh, CallStep
  <2>5. Elsewhere(t)
    BY <1>0, <2>4, Others
  <2> QED BY <1>0, <2>3, <2>5 DEF Elsewhere, PageSound
<1>17. ASSUME NEW t \in Tabs, LogoutEnds(t) PROVE \A s \in Tabs : PageSound(s)'
  <2>1. refreshing'[t] = refreshing[t] /\ refresh'[t] = refresh[t] /\ calls'[t] = calls[t] /\ asking'[t] = asking[t] /\ login'[t] = login[t]
    BY <1>17 DEF LogoutEnds, work
  <2>2. page'[t] = "left" /\ logout[t].at = "sent"
    BY <1>0, <1>17 DEF LogoutEnds, Typed
  <2>3. PageSound(t)'
    BY <1>0, <2>1, <2>2, Sets DEF PageSound
  <2>4. Page(t)
    BY <1>17 DEF Page, Refresh, CallStep
  <2>5. Elsewhere(t)
    BY <1>0, <2>4, Others
  <2> QED BY <1>0, <2>3, <2>5 DEF Elsewhere, PageSound
<1>18. ASSUME NEW t \in Tabs, NEW c \in Calls \cup {Me}, CallSettled(t, c) PROVE \A s \in Tabs : PageSound(s)'
  <2>1. refreshing'[t] = refreshing[t] /\ refresh'[t] = refresh[t] /\ logout'[t] = logout[t]
    BY <1>18 DEF CallSettled
  <2>2. CallBecomes(t, c, "idle") /\ c \in All /\ calls[t][c] # "idle"
    BY <1>0, <1>18, CallBecame DEF CallSettled, All
  <2>3. \/ /\ c = Me
           /\ page'[t] = (IF page[t] = "profile" THEN "open" ELSE page[t])
           /\ login'[t] = (IF login[t] = "me" THEN "idle" ELSE login[t])
        \/ page'[t] = page[t] /\ login'[t] = login[t] /\ profile'[t] = profile[t] /\ asking'[t] = asking[t]
    BY <1>0, <1>18 DEF CallSettled, Continue, Typed
  <2>4. calls'[t][Me] = "idle" \/ (c # Me /\ calls'[t][Me] = calls[t][Me])
    BY <2>2, Sets DEF CallBecomes
  <2>5. PageSound(t)'
    BY <1>0, <2>1, <2>2, <2>3, <2>4, Sets DEF PageSound
  <2>6. Page(t)
    BY <1>18 DEF Page, Refresh, CallStep
  <2>7. Elsewhere(t)
    BY <1>0, <2>6, Others
  <2> QED BY <1>0, <2>5, <2>7 DEF Elsewhere, PageSound
<1>19. ASSUME NEW t \in Tabs, NEW c \in Calls \cup {Me}, CallQueued(t, c) PROVE \A s \in Tabs : PageSound(s)'
  <2>1. page'[t] = page[t] /\ profile'[t] = profile[t] /\ refreshing'[t] = refreshing[t] /\ refresh'[t] = refresh[t] /\ asking'[t] = asking[t] /\ login'[t] = login[t] /\ logout'[t] = logout[t]
    BY <1>19 DEF CallQueued, store
  <2>2. CallBecomes(t, c, "queued") /\ c \in All /\ calls[t][c] = "out"
    BY <1>0, <1>19, CallBecame DEF CallQueued, All
  <2>3. calls[t][Me] = "idle" => calls'[t][Me] = "idle"
    BY <2>2, Sets DEF CallBecomes
  <2>4. PageSound(t)'
    BY <1>0, <2>1, <2>2, <2>3, Sets DEF PageSound
  <2>5. Page(t)
    BY <1>19 DEF Page, Refresh, CallStep
  <2>6. Elsewhere(t)
    BY <1>0, <2>5, Others
  <2> QED BY <1>0, <2>4, <2>6 DEF Elsewhere, PageSound
<1>20. ASSUME NEW t \in Tabs, NEW c \in Calls \cup {Me}, CallStartsRefresh(t, c) PROVE \A s \in Tabs : PageSound(s)'
  <2>1. page'[t] = page[t] /\ profile'[t] = profile[t] /\ asking'[t] = asking[t] /\ login'[t] = login[t] /\ logout'[t] = logout[t]
    BY <1>20 DEF CallStartsRefresh, store
  <2>2. CallBecomes(t, c, "waits") /\ c \in All /\ calls[t][c] = "out"
    BY <1>0, <1>20, CallBecame DEF CallStartsRefresh, All
  <2>3. calls[t][Me] = "idle" => calls'[t][Me] = "idle"
    BY <2>2, Sets DEF CallBecomes
  <2>4. ~refreshing[t] /\ refreshing'[t]
    BY <1>0, <1>20 DEF CallStartsRefresh, Typed
  <2>5. refresh'[t].at \in {"waiting", "sent"}
    BY <1>0, <1>20, Requested DEF CallStartsRefresh, RefreshBecomes
  <2>6. PageSound(t)'
    BY <1>0, <2>1, <2>2, <2>3, <2>4, <2>5, Sets DEF PageSound
  <2>7. Page(t)
    BY <1>20 DEF Page, Refresh, CallStep
  <2>8. Elsewhere(t)
    BY <1>0, <2>7, Others
  <2> QED BY <1>0, <2>6, <2>8 DEF Elsewhere, PageSound
<1>21. CASE UNCHANGED vars
  BY <1>0, <1>21 DEF vars, store, work, PageSound
<1> QED BY <1>1, <1>2, <1>3, <1>4, <1>5, <1>6, <1>7, <1>8, <1>9, <1>10, <1>11, <1>12, <1>13, <1>14, <1>15, <1>16, <1>17, <1>18, <1>19, <1>20, <1>21
     DEF Next, Server, User, Page, Refresh, CallStep

------------------------------------------------------------------------------
(* The lock.                                                               *)

(* Every step keeps it. *)
LEMMA LockStep ==
  ASSUME Typed, LockInv, \A t \in Tabs : PageSound(t), [Next]_vars
  PROVE  LockInv'
<1>0. Typed /\ LockInv /\ \A t \in Tabs : PageSound(t)
  OBVIOUS
<1>1. ASSUME NEW t \in Tabs, ServeRefresh(t) PROVE LockInv'
  <2>1. locks' = locks /\ holder' = holder
    BY <1>1 DEF ServeRefresh, browser
  <2>2. refresh[t].at = "sent" /\ refresh'[t].at \in {"served", "refused"}
    BY <1>0, <1>1, Served DEF RefreshBecomes
  <2>3. ServeRefresh(t)
    BY <1>1 DEF ServeRefresh
  <2>4. Elsewhere(t)
    BY <1>0, <2>3, Others
  <2> QED BY <1>0, <2>1, <2>2, <2>4, ClientAssumption DEF Elsewhere, LockInv, InFlight
<1>2. ASSUME NEW k \in strays, ServeStray(k) PROVE LockInv'
  BY <1>0, <1>2 DEF ServeStray, browser, LockInv, InFlight
<1>3. ASSUME NEW r \in open, EndSession(r) PROVE LockInv'
  BY <1>0, <1>3 DEF EndSession, browser, LockInv, InFlight
<1>4. ASSUME NEW t \in Tabs, Grant(t) PROVE LockInv'
  <2>1. locks' = locks /\ holder = None /\ holder' = t
    BY <1>4 DEF Grant
  <2>2. refresh[t].at = "waiting" /\ refresh'[t].at = "sent"
    BY <1>0, <1>4, Sent DEF Grant, RefreshBecomes
  <2>3. Page(t)
    BY <1>4 DEF Page, Refresh, CallStep
  <2>4. Elsewhere(t)
    BY <1>0, <2>3, Others
  <2> QED BY <1>0, <2>1, <2>2, <2>4, ClientAssumption DEF Elsewhere, LockInv, InFlight
<1>5. ASSUME NEW t \in Tabs, RefreshAnswered(t) PROVE LockInv'
  <2>1. locks' = locks /\ holder' = (IF holder = t THEN None ELSE holder)
    BY <1>5 DEF RefreshAnswered, Release
  <2>2. refresh[t].at \in {"served", "refused"} /\ refresh'[t].at \in {"done", "failed"}
    BY <1>0, <1>5, Answer DEF RefreshBecomes
  <2>3. Page(t)
    BY <1>5 DEF Page, Refresh, CallStep
  <2>4. Elsewhere(t)
    BY <1>0, <2>3, Others
  <2> QED BY <1>0, <2>1, <2>2, <2>4, ClientAssumption DEF Elsewhere, LockInv, InFlight
<1>6. ASSUME NEW t \in Tabs, RefreshLost(t) PROVE LockInv'
  <2>1. locks' = locks /\ holder' = (IF holder = t THEN None ELSE holder)
    BY <1>6 DEF RefreshLost, Release
  <2>2. InFlight(t) /\ refresh'[t].at = "failed"
    BY <1>0, <1>6, GivenUp DEF RefreshLost, RefreshBecomes, InFlight
  <2>3. Page(t)
    BY <1>6 DEF Page, Refresh, CallStep
  <2>4. Elsewhere(t)
    BY <1>0, <2>3, Others
  <2> QED BY <1>0, <2>1, <2>2, <2>4, ClientAssumption DEF Elsewhere, LockInv, InFlight
<1>7. ASSUME NEW t \in Tabs, RefreshDone(t) PROVE LockInv'
  <2>1. locks' = locks /\ holder' = holder
    BY <1>7 DEF RefreshDone, browser
  <2>2. refresh[t].at \in {"done", "failed"}
    BY <1>7 DEF RefreshDone
  <2>3. refresh'[t].at = "idle"
    BY <1>0, <1>7, Finished DEF RefreshBecomes
  <2>4. Page(t)
    BY <1>7 DEF Page, Refresh, CallStep
  <2>5. Elsewhere(t)
    BY <1>0, <2>4, Others
  <2> QED BY <1>0, <2>1, <2>2, <2>3, <2>5, ClientAssumption DEF Elsewhere, LockInv, InFlight
<1>8. ASSUME NEW t \in Tabs, RefreshFailed(t) PROVE LockInv'
  <2>1. locks' = locks /\ holder' = holder
    BY <1>8 DEF RefreshFailed, browser
  <2>2. refresh[t].at \in {"done", "failed"}
    BY <1>8 DEF RefreshFailed
  <2>3. refresh'[t].at = "idle"
    BY <1>0, <1>8, Finished DEF RefreshBecomes
  <2>4. Page(t)
    BY <1>8 DEF Page, Refresh, CallStep
  <2>5. Elsewhere(t)
    BY <1>0, <2>4, Others
  <2> QED BY <1>0, <2>1, <2>2, <2>3, <2>5, ClientAssumption DEF Elsewhere, LockInv, InFlight
<1>9. ASSUME NEW t \in Tabs, Restored(t) PROVE LockInv'
  <2>1. locks' = locks /\ holder' = holder
    BY <1>9 DEF Restored, browser
  <2>2. refresh[t].at \in {"done", "failed"}
    BY <1>9 DEF Restored
  <2>3. refresh'[t].at = "idle"
    BY <1>0, <1>9, Finished DEF RefreshBecomes
  <2>4. Page(t)
    BY <1>9 DEF Page, Refresh, CallStep
  <2>5. Elsewhere(t)
    BY <1>0, <2>4, Others
  <2> QED BY <1>0, <2>1, <2>2, <2>3, <2>5, ClientAssumption DEF Elsewhere, LockInv, InFlight
<1>10. ASSUME NEW t \in Tabs, OpenPage(t) PROVE LockInv'
  <2>1. locks' = locks /\ holder' = holder
    BY <1>10 DEF OpenPage
  <2>2. refresh[t].at = "idle"
    BY <1>0, <1>10 DEF OpenPage, PageSound, All
  <2>3. \/ locks /\ refresh'[t].at = "waiting"
        \/ ~locks /\ refresh'[t].at = "sent"
    BY <1>0, <1>10, Requested DEF OpenPage, RefreshBecomes
  <2>4. User(t)
    BY <1>10 DEF User
  <2>5. Elsewhere(t)
    BY <1>0, <2>4, Others
  <2> QED BY <1>0, <2>1, <2>2, <2>3, <2>5, ClientAssumption DEF Elsewhere, LockInv, InFlight
<1>11. ASSUME NEW t \in Tabs, ClosePage(t) PROVE LockInv'
  <2>1. locks' = locks /\ holder' = (IF holder = t THEN None ELSE holder)
    BY <1>11 DEF ClosePage, Release
  <2>2. refresh'[t].at = "idle"
    BY <1>0, <1>11, Finished DEF RefreshBecomes
  <2>3. User(t)
    BY <1>11 DEF User
  <2>4. Elsewhere(t)
    BY <1>0, <2>3, Others
  <2> QED BY <1>0, <2>1, <2>2, <2>4, ClientAssumption DEF Elsewhere, LockInv, InFlight
<1>12. ASSUME NEW t \in Tabs, Login(t) PROVE LockInv'
  BY <1>0, <1>12 DEF Login, browser, LockInv, InFlight
<1>13. ASSUME NEW t \in Tabs, Logout(t) PROVE LockInv'
  BY <1>0, <1>13 DEF Logout, browser, LockInv, InFlight
<1>14. ASSUME NEW t \in Tabs, NEW c \in Calls, Call(t, c) PROVE LockInv'
  BY <1>0, <1>14 DEF Call, browser, LockInv, InFlight
<1>15. ASSUME NEW t \in Tabs, LoginAnswered(t) PROVE LockInv'
  BY <1>0, <1>15 DEF LoginAnswered, browser, LockInv, InFlight
<1>16. ASSUME NEW t \in Tabs, LoginFails(t) PROVE LockInv'
  BY <1>0, <1>16 DEF LoginFails, browser, LockInv, InFlight
<1>17. ASSUME NEW t \in Tabs, LogoutEnds(t) PROVE LockInv'
  BY <1>0, <1>17 DEF LogoutEnds, browser, LockInv, InFlight
<1>18. ASSUME NEW t \in Tabs, NEW c \in Calls \cup {Me}, CallSettled(t, c) PROVE LockInv'
  BY <1>0, <1>18 DEF CallSettled, browser, LockInv, InFlight
<1>19. ASSUME NEW t \in Tabs, NEW c \in Calls \cup {Me}, CallQueued(t, c) PROVE LockInv'
  BY <1>0, <1>19 DEF CallQueued, browser, LockInv, InFlight
<1>20. ASSUME NEW t \in Tabs, NEW c \in Calls \cup {Me}, CallStartsRefresh(t, c) PROVE LockInv'
  <2>1. locks' = locks /\ holder' = holder
    BY <1>20 DEF CallStartsRefresh
  <2>2. refresh[t].at = "idle"
    BY <1>0, <1>20 DEF CallStartsRefresh, PageSound, All
  <2>3. \/ locks /\ refresh'[t].at = "waiting"
        \/ ~locks /\ refresh'[t].at = "sent"
    BY <1>0, <1>20, Requested DEF CallStartsRefresh, RefreshBecomes
  <2>4. Page(t)
    BY <1>20 DEF Page, Refresh, CallStep
  <2>5. Elsewhere(t)
    BY <1>0, <2>4, Others
  <2> QED BY <1>0, <2>1, <2>2, <2>3, <2>5, ClientAssumption DEF Elsewhere, LockInv, InFlight
<1>21. CASE UNCHANGED vars
  BY <1>0, <1>21 DEF vars, browser, LockInv, InFlight
<1> QED BY <1>1, <1>2, <1>3, <1>4, <1>5, <1>6, <1>7, <1>8, <1>9, <1>10, <1>11, <1>12, <1>13, <1>14, <1>15, <1>16, <1>17, <1>18, <1>19, <1>20, <1>21
     DEF Next, Server, User, Page, Refresh, CallStep

------------------------------------------------------------------------------
(* The tokens: what the server knows of them, and who holds which.         *)

ServerSound ==
  /\ \A k \in Token : root[k] # 0 <=> k <= issued
  /\ \A k \in 1..issued : root[k] <= k /\ root[root[k]] = root[k]
  /\ open \subseteq {k \in 1..issued : root[k] = k}

Grown ==
  /\ issued <= issued'
  /\ \A k \in 1..issued : root'[k] = root[k]

HeldSound(t) ==
  /\ token[t] <= issued /\ refresh[t].tok <= issued
  /\ asking[t] <= issued /\ logout[t].tok <= issued

LEMMA TokenInvSound ==
  TokenInv <=> ServerSound /\ cookie <= issued /\ \A t \in Tabs : HeldSound(t)
BY DEF TokenInv, ServerSound, HeldSound

LEMMA Issued ==
  ASSUME Typed, ServerSound
  PROVE  /\ issued \in Nat /\ MaxTokens \in Nat /\ 1..issued \subseteq Token
         /\ \A k \in Num : k # 0 => k \in Token
         /\ \A k \in Token : k \in Num /\ k # 0 /\ root[k] \in Num
         /\ \A k \in Token : root[k] # 0 => k \in 1..issued
         /\ \A k \in 1..issued : root[k] \in 1..issued
         /\ 0 \notin open
<1>1. /\ issued \in Nat /\ MaxTokens \in Nat /\ 1..issued \subseteq Token
      /\ \A k \in Num : k # 0 => k \in Token
  BY Sets, ClientAssumption DEF Typed, Token, Num
<1>2. \A k \in Token : k \in Num /\ k # 0 /\ root[k] \in Num
  BY Sets DEF Typed
<1>3. \A k \in Token : k \in Nat /\ root[k] \in Nat
  BY <1>2, Sets
<1>4. \A k \in Token : root[k] # 0 => k \in 1..issued
  BY <1>1, <1>2, <1>3 DEF ServerSound
<1>5. \A k \in 1..issued : root[k] \in 1..issued
  BY <1>1, <1>3 DEF ServerSound
<1>6. 0 \notin open
  BY DEF ServerSound
<1> QED BY <1>1, <1>2, <1>4, <1>5, <1>6

LEMMA Opened ==
  ASSUME Typed, ServerSound, NEW r \in Num, Issue(r),
         (r \in 1..issued /\ root[r] = r) \/ r = issued + 1
  PROVE  /\ issued + 1 \in Token /\ issued' = issued + 1 /\ Grown
         /\ root'[issued + 1] = r
         /\ open' \subseteq open \cup {r} => ServerSound'
<1>1. /\ issued < MaxTokens /\ issued' = issued + 1
      /\ root' = [root EXCEPT ![issued + 1] = r]
  BY DEF Issue
<1>2. issued + 1 \in Token /\ issued \in Nat /\ 1..issued \subseteq Token
  BY <1>1, Issued, Sets DEF Typed
<1>3. root \in [Token -> Num]
  BY DEF Typed
<1>4. root'[issued + 1] = r /\ \A k \in Token : k # issued + 1 => root'[k] = root[k]
  BY <1>1, <1>2, <1>3
<1>5. \A k \in 1..issued : k # issued + 1 /\ k \in Token
  BY <1>2
<1>6. Grown
  BY <1>1, <1>2, <1>4, <1>5 DEF Grown
<1>7. r \in 1..issued + 1 /\ root'[r] = r
  BY <1>2, <1>4, <1>5
<1>8. \A k \in Token : root'[k] # 0 <=> k <= issued'
  <2>1. TAKE k \in Token
  <2>2. k \in Nat /\ k # 0
    BY Sets
  <2>3. CASE k = issued + 1
    BY <2>2, <2>3, <1>1, <1>2, <1>4, <1>7
  <2>4. CASE k # issued + 1
    BY <2>2, <2>4, <1>1, <1>2, <1>4 DEF ServerSound
  <2> QED BY <2>3, <2>4
<1>9. \A k \in 1..issued' : root'[k] <= k /\ root'[root'[k]] = root'[k]
  <2>1. TAKE k \in 1..issued'
  <2>2. CASE k = issued + 1
    BY <2>2, <1>2, <1>4, <1>7
  <2>3. CASE k \in 1..issued
    <3>1. root[k] \in 1..issued /\ root[k] <= k /\ root[root[k]] = root[k]
      BY <2>3, Issued DEF ServerSound
    <3> QED BY <2>3, <3>1, <1>4, <1>5
  <2> QED BY <2>2, <2>3, <1>1, <1>2
<1>10. open' \subseteq open \cup {r} => open' \subseteq {k \in 1..issued' : root'[k] = k}
  <2>1. \A k \in open : k \in 1..issued /\ root[k] = k
    BY DEF ServerSound
  <2>2. \A k \in open : k \in 1..issued' /\ root'[k] = k
    BY <2>1, <1>1, <1>2, <1>4, <1>5
  <2> QED BY <2>2, <1>1, <1>2, <1>7
<1> QED BY <1>1, <1>2, <1>4, <1>6, <1>8, <1>9, <1>10 DEF ServerSound

(* An exchange: k is the newest of an open family, and joined by one newer. *)
LEMMA Rotated ==
  ASSUME Typed, ServerSound, NEW k \in Num, Rotate(k)
  PROVE  /\ k \in 1..issued /\ root[k] \in open /\ Newest(k)
         /\ issued + 1 \in Token /\ issued' = issued + 1 /\ Grown
         /\ root'[issued + 1] = root[k] /\ open' = open /\ ServerSound'
<1>1. k # 0 /\ root[k] \in open /\ Newest(k) /\ Issue(root[k]) /\ open' = open
  BY DEF Rotate, Exchangeable
<1>2. k \in Token /\ root[k] \in Num /\ root[k] # 0
  BY <1>1, Issued
<1>3. k \in 1..issued
  BY <1>2, Issued
<1>4. root[k] \in 1..issued /\ root[root[k]] = root[k]
  BY <1>3, Issued DEF ServerSound
<1>5. /\ issued + 1 \in Token /\ issued' = issued + 1 /\ Grown
      /\ root'[issued + 1] = root[k]
      /\ open' \subseteq open \cup {root[k]} => ServerSound'
  BY <1>1, <1>2, <1>4, Opened
<1> QED BY <1>1, <1>3, <1>5

LEMMA Ended ==
  ASSUME ServerSound, UNCHANGED <<issued, root>>, open' \subseteq open, Typed
  PROVE  ServerSound' /\ Grown
<1>1. issued <= issued
  BY Issued
<1> QED BY <1>1 DEF ServerSound, Grown

LEMMA Refused ==
  ASSUME Typed, ServerSound, NEW k \in Num, Refuse(k)
  PROVE  /\ ServerSound' /\ Grown /\ UNCHANGED <<issued, root>> /\ open' \subseteq open
         /\ k = 0 => open' = open
<1>1. UNCHANGED <<issued, root>> /\ open' \subseteq open /\ (k = 0 => open' = open)
  BY DEF Refuse, EndFamily
<1> QED BY <1>1, Ended

(* A login: the first token of a family. *)
LEMMA NewFamily ==
  ASSUME Typed, ServerSound, NEW t \in Tabs, LoginAnswered(t)
  PROVE  /\ issued + 1 \in Token /\ issued' = issued + 1 /\ Grown
         /\ root'[issued + 1] = issued + 1 /\ open' = open \cup {issued + 1} /\ ServerSound'
<1>1. Issue(issued + 1) /\ open' = open \cup {issued + 1}
  BY DEF LoginAnswered
<1>2. issued + 1 \in Num
  BY <1>1, Sets DEF Typed, Issue
<1> QED BY <1>1, <1>2, Opened

(* Every step keeps it, and adds at most one token. *)
LEMMA ServerStep ==
  ASSUME Typed, ServerSound, [Next]_vars
  PROVE  ServerSound' /\ Grown
<1>0. Typed /\ ServerSound
  OBVIOUS
<1>1. ASSUME NEW t \in Tabs, ServeRefresh(t) PROVE ServerSound' /\ Grown
  <2>1. refresh[t].tok \in Num
    BY <1>0, Recorded DEF Typed
  <2>2. Rotate(refresh[t].tok) \/ Refuse(refresh[t].tok)
    BY <1>1 DEF ServeRefresh
  <2> QED BY <1>0, <2>1, <2>2, Rotated, Refused
<1>2. ASSUME NEW k \in strays, ServeStray(k) PROVE ServerSound' /\ Grown
  <2>1. k \in Num
    BY <1>0, Recorded DEF Typed
  <2>2. Rotate(k) \/ Refuse(k)
    BY <1>2 DEF ServeStray
  <2> QED BY <1>0, <2>1, <2>2, Rotated, Refused
<1>3. ASSUME NEW r \in open, EndSession(r) PROVE ServerSound' /\ Grown
  BY <1>0, <1>3, Ended DEF EndSession
<1>4. ASSUME NEW t \in Tabs, Grant(t) PROVE ServerSound' /\ Grown
  BY <1>0, <1>4, Ended DEF Grant, server
<1>5. ASSUME NEW t \in Tabs, RefreshAnswered(t) PROVE ServerSound' /\ Grown
  BY <1>0, <1>5, Ended DEF RefreshAnswered, server
<1>6. ASSUME NEW t \in Tabs, RefreshLost(t) PROVE ServerSound' /\ Grown
  BY <1>0, <1>6, Ended DEF RefreshLost, server
<1>7. ASSUME NEW t \in Tabs, RefreshDone(t) PROVE ServerSound' /\ Grown
  BY <1>0, <1>7, Ended DEF RefreshDone, server
<1>8. ASSUME NEW t \in Tabs, RefreshFailed(t) PROVE ServerSound' /\ Grown
  BY <1>0, <1>8, Ended DEF RefreshFailed, server
<1>9. ASSUME NEW t \in Tabs, Restored(t) PROVE ServerSound' /\ Grown
  BY <1>0, <1>9, Ended DEF Restored, server
<1>10. ASSUME NEW t \in Tabs, OpenPage(t) PROVE ServerSound' /\ Grown
  BY <1>0, <1>10, Ended DEF OpenPage, server
<1>11. ASSUME NEW t \in Tabs, ClosePage(t) PROVE ServerSound' /\ Grown
  BY <1>0, <1>11, Ended DEF ClosePage, server
<1>12. ASSUME NEW t \in Tabs, Login(t) PROVE ServerSound' /\ Grown
  BY <1>0, <1>12, Ended DEF Login, server
<1>13. ASSUME NEW t \in Tabs, Logout(t) PROVE ServerSound' /\ Grown
  BY <1>0, <1>13, Ended DEF Logout, server
<1>14. ASSUME NEW t \in Tabs, NEW c \in Calls, Call(t, c) PROVE ServerSound' /\ Grown
  BY <1>0, <1>14, Ended DEF Call, server
<1>15. ASSUME NEW t \in Tabs, LoginAnswered(t) PROVE ServerSound' /\ Grown
  BY <1>0, <1>15, NewFamily
<1>16. ASSUME NEW t \in Tabs, LoginFails(t) PROVE ServerSound' /\ Grown
  BY <1>0, <1>16, Ended DEF LoginFails, server
<1>17. ASSUME NEW t \in Tabs, LogoutEnds(t) PROVE ServerSound' /\ Grown
  BY <1>0, <1>17, Ended DEF LogoutEnds, EndFamily
<1>18. ASSUME NEW t \in Tabs, NEW c \in Calls \cup {Me}, CallSettled(t, c) PROVE ServerSound' /\ Grown
  BY <1>0, <1>18, Ended DEF CallSettled, server
<1>19. ASSUME NEW t \in Tabs, NEW c \in Calls \cup {Me}, CallQueued(t, c) PROVE ServerSound' /\ Grown
  BY <1>0, <1>19, Ended DEF CallQueued, server
<1>20. ASSUME NEW t \in Tabs, NEW c \in Calls \cup {Me}, CallStartsRefresh(t, c) PROVE ServerSound' /\ Grown
  BY <1>0, <1>20, Ended DEF CallStartsRefresh, server
<1>21. CASE UNCHANGED vars
  BY <1>0, <1>21, Ended DEF vars, server
<1> QED BY <1>1, <1>2, <1>3, <1>4, <1>5, <1>6, <1>7, <1>8, <1>9, <1>10, <1>11, <1>12, <1>13, <1>14, <1>15, <1>16, <1>17, <1>18, <1>19, <1>20, <1>21
     DEF Next, Server, User, Page, Refresh, CallStep
(* What tokens there are is a matter of one bound that never falls. *)
Bounded ==
  /\ issued \in Nat /\ issued' \in Nat /\ issued <= issued' /\ cookie \in Nat
  /\ \A t \in Tabs : /\ token[t] \in Nat /\ refresh[t].tok \in Nat
                     /\ asking[t] \in Nat /\ logout[t].tok \in Nat

LEMMA Bounds ==
  ASSUME Typed, ServerSound, [Next]_vars
  PROVE  Bounded
<1>0. Typed
  OBVIOUS
<1>1. Typed' /\ Grown
  BY TypeStep, ServerStep
<1>2. issued \in Nat /\ issued' \in Nat /\ issued <= issued' /\ cookie \in Nat
  <2>1. issued \in Num /\ issued' \in Num /\ cookie \in Num
    BY <1>0, <1>1 DEF Typed
  <2> QED BY <1>1, <2>1, Sets DEF Grown
<1>3. ASSUME NEW t \in Tabs
      PROVE  token[t] \in Num /\ refresh[t].tok \in Num /\ asking[t] \in Num /\ logout[t].tok \in Num
  BY <1>0, Recorded DEF Typed
<1> QED BY <1>2, <1>3, Sets DEF Bounded

(* Every step keeps it. *)
LEMMA HeldStep ==
  ASSUME Typed, ServerSound, cookie <= issued, (\A s \in Tabs : HeldSound(s)), [Next]_vars
  PROVE  cookie' <= issued' /\ \A u \in Tabs : HeldSound(u)'
<1>0. Typed /\ ServerSound /\ cookie <= issued /\ (\A s \in Tabs : HeldSound(s))
  OBVIOUS
<1>b. Bounded
  BY <1>0, Bounds
<1>1. ASSUME NEW t \in Tabs, ServeRefresh(t) PROVE cookie' <= issued' /\ \A u \in Tabs : HeldSound(u)'
  <2>1. token'[t] = token[t] /\ asking'[t] = asking[t] /\ logout'[t] = logout[t] /\ cookie' = cookie
    BY <1>1 DEF ServeRefresh, store, work, browser
  <2>2. refresh'[t].tok <= issued'
    <3>1. refresh[t].tok \in Num
      BY <1>0, Recorded DEF Typed
    <3>2. refresh'[t].tok = refresh[t].tok \/ (Rotate(refresh[t].tok) /\ refresh'[t].tok = issued + 1)
      BY <1>0, <1>1, Served DEF RefreshBecomes
    <3>3. refresh[t].tok <= issued
      BY <1>0 DEF HeldSound
    <3> QED BY <1>0, <1>b, <3>1, <3>2, <3>3, Rotated DEF Bounded
  <2>3. ServeRefresh(t)
    BY <1>1 DEF ServeRefresh
  <2>4. Elsewhere(t)
    BY <1>0, <2>3, Others
  <2>5. HeldSound(t)' /\ cookie' <= issued'
    BY <1>0, <1>b, <2>1, <2>2 DEF HeldSound, Bounded
  <2>6. \A u \in Tabs : u # t => HeldSound(u)'
    BY <1>0, <1>b, <2>4 DEF HeldSound, Elsewhere, Bounded
  <2> QED BY <2>5, <2>6
<1>2. ASSUME NEW k \in strays, ServeStray(k) PROVE cookie' <= issued' /\ \A u \in Tabs : HeldSound(u)'
  BY <1>0, <1>b, <1>2 DEF ServeStray, HeldSound, Bounded, browser, store, work
<1>3. ASSUME NEW r \in open, EndSession(r) PROVE cookie' <= issued' /\ \A u \in Tabs : HeldSound(u)'
  BY <1>0, <1>b, <1>3 DEF EndSession, HeldSound, Bounded, browser, store, work
<1>4. ASSUME NEW t \in Tabs, Grant(t) PROVE cookie' <= issued' /\ \A u \in Tabs : HeldSound(u)'
  <2>1. token'[t] = token[t] /\ asking'[t] = asking[t] /\ logout'[t] = logout[t] /\ cookie' = cookie
    BY <1>4 DEF Grant, store, work, browser
  <2>2. refresh'[t].tok = cookie
    BY <1>0, <1>4, Sent DEF RefreshBecomes
  <2>3. Page(t)
    BY <1>4 DEF Page, Refresh, CallStep
  <2>4. Elsewhere(t)
    BY <1>0, <2>3, Others
  <2>5. HeldSound(t)' /\ cookie' <= issued'
    BY <1>0, <1>b, <2>1, <2>2 DEF HeldSound, Bounded
  <2>6. \A u \in Tabs : u # t => HeldSound(u)'
    BY <1>0, <1>b, <2>4 DEF HeldSound, Elsewhere, Bounded
  <2> QED BY <2>5, <2>6
<1>5. ASSUME NEW t \in Tabs, RefreshAnswered(t) PROVE cookie' <= issued' /\ \A u \in Tabs : HeldSound(u)'
  <2>1. asking'[t] = asking[t] /\ logout'[t] = logout[t]
    BY <1>5 DEF RefreshAnswered, store, work, browser
  <2>2. refresh'[t].tok = refresh[t].tok /\ cookie' \in {0, cookie, refresh[t].tok}
    BY <1>0, <1>5, Answer DEF RefreshBecomes
  <2>3. token'[t] \in {token[t], refresh[t].tok}
    BY <1>0, <1>5 DEF RefreshAnswered, Typed
  <2>4. Page(t)
    BY <1>5 DEF Page, Refresh, CallStep
  <2>5. Elsewhere(t)
    BY <1>0, <2>4, Others
  <2>6. HeldSound(t)' /\ cookie' <= issued'
    BY <1>0, <1>b, <2>1, <2>2, <2>3 DEF HeldSound, Bounded
  <2>7. \A u \in Tabs : u # t => HeldSound(u)'
    BY <1>0, <1>b, <2>5 DEF HeldSound, Elsewhere, Bounded
  <2> QED BY <2>6, <2>7
<1>6. ASSUME NEW t \in Tabs, RefreshLost(t) PROVE cookie' <= issued' /\ \A u \in Tabs : HeldSound(u)'
  <2>1. token'[t] = token[t] /\ asking'[t] = asking[t] /\ logout'[t] = logout[t] /\ cookie' = cookie
    BY <1>6 DEF RefreshLost, store, work, browser
  <2>2. refresh'[t].tok = refresh[t].tok
    BY <1>0, <1>6, GivenUp DEF RefreshBecomes
  <2>3. Page(t)
    BY <1>6 DEF Page, Refresh, CallStep
  <2>4. Elsewhere(t)
    BY <1>0, <2>3, Others
  <2>5. HeldSound(t)' /\ cookie' <= issued'
    BY <1>0, <1>b, <2>1, <2>2 DEF HeldSound, Bounded
  <2>6. \A u \in Tabs : u # t => HeldSound(u)'
    BY <1>0, <1>b, <2>4 DEF HeldSound, Elsewhere, Bounded
  <2> QED BY <2>5, <2>6
<1>7. ASSUME NEW t \in Tabs, RefreshDone(t) PROVE cookie' <= issued' /\ \A u \in Tabs : HeldSound(u)'
  <2>1. token'[t] = token[t] /\ logout'[t] = logout[t] /\ cookie' = cookie
    BY <1>7 DEF RefreshDone, store, work, browser
  <2>2. refresh'[t].tok = 0
    BY <1>0, <1>7, Finished DEF RefreshBecomes
  <2>3. asking'[t] \in {asking[t], token[t], refresh[t].tok, 0}
    BY <1>0, <1>7 DEF RefreshDone, Typed
  <2>4. Page(t)
    BY <1>7 DEF Page, Refresh, CallStep
  <2>5. Elsewhere(t)
    BY <1>0, <2>4, Others
  <2>6. HeldSound(t)' /\ cookie' <= issued'
    BY <1>0, <1>b, <2>1, <2>2, <2>3 DEF HeldSound, Bounded
  <2>7. \A u \in Tabs : u # t => HeldSound(u)'
    BY <1>0, <1>b, <2>5 DEF HeldSound, Elsewhere, Bounded
  <2> QED BY <2>6, <2>7
<1>8. ASSUME NEW t \in Tabs, RefreshFailed(t) PROVE cookie' <= issued' /\ \A u \in Tabs : HeldSound(u)'
  <2>1. logout'[t] = logout[t] /\ cookie' = cookie
    BY <1>8 DEF RefreshFailed, store, work, browser
  <2>2. refresh'[t].tok = 0
    BY <1>0, <1>8, Finished DEF RefreshBecomes
  <2>3. asking'[t] \in {asking[t], 0} /\ token'[t] = 0
    BY <1>0, <1>8 DEF RefreshFailed, Typed
  <2>4. Page(t)
    BY <1>8 DEF Page, Refresh, CallStep
  <2>5. Elsewhere(t)
    BY <1>0, <2>4, Others
  <2>6. HeldSound(t)' /\ cookie' <= issued'
    BY <1>0, <1>b, <2>1, <2>2, <2>3 DEF HeldSound, Bounded
  <2>7. \A u \in Tabs : u # t => HeldSound(u)'
    BY <1>0, <1>b, <2>5 DEF HeldSound, Elsewhere, Bounded
  <2> QED BY <2>6, <2>7
<1>9. ASSUME NEW t \in Tabs, Restored(t) PROVE cookie' <= issued' /\ \A u \in Tabs : HeldSound(u)'
  <2>1. token'[t] = token[t] /\ logout'[t] = logout[t] /\ cookie' = cookie
    BY <1>9 DEF Restored, store, work, browser
  <2>2. refresh'[t].tok = 0
    BY <1>0, <1>9, Finished DEF RefreshBecomes
  <2>3. asking'[t] \in {asking[t], token[t]}
    BY <1>0, <1>9 DEF Restored, Typed, AskMe, work
  <2>4. Page(t)
    BY <1>9 DEF Page, Refresh, CallStep
  <2>5. Elsewhere(t)
    BY <1>0, <2>4, Others
  <2>6. HeldSound(t)' /\ cookie' <= issued'
    BY <1>0, <1>b, <2>1, <2>2, <2>3 DEF HeldSound, Bounded
  <2>7. \A u \in Tabs : u # t => HeldSound(u)'
    BY <1>0, <1>b, <2>5 DEF HeldSound, Elsewhere, Bounded
  <2> QED BY <2>6, <2>7
<1>10. ASSUME NEW t \in Tabs, OpenPage(t) PROVE cookie' <= issued' /\ \A u \in Tabs : HeldSound(u)'
  <2>1. token'[t] = token[t] /\ asking'[t] = asking[t] /\ logout'[t] = logout[t] /\ cookie' = cookie
    BY <1>10 DEF OpenPage, store, work, browser
  <2>2. refresh'[t].tok \in {0, cookie}
    BY <1>0, <1>10, Requested DEF OpenPage, RefreshBecomes
  <2>3. User(t)
    BY <1>10 DEF User
  <2>4. Elsewhere(t)
    BY <1>0, <2>3, Others
  <2>5. HeldSound(t)' /\ cookie' <= issued'
    BY <1>0, <1>b, <2>1, <2>2 DEF HeldSound, Bounded
  <2>6. \A u \in Tabs : u # t => HeldSound(u)'
    BY <1>0, <1>b, <2>4 DEF HeldSound, Elsewhere, Bounded
  <2> QED BY <2>5, <2>6
<1>11. ASSUME NEW t \in Tabs, ClosePage(t) PROVE cookie' <= issued' /\ \A u \in Tabs : HeldSound(u)'
  <2>1. cookie' = cookie
    BY <1>11 DEF ClosePage, store, work, browser
  <2>2. refresh'[t].tok = 0
    BY <1>0, <1>11, Finished DEF RefreshBecomes
  <2>3. token'[t] = 0 /\ asking'[t] = 0 /\ logout'[t].tok = 0
    BY <1>0, <1>11, Recorded DEF ClosePage, Typed
  <2>4. User(t)
    BY <1>11 DEF User
  <2>5. Elsewhere(t)
    BY <1>0, <2>4, Others
  <2>6. HeldSound(t)' /\ cookie' <= issued'
    BY <1>0, <1>b, <2>1, <2>2, <2>3 DEF HeldSound, Bounded
  <2>7. \A u \in Tabs : u # t => HeldSound(u)'
    BY <1>0, <1>b, <2>5 DEF HeldSound, Elsewhere, Bounded
  <2> QED BY <2>6, <2>7
<1>12. ASSUME NEW t \in Tabs, Login(t) PROVE cookie' <= issued' /\ \A u \in Tabs : HeldSound(u)'
  <2>1. token'[t] = token[t] /\ refresh'[t] = refresh[t] /\ asking'[t] = asking[t] /\ logout'[t] = logout[t] /\ cookie' = cookie
    BY <1>12 DEF Login, store, work, browser
  <2>2. User(t)
    BY <1>12 DEF User
  <2>3. Elsewhere(t)
    BY <1>0, <2>2, Others
  <2>4. HeldSound(t)' /\ cookie' <= issued'
    BY <1>0, <1>b, <2>1 DEF HeldSound, Bounded
  <2>5. \A u \in Tabs : u # t => HeldSound(u)'
    BY <1>0, <1>b, <2>3 DEF HeldSound, Elsewhere, Bounded
  <2> QED BY <2>4, <2>5
<1>13. ASSUME NEW t \in Tabs, Logout(t) PROVE cookie' <= issued' /\ \A u \in Tabs : HeldSound(u)'
  <2>1. token'[t] = token[t] /\ refresh'[t] = refresh[t] /\ asking'[t] = asking[t] /\ cookie' = cookie
    BY <1>13 DEF Logout, store, work, browser
  <2>2. logout'[t].tok = cookie
    BY <1>0, <1>13 DEF Logout, Typed
  <2>3. User(t)
    BY <1>13 DEF User
  <2>4. Elsewhere(t)
    BY <1>0, <2>3, Others
  <2>5. HeldSound(t)' /\ cookie' <= issued'
    BY <1>0, <1>b, <2>1, <2>2 DEF HeldSound, Bounded
  <2>6. \A u \in Tabs : u # t => HeldSound(u)'
    BY <1>0, <1>b, <2>4 DEF HeldSound, Elsewhere, Bounded
  <2> QED BY <2>5, <2>6
<1>14. ASSUME NEW t \in Tabs, NEW c \in Calls, Call(t, c) PROVE cookie' <= issued' /\ \A u \in Tabs : HeldSound(u)'
  <2>1. token'[t] = token[t] /\ refresh'[t] = refresh[t] /\ asking'[t] = asking[t] /\ logout'[t] = logout[t] /\ cookie' = cookie
    BY <1>14 DEF Call, store, work, browser
  <2>2. User(t)
    BY <1>14 DEF User
  <2>3. Elsewhere(t)
    BY <1>0, <2>2, Others
  <2>4. HeldSound(t)' /\ cookie' <= issued'
    BY <1>0, <1>b, <2>1 DEF HeldSound, Bounded
  <2>5. \A u \in Tabs : u # t => HeldSound(u)'
    BY <1>0, <1>b, <2>3 DEF HeldSound, Elsewhere, Bounded
  <2> QED BY <2>4, <2>5
<1>15. ASSUME NEW t \in Tabs, LoginAnswered(t) PROVE cookie' <= issued' /\ \A u \in Tabs : HeldSound(u)'
  <2>1. refresh'[t] = refresh[t] /\ logout'[t] = logout[t]
    BY <1>15 DEF LoginAnswered, store, work, browser
  <2>2. cookie' = issued' /\ token'[t] = issued' /\ asking'[t] = issued'
    BY <1>0, <1>15 DEF LoginAnswered, Issue, AskMe, Typed
  <2>3. Page(t)
    BY <1>15 DEF Page, Refresh, CallStep
  <2>4. Elsewhere(t)
    BY <1>0, <2>3, Others
  <2>5. HeldSound(t)' /\ cookie' <= issued'
    BY <1>0, <1>b, <2>1, <2>2 DEF HeldSound, Bounded
  <2>6. \A u \in Tabs : u # t => HeldSound(u)'
    BY <1>0, <1>b, <2>4 DEF HeldSound, Elsewhere, Bounded
  <2> QED BY <2>5, <2>6
<1>16. ASSUME NEW t \in Tabs, LoginFails(t) PROVE cookie' <= issued' /\ \A u \in Tabs : HeldSound(u)'
  <2>1. token'[t] = token[t] /\ refresh'[t] = refresh[t] /\ asking'[t] = asking[t] /\ logout'[t] = logout[t] /\ cookie' = cookie
    BY <1>16 DEF LoginFails, store, work, browser
  <2>2. Page(t)
    BY <1>16 DEF Page, Refresh, CallStep
  <2>3. Elsewhere(t)
    BY <1>0, <2>2, Others
  <2>4. HeldSound(t)' /\ cookie' <= issued'
    BY <1>0, <1>b, <2>1 DEF HeldSound, Bounded
  <2>5. \A u \in Tabs : u # t => HeldSound(u)'
    BY <1>0, <1>b, <2>3 DEF HeldSound, Elsewhere, Bounded
  <2> QED BY <2>4, <2>5
<1>17. ASSUME NEW t \in Tabs, LogoutEnds(t) PROVE cookie' <= issued' /\ \A u \in Tabs : HeldSound(u)'
  <2>1. refresh'[t] = refresh[t] /\ asking'[t] = asking[t]
    BY <1>17 DEF LogoutEnds, store, work, browser
  <2>2. cookie' \in {cookie, 0} /\ token'[t] = 0 /\ logout'[t].tok = 0
    BY <1>0, <1>17, Recorded DEF LogoutEnds, Typed
  <2>3. Page(t)
    BY <1>17 DEF Page, Refresh, CallStep
  <2>4. Elsewhere(t)
    BY <1>0, <2>3, Others
  <2>5. HeldSound(t)' /\ cookie' <= issued'
    BY <1>0, <1>b, <2>1, <2>2 DEF HeldSound, Bounded
  <2>6. \A u \in Tabs : u # t => HeldSound(u)'
    BY <1>0, <1>b, <2>4 DEF HeldSound, Elsewhere, Bounded
  <2> QED BY <2>5, <2>6
<1>18. ASSUME NEW t \in Tabs, NEW c \in Calls \cup {Me}, CallSettled(t, c) PROVE cookie' <= issued' /\ \A u \in Tabs : HeldSound(u)'
  <2>1. token'[t] = token[t] /\ refresh'[t] = refresh[t] /\ logout'[t] = logout[t] /\ cookie' = cookie
    BY <1>18 DEF CallSettled, store, work, browser
  <2>2. asking'[t] \in {asking[t], 0}
    BY <1>0, <1>18 DEF CallSettled, Typed
  <2>3. Page(t)
    BY <1>18 DEF Page, Refresh, CallStep
  <2>4. Elsewhere(t)
    BY <1>0, <2>3, Others
  <2>5. HeldSound(t)' /\ cookie' <= issued'
    BY <1>0, <1>b, <2>1, <2>2 DEF HeldSound, Bounded
  <2>6. \A u \in Tabs : u # t => HeldSound(u)'
    BY <1>0, <1>b, <2>4 DEF HeldSound, Elsewhere, Bounded
  <2> QED BY <2>5, <2>6
<1>19. ASSUME NEW t \in Tabs, NEW c \in Calls \cup {Me}, CallQueued(t, c) PROVE cookie' <= issued' /\ \A u \in Tabs : HeldSound(u)'
  <2>1. token'[t] = token[t] /\ refresh'[t] = refresh[t] /\ asking'[t] = asking[t] /\ logout'[t] = logout[t] /\ cookie' = cookie
    BY <1>19 DEF CallQueued, store, work, browser
  <2>2. Page(t)
    BY <1>19 DEF Page, Refresh, CallStep
  <2>3. Elsewhere(t)
    BY <1>0, <2>2, Others
  <2>4. HeldSound(t)' /\ cookie' <= issued'
    BY <1>0, <1>b, <2>1 DEF HeldSound, Bounded
  <2>5. \A u \in Tabs : u # t => HeldSound(u)'
    BY <1>0, <1>b, <2>3 DEF HeldSound, Elsewhere, Bounded
  <2> QED BY <2>4, <2>5
<1>20. ASSUME NEW t \in Tabs, NEW c \in Calls \cup {Me}, CallStartsRefresh(t, c) PROVE cookie' <= issued' /\ \A u \in Tabs : HeldSound(u)'
  <2>1. token'[t] = token[t] /\ asking'[t] = asking[t] /\ logout'[t] = logout[t] /\ cookie' = cookie
    BY <1>20 DEF CallStartsRefresh, store, work, browser
  <2>2. refresh'[t].tok \in {0, cookie}
    BY <1>0, <1>20, Requested DEF CallStartsRefresh, RefreshBecomes
  <2>3. Page(t)
    BY <1>20 DEF Page, Refresh, CallStep
  <2>4. Elsewhere(t)
    BY <1>0, <2>3, Others
  <2>5. HeldSound(t)' /\ cookie' <= issued'
    BY <1>0, <1>b, <2>1, <2>2 DEF HeldSound, Bounded
  <2>6. \A u \in Tabs : u # t => HeldSound(u)'
    BY <1>0, <1>b, <2>4 DEF HeldSound, Elsewhere, Bounded
  <2> QED BY <2>5, <2>6
<1>21. CASE UNCHANGED vars
  BY <1>0, <1>b, <1>21 DEF vars, HeldSound, Bounded, browser, store, work
<1> QED BY <1>1, <1>2, <1>3, <1>4, <1>5, <1>6, <1>7, <1>8, <1>9, <1>10, <1>11, <1>12, <1>13, <1>14, <1>15, <1>16, <1>17, <1>18, <1>19, <1>20, <1>21
     DEF Next, Server, User, Page, Refresh, CallStep

------------------------------------------------------------------------------
(* The newest tokens.                                                      *)

Known == /\ Typed /\ ServerSound /\ cookie <= issued /\ LockInv
         /\ \A s \in Tabs : HeldSound(s) /\ PageSound(s)

(* Where the pages of this browser have Web Locks they keep them, and what *)
(* has happened has happened.                                              *)
Steady == locks' = locks /\ happened \subseteq happened'

LEMMA SteadyStep ==
  ASSUME Typed, [Next]_vars
  PROVE  Steady
<1>0. Typed
  OBVIOUS
<1>1. ASSUME NEW t \in Tabs, ServeRefresh(t) PROVE Steady
  BY <1>1 DEF ServeRefresh, browser, Steady
<1>2. ASSUME NEW k \in strays, ServeStray(k) PROVE Steady
  BY <1>2 DEF ServeStray, browser, Steady
<1>3. ASSUME NEW r \in open, EndSession(r) PROVE Steady
  BY <1>3 DEF EndSession, browser, Steady
<1>4. ASSUME NEW t \in Tabs, Grant(t) PROVE Steady
  BY <1>4 DEF Grant, browser, Steady
<1>5. ASSUME NEW t \in Tabs, RefreshAnswered(t) PROVE Steady
  BY <1>5 DEF RefreshAnswered, browser, Steady
<1>6. ASSUME NEW t \in Tabs, RefreshLost(t) PROVE Steady
  BY <1>6 DEF RefreshLost, browser, Steady
<1>7. ASSUME NEW t \in Tabs, RefreshDone(t) PROVE Steady
  BY <1>7 DEF RefreshDone, browser, Steady
<1>8. ASSUME NEW t \in Tabs, RefreshFailed(t) PROVE Steady
  BY <1>8 DEF RefreshFailed, browser, Steady
<1>9. ASSUME NEW t \in Tabs, Restored(t) PROVE Steady
  BY <1>9 DEF Restored, browser, Steady
<1>10. ASSUME NEW t \in Tabs, OpenPage(t) PROVE Steady
  BY <1>0, <1>10, Requested DEF OpenPage, Steady
<1>11. ASSUME NEW t \in Tabs, ClosePage(t) PROVE Steady
  BY <1>11 DEF ClosePage, browser, Steady
<1>12. ASSUME NEW t \in Tabs, Login(t) PROVE Steady
  BY <1>12 DEF Login, browser, Steady
<1>13. ASSUME NEW t \in Tabs, Logout(t) PROVE Steady
  BY <1>13 DEF Logout, browser, Steady
<1>14. ASSUME NEW t \in Tabs, NEW c \in Calls, Call(t, c) PROVE Steady
  BY <1>14 DEF Call, browser, Steady
<1>15. ASSUME NEW t \in Tabs, LoginAnswered(t) PROVE Steady
  BY <1>15 DEF LoginAnswered, browser, Steady
<1>16. ASSUME NEW t \in Tabs, LoginFails(t) PROVE Steady
  BY <1>16 DEF LoginFails, browser, Steady
<1>17. ASSUME NEW t \in Tabs, LogoutEnds(t) PROVE Steady
  BY <1>17 DEF LogoutEnds, browser, Steady
<1>18. ASSUME NEW t \in Tabs, NEW c \in Calls \cup {Me}, CallSettled(t, c) PROVE Steady
  BY <1>18 DEF CallSettled, browser, Steady
<1>19. ASSUME NEW t \in Tabs, NEW c \in Calls \cup {Me}, CallQueued(t, c) PROVE Steady
  BY <1>19 DEF CallQueued, browser, Steady
<1>20. ASSUME NEW t \in Tabs, NEW c \in Calls \cup {Me}, CallStartsRefresh(t, c) PROVE Steady
  BY <1>0, <1>20, Requested DEF CallStartsRefresh, Steady
<1>21. CASE UNCHANGED vars
  BY <1>21 DEF vars, browser, Steady
<1> QED BY <1>1, <1>2, <1>3, <1>4, <1>5, <1>6, <1>7, <1>8, <1>9, <1>10, <1>11, <1>12, <1>13, <1>14, <1>15, <1>16, <1>17, <1>18, <1>19, <1>20, <1>21
     DEF Next, Server, User, Page, Refresh, CallStep

LEMMA Holdings ==
  ASSUME Known
  PROVE  /\ cookie # 0 => cookie \in 1..issued
         /\ \A t \in Tabs : /\ refresh[t].tok # 0 => refresh[t].tok \in 1..issued
                            /\ token[t] # 0 => token[t] \in 1..issued
                            /\ asking[t] # 0 => asking[t] \in 1..issued
                            /\ logout[t].tok # 0 => logout[t].tok \in 1..issued
<1>1. issued \in Nat /\ cookie \in Nat
  BY Issued, Sets DEF Known, Typed
<1>2. ASSUME NEW t \in Tabs
      PROVE  token[t] \in Num /\ refresh[t].tok \in Num /\ asking[t] \in Num /\ logout[t].tok \in Num
  BY Recorded DEF Known, Typed
<1>3. Num \subseteq Nat
  BY Sets
<1>4. cookie <= issued /\ \A t \in Tabs : HeldSound(t)
  BY DEF Known
<1>5. \A k \in Nat : k <= issued /\ k # 0 => k \in 1..issued
  BY <1>1
<1>6. cookie # 0 => cookie \in 1..issued
  BY <1>1, <1>4, <1>5
<1>7. ASSUME NEW t \in Tabs
      PROVE  /\ refresh[t].tok # 0 => refresh[t].tok \in 1..issued
             /\ token[t] # 0 => token[t] \in 1..issued
             /\ asking[t] # 0 => asking[t] \in 1..issued
             /\ logout[t].tok # 0 => logout[t].tok \in 1..issued
  BY <1>2, <1>3, <1>4, <1>5 DEF HeldSound
<1> QED BY <1>6, <1>7

LEMMA OneOut ==
  ASSUME Known, locks
  PROVE  /\ \A t, u \in Tabs : InFlight(t) /\ InFlight(u) => t = u
         /\ holder = None => \A t \in Tabs : ~InFlight(t)
BY ClientAssumption DEF Known, LockInv

NewestThen(k) == \A j \in 1..issued' : root'[j] = root'[k] => j <= k

LEMMA NewestKept ==
  ASSUME Typed, ServerSound, Grown, NEW k \in 1..issued, Newest(k),
         issued' = issued + 1, root'[issued + 1] # root[k]
  PROVE  NewestThen(k)
<1>1. issued \in Nat
  BY Issued
<1>2. \A j \in 1..issued : root'[j] = root'[k] => j <= k
  BY DEF Newest, Grown
<1>3. \A j \in 1..issued' : j \in 1..issued \/ j = issued + 1
  BY <1>1
<1> QED BY <1>2, <1>3 DEF NewestThen, Grown

LEMMA NewestSame ==
  ASSUME Typed, ServerSound, Grown, NEW k \in 1..issued, Newest(k), issued' = issued
  PROVE  NewestThen(k)
<1>1. \A j \in 1..issued : root'[j] = root'[k] => j <= k
  BY DEF Newest, Grown
<1> QED BY <1>1 DEF NewestThen

LEMMA NewestAdded ==
  ASSUME Typed, ServerSound, issued' = issued + 1
  PROVE  NewestThen(issued + 1)
BY Issued DEF NewestThen

Newests ==
  /\ "replay" \notin happened /\ strays = {}
  /\ \A t \in Tabs : refresh[t].at \in {"sent", "served"} /\ refresh[t].tok # 0
        => Newest(refresh[t].tok)
  /\ \/ cookie = 0 \/ Newest(cookie)
     \/ \E t \in Tabs : refresh[t].at = "served" /\ root[refresh[t].tok] = root[cookie]

NewestsThen ==
  /\ "replay" \notin happened' /\ strays' = {}
  /\ \A t \in Tabs : refresh'[t].at \in {"sent", "served"} /\ refresh'[t].tok # 0
        => NewestThen(refresh'[t].tok)
  /\ \/ cookie' = 0 \/ NewestThen(cookie')
     \/ \E t \in Tabs : refresh'[t].at = "served" /\ root'[refresh'[t].tok] = root'[cookie']

LEMMA NewestsAfter == NewestsThen => Newests'
BY DEF Newests, NewestsThen, Newest, NewestThen

(* A step that sends nothing and issues nothing. *)
LEMMA NewestQuiet ==
  ASSUME Known, Newests, Grown, issued' = issued, cookie' \in {0, cookie},
         strays' \subseteq strays, "replay" \notin happened',
         \A u \in Tabs : /\ refresh'[u].at \in {"sent", "served"} => refresh'[u] = refresh[u]
                         /\ refresh[u].at = "served" => refresh'[u] = refresh[u]
  PROVE  NewestsThen
<1>0. Typed /\ ServerSound
  BY DEF Known
<1>1. \A k \in 1..issued : (Newest(k) => NewestThen(k)) /\ root'[k] = root[k]
  <2>1. \A k \in 1..issued : Newest(k) => NewestThen(k)
    BY <1>0, NewestSame
  <2> QED BY <2>1 DEF Grown
<1>2. \A u \in Tabs : refresh'[u].at \in {"sent", "served"} /\ refresh'[u].tok # 0
        => NewestThen(refresh'[u].tok)
  BY <1>1, Holdings DEF Newests
<1>3. CASE cookie' = 0
  BY <1>2, <1>3 DEF Newests, NewestsThen
<1>4. CASE cookie' = cookie /\ cookie # 0 /\ Newest(cookie)
  BY <1>1, <1>2, <1>4, Holdings DEF Newests, NewestsThen
<1>5. CASE /\ cookie' = cookie /\ cookie # 0
           /\ \E u \in Tabs : refresh[u].at = "served" /\ root[refresh[u].tok] = root[cookie]
  <2>1. PICK u \in Tabs : refresh[u].at = "served" /\ root[refresh[u].tok] = root[cookie]
    BY <1>5
  <2>2. refresh[u].tok # 0
    BY <2>1 DEF Known, PageSound
  <2>3. root'[refresh[u].tok] = root'[cookie] /\ refresh'[u] = refresh[u]
    BY <1>1, <1>5, <2>1, <2>2, Holdings
  <2> QED BY <1>2, <1>5, <2>1, <2>3 DEF Newests, NewestsThen
<1> QED BY <1>3, <1>4, <1>5 DEF Newests

(* Every step but the loss of an answer keeps it. *)
LEMMA NewestStep ==
  ASSUME Known, Newests, locks, "lost" \notin happened', [Next]_vars
  PROVE  NewestsThen
<1>0. Known /\ Newests /\ locks /\ "lost" \notin happened'
  OBVIOUS
<1>t. Typed /\ ServerSound
  BY <1>0 DEF Known
<1>g. Grown
  BY <1>t, ServerStep
<1>1. ASSUME NEW t \in Tabs, ServeRefresh(t) PROVE NewestsThen
  <2>1. ServeRefresh(t)
    BY <1>1 DEF ServeRefresh
  <2>2. Elsewhere(t)
    BY <1>0, <2>1, Others DEF Known
  <2>3. refresh[t].at = "sent" /\ strays' = strays /\ cookie' = cookie
    BY <1>1 DEF ServeRefresh, browser
  <2>4. \A u \in Tabs : u # t => refresh'[u].at \notin {"sent", "served"} /\ refresh[u].at # "served"
    BY <1>0, <2>2, <2>3, OneOut DEF InFlight, Elsewhere
  <2>5. cookie = 0 \/ (Newest(cookie) /\ cookie \in 1..issued)
    BY <1>0, <2>3, <2>4, Holdings DEF Newests
  <2>6. refresh[t].tok \in Num /\ (refresh[t].tok # 0 => Newest(refresh[t].tok))
    BY <1>0, <2>3, Recorded DEF Known, Typed, Newests
  <2>7. CASE /\ Rotate(refresh[t].tok) /\ RefreshBecomes(t, "served", issued + 1)
             /\ happened' = happened
    <3>1. /\ issued' = issued + 1 /\ root'[issued + 1] = root[refresh[t].tok]
      BY <1>0, <2>6, <2>7, Rotated DEF Known
    <3>2. NewestThen(issued + 1)
      BY <1>0, <3>1, NewestAdded DEF Known
    <3>3. refresh'[t].at = "served" /\ refresh'[t].tok = issued + 1
      BY <2>7 DEF RefreshBecomes
    <3>4. cookie = 0 \/ NewestThen(cookie) \/ root'[issued + 1] = root'[cookie]
      <4>1. cookie # 0 => root'[cookie] = root[cookie]
        BY <1>g, <2>5 DEF Grown
      <4> QED BY <1>0, <1>g, <1>t, <2>5, <3>1, <4>1, NewestKept
    <3> QED BY <1>0, <2>3, <2>4, <2>7, <3>2, <3>3, <3>4 DEF Newests, NewestsThen
  <2>8. CASE /\ Refuse(refresh[t].tok) /\ RefreshBecomes(t, "refused", refresh[t].tok)
             /\ happened' = happened \cup Replayed(refresh[t].tok)
    <3>1. Replayed(refresh[t].tok) = {} /\ issued' = issued
      BY <2>6, <2>8 DEF Refuse, Exchangeable, Replayed
    <3>2. "replay" \notin happened' /\ refresh'[t].at = "refused"
      BY <1>0, <2>8, <3>1 DEF Newests, RefreshBecomes
    <3> QED BY <1>0, <1>g, <2>2, <2>3, <3>1, <3>2, NewestQuiet DEF Elsewhere
  <2>9. Typed
    BY <1>0 DEF Known
  <2> QED BY <1>1, <2>7, <2>8, <2>9, Served
<1>2. ASSUME NEW k \in strays, ServeStray(k) PROVE NewestsThen
  BY <1>0, <1>2 DEF Newests
<1>3. ASSUME NEW r \in open, EndSession(r) PROVE NewestsThen
  <2>1. issued' = issued /\ cookie' = cookie /\ strays' = strays /\ refresh' = refresh /\ "replay" \notin happened'
    BY <1>0, <1>3 DEF EndSession, server, browser, Newests
  <2> QED BY <1>0, <1>g, <2>1, NewestQuiet
<1>4. ASSUME NEW t \in Tabs, Grant(t) PROVE NewestsThen
  <2>1. Page(t)
    BY <1>4 DEF Page, Refresh, CallStep
  <2>2. Elsewhere(t)
    BY <1>0, <2>1, Others DEF Known
  <2>3. issued' = issued /\ strays' = strays /\ cookie' = cookie /\ "replay" \notin happened'
    BY <1>0, <1>4 DEF Grant, server, Newests, Mixed
  <2>4. \A u \in Tabs : ~InFlight(u)
    BY <1>0, <1>4, OneOut DEF Grant
  <2>5. refresh'[t].at = "sent" /\ refresh'[t].tok = cookie
    BY <1>0, <1>4, Sent DEF RefreshBecomes, Known
  <2>6. cookie = 0 \/ NewestThen(cookie)
    <3>1. cookie # 0 => Newest(cookie) /\ cookie \in 1..issued
      BY <1>0, <2>4, Holdings DEF Newests, InFlight
    <3> QED BY <1>0, <1>g, <1>t, <2>3, <3>1, NewestSame
  <2> QED BY <1>0, <2>2, <2>3, <2>4, <2>5, <2>6 DEF Elsewhere, InFlight, Newests, NewestsThen
<1>5. ASSUME NEW t \in Tabs, RefreshAnswered(t) PROVE NewestsThen
  <2>1. Page(t)
    BY <1>5 DEF Page, Refresh, CallStep
  <2>2. Elsewhere(t)
    BY <1>0, <2>1, Others DEF Known
  <2>3. issued' = issued /\ strays' = strays
    BY <1>5 DEF RefreshAnswered, server
  <2>4. CASE /\ refresh[t].at = "served" /\ RefreshBecomes(t, "done", refresh[t].tok)
             /\ cookie' = refresh[t].tok /\ happened' = happened
    <3>1. refresh[t].tok # 0 /\ Newest(refresh[t].tok) /\ refresh[t].tok \in 1..issued
      BY <1>0, <2>4, Holdings DEF Known, PageSound, Newests
    <3>2. NewestThen(cookie')
      BY <1>0, <1>g, <1>t, <2>3, <2>4, <3>1, NewestSame
    <3>3. \A u \in Tabs : refresh'[u].at \notin {"sent", "served"}
      BY <1>0, <2>4, OneOut DEF InFlight, RefreshBecomes
    <3> QED BY <1>0, <2>3, <2>4, <3>2, <3>3 DEF Newests, NewestsThen
  <2>5. CASE /\ refresh[t].at = "refused" /\ RefreshBecomes(t, "failed", refresh[t].tok)
             /\ cookie' \in {0, cookie} /\ happened' \subseteq happened \cup {"cleared"}
    <3>1. "replay" \notin happened'
      BY <1>0, <2>5 DEF Newests
    <3>2. refresh[t].at = "refused" /\ refresh'[t].at = "failed" /\ cookie' \in {0, cookie}
      BY <2>5 DEF RefreshBecomes
    <3> QED BY <1>0, <1>g, <2>2, <2>3, <3>1, <3>2, NewestQuiet DEF Elsewhere
  <2>6. Typed
    BY <1>0 DEF Known
  <2> QED BY <1>5, <2>4, <2>5, <2>6, Answer
<1>6. ASSUME NEW t \in Tabs, RefreshLost(t) PROVE NewestsThen
  <2>1. refresh[t].at = "refused"
    BY <1>0, <1>6 DEF RefreshLost, Loss
  <2>2. issued' = issued /\ cookie' = cookie /\ strays' = strays /\ "replay" \notin happened'
    BY <1>0, <2>1, <1>6 DEF RefreshLost, Vanish, Loss, Newests
  <2>3. refresh'[t].at = "failed"
    BY <1>0, <1>6, GivenUp DEF RefreshBecomes, Known
  <2>4. Page(t)
    BY <1>6 DEF Page, Refresh, CallStep
  <2>5. Elsewhere(t)
    BY <1>0, <2>4, Others DEF Known
  <2> QED BY <1>0, <1>g, <2>1, <2>2, <2>3, <2>5, NewestQuiet DEF Elsewhere
<1>7. ASSUME NEW t \in Tabs, RefreshDone(t) PROVE NewestsThen
  <2>1. issued' = issued /\ cookie' = cookie /\ strays' = strays /\ "replay" \notin happened'
    BY <1>0, <1>7 DEF RefreshDone, server, browser, Newests
  <2>2. refresh[t].at \in {"done", "failed"} /\ refresh'[t].at = "idle"
    BY <1>0, <1>7, Finished DEF RefreshDone, RefreshBecomes, Known
  <2>3. Page(t)
    BY <1>7 DEF Page, Refresh, CallStep
  <2>4. Elsewhere(t)
    BY <1>0, <2>3, Others DEF Known
  <2> QED BY <1>0, <1>g, <2>1, <2>2, <2>4, NewestQuiet DEF Elsewhere
<1>8. ASSUME NEW t \in Tabs, RefreshFailed(t) PROVE NewestsThen
  <2>1. issued' = issued /\ cookie' = cookie /\ strays' = strays /\ "replay" \notin happened'
    BY <1>0, <1>8 DEF RefreshFailed, server, browser, Newests
  <2>2. refresh[t].at \in {"done", "failed"} /\ refresh'[t].at = "idle"
    BY <1>0, <1>8, Finished DEF RefreshFailed, RefreshBecomes, Known
  <2>3. Page(t)
    BY <1>8 DEF Page, Refresh, CallStep
  <2>4. Elsewhere(t)
    BY <1>0, <2>3, Others DEF Known
  <2> QED BY <1>0, <1>g, <2>1, <2>2, <2>4, NewestQuiet DEF Elsewhere
<1>9. ASSUME NEW t \in Tabs, Restored(t) PROVE NewestsThen
  <2>1. issued' = issued /\ cookie' = cookie /\ strays' = strays /\ "replay" \notin happened'
    BY <1>0, <1>9 DEF Restored, server, browser, Newests
  <2>2. refresh[t].at \in {"done", "failed"} /\ refresh'[t].at = "idle"
    BY <1>0, <1>9, Finished DEF Restored, RefreshBecomes, Known
  <2>3. Page(t)
    BY <1>9 DEF Page, Refresh, CallStep
  <2>4. Elsewhere(t)
    BY <1>0, <2>3, Others DEF Known
  <2> QED BY <1>0, <1>g, <2>1, <2>2, <2>4, NewestQuiet DEF Elsewhere
<1>10. ASSUME NEW t \in Tabs, OpenPage(t) PROVE NewestsThen
  <2>1. issued' = issued /\ cookie' = cookie /\ strays' = strays
    BY <1>0, <1>10 DEF OpenPage, server, browser, Newests
  <2>2. refresh[t].at = "idle"
    BY <1>0, <1>10 DEF OpenPage, PageSound, Known, All
  <2>3. refresh'[t].at = "waiting" /\ happened' = happened
    BY <1>0, <1>10, Requested DEF OpenPage, RefreshBecomes, Known
  <2>4. "replay" \notin happened'
    BY <1>0, <2>3 DEF Newests
  <2>5. User(t)
    BY <1>10 DEF User
  <2>6. Elsewhere(t)
    BY <1>0, <2>5, Others DEF Known
  <2> QED BY <1>0, <1>g, <2>1, <2>2, <2>3, <2>4, <2>6, NewestQuiet DEF Elsewhere
<1>11. ASSUME NEW t \in Tabs, ClosePage(t) PROVE NewestsThen
  <2>1. refresh[t].at \notin {"sent", "served"}
    BY <1>0, <1>11 DEF ClosePage, Loss
  <2>2. issued' = issued /\ cookie' = cookie /\ strays' = strays /\ "replay" \notin happened'
    BY <1>0, <2>1, <1>11 DEF ClosePage, Vanish, Loss, Newests
  <2>3. refresh'[t].at = "idle"
    BY <1>0, <1>11, Finished DEF RefreshBecomes, Known
  <2>4. User(t)
    BY <1>11 DEF User
  <2>5. Elsewhere(t)
    BY <1>0, <2>4, Others DEF Known
  <2> QED BY <1>0, <1>g, <2>1, <2>2, <2>3, <2>5, NewestQuiet DEF Elsewhere
<1>12. ASSUME NEW t \in Tabs, Login(t) PROVE NewestsThen
  <2>1. issued' = issued /\ cookie' = cookie /\ strays' = strays /\ refresh'[t] = refresh[t] /\ "replay" \notin happened'
    BY <1>0, <1>12 DEF Login, server, browser, Newests
  <2>2. User(t)
    BY <1>12 DEF User
  <2>3. Elsewhere(t)
    BY <1>0, <2>2, Others DEF Known
  <2> QED BY <1>0, <1>g, <2>1, <2>3, NewestQuiet DEF Elsewhere
<1>13. ASSUME NEW t \in Tabs, Logout(t) PROVE NewestsThen
  <2>1. issued' = issued /\ cookie' = cookie /\ strays' = strays /\ refresh'[t] = refresh[t] /\ "replay" \notin happened'
    BY <1>0, <1>13 DEF Logout, server, browser, Newests
  <2>2. User(t)
    BY <1>13 DEF User
  <2>3. Elsewhere(t)
    BY <1>0, <2>2, Others DEF Known
  <2> QED BY <1>0, <1>g, <2>1, <2>3, NewestQuiet DEF Elsewhere
<1>14. ASSUME NEW t \in Tabs, NEW c \in Calls, Call(t, c) PROVE NewestsThen
  <2>1. issued' = issued /\ cookie' = cookie /\ strays' = strays /\ refresh'[t] = refresh[t] /\ "replay" \notin happened'
    BY <1>0, <1>14 DEF Call, server, browser, Newests
  <2>2. User(t)
    BY <1>14 DEF User
  <2>3. Elsewhere(t)
    BY <1>0, <2>2, Others DEF Known
  <2> QED BY <1>0, <1>g, <2>1, <2>3, NewestQuiet DEF Elsewhere
<1>15. ASSUME NEW t \in Tabs, LoginAnswered(t) PROVE NewestsThen
  <2>1. Page(t)
    BY <1>15 DEF Page, Refresh, CallStep
  <2>2. Elsewhere(t)
    BY <1>0, <2>1, Others DEF Known
  <2>3. cookie' = issued + 1 /\ strays' = strays /\ happened' = happened /\ refresh' = refresh
    BY <1>15 DEF LoginAnswered
  <2>4. issued' = issued + 1 /\ root'[issued + 1] = issued + 1
    BY <1>0, <1>15, NewFamily DEF Known
  <2>5. NewestThen(cookie')
    BY <1>0, <2>3, <2>4, NewestAdded DEF Known
  <2>6. \A k \in 1..issued : Newest(k) => NewestThen(k)
    <3>1. TAKE k \in 1..issued
    <3>2. root[k] \in 1..issued /\ issued \in Nat
      BY <1>0, Issued DEF Known
    <3>3. root[k] # issued + 1
      BY <3>2
    <3> QED BY <1>0, <1>g, <1>t, <2>4, <3>3, NewestKept
  <2> QED BY <1>0, <2>3, <2>5, <2>6, Holdings DEF Newests, NewestsThen
<1>16. ASSUME NEW t \in Tabs, LoginFails(t) PROVE NewestsThen
  <2>1. issued' = issued /\ cookie' = cookie /\ strays' = strays /\ refresh'[t] = refresh[t] /\ "replay" \notin happened'
    BY <1>0, <1>16 DEF LoginFails, server, browser, Newests
  <2>2. Page(t)
    BY <1>16 DEF Page, Refresh, CallStep
  <2>3. Elsewhere(t)
    BY <1>0, <2>2, Others DEF Known
  <2> QED BY <1>0, <1>g, <2>1, <2>3, NewestQuiet DEF Elsewhere
<1>17. ASSUME NEW t \in Tabs, LogoutEnds(t) PROVE NewestsThen
  <2>1. issued' = issued /\ cookie' \in {0, cookie} /\ strays' = strays
        /\ refresh'[t] = refresh[t] /\ "replay" \notin happened'
    BY <1>0, <1>17 DEF LogoutEnds, server, browser, Newests
  <2>2. Page(t)
    BY <1>17 DEF Page, Refresh, CallStep
  <2>3. Elsewhere(t)
    BY <1>0, <2>2, Others DEF Known
  <2> QED BY <1>0, <1>g, <2>1, <2>3, NewestQuiet DEF Elsewhere
<1>18. ASSUME NEW t \in Tabs, NEW c \in Calls \cup {Me}, CallSettled(t, c) PROVE NewestsThen
  <2>1. issued' = issued /\ cookie' = cookie /\ strays' = strays /\ refresh'[t] = refresh[t] /\ "replay" \notin happened'
    BY <1>0, <1>18 DEF CallSettled, server, browser, Newests
  <2>2. Page(t)
    BY <1>18 DEF Page, Refresh, CallStep
  <2>3. Elsewhere(t)
    BY <1>0, <2>2, Others DEF Known
  <2> QED BY <1>0, <1>g, <2>1, <2>3, NewestQuiet DEF Elsewhere
<1>19. ASSUME NEW t \in Tabs, NEW c \in Calls \cup {Me}, CallQueued(t, c) PROVE NewestsThen
  <2>1. issued' = issued /\ cookie' = cookie /\ strays' = strays /\ refresh'[t] = refresh[t] /\ "replay" \notin happened'
    BY <1>0, <1>19 DEF CallQueued, server, browser, Newests
  <2>2. Page(t)
    BY <1>19 DEF Page, Refresh, CallStep
  <2>3. Elsewhere(t)
    BY <1>0, <2>2, Others DEF Known
  <2> QED BY <1>0, <1>g, <2>1, <2>3, NewestQuiet DEF Elsewhere
<1>20. ASSUME NEW t \in Tabs, NEW c \in Calls \cup {Me}, CallStartsRefresh(t, c) PROVE NewestsThen
  <2>1. issued' = issued /\ cookie' = cookie /\ strays' = strays
    BY <1>0, <1>20 DEF CallStartsRefresh, server, browser, Newests
  <2>2. refresh[t].at = "idle"
    BY <1>0, <1>20 DEF CallStartsRefresh, PageSound, Known, All
  <2>3. refresh'[t].at = "waiting" /\ happened' = happened
    BY <1>0, <1>20, Requested DEF CallStartsRefresh, RefreshBecomes, Known
  <2>4. "replay" \notin happened'
    BY <1>0, <2>3 DEF Newests
  <2>5. Page(t)
    BY <1>20 DEF Page, Refresh, CallStep
  <2>6. Elsewhere(t)
    BY <1>0, <2>5, Others DEF Known
  <2> QED BY <1>0, <1>g, <2>1, <2>2, <2>3, <2>4, <2>6, NewestQuiet DEF Elsewhere
<1>21. CASE UNCHANGED vars
  <2>1. issued' = issued /\ cookie' = cookie /\ strays' = strays /\ refresh' = refresh /\ "replay" \notin happened'
    BY <1>0, <1>21 DEF vars, server, browser, Newests
  <2> QED BY <1>0, <1>g, <2>1, NewestQuiet
<1> QED BY <1>1, <1>2, <1>3, <1>4, <1>5, <1>6, <1>7, <1>8, <1>9, <1>10, <1>11, <1>12, <1>13, <1>14, <1>15, <1>16, <1>17, <1>18, <1>19, <1>20, <1>21
     DEF Next, Server, User, Page, Refresh, CallStep

------------------------------------------------------------------------------
(* What the server accepts.                                                *)

Unharmed == happened \cap {"lost", "ended", "cleared"} = {}

AcceptedIn(t) ==
  /\ page[t] # "refused"
  /\ (\E c \in All : calls[t][c] # "idle") \/ token[t] # 0 => issued # 0
  /\ refreshing[t] => /\ refresh[t].at \notin {"refused", "failed"}
                      /\ refresh[t].at = "sent" => refresh[t].tok # 0
  /\ refresh[t].at = "refused" => refresh[t].tok = 0

Accepts ==
  /\ \A k \in 1..issued : root[k] \in open
  /\ issued # 0 => cookie # 0
  /\ \A t \in Tabs : AcceptedIn(t)

LEMMA AcceptedInvSound == AcceptedInv <=> (locks /\ Unharmed => Accepts)
BY DEF AcceptedInv, Unharmed, Accepts, AcceptedIn, All

LEMMA AcceptQuiet ==
  ASSUME Accepts, UNCHANGED <<issued, root, open>>, cookie' = cookie \/ cookie' # 0,
         NEW t \in Tabs, Elsewhere(t), AcceptedIn(t)'
  PROVE  Accepts'
<1>1. \A u \in Tabs : u # t => AcceptedIn(u)'
  BY DEF Accepts, AcceptedIn, Elsewhere
<1>2. \A u \in Tabs : AcceptedIn(u)'
  BY <1>1
<1> QED BY <1>2 DEF Accepts

(* Every step but a loss, an end or a cleared cookie keeps it. *)
LEMMA AcceptStep ==
  ASSUME Known, Newests, OneWaits, Accepts, locks, Unharmed', [Next]_vars
  PROVE  Accepts'
<1>0. Known /\ Newests /\ OneWaits /\ Accepts /\ locks /\ Unharmed'
  OBVIOUS
<1>t. Typed /\ ServerSound
  BY <1>0 DEF Known
<1>g. Grown
  BY <1>t, ServerStep
<1>1. ASSUME NEW t \in Tabs, ServeRefresh(t) PROVE Accepts'
  <2>1. ServeRefresh(t)
    BY <1>1 DEF ServeRefresh
  <2>2. Elsewhere(t)
    BY <1>0, <2>1, Others DEF Known
  <2>3. refresh[t].at = "sent" /\ cookie' = cookie /\ page'[t] = page[t] /\ calls'[t] = calls[t]
        /\ token'[t] = token[t] /\ refreshing'[t] = refreshing[t]
    BY <1>1 DEF ServeRefresh, browser, store, work
  <2>4. AcceptedIn(t)
    BY <1>0 DEF Accepts
  <2>5. refresh[t].tok \in Num
    BY <1>t, Recorded DEF Typed
  <2>6. CASE Rotate(refresh[t].tok) /\ RefreshBecomes(t, "served", issued + 1)
    <3>1. /\ refresh[t].tok \in 1..issued /\ root[refresh[t].tok] \in open
          /\ issued' = issued + 1 /\ open' = open
          /\ root'[issued + 1] = root[refresh[t].tok]
      BY <1>t, <2>5, <2>6, Rotated
    <3>2. issued \in Nat /\ issued # 0 /\ issued' # 0
      BY <1>t, <3>1, Issued
    <3>3. \A k \in 1..issued' : root'[k] \in open'
      <4>1. \A k \in 1..issued' : k \in 1..issued \/ k = issued + 1
        BY <3>1, <3>2
      <4> QED BY <1>0, <1>g, <3>1, <4>1 DEF Accepts, Grown
    <3>4. AcceptedIn(t)'
      BY <2>3, <2>4, <2>6, <3>2 DEF AcceptedIn, RefreshBecomes
    <3>5. \A u \in Tabs : u # t => AcceptedIn(u)'
      BY <1>0, <2>2, <3>2 DEF Accepts, AcceptedIn, Elsewhere
    <3>6. \A u \in Tabs : AcceptedIn(u)'
      BY <3>4, <3>5
    <3>7. cookie' # 0
      BY <1>0, <2>3, <3>2 DEF Accepts
    <3> QED BY <3>3, <3>6, <3>7 DEF Accepts
  <2>7. CASE Refuse(refresh[t].tok) /\ RefreshBecomes(t, "refused", refresh[t].tok)
    <3>1. refresh[t].tok = 0
      <4>1. CASE refresh[t].tok # 0
        <5>1. Newest(refresh[t].tok) /\ refresh[t].tok \in 1..issued
          BY <1>0, <2>3, <4>1, Holdings DEF Newests
        <5>2. Exchangeable(refresh[t].tok)
          BY <1>0, <4>1, <5>1 DEF Accepts, Exchangeable
        <5> QED BY <2>7, <5>2 DEF Refuse
      <4> QED BY <4>1
    <3>2. UNCHANGED <<issued, root, open>>
      BY <2>7, <3>1 DEF Refuse, EndFamily
    <3>3. ~refreshing[t]
      BY <2>3, <2>4, <3>1 DEF AcceptedIn
    <3>4. AcceptedIn(t)'
      BY <2>3, <2>4, <2>7, <3>1, <3>2, <3>3 DEF AcceptedIn, RefreshBecomes
    <3> QED BY <1>0, <2>2, <2>3, <3>2, <3>4, AcceptQuiet
  <2> QED BY <1>t, <1>1, <2>6, <2>7, Served
<1>2. ASSUME NEW k \in strays, ServeStray(k) PROVE Accepts'
  BY <1>0, <1>2 DEF Newests
<1>3. ASSUME NEW r \in open, EndSession(r) PROVE Accepts'
  BY <1>0, <1>3 DEF EndSession, Unharmed
<1>4. ASSUME NEW t \in Tabs, Grant(t) PROVE Accepts'
  <2>1. Page(t)
    BY <1>4 DEF Page, Refresh, CallStep
  <2>2. Elsewhere(t)
    BY <1>0, <2>1, Others DEF Known
  <2>3. UNCHANGED <<issued, root, open>> /\ cookie' = cookie
    BY <1>4 DEF Grant, server, browser
  <2>4. page'[t] = page[t] /\ calls'[t] = calls[t] /\ token'[t] = token[t] /\ refreshing'[t] = refreshing[t]
    BY <1>4 DEF Grant, store, work
  <2>5. refresh'[t].at = "sent" /\ refresh'[t].tok = cookie
    BY <1>0, <1>4, Sent DEF RefreshBecomes, Known
  <2>6. refreshing[t] => \E c \in All : calls[t][c] # "idle"
    BY <1>0 DEF OneWaits
  <2>7. issued # 0 => cookie # 0
    BY <1>0 DEF Accepts
  <2>8. AcceptedIn(t)
    BY <1>0 DEF Accepts
  <2>9. AcceptedIn(t)'
    BY <2>3, <2>4, <2>5, <2>6, <2>7, <2>8 DEF AcceptedIn
  <2> QED BY <1>0, <2>2, <2>3, <2>9, AcceptQuiet
<1>5. ASSUME NEW t \in Tabs, RefreshAnswered(t) PROVE Accepts'
  <2>1. Page(t)
    BY <1>5 DEF Page, Refresh, CallStep
  <2>2. Elsewhere(t)
    BY <1>0, <2>1, Others DEF Known
  <2>3. UNCHANGED <<issued, root, open>> /\ page'[t] = page[t] /\ calls'[t] = calls[t]
        /\ refreshing'[t] = refreshing[t]
    BY <1>5 DEF RefreshAnswered, server, work
  <2>4. AcceptedIn(t) /\ token \in [Tabs -> Num]
    BY <1>0 DEF Accepts, Known, Typed
  <2>5. CASE /\ refresh[t].at = "served" /\ RefreshBecomes(t, "done", refresh[t].tok)
             /\ cookie' = refresh[t].tok /\ token' = [token EXCEPT ![t] = refresh[t].tok]
    <3>1. refresh[t].tok \in 1..issued
      BY <1>0, <2>5, Holdings DEF Known, PageSound
    <3>2. refresh[t].tok # 0 /\ issued # 0
      BY <3>1
    <3>3. AcceptedIn(t)'
      BY <2>3, <2>4, <2>5, <3>2 DEF AcceptedIn, RefreshBecomes
    <3> QED BY <1>0, <2>2, <2>3, <2>5, <3>2, <3>3, AcceptQuiet
  <2>6. CASE /\ refresh[t].at = "refused" /\ RefreshBecomes(t, "failed", refresh[t].tok)
             /\ cookie' = (IF refresh[t].tok = 0 THEN cookie ELSE 0) /\ token' = token
    <3>1. cookie' = cookie
      BY <2>4, <2>6 DEF AcceptedIn
    <3>2. AcceptedIn(t)'
      BY <2>3, <2>4, <2>6 DEF AcceptedIn, RefreshBecomes
    <3> QED BY <1>0, <2>2, <2>3, <3>1, <3>2, AcceptQuiet
  <2> QED BY <1>0, <1>5, <2>5, <2>6, Answer DEF Known
<1>6. ASSUME NEW t \in Tabs, RefreshLost(t) PROVE Accepts'
  <2>1. Page(t)
    BY <1>6 DEF Page, Refresh, CallStep
  <2>2. Elsewhere(t)
    BY <1>0, <2>1, Others DEF Known
  <2>3. UNCHANGED <<issued, root, open>> /\ cookie' = cookie
    BY <1>6 DEF RefreshLost, server, browser
  <2>4. page'[t] = page[t] /\ calls'[t] = calls[t] /\ token'[t] = token[t] /\ refreshing'[t] = refreshing[t]
    BY <1>6 DEF RefreshLost, store, work
  <2>5. refresh[t].at = "refused"
    BY <1>0, <1>6 DEF RefreshLost, Loss, Unharmed
  <2>6. refresh'[t].at = "failed"
    BY <1>0, <1>6, GivenUp DEF RefreshBecomes, Known
  <2>7. AcceptedIn(t)
    BY <1>0 DEF Accepts
  <2>8. AcceptedIn(t)'
    BY <2>3, <2>4, <2>5, <2>6, <2>7 DEF AcceptedIn
  <2> QED BY <1>0, <2>2, <2>3, <2>8, AcceptQuiet
<1>7. ASSUME NEW t \in Tabs, RefreshDone(t) PROVE Accepts'
  <2>1. Page(t)
    BY <1>7 DEF Page, Refresh, CallStep
  <2>2. Elsewhere(t)
    BY <1>0, <2>1, Others DEF Known
  <2>3. UNCHANGED <<issued, root, open>> /\ cookie' = cookie
    BY <1>7 DEF RefreshDone, server, browser
  <2>4. page'[t] = page[t] /\ token'[t] = token[t]
    BY <1>7 DEF RefreshDone, store, work
  <2>5. ~refreshing'[t] /\ refresh'[t].at = "idle"
    BY <1>0, <1>7, Finished DEF RefreshDone, Known, Typed, RefreshBecomes
  <2>6. \A c \in All : calls[t][c] = "idle" => calls'[t][c] = "idle"
    BY <1>0, <1>7, CallsResumed DEF Known
  <2>7. AcceptedIn(t)
    BY <1>0 DEF Accepts
  <2>8. AcceptedIn(t)'
    BY <2>3, <2>4, <2>5, <2>6, <2>7 DEF AcceptedIn
  <2> QED BY <1>0, <2>2, <2>3, <2>8, AcceptQuiet
<1>8. ASSUME NEW t \in Tabs, RefreshFailed(t) PROVE Accepts'
  BY <1>0, <1>8 DEF RefreshFailed, Accepts, AcceptedIn
<1>9. ASSUME NEW t \in Tabs, Restored(t) PROVE Accepts'
  <2>1. Page(t)
    BY <1>9 DEF Page, Refresh, CallStep
  <2>2. Elsewhere(t)
    BY <1>0, <2>1, Others DEF Known
  <2>3. UNCHANGED <<issued, root, open>> /\ cookie' = cookie
    BY <1>9 DEF Restored, server, browser
  <2>4. token'[t] = token[t] /\ refreshing'[t] = refreshing[t]
    BY <1>9 DEF Restored, store, work
  <2>5. page'[t] \in {"profile", "open"}
    BY <1>0, <1>9 DEF Restored, Known, Typed
  <2>6. refresh'[t].at = "idle"
    BY <1>0, <1>9, Finished DEF RefreshBecomes, Known
  <2>7. calls' = calls \/ issued # 0
    <3>1. refresh[t].at = "done" => refresh[t].tok \in 1..issued
      BY <1>0, Holdings DEF Known, PageSound
    <3>2. refresh[t].at = "done" => issued # 0
      BY <3>1
    <3> QED BY <1>9, <3>2 DEF Restored, work
  <2>8. AcceptedIn(t)
    BY <1>0 DEF Accepts
  <2>9. AcceptedIn(t)'
    BY <2>3, <2>4, <2>5, <2>6, <2>7, <2>8 DEF AcceptedIn
  <2> QED BY <1>0, <2>2, <2>3, <2>9, AcceptQuiet
<1>10. ASSUME NEW t \in Tabs, OpenPage(t) PROVE Accepts'
  <2>1. User(t)
    BY <1>10 DEF User
  <2>2. Elsewhere(t)
    BY <1>0, <2>1, Others DEF Known
  <2>3. UNCHANGED <<issued, root, open>> /\ cookie' = cookie
    BY <1>10 DEF OpenPage, server, browser
  <2>4. token'[t] = token[t] /\ refreshing'[t] = refreshing[t] /\ calls'[t] = calls[t]
    BY <1>10 DEF OpenPage, store, work
  <2>5. page'[t] = "restoring" /\ ~refreshing[t]
    BY <1>0, <1>10 DEF OpenPage, Known, Typed, PageSound
  <2>6. refresh'[t].at = "waiting"
    BY <1>0, <1>10, Requested DEF OpenPage, RefreshBecomes, Known
  <2>7. AcceptedIn(t)
    BY <1>0 DEF Accepts
  <2>8. AcceptedIn(t)'
    BY <2>3, <2>4, <2>5, <2>6, <2>7 DEF AcceptedIn
  <2> QED BY <1>0, <2>2, <2>3, <2>8, AcceptQuiet
<1>11. ASSUME NEW t \in Tabs, ClosePage(t) PROVE Accepts'
  <2>1. User(t)
    BY <1>11 DEF User
  <2>2. Elsewhere(t)
    BY <1>0, <2>1, Others DEF Known
  <2>3. UNCHANGED <<issued, root, open>> /\ cookie' = cookie
    BY <1>11 DEF ClosePage, server, browser
  <2>4. page'[t] = "closed" /\ token'[t] = 0 /\ ~refreshing'[t]
    BY <1>0, <1>11 DEF ClosePage, Known, Typed
  <2>5. refresh'[t].at = "idle"
    BY <1>0, <1>11, Finished DEF RefreshBecomes, Known
  <2>6. \A c \in All : calls'[t][c] = "idle"
    BY <1>0, <1>11, CallsDropped DEF Known
  <2>7. AcceptedIn(t)
    BY <1>0 DEF Accepts
  <2>8. AcceptedIn(t)'
    BY <2>3, <2>4, <2>5, <2>6, <2>7 DEF AcceptedIn
  <2> QED BY <1>0, <2>2, <2>3, <2>8, AcceptQuiet
<1>12. ASSUME NEW t \in Tabs, Login(t) PROVE Accepts'
  <2>1. User(t)
    BY <1>12 DEF User
  <2>2. Elsewhere(t)
    BY <1>0, <2>1, Others DEF Known
  <2>3. UNCHANGED <<issued, root, open>> /\ cookie' = cookie
    BY <1>12 DEF Login, server, browser
  <2>4. page'[t] = page[t] /\ calls'[t] = calls[t] /\ token'[t] = token[t] /\ refreshing'[t] = refreshing[t] /\ refresh'[t] = refresh[t]
    BY <1>12 DEF Login, store, work
  <2>5. AcceptedIn(t)
    BY <1>0 DEF Accepts
  <2>6. AcceptedIn(t)'
    BY <2>3, <2>4, <2>5 DEF AcceptedIn
  <2> QED BY <1>0, <2>2, <2>3, <2>6, AcceptQuiet
<1>13. ASSUME NEW t \in Tabs, Logout(t) PROVE Accepts'
  <2>1. User(t)
    BY <1>13 DEF User
  <2>2. Elsewhere(t)
    BY <1>0, <2>1, Others DEF Known
  <2>3. UNCHANGED <<issued, root, open>> /\ cookie' = cookie
    BY <1>13 DEF Logout, server, browser
  <2>4. page'[t] = page[t] /\ calls'[t] = calls[t] /\ token'[t] = token[t] /\ refreshing'[t] = refreshing[t] /\ refresh'[t] = refresh[t]
    BY <1>13 DEF Logout, store, work
  <2>5. AcceptedIn(t)
    BY <1>0 DEF Accepts
  <2>6. AcceptedIn(t)'
    BY <2>3, <2>4, <2>5 DEF AcceptedIn
  <2> QED BY <1>0, <2>2, <2>3, <2>6, AcceptQuiet
<1>14. ASSUME NEW t \in Tabs, NEW c \in Calls, Call(t, c) PROVE Accepts'
  <2>1. User(t)
    BY <1>14 DEF User
  <2>2. Elsewhere(t)
    BY <1>0, <2>1, Others DEF Known
  <2>3. UNCHANGED <<issued, root, open>> /\ cookie' = cookie
    BY <1>14 DEF Call, server, browser
  <2>4. page'[t] = page[t] /\ token'[t] = token[t] /\ refreshing'[t] = refreshing[t] /\ refresh'[t] = refresh[t]
    BY <1>14 DEF Call, store, work
  <2>5. token[t] # 0
    BY <1>14 DEF Call, store, work
  <2>6. AcceptedIn(t)
    BY <1>0 DEF Accepts
  <2>7. AcceptedIn(t)'
    BY <2>3, <2>4, <2>5, <2>6 DEF AcceptedIn
  <2> QED BY <1>0, <2>2, <2>3, <2>7, AcceptQuiet
<1>15. ASSUME NEW t \in Tabs, LoginAnswered(t) PROVE Accepts'
  <2>1. Page(t)
    BY <1>15 DEF Page, Refresh, CallStep
  <2>2. Elsewhere(t)
    BY <1>0, <2>1, Others DEF Known
  <2>3. /\ issued' = issued + 1 /\ root'[issued + 1] = issued + 1
        /\ open' = open \cup {issued + 1} /\ issued \in Nat /\ issued + 1 # 0
    BY <1>t, <1>15, NewFamily, Issued
  <2>4. \A k \in 1..issued' : root'[k] \in open'
    <3>1. \A k \in 1..issued' : k \in 1..issued \/ k = issued + 1
      BY <2>3
    <3> QED BY <1>0, <1>g, <2>3, <3>1 DEF Accepts, Grown
  <2>5. cookie' = issued + 1
    BY <1>15 DEF LoginAnswered
  <2>6. page'[t] = page[t] /\ refreshing'[t] = refreshing[t] /\ refresh'[t] = refresh[t]
    BY <1>15 DEF LoginAnswered
  <2>7. issued' # 0
    BY <2>3
  <2>8. \A u \in Tabs : AcceptedIn(u)'
    BY <1>0, <2>2, <2>6, <2>7 DEF Accepts, AcceptedIn, Elsewhere
  <2> QED BY <2>3, <2>4, <2>5, <2>8 DEF Accepts
<1>16. ASSUME NEW t \in Tabs, LoginFails(t) PROVE Accepts'
  <2>1. Page(t)
    BY <1>16 DEF Page, Refresh, CallStep
  <2>2. Elsewhere(t)
    BY <1>0, <2>1, Others DEF Known
  <2>3. UNCHANGED <<issued, root, open>> /\ cookie' = cookie
    BY <1>16 DEF LoginFails, server, browser
  <2>4. page'[t] = page[t] /\ calls'[t] = calls[t] /\ token'[t] = token[t] /\ refreshing'[t] = refreshing[t] /\ refresh'[t] = refresh[t]
    BY <1>16 DEF LoginFails, store, work
  <2>5. AcceptedIn(t)
    BY <1>0 DEF Accepts
  <2>6. AcceptedIn(t)'
    BY <2>3, <2>4, <2>5 DEF AcceptedIn
  <2> QED BY <1>0, <2>2, <2>3, <2>6, AcceptQuiet
<1>17. ASSUME NEW t \in Tabs, LogoutEnds(t) PROVE Accepts'
  BY <1>0, <1>17 DEF LogoutEnds, Unharmed
<1>18. ASSUME NEW t \in Tabs, NEW c \in Calls \cup {Me}, CallSettled(t, c) PROVE Accepts'
  <2>1. Page(t)
    BY <1>18 DEF Page, Refresh, CallStep
  <2>2. Elsewhere(t)
    BY <1>0, <2>1, Others DEF Known
  <2>3. UNCHANGED <<issued, root, open>> /\ cookie' = cookie
    BY <1>18 DEF CallSettled, server, browser
  <2>4. token'[t] = token[t] /\ refreshing'[t] = refreshing[t] /\ refresh'[t] = refresh[t]
    BY <1>18 DEF CallSettled, store, work
  <2>5. c \in All /\ calls[t][c] # "idle"
    BY <1>18 DEF CallSettled, All
  <2>6. page'[t] \in {page[t], "open"}
    BY <1>0, <1>18 DEF CallSettled, Known, Typed, Continue
  <2>7. AcceptedIn(t)
    BY <1>0 DEF Accepts
  <2>8. AcceptedIn(t)'
    BY <2>3, <2>4, <2>5, <2>6, <2>7 DEF AcceptedIn
  <2> QED BY <1>0, <2>2, <2>3, <2>8, AcceptQuiet
<1>19. ASSUME NEW t \in Tabs, NEW c \in Calls \cup {Me}, CallQueued(t, c) PROVE Accepts'
  <2>1. Page(t)
    BY <1>19 DEF Page, Refresh, CallStep
  <2>2. Elsewhere(t)
    BY <1>0, <2>1, Others DEF Known
  <2>3. UNCHANGED <<issued, root, open>> /\ cookie' = cookie
    BY <1>19 DEF CallQueued, server, browser
  <2>4. page'[t] = page[t] /\ token'[t] = token[t] /\ refreshing'[t] = refreshing[t] /\ refresh'[t] = refresh[t]
    BY <1>19 DEF CallQueued, store, work
  <2>5. c \in All /\ calls[t][c] # "idle"
    BY <1>19 DEF CallQueued, All
  <2>6. AcceptedIn(t)
    BY <1>0 DEF Accepts
  <2>7. AcceptedIn(t)'
    BY <2>3, <2>4, <2>5, <2>6 DEF AcceptedIn
  <2> QED BY <1>0, <2>2, <2>3, <2>7, AcceptQuiet
<1>20. ASSUME NEW t \in Tabs, NEW c \in Calls \cup {Me}, CallStartsRefresh(t, c) PROVE Accepts'
  <2>1. Page(t)
    BY <1>20 DEF Page, Refresh, CallStep
  <2>2. Elsewhere(t)
    BY <1>0, <2>1, Others DEF Known
  <2>3. UNCHANGED <<issued, root, open>> /\ cookie' = cookie
    BY <1>20 DEF CallStartsRefresh, server, browser
  <2>4. page'[t] = page[t] /\ token'[t] = token[t]
    BY <1>20 DEF CallStartsRefresh, store, work
  <2>5. c \in All /\ calls[t][c] # "idle"
    BY <1>20 DEF CallStartsRefresh, All
  <2>6. refresh'[t].at = "waiting"
    BY <1>0, <1>20, Requested DEF CallStartsRefresh, RefreshBecomes, Known
  <2>7. AcceptedIn(t)
    BY <1>0 DEF Accepts
  <2>8. AcceptedIn(t)'
    BY <2>3, <2>4, <2>5, <2>6, <2>7 DEF AcceptedIn
  <2> QED BY <1>0, <2>2, <2>3, <2>8, AcceptQuiet
<1>21. CASE UNCHANGED vars
  BY <1>0, <1>21 DEF vars, server, browser, store, work, Accepts, AcceptedIn
<1> QED BY <1>1, <1>2, <1>3, <1>4, <1>5, <1>6, <1>7, <1>8, <1>9, <1>10, <1>11, <1>12, <1>13, <1>14, <1>15, <1>16, <1>17, <1>18, <1>19, <1>20, <1>21
     DEF Next, Server, User, Page, Refresh, CallStep

------------------------------------------------------------------------------
(* Whose tokens the browser holds.                                         *)

Logins ==
  \A t \in Tabs : login[t] = "sent" =>
    \A u \in Tabs : /\ token[u] = 0
                    /\ refresh[u].at \notin {"sent", "served"}
                    /\ login[u] = "sent" => u = t

FamilyIn(t) ==
  page[t] \in {"profile", "open"} =>
    /\ asking[t] # 0 => token[t] # 0 /\ root[token[t]] = root[asking[t]]
    /\ profile[t] # 0 => token[t] # 0 /\ root[token[t]] = profile[t]
    /\ refresh[t].at = "done" => token[t] # 0

Kin == \A j, k \in Held : root[j] = root[k]

Family == Kin /\ Logins /\ \A t \in Tabs : FamilyIn(t)

LEMMA FamilyInvSound == FamilyInv <=> ("mixed" \notin happened => Family)
BY DEF FamilyInv, Family, Kin, Logins, FamilyIn

LEMMA InHeld ==
  /\ 0 \notin Held /\ cookie \in Held \cup {0}
  /\ \A t \in Tabs : /\ token[t] \in Held \cup {0}
                     /\ refresh[t].at \in {"sent", "served"} => refresh[t].tok \in Held \cup {0}
BY DEF Held

LEMMA HeldIssued ==
  ASSUME Known
  PROVE  Held \subseteq 1..issued
BY Holdings DEF Held

LEMMA HeldWithin ==
  ASSUME NEW S, Held \subseteq S, cookie' \in S \cup {0}, NEW t \in Tabs, Elsewhere(t),
         token'[t] \in S \cup {0},
         refresh'[t].at \in {"sent", "served"} => refresh'[t].tok \in S \cup {0}
  PROVE  Held' \subseteq S
<1>1. \A u \in Tabs : token'[u] \in S \cup {0}
  BY InHeld DEF Elsewhere
<1>2. \A u \in Tabs : refresh'[u].at \in {"sent", "served"} => refresh'[u].tok \in S \cup {0}
  BY InHeld DEF Elsewhere
<1> QED BY <1>1, <1>2 DEF Held

LEMMA KinKept ==
  ASSUME Known, Kin, Grown, Held' \subseteq Held
  PROVE  Kin'
<1>1. \A k \in Held : root'[k] = root[k]
  BY HeldIssued DEF Grown
<1> QED BY <1>1 DEF Kin

LEMMA LoginsKept ==
  ASSUME Logins, NEW t \in Tabs, Elsewhere(t), login'[t] = "sent" => login[t] = "sent",
         token'[t] \in {token[t], 0},
         refresh'[t].at \in {"sent", "served"} => refresh[t].at \in {"sent", "served"}
  PROVE  Logins'
BY DEF Logins, Elsewhere

LEMMA NoLogins ==
  ASSUME ~LoginUnderWay, login' = login
  PROVE  Logins'
BY DEF Logins, LoginUnderWay

LEMMA FamilyKept ==
  ASSUME Known, Grown, NEW u \in Tabs, FamilyIn(u), page'[u] = page[u],
         token'[u] = token[u], profile'[u] = profile[u], asking'[u] = asking[u],
         refresh'[u].at = "done" => refresh[u].at = "done"
  PROVE  FamilyIn(u)'
<1>1. token[u] # 0 => root'[token[u]] = root[token[u]]
  BY Holdings DEF Grown
<1>2. asking[u] # 0 => root'[asking[u]] = root[asking[u]]
  BY Holdings DEF Grown
<1> QED BY <1>1, <1>2 DEF FamilyIn

LEMMA FamilyQuiet ==
  ASSUME Known, Family, Grown, NEW t \in Tabs, Elsewhere(t), Kin', Logins', FamilyIn(t)'
  PROVE  Family'
<1>1. \A u \in Tabs : u # t => FamilyIn(u)'
  BY FamilyKept DEF Family, Elsewhere
<1> QED BY <1>1 DEF Family

(* A step that sends no request and leaves the page signed in as it was. *)
LEMMA FamilyStill ==
  ASSUME Known, Family, Grown, NEW t \in Tabs, Elsewhere(t), cookie' \in {cookie, 0},
         token'[t] \in {token[t], 0}, login'[t] = "sent" => login[t] = "sent",
         refresh'[t].at \in {"sent", "served"} => refresh'[t] = refresh[t], FamilyIn(t)'
  PROVE  Family'
<1>1. Held' \subseteq Held
  BY InHeld, HeldWithin
<1>2. Kin'
  BY <1>1, KinKept DEF Family
<1>3. Logins'
  BY LoginsKept DEF Family
<1> QED BY <1>2, <1>3, FamilyQuiet

(* A step that sends a refresh request while no login is under way. *)
LEMMA FamilySent ==
  ASSUME Known, Family, Grown, NEW t \in Tabs, Elsewhere(t), ~LoginUnderWay, login' = login,
         cookie' = cookie, token'[t] = token[t],
         refresh'[t].at \in {"sent", "served"} => refresh'[t].tok = cookie, FamilyIn(t)'
  PROVE  Family'
<1>1. Held' \subseteq Held
  BY InHeld, HeldWithin
<1>2. Kin'
  BY <1>1, KinKept DEF Family
<1> QED BY <1>2, NoLogins, FamilyQuiet

(* Every step keeps it, unless it lets a login meet another session. *)
LEMMA FamilyStep ==
  ASSUME Known, Family, "mixed" \notin happened', [Next]_vars
  PROVE  Family'
<1>0. Known /\ Family /\ "mixed" \notin happened'
  OBVIOUS
<1>t. Typed /\ ServerSound
  BY <1>0 DEF Known
<1>g. Grown
  BY <1>t, ServerStep
<1>f. \A u \in Tabs : FamilyIn(u)
  BY <1>0 DEF Family
<1>1. ASSUME NEW t \in Tabs, ServeRefresh(t) PROVE Family'
  <2>1. ServeRefresh(t)
    BY <1>1 DEF ServeRefresh
  <2>2. Elsewhere(t)
    BY <1>0, <2>1, Others DEF Known
  <2>3. refresh[t].at = "sent" /\ cookie' = cookie /\ login' = login
        /\ page'[t] = page[t] /\ token'[t] = token[t] /\ profile'[t] = profile[t] /\ asking'[t] = asking[t] /\ login'[t] = login[t]
    BY <1>1 DEF ServeRefresh, browser, store, work
  <2>4. refresh[t].tok \in Num
    BY <1>t, Recorded DEF Typed
  <2>5. refresh'[t].at \in {"served", "refused"}
    BY <1>t, <1>1, Served DEF RefreshBecomes
  <2>6. FamilyIn(t)'
    BY <1>0, <1>g, <1>f, <2>3, <2>5, FamilyKept
  <2>7. CASE Rotate(refresh[t].tok) /\ RefreshBecomes(t, "served", issued + 1)
    <3>1. /\ refresh[t].tok \in 1..issued /\ root'[issued + 1] = root[refresh[t].tok]
      BY <1>t, <2>4, <2>7, Rotated
    <3>2. refresh[t].tok \in Held
      BY <2>3, <3>1, InHeld
    <3>3. Held' \subseteq Held \cup {issued + 1}
      <4>1. refresh'[t].tok = issued + 1 /\ Held \subseteq Held \cup {issued + 1}
        BY <2>7 DEF RefreshBecomes
      <4> QED BY <2>2, <2>3, <4>1, InHeld, HeldWithin
    <3>4. \A j \in Held' : root'[j] = root[refresh[t].tok]
      BY <1>0, <1>g, <3>1, <3>2, <3>3, HeldIssued DEF Grown, Family, Kin
    <3>5. Kin'
      BY <3>4 DEF Kin
    <3>6. ~LoginUnderWay
      BY <1>0, <2>3 DEF Family, Logins, LoginUnderWay
    <3> QED BY <1>0, <1>g, <2>2, <2>3, <2>6, <3>5, <3>6, NoLogins, FamilyQuiet
  <2>8. CASE Refuse(refresh[t].tok) /\ RefreshBecomes(t, "refused", refresh[t].tok)
    <3>1. refresh'[t].at = "refused"
      BY <2>8 DEF RefreshBecomes
    <3> QED BY <1>0, <1>g, <2>2, <2>3, <2>6, <3>1, FamilyStill
  <2> QED BY <1>t, <1>1, <2>7, <2>8, Served
<1>2. ASSUME NEW k \in strays, ServeStray(k) PROVE Family'
  <2>1. cookie' = cookie /\ UNCHANGED <<page, token, profile, asking, refresh, login>>
    BY <1>2 DEF ServeStray, browser, store, work
  <2>2. Held' = Held
    BY <2>1 DEF Held
  <2>3. Kin'
    BY <1>0, <1>g, <2>2, KinKept DEF Family
  <2>4. Logins'
    BY <1>0, <2>1 DEF Family, Logins
  <2>5. \A u \in Tabs : FamilyIn(u)'
    BY <1>0, <1>g, <2>1, FamilyKept DEF Family
  <2> QED BY <2>3, <2>4, <2>5 DEF Family
<1>3. ASSUME NEW r \in open, EndSession(r) PROVE Family'
  <2>1. cookie' = cookie /\ UNCHANGED <<page, token, profile, asking, refresh, login>>
    BY <1>3 DEF EndSession, browser, store, work
  <2>2. Held' = Held
    BY <2>1 DEF Held
  <2>3. Kin'
    BY <1>0, <1>g, <2>2, KinKept DEF Family
  <2>4. Logins'
    BY <1>0, <2>1 DEF Family, Logins
  <2>5. \A u \in Tabs : FamilyIn(u)'
    BY <1>0, <1>g, <2>1, FamilyKept DEF Family
  <2> QED BY <2>3, <2>4, <2>5 DEF Family
<1>4. ASSUME NEW t \in Tabs, Grant(t) PROVE Family'
  <2>1. Page(t)
    BY <1>4 DEF Page, Refresh, CallStep
  <2>2. Elsewhere(t)
    BY <1>0, <2>1, Others DEF Known
  <2>3. cookie' = cookie /\ login' = login /\ page'[t] = page[t] /\ token'[t] = token[t] /\ profile'[t] = profile[t] /\ asking'[t] = asking[t] /\ login'[t] = login[t]
    BY <1>4 DEF Grant, browser, store, work
  <2>4. ~LoginUnderWay
    BY <1>0, <1>4 DEF Grant, Mixed
  <2>5. refresh'[t].at = "sent" /\ refresh'[t].tok = cookie
    BY <1>0, <1>4, Sent DEF RefreshBecomes, Known
  <2>6. FamilyIn(t)'
    BY <1>0, <1>g, <1>f, <2>3, <2>4, <2>5, FamilyKept
  <2> QED BY <1>0, <1>g, <2>2, <2>3, <2>4, <2>5, <2>6, FamilySent
<1>5. ASSUME NEW t \in Tabs, RefreshAnswered(t) PROVE Family'
  <2>1. Page(t)
    BY <1>5 DEF Page, Refresh, CallStep
  <2>2. Elsewhere(t)
    BY <1>0, <2>1, Others DEF Known
  <2>3. login' = login /\ page'[t] = page[t] /\ profile'[t] = profile[t] /\ asking'[t] = asking[t] /\ login'[t] = login[t]
    BY <1>5 DEF RefreshAnswered, browser, store, work
  <2>4. CASE /\ refresh[t].at = "served" /\ RefreshBecomes(t, "done", refresh[t].tok)
             /\ cookie' = refresh[t].tok /\ token' = [token EXCEPT ![t] = refresh[t].tok]
    <3>1. refresh[t].tok # 0 /\ refresh[t].tok \in Held
      BY <1>0, <2>4, InHeld DEF Known, PageSound
    <3>2. token'[t] = refresh[t].tok /\ refresh'[t].at = "done"
      BY <1>t, <2>4 DEF Typed, RefreshBecomes
    <3>3. ~LoginUnderWay
      BY <1>0, <2>4 DEF Family, Logins, LoginUnderWay
    <3>4. Held' \subseteq Held
      BY <2>2, <2>4, <3>1, <3>2, InHeld, HeldWithin
    <3>5. Kin'
      BY <1>0, <1>g, <3>4, KinKept DEF Family
    <3>6. /\ root'[refresh[t].tok] = root[refresh[t].tok]
          /\ token[t] # 0 => root[token[t]] = root[refresh[t].tok]
          /\ asking[t] # 0 => root'[asking[t]] = root[asking[t]]
      BY <1>0, <1>g, <3>1, InHeld, Holdings DEF Grown, Family, Kin
    <3>7. FamilyIn(t)'
      BY <1>f, <2>3, <3>1, <3>2, <3>6 DEF FamilyIn
    <3> QED BY <1>0, <1>g, <2>2, <2>3, <3>3, <3>5, <3>7, NoLogins, FamilyQuiet
  <2>5. CASE /\ refresh[t].at = "refused" /\ RefreshBecomes(t, "failed", refresh[t].tok)
             /\ cookie' = (IF refresh[t].tok = 0 THEN cookie ELSE 0) /\ token' = token
    <3>1. refresh'[t].at = "failed" /\ cookie' \in {cookie, 0} /\ token'[t] = token[t]
      BY <2>5 DEF RefreshBecomes
    <3>2. FamilyIn(t)'
      BY <1>0, <1>g, <1>f, <2>3, <3>1, FamilyKept
    <3> QED BY <1>0, <1>g, <2>2, <2>3, <3>1, <3>2, FamilyStill
  <2> QED BY <1>t, <1>5, <2>4, <2>5, Answer
<1>6. ASSUME NEW t \in Tabs, RefreshLost(t) PROVE Family'
  <2>1. Page(t)
    BY <1>6 DEF Page, Refresh, CallStep
  <2>2. Elsewhere(t)
    BY <1>0, <2>1, Others DEF Known
  <2>3. cookie' = cookie /\ page'[t] = page[t] /\ token'[t] = token[t] /\ profile'[t] = profile[t] /\ asking'[t] = asking[t] /\ login'[t] = login[t]
    BY <1>6 DEF RefreshLost, browser, store, work
  <2>4. refresh'[t].at = "failed"
    BY <1>0, <1>6, GivenUp DEF RefreshBecomes, Known
  <2>5. FamilyIn(t)'
    BY <1>0, <1>g, <1>f, <2>3, <2>4, FamilyKept
  <2> QED BY <1>0, <1>g, <2>2, <2>3, <2>4, <2>5, FamilyStill
<1>7. ASSUME NEW t \in Tabs, RefreshDone(t) PROVE Family'
  <2>1. Page(t)
    BY <1>7 DEF Page, Refresh, CallStep
  <2>2. Elsewhere(t)
    BY <1>0, <2>1, Others DEF Known
  <2>3. cookie' = cookie /\ page'[t] = page[t] /\ token'[t] = token[t] /\ profile'[t] = profile[t] /\ login'[t] = login[t]
    BY <1>7 DEF RefreshDone, browser, store, work
  <2>4. refresh'[t].at = "idle"
    BY <1>0, <1>7, Finished DEF RefreshBecomes, Known
  <2>5. refresh[t].at = "done" /\ (token[t] # 0 => asking'[t] \in {asking[t], token[t]})
    BY <1>0, <1>7 DEF RefreshDone, Known, Typed
  <2>6. /\ token[t] # 0 => root'[token[t]] = root[token[t]]
        /\ asking[t] # 0 => root'[asking[t]] = root[asking[t]]
    BY <1>0, <1>g, Holdings DEF Grown
  <2>7. FamilyIn(t)
    BY <1>f
  <2>8. FamilyIn(t)'
    BY <2>3, <2>4, <2>5, <2>6, <2>7 DEF FamilyIn
  <2> QED BY <1>0, <1>g, <2>2, <2>3, <2>4, <2>5, <2>6, <2>7, <2>8, FamilyStill
<1>8. ASSUME NEW t \in Tabs, RefreshFailed(t) PROVE Family'
  <2>1. Page(t)
    BY <1>8 DEF Page, Refresh, CallStep
  <2>2. Elsewhere(t)
    BY <1>0, <2>1, Others DEF Known
  <2>3. cookie' = cookie
    BY <1>8 DEF RefreshFailed, browser, store, work
  <2>4. refresh'[t].at = "idle"
    BY <1>0, <1>8, Finished DEF RefreshBecomes, Known
  <2>5. page'[t] = "refused" /\ token'[t] = 0 /\ (login'[t] = "sent" => login[t] = "sent")
    BY <1>0, <1>8 DEF RefreshFailed, Known, Typed
  <2>6. FamilyIn(t)'
    BY <2>5 DEF FamilyIn
  <2> QED BY <1>0, <1>g, <2>2, <2>3, <2>4, <2>5, <2>6, FamilyStill
<1>9. ASSUME NEW t \in Tabs, Restored(t) PROVE Family'
  <2>1. Page(t)
    BY <1>9 DEF Page, Refresh, CallStep
  <2>2. Elsewhere(t)
    BY <1>0, <2>1, Others DEF Known
  <2>3. cookie' = cookie /\ token'[t] = token[t] /\ profile'[t] = profile[t] /\ login'[t] = login[t]
    BY <1>9 DEF Restored, browser, store, work
  <2>4. refresh'[t].at = "idle"
    BY <1>0, <1>9, Finished DEF RefreshBecomes, Known
  <2>5. profile[t] = 0 /\ asking[t] = 0
    BY <1>0, <1>9 DEF Restored, Known, PageSound
  <2>6. asking'[t] \in {0, token[t]}
    BY <1>0, <2>5, <1>9 DEF Restored, Known, Typed, AskMe, work
  <2>7. FamilyIn(t)'
    BY <2>3, <2>4, <2>5, <2>6 DEF FamilyIn
  <2> QED BY <1>0, <1>g, <2>2, <2>3, <2>4, <2>5, <2>6, <2>7, FamilyStill
<1>10. ASSUME NEW t \in Tabs, OpenPage(t) PROVE Family'
  <2>1. User(t)
    BY <1>10 DEF User
  <2>2. Elsewhere(t)
    BY <1>0, <2>1, Others DEF Known
  <2>3. cookie' = cookie /\ login' = login /\ token'[t] = token[t] /\ profile'[t] = profile[t] /\ asking'[t] = asking[t]
    BY <1>10 DEF OpenPage, browser, store, work
  <2>4. \/ refresh'[t].at = "waiting"
        \/ refresh'[t].at = "sent" /\ refresh'[t].tok = cookie /\ ~LoginUnderWay
    BY <1>0, <1>10, Requested DEF OpenPage, RefreshBecomes, Known, Mixed
  <2>5. FamilyIn(t)'
    <3>1. page'[t] = "restoring"
      BY <1>0, <1>10 DEF OpenPage, Known, Typed
    <3> QED BY <3>1 DEF FamilyIn
  <2>6. CASE refresh'[t].at = "waiting"
    BY <1>0, <1>g, <2>2, <2>3, <2>5, <2>6, FamilyStill
  <2>7. CASE refresh'[t].at = "sent" /\ refresh'[t].tok = cookie /\ ~LoginUnderWay
    BY <1>0, <1>g, <2>2, <2>3, <2>5, <2>7, FamilySent
  <2> QED BY <2>4, <2>6, <2>7
<1>11. ASSUME NEW t \in Tabs, ClosePage(t) PROVE Family'
  <2>1. User(t)
    BY <1>11 DEF User
  <2>2. Elsewhere(t)
    BY <1>0, <2>1, Others DEF Known
  <2>3. cookie' = cookie
    BY <1>11 DEF ClosePage, browser, store, work
  <2>4. refresh'[t].at = "idle"
    BY <1>0, <1>11, Finished DEF RefreshBecomes, Known
  <2>5. page'[t] = "closed" /\ token'[t] = 0 /\ login'[t] = "idle"
    BY <1>0, <1>11 DEF ClosePage, Known, Typed
  <2>6. FamilyIn(t)'
    BY <2>5 DEF FamilyIn
  <2> QED BY <1>0, <1>g, <2>2, <2>3, <2>4, <2>5, <2>6, FamilyStill
<1>12. ASSUME NEW t \in Tabs, Login(t) PROVE Family'
  <2>1. User(t)
    BY <1>12 DEF User
  <2>2. Elsewhere(t)
    BY <1>0, <2>1, Others DEF Known
  <2>3. cookie' = cookie /\ page'[t] = page[t] /\ token'[t] = token[t] /\ profile'[t] = profile[t] /\ asking'[t] = asking[t] /\ refresh'[t] = refresh[t]
    BY <1>12 DEF Login, browser, store, work
  <2>4. Alone
    BY <1>0, <1>12 DEF Login
  <2>5. Logins'
    BY <2>2, <2>3, <2>4 DEF Alone, Logins, Elsewhere
  <2>6. FamilyIn(t)'
    BY <1>0, <1>g, <1>f, <2>3, FamilyKept
  <2>7. Held' \subseteq Held
    BY <2>2, <2>3, InHeld, HeldWithin
  <2>8. Kin'
    BY <1>0, <1>g, <2>7, KinKept DEF Family
  <2> QED BY <1>0, <1>g, <2>2, <2>5, <2>6, <2>8, FamilyQuiet
<1>13. ASSUME NEW t \in Tabs, Logout(t) PROVE Family'
  <2>1. User(t)
    BY <1>13 DEF User
  <2>2. Elsewhere(t)
    BY <1>0, <2>1, Others DEF Known
  <2>3. cookie' = cookie /\ page'[t] = page[t] /\ token'[t] = token[t] /\ profile'[t] = profile[t] /\ asking'[t] = asking[t] /\ refresh'[t] = refresh[t] /\ login'[t] = login[t]
    BY <1>13 DEF Logout, browser, store, work
  <2>4. FamilyIn(t)'
    BY <1>0, <1>g, <1>f, <2>3, FamilyKept
  <2> QED BY <1>0, <1>g, <2>2, <2>3, <2>4, FamilyStill
<1>14. ASSUME NEW t \in Tabs, NEW c \in Calls, Call(t, c) PROVE Family'
  <2>1. User(t)
    BY <1>14 DEF User
  <2>2. Elsewhere(t)
    BY <1>0, <2>1, Others DEF Known
  <2>3. cookie' = cookie /\ page'[t] = page[t] /\ token'[t] = token[t] /\ profile'[t] = profile[t] /\ asking'[t] = asking[t] /\ refresh'[t] = refresh[t] /\ login'[t] = login[t]
    BY <1>14 DEF Call, browser, store, work
  <2>4. FamilyIn(t)'
    BY <1>0, <1>g, <1>f, <2>3, FamilyKept
  <2> QED BY <1>0, <1>g, <2>2, <2>3, <2>4, FamilyStill
<1>15. ASSUME NEW t \in Tabs, LoginAnswered(t) PROVE Family'
  <2>1. Page(t)
    BY <1>15 DEF Page, Refresh, CallStep
  <2>2. Elsewhere(t)
    BY <1>0, <2>1, Others DEF Known
  <2>3. cookie' = issued + 1 /\ login[t] = "sent" /\ page'[t] = page[t] /\ profile'[t] = profile[t] /\ refresh'[t] = refresh[t]
    BY <1>15 DEF LoginAnswered, browser, store, work
  <2>4. issued \in Nat /\ issued' = issued + 1 /\ issued + 1 # 0
    BY <1>t, <1>15, NewFamily, Issued
  <2>5. token'[t] = issued + 1 /\ asking'[t] = issued + 1 /\ login'[t] = "me"
    BY <1>t, <1>15 DEF LoginAnswered, AskMe, Typed
  <2>6. \A u \in Tabs : /\ token[u] = 0 /\ refresh[u].at \notin {"sent", "served"}
                        /\ login[u] = "sent" => u = t
    BY <1>0, <2>3 DEF Family, Logins
  <2>7. Held' \subseteq {issued + 1}
    BY <2>2, <2>3, <2>5, <2>6 DEF Held, Elsewhere
  <2>8. Kin'
    BY <2>7 DEF Kin
  <2>9. Logins'
    <3>1. \A u \in Tabs : login'[u] # "sent"
      BY <2>2, <2>5, <2>6 DEF Elsewhere
    <3> QED BY <3>1 DEF Logins
  <2>10. FamilyIn(t)'
    BY <1>f, <2>3, <2>4, <2>5, <2>6 DEF FamilyIn
  <2> QED BY <1>0, <1>g, <2>2, <2>8, <2>9, <2>10, FamilyQuiet
<1>16. ASSUME NEW t \in Tabs, LoginFails(t) PROVE Family'
  <2>1. Page(t)
    BY <1>16 DEF Page, Refresh, CallStep
  <2>2. Elsewhere(t)
    BY <1>0, <2>1, Others DEF Known
  <2>3. cookie' = cookie /\ page'[t] = page[t] /\ token'[t] = token[t] /\ profile'[t] = profile[t] /\ asking'[t] = asking[t] /\ refresh'[t] = refresh[t]
    BY <1>16 DEF LoginFails, browser, store, work
  <2>4. login'[t] = "idle"
    BY <1>0, <1>16 DEF LoginFails, Known, Typed
  <2>5. FamilyIn(t)'
    BY <1>0, <1>g, <1>f, <2>3, <2>4, FamilyKept
  <2> QED BY <1>0, <1>g, <2>2, <2>3, <2>4, <2>5, FamilyStill
<1>17. ASSUME NEW t \in Tabs, LogoutEnds(t) PROVE Family'
  <2>1. Page(t)
    BY <1>17 DEF Page, Refresh, CallStep
  <2>2. Elsewhere(t)
    BY <1>0, <2>1, Others DEF Known
  <2>3. cookie' \in {cookie, 0} /\ refresh'[t] = refresh[t] /\ login'[t] = login[t]
    BY <1>17 DEF LogoutEnds, browser, store, work
  <2>4. page'[t] = "left" /\ token'[t] = 0
    BY <1>0, <1>17 DEF LogoutEnds, Known, Typed
  <2>5. FamilyIn(t)'
    BY <2>4 DEF FamilyIn
  <2> QED BY <1>0, <1>g, <2>2, <2>3, <2>4, <2>5, FamilyStill
<1>18. ASSUME NEW t \in Tabs, NEW c \in Calls \cup {Me}, CallSettled(t, c) PROVE Family'
  <2>1. Page(t)
    BY <1>18 DEF Page, Refresh, CallStep
  <2>2. Elsewhere(t)
    BY <1>0, <2>1, Others DEF Known
  <2>3. cookie' = cookie /\ token'[t] = token[t] /\ refresh'[t] = refresh[t]
    BY <1>18 DEF CallSettled, browser, store, work
  <2>4. (login'[t] = "sent" => login[t] = "sent")
        /\ (page'[t] \in {"profile", "open"} => page[t] \in {"profile", "open"})
    BY <1>0, <1>18 DEF CallSettled, Known, Typed, Continue
  <2>5. asking'[t] \in {asking[t], 0}
    BY <1>0, <1>18 DEF CallSettled, Known, Typed
  <2>6. profile'[t] = profile[t] \/ (asking[t] # 0 /\ profile'[t] = root[asking[t]])
    BY <1>0, <1>18 DEF CallSettled, Known, Typed, Accepted
  <2>7. /\ token[t] # 0 => root'[token[t]] = root[token[t]]
        /\ asking[t] # 0 => root'[asking[t]] = root[asking[t]]
    BY <1>0, <1>g, Holdings DEF Grown
  <2>8. FamilyIn(t)
    BY <1>f
  <2>9. FamilyIn(t)'
    BY <2>3, <2>4, <2>5, <2>6, <2>7, <2>8 DEF FamilyIn
  <2> QED BY <1>0, <1>g, <2>2, <2>3, <2>4, <2>5, <2>6, <2>7, <2>8, <2>9, FamilyStill
<1>19. ASSUME NEW t \in Tabs, NEW c \in Calls \cup {Me}, CallQueued(t, c) PROVE Family'
  <2>1. Page(t)
    BY <1>19 DEF Page, Refresh, CallStep
  <2>2. Elsewhere(t)
    BY <1>0, <2>1, Others DEF Known
  <2>3. cookie' = cookie /\ page'[t] = page[t] /\ token'[t] = token[t] /\ profile'[t] = profile[t] /\ asking'[t] = asking[t] /\ refresh'[t] = refresh[t] /\ login'[t] = login[t]
    BY <1>19 DEF CallQueued, browser, store, work
  <2>4. FamilyIn(t)'
    BY <1>0, <1>g, <1>f, <2>3, FamilyKept
  <2> QED BY <1>0, <1>g, <2>2, <2>3, <2>4, FamilyStill
<1>20. ASSUME NEW t \in Tabs, NEW c \in Calls \cup {Me}, CallStartsRefresh(t, c) PROVE Family'
  <2>1. Page(t)
    BY <1>20 DEF Page, Refresh, CallStep
  <2>2. Elsewhere(t)
    BY <1>0, <2>1, Others DEF Known
  <2>3. cookie' = cookie /\ login' = login /\ token'[t] = token[t] /\ profile'[t] = profile[t] /\ asking'[t] = asking[t]
    BY <1>20 DEF CallStartsRefresh, browser, store, work
  <2>4. \/ refresh'[t].at = "waiting"
        \/ refresh'[t].at = "sent" /\ refresh'[t].tok = cookie /\ ~LoginUnderWay
    BY <1>0, <1>20, Requested DEF CallStartsRefresh, RefreshBecomes, Known, Mixed
  <2>5. FamilyIn(t)'
    <3>1. page'[t] = page[t]
      BY <1>20 DEF CallStartsRefresh, store
    <3> QED BY <1>0, <1>g, <1>f, <2>3, <2>4, <3>1, FamilyKept
  <2>6. CASE refresh'[t].at = "waiting"
    BY <1>0, <1>g, <2>2, <2>3, <2>5, <2>6, FamilyStill
  <2>7. CASE refresh'[t].at = "sent" /\ refresh'[t].tok = cookie /\ ~LoginUnderWay
    BY <1>0, <1>g, <2>2, <2>3, <2>5, <2>7, FamilySent
  <2> QED BY <2>4, <2>6, <2>7
<1>21. CASE UNCHANGED vars
  <2>1. cookie' = cookie /\ UNCHANGED <<page, token, profile, asking, refresh, login>>
    BY <1>21 DEF vars, browser, store, work
  <2>2. Held' = Held
    BY <2>1 DEF Held
  <2>3. Kin'
    BY <1>0, <1>g, <2>2, KinKept DEF Family
  <2>4. Logins'
    BY <1>0, <2>1 DEF Family, Logins
  <2>5. \A u \in Tabs : FamilyIn(u)'
    BY <1>0, <1>g, <2>1, FamilyKept DEF Family
  <2> QED BY <2>3, <2>4, <2>5 DEF Family
<1> QED BY <1>1, <1>2, <1>3, <1>4, <1>5, <1>6, <1>7, <1>8, <1>9, <1>10, <1>11, <1>12, <1>13, <1>14, <1>15, <1>16, <1>17, <1>18, <1>19, <1>20, <1>21
     DEF Next, Server, User, Page, Refresh, CallStep

------------------------------------------------------------------------------
(* The inductive invariant.                                                *)

IInv ==
  /\ Known /\ OneWaits
  /\ locks /\ "lost" \notin happened => Newests
  /\ locks /\ Unharmed => Accepts
  /\ "mixed" \notin happened => Family

LEMMA Begin ==
  ASSUME Init
  PROVE  IInv
<1>1. Typed
  <2>1. issued \in Num /\ cookie \in Num /\ open \subseteq Token
    BY ClientAssumption DEF Init, Num, Token
  <2>2. root \in [Token -> Num]
    <3>1. \A k \in Token : (IF k <= issued THEN 1 ELSE 0) \in Num
      BY ClientAssumption DEF Token, Num
    <3> QED BY <3>1 DEF Init
  <2>3. /\ strays \subseteq Num /\ locks \in LockSupport /\ holder \in Tabs \cup {None}
        /\ ahead \in [Tabs -> SUBSET Tabs] /\ happened \subseteq Events
    BY DEF Init
  <2>4. /\ page \in [Tabs -> PageAt] /\ login \in [Tabs -> LoginAt]
        /\ token \in [Tabs -> Num] /\ profile \in [Tabs -> Num] /\ asking \in [Tabs -> Num]
    BY Sets DEF Init
  <2>5. /\ refreshing \in [Tabs -> BOOLEAN] /\ refresh \in [Tabs -> RefreshRec]
        /\ logout \in [Tabs -> LogoutRec]
    BY Recorded DEF Init
  <2>6. calls \in [Tabs -> CallRec]
    <3>1. [c \in All |-> "idle"] \in CallRec
      BY Sets DEF CallRec
    <3> QED BY <3>1 DEF Init, All
  <2> QED BY <2>1, <2>2, <2>3, <2>4, <2>5, <2>6 DEF Typed
<1>2. /\ \A t \in Tabs : /\ page[t] = "closed" /\ token[t] = 0 /\ profile[t] = 0
                         /\ ~refreshing[t] /\ refresh[t] = Idle /\ asking[t] = 0
                         /\ login[t] = "idle" /\ logout[t] = Idle
                         /\ \A c \in All : calls[t][c] = "idle"
      /\ Idle.at = "idle" /\ Idle.tok = 0
  BY Recorded DEF Init, All
<1>3. /\ issued \in {0, 1} /\ issued <= MaxTokens /\ cookie = issued
      /\ \A k \in 1..issued : k = 1 /\ root[k] = 1
      /\ \A k \in Token : root[k] = IF k <= issued THEN 1 ELSE 0
      /\ open = 1..issued
  BY ClientAssumption DEF Init, Token
<1>4. ServerSound
  <2>1. \A k \in Token : root[k] # 0 <=> k <= issued
    BY <1>3
  <2>2. \A k \in 1..issued : root[k] <= k /\ root[root[k]] = root[k]
    BY <1>3
  <2>3. open \subseteq {k \in 1..issued : root[k] = k}
    BY <1>3
  <2> QED BY <2>1, <2>2, <2>3 DEF ServerSound
<1>5. cookie <= issued /\ \A t \in Tabs : HeldSound(t)
  BY <1>2, <1>3 DEF HeldSound
<1>6. \A t \in Tabs : PageSound(t)
  BY <1>2 DEF PageSound
<1>7. LockInv
  BY <1>2, ClientAssumption DEF LockInv, InFlight, Init
<1>8. Known
  BY <1>1, <1>4, <1>5, <1>6, <1>7 DEF Known
<1>9. OneWaits
  BY <1>2 DEF OneWaits
<1>10. Newests
  <2>1. cookie = 0 \/ Newest(cookie)
    BY <1>3 DEF Newest
  <2> QED BY <1>2, <2>1 DEF Newests, Init
<1>11. Accepts
  <2>1. \A k \in 1..issued : root[k] \in open
    BY <1>3
  <2> QED BY <1>2, <1>3, <2>1 DEF Accepts, AcceptedIn
<1>12. Family
  <2>1. Held \subseteq {1}
    BY <1>2, <1>3 DEF Held
  <2>2. Kin
    BY <2>1 DEF Kin
  <2> QED BY <1>2, <2>2 DEF Family, Logins, FamilyIn
<1> QED BY <1>8, <1>9, <1>10, <1>11, <1>12 DEF IInv

LEMMA Step ==
  ASSUME IInv, [Next]_vars
  PROVE  IInv'
<1>1. Known /\ OneWaits /\ Typed /\ ServerSound /\ LockInv /\ cookie <= issued
      /\ (\A s \in Tabs : PageSound(s)) /\ (\A s \in Tabs : HeldSound(s))
  BY DEF IInv, Known
<1>2. Known'
  <2>1. Typed'
    BY <1>1, TypeStep
  <2>2. ServerSound'
    BY <1>1, ServerStep
  <2>3. LockInv'
    BY <1>1, LockStep
  <2>4. \A s \in Tabs : PageSound(s)'
    BY <1>1, PageStep
  <2>5. cookie' <= issued' /\ \A s \in Tabs : HeldSound(s)'
    BY <1>1, HeldStep
  <2> QED BY <2>1, <2>2, <2>3, <2>4, <2>5 DEF Known
<1>3. OneWaits'
  BY <1>1, PageInvSound, WaitStep
<1>4. locks' = locks /\ happened \subseteq happened'
  BY <1>1, SteadyStep DEF Steady
<1>5. ASSUME locks', "lost" \notin happened'
      PROVE  Newests'
  <2>1. locks /\ Newests
    BY <1>4, <1>5 DEF IInv
  <2> QED BY <1>1, <1>5, <2>1, NewestStep, NewestsAfter
<1>6. ASSUME locks', Unharmed'
      PROVE  Accepts'
  <2>1. locks /\ Unharmed /\ "lost" \notin happened
    BY <1>4, <1>6 DEF Unharmed
  <2>2. Newests /\ Accepts
    BY <2>1 DEF IInv
  <2> QED BY <1>1, <1>6, <2>1, <2>2, AcceptStep
<1>7. ASSUME "mixed" \notin happened'
      PROVE  Family'
  <2>1. Family
    BY <1>4, <1>7 DEF IInv
  <2> QED BY <1>1, <1>7, <2>1, FamilyStep
<1> QED BY <1>2, <1>3, <1>5, <1>6, <1>7 DEF IInv

LEMMA Counted ==
  ASSUME OneWaits, \A s \in Tabs : PageSound(s)
  PROVE  NoCallStranded
<1>1. ASSUME NEW t \in Tabs, NEW c \in All, calls[t][c] \in {"waits", "queued"}
      PROVE  refreshing[t]
  BY <1>1 DEF OneWaits
<1>2. ASSUME NEW t \in Tabs, refreshing[t]
      PROVE  refresh[t].at # "idle"
  BY <1>2 DEF PageSound
<1>3. ASSUME NEW t \in Tabs, refreshing[t]
      PROVE  Cardinality({c \in All : calls[t][c] = "waits"}) = 1
  <2>1. PICK c \in All : calls[t][c] = "waits"
    BY <1>3 DEF OneWaits
  <2>2. {d \in All : calls[t][d] = "waits"} = {c}
    BY <2>1 DEF OneWaits
  <2> QED BY <2>2, FS_Singleton
<1> QED BY <1>1, <1>2, <1>3 DEF NoCallStranded, All

LEMMA Consequences ==
  ASSUME IInv
  PROVE  /\ ClientInv /\ NoCallStranded /\ SelfReplayNeedsLoss /\ RedirectNeedsCause
         /\ ProfileMatchesToken
<1>1. TypeOK /\ LockInv
  BY TypedIsTypeOK DEF IInv, Known
<1>2. TokenInv
  BY TokenInvSound DEF IInv, Known
<1>3. PageInv
  BY PageInvSound DEF IInv, Known
<1>4. NoCallStranded
  BY Counted DEF IInv, Known
<1>5. NewestInv
  BY DEF IInv, Newests, NewestInv
<1>6. AcceptedInv
  BY AcceptedInvSound DEF IInv
<1>7. FamilyInv
  BY FamilyInvSound DEF IInv
<1>8. SelfReplayNeedsLoss
  BY DEF IInv, Newests, SelfReplayNeedsLoss
<1>9. RedirectNeedsCause
  BY DEF IInv, Accepts, AcceptedIn, Unharmed, RedirectNeedsCause
<1>10. ProfileMatchesToken
  BY DEF IInv, Family, FamilyIn, ProfileMatchesToken
<1> QED BY <1>1, <1>2, <1>3, <1>4, <1>5, <1>6, <1>7, <1>8, <1>9, <1>10 DEF ClientInv

LEMMA Inductive == Spec => []IInv
<1>1. Init => IInv
  BY Begin
<1>2. IInv /\ [Next]_vars => IInv'
  BY Step
<1> QED BY <1>1, <1>2, PTL DEF Spec

(* What the tabs of a browser and the server know of each other: types, the *)
(* lock, the tokens, what waits for what, and until the first mishap that  *)
(* the browser holds the newest token of one open family                   *)
(* (frontend/src/lib/api.ts, store/auth.ts, use-auth.ts).                  *)
THEOREM ClientInvariant == Spec => []ClientInv
BY Inductive, Consequences, PTL

(* No interleaving of 401s, refresh answers and sign-outs leaves a call in *)
(* failedQueue with nobody to settle it (the interceptor of api.ts).       *)
THEOREM CallsAreWaitedFor == Spec => []NoCallStranded
BY Inductive, Consequences, PTL

(* With Web Locks, the tabs of a browser spend a refresh token twice only  *)
(* after an answer was lost (refreshAccessToken and requestNewAccessToken). *)
THEOREM ReplayNeedsALoss == Spec => []SelfReplayNeedsLoss
BY Inductive, Consequences, PTL

(* With Web Locks, a signed-in page is sent to the login page only if an   *)
(* answer was lost, a session was ended or a late refusal cleared the      *)
(* cookie of a newer login (redirectToLogin).                              *)
THEOREM RedirectNeedsACause == Spec => []RedirectNeedsCause
BY Inductive, Consequences, PTL

(* A page shows the user and permissions of the account its token belongs  *)
(* to, unless a login met another session of the browser (fetchProfile and *)
(* login of use-auth.ts, the interceptor's use of the store's token).      *)
THEOREM ProfileIsTheTokens == Spec => []ProfileMatchesToken
BY Inductive, Consequences, PTL

------------------------------------------------------------------------------
(* The server the pages meet keeps the promise.                            *)

Offered(r) == {k \in 1..issued : root[k] = r /\ Exchangeable(k)}
OfferedThen(r) ==
  {k \in 1..issued' : root'[k] = r /\ k # 0 /\ root'[k] \in open' /\ NewestThen(k)}

LEMMA OfferedAfter == \A r : OfferedThen(r) = Offered(r)'
BY DEF Offered, OfferedThen, Exchangeable, Newest, NewestThen

(* An exchange, a login, or nothing but sessions that end. *)
LEMMA ServerTurns ==
  ASSUME Typed, [Next]_vars
  PROVE  \/ \E k \in Num : Rotate(k)
         \/ \E t \in Tabs : LoginAnswered(t)
         \/ UNCHANGED <<issued, root>> /\ open' \subseteq open
<1>1. CASE UNCHANGED vars
  BY <1>1 DEF vars, server
<1>2. CASE Server
  <2>1. ASSUME NEW k \in Num, Refuse(k)
        PROVE  UNCHANGED <<issued, root>> /\ open' \subseteq open
    BY <2>1 DEF Refuse, EndFamily
  <2>2. ASSUME NEW t \in Tabs, ServeRefresh(t)
        PROVE  \E k \in Num : Rotate(k) \/ Refuse(k)
    <3>1. refresh[t].tok \in Num
      BY Recorded DEF Typed
    <3> QED BY <2>2, <3>1 DEF ServeRefresh
  <2>3. ASSUME NEW k \in strays, ServeStray(k)
        PROVE  k \in Num /\ (Rotate(k) \/ Refuse(k))
    BY <2>3 DEF ServeStray, Typed
  <2> QED BY <1>2, <2>1, <2>2, <2>3 DEF Server, EndSession
<1>3. CASE \E t \in Tabs : User(t)
  BY <1>3 DEF User, OpenPage, ClosePage, Login, Logout, Call, server
<1>4. CASE \E t \in Tabs : Refresh(t)
  BY <1>4 DEF Refresh, Grant, RefreshAnswered, RefreshLost, RefreshDone, RefreshFailed,
              Restored, server
<1>5. CASE \E t \in Tabs, c \in Calls \cup {Me} : CallStep(t, c)
  BY <1>5 DEF CallStep, CallSettled, CallQueued, CallStartsRefresh, server
<1>6. CASE \E t \in Tabs : LoginFails(t) \/ LogoutEnds(t)
  BY <1>6 DEF LoginFails, LogoutEnds, EndFamily, server
<1> QED BY <1>1, <1>2, <1>3, <1>4, <1>5, <1>6 DEF Next, Page

(* A token that joins a family becomes what that family alone offers. *)
LEMMA OfferReplaced ==
  ASSUME Typed, ServerSound, Grown, NEW r, r \in open', issued' = issued + 1,
         root'[issued + 1] = r, open' \subseteq open \cup {r}, open \subseteq open'
  PROVE  /\ OfferedThen(r) = {issued + 1}
         /\ \A s : s # r => OfferedThen(s) = Offered(s)
<1>1. /\ issued \in Nat
      /\ \A j : j \in 1..issued' <=> j \in 1..issued \/ j = issued + 1
      /\ \A j \in 1..issued : j # 0 /\ j # issued + 1 /\ j < issued + 1
  BY Issued
<1>2. NewestThen(issued + 1)
  BY NewestAdded
<1>3. issued + 1 \in OfferedThen(r)
  BY <1>1, <1>2 DEF OfferedThen
<1>4. ASSUME NEW j \in OfferedThen(r) PROVE j = issued + 1
  <2>1. j \in 1..issued' /\ root'[j] = r /\ NewestThen(j)
    BY DEF OfferedThen
  <2>2. issued + 1 \in 1..issued' /\ root'[issued + 1] = root'[j]
    BY <1>1, <2>1
  <2>3. issued + 1 <= j
    BY <2>1, <2>2 DEF NewestThen
  <2> QED BY <1>1, <2>1, <2>3
<1>5. ASSUME NEW s, s # r PROVE OfferedThen(s) = Offered(s)
  <2>1. ASSUME NEW j \in OfferedThen(s) PROVE j \in Offered(s)
    <3>1. j \in 1..issued' /\ root'[j] = s /\ s \in open' /\ NewestThen(j)
      BY DEF OfferedThen
    <3>2. j \in 1..issued /\ root[j] = s /\ s \in open
      BY <1>1, <1>5, <3>1 DEF Grown
    <3>3. Newest(j)
      BY <1>1, <3>1, <3>2 DEF Newest, NewestThen, Grown
    <3> QED BY <1>1, <3>2, <3>3 DEF Offered, Exchangeable
  <2>2. ASSUME NEW j \in Offered(s) PROVE j \in OfferedThen(s)
    <3>1. j \in 1..issued /\ root[j] = s /\ s \in open /\ Newest(j)
      BY DEF Offered, Exchangeable
    <3>2. NewestThen(j)
      BY <1>5, <3>1, NewestKept
    <3> QED BY <1>1, <3>1, <3>2 DEF OfferedThen, Grown
  <2> QED BY <2>1, <2>2
<1> QED BY <1>3, <1>4, <1>5

LEMMA ServerExchange ==
  ASSUME Typed, ServerSound, NEW k \in Num, Rotate(k)
  PROVE  Promise!PromiseNext
<1>1. /\ k \in 1..issued /\ root[k] \in open /\ Newest(k)
      /\ issued + 1 \in Token /\ issued' = issued + 1 /\ Grown
      /\ root'[issued + 1] = root[k] /\ open' = open
  BY Rotated
<1>2. /\ issued \in Nat /\ 1..issued \subseteq Token
      /\ \A j \in 1..issued : root[j] \in 1..issued
      /\ issued + 1 \notin 1..issued /\ 1..issued' = 1..issued \cup {issued + 1}
  BY <1>1, Issued
<1>3. /\ OfferedThen(root[k]) = {issued + 1}
      /\ \A s : s # root[k] => OfferedThen(s) = Offered(s)
  BY <1>1, OfferReplaced
<1>4. Offered(root[k]) = {k}
  <2>1. k \in Offered(root[k])
    BY <1>1, <1>2 DEF Offered, Exchangeable
  <2>2. ASSUME NEW j \in Offered(root[k]) PROVE j = k
    <3>1. j \in 1..issued /\ root[j] = root[k] /\ Newest(j)
      BY DEF Offered, Exchangeable
    <3>2. j <= k /\ k <= j
      BY <1>1, <3>1 DEF Newest
    <3> QED BY <1>1, <1>2, <3>1, <3>2
  <2> QED BY <2>1, <2>2
<1>5. {root'[j] : j \in 1..issued'} = {root[j] : j \in 1..issued}
  BY <1>1, <1>2 DEF Grown
<1>6. [r \in Token |-> OfferedThen(r)]
        = [[r \in Token |-> Offered(r)] EXCEPT ![root[k]] = {issued + 1}]
  BY <1>3
<1>7. PICK f \in Token, n \in Token : f = root[k] /\ n = issued + 1
  BY <1>1, <1>2
<1>8. Promise!Exchange(f, k, n)
  <2>1. [r \in Token |-> Offered(r)]' = [r \in Token |-> OfferedThen(r)]
    BY OfferedAfter
  <2>2. root[k] \in Token
    BY <1>1, <1>2
  <2>3. /\ [r \in Token |-> Offered(r)][root[k]] = {k}
        /\ [r \in Token |-> Offered(r)]'
             = [[r \in Token |-> Offered(r)] EXCEPT ![root[k]] = {issued + 1}]
    BY <1>4, <1>6, <2>1, <2>2
  <2> QED BY <1>2, <1>5, <1>7, <2>3 DEF Promise!Exchange, Offered
<1>9. k \in Token
  BY <1>1, <1>2
<1> QED BY <1>8, <1>9 DEF Promise!PromiseNext

LEMMA ServerBegin ==
  ASSUME Typed, ServerSound, NEW t \in Tabs, LoginAnswered(t)
  PROVE  Promise!PromiseNext
<1>1. /\ issued + 1 \in Token /\ issued' = issued + 1 /\ Grown
      /\ root'[issued + 1] = issued + 1 /\ open' = open \cup {issued + 1}
  BY NewFamily
<1>2. /\ issued \in Nat /\ 1..issued \subseteq Token
      /\ \A j \in 1..issued : root[j] \in 1..issued
      /\ issued + 1 \notin 1..issued /\ 1..issued' = 1..issued \cup {issued + 1}
  BY <1>1, Issued
<1>3. /\ OfferedThen(issued + 1) = {issued + 1}
      /\ \A s : s # issued + 1 => OfferedThen(s) = Offered(s)
  BY <1>1, OfferReplaced
<1>4. {root'[j] : j \in 1..issued'} = {root[j] : j \in 1..issued} \cup {issued + 1}
  BY <1>1, <1>2 DEF Grown
<1>5. issued + 1 \notin {root[j] : j \in 1..issued}
  BY <1>2
<1>6. [r \in Token |-> Offered(r)]'
        = [[r \in Token |-> Offered(r)] EXCEPT ![issued + 1] = {issued + 1}]
  BY <1>3, OfferedAfter
<1>7. PICK n \in Token : n = issued + 1
  BY <1>1
<1>8. Promise!Begin(n, n)
  BY <1>2, <1>4, <1>5, <1>6, <1>7 DEF Promise!Begin, Offered
<1> QED BY <1>8 DEF Promise!PromiseNext

LEMMA ServerEnd ==
  ASSUME Typed, ServerSound, UNCHANGED <<issued, root>>, open' \subseteq open
  PROVE  Promise!PromiseNext
<1>0. PICK E \in SUBSET Token : E = {r \in Token : r \notin open'}
  OBVIOUS
<1>1. ASSUME NEW r \in Token PROVE OfferedThen(r) = IF r \in E THEN {} ELSE Offered(r)
  <2>1. \A k : NewestThen(k) <=> Newest(k)
    BY DEF Newest, NewestThen
  <2>2. CASE r \in E
    BY <1>0, <2>2 DEF OfferedThen
  <2>3. CASE r \notin E
    BY <1>0, <2>1, <2>3 DEF OfferedThen, Offered, Exchangeable
  <2> QED BY <2>2, <2>3
<1>2. [r \in Token |-> Offered(r)]'
        = [r \in Token |-> IF r \in E THEN {} ELSE [s \in Token |-> Offered(s)][r]]
  BY <1>1, OfferedAfter
<1>3. Promise!End(E)
  BY <1>2 DEF Promise!End, Offered
<1> QED BY <1>3 DEF Promise!PromiseNext

LEMMA PromisedStep == ASSUME IInv, [Next]_vars PROVE Promise!PromiseNext
<1>1. Typed /\ ServerSound
  BY DEF IInv, Known
<1> QED BY <1>1, ServerTurns, ServerExchange, ServerBegin, ServerEnd

(* Whatever the pages send, lose and repeat, the server they meet takes    *)
(* only the steps RefreshSessions is proved to take: SessionPromise joins  *)
(* the two halves of a session.                                            *)
THEOREM ServerIsPromised == Spec => ServerKeepsPromise
<1>1. IInv /\ [Next]_vars => [Promise!PromiseNext]_(Promise!promiseVars)
  BY PromisedStep
<1> QED BY <1>1, Inductive, PTL DEF Spec, ServerKeepsPromise

(* So for the browser too what has ended stays ended: no reload, no second *)
(* tab and no request of a closed page brings a session back.              *)
THEOREM EndedForPages == Spec => Promise!EndedForGood
<1> DEFINE OverFor(r) ==
      r \in {root[k] : k \in 1..issued} /\ Offered(r) = {} => Offered(r)' = {}
<1>1. ASSUME IInv, [Next]_vars, NEW r \in Token PROVE OverFor(r)
  <2>1. CASE \E f \in Token, j \in Token : Promise!Begin(f, j)
    BY <2>1 DEF Promise!Begin, Offered
  <2>2. CASE \E f \in Token, j, k \in Token : Promise!Exchange(f, j, k)
    BY <2>2 DEF Promise!Exchange, Offered
  <2>3. CASE \E E \in SUBSET Token : Promise!End(E)
    BY <2>3 DEF Promise!End, Offered
  <2>4. CASE UNCHANGED Promise!promiseVars
    BY <2>4 DEF Promise!promiseVars, Offered
  <2> QED BY <1>1, <2>1, <2>2, <2>3, <2>4, PromisedStep DEF Promise!PromiseNext
<1>2. IInv /\ [Next]_vars => [Promise!StaysEnded]_(Promise!promiseVars)
  BY <1>1 DEF Promise!StaysEnded, Offered
<1> QED BY <1>2, Inductive, PTL DEF Spec, Promise!EndedForGood

=============================================================================
