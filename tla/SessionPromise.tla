--------------------------- MODULE SessionPromise ---------------------------
(***************************************************************************)
(* What a login session promises to its holder, with no clock, no rows and *)
(* no accounts: it begins once, offers one token at a time, every exchange *)
(* replaces that token by a new one, and once it has ended it offers none  *)
(* ever again.  RefreshSessions implements it; the server that the pages   *)
(* of SessionClient meet takes no step but these.                          *)
(***************************************************************************)
CONSTANTS Sessions, Tokens

VARIABLES
    begun,   \* sessions that have begun
    signed,  \* tokens that were ever handed out
    offer    \* session -> the set of tokens it would exchange now

promiseVars == <<begun, signed, offer>>

PromiseInit ==
    /\ begun = {}
    /\ signed = {}
    /\ offer = [s \in Sessions |-> {}]

Begin(s, t) ==
    /\ s \notin begun /\ t \notin signed
    /\ begun' = begun \cup {s}
    /\ signed' = signed \cup {t}
    /\ offer' = [offer EXCEPT ![s] = {t}]

Exchange(s, t, k) ==
    /\ k \notin signed /\ signed' = signed \cup {k}
    /\ offer[s] = {t} /\ offer' = [offer EXCEPT ![s] = {k}]
    /\ UNCHANGED begun

\* Logout, replay, expiry, an account change: any reason, any set of sessions.
End(E) ==
    /\ UNCHANGED <<begun, signed>>
    /\ offer' = [s \in Sessions |-> IF s \in E THEN {} ELSE offer[s]]

PromiseNext ==
    \/ \E E \in SUBSET Sessions : End(E)
    \/ \E s \in Sessions, t \in Tokens : Begin(s, t)
    \/ \E s \in Sessions, t, k \in Tokens : Exchange(s, t, k)

PromiseSpec == PromiseInit /\ [][PromiseNext]_promiseVars

-----------------------------------------------------------------------------
\* A session that has ended stays ended, for every implementation of this
\* module: re-enabling an account or replaying a token brings nothing back.
StaysEnded == \A s \in Sessions : s \in begun /\ offer[s] = {} => offer'[s] = {}

EndedForGood == [][StaysEnded]_promiseVars
=============================================================================
