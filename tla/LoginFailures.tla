--------------------------- MODULE LoginFailures ---------------------------
(***************************************************************************)
(* RateLimiter with a history of the logins that failed: what the address  *)
(* window is for.  The history only watches.                               *)
(***************************************************************************)
EXTENDS RateLimiter

VARIABLE failed   \* address -> times of the attempts that failed

historyVars == <<vars, failed>>

HistoryInit ==
    /\ Init
    /\ failed = [ip \in IPs |-> <<>>]

FailureSeen(c) ==
    /\ Failed(c)
    /\ failed' = [failed EXCEPT ![logins[c].ip] = Append(@, logins[c].at)]

RestartSeen ==
    /\ Restart
    /\ failed' = [ip \in IPs |-> <<>>]

OtherSeen ==
    /\ \/ \E ip \in IPs, id \in Ids : Refused(ip, id)
       \/ \E c \in Logins, ip \in IPs, id \in Ids : Admitted(c, ip, id)
       \/ \E c \in Logins : Succeeded(c)
       \/ Tick
    /\ UNCHANGED failed

HistoryNext ==
    \/ \E c \in Logins : FailureSeen(c)
    \/ RestartSeen
    \/ OtherSeen

HistorySpec == HistoryInit /\ [][HistoryNext]_historyVars

-----------------------------------------------------------------------------
\* How often a time still within the window occurs.
Recent(deque, time) ==
    Cardinality({i \in DOMAIN deque : deque[i] = time /\ ~Expired(time)})

\* clear "removes the successful attempt while retaining prior IP failures":
\* every failed attempt of the last window is in the window of its address.
FailuresRetained ==
    \A ip \in IPs, time \in 0..now :
        Recent(failed[ip], time) =< Recent(attempts[IpKey(ip)], time)
=============================================================================
