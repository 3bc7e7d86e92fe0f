------------------------------ MODULE LoginPath ------------------------------
(***************************************************************************)
(* The login endpoint from hit to clear, with the gate in between: a login *)
(* that the limiter admitted verifies its password in a thread it may have *)
(* to queue for, beside registrations, changes and resets of passwords,    *)
(* which pass the same gate.                                               *)
(***************************************************************************)
EXTENDS LoginFailures, PasswordGate

ASSUME PathAssumption == Logins \subseteq Callers

VARIABLE checked   \* logins a thread has answered, which may succeed

pathVars == <<historyVars, gateVars, checked>>

PathInit == HistoryInit /\ GateInit /\ checked = {}

\* A login is refused by the limiter, or admitted to authenticate_user.
Knock ==
    /\ \E ip \in IPs, id \in Ids : Refused(ip, id) \/ \E c \in Logins : Admitted(c, ip, id)
    /\ UNCHANGED <<failed, gateVars, checked>>

\* A caller goes through the gate; a login may do so again when the hash it had
\* verified has changed.
Verify(c) ==
    /\ c \in Logins => logins[c] # None
    /\ Acquire(c) \/ Resumed(c) \/ WaitCancelled(c)
    /\ UNCHANGED <<historyVars, checked>>

Verified(c) ==
    /\ ThreadEnded(c)
    /\ checked' = checked \cup ({c} \cap Logins)
    /\ UNCHANGED historyVars

\* The gate is overloaded or the client has gone: the request ends before clear.
Dropped(c) ==
    /\ Left(c) \/ PermitReturned(c) \/ Detached(c)
    /\ IF c \in Logins THEN FailureSeen(c) ELSE UNCHANGED historyVars
    /\ checked' = checked \ {c}

\* A login that is in no thread succeeds, once one has answered, or fails.
Answered(c) ==
    /\ at[c] = "outside"
    /\ \/ c \in checked /\ Succeeded(c) /\ UNCHANGED failed
       \/ FailureSeen(c)
    /\ checked' = checked \ {c}
    /\ UNCHANGED gateVars

PathRestart == RestartSeen /\ GateRestart /\ checked' = {}

PathNext ==
    \/ Knock
    \/ \E c \in Callers : Verify(c) \/ Verified(c) \/ Dropped(c)
    \/ \E c \in Logins : Answered(c)
    \/ OrphanEnded /\ UNCHANGED <<historyVars, checked>>
    \/ Tick /\ UNCHANGED <<failed, gateVars, checked>>
    \/ PathRestart

PathSpec == PathInit /\ [][PathNext]_pathVars
=============================================================================
