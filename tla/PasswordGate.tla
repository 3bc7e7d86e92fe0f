---------------------------- MODULE PasswordGate ----------------------------
(***************************************************************************)
(* The gate in front of the password threads, _run_password_work of        *)
(* core/security.py: a permit of an asyncio.Semaphore is taken with a      *)
(* bounded wait and kept until the thread ends, also when the request that *)
(* started it has gone.                                                    *)
(*                                                                         *)
(* The event loop runs one callback at a time, so what a coroutine does    *)
(* between two awaits is one action.  The order of the semaphore's queue   *)
(* is not modelled: whoever waits may be woken.                            *)
(***************************************************************************)
EXTENDS Integers, FiniteSets

CONSTANTS
    Callers,   \* requests that hash or verify a password, one at a time each
    Permits    \* PASSWORD_HASH_MAX_CONCURRENCY

ASSUME GateAssumption == IsFiniteSet(Callers) /\ Permits \in Nat \ {0}

VARIABLES
    at,        \* where each caller is
    free,      \* Semaphore._value
    orphans    \* threads that run on for a request that has gone

gateVars == <<at, free, orphans>>

\* queued, woken: its future waits in the semaphore, or is set and it has not
\* run since.  leaving: its future is cancelled.
Places == {"outside", "queued", "woken", "leaving", "working"}

\* Those at one of the places, given where everybody is.
In(where, places) == {c \in Callers : where[c] \in places}

\* Those who have a permit, and how many they are.
Holding(where) == In(where, {"woken", "working"})
Held == Cardinality(Holding(at))

GateInit ==
    /\ at = [c \in Callers |-> "outside"]
    /\ free = Permits
    /\ orphans = 0

-----------------------------------------------------------------------------
\* With n permits free, at most k of those who wait get one.
Wake(where, n, k) ==
    LET queue == In(where, {"queued"}) IN
    \E woken \in SUBSET queue :
        /\ Cardinality(woken) =< k
        /\ Cardinality(woken) = k \/ woken = queue
        /\ at' = [c \in Callers |-> IF c \in woken THEN "woken" ELSE where[c]]
        /\ free' = n - Cardinality(woken)

\* Nobody overtakes a future that is not cancelled.
Locked == free = 0 \/ In(at, {"queued", "woken"}) # {}

Acquire(c) ==
    /\ at[c] = "outside"
    /\ \/ /\ ~Locked
          /\ at' = [at EXCEPT ![c] = "working"] /\ free' = free - 1
       \/ /\ Locked
          /\ at' = [at EXCEPT ![c] = "queued"] /\ UNCHANGED free
    /\ UNCHANGED orphans

\* acquire returns and the thread is started; permits that came back while
\* others queued behind this caller are passed on.
Resumed(c) ==
    /\ at[c] = "woken"
    /\ Wake([at EXCEPT ![c] = "working"], free, free)
    /\ UNCHANGED orphans

\* The timeout, or the request is cancelled ...
WaitCancelled(c) ==
    /\ at[c] = "queued"
    /\ at' = [at EXCEPT ![c] = "leaving"]
    /\ UNCHANGED <<free, orphans>>

\* ... and acquire raises.
Left(c) ==
    /\ at[c] = "leaving"
    /\ Wake([at EXCEPT ![c] = "outside"], free, free)
    /\ UNCHANGED orphans

\* Cancelled after it was woken, or no task could be created: the permit it was
\* given goes back.
PermitReturned(c) ==
    /\ at[c] = "woken"
    /\ Wake([at EXCEPT ![c] = "outside"], free + 1, free + 1)
    /\ UNCHANGED orphans

\* The done callback of the thread's task releases; the caller goes on.
ThreadEnded(c) ==
    /\ at[c] = "working"
    /\ Wake([at EXCEPT ![c] = "outside"], free + 1, 1)
    /\ UNCHANGED orphans

\* mutant: the permit is released where the thread is awaited
DetachedReleasing(c) ==
    /\ at[c] = "working"
    /\ Wake([at EXCEPT ![c] = "outside"], free + 1, 1)
    /\ orphans' = orphans + 1

\* The request is cancelled; shield leaves its thread alone.
Detached(c) ==
    /\ at[c] = "working"
    /\ at' = [at EXCEPT ![c] = "outside"]
    /\ orphans' = orphans + 1
    /\ UNCHANGED free

OrphanEnded ==
    /\ orphans > 0 /\ orphans' = orphans - 1
    /\ Wake(at, free + 1, 1)

\* A new process has a new semaphore.
GateRestart ==
    /\ at' = [c \in Callers |-> "outside"]
    /\ free' = Permits
    /\ orphans' = 0

GateNext ==
    \/ \E c \in Callers :
          \/ Acquire(c) \/ Resumed(c) \/ WaitCancelled(c) \/ Left(c)
          \/ PermitReturned(c) \/ ThreadEnded(c) \/ Detached(c)
    \/ OrphanEnded \/ GateRestart

GateSpec == GateInit /\ [][GateNext]_gateVars

-----------------------------------------------------------------------------
GateTypeOK ==
    /\ at \in [Callers -> Places]
    /\ free \in Nat /\ orphans \in Nat

\* A permit is free, with a caller that was woken or works, or with a thread
\* whose request has gone: none is lost or returned twice by a timeout, a
\* disconnect or both, so that no more threads run than there are permits.
PermitsConserved == free + Held + orphans = Permits

\* And none lies idle while somebody waits: if one is free, a caller was woken
\* that will pass it on.
NoPermitIdle ==
    free > 0 /\ In(at, {"queued"}) # {} => In(at, {"woken"}) # {}

GateInv == GateTypeOK /\ PermitsConserved /\ NoPermitIdle
=============================================================================
