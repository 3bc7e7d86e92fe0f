---------------------------- MODULE RateLimiter ----------------------------
(***************************************************************************)
(* LoginRateLimiter: three sliding windows for every attempt, in a table   *)
(* of bounded size that gives up the windows unused for longest.           *)
(*                                                                         *)
(* hit and clear hold the limiter's lock and never await inside it, so     *)
(* each is one action; between the two of one login other calls come in.   *)
(***************************************************************************)
EXTENDS Integers, Sequences, FiniteSets

CONSTANTS
    IPs, Ids,          \* client addresses; identifiers after casefold
    Logins,            \* slots for logins past hit
    None,
    Attempts,          \* LOGIN_RATE_LIMIT_ATTEMPTS
    Factor,            \* 5: an address and an account may do more than a pair
    Second,            \* clock ticks in a second
    WindowSeconds,
    MaxEntries,        \* _MAX_ENTRIES
    MaxTime            \* bound on the clock

\* The keys of _entries; HMAC is taken to be injective.
PairKey(ip, id) == [kind |-> "pair", ip |-> ip, id |-> id]
IpKey(ip)       == [kind |-> "ip", ip |-> ip]
AccountKey(id)  == [kind |-> "account", id |-> id]

Keys == {PairKey(ip, id) : ip \in IPs, id \in Ids}
            \cup {IpKey(ip) : ip \in IPs} \cup {AccountKey(id) : id \in Ids}

KeySet(ip, id) == {PairKey(ip, id), IpKey(ip), AccountKey(id)}

Limit(k) == IF k.kind = "pair" THEN Attempts ELSE Attempts * Factor

\* at: when hit recorded the attempt.  The code does not keep it.
Login == [ip : IPs, id : Ids, at : Nat]

ASSUME LimiterAssumption ==
    /\ {Attempts, Factor, Second, WindowSeconds} \subseteq Nat \ {0}
    /\ MaxEntries \in Nat /\ MaxEntries >= 3
    /\ MaxTime \in Nat
    /\ None \notin Login

VARIABLES
    now,       \* monotonic()
    attempts,  \* key -> its deque of times; empty when the key is not in _entries
    older,     \* order of the dict: <<k, l>> if k comes before l
    logins     \* calls between hit and clear

vars == <<now, attempts, older, logins>>

TypeOK ==
    /\ now \in Nat
    /\ attempts \in [Keys -> Seq(Nat)]
    /\ older \subseteq Keys \X Keys
    /\ logins \in [Logins -> Login \cup {None}]

Init ==
    /\ now = 0
    /\ attempts = [k \in Keys |-> <<>>]
    /\ older = {}
    /\ logins = [c \in Logins |-> None]

-----------------------------------------------------------------------------
Window == WindowSeconds * Second
Expired(time) == time + Window =< now

Table(windows) == {k \in Keys : windows[k] # <<>>}
Newest(deque) == deque[Len(deque)]

\* popleft as long as the head is expired.
Pruned(deque) ==
    LET gone == {i \in DOMAIN deque : \A j \in 1..i : Expired(deque[j])} IN
    SubSeq(deque, Cardinality(gone) + 1, Len(deque))

\* The windows of one attempt are pruned before they are counted.
Looked(ip, id) ==
    [k \in Keys |-> IF k \in KeySet(ip, id) THEN Pruned(attempts[k]) ELSE attempts[k]]

Throttled(ip, id) == \E k \in KeySet(ip, id) : Len(Pruned(attempts[k])) >= Limit(k)

\* mutant: rounded down
Floor(ticks) == ticks \div Second

\* Rounded up to seconds, as the header carries it.
Ceiling(ticks) == (ticks + Second - 1) \div Second

\* What a full window asks for, at least a second.
Wait(deque) ==
    LET left == Ceiling(deque[1] + Window - now) IN
    IF left > 1 THEN left ELSE 1

\* wait is the answer to a throttled attempt: the longest of the full windows.
RetryAfter(ip, id, wait) ==
    LET full  == {k \in KeySet(ip, id) : Len(Pruned(attempts[k])) >= Limit(k)}
        waits == {Wait(Pruned(attempts[k])) : k \in full}
    IN wait \in waits /\ \A v \in waits : v =< wait

Only(order, S) == {p \in order : p[1] \in S /\ p[2] \in S}

\* mutant: only the least recently used windows are given up
EvictedOldest(windows, gone) ==
    LET kept == Table(windows) \ gone IN
    /\ gone \subseteq Table(windows)
    /\ Cardinality(Table(windows)) + 3 =< MaxEntries => gone = {}
    /\ Cardinality(Table(windows)) + 3 > MaxEntries =>
        Cardinality(kept) + 3 = MaxEntries
    /\ \A k \in gone, l \in kept : <<k, l>> \in older

\* mutant: room is made for one key of the three
EvictedForOne(windows, gone) ==
    /\ gone \subseteq Table(windows)
    /\ Cardinality(Table(windows)) + 1 =< MaxEntries => gone = {}
    /\ Cardinality(Table(windows)) + 1 > MaxEntries =>
        Cardinality(Table(windows) \ gone) + 1 = MaxEntries
    /\ \A k \in gone, l \in Table(windows) \ gone : <<k, l>> \in older

\* _evict_until_room(3): nothing while there is room; else what has expired
\* altogether and then, while room is short, the head of the dict.  The windows
\* of the attempt itself are not spared.
Evicted(windows, gone) ==
    LET stale == {k \in Table(windows) : Expired(Newest(windows[k]))}
        rest  == Table(windows) \ stale
        kept  == Table(windows) \ gone
    IN
    /\ gone \subseteq Table(windows)
    /\ IF Cardinality(Table(windows)) + 3 =< MaxEntries
       THEN gone = {}
       ELSE /\ stale \subseteq gone
            /\ IF Cardinality(rest) + 3 =< MaxEntries
               THEN gone = stale
               ELSE /\ Cardinality(kept) + 3 = MaxEntries
                    /\ \A k \in rest \cap gone, l \in kept : <<k, l>> \in older

\* kept, then the keys of the attempt, in the order of a, b, c.
MovedToEnd(order, kept, a, b, c) ==
    LET rest == kept \ {a, b, c} IN
    Only(order, rest) \cup (rest \X {a, b, c}) \cup {<<a, b>>, <<a, c>>, <<b, c>>}

-----------------------------------------------------------------------------
Refused(ip, id) ==
    /\ Throttled(ip, id)
    /\ attempts' = Looked(ip, id)
    /\ older' = Only(older, Table(attempts'))
    /\ UNCHANGED <<now, logins>>

\* The attempt is recorded in windows, after those in gone were given up.
Recorded(windows, gone, K) ==
    [k \in Keys |->
        LET deque == IF k \in gone THEN <<>> ELSE windows[k] IN
        IF k \in K THEN Append(deque, now) ELSE deque]

Admitted(c, ip, id) ==
    /\ logins[c] = None
    /\ ~Throttled(ip, id)
    /\ LET windows == Looked(ip, id) IN
       \E gone \in SUBSET Table(windows) :
        /\ Evicted(windows, gone)
        /\ attempts' = Recorded(windows, gone, KeySet(ip, id))
        /\ older' = MovedToEnd(older, Table(windows) \ gone,
                               PairKey(ip, id), IpKey(ip), AccountKey(id))
    /\ logins' = [logins EXCEPT ![c] = [ip |-> ip, id |-> id, at |-> now]]
    /\ UNCHANGED now

\* mutant: a success forgets its address altogether
ClearedAll(ip, id) == [k \in Keys |-> IF k \in KeySet(ip, id) THEN <<>> ELSE attempts[k]]

\* clear: pair and account are forgotten, the address loses its last attempt.
Cleared(ip, id) ==
    [k \in Keys |->
        IF k \in {PairKey(ip, id), AccountKey(id)} THEN <<>>
        ELSE IF k = IpKey(ip) /\ attempts[k] # <<>>
        THEN SubSeq(attempts[k], 1, Len(attempts[k]) - 1)
        ELSE attempts[k]]

Succeeded(c) ==
    /\ logins[c] # None
    /\ attempts' = Cleared(logins[c].ip, logins[c].id)
    /\ older' = Only(older, Table(Cleared(logins[c].ip, logins[c].id)))
    /\ logins' = [logins EXCEPT ![c] = None]
    /\ UNCHANGED now

\* A wrong password, or a request that ends before clear.
Failed(c) ==
    /\ logins[c] # None
    /\ logins' = [logins EXCEPT ![c] = None]
    /\ UNCHANGED <<now, attempts, older>>

\* The table is the process's own.
Restart ==
    /\ attempts' = [k \in Keys |-> <<>>]
    /\ older' = {}
    /\ logins' = [c \in Logins |-> None]
    /\ UNCHANGED now

Tick ==
    /\ now < MaxTime
    /\ now' = now + 1
    /\ UNCHANGED <<attempts, older, logins>>

Next ==
    \/ \E ip \in IPs, id \in Ids : Refused(ip, id)
    \/ \E c \in Logins, ip \in IPs, id \in Ids : Admitted(c, ip, id)
    \/ \E c \in Logins : Succeeded(c)
    \/ \E c \in Logins : Failed(c)
    \/ Restart
    \/ Tick

Spec == Init /\ [][Next]_vars

-----------------------------------------------------------------------------
\* The table never holds more windows than it may.
TableBounded ==
    IsFiniteSet(Table(attempts)) /\ Cardinality(Table(attempts)) =< MaxEntries

\* No window counts more attempts than it allows, and times are in order.
WindowsSound ==
    \A k \in Keys :
        /\ Len(attempts[k]) =< Limit(k)
        /\ \A i, j \in DOMAIN attempts[k] : i =< j => attempts[k][i] =< attempts[k][j]
        /\ \A i \in DOMAIN attempts[k] : attempts[k][i] =< now

\* The dict order is a total order of the keys in the table.
TotalOver(order, S) ==
    /\ order \subseteq S \X S
    /\ \A k \in S : <<k, k>> \notin order
    /\ \A k, l \in S : k # l => <<k, l>> \in order \/ <<l, k>> \in order
    /\ \A k, l, m \in S : <<k, l>> \in order /\ <<l, m>> \in order => <<k, m>> \in order

OrderTotal == TotalOver(older, Table(attempts))

LimiterInv ==
    /\ TypeOK
    /\ TableBounded
    /\ WindowsSound
    /\ OrderTotal

\* Retry-After is at most the window, and whoever is refused and waits as long
\* finds all three windows free again, if nobody else used them meanwhile.
RetryAfterEnough ==
    \A ip \in IPs, id \in Ids : Throttled(ip, id) =>
        \E wait \in 1..WindowSeconds :
            /\ RetryAfter(ip, id, wait)
            /\ \A k \in KeySet(ip, id) :
                Cardinality({i \in DOMAIN attempts[k] :
                    attempts[k][i] + Window > now + wait * Second}) < Limit(k)

\* A window that still counts something is dropped to make room only when no
\* expired window is left and every window that is kept was used later.
LiveEvictedLast ==
    [][\A c \in Logins : logins[c] = None /\ logins'[c] # None =>
        LET own  == KeySet(logins'[c].ip, logins'[c].id)
            kept == (Table(attempts) \cap Table(attempts')) \ own
        IN \A k \in Table(attempts) \ (Table(attempts') \cup own) :
            ~Expired(Newest(attempts[k])) =>
                \A l \in kept : ~Expired(Newest(attempts[l])) /\ <<k, l>> \in older]_vars
=============================================================================
