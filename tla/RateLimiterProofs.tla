------------------------- MODULE RateLimiterProofs -------------------------
EXTENDS LoginFailures, FiniteSetTheorems, SequenceTheorems, TLAPS

\* What every deque of the table satisfies.
Sound(deque, most) ==
    /\ deque \in Seq(Nat)
    /\ Len(deque) =< most
    /\ \A i, j \in 1..Len(deque) : i =< j => deque[i] =< deque[j]
    /\ \A i \in 1..Len(deque) : deque[i] =< now

LEMMA Limits == ASSUME NEW k \in Keys PROVE Limit(k) \in Nat /\ Limit(k) >= 1
  <1>1. Attempts \in Nat \ {0} /\ Factor \in Nat \ {0}
    BY LimiterAssumption
  <1>2. Attempts * Factor \in Nat /\ Attempts * Factor >= 1
    BY <1>1
  <1> QED BY <1>1, <1>2 DEF Limit

LEMMA WindowsMeans ==
  ASSUME attempts \in [Keys -> Seq(Nat)]
  PROVE  WindowsSound <=> \A k \in Keys : Sound(attempts[k], Limit(k))
  BY DEF WindowsSound, Sound

LEMMA SliceSound ==
  ASSUME now \in Nat, NEW deque, NEW most \in Nat, Sound(deque, most),
         NEW from \in 1..(Len(deque) + 1), NEW to \in (from - 1)..Len(deque)
  PROVE  Sound(SubSeq(deque, from, to), most)
  <1> DEFINE slice == SubSeq(deque, from, to)
  <1>1. deque \in Seq(Nat) /\ Len(deque) \in Nat
    BY DEF Sound
  <1>2. slice \in Seq(Nat) /\ Len(slice) = to - from + 1
    BY <1>1
  <1>3. \A i \in 1..Len(slice) : slice[i] = deque[i + from - 1] /\ i + from - 1 \in 1..Len(deque)
    BY <1>1, <1>2
  <1> HIDE DEF slice
  <1>4. \A i, j \in 1..Len(slice) : i =< j => slice[i] =< slice[j]
    <2> SUFFICES ASSUME NEW i \in 1..Len(slice), NEW j \in 1..Len(slice), i =< j
                 PROVE  deque[i + from - 1] =< deque[j + from - 1]
      BY <1>3
    <2>1. i + from - 1 =< j + from - 1
      BY <1>1, <1>2
    <2> QED BY <1>3, <2>1 DEF Sound
  <1>5. \A i \in 1..Len(slice) : slice[i] =< now
    BY <1>3 DEF Sound
  <1>6. Len(slice) =< most
    BY <1>1, <1>2 DEF Sound
  <1> QED BY <1>2, <1>4, <1>5, <1>6 DEF Sound, slice

LEMMA UpTo == ASSUME NEW n \in Nat PROVE IsFiniteSet(1..n) /\ Cardinality(1..n) = n
  <1>1. Cardinality(1..n) = IF 1 > n THEN 0 ELSE n - 1 + 1
    BY FS_Interval
  <1>2. IsFiniteSet(1..n)
    BY FS_Interval
  <1> QED BY <1>1, <1>2

LEMMA PrunedSound ==
  ASSUME now \in Nat, NEW deque, NEW most \in Nat, Sound(deque, most)
  PROVE  Sound(Pruned(deque), most)
  <1> DEFINE gone == {i \in DOMAIN deque : \A j \in 1..i : Expired(deque[j])}
  <1>1. deque \in Seq(Nat) /\ Len(deque) \in Nat /\ gone \subseteq 1..Len(deque)
    BY DEF Sound
  <1>2. IsFiniteSet(1..Len(deque)) /\ Cardinality(1..Len(deque)) = Len(deque)
    BY <1>1, UpTo
  <1>3. Cardinality(gone) \in 0..Len(deque)
    BY <1>1, <1>2, FS_Subset, FS_CardinalityType
  <1> HIDE DEF gone
  <1>4. Pruned(deque) = SubSeq(deque, Cardinality(gone) + 1, Len(deque))
    BY DEF Pruned, gone
  <1>5. Cardinality(gone) + 1 \in 1..(Len(deque) + 1) /\ Len(deque) \in Cardinality(gone)..Len(deque)
    BY <1>1, <1>3
  <1> QED BY <1>3, <1>4, <1>5, SliceSound

\* The windows an attempt looks at.
LEMMA LookedSound ==
  ASSUME TypeOK, WindowsSound, NEW ip \in IPs, NEW id \in Ids
  PROVE  /\ Looked(ip, id) \in [Keys -> Seq(Nat)]
         /\ \A k \in Keys : Sound(Looked(ip, id)[k], Limit(k))
         /\ \A k \in Keys : Looked(ip, id)[k] # <<>> => attempts[k] # <<>>
  <1>1. \A k \in Keys : Sound(attempts[k], Limit(k)) /\ Limit(k) \in Nat
    BY WindowsMeans, Limits DEF TypeOK
  <1>2. \A k \in Keys : Sound(Looked(ip, id)[k], Limit(k))
    BY <1>1, PrunedSound DEF Looked, TypeOK
  <1>3. \A k \in Keys : attempts[k] = <<>> => Pruned(attempts[k]) = <<>>
    <2> SUFFICES ASSUME Sound(<<>>, 0) PROVE Pruned(<<>>) = <<>>
      BY DEF Sound
    <2>1. Sound(Pruned(<<>>), 0)
      BY PrunedSound DEF TypeOK
    <2> QED BY <2>1 DEF Sound
  <1> QED BY <1>2, <1>3 DEF Looked, Sound

-----------------------------------------------------------------------------
\* The order of the dict

LEMMA OnlyTotal ==
  ASSUME NEW order, NEW S, TotalOver(order, S), NEW T \in SUBSET S
  PROVE  TotalOver(Only(order, T), T)
  BY DEF TotalOver, Only

LEMMA MovedTotal ==
  ASSUME NEW order, NEW S, TotalOver(order, S), NEW kept \in SUBSET S,
         NEW a, NEW b, NEW c, a # b, a # c, b # c
  PROVE  TotalOver(MovedToEnd(order, kept, a, b, c), kept \cup {a, b, c})
  <1> DEFINE rest == kept \ {a, b, c}
             old  == Only(order, rest)
             new  == MovedToEnd(order, kept, a, b, c)
             all  == kept \cup {a, b, c}
  <1>1. TotalOver(old, rest)
    BY OnlyTotal
  <1>2. new = old \cup (rest \X {a, b, c}) \cup {<<a, b>>, <<a, c>>, <<b, c>>}
    BY DEF MovedToEnd
  <1>3. all = rest \cup {a, b, c} /\ a \notin rest /\ b \notin rest /\ c \notin rest
    OBVIOUS
  <1> HIDE DEF rest, old, new, all
  <1>4. new \subseteq all \X all
    BY <1>1, <1>2, <1>3 DEF TotalOver
  <1>5. \A k, l \in rest : <<k, l>> \in new <=> <<k, l>> \in old
    BY <1>2, <1>3
  <1>6. \A k \in rest, l \in {a, b, c} : <<k, l>> \in new /\ <<l, k>> \notin new
    <2> SUFFICES ASSUME NEW k \in rest, NEW l \in {a, b, c}
                 PROVE  <<k, l>> \in new /\ <<l, k>> \notin new
      OBVIOUS
    <2>1. <<k, l>> \in rest \X {a, b, c}
      OBVIOUS
    <2>2. <<l, k>> \notin old
      BY <1>1, <1>3 DEF TotalOver
    <2>3. <<l, k>> \notin rest \X {a, b, c} /\ <<l, k>> \notin {<<a, b>>, <<a, c>>, <<b, c>>}
      BY <1>3
    <2> QED BY <1>2, <2>1, <2>2, <2>3
  <1>7. \A k, l \in {a, b, c} :
          <<k, l>> \in new <=> <<k, l>> \in {<<a, b>>, <<a, c>>, <<b, c>>}
    BY <1>1, <1>2, <1>3 DEF TotalOver
  <1>8. \A k \in all : <<k, k>> \notin new
    BY <1>1, <1>3, <1>5, <1>7 DEF TotalOver
  <1>9. \A k, l \in all : k # l => <<k, l>> \in new \/ <<l, k>> \in new
    BY <1>1, <1>3, <1>5, <1>6, <1>7 DEF TotalOver
  <1>10. ASSUME NEW k \in all, NEW l \in all, NEW m \in all,
                <<k, l>> \in new, <<l, m>> \in new
         PROVE  <<k, m>> \in new
    <2>1. CASE m \in rest
      BY <1>1, <1>3, <1>5, <1>6, <1>10, <2>1 DEF TotalOver
    <2>2. CASE m \in {a, b, c} /\ k \in rest
      BY <1>6, <2>2
    <2>3. CASE m \in {a, b, c} /\ k \in {a, b, c}
      BY <1>3, <1>6, <1>7, <1>10, <2>3
    <2> QED BY <1>3, <2>1, <2>2, <2>3
  <1> QED BY <1>4, <1>8, <1>9, <1>10 DEF TotalOver, new, all

-----------------------------------------------------------------------------
\* Room for the three

LEMMA KeysDiffer ==
  ASSUME NEW ip \in IPs, NEW id \in Ids
  PROVE  /\ PairKey(ip, id) # IpKey(ip) /\ PairKey(ip, id) # AccountKey(id)
         /\ IpKey(ip) # AccountKey(id)
         /\ KeySet(ip, id) = {PairKey(ip, id), IpKey(ip), AccountKey(id)}
         /\ KeySet(ip, id) \subseteq Keys
  <1>1. PairKey(ip, id).kind = "pair" /\ IpKey(ip).kind = "ip" /\ AccountKey(id).kind = "account"
    BY DEF PairKey, IpKey, AccountKey
  <1> QED BY <1>1 DEF KeySet, Keys

LEMMA OneMore ==
  ASSUME NEW S, IsFiniteSet(S), NEW x
  PROVE  IsFiniteSet(S \cup {x}) /\ Cardinality(S \cup {x}) =< Cardinality(S) + 1
  <1>1. Cardinality(S) \in Nat
    BY FS_CardinalityType
  <1>2. Cardinality(S \cup {x}) = IF x \in S THEN Cardinality(S) ELSE Cardinality(S) + 1
    BY FS_AddElement
  <1>3. IsFiniteSet(S \cup {x})
    BY FS_AddElement
  <1> QED BY <1>1, <1>2, <1>3

LEMMA ThreeMore ==
  ASSUME NEW S, IsFiniteSet(S), NEW a, NEW b, NEW c
  PROVE  IsFiniteSet(S \cup {a, b, c}) /\ Cardinality(S \cup {a, b, c}) =< Cardinality(S) + 3
  <1>1. IsFiniteSet(S \cup {a}) /\ Cardinality(S \cup {a}) =< Cardinality(S) + 1
    BY OneMore
  <1>2. /\ IsFiniteSet((S \cup {a}) \cup {b})
        /\ Cardinality((S \cup {a}) \cup {b}) =< Cardinality(S \cup {a}) + 1
    BY <1>1, OneMore
  <1>3. /\ IsFiniteSet(((S \cup {a}) \cup {b}) \cup {c})
        /\ Cardinality(((S \cup {a}) \cup {b}) \cup {c}) =< Cardinality((S \cup {a}) \cup {b}) + 1
    BY <1>2, OneMore
  <1>4. S \cup {a, b, c} = ((S \cup {a}) \cup {b}) \cup {c}
    OBVIOUS
  <1>5. /\ Cardinality(S) \in Nat /\ Cardinality(S \cup {a}) \in Nat
        /\ Cardinality((S \cup {a}) \cup {b}) \in Nat
        /\ Cardinality(((S \cup {a}) \cup {b}) \cup {c}) \in Nat
    BY <1>1, <1>2, <1>3, FS_CardinalityType
  <1> QED BY <1>1, <1>2, <1>3, <1>4, <1>5

\* After the eviction the three keys of the attempt still fit.
LEMMA EvictedLeavesRoom ==
  ASSUME NEW windows, IsFiniteSet(Table(windows)), Cardinality(Table(windows)) =< MaxEntries,
         NEW gone, Evicted(windows, gone)
  PROVE  /\ IsFiniteSet(Table(windows) \ gone)
         /\ Cardinality(Table(windows) \ gone) + 3 =< MaxEntries
  <1> DEFINE stale == {k \in Table(windows) : Expired(Newest(windows[k]))}
             rest  == Table(windows) \ stale
             kept  == Table(windows) \ gone
  <1>1. IsFiniteSet(kept) /\ Cardinality(kept) \in Nat
    BY FS_Subset, FS_CardinalityType
  <1>2. CASE Cardinality(Table(windows)) + 3 =< MaxEntries
    <2>1. kept = Table(windows)
      BY <1>2 DEF Evicted
    <2> QED BY <1>1, <1>2, <2>1
  <1>3. CASE ~(Cardinality(Table(windows)) + 3 =< MaxEntries) /\ Cardinality(rest) + 3 =< MaxEntries
    <2>1. gone = stale
      BY <1>3 DEF Evicted
    <2> QED BY <1>1, <1>3, <2>1
  <1>4. CASE ~(Cardinality(Table(windows)) + 3 =< MaxEntries) /\ ~(Cardinality(rest) + 3 =< MaxEntries)
    <2>1. Cardinality(kept) + 3 = MaxEntries
      BY <1>4 DEF Evicted
    <2> QED BY <1>1, <2>1
  <1> QED BY <1>2, <1>3, <1>4

-----------------------------------------------------------------------------
\* One lemma per action

LEMMA InitSound == Init => LimiterInv
  <1> SUFFICES ASSUME Init PROVE LimiterInv
    OBVIOUS
  <1>1. TypeOK /\ Table(attempts) = {}
    BY DEF Init, TypeOK, Table
  <1>2. TableBounded
    BY <1>1, FS_EmptySet, LimiterAssumption DEF TableBounded
  <1>3. \A k \in Keys : Limit(k) \in Nat
    BY Limits
  <1>4. WindowsSound
    BY <1>3 DEF Init, WindowsSound
  <1>5. OrderTotal
    BY <1>1 DEF Init, OrderTotal, TotalOver
  <1> QED BY <1>1, <1>2, <1>4, <1>5 DEF LimiterInv

\* A step that only takes attempts away.
LEMMA ShrinkKeeps ==
  ASSUME LimiterInv, now' = now,
         attempts' \in [Keys -> Seq(Nat)],
         \A k \in Keys : Sound(attempts'[k], Limit(k)),
         Table(attempts') \subseteq Table(attempts),
         older' = Only(older, Table(attempts')),
         logins' \in [Logins -> Login \cup {None}]
  PROVE  LimiterInv'
  <1> USE DEF LimiterInv
  <1>1. TotalOver(older', Table(attempts'))
    BY OnlyTotal DEF OrderTotal
  <1>2. older' \subseteq Keys \X Keys
    BY <1>1 DEF TotalOver, Table
  <1>3. TypeOK'
    BY <1>2 DEF TypeOK
  <1>4. WindowsSound'
    <2> SUFFICES ASSUME NEW k \in Keys
                 PROVE  /\ Len(attempts'[k]) =< Limit(k)
                        /\ \A i, j \in DOMAIN attempts'[k] : i =< j => attempts'[k][i] =< attempts'[k][j]
                        /\ \A i \in DOMAIN attempts'[k] : attempts'[k][i] =< now'
      BY DEF WindowsSound
    <2>1. DOMAIN attempts'[k] = 1..Len(attempts'[k])
      OBVIOUS
    <2> QED BY <2>1 DEF Sound
  <1>5. Table(attempts)' = Table(attempts')
    BY DEF Table
  <1>6. TableBounded'
    BY <1>5, FS_Subset, FS_CardinalityType, LimiterAssumption DEF TableBounded
  <1>7. OrderTotal'
    BY <1>1, <1>5 DEF OrderTotal, TotalOver
  <1> QED BY <1>3, <1>4, <1>6, <1>7

LEMMA RefusedKeeps ==
  ASSUME LimiterInv, NEW ip \in IPs, NEW id \in Ids, Refused(ip, id)
  PROVE  LimiterInv'
  <1>1. /\ attempts' = Looked(ip, id) /\ now' = now /\ logins' = logins
        /\ older' = Only(older, Table(attempts'))
    BY DEF Refused
  <1>2. /\ attempts' \in [Keys -> Seq(Nat)]
        /\ \A k \in Keys : Sound(attempts'[k], Limit(k))
        /\ Table(attempts') \subseteq Table(attempts)
    BY <1>1, LookedSound DEF LimiterInv, Table
  <1> QED BY <1>1, <1>2, ShrinkKeeps DEF LimiterInv, TypeOK

LEMMA SucceededKeeps ==
  ASSUME LimiterInv, NEW c \in Logins, Succeeded(c)
  PROVE  LimiterInv'
  <1> DEFINE ip == logins[c].ip  id == logins[c].id
  <1>1. /\ attempts' = Cleared(ip, id) /\ now' = now
        /\ older' = Only(older, Table(attempts'))
        /\ logins' \in [Logins -> Login \cup {None}]
    BY DEF Succeeded, LimiterInv, TypeOK
  <1> HIDE DEF ip, id
  <1>2. ASSUME NEW k \in Keys
        PROVE  Sound(Cleared(ip, id)[k], Limit(k)) /\ (attempts[k] = <<>> => Cleared(ip, id)[k] = <<>>)
    <2>1. Sound(attempts[k], Limit(k)) /\ Limit(k) \in Nat
      BY WindowsMeans, Limits DEF LimiterInv, TypeOK
    <2>2. Sound(<<>>, Limit(k))
      BY <2>1 DEF Sound
    <2>3. ASSUME attempts[k] # <<>>
          PROVE  Sound(SubSeq(attempts[k], 1, Len(attempts[k]) - 1), Limit(k))
      <3>1. attempts[k] \in Seq(Nat) /\ Len(attempts[k]) \in Nat /\ Len(attempts[k]) # 0
        BY <2>1, <2>3 DEF Sound
      <3>2. 1 \in 1..(Len(attempts[k]) + 1) /\ Len(attempts[k]) - 1 \in (1 - 1)..Len(attempts[k])
        BY <3>1
      <3> QED BY <2>1, <3>2, SliceSound DEF LimiterInv, TypeOK
    <2> QED BY <2>1, <2>2, <2>3 DEF Cleared
  <1>3. /\ attempts' \in [Keys -> Seq(Nat)]
        /\ \A k \in Keys : Sound(attempts'[k], Limit(k))
        /\ Table(attempts') \subseteq Table(attempts)
    BY <1>1, <1>2 DEF Cleared, Sound, Table
  <1> QED BY <1>1, <1>3, ShrinkKeeps

LEMMA AppendSound ==
  ASSUME now \in Nat, NEW most \in Nat, NEW deque, Sound(deque, most), Len(deque) < most
  PROVE  Sound(Append(deque, now), most)
  <1> DEFINE longer == Append(deque, now)
  <1>1. deque \in Seq(Nat) /\ Len(deque) \in Nat
    BY DEF Sound
  <1>2. /\ longer \in Seq(Nat) /\ Len(longer) = Len(deque) + 1
        /\ \A i \in 1..Len(deque) : longer[i] = deque[i]
        /\ longer[Len(deque) + 1] = now
    BY <1>1
  <1> HIDE DEF longer
  <1>3. ASSUME NEW i \in 1..Len(longer) PROVE longer[i] =< now
    <2>1. CASE i = Len(deque) + 1
      BY <1>2, <2>1
    <2>2. CASE i # Len(deque) + 1
      <3>1. i \in 1..Len(deque)
        BY <1>1, <1>2, <2>2
      <3> QED BY <1>2, <3>1 DEF Sound
    <2> QED BY <2>1, <2>2
  <1>4. ASSUME NEW i \in 1..Len(longer), NEW j \in 1..Len(longer), i =< j
        PROVE  longer[i] =< longer[j]
    <2>1. CASE j = Len(deque) + 1
      BY <1>2, <1>3, <2>1
    <2>2. CASE j # Len(deque) + 1
      <3>1. i \in 1..Len(deque) /\ j \in 1..Len(deque)
        BY <1>1, <1>2, <1>4, <2>2
      <3> QED BY <1>2, <1>4, <3>1 DEF Sound
    <2> QED BY <2>1, <2>2
  <1> QED BY <1>1, <1>2, <1>3, <1>4 DEF Sound, longer

LEMMA AdmittedKeeps ==
  ASSUME LimiterInv, NEW c \in Logins, NEW ip \in IPs, NEW id \in Ids, Admitted(c, ip, id)
  PROVE  LimiterInv'
  <1> DEFINE K == KeySet(ip, id)
  <1>1. PICK windows : windows = Looked(ip, id)
    OBVIOUS
  <1>2. PICK gone \in SUBSET Table(windows) :
          /\ Evicted(windows, gone)
          /\ attempts' = Recorded(windows, gone, K)
          /\ older' = MovedToEnd(older, Table(windows) \ gone,
                                 PairKey(ip, id), IpKey(ip), AccountKey(id))
    BY <1>1 DEF Admitted
  <1>3. /\ now' = now /\ now \in Nat
        /\ logins' \in [Logins -> Login \cup {None}]
    BY DEF Admitted, LimiterInv, TypeOK, Login
  <1>4. /\ \A k \in Keys : Sound(windows[k], Limit(k))
        /\ Table(windows) \subseteq Table(attempts)
    BY <1>1, LookedSound DEF LimiterInv, Table
  <1>5. \A k \in K : k \in Keys /\ Len(windows[k]) < Limit(k)
    <2> SUFFICES ASSUME NEW k \in K PROVE Len(windows[k]) < Limit(k)
      BY KeysDiffer
    <2>1. k \in Keys /\ windows[k] = Pruned(attempts[k])
      BY <1>1, KeysDiffer DEF Looked
    <2>2. ~(Len(Pruned(attempts[k])) >= Limit(k))
      BY DEF Admitted, Throttled
    <2> QED BY <1>4, <2>1, <2>2, Limits DEF Sound
  <1>6. ASSUME NEW k \in Keys
        PROVE  /\ Sound(attempts'[k], Limit(k))
               /\ attempts'[k] # <<>> <=> k \in (Table(windows) \ gone) \cup K
    <2>1. PICK deque : deque = IF k \in gone THEN <<>> ELSE windows[k]
      OBVIOUS
    <2>2. attempts'[k] = IF k \in K THEN Append(deque, now) ELSE deque
      BY <1>2, <2>1 DEF Recorded
    <2>3. Limit(k) \in Nat /\ Limit(k) >= 1
      BY Limits
    <2>4. Sound(deque, Limit(k)) /\ (k \in K => Len(deque) < Limit(k))
      <3>1. Sound(<<>>, Limit(k)) /\ Len(<<>>) < Limit(k)
        BY <2>3 DEF Sound
      <3> QED BY <1>4, <1>5, <2>1, <3>1
    <2>5. CASE k \in K
      <3>1. Sound(Append(deque, now), Limit(k))
        BY <1>3, <2>3, <2>4, <2>5, AppendSound
      <3>2. Append(deque, now) # <<>>
        BY <1>3, <2>4 DEF Sound
      <3> QED BY <2>2, <2>5, <3>1, <3>2
    <2>6. CASE k \notin K
      BY <2>1, <2>2, <2>4, <2>6 DEF Table
    <2> QED BY <2>5, <2>6
  <1>7. attempts' \in [Keys -> Seq(Nat)]
    BY <1>2, <1>6 DEF Recorded, Sound
  <1>8. Table(attempts') = (Table(windows) \ gone) \cup K
    BY <1>6, KeysDiffer DEF Table
  <1>9. TableBounded'
    <2>1. IsFiniteSet(Table(windows)) /\ Cardinality(Table(windows)) =< MaxEntries
      BY <1>4, FS_Subset, FS_CardinalityType, LimiterAssumption DEF LimiterInv, TableBounded
    <2>2. /\ IsFiniteSet(Table(windows) \ gone)
          /\ Cardinality(Table(windows) \ gone) + 3 =< MaxEntries
      BY <1>2, <2>1, EvictedLeavesRoom
    <2>3. /\ IsFiniteSet((Table(windows) \ gone) \cup K)
          /\ Cardinality((Table(windows) \ gone) \cup K) =< Cardinality(Table(windows) \ gone) + 3
      <3>1. K = {PairKey(ip, id), IpKey(ip), AccountKey(id)}
        BY KeysDiffer
      <3> HIDE DEF K
      <3> QED BY <2>2, <3>1, ThreeMore
    <2>4. IsFiniteSet(Table(attempts')) /\ Cardinality(Table(attempts')) =< MaxEntries
      BY <1>8, <2>2, <2>3, FS_CardinalityType, LimiterAssumption
    <2> QED BY <2>4 DEF TableBounded, Table
  <1>10. TotalOver(older', Table(attempts'))
    <2>1. Table(windows) \ gone \subseteq Table(attempts)
      BY <1>4
    <2>2. TotalOver(older', (Table(windows) \ gone) \cup K)
      BY <1>2, <2>1, KeysDiffer, MovedTotal DEF LimiterInv, OrderTotal
    <2> QED BY <1>8, <2>2
  <1>11. OrderTotal' /\ older' \subseteq Keys \X Keys
    BY <1>10 DEF OrderTotal, TotalOver, Table
  <1>12. TypeOK' /\ WindowsSound'
    BY <1>3, <1>6, <1>7, <1>11 DEF TypeOK, WindowsSound, Sound
  <1> QED BY <1>9, <1>11, <1>12 DEF LimiterInv

LEMMA TickKeeps ==
  ASSUME LimiterInv, Tick
  PROVE  LimiterInv'
  <1> USE DEF LimiterInv
  <1>1. now \in Nat /\ now' = now + 1 /\ UNCHANGED <<attempts, older, logins>>
    BY DEF Tick, TypeOK
  <1>2. TypeOK' /\ TableBounded' /\ OrderTotal'
    BY <1>1 DEF TypeOK, TableBounded, OrderTotal, TotalOver, Table
  <1>3. WindowsSound'
    <2> SUFFICES ASSUME NEW k \in Keys, NEW i \in DOMAIN attempts[k]
                 PROVE  attempts[k][i] =< now'
      BY <1>1 DEF WindowsSound
    <2>1. attempts[k][i] =< now /\ attempts[k][i] \in Nat
      BY DEF WindowsSound, TypeOK
    <2> QED BY <1>1, <2>1
  <1> QED BY <1>2, <1>3

LEMMA RestartKeeps ==
  ASSUME LimiterInv, Restart
  PROVE  LimiterInv'
  <1>1. /\ TypeOK' /\ Table(attempts') = {}
    BY DEF Restart, LimiterInv, TypeOK, Table
  <1>6. Table(attempts)' = {}
    BY <1>1 DEF Table
  <1>2. TableBounded'
    BY <1>6, FS_EmptySet, LimiterAssumption DEF TableBounded
  <1>3. \A k \in Keys : Limit(k) \in Nat
    BY Limits
  <1>4. WindowsSound'
    BY <1>3 DEF Restart, WindowsSound
  <1>5. OrderTotal'
    BY <1>1 DEF Restart, OrderTotal, TotalOver, Table
  <1> QED BY <1>1, <1>2, <1>4, <1>5 DEF LimiterInv

LEMMA NextKeeps == LimiterInv /\ [Next]_vars => LimiterInv'
  <1> SUFFICES ASSUME LimiterInv, [Next]_vars PROVE LimiterInv'
    OBVIOUS
  <1>1. CASE \E ip \in IPs, id \in Ids : Refused(ip, id)
    BY <1>1, RefusedKeeps
  <1>2. CASE \E c \in Logins, ip \in IPs, id \in Ids : Admitted(c, ip, id)
    BY <1>2, AdmittedKeeps
  <1>3. CASE \E c \in Logins : Succeeded(c)
    BY <1>3, SucceededKeeps
  <1>4. CASE (\E c \in Logins : Failed(c)) \/ UNCHANGED vars
    <2>1. UNCHANGED <<now, attempts, older>> /\ logins' \in [Logins -> Login \cup {None}]
      BY <1>4 DEF Failed, vars, LimiterInv, TypeOK
    <2>2. Table(attempts)' = Table(attempts)
      BY <2>1 DEF Table
    <2>3. TypeOK' /\ WindowsSound'
      BY <2>1 DEF LimiterInv, TypeOK, WindowsSound
    <2>4. TableBounded' /\ OrderTotal'
      BY <2>1, <2>2 DEF LimiterInv, TableBounded, OrderTotal, TotalOver
    <2> QED BY <2>3, <2>4 DEF LimiterInv
  <1>5. CASE Restart
    BY <1>5, RestartKeeps
  <1>6. CASE Tick
    BY <1>6, TickKeeps
  <1> QED BY <1>1, <1>2, <1>3, <1>4, <1>5, <1>6 DEF Next

\* For any number of addresses, accounts and logins, and any limits: the table
\* stays within its bound, no window counts more than it allows, and the order
\* of the dict is an order of its keys.
THEOREM LimiterSound == Spec => []LimiterInv
  BY InitSound, NextKeeps, PTL DEF Spec

-----------------------------------------------------------------------------
\* Retry-After

LEMMA TimesGrow ==
  ASSUME NEW a \in Nat, NEW b \in Nat, NEW n \in Nat, a =< b
  PROVE  a * n =< b * n
  OBVIOUS

\* Rounding up covers the wait and stays within the window.
LEMMA CeilingCovers ==
  ASSUME NEW ticks \in 1..Window
  PROVE  /\ Ceiling(ticks) \in 1..WindowSeconds
         /\ Ceiling(ticks) * Second >= ticks
  <1>1. Second \in Nat /\ Second >= 1 /\ WindowSeconds \in Nat /\ Window = WindowSeconds * Second
    BY LimiterAssumption DEF Window
  <1>2. PICK q \in Int : q = (ticks + Second - 1) \div Second
    BY <1>1
  <1>3. q * Second =< ticks + Second - 1 /\ ticks + Second - 1 < q * Second + Second
    BY <1>1, <1>2
  <1>4. q * Second >= ticks
    BY <1>1, <1>3
  <1>5. q >= 1
    <2>1. SUFFICES ASSUME q =< 0 PROVE FALSE
      OBVIOUS
    <2>2. q * Second =< 0
      BY <1>1, <2>1
    <2>3. q * Second \in Int /\ ticks \in Int /\ ticks >= 1
      BY <1>1
    <2> QED BY <1>4, <2>2, <2>3
  <1>6. q =< WindowSeconds
    <2>1. SUFFICES ASSUME WindowSeconds + 1 =< q PROVE FALSE
      BY <1>1
    <2>2. (WindowSeconds + 1) * Second =< q * Second
      BY <1>1, <2>1, <1>5, TimesGrow
    <2>3. (WindowSeconds + 1) * Second = WindowSeconds * Second + Second
      BY <1>1
    <2>4. WindowSeconds * Second \in Nat /\ q * Second \in Int
      BY <1>1
    <2> QED BY <1>1, <1>3, <2>2, <2>3, <2>4
  <1> QED BY <1>2, <1>4, <1>5, <1>6 DEF Ceiling

LEMMA SuffixOf ==
  ASSUME NEW s \in Seq(Nat), NEW n \in 0..Len(s)
  PROVE  /\ Len(SubSeq(s, n + 1, Len(s))) = Len(s) - n
         /\ n < Len(s) => SubSeq(s, n + 1, Len(s))[1] = s[n + 1]
  <1>1. Len(s) \in Nat /\ n \in Nat /\ n =< Len(s) /\ n + 1 \in Int
    OBVIOUS
  <1>2. PICK m : m \in Int /\ m = n + 1
    BY <1>1
  <1>3. PICK l : l \in Int /\ l = Len(s)
    BY <1>1
  <1>4. \A i \in m..l : s[i] \in Nat
    BY <1>2, <1>3
  <1>5. /\ Len(SubSeq(s, m, l)) = IF m =< l THEN l - m + 1 ELSE 0
        /\ \A i \in 1..(l - m + 1) : SubSeq(s, m, l)[i] = s[m + i - 1]
    BY <1>2, <1>3, <1>4, SubSeqProperties
  <1>6. n < Len(s) => SubSeq(s, m, l)[1] = s[m]
    <2> SUFFICES ASSUME n < Len(s) PROVE SubSeq(s, m, l)[1] = s[m]
      OBVIOUS
    <2>1. 1 \in 1..(l - m + 1) /\ m + 1 - 1 = m
      BY <1>1, <1>2, <1>3
    <2> QED BY <1>5, <2>1
  <1>7. Len(SubSeq(s, m, l)) = Len(s) - n
    <2>1. (IF m =< l THEN l - m + 1 ELSE 0) = Len(s) - n
      BY <1>1, <1>2, <1>3
    <2> QED BY <1>5, <2>1
  <1> QED BY <1>2, <1>3, <1>6, <1>7

\* Pruning drops exactly the expired head of a deque.
LEMMA PrunedExactly ==
  ASSUME now \in Nat, NEW deque, NEW most \in Nat, Sound(deque, most)
  PROVE  \E n \in 0..Len(deque) :
           /\ Pruned(deque) = SubSeq(deque, n + 1, Len(deque))
           /\ \A i \in 1..n : Expired(deque[i])
           /\ n < Len(deque) => ~Expired(deque[n + 1]) /\ Pruned(deque)[1] = deque[n + 1]
           /\ Len(Pruned(deque)) = Len(deque) - n
  <1> DEFINE gone == {i \in DOMAIN deque : \A j \in 1..i : Expired(deque[j])}
  <1>1. deque \in Seq(Nat) /\ Len(deque) \in Nat /\ gone \subseteq 1..Len(deque)
    BY DEF Sound
  <1>2. PICK n \in 0..Len(deque) : IsFiniteSet(gone) /\ n = Cardinality(gone)
    <2>1. IsFiniteSet(1..Len(deque)) /\ Cardinality(1..Len(deque)) = Len(deque)
      BY <1>1, UpTo
    <2>2. IsFiniteSet(gone) /\ Cardinality(gone) =< Len(deque)
      BY <1>1, <2>1, FS_Subset
    <2> HIDE DEF gone
    <2>3. Cardinality(gone) \in Nat
      BY <2>2, FS_CardinalityType
    <2> QED BY <1>1, <2>2, <2>3
  <1>3. ASSUME NEW i \in gone PROVE i \in 1..n
    <2>1. i \in Nat /\ 1..i \subseteq gone
      BY <1>1
    <2>2. IsFiniteSet(1..i) /\ Cardinality(1..i) = i
      BY <2>1, UpTo
    <2> HIDE DEF gone
    <2>3. i =< n
      BY <1>2, <2>1, <2>2, FS_Subset
    <2> QED BY <1>1, <2>3
  <1>4. gone = 1..n
    <2> HIDE DEF gone
    <2>1. IsFiniteSet(1..n) /\ Cardinality(1..n) = n
      BY UpTo
    <2>2. gone \in SUBSET (1..n)
      BY <1>3
    <2> QED BY <1>2, <2>1, <2>2, FS_Subset
  <1>5. \A i \in 1..n : Expired(deque[i])
    <2> SUFFICES ASSUME NEW i \in 1..n PROVE Expired(deque[i])
      OBVIOUS
    <2>1. i \in gone /\ i \in 1..i
      BY <1>4
    <2> QED BY <2>1
  <1>6. n < Len(deque) => ~Expired(deque[n + 1])
    <2> SUFFICES ASSUME n < Len(deque), Expired(deque[n + 1]) PROVE FALSE
      OBVIOUS
    <2>1. n + 1 \in DOMAIN deque /\ \A j \in 1..(n + 1) : j \in 1..n \/ j = n + 1
      BY <1>1
    <2>2. \A j \in 1..(n + 1) : Expired(deque[j])
      BY <1>5, <2>1
    <2>3. n + 1 \in gone
      BY <2>1, <2>2
    <2> HIDE DEF gone
    <2> QED BY <1>4, <2>3
  <1>7. Pruned(deque) = SubSeq(deque, n + 1, Len(deque))
    BY <1>2 DEF Pruned
  <1> QED BY <1>1, <1>5, <1>6, <1>7, SuffixOf

\* What still counts after w seconds: less than before, and less than all of it
\* if w is what the deque asks for.
LEMMA CountedLater ==
  ASSUME now \in Nat, NEW deque, NEW most \in Nat, Sound(deque, most), most >= 1,
         NEW w \in Nat, w >= 1,
         Len(Pruned(deque)) >= most => w >= Wait(Pruned(deque))
  PROVE  Cardinality({i \in DOMAIN deque : deque[i] + Window > now + w * Second}) < most
  <1> DEFINE left == {i \in DOMAIN deque : deque[i] + Window > now + w * Second}
  <1>1. /\ deque \in Seq(Nat) /\ Len(deque) \in Nat /\ Len(deque) =< most
        /\ DOMAIN deque = 1..Len(deque)
    BY DEF Sound
  <1>2. PICK n \in 0..Len(deque) :
           /\ \A i \in 1..n : Expired(deque[i])
           /\ n < Len(deque) => ~Expired(deque[n + 1]) /\ Pruned(deque)[1] = deque[n + 1]
           /\ Len(Pruned(deque)) = Len(deque) - n
    BY PrunedExactly
  <1>3. /\ Second \in Nat /\ Second >= 1 /\ Window \in Nat
        /\ w * Second \in Nat /\ w * Second >= 1
    <2>1. Second \in Nat /\ Second >= 1 /\ WindowSeconds \in Nat
      BY LimiterAssumption
    <2> QED BY <2>1 DEF Window
  <1>4. \A i \in left : i \in (n + 1)..Len(deque)
    <2> SUFFICES ASSUME NEW i \in 1..Len(deque), i \in 1..n
                 PROVE  ~(deque[i] + Window > now + w * Second)
      BY <1>1
    <2>1. deque[i] + Window =< now /\ deque[i] \in Nat
      BY <1>1, <1>2 DEF Expired
    <2> QED BY <1>3, <2>1
  <1>5. Len(Pruned(deque)) = Len(deque) - n /\ n \in Nat
    BY <1>1, <1>2
  <1>6. ASSUME NEW m \in 1..(Len(deque) + 1), left \subseteq m..Len(deque), Len(deque) - m + 1 < most
        PROVE  Cardinality(left) < most
    <2>1. /\ IsFiniteSet(m..Len(deque))
          /\ Cardinality(m..Len(deque)) = IF m > Len(deque) THEN 0 ELSE Len(deque) - m + 1
      <3>1. m \in Int /\ Len(deque) \in Int
        BY <1>1
      <3> QED BY <3>1, FS_Interval
    <2>2. Cardinality(m..Len(deque)) < most
      BY <1>1, <1>6, <2>1
    <2>3. IsFiniteSet(left) /\ Cardinality(left) =< Cardinality(m..Len(deque))
      BY <1>6, <2>1, FS_Subset
    <2> HIDE DEF left
    <2>4. Cardinality(left) \in Nat /\ Cardinality(m..Len(deque)) \in Nat
      BY <2>1, <2>3, FS_CardinalityType
    <2> QED BY <2>2, <2>3, <2>4
  <1>7. CASE Len(Pruned(deque)) < most
    <2>1. n + 1 \in 1..(Len(deque) + 1) /\ Len(deque) - (n + 1) + 1 < most
      BY <1>1, <1>5, <1>7
    <2>2. left \subseteq (n + 1)..Len(deque)
      BY <1>4
    <2> QED BY <1>6, <2>1, <2>2
  <1>8. CASE Len(Pruned(deque)) >= most
    <2>1. n < Len(deque) /\ Pruned(deque)[1] = deque[n + 1] /\ deque[n + 1] \in Nat
      BY <1>1, <1>2, <1>5, <1>8
    <2>2. PICK ticks \in 1..Window : ticks = deque[n + 1] + Window - now
      <3>1. deque[n + 1] =< now
        BY <2>1 DEF Sound
      <3>2. ~(deque[n + 1] + Window =< now)
        BY <1>2, <2>1 DEF Expired
      <3> QED BY <1>3, <2>1, <3>1, <3>2
    <2>3. w >= Ceiling(ticks) /\ Ceiling(ticks) \in Nat /\ Ceiling(ticks) * Second >= ticks
      <3>1. Ceiling(ticks) \in 1..WindowSeconds /\ Ceiling(ticks) * Second >= ticks
        BY CeilingCovers
      <3>2. Wait(Pruned(deque)) = Ceiling(ticks)
        BY <2>1, <2>2, <3>1 DEF Wait
      <3> QED BY <1>8, <3>1, <3>2
    <2>4. w * Second >= ticks
      <3>1. Ceiling(ticks) * Second =< w * Second /\ Ceiling(ticks) * Second \in Nat
        BY <1>3, <2>3, TimesGrow
      <3> QED BY <1>3, <2>3, <3>1
    <2>5. n + 1 \notin left
      BY <1>3, <2>1, <2>2, <2>4
    <2>6. n + 2 \in 1..(Len(deque) + 1) /\ Len(deque) - (n + 2) + 1 < most
      BY <1>1, <2>1
    <2>7. left \subseteq (n + 2)..Len(deque)
      <3> SUFFICES ASSUME NEW i \in left PROVE i \in (n + 2)..Len(deque)
        OBVIOUS
      <3>1. i \in (n + 1)..Len(deque) /\ i # n + 1
        BY <1>4, <2>5
      <3> HIDE DEF left
      <3> QED BY <1>1, <1>5, <3>1
    <2> QED BY <1>6, <2>6, <2>7
  <1>9. Len(Pruned(deque)) \in Nat
    BY <1>1, <1>5
  <1> QED BY <1>7, <1>8, <1>9

LEMMA WaitRange ==
  ASSUME now \in Nat, NEW deque, NEW most \in Nat, Sound(deque, most), most >= 1,
         Len(Pruned(deque)) >= most
  PROVE  Wait(Pruned(deque)) \in 1..WindowSeconds
  <1>1. PICK n \in 0..Len(deque) :
           /\ n < Len(deque) => ~Expired(deque[n + 1]) /\ Pruned(deque)[1] = deque[n + 1]
           /\ Len(Pruned(deque)) = Len(deque) - n
    BY PrunedExactly
  <1>2. deque \in Seq(Nat) /\ Len(deque) \in Nat
    BY DEF Sound
  <1>3. Len(Pruned(deque)) = Len(deque) - n
    BY <1>1
  <1>4. n < Len(deque) /\ Pruned(deque)[1] = deque[n + 1] /\ deque[n + 1] \in Nat
    BY <1>1, <1>2, <1>3
  <1>5. deque[n + 1] =< now
    BY <1>4 DEF Sound
  <1>6. ~(deque[n + 1] + Window =< now)
    BY <1>1, <1>4 DEF Expired
  <1>7. Window \in Nat
    <2>1. Second \in Nat /\ WindowSeconds \in Nat
      BY LimiterAssumption
    <2> QED BY <2>1 DEF Window
  <1>8. deque[n + 1] + Window - now \in 1..Window
    BY <1>4, <1>5, <1>6, <1>7
  <1>9. Ceiling(deque[n + 1] + Window - now) \in 1..WindowSeconds
    BY <1>8, CeilingCovers
  <1> QED BY <1>4, <1>9 DEF Wait

\* Of three waits one is the longest.
LEMMA LongestWait ==
  ASSUME NEW a, NEW b, NEW c, NEW S \in SUBSET {a, b, c}, S # {}, NEW f,
         \A k \in S : f[k] \in Nat
  PROVE  \E k \in S : \A l \in S : f[l] =< f[k]
  <1>1. CASE S \subseteq {a, b}
    BY <1>1
  <1>2. CASE S \subseteq {a, c}
    BY <1>2
  <1>3. CASE S \subseteq {b, c}
    BY <1>3
  <1>4. CASE S = {a, b, c}
    BY <1>4
  <1> QED BY <1>1, <1>2, <1>3, <1>4

LEMMA RetryStep == LimiterInv => RetryAfterEnough
  <1> SUFFICES ASSUME LimiterInv, NEW ip \in IPs, NEW id \in Ids, Throttled(ip, id)
               PROVE  \E w \in 1..WindowSeconds :
                        /\ RetryAfter(ip, id, w)
                        /\ \A k \in KeySet(ip, id) :
                            Cardinality({i \in DOMAIN attempts[k] :
                                attempts[k][i] + Window > now + w * Second}) < Limit(k)
    BY DEF RetryAfterEnough
  <1> DEFINE full == {k \in KeySet(ip, id) : Len(Pruned(attempts[k])) >= Limit(k)}
  <1>1. /\ now \in Nat
        /\ \A k \in KeySet(ip, id) : /\ Sound(attempts[k], Limit(k))
                                     /\ Limit(k) \in Nat /\ Limit(k) >= 1
    BY KeysDiffer, WindowsMeans, Limits DEF LimiterInv, TypeOK
  <1>2. \A k \in full : Wait(Pruned(attempts[k])) \in 1..WindowSeconds
    BY <1>1, WaitRange
  <1>3. PICK k \in full : \A l \in full : Wait(Pruned(attempts[l])) =< Wait(Pruned(attempts[k]))
    <2> DEFINE f == [l \in full |-> Wait(Pruned(attempts[l]))]
    <2>1. full \in SUBSET {PairKey(ip, id), IpKey(ip), AccountKey(id)} /\ full # {}
      BY KeysDiffer DEF Throttled
    <2>2. \A l \in full : f[l] = Wait(Pruned(attempts[l])) /\ f[l] \in Nat
      BY <1>2
    <2> HIDE DEF f, full
    <2>3. \E l \in full : \A m \in full : f[m] =< f[l]
      BY <2>1, <2>2, LongestWait
    <2> QED BY <2>2, <2>3
  <1>4. PICK w \in 1..WindowSeconds : w = Wait(Pruned(attempts[k]))
    BY <1>2, <1>3
  <1>5. RetryAfter(ip, id, w)
    BY <1>3, <1>4 DEF RetryAfter
  <1>6. w \in Nat /\ w >= 1
    BY LimiterAssumption
  <1>7. ASSUME NEW l \in KeySet(ip, id)
        PROVE  Cardinality({i \in DOMAIN attempts[l] :
                   attempts[l][i] + Window > now + w * Second}) < Limit(l)
    <2>1. Len(Pruned(attempts[l])) >= Limit(l) => w >= Wait(Pruned(attempts[l]))
      <3> SUFFICES ASSUME l \in full PROVE w >= Wait(Pruned(attempts[l]))
        OBVIOUS
      <3>1. Wait(Pruned(attempts[l])) \in Nat
        BY <1>2
      <3> QED BY <1>3, <1>4, <1>6, <3>1
    <2> QED BY <1>1, <1>6, <2>1, CountedLater
  <1> QED BY <1>5, <1>7

\* Whoever waits as long as a refusal says, at most the window, finds all three
\* windows below their limits.
THEOREM RetryAfterSuffices == Spec => []RetryAfterEnough
  BY LimiterSound, RetryStep, PTL
-----------------------------------------------------------------------------
\* What is given up for room

LEMMA AdmittedEvicts ==
  ASSUME LimiterInv, NEW d \in Logins, NEW ip \in IPs, NEW id \in Ids, Admitted(d, ip, id),
         NEW k \in Table(attempts), k \notin Table(attempts'), k \notin KeySet(ip, id),
         ~Expired(Newest(attempts[k])),
         NEW l \in Table(attempts) \cap Table(attempts'), l \notin KeySet(ip, id)
  PROVE  ~Expired(Newest(attempts[l])) /\ <<k, l>> \in older
  <1> DEFINE windows == Looked(ip, id)
             stale   == {m \in Table(windows) : Expired(Newest(windows[m]))}
  <1>1. PICK gone \in SUBSET Table(windows) :
           Evicted(windows, gone) /\ attempts' = Recorded(windows, gone, KeySet(ip, id))
    BY DEF Admitted
  <1>2. k \in Keys /\ l \in Keys /\ attempts[k] # <<>> /\ attempts[l] # <<>>
    BY DEF Table
  <1>3. windows[k] = attempts[k] /\ windows[l] = attempts[l]
    BY <1>2 DEF Looked
  <1> HIDE DEF windows
  <1>4. k \in Table(windows) /\ l \in Table(windows) /\ k \notin stale
    BY <1>2, <1>3 DEF Table
  <1>5. /\ attempts'[k] = IF k \in gone THEN <<>> ELSE windows[k]
        /\ attempts'[l] = IF l \in gone THEN <<>> ELSE windows[l]
    BY <1>1, <1>2 DEF Recorded
  <1>6. k \in gone
    BY <1>2, <1>3, <1>5 DEF Table
  <1>7. l \notin gone
    BY <1>5 DEF Table
  <1>8. /\ stale \subseteq gone
        /\ \A m \in (Table(windows) \ stale) \cap gone, n \in Table(windows) \ gone : <<m, n>> \in older
    BY <1>1, <1>4, <1>6 DEF Evicted
  <1>9. l \notin stale
    BY <1>7, <1>8
  <1> QED BY <1>3, <1>4, <1>6, <1>7, <1>8, <1>9

\* A window that still counts gives way only to windows used later, when nothing
\* expired is left.
THEOREM EvictsExpiredFirst == Spec => LiveEvictedLast
  <1>1. LimiterInv /\ [Next]_vars =>
          [\A c \in Logins : logins[c] = None /\ logins'[c] # None =>
             LET own  == KeySet(logins'[c].ip, logins'[c].id)
                 kept == (Table(attempts) \cap Table(attempts')) \ own
             IN \A k \in Table(attempts) \ (Table(attempts') \cup own) :
                 ~Expired(Newest(attempts[k])) =>
                     \A l \in kept : ~Expired(Newest(attempts[l])) /\ <<k, l>> \in older]_vars
    <2> SUFFICES ASSUME LimiterInv, Next, NEW c \in Logins, logins[c] = None, logins'[c] # None
                 PROVE  LET own  == KeySet(logins'[c].ip, logins'[c].id)
                            kept == (Table(attempts) \cap Table(attempts')) \ own
                        IN \A k \in Table(attempts) \ (Table(attempts') \cup own) :
                            ~Expired(Newest(attempts[k])) =>
                                \A l \in kept : ~Expired(Newest(attempts[l])) /\ <<k, l>> \in older
      OBVIOUS
    <2>1. logins \in [Logins -> Login \cup {None}]
      BY DEF LimiterInv, TypeOK
    <2>2. PICK d \in Logins, ip \in IPs, id \in Ids : Admitted(d, ip, id)
      BY <2>1 DEF Next, Refused, Succeeded, Failed, Restart, Tick
    <2>3. logins'[c].ip = ip /\ logins'[c].id = id
      BY <2>1, <2>2 DEF Admitted
    <2> QED BY <2>2, <2>3, AdmittedEvicts
  <1> QED BY <1>1, LimiterSound, PTL DEF Spec, LiveEvictedLast
-----------------------------------------------------------------------------
\* Failures stay counted

InFlight(c, ip) == logins[c] # None /\ logins[c].ip = ip

\* The logins of one address do not overlap.
LoginsApart ==
    \A c, d \in Logins, ip \in IPs : InFlight(c, ip) /\ InFlight(d, ip) => c = d

\* Another attempt needs nothing given up.
HasRoom == Cardinality(Table(attempts)) + 3 =< MaxEntries

\* The deque is what is left of all once an expired head is gone.
TailOf(deque, all) ==
    \E n \in Nat : /\ Len(all) = Len(deque) + n
                   /\ \A i \in 1..Len(deque) : deque[i] = all[n + i]
                   /\ \A i \in 1..n : Expired(all[i])

\* The window of an address holds the failures and then the login in flight.
Ledger(ip) ==
    /\ (\A c \in Logins : ~InFlight(c, ip)) => TailOf(attempts[IpKey(ip)], failed[ip])
    /\ \A c \in Logins : InFlight(c, ip) =>
        TailOf(attempts[IpKey(ip)], Append(failed[ip], logins[c].at))

HistoryInv ==
    /\ failed \in [IPs -> Seq(Nat)]
    /\ \A ip \in IPs : Ledger(ip)

LEMMA ElementsOfSlice ==
  ASSUME NEW s \in Seq(Nat), NEW m \in 1..(Len(s) + 1), NEW l \in (m - 1)..Len(s)
  PROVE  /\ Len(SubSeq(s, m, l)) = l - m + 1
         /\ \A i \in 1..(l - m + 1) : SubSeq(s, m, l)[i] = s[m + i - 1]
  <1>1. Len(s) \in Nat /\ m \in Int /\ l \in Int /\ m >= 1 /\ l >= m - 1 /\ l =< Len(s)
    OBVIOUS
  <1>2. \A i \in m..l : s[i] \in Nat
    BY <1>1
  <1>3. /\ Len(SubSeq(s, m, l)) = IF m =< l THEN l - m + 1 ELSE 0
        /\ \A i \in 1..(l - m + 1) : SubSeq(s, m, l)[i] = s[m + i - 1]
    BY <1>1, <1>2, SubSeqProperties
  <1>4. (IF m =< l THEN l - m + 1 ELSE 0) = l - m + 1
    BY <1>1
  <1> QED BY <1>3, <1>4

LEMMA TailAppended ==
  ASSUME NEW deque \in Seq(Nat), NEW all \in Seq(Nat), NEW time \in Nat, TailOf(deque, all)
  PROVE  TailOf(Append(deque, time), Append(all, time))
  <1>1. PICK n \in Nat : /\ Len(all) = Len(deque) + n
                         /\ \A i \in 1..Len(deque) : deque[i] = all[n + i]
                         /\ \A i \in 1..n : Expired(all[i])
    BY DEF TailOf
  <1> DEFINE d == Append(deque, time)
             a == Append(all, time)
  <1>2. /\ Len(deque) \in Nat /\ Len(all) \in Nat
        /\ Len(d) = Len(deque) + 1 /\ Len(a) = Len(all) + 1
        /\ \A i \in 1..Len(deque) : d[i] = deque[i]
        /\ \A i \in 1..Len(all) : a[i] = all[i]
        /\ d[Len(deque) + 1] = time /\ a[Len(all) + 1] = time
    OBVIOUS
  <1> HIDE DEF d, a
  <1>3. Len(a) = Len(d) + n
    BY <1>1, <1>2
  <1>4. \A i \in 1..Len(d) : d[i] = a[n + i]
    <2> SUFFICES ASSUME NEW i \in 1..Len(d) PROVE d[i] = a[n + i]
      OBVIOUS
    <2>1. CASE i \in 1..Len(deque)
      <3>1. n + i \in 1..Len(all)
        BY <1>1, <1>2, <2>1
      <3> QED BY <1>1, <1>2, <2>1, <3>1
    <2>2. CASE i = Len(deque) + 1
      <3>1. n + i = Len(all) + 1
        BY <1>1, <1>2, <2>2
      <3> QED BY <1>2, <2>2, <3>1
    <2> QED BY <1>2, <2>1, <2>2
  <1>5. \A i \in 1..n : Expired(a[i])
    <2> SUFFICES ASSUME NEW i \in 1..n PROVE Expired(a[i])
      OBVIOUS
    <2>1. i \in 1..Len(all)
      BY <1>1, <1>2
    <2> QED BY <1>1, <1>2, <2>1
  <1>6. TailOf(d, a)
    BY <1>3, <1>4, <1>5 DEF TailOf
  <1> QED BY <1>6 DEF d, a

LEMMA TailPruned ==
  ASSUME now \in Nat, NEW deque, NEW most \in Nat, Sound(deque, most), NEW all, TailOf(deque, all)
  PROVE  TailOf(Pruned(deque), all)
  <1>1. PICK n \in Nat : /\ Len(all) = Len(deque) + n
                         /\ \A i \in 1..Len(deque) : deque[i] = all[n + i]
                         /\ \A i \in 1..n : Expired(all[i])
    BY DEF TailOf
  <1>2. PICK m \in 0..Len(deque) :
           /\ Pruned(deque) = SubSeq(deque, m + 1, Len(deque))
           /\ \A i \in 1..m : Expired(deque[i])
           /\ Len(Pruned(deque)) = Len(deque) - m
    BY PrunedExactly
  <1>3. deque \in Seq(Nat) /\ Len(deque) \in Nat /\ m \in Nat /\ m =< Len(deque)
    BY <1>2 DEF Sound
  <1>4. Len(all) = Len(Pruned(deque)) + (n + m) /\ n + m \in Nat
    BY <1>1, <1>2, <1>3
  <1>5. \A i \in 1..Len(Pruned(deque)) : Pruned(deque)[i] = all[n + m + i]
    <2> SUFFICES ASSUME NEW i \in 1..(Len(deque) - m)
                 PROVE  SubSeq(deque, m + 1, Len(deque))[i] = all[n + m + i]
      BY <1>2
    <2>1. m + 1 \in 1..(Len(deque) + 1) /\ Len(deque) \in (m + 1 - 1)..Len(deque)
      BY <1>3
    <2>2. SubSeq(deque, m + 1, Len(deque))[i] = deque[m + 1 + i - 1]
      <3>1. PICK l \in 1..(Len(deque) + 1) : l = m + 1 /\ Len(deque) \in (l - 1)..Len(deque)
        BY <2>1
      <3>2. i \in 1..(Len(deque) - l + 1)
        BY <1>3, <3>1
      <3>3. SubSeq(deque, l, Len(deque))[i] = deque[l + i - 1]
        BY <1>3, <3>1, <3>2, ElementsOfSlice
      <3> QED BY <3>1, <3>3
    <2>3. m + 1 + i - 1 = m + i /\ m + i \in 1..Len(deque) /\ n + (m + i) = n + m + i
      BY <1>1, <1>3
    <2> QED BY <1>1, <2>2, <2>3
  <1>6. \A i \in 1..(n + m) : Expired(all[i])
    <2> SUFFICES ASSUME NEW i \in 1..(n + m), i \notin 1..n PROVE Expired(all[i])
      BY <1>1
    <2>1. i - n \in 1..m /\ i - n \in 1..Len(deque) /\ n + (i - n) = i
      BY <1>1, <1>3
    <2> QED BY <1>1, <1>2, <2>1
  <1> QED BY <1>4, <1>5, <1>6 DEF TailOf

\* Without its last element the window is the tail of everything before it.
LEMMA TailShortened ==
  ASSUME NEW deque \in Seq(Nat), NEW all \in Seq(Nat), NEW time \in Nat,
         TailOf(deque, Append(all, time)), NEW short,
         deque # <<>> => short = SubSeq(deque, 1, Len(deque) - 1),
         deque = <<>> => short = <<>>
  PROVE  TailOf(short, all)
  <1>1. PICK n \in Nat : /\ Len(Append(all, time)) = Len(deque) + n
                         /\ \A i \in 1..Len(deque) : deque[i] = Append(all, time)[n + i]
                         /\ \A i \in 1..n : Expired(Append(all, time)[i])
    BY DEF TailOf
  <1>2. /\ Len(deque) \in Nat /\ Len(all) \in Nat
        /\ Len(Append(all, time)) = Len(all) + 1
        /\ \A i \in 1..Len(all) : Append(all, time)[i] = all[i]
    OBVIOUS
  <1>3. CASE deque = <<>>
    <2>1. Len(deque) = 0 /\ Len(short) = 0
      BY <1>3
    <2>2. Len(all) = Len(short) + Len(all)
      BY <1>2, <2>1
    <2>3. \A i \in 1..Len(short) : short[i] = all[Len(all) + i]
      BY <2>1
    <2>4. \A i \in 1..Len(all) : Expired(all[i])
      <3> SUFFICES ASSUME NEW i \in 1..Len(all) PROVE Expired(all[i])
        OBVIOUS
      <3>1. i \in 1..n
        BY <1>1, <1>2, <2>1
      <3> QED BY <1>1, <1>2, <3>1
    <2> QED BY <1>2, <2>2, <2>3, <2>4 DEF TailOf
  <1>4. CASE deque # <<>>
    <2>1. Len(deque) >= 1
      BY <1>2, <1>4, EmptySeq
    <2>2. PICK l : l = Len(deque) - 1 /\ l \in (1 - 1)..Len(deque)
      BY <1>2, <2>1
    <2>3. Len(short) = Len(deque) - 1
      <3>1. Len(SubSeq(deque, 1, l)) = l - 1 + 1
        BY <1>2, <2>2, ElementsOfSlice
      <3> QED BY <1>2, <1>4, <2>2, <3>1
    <2>4. \A i \in 1..Len(short) : short[i] = deque[i]
      <3> SUFFICES ASSUME NEW i \in 1..Len(short) PROVE short[i] = deque[i]
        OBVIOUS
      <3>1. i \in 1..(l - 1 + 1) /\ 1 + i - 1 = i /\ 1 \in 1..(Len(deque) + 1)
        BY <1>2, <2>2, <2>3
      <3>2. SubSeq(deque, 1, l)[i] = deque[1 + i - 1]
        BY <2>2, <3>1, ElementsOfSlice
      <3> QED BY <1>4, <2>2, <3>1, <3>2
    <2>5. Len(all) = Len(short) + n
      BY <1>1, <1>2, <2>3
    <2>6. \A i \in 1..Len(short) : short[i] = all[n + i]
      <3> SUFFICES ASSUME NEW i \in 1..Len(short) PROVE short[i] = all[n + i]
        OBVIOUS
      <3>1. i \in 1..Len(deque) /\ n + i \in 1..Len(all)
        BY <1>1, <1>2, <2>3, <2>5
      <3> QED BY <1>1, <1>2, <2>4, <3>1
    <2>7. \A i \in 1..n : Expired(all[i])
      <3> SUFFICES ASSUME NEW i \in 1..n PROVE Expired(all[i])
        OBVIOUS
      <3>1. i \in 1..Len(all)
        BY <1>2, <2>1, <2>3, <2>5
      <3> QED BY <1>1, <1>2, <3>1
    <2> QED BY <2>5, <2>6, <2>7 DEF TailOf
  <1> QED BY <1>3, <1>4

LEMMA HistoryRefines == HistoryNext => Next
  BY DEF HistoryNext, FailureSeen, RestartSeen, OtherSeen, Next

\* What is known of an address in every step.
LEMMA AddressFacts ==
  ASSUME LimiterInv, HistoryInv, NEW ip \in IPs
  PROVE  /\ now \in Nat
         /\ IpKey(ip) \in Keys
         /\ attempts[IpKey(ip)] \in Seq(Nat)
         /\ Limit(IpKey(ip)) \in Nat
         /\ Sound(attempts[IpKey(ip)], Limit(IpKey(ip)))
         /\ failed[ip] \in Seq(Nat)
         /\ \A c \in Logins : logins[c] # None => logins[c] \in Login /\ logins[c].at \in Nat
  <1>1. IpKey(ip) \in Keys
    BY DEF Keys
  <1> QED BY <1>1, Limits, WindowsMeans DEF LimiterInv, TypeOK, HistoryInv, Login

\* An untouched address, or one whose window was only pruned.
LEMMA LedgerKept ==
  ASSUME LimiterInv, HistoryInv, NEW ip \in IPs, now' = now,
         failed'[ip] = failed[ip],
         \A c \in Logins : InFlight(c, ip)' <=> InFlight(c, ip),
         \A c \in Logins : InFlight(c, ip) => logins'[c] = logins[c],
         attempts'[IpKey(ip)] \in {attempts[IpKey(ip)], Pruned(attempts[IpKey(ip)])}
  PROVE  Ledger(ip)'
  <1> DEFINE D == attempts[IpKey(ip)]
  <1>1. ASSUME NEW all, TailOf(D, all) PROVE TailOf(attempts'[IpKey(ip)], all)
    <2>1. TailOf(Pruned(D), all)
      BY <1>1, AddressFacts, TailPruned
    <2> QED BY <1>1, <2>1
  <1>2. Ledger(ip)
    BY DEF HistoryInv
  <1>3. ASSUME \A c \in Logins : ~InFlight(c, ip)'
        PROVE  TailOf(attempts[IpKey(ip)], failed[ip])'
    <2>1. TailOf(D, failed[ip])
      BY <1>2, <1>3 DEF Ledger
    <2>2. TailOf(attempts'[IpKey(ip)], failed[ip])
      BY <1>1, <2>1
    <2> QED BY <2>2 DEF TailOf, Expired, Window
  <1>4. ASSUME NEW c \in Logins, InFlight(c, ip)'
        PROVE  TailOf(attempts[IpKey(ip)], Append(failed[ip], logins[c].at))'
    <2>1. TailOf(D, Append(failed[ip], logins[c].at)) /\ logins'[c] = logins[c]
      BY <1>2, <1>4 DEF Ledger
    <2>2. TailOf(attempts'[IpKey(ip)], Append(failed[ip], logins[c].at))
      BY <1>1, <2>1
    <2>3. TailOf(attempts'[IpKey(ip)], Append(failed'[ip], logins'[c].at))
      BY <2>1, <2>2
    <2> QED BY <2>3 DEF TailOf, Expired, Window
  <1> QED BY <1>3, <1>4 DEF Ledger

LEMMA RefusedHistory ==
  ASSUME LimiterInv, HistoryInv, UNCHANGED failed,
         NEW ip \in IPs, NEW id \in Ids, Refused(ip, id)
  PROVE  HistoryInv'
  <1>1. ASSUME NEW j \in IPs PROVE Ledger(j)'
    <2>1. attempts'[IpKey(j)] \in {attempts[IpKey(j)], Pruned(attempts[IpKey(j)])}
      BY AddressFacts DEF Refused, Looked
    <2> QED BY <2>1, LedgerKept DEF Refused, InFlight
  <1> QED BY <1>1 DEF HistoryInv

LEMMA AdmittedHistory ==
  ASSUME LimiterInv, HistoryInv, HasRoom, LoginsApart', UNCHANGED failed,
         NEW c \in Logins, NEW ip \in IPs, NEW id \in Ids, Admitted(c, ip, id)
  PROVE  HistoryInv'
  <1> DEFINE windows == Looked(ip, id)
  <1>1. logins \in [Logins -> Login \cup {None}] /\ now \in Nat
    BY DEF LimiterInv, TypeOK
  <1>2. [ip |-> ip, id |-> id, at |-> now] \in Login
    BY <1>1 DEF Login
  <1>3. /\ \A d \in Logins \ {c} : logins'[d] = logins[d]
        /\ logins'[c] = [ip |-> ip, id |-> id, at |-> now] /\ logins'[c] # None
        /\ logins[c] = None /\ now' = now
    BY <1>1, <1>2, LimiterAssumption DEF Admitted
  <1>4. attempts' = Recorded(windows, {}, KeySet(ip, id))
    <2>1. PICK gone \in SUBSET Table(windows) :
             Evicted(windows, gone) /\ attempts' = Recorded(windows, gone, KeySet(ip, id))
      BY DEF Admitted
    <2>2. Table(windows) \subseteq Table(attempts)
      BY LookedSound DEF LimiterInv, Table
    <2>3. /\ IsFiniteSet(Table(attempts)) /\ Cardinality(Table(attempts)) \in Nat
          /\ Cardinality(Table(windows)) \in Nat
          /\ Cardinality(Table(windows)) =< Cardinality(Table(attempts))
      BY <2>2, FS_Subset, FS_CardinalityType DEF LimiterInv, TableBounded
    <2>4. Cardinality(Table(windows)) + 3 =< MaxEntries
      BY <2>3, LimiterAssumption DEF HasRoom
    <2>5. gone = {}
      BY <2>1, <2>4 DEF Evicted
    <2> QED BY <2>1, <2>5
  <1>5. ASSUME NEW j \in IPs, j # ip PROVE Ledger(j)'
    <2>1. IpKey(j) \in Keys /\ IpKey(j) \notin KeySet(ip, id)
      BY <1>5 DEF Keys, KeySet, PairKey, IpKey, AccountKey
    <2>2. attempts'[IpKey(j)] = attempts[IpKey(j)]
      BY <1>4, <2>1 DEF Recorded, Looked
    <2>3. \A d \in Logins : (InFlight(d, j)' <=> InFlight(d, j))
      BY <1>3, <1>5 DEF InFlight
    <2>4. \A d \in Logins : InFlight(d, j) => logins'[d] = logins[d]
      BY <1>3 DEF InFlight
    <2> QED BY <1>3, <2>2, <2>3, <2>4, LedgerKept
  <1>6. Ledger(ip)'
    <2> DEFINE D == attempts[IpKey(ip)]
    <2>1. \A d \in Logins : InFlight(d, ip)' <=> d = c
      BY <1>3 DEF InFlight, LoginsApart
    <2>2. \A d \in Logins : ~InFlight(d, ip)
      <3> SUFFICES ASSUME NEW d \in Logins, InFlight(d, ip) PROVE FALSE
        OBVIOUS
      <3>1. InFlight(d, ip)'
        BY <1>3 DEF InFlight
      <3> QED BY <1>3, <2>1, <3>1 DEF InFlight
    <2>3. TailOf(D, failed[ip])
      BY <2>2 DEF HistoryInv, Ledger
    <2>4. TailOf(Pruned(D), failed[ip]) /\ Pruned(D) \in Seq(Nat)
      BY <2>3, AddressFacts, TailPruned, PrunedSound DEF Sound
    <2>5. TailOf(Append(Pruned(D), now), Append(failed[ip], now))
      BY <2>4, AddressFacts, TailAppended
    <2>6. attempts'[IpKey(ip)] = Append(Pruned(D), now)
      BY <1>4, AddressFacts DEF Recorded, Looked, KeySet
    <2>7. TailOf(attempts[IpKey(ip)], Append(failed[ip], logins[c].at))'
      <3>1. logins'[c].at = now /\ failed'[ip] = failed[ip]
        BY <1>3
      <3>2. TailOf(attempts'[IpKey(ip)], Append(failed'[ip], logins'[c].at))
        BY <2>5, <2>6, <3>1
      <3> QED BY <1>3, <3>2 DEF TailOf, Expired, Window
    <2> QED BY <2>1, <2>7 DEF Ledger
  <1> QED BY <1>5, <1>6 DEF HistoryInv

LEMMA SucceededHistory ==
  ASSUME LimiterInv, HistoryInv, LoginsApart, UNCHANGED failed,
         NEW c \in Logins, Succeeded(c)
  PROVE  HistoryInv'
  <1>1. logins[c] \in Login /\ logins \in [Logins -> Login \cup {None}] /\ logins[c] # None
    BY DEF LimiterInv, TypeOK, Succeeded
  <1>2. PICK ip \in IPs, id \in Ids : ip = logins[c].ip /\ id = logins[c].id
    BY <1>1 DEF Login
  <1>3. /\ \A d \in Logins \ {c} : logins'[d] = logins[d]
        /\ logins'[c] = None /\ now' = now
        /\ attempts' = Cleared(ip, id)
    BY <1>1, <1>2 DEF Succeeded
  <1>4. ASSUME NEW j \in IPs, j # ip PROVE Ledger(j)'
    <2>1. IpKey(j) \in Keys /\ IpKey(j) \notin {PairKey(ip, id), AccountKey(id), IpKey(ip)}
      BY <1>4 DEF Keys, PairKey, IpKey, AccountKey
    <2>2. attempts'[IpKey(j)] = attempts[IpKey(j)]
      BY <1>3, <2>1 DEF Cleared
    <2>3. \A d \in Logins : (InFlight(d, j)' <=> InFlight(d, j))
      BY <1>2, <1>3, <1>4 DEF InFlight
    <2>4. \A d \in Logins : InFlight(d, j) => logins'[d] = logins[d]
      BY <1>2, <1>3, <1>4 DEF InFlight
    <2> QED BY <1>3, <2>2, <2>3, <2>4, LedgerKept
  <1>5. Ledger(ip)'
    <2> DEFINE D == attempts[IpKey(ip)]
    <2>1. \A d \in Logins : ~InFlight(d, ip)'
      BY <1>1, <1>2, <1>3 DEF InFlight, LoginsApart
    <2>2. TailOf(D, Append(failed[ip], logins[c].at))
      BY <1>1, <1>2 DEF HistoryInv, Ledger, InFlight
    <2>3. IpKey(ip) \notin {PairKey(ip, id), AccountKey(id)}
      BY DEF PairKey, IpKey, AccountKey
    <2>4. /\ D # <<>> => attempts'[IpKey(ip)] = SubSeq(D, 1, Len(D) - 1)
          /\ D = <<>> => attempts'[IpKey(ip)] = <<>>
      BY <1>3, <2>3, AddressFacts DEF Cleared
    <2>5. TailOf(attempts'[IpKey(ip)], failed[ip])
      BY <1>1, <2>2, <2>4, AddressFacts, TailShortened
    <2>6. TailOf(attempts[IpKey(ip)], failed[ip])'
      BY <1>3, <2>5 DEF TailOf, Expired
    <2> QED BY <2>1, <2>6 DEF Ledger
  <1> QED BY <1>4, <1>5 DEF HistoryInv

LEMMA FailureSeenHistory ==
  ASSUME LimiterInv, HistoryInv, LoginsApart, NEW c \in Logins, FailureSeen(c)
  PROVE  HistoryInv'
  <1>1. logins[c] \in Login /\ logins \in [Logins -> Login \cup {None}] /\ logins[c] # None
    BY DEF LimiterInv, TypeOK, FailureSeen, Failed
  <1>2. PICK ip \in IPs, at \in Nat : ip = logins[c].ip /\ at = logins[c].at
    BY <1>1 DEF Login
  <1>3. /\ \A d \in Logins \ {c} : logins'[d] = logins[d]
        /\ logins'[c] = None /\ UNCHANGED <<now, attempts>>
    BY <1>1 DEF FailureSeen, Failed
  <1>4. failed \in [IPs -> Seq(Nat)] /\ failed[ip] \in Seq(Nat) /\ Append(failed[ip], at) \in Seq(Nat)
    BY DEF HistoryInv
  <1>5. failed' = [failed EXCEPT ![ip] = Append(@, at)]
    BY <1>2 DEF FailureSeen
  <1>6. failed' \in [IPs -> Seq(Nat)] /\ failed'[ip] = Append(failed[ip], at)
    BY <1>4, <1>5
  <1>7. ASSUME NEW j \in IPs, j # ip PROVE Ledger(j)'
    <2>1. failed'[j] = failed[j] /\ attempts'[IpKey(j)] = attempts[IpKey(j)]
      BY <1>3, <1>4, <1>5, <1>7
    <2>2. \A d \in Logins : (InFlight(d, j)' <=> InFlight(d, j))
      BY <1>2, <1>3, <1>7 DEF InFlight
    <2>3. \A d \in Logins : InFlight(d, j) => logins'[d] = logins[d]
      BY <1>2, <1>3, <1>7 DEF InFlight
    <2> QED BY <1>3, <2>1, <2>2, <2>3, LedgerKept
  <1>8. Ledger(ip)'
    <2>1. \A d \in Logins : ~InFlight(d, ip)'
      BY <1>1, <1>2, <1>3 DEF InFlight, LoginsApart
    <2>2. TailOf(attempts[IpKey(ip)], Append(failed[ip], at))
      BY <1>1, <1>2 DEF HistoryInv, Ledger, InFlight
    <2>3. TailOf(attempts[IpKey(ip)], failed[ip])'
      BY <1>3, <1>6, <2>2 DEF TailOf, Expired
    <2> QED BY <2>1, <2>3 DEF Ledger
  <1> QED BY <1>6, <1>7, <1>8 DEF HistoryInv

LEMMA StartHistory ==
  ASSUME attempts = [k \in Keys |-> <<>>], logins = [c \in Logins |-> None],
         failed = [ip \in IPs |-> <<>>]
  PROVE  HistoryInv
  <1>1. ASSUME NEW ip \in IPs PROVE Ledger(ip)
    <2>1. attempts[IpKey(ip)] = <<>> /\ failed[ip] = <<>>
      BY DEF Keys
    <2>2. TailOf(<<>>, <<>>)
      <3>1. Len(<<>>) = Len(<<>>) + 0 /\ 0 \in Nat
        OBVIOUS
      <3>2. /\ \A i \in 1..Len(<<>>) : <<>>[i] = <<>>[0 + i]
            /\ \A i \in 1..0 : Expired(<<>>[i])
        OBVIOUS
      <3> QED BY <3>1, <3>2 DEF TailOf
    <2> QED BY <2>1, <2>2 DEF Ledger, InFlight
  <1> QED BY <1>1 DEF HistoryInv

LEMMA TickHistory ==
  ASSUME LimiterInv, HistoryInv, UNCHANGED failed, Tick
  PROVE  HistoryInv'
  <1>1. now \in Nat /\ now' = now + 1 /\ UNCHANGED <<attempts, logins>>
    BY DEF LimiterInv, TypeOK, Tick
  <1>2. ASSUME NEW time \in Nat, Expired(time) PROVE Expired(time)'
    <2>1. Window \in Nat
      BY LimiterAssumption DEF Window
    <2>2. Window' = Window
      BY DEF Window
    <2> QED BY <1>1, <1>2, <2>1, <2>2 DEF Expired
  <1>3. ASSUME NEW deque, NEW all \in Seq(Nat), TailOf(deque, all) PROVE TailOf(deque, all)'
    <2>1. PICK n \in Nat : /\ Len(all) = Len(deque) + n
                           /\ \A i \in 1..Len(deque) : deque[i] = all[n + i]
                           /\ \A i \in 1..n : Expired(all[i])
      BY <1>3 DEF TailOf
    <2>2. \A i \in 1..n : Expired(all[i])'
      BY <1>2, <2>1
    <2> QED BY <2>1, <2>2 DEF TailOf
  <1>4. ASSUME NEW ip \in IPs PROVE Ledger(ip)'
    <2>1. \A c \in Logins : InFlight(c, ip)' <=> InFlight(c, ip)
      BY <1>1 DEF InFlight
    <2>2. \A c \in Logins : InFlight(c, ip) => Append(failed[ip], logins[c].at) \in Seq(Nat)
      BY AddressFacts DEF InFlight
    <2>3. Ledger(ip) /\ failed[ip] \in Seq(Nat)
      BY DEF HistoryInv
    <2> QED BY <1>1, <1>3, <2>1, <2>2, <2>3 DEF Ledger
  <1> QED BY <1>4 DEF HistoryInv

LEMMA HistoryStep ==
  ASSUME LimiterInv, HistoryInv, HasRoom, LoginsApart, LoginsApart',
         [HistoryNext]_historyVars
  PROVE  HistoryInv'
  <1>1. CASE \E c \in Logins : FailureSeen(c)
    BY <1>1, FailureSeenHistory
  <1>2. CASE RestartSeen
    <2>1. (attempts = [k \in Keys |-> <<>>] /\ logins = [c \in Logins |-> None]
             /\ failed = [ip \in IPs |-> <<>>])'
      BY <1>2 DEF RestartSeen, Restart
    <2>2. HistoryInv'
      BY <2>1, StartHistory, PTL
    <2> QED BY <2>2
  <1>3. CASE OtherSeen
    BY <1>3, RefusedHistory, AdmittedHistory, SucceededHistory, TickHistory DEF OtherSeen
  <1>4. CASE UNCHANGED historyVars
    <2>1. UNCHANGED <<now, attempts, older, logins, failed>>
      BY <1>4 DEF historyVars, vars
    <2>2. \A ip \in IPs : Ledger(ip)'
      BY <2>1, LedgerKept DEF InFlight
    <2> QED BY <2>1, <2>2 DEF HistoryInv
  <1> QED BY <1>1, <1>2, <1>3, <1>4 DEF HistoryNext

\* A tail keeps whatever has not expired.
LEMMA TailKeeps ==
  ASSUME NEW deque, NEW all \in Seq(Nat), TailOf(deque, all), NEW time,
         deque \in Seq(Nat)
  PROVE  Recent(all, time) =< Recent(deque, time)
  <1>1. PICK n \in Nat : /\ Len(all) = Len(deque) + n
                         /\ \A i \in 1..Len(deque) : deque[i] = all[n + i]
                         /\ \A i \in 1..n : Expired(all[i])
    BY DEF TailOf
  <1> DEFINE A == {i \in DOMAIN all : all[i] = time /\ ~Expired(time)}
             D == {i \in DOMAIN deque : deque[i] = time /\ ~Expired(time)}
             f == [i \in A |-> i - n]
  <1>2. /\ Len(deque) \in Nat /\ Len(all) \in Nat
        /\ DOMAIN deque = 1..Len(deque) /\ DOMAIN all = 1..Len(all)
    OBVIOUS
  <1>3. ASSUME NEW i \in A PROVE i \in Int /\ i - n \in D
    <2>1. i \in 1..Len(all) /\ all[i] = time /\ ~Expired(time)
      BY <1>2
    <2>2. i \notin 1..n
      BY <1>1, <2>1
    <2>3. i - n \in 1..Len(deque) /\ n + (i - n) = i
      BY <1>1, <1>2, <2>1, <2>2
    <2> QED BY <1>1, <1>2, <2>1, <2>3
  <1>4. IsFiniteSet(D)
    <2>1. D \subseteq 1..Len(deque)
      BY <1>2
    <2> HIDE DEF D
    <2> QED BY <1>2, <2>1, UpTo, FS_Subset
  <1>5. \A i, j \in A : i - n = j - n => i = j
    BY <1>1, <1>3
  <1>6. f \in [A -> D] /\ \A i, j \in A : f[i] = f[j] => i = j
    BY <1>3, <1>5
  <1> HIDE DEF A, D, f
  <1>7. f \in Injection(A, D)
    BY <1>6 DEF Injection, IsInjective
  <1>8. Cardinality(A) =< Cardinality(D)
    BY <1>4, <1>7, FS_Injection
  <1> QED BY <1>8 DEF Recent, A, D

LEMMA HistoryRetains == LimiterInv /\ HistoryInv => FailuresRetained
  <1> SUFFICES ASSUME LimiterInv, HistoryInv, NEW ip \in IPs, NEW time
               PROVE  Recent(failed[ip], time) =< Recent(attempts[IpKey(ip)], time)
    BY DEF FailuresRetained
  <1>1. Ledger(ip)
    BY DEF HistoryInv
  <1>2. attempts[IpKey(ip)] \in Seq(Nat) /\ failed[ip] \in Seq(Nat)
    BY AddressFacts
  <1>3. CASE \A c \in Logins : ~InFlight(c, ip)
    BY <1>1, <1>2, <1>3, TailKeeps DEF Ledger
  <1>4. CASE \E c \in Logins : InFlight(c, ip)
    <2>1. PICK c \in Logins : InFlight(c, ip)
      BY <1>4
    <2>2. PICK all \in Seq(Nat) : all = Append(failed[ip], logins[c].at)
      <3>1. logins[c].at \in Nat
        BY <2>1, AddressFacts DEF InFlight
      <3>2. Append(failed[ip], logins[c].at) \in Seq(Nat)
        BY <1>2, <3>1
      <3> QED BY <3>2
    <2>3. Recent(all, time) =< Recent(attempts[IpKey(ip)], time)
      BY <1>1, <1>2, <2>1, <2>2, TailKeeps DEF Ledger
    <2>4. Recent(failed[ip], time) =< Recent(all, time)
      <3> DEFINE F == {i \in DOMAIN failed[ip] : failed[ip][i] = time /\ ~Expired(time)}
                 A == {i \in DOMAIN all : all[i] = time /\ ~Expired(time)}
      <3>1. /\ Len(failed[ip]) \in Nat /\ Len(all) = Len(failed[ip]) + 1
            /\ \A i \in 1..Len(failed[ip]) : all[i] = failed[ip][i]
        BY <1>2, <2>1, <2>2, AddressFacts DEF InFlight
      <3>2. F \subseteq A /\ A \subseteq 1..Len(all) /\ Len(all) \in Nat
        BY <1>2, <2>2, <3>1
      <3> HIDE DEF F, A
      <3>3. Cardinality(F) =< Cardinality(A)
        BY <3>2, UpTo, FS_Subset
      <3> QED BY <3>3 DEF Recent, F, A
    <2>5. /\ Recent(failed[ip], time) \in Int /\ Recent(all, time) \in Int
          /\ Recent(attempts[IpKey(ip)], time) \in Int
      <3>1. ASSUME NEW s \in Seq(Nat) PROVE Recent(s, time) \in Int
        <4> DEFINE S == {i \in DOMAIN s : s[i] = time /\ ~Expired(time)}
        <4>1. S \subseteq 1..Len(s) /\ Len(s) \in Nat
          OBVIOUS
        <4> HIDE DEF S
        <4>2. Cardinality(S) \in Nat
          BY <4>1, UpTo, FS_Subset, FS_CardinalityType
        <4> QED BY <4>2 DEF Recent, S
      <3> QED BY <1>2, <3>1
    <2> QED BY <2>3, <2>4, <2>5
  <1> QED BY <1>3, <1>4

\* clear retains prior failures of an address: as long as the logins of one
\* address do not overlap and the table has room for another attempt, every
\* failure of the last window is counted, whatever other addresses do.
THEOREM FailuresStayCounted ==
  HistorySpec /\ []LoginsApart /\ []HasRoom => []FailuresRetained
  <1>1. HistoryInit => Init /\ HistoryInv
    BY StartHistory DEF HistoryInit, Init
  <1>2. [HistoryNext]_historyVars => [Next]_vars
    BY HistoryRefines DEF historyVars
  <1>3. HistorySpec => []LimiterInv
    <2>1. HistorySpec => Spec
      BY <1>1, <1>2, PTL DEF HistorySpec, Spec
    <2> QED BY <2>1, LimiterSound, PTL
  <1>4. LimiterInv /\ HistoryInv /\ HasRoom /\ LoginsApart /\ LoginsApart'
          /\ [HistoryNext]_historyVars => HistoryInv'
    BY HistoryStep
  <1>5. LimiterInv /\ HistoryInv => FailuresRetained
    BY HistoryRetains
  <1> QED BY <1>1, <1>3, <1>4, <1>5, PTL DEF HistorySpec
=============================================================================
