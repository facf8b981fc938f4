------------------------- MODULE AccountTouch_proofs -------------------------
(***************************************************************************)
(* Proofs about an account's bounded maps, for any keys, ids, limit, TTL   *)
(* and clock: they stay within the limit, a key stays for the TTL unless   *)
(* the limit's worth of others are as recent, and of the names only those  *)
(* that sort first are dropped.                                            *)
(***************************************************************************)
EXTENDS AccountTouch, FiniteSetTheorems, WellFoundedInduction, TLAPS

\* No key was recorded in the future.
IInv ==
    /\ TouchTypeOK
    /\ \A k \in Keys : marked[k] <= now
    /\ RecentKeysKept
    /\ names \subseteq learned
    /\ OnlyEarlyNamesDropped

-----------------------------------------------------------------------------
(* What pruning leaves                                                     *)

LEMMA MapsTracked ==
    ASSUME NEW K, NEW S, NEW values
    PROVE  values \in TrackedMaps(K, S) <=>
               /\ values = [k \in DOMAIN values |-> values[k]]
               /\ DOMAIN values \subseteq K
               /\ \A k \in DOMAIN values : values[k] \in S
  BY DEF TrackedMaps

\* Whatever pruneTimestampMap leaves is part of what it was given, and within
\* the limit; a key in time goes only for the limit's worth of recent others.
LEMMA PruneKeeps ==
    ASSUME NEW values, NEW at \in Nat, NEW left \in PruneTimestampMap(values, at),
           IsFiniteSet(DOMAIN values)
    PROVE  /\ left = [k \in DOMAIN left |-> left[k]]
           /\ DOMAIN left \subseteq DOMAIN values
           /\ \A k \in DOMAIN left : left[k] = values[k]
           /\ IsFiniteSet(DOMAIN left) /\ Cardinality(DOMAIN left) <= MaxTrackedStateKeys
           /\ \A k \in DOMAIN values :
                  ~Expired(values[k], at) /\ k \notin DOMAIN left =>
                      /\ Cardinality(DOMAIN left) = MaxTrackedStateKeys
                      /\ \A j \in DOMAIN left : values[k] <= values[j]
<1> DEFINE live == Live(values, at)
<1>1. live \subseteq DOMAIN values
  BY DEF Live
<1>2. PICK kept \in SUBSET live :
          /\ left = Restrict(values, kept)
          /\ \/ kept = live /\ Cardinality(live) <= MaxTrackedStateKeys
             \/ kept \in Newest(values, live)
  BY DEF PruneTimestampMap, Newest
<1>3. DOMAIN left = kept /\ left = [k \in kept |-> values[k]]
  <2>1. kept \subseteq DOMAIN values
    BY <1>1
  <2> QED
    BY <1>2, <2>1 DEF Restrict
<1>4. IsFiniteSet(kept)
  BY <1>1, FS_Subset
<1>5. Cardinality(kept) <= MaxTrackedStateKeys
  BY <1>2, TrackingAssumption DEF Newest
<1>6. ASSUME NEW k \in DOMAIN values, ~Expired(values[k], at), k \notin kept
      PROVE  /\ Cardinality(kept) = MaxTrackedStateKeys
             /\ \A j \in kept : values[k] <= values[j]
  <2>1. k \in live
    BY <1>6 DEF Live
  <2> QED
    BY <1>2, <1>6, <2>1 DEF Newest
<1> QED
  BY <1>1, <1>3, <1>4, <1>5, <1>6

LEMMA LeastElement ==
    ASSUME NEW S \in SUBSET Nat, S # {}
    PROVE  \E least \in S : \A m \in S : least <= m
<1>1. PICK least \in S : \A m \in S : <<m, least>> \notin OpToRel(<, Nat)
  BY NatLessThanWellFounded, WFMin
<1>2. ASSUME NEW m \in S PROVE least <= m
  <2>1. ~(m < least)
    BY <1>1 DEF OpToRel
  <2> QED
    BY <2>1
<1> QED
  BY <1>2

\* One name more than fits: only the one that sorts first is dropped.
LEMMA PruneNames ==
    ASSUME NEW ids \in SUBSET Nat, IsFiniteSet(ids),
           Cardinality(ids) <= MaxTrackedStateKeys + 1
    PROVE  \/ PruneStringMap(ids) = ids /\ Cardinality(ids) <= MaxTrackedStateKeys
           \/ \E least \in ids :
                  /\ PruneStringMap(ids) = ids \ {least}
                  /\ \A m \in ids : least <= m
                  /\ Cardinality(ids) = MaxTrackedStateKeys + 1
<1> DEFINE Above(n) == {m \in ids : m >= n}
<1>1. \A n : IsFiniteSet(Above(n)) /\ Cardinality(Above(n)) <= Cardinality(ids)
             /\ Cardinality(Above(n)) \in Nat
  BY FS_Subset, FS_CardinalityType
<1>2. Cardinality(ids) \in Nat /\ MaxTrackedStateKeys \in Nat
  BY FS_CardinalityType, TrackingAssumption
<1>3. PruneStringMap(ids) = {n \in ids : Cardinality(Above(n)) <= MaxTrackedStateKeys}
  BY DEF PruneStringMap
<1>4. CASE Cardinality(ids) <= MaxTrackedStateKeys
  <2>1. \A n \in ids : Cardinality(Above(n)) <= MaxTrackedStateKeys
    BY <1>1, <1>2, <1>4
  <2> QED
    BY <1>3, <1>4, <2>1
<1>5. CASE Cardinality(ids) = MaxTrackedStateKeys + 1
  <2>1. ids # {}
    BY <1>2, <1>5, FS_EmptySet
  <2>2. PICK least \in ids : \A m \in ids : least <= m
    BY <2>1, LeastElement
  <2>3. Above(least) = ids
    BY <2>2
  <2>4. ASSUME NEW n \in ids, n # least
        PROVE  Cardinality(Above(n)) <= MaxTrackedStateKeys
    <3>1. Above(n) \subseteq ids \ {least}
      BY <2>2, <2>4
    <3>2. /\ IsFiniteSet(ids \ {least})
          /\ Cardinality(ids \ {least}) = MaxTrackedStateKeys
      BY <1>2, <1>5, FS_RemoveElement
    <3> HIDE DEF Above
    <3> QED
      BY <3>1, <3>2, FS_Subset
  <2>5. ~(Cardinality(Above(least)) <= MaxTrackedStateKeys)
    BY <1>2, <1>5, <2>3
  <2> HIDE DEF Above
  <2>6. PruneStringMap(ids) = ids \ {least}
    BY <1>3, <2>4, <2>5
  <2> QED
    BY <1>5, <2>2, <2>6
<1> QED
  BY <1>2, <1>4, <1>5

-----------------------------------------------------------------------------
(* The invariant                                                           *)

\* The keys that are recorded no earlier than k.
AsRecent(k) == {j \in Keys : j # k /\ marked[j] >= marked[k]}

\* What RecentKeysKept says of a key.
Kept(k) ==
    /\ marked[k] # Unparsed
    /\ now - marked[k] <= TrackedStateTTL
    /\ Cardinality(AsRecent(k)) < MaxTrackedStateKeys
    => k \in DOMAIN seen

LEMMA KeysAsKept ==
    RecentKeysKept <=> /\ \A k \in Keys : Kept(k)
                       /\ \A k \in DOMAIN seen : seen[k] = marked[k]
  BY DEF RecentKeysKept, Kept, AsRecent

\* What TouchTypeOK says of the stored keys.
LEMMA SeenType ==
    ASSUME TouchTypeOK
    PROVE  /\ seen = [k \in DOMAIN seen |-> seen[k]]
           /\ DOMAIN seen \subseteq Keys /\ IsFiniteSet(DOMAIN seen)
           /\ now \in Nat \ {0} /\ marked \in [Keys -> Nat]
<1>1. seen = [k \in DOMAIN seen |-> seen[k]] /\ DOMAIN seen \subseteq Keys
  BY MapsTracked DEF TouchTypeOK
<1>2. IsFiniteSet(DOMAIN seen)
  BY <1>1, FS_Subset, TouchAssumption
<1> QED
  BY <1>1, <1>2, TouchAssumption DEF TouchTypeOK

LEMMA InitInv == Init => IInv
<1> SUFFICES ASSUME Init PROVE IInv
  OBVIOUS
<1>1. DOMAIN seen = Legacy /\ \A k \in Legacy : seen[k] = 0
  BY DEF Init, Unparsed
<1>2. seen \in TrackedMaps(Keys, 0..MaxTime)
  BY <1>1, MapsTracked, TouchAssumption DEF Init, Unparsed
<1>3. TouchTypeOK
  <2>1. Cardinality({}) = 0
    BY FS_EmptySet
  <2> QED
    BY <1>1, <1>2, <2>1, TouchAssumption, TrackingAssumption DEF Init, TouchTypeOK, Unparsed
<1>4. RecentKeysKept
  BY <1>1, TouchAssumption DEF Init, RecentKeysKept, Unparsed
<1> QED
  BY <1>3, <1>4 DEF Init, IInv, OnlyEarlyNamesDropped, Unparsed

\* A save that records the keys in R now: what is stored before pruning is the
\* old map with them, and none of the others is marked anew.
LEMMA TouchSeen ==
    ASSUME IInv, NEW R \in SUBSET Keys,
           NEW newSeen, newSeen = [j \in DOMAIN seen \cup R |->
                                       IF j \in R THEN now ELSE seen[j]],
           seen' \in PruneTimestampMap(newSeen, now), now' = now,
           marked' \in [Keys -> Nat],
           \A k \in Keys : marked'[k] = IF k \in R THEN now ELSE marked[k]
    PROVE  /\ RecentKeysKept'
           /\ seen' \in TrackedMaps(Keys, 0..MaxTime)
           /\ Cardinality(DOMAIN seen') <= MaxTrackedStateKeys
<1>0. /\ DOMAIN newSeen = DOMAIN seen \cup R /\ DOMAIN newSeen \subseteq Keys
      /\ now \in 1..MaxTime /\ MaxTime \in Nat /\ now \in Nat
      /\ marked \in [Keys -> Nat]
  BY SeenType, TouchAssumption DEF IInv, TouchTypeOK
<1>1. IsFiniteSet(DOMAIN newSeen)
  BY <1>0, FS_Subset, TouchAssumption
<1>2. \A k \in DOMAIN newSeen : newSeen[k] = marked'[k] /\ newSeen[k] <= now
  BY <1>0, KeysAsKept DEF IInv
<1>3. /\ seen' = [k \in DOMAIN seen' |-> seen'[k]]
      /\ DOMAIN seen' \subseteq DOMAIN newSeen
      /\ \A k \in DOMAIN seen' : seen'[k] = newSeen[k]
      /\ IsFiniteSet(DOMAIN seen') /\ Cardinality(DOMAIN seen') <= MaxTrackedStateKeys
      /\ \A k \in DOMAIN newSeen :
             ~Expired(newSeen[k], now) /\ k \notin DOMAIN seen' =>
                 /\ Cardinality(DOMAIN seen') = MaxTrackedStateKeys
                 /\ \A j \in DOMAIN seen' : newSeen[k] <= newSeen[j]
  <2>1. PICK left \in PruneTimestampMap(newSeen, now) : seen' = left
    OBVIOUS
  <2>2. /\ left = [k \in DOMAIN left |-> left[k]]
        /\ DOMAIN left \subseteq DOMAIN newSeen
        /\ \A k \in DOMAIN left : left[k] = newSeen[k]
        /\ IsFiniteSet(DOMAIN left) /\ Cardinality(DOMAIN left) <= MaxTrackedStateKeys
        /\ \A k \in DOMAIN newSeen :
               ~Expired(newSeen[k], now) /\ k \notin DOMAIN left =>
                   /\ Cardinality(DOMAIN left) = MaxTrackedStateKeys
                   /\ \A j \in DOMAIN left : newSeen[k] <= newSeen[j]
    BY <1>0, <1>1, PruneKeeps
  <2> QED
    BY <2>1, <2>2
<1>4. seen' \in TrackedMaps(Keys, 0..MaxTime)
  <2>1. \A k \in DOMAIN seen' : seen'[k] \in 0..MaxTime
    BY <1>0, <1>2, <1>3, SMTT(20)
  <2> QED
    BY <1>0, <1>3, <2>1, MapsTracked
<1>5. \A k \in DOMAIN seen' : seen'[k] = marked'[k]
  BY <1>2, <1>3
<1>6. ASSUME NEW k \in Keys, marked'[k] # Unparsed,
             now - marked'[k] <= TrackedStateTTL,
             Cardinality(AsRecent(k)') < MaxTrackedStateKeys
      PROVE  k \in DOMAIN seen'
  <2>1. IsFiniteSet(AsRecent(k)') /\ Cardinality(AsRecent(k)') \in Nat
    BY FS_Subset, FS_CardinalityType, TouchAssumption DEF AsRecent
  <2>2. k \in DOMAIN newSeen
    <3>1. CASE k \in R
      BY <1>0, <3>1
    <3>2. CASE k \notin R
      <4>1. marked'[k] = marked[k] /\ Kept(k)
        BY <3>2, KeysAsKept DEF IInv
      <4>2. AsRecent(k) \subseteq AsRecent(k)'
        <5>1. \A j \in Keys : marked'[j] >= marked[j]
          BY <1>0 DEF IInv
        <5> QED
          BY <1>0, <4>1, <5>1 DEF AsRecent
      <4>3. Cardinality(AsRecent(k)) <= Cardinality(AsRecent(k)')
        BY <2>1, <4>2, FS_Subset
      <4>4. Cardinality(AsRecent(k)) \in Nat
        BY FS_Subset, FS_CardinalityType, TouchAssumption DEF AsRecent
      <4>5. k \in DOMAIN seen
        BY <1>6, <2>1, <4>1, <4>3, <4>4, TrackingAssumption DEF Kept
      <4> QED
        BY <1>0, <4>5
    <3> QED
      BY <3>1, <3>2
  <2>3. ~Expired(newSeen[k], now)
    <3>1. newSeen[k] = marked'[k]
      BY <1>2, <2>2
    <3>2. now - marked'[k] \in Int /\ TrackedStateTTL \in Int
      BY <1>0, TrackingAssumption
    <3> QED
      BY <1>6, <3>1, <3>2 DEF Expired
  <2>4. CASE k \notin DOMAIN seen'
    <3>1. /\ Cardinality(DOMAIN seen') = MaxTrackedStateKeys
          /\ \A j \in DOMAIN seen' : newSeen[k] <= newSeen[j]
      BY <1>3, <2>2, <2>3, <2>4
    <3>2. DOMAIN seen' \subseteq AsRecent(k)'
      BY <1>0, <1>2, <1>3, <2>2, <2>4, <3>1 DEF AsRecent
    <3>3. Cardinality(DOMAIN seen') <= Cardinality(AsRecent(k)')
      BY <2>1, <3>2, FS_Subset
    <3> QED
      BY <1>6, <2>1, <3>1, <3>3, TrackingAssumption
  <2> QED
    BY <2>4
<1>7. RecentKeysKept'
  BY <1>5, <1>6 DEF RecentKeysKept, AsRecent
<1> QED
  BY <1>3, <1>4, <1>7

\* At most one name more, after which what was dropped before or is dropped now
\* sorts before all that stay.
LEMMA NamesAfter ==
    ASSUME NEW old \in SUBSET Nat, NEW known \in SUBSET Nat, NEW ids \in SUBSET Nat,
           IsFiniteSet(old), Cardinality(old) <= MaxTrackedStateKeys,
           IsFiniteSet(ids), Cardinality(ids) <= 1, old \subseteq known,
           \A n \in known \ old : /\ Cardinality(old) = MaxTrackedStateKeys
                                 /\ \A m \in old : m > n
    PROVE  LET new == PruneStringMap(old \cup ids)
           IN  /\ new \subseteq old \cup ids
               /\ Cardinality(new) <= MaxTrackedStateKeys
               /\ \A n \in (known \cup ids) \ new :
                      /\ Cardinality(new) = MaxTrackedStateKeys
                      /\ \A m \in new : m > n
<1> DEFINE all == old \cup ids
           new == PruneStringMap(all)
<1>1. MaxTrackedStateKeys \in Nat /\ Cardinality(old) \in Nat /\ Cardinality(ids) \in Nat
  BY FS_CardinalityType, TrackingAssumption
<1>2. ids = {} \/ \E x \in Nat : ids = {x}
  <2>1. Cardinality(ids) = 0 \/ Cardinality(ids) = 1
    BY <1>1
  <2> QED
    BY <2>1, FS_EmptySet, FS_Singleton
<1>3. /\ IsFiniteSet(all) /\ all \subseteq Nat
      /\ Cardinality(all) <= Cardinality(old) + 1
  <2>1. CASE ids = {}
    BY <1>1, <2>1
  <2>2. ASSUME NEW x \in Nat, ids = {x}
        PROVE  IsFiniteSet(all) /\ Cardinality(all) <= Cardinality(old) + 1
    <3>1. all = old \cup {x}
      BY <2>2
    <3>2. /\ IsFiniteSet(old \cup {x})
          /\ Cardinality(old \cup {x}) =
                 IF x \in old THEN Cardinality(old) ELSE Cardinality(old) + 1
      BY FS_AddElement
    <3> QED
      BY <1>1, <3>1, <3>2
  <2> QED
    BY <1>2, <2>1, <2>2
<1>4. Cardinality(all) \in Nat /\ Cardinality(all) <= MaxTrackedStateKeys + 1
  BY <1>1, <1>3, FS_CardinalityType
<1>5. old \subseteq all /\ all = old \cup ids
  OBVIOUS
<1> HIDE DEF all
<1>6. \/ new = all /\ Cardinality(all) <= MaxTrackedStateKeys
      \/ \E least \in all :
             /\ new = all \ {least} /\ \A m \in all : least <= m
             /\ Cardinality(all) = MaxTrackedStateKeys + 1
  BY <1>3, <1>4, PruneNames
<1> HIDE DEF new
<1>7. ASSUME new = all, Cardinality(all) <= MaxTrackedStateKeys
      PROVE  /\ new \subseteq all /\ Cardinality(new) <= MaxTrackedStateKeys
             /\ \A n \in (known \cup ids) \ new :
                    Cardinality(new) = MaxTrackedStateKeys /\ \A m \in new : m > n
  <2>1. ASSUME NEW n \in (known \cup ids) \ new
        PROVE  Cardinality(new) = MaxTrackedStateKeys /\ \A m \in new : m > n
    <3>1. n \in known \ old
      BY <1>5, <1>7, <2>1
    <3>2. Cardinality(old) = MaxTrackedStateKeys /\ \A m \in old : m > n
      BY <3>1
    <3>3. Cardinality(all) = Cardinality(old)
      <4>1. Cardinality(old) <= Cardinality(all)
        BY <1>3, <1>5, FS_Subset
      <4> QED
        BY <1>1, <1>4, <1>7, <3>2, <4>1
    <3>4. old = all
      BY <1>3, <1>5, <3>3, FS_Subset
    <3> QED
      BY <1>7, <3>2, <3>4
  <2> QED
    BY <1>7, <2>1
<1>8. ASSUME NEW least \in all, new = all \ {least}, \A m \in all : least <= m,
             Cardinality(all) = MaxTrackedStateKeys + 1
      PROVE  /\ new \subseteq all /\ Cardinality(new) = MaxTrackedStateKeys
             /\ \A n \in (known \cup ids) \ new, m \in new : m > n
  <2>1. Cardinality(all \ {least}) = MaxTrackedStateKeys
    <3>1. Cardinality(all \ {least}) = Cardinality(all) - 1
      BY <1>3, FS_RemoveElement
    <3> QED
      BY <1>1, <1>8, <3>1
  <2>2. ASSUME NEW n \in (known \cup ids) \ new, NEW m \in new PROVE m > n
    <3>0. m \in Nat /\ n \in Nat /\ least \in Nat /\ least # m /\ least <= m /\ m \in all
      BY <1>3, <1>8, <2>2
    <3>1. CASE n \in all
      <4>1. n = least
        BY <1>8, <2>2, <3>1
      <4> QED
        BY <3>0, <4>1
    <3>2. CASE n \notin all
      <4>1. Cardinality(old) = MaxTrackedStateKeys /\ \A q \in old : q > n
        BY <1>5, <2>2, <3>2
      <4>2. CASE least \in old
        <5>1. least > n
          BY <4>1, <4>2
        <5> QED
          BY <3>0, <5>1
      <4>3. CASE least \notin old
        <5>1. least \in ids
          BY <1>5, <4>3
        <5>2. m \in old
          BY <1>2, <1>5, <3>0, <5>1
        <5> QED
          BY <4>1, <5>2
      <4> QED
        BY <4>2, <4>3
    <3> QED
      BY <3>1, <3>2
  <2> QED
    BY <1>8, <2>1, <2>2
<1>9. /\ new \subseteq all /\ Cardinality(new) <= MaxTrackedStateKeys
      /\ \A n \in (known \cup ids) \ new :
             Cardinality(new) = MaxTrackedStateKeys /\ \A m \in new : m > n
  BY <1>1, <1>6, <1>7, <1>8
<1> QED
  BY <1>9 DEF new, all

\* A save with at most one name more.
LEMMA TouchNames ==
    ASSUME IInv, NEW ids \in SUBSET Ids, NewIds(ids),
           names' = PruneStringMap(names \cup ids), learned' = learned \cup ids
    PROVE  /\ names' \subseteq Ids /\ names' \subseteq learned'
           /\ learned' \subseteq Ids
           /\ Cardinality(names') <= MaxTrackedStateKeys
           /\ OnlyEarlyNamesDropped'
<1>1. /\ names \subseteq Ids /\ learned \subseteq Ids /\ names \subseteq learned
      /\ Ids \subseteq Nat /\ Cardinality(names) <= MaxTrackedStateKeys
      /\ IsFiniteSet(names) /\ IsFiniteSet(ids) /\ Cardinality(ids) <= 1
  BY FS_Subset, TouchAssumption DEF IInv, TouchTypeOK, NewIds
<1>2. \A n \in learned \ names : /\ Cardinality(names) = MaxTrackedStateKeys
                                 /\ \A m \in names : m > n
  BY DEF IInv, OnlyEarlyNamesDropped
<1>3. /\ names' \subseteq names \cup ids /\ Cardinality(names') <= MaxTrackedStateKeys
      /\ \A n \in learned' \ names' : /\ Cardinality(names') = MaxTrackedStateKeys
                                      /\ \A m \in names' : m > n
  BY <1>1, <1>2, NamesAfter
<1> QED
  BY <1>1, <1>3 DEF OnlyEarlyNamesDropped

LEMMA RecordInv ==
    ASSUME IInv, NEW k \in Keys, NEW ids \in SUBSET Ids,
           NewIds(ids), RecordInbound(k, ids)
    PROVE  IInv'
<1> DEFINE newSeen == [j \in DOMAIN seen \cup {k} |-> IF j = k THEN now ELSE seen[j]]
<1>1. /\ now \in Nat /\ now \in 0..MaxTime /\ now \in 1..MaxTime
      /\ marked \in [Keys -> Nat] /\ marked \in [Keys -> 0..MaxTime]
      /\ \A j \in Keys : marked[j] <= now
  BY SeenType, TouchAssumption DEF IInv, TouchTypeOK
<1>2. marked' = [marked EXCEPT ![k] = now] /\ now' = now
  BY DEF RecordInbound
<1>3. newSeen = [j \in DOMAIN seen \cup {k} |-> IF j \in {k} THEN now ELSE seen[j]]
  OBVIOUS
<1>4. seen' \in PruneTimestampMap(newSeen, now)
      /\ names' = PruneStringMap(names \cup ids) /\ learned' = learned \cup ids
  BY DEF RecordInbound, TouchAccount
<1> HIDE DEF newSeen
<1>5. /\ marked' \in [Keys -> Nat] /\ marked' \in [Keys -> 0..MaxTime]
      /\ \A j \in Keys : marked'[j] = IF j \in {k} THEN now ELSE marked[j]
      /\ \A j \in Keys : marked'[j] <= now'
  BY <1>1, <1>2
<1>6. /\ RecentKeysKept'
      /\ seen' \in TrackedMaps(Keys, 0..MaxTime)
      /\ Cardinality(DOMAIN seen') <= MaxTrackedStateKeys
  BY <1>2, <1>3, <1>4, <1>5, TouchSeen
<1>7. /\ names' \subseteq Ids /\ names' \subseteq learned' /\ learned' \subseteq Ids
      /\ Cardinality(names') <= MaxTrackedStateKeys /\ OnlyEarlyNamesDropped'
  BY <1>4, TouchNames
<1> QED
  BY <1>1, <1>2, <1>5, <1>6, <1>7 DEF IInv, TouchTypeOK

LEMMA SaveOtherInv == ASSUME IInv, SaveOther PROVE IInv'
<1>1. /\ seen' \in PruneTimestampMap(seen, now) /\ names' = PruneStringMap(names)
      /\ UNCHANGED <<now, marked, learned>>
  BY DEF SaveOther, TouchAccount
<1>2. marked \in [Keys -> Nat] /\ seen = [j \in DOMAIN seen |-> seen[j]]
  BY SeenType DEF IInv
<1>3. seen = [j \in DOMAIN seen \cup {} |-> IF j \in {} THEN now ELSE seen[j]]
  BY <1>2
<1>4. /\ RecentKeysKept'
      /\ seen' \in TrackedMaps(Keys, 0..MaxTime)
      /\ Cardinality(DOMAIN seen') <= MaxTrackedStateKeys
  <2>1. /\ now' = now /\ marked' \in [Keys -> Nat]
        /\ \A k \in Keys : marked'[k] = IF k \in {} THEN now ELSE marked[k]
    BY <1>1, <1>2
  <2> DEFINE none == {}
             newSeen == [j \in DOMAIN seen \cup none |-> IF j \in none THEN now ELSE seen[j]]
  <2>2. none \in SUBSET Keys /\ seen' \in PruneTimestampMap(newSeen, now)
    BY <1>1, <1>3
  <2>3. \A k \in Keys : marked'[k] = IF k \in none THEN now ELSE marked[k]
    BY <2>1
  <2> HIDE DEF none
  <2> QED
    BY <2>1, <2>2, <2>3, TouchSeen
<1>5. NewIds({})
  BY FS_EmptySet DEF NewIds
<1>6. /\ names' \subseteq Ids /\ names' \subseteq learned' /\ learned' \subseteq Ids
      /\ Cardinality(names') <= MaxTrackedStateKeys /\ OnlyEarlyNamesDropped'
  <2>1. names' = PruneStringMap(names \cup {}) /\ learned' = learned \cup {}
    BY <1>1
  <2> QED
    BY <1>5, <2>1, TouchNames
<1> QED
  BY <1>1, <1>4, <1>6 DEF IInv, TouchTypeOK

LEMMA TickInv == ASSUME IInv, Tick \/ UNCHANGED vars PROVE IInv'
<1>1. UNCHANGED <<seen, names, marked, learned>> /\ now' \in 1..MaxTime /\ now' >= now
  BY TouchAssumption DEF Tick, vars, IInv, TouchTypeOK
<1>2. TouchTypeOK' /\ \A k \in Keys : marked'[k] <= now'
  BY <1>1, TouchAssumption DEF IInv, TouchTypeOK
<1>3. RecentKeysKept'
  <2>1. ASSUME NEW k \in Keys, marked[k] # Unparsed, now' - marked[k] <= TrackedStateTTL,
               Cardinality(AsRecent(k)) < MaxTrackedStateKeys
        PROVE  k \in DOMAIN seen
    <3>1. now - marked[k] <= TrackedStateTTL
      BY <1>1, <2>1, SeenType, TrackingAssumption, TouchAssumption DEF IInv
    <3> QED
      BY <2>1, <3>1, KeysAsKept DEF IInv, Kept
  <2> QED
    BY <1>1, <2>1 DEF IInv, RecentKeysKept, AsRecent
<1> QED
  BY <1>1, <1>2, <1>3 DEF IInv, OnlyEarlyNamesDropped

-----------------------------------------------------------------------------
(* The theorems                                                            *)

LEMMA AlwaysIInv == Spec => []IInv
<1>1. Init => IInv
  BY InitInv
<1>2. IInv /\ [Next]_vars => IInv'
  BY RecordInv, SaveOtherInv, TickInv DEF Next
<1> QED
  BY <1>1, <1>2, PTL DEF Spec

\* TouchTypeOK: no save leaves more than maxTrackedStateKeys entries in a map.
THEOREM StaysBounded == Spec => []TouchTypeOK
<1>1. IInv => TouchTypeOK
  BY DEF IInv
<1> QED
  BY <1>1, AlwaysIInv, PTL

\* A recorded key stays for trackedStateTTL, whatever is recorded and saved in
\* between, unless maxTrackedStateKeys other keys are as recent.
THEOREM RecentKeysStay == Spec => []RecentKeysKept
<1>1. IInv => RecentKeysKept
  BY DEF IInv
<1> QED
  BY <1>1, AlwaysIInv, PTL

\* A learned name is missing only from a full cache of later ids.
THEOREM OnlyEarlyNamesGo == Spec => []OnlyEarlyNamesDropped
<1>1. IInv => OnlyEarlyNamesDropped
  BY DEF IInv
<1> QED
  BY <1>1, AlwaysIInv, PTL
=============================================================================
