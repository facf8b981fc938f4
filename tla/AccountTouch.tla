---------------------------- MODULE AccountTouch ----------------------------
(***************************************************************************)
(* One account's bounded state over time (state/state.go): keys recorded   *)
(* in inbound_seen and names learned into a display-name cache, and        *)
(* TouchAccount run by every save.  A single owner saves; InboundEvent has *)
(* the interleavings.                                                      *)
(***************************************************************************)
EXTENDS TrackedKeys

CONSTANTS
    Keys,      \* dedupe keys
    Ids,       \* user or chat ids, numbered in the order of sort.Strings
    Legacy,    \* keys stored before, with a text that is not a time
    MaxTime    \* bound on the clock

ASSUME TouchAssumption ==
    /\ IsFiniteSet(Keys)
    /\ Ids \subseteq Nat /\ IsFiniteSet(Ids)
    /\ Legacy \subseteq Keys /\ Cardinality(Legacy) <= MaxTrackedStateKeys
    /\ MaxTime \in Nat \ {0}

VARIABLES
    now,      \* the wall clock
    seen,     \* inbound_seen
    names,    \* the ids of a display-name cache
    marked,   \* when each key was last recorded, Unparsed if never
    learned   \* every id whose name was ever put in the cache

vars == <<now, seen, names, marked, learned>>

\* Types; no save leaves more than maxTrackedStateKeys entries in a tracked
\* map, so the state the host stores stays bounded however long it runs.
TouchTypeOK ==
    /\ now \in 1..MaxTime
    /\ seen \in TrackedMaps(Keys, 0..MaxTime)
    /\ Cardinality(DOMAIN seen) <= MaxTrackedStateKeys
    /\ names \subseteq Ids
    /\ Cardinality(names) <= MaxTrackedStateKeys
    /\ marked \in [Keys -> 0..MaxTime]
    /\ learned \subseteq Ids

Init ==
    /\ now = 1
    /\ seen = [k \in Legacy |-> Unparsed]
    /\ names = {}
    /\ marked = [k \in Keys |-> Unparsed]
    /\ learned = {}

\* TouchAccount on what the save is about to write.
TouchAccount(newSeen, newNames) ==
    /\ seen' \in PruneTimestampMap(newSeen, now)
    /\ names' = PruneStringMap(newNames)

\* processMessageEvent handles a message whose key it does not find, and may
\* have learned the sender's name on the way.
RecordInbound(k, ids) ==
    /\ k \notin DOMAIN seen
    /\ TouchAccount([j \in DOMAIN seen \cup {k} |->
                         IF j = k THEN now ELSE seen[j]],
                    names \cup ids)
    /\ marked' = [marked EXCEPT ![k] = now]
    /\ learned' = learned \cup ids
    /\ UNCHANGED now

\* A save of something else: a token, the bot's identity, a link session.
SaveOther ==
    /\ TouchAccount(seen, names)
    /\ UNCHANGED <<now, marked, learned>>

Tick ==
    /\ now < MaxTime
    /\ now' = now + 1
    /\ UNCHANGED <<seen, names, marked, learned>>

\* The name is looked up only when the cache does not hold it.
NewIds(ids) == ids \subseteq Ids \ names /\ Cardinality(ids) <= 1

Next ==
    \/ \E k \in Keys, ids \in SUBSET Ids : NewIds(ids) /\ RecordInbound(k, ids)
    \/ SaveOther
    \/ Tick

Spec == Init /\ [][Next]_vars

-----------------------------------------------------------------------------
(* Properties                                                              *)

\* The window within which a redelivered message is recognised: a key stays
\* for trackedStateTTL, unless maxTrackedStateKeys others were recorded no
\* earlier.  Legacy entries, which never expire, give way first.  What stays
\* is dated by its recording, never by a later save, so that it expires.
RecentKeysKept ==
    /\ \A k \in Keys :
           /\ marked[k] # Unparsed
           /\ now - marked[k] <= TrackedStateTTL
           /\ Cardinality({j \in Keys : j # k /\ marked[j] >= marked[k]})
                  < MaxTrackedStateKeys
           => k \in DOMAIN seen
    /\ \A k \in DOMAIN seen : seen[k] = marked[k]

\* A learned name is missing from the cache only when the cache is full of
\* ids that sort after it: below the limit nothing is forgotten, and at the
\* limit the same ids keep being looked up while the later ones stay.
OnlyEarlyNamesDropped ==
    \A n \in learned \ names :
        /\ Cardinality(names) = MaxTrackedStateKeys
        /\ \A m \in names : m > n
=============================================================================
