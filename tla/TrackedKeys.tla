---------------------------- MODULE TrackedKeys ----------------------------
(***************************************************************************)
(* The bounded maps of an account's state (state/state.go).                *)
(*                                                                         *)
(* A timestamped map (inbound_seen, sent_beak_messages) is a function from *)
(* the keys it holds to the moment each was recorded, in clock ticks; the  *)
(* clock starts at 1.  The stored form is text: a text that does not parse *)
(* as a time is the stamp Unparsed, the zero time of the sort.             *)
(*                                                                         *)
(* A name cache (user_display_names, chat_display_names) is the set of the *)
(* ids it holds, an id being its rank in the order of sort.Strings.        *)
(***************************************************************************)
EXTENDS Integers, FiniteSets, Functions

CONSTANTS
    MaxTrackedStateKeys,  \* maxTrackedStateKeys (4096 in the code)
    TrackedStateTTL       \* trackedStateTTL (seven days in the code)

ASSUME TrackingAssumption ==
    /\ MaxTrackedStateKeys \in Nat \ {0}
    /\ TrackedStateTTL \in Nat

Unparsed == 0

\* The maps with keys in K and stamps in Stamps.
TrackedMaps(K, Stamps) == UNION {[D -> Stamps] : D \in SUBSET K}

Expired(stamp, now) == stamp # Unparsed /\ now - stamp > TrackedStateTTL

Live(values, now) == {k \in DOMAIN values : ~Expired(values[k], now)}

\* Mutant of Newest: the sort is descending.
Oldest(values, live) ==
    {kept \in SUBSET live :
        /\ Cardinality(kept) = MaxTrackedStateKeys
        /\ \A k \in kept, d \in live \ kept : values[d] >= values[k]}

\* The sets of keys the size limit may leave.  sort.Slice is not stable and
\* the items come from a map's iteration, so which of several equally old
\* keys goes is not determined.
Newest(values, live) ==
    {kept \in SUBSET live :
        /\ Cardinality(kept) = MaxTrackedStateKeys
        /\ \A k \in kept, d \in live \ kept : values[d] <= values[k]}

\* Every map pruneTimestampMap(values, now) may leave behind.
PruneTimestampMap(values, now) ==
    LET live == Live(values, now)
    IN  IF Cardinality(live) <= MaxTrackedStateKeys
        THEN {Restrict(values, live)}
        ELSE {Restrict(values, kept) : kept \in Newest(values, live)}

\* Mutants of PruneStringMap: an off-by-one, and the other end of the order.
PruneStringMapLate(ids) ==
    {n \in ids : Cardinality({m \in ids : m > n}) <= MaxTrackedStateKeys}

PruneStringMapLast(ids) ==
    {n \in ids : Cardinality({m \in ids : m <= n}) <= MaxTrackedStateKeys}

\* What pruneStringMap leaves: the ids that sort last.
PruneStringMap(ids) ==
    {n \in ids : Cardinality({m \in ids : m >= n}) <= MaxTrackedStateKeys}
=============================================================================
