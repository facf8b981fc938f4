----------------------------- MODULE HostStream -----------------------------
(***************************************************************************)
(* The long connection of one bot account (stream_host.go).  The host owns *)
(* the WebSocket: it calls ConnectStream, passes every frame it reads, with*)
(* the connection's state, to HandleStreamFrame, and writes back the       *)
(* response frames.  Lark splits a large event over several frames and     *)
(* sends an event again until it gets a success response.                  *)
(*                                                                         *)
(* The host reads a connection's frames one after another.  HandleEvent is *)
(* one step here, with the outcomes InboundEvent allows it.  Abstracted:   *)
(* the frames' encoding, the payload's bytes (a piece is named by its place*)
(* and its connection) and the health timestamps.                          *)
(***************************************************************************)
EXTENDS Integers, FiniteSets, Functions

CONSTANTS
    Keys,                \* dedupe keys
    Events,              \* what the platform sends: message, card or silent
    Intervals,           \* ping intervals a peer may announce, 0 for none
    DefaultPingInterval, \* larkDefaultPingInterval
    MaxConnections,      \* bound on connections
    MaxErrors,           \* bound on events whose handling fails
    MaxResends,          \* bound on resends before an answer
    MaxPongs             \* bound on pongs

\* "silent": a data frame of a type that is not an event; it gets no answer.
Kinds == {"message", "card", "silent"}

ASSUME StreamAssumption ==
    /\ \A e \in Events : /\ e.key \in Keys
                         /\ e.kind \in Kinds
                         /\ e.sum \in Nat \ {0}
    /\ \A e, f \in Events : e.key = f.key => e = f
    /\ Intervals \subseteq Nat
    /\ DefaultPingInterval \in Nat \ {0}
    /\ {MaxConnections, MaxErrors, MaxResends, MaxPongs} \subseteq Nat

VARIABLES
    epoch,        \* connections made so far
    up,           \* whether the latest one is alive
    wire,         \* frames on their way to the host
    replies,      \* response frames on their way to the platform
    fragments,    \* larkHostStreamState.Fragments, by event
    pingInterval, \* larkHostStreamState.PingInterval
    dispatched,   \* the latest payload given to the event dispatcher, if any
    created,      \* keys of the messages HandleEvent created
    acked,        \* events the platform is done with
    budget        \* errors, resends and pongs so far

vars == <<epoch, up, wire, replies, fragments, pingInterval, dispatched,
          created, acked, budget>>

Epochs == 1..MaxConnections

Piece(seq, n) == [seq |-> seq, epoch |-> n]

\* An empty slot of the table: len(item) == 0.
Missing == Piece(0, 0)

Frames(e, n) == {[event |-> e, piece |-> Piece(seq, n)] : seq \in 0..(e.sum - 1)}

\* The payload of event e as the platform sent it on connection n.
Whole(e, n) == [seq \in 0..(e.sum - 1) |-> Piece(seq, n)]

Slots(e) == [0..(e.sum - 1) -> {Missing} \cup
                {Piece(seq, n) : seq \in 0..(e.sum - 1), n \in Epochs}]

\* Types; the ping interval is positive whatever the endpoint and the pongs
\* announce, because the host's timer cannot do with another.
StreamTypeOK ==
    /\ epoch \in 0..MaxConnections
    /\ up \in BOOLEAN
    /\ wire \subseteq UNION {Frames(e, n) : e \in Events, n \in Epochs}
    /\ replies \subseteq [event : Events, ok : BOOLEAN]
    /\ DOMAIN fragments \subseteq Events
    /\ \A e \in DOMAIN fragments : fragments[e] \in Slots(e)
    /\ pingInterval \in Nat \ {0}
    /\ Cardinality(dispatched) <= 1
    /\ \A d \in dispatched : d.event \in Events /\ d.payload \in Slots(d.event)
    /\ created \subseteq Keys
    /\ acked \subseteq Events
    /\ budget \in [errors : 0..MaxErrors, resends : 0..MaxResends,
                   pongs : 0..MaxPongs]

Init ==
    /\ epoch = 0
    /\ up = FALSE
    /\ wire = {}
    /\ replies = {}
    /\ fragments = [e \in {} |-> Missing]
    /\ pingInterval = DefaultPingInterval
    /\ dispatched = {}
    /\ created = {}
    /\ acked = {}
    /\ budget = [errors |-> 0, resends |-> 0, pongs |-> 0]

-----------------------------------------------------------------------------
(* The connection                                                          *)

\* Mutant of ConnectStream: the table outlives the connection.
ConnectStreamKeepingState ==
    /\ ~up
    /\ epoch < MaxConnections
    /\ epoch' = epoch + 1
    /\ up' = TRUE
    /\ \E i \in Intervals :
           pingInterval' = IF i > 0 THEN i ELSE DefaultPingInterval
    /\ UNCHANGED <<wire, replies, fragments, dispatched, created, acked, budget>>

\* ConnectStream: a fresh state for the new connection.  When it fails the
\* host tries again and nothing has changed.
ConnectStream ==
    /\ ~up
    /\ epoch < MaxConnections
    /\ epoch' = epoch + 1
    /\ up' = TRUE
    /\ fragments' = [e \in {} |-> Missing]
    /\ \E i \in Intervals :
           pingInterval' = IF i > 0 THEN i ELSE DefaultPingInterval
    /\ UNCHANGED <<wire, replies, dispatched, created, acked, budget>>

\* The connection breaks: what was under way in either direction is lost.
\* The last one allowed stays, so that the bound is not an outage.
Disconnect ==
    /\ up
    /\ epoch < MaxConnections
    /\ up' = FALSE
    /\ wire' = {}
    /\ replies' = {}
    /\ UNCHANGED <<epoch, fragments, pingInterval, dispatched, created, acked,
                   budget>>

-----------------------------------------------------------------------------
(* The platform                                                            *)

Underway(e) ==
    \/ \E f \in wire : f.event = e
    \/ \E r \in replies : r.event = e

\* An event is sent in all its frames, again when nothing of it is under way
\* and sometimes before that.
PlatformSend(e) ==
    /\ up
    /\ e \notin acked
    /\ IF Underway(e)
       THEN /\ budget.resends < MaxResends
            /\ budget' = [budget EXCEPT !.resends = @ + 1]
       ELSE UNCHANGED budget
    /\ wire' = wire \cup Frames(e, epoch)
    /\ acked' = IF e.kind = "silent" THEN acked \cup {e} ELSE acked
    /\ UNCHANGED <<epoch, up, replies, fragments, pingInterval, dispatched,
                   created>>

\* A success response ends the event; any other leaves it to be sent again.
PlatformReceive(r) ==
    /\ r \in replies
    /\ replies' = replies \ {r}
    /\ acked' = IF r.ok THEN acked \cup {r.event} ELSE acked
    /\ UNCHANGED <<epoch, up, wire, fragments, pingInterval, dispatched, created,
                   budget>>

-----------------------------------------------------------------------------
(* HandleStreamFrame                                                       *)

\* combine: the entry of the frame's message once the frame is in it.
Filled(f) ==
    LET e == f.event
        slots == IF e \in DOMAIN fragments THEN fragments[e]
                 ELSE [i \in 0..(e.sum - 1) |-> Missing]
    IN  [i \in DOMAIN slots |-> IF i = f.piece.seq THEN f.piece ELSE slots[i]]

\* Mutant of Complete: having the last piece is taken for having all.
CompleteByLast(slots) ==
    \A i \in DOMAIN slots : i + 1 \in DOMAIN slots \/ slots[i] # Missing

Complete(slots) == \A i \in DOMAIN slots : slots[i] # Missing

\* A frame that does not complete its event is stored, without an answer.
StoreFragment(f) ==
    /\ f \in wire
    /\ ~Complete(Filled(f))
    /\ wire' = wire \ {f}
    /\ fragments' = [e \in DOMAIN fragments \cup {f.event} |->
                         IF e = f.event THEN Filled(f) ELSE fragments[e]]
    /\ UNCHANGED <<epoch, up, replies, pingInterval, dispatched, created, acked,
                   budget>>

\* delete(s.Fragments, messageID)
Forget(f) == fragments' = Restrict(fragments, DOMAIN fragments \ {f.event})

\* Mutant of Answer: an event whose handling failed gets a success response.
AnswerOk(e, ok) == replies' = replies \cup {[event |-> e, ok |-> TRUE]}

Answer(e, ok) == replies' = replies \cup {[event |-> e, ok |-> ok]}

\* The last missing frame arrives and a message or card event is handled:
\* response code 200.  A message exists now, created here or earlier.
Dispatch(f) ==
    /\ f \in wire
    /\ Complete(Filled(f))
    /\ f.event.kind # "silent"
    /\ wire' = wire \ {f}
    /\ Forget(f)
    /\ dispatched' = {[event |-> f.event, payload |-> Filled(f)]}
    /\ created' = IF f.event.kind = "message"
                  THEN created \cup {f.event.key} ELSE created
    /\ Answer(f.event, TRUE)
    /\ UNCHANGED <<epoch, up, pingInterval, acked, budget>>

\* The handler returns an error, before or after it created the message:
\* response code 500, next to an error that may keep the host from writing it.
DispatchFails(f) ==
    /\ f \in wire
    /\ Complete(Filled(f))
    /\ f.event.kind # "silent"
    /\ budget.errors < MaxErrors
    /\ budget' = [budget EXCEPT !.errors = @ + 1]
    /\ wire' = wire \ {f}
    /\ Forget(f)
    /\ dispatched' = {[event |-> f.event, payload |-> Filled(f)]}
    /\ created' \in {created, IF f.event.kind = "message"
                              THEN created \cup {f.event.key} ELSE created}
    /\ Answer(f.event, FALSE) \/ UNCHANGED replies
    /\ UNCHANGED <<epoch, up, pingInterval, acked>>

\* A complete payload that is not an event is dropped.
DropSilent(f) ==
    /\ f \in wire
    /\ Complete(Filled(f))
    /\ f.event.kind = "silent"
    /\ wire' = wire \ {f}
    /\ Forget(f)
    /\ UNCHANGED <<epoch, up, replies, pingInterval, dispatched, created, acked,
                   budget>>

\* Mutant of Pong: the announced interval is taken as it is.
PongUnchecked(i) ==
    /\ up
    /\ budget.pongs < MaxPongs
    /\ budget' = [budget EXCEPT !.pongs = @ + 1]
    /\ pingInterval' = i
    /\ UNCHANGED <<epoch, up, wire, replies, fragments, dispatched, created,
                   acked>>

\* handleLarkControlFrame on the answer to BuildStreamPing's ping; 0 stands
\* for an empty payload, one that does not parse and one without interval.
Pong(i) ==
    /\ up
    /\ budget.pongs < MaxPongs
    /\ budget' = [budget EXCEPT !.pongs = @ + 1]
    /\ pingInterval' = IF i > 0 THEN i ELSE pingInterval
    /\ UNCHANGED <<epoch, up, wire, replies, fragments, dispatched, created,
                   acked>>

HandleFrame(f) ==
    StoreFragment(f) \/ Dispatch(f) \/ DispatchFails(f) \/ DropSilent(f)

Idle ==
    /\ up
    /\ acked = Events
    /\ wire = {} /\ replies = {}
    /\ UNCHANGED vars

Next ==
    \/ ConnectStream
    \/ Disconnect
    \/ \E e \in Events : PlatformSend(e)
    \/ \E r \in replies : PlatformReceive(r)
    \/ \E f \in wire : HandleFrame(f)
    \/ \E i \in Intervals : Pong(i)
    \/ Idle

AllFrames == UNION {Frames(e, n) : e \in Events, n \in Epochs}
AllReplies == [event : Events, ok : BOOLEAN]

\* The host reconnects and reads every frame; the platform reads every
\* response and sends an event until it is acknowledged.
Fairness ==
    /\ WF_vars(ConnectStream)
    /\ \A e \in Events : WF_vars(~Underway(e) /\ PlatformSend(e))
    /\ \A r \in AllReplies : WF_vars(PlatformReceive(r))
    /\ \A f \in AllFrames : WF_vars(HandleFrame(f))

SafetySpec == Init /\ [][Next]_vars
Spec == SafetySpec /\ Fairness

-----------------------------------------------------------------------------
(* Properties                                                              *)

\* What the dispatcher gets is a whole event as sent on one connection: every
\* piece, each in its place, none of them from an earlier connection,
\* however the frames of several events and of resends interleave.
DispatchedWhole ==
    \A d \in dispatched : \E n \in Epochs : d.payload = Whole(d.event, n)

\* The fragment table holds only events that still wait for a piece: combine
\* leaves no complete event undispatched.  As long as the platform resends only
\* what is no longer under way, a live connection's table holds nothing of an
\* event the platform is done with, apart from one whose frames still arrive.
NoLeftovers ==
    /\ \A e \in DOMAIN fragments : ~Complete(fragments[e])
    /\ up /\ budget.resends = 0 =>
           \A e \in acked : e \in DOMAIN fragments => Underway(e)

\* Over broken connections, failing handlers and resends, a message event is
\* acknowledged only after its message exists, and every event eventually.
Contract == INSTANCE InboundContract
    WITH messages <- [k \in Keys |-> IF k \in created THEN 1 ELSE 0]
StreamDeliversAtLeastOnce == Contract!Spec
=============================================================================
