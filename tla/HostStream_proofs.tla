-------------------------- MODULE HostStream_proofs --------------------------
(***************************************************************************)
(* Proofs about the frames of a connection, for any events, intervals and  *)
(* bounds: type correctness, the two safety invariants, and the safety part*)
(* of the implementation of InboundContract.                               *)
(***************************************************************************)
EXTENDS HostStream, FiniteSetTheorems, TLAPS

Seqs(e) == 0..(e.sum - 1)
Frame(e, i) == [event |-> e, piece |-> Piece(i, epoch)]

\* Frames on the wire are of the present connection, and of a live one.
WireInv ==
    /\ up => epoch > 0
    /\ ~up => wire = {} /\ replies = {}
    /\ \A f \in wire : f.event \in Events /\ \E i \in Seqs(f.event) : f = Frame(f.event, i)

\* The table has pieces of the present connection, each in its place.
TableInv ==
    \A e \in DOMAIN fragments :
        /\ \A i \in Seqs(e) : fragments[e][i] \in {Missing, Piece(i, epoch)}
        /\ \E i \in Seqs(e) : fragments[e][i] = Missing

Open(e, i) == e \in DOMAIN fragments => fragments[e][i] = Missing

\* Without resends each piece of an event is either on the wire or in the
\* table, until the event is complete; only then is there a response.
Tidy(e) ==
    (\E f \in wire : f.event = e) \/ e \in DOMAIN fragments =>
        /\ \A i \in Seqs(e) : Frame(e, i) \in wire <=> Open(e, i)
        /\ \A r \in replies : r.event # e

\* A success response, or an acknowledgement, of a message comes after it.
AnswerInv ==
    /\ \A r \in replies : r.ok /\ r.event.kind = "message" => r.event.key \in created
    /\ \A e \in acked : e.kind = "message" => e.key \in created

IInv ==
    /\ StreamTypeOK
    /\ WireInv
    /\ TableInv
    /\ DispatchedWhole
    /\ up /\ budget.resends = 0 => \A e \in Events : Tidy(e)
    /\ AnswerInv

-----------------------------------------------------------------------------

\* Nothing is connected, sent or stored at first.
LEMMA InitInv == Init => IInv
<1> SUFFICES ASSUME Init PROVE IInv
  OBVIOUS
<1>1. StreamTypeOK
  <2>1. DOMAIN fragments = {} /\ wire = {} /\ replies = {} /\ dispatched = {}
    BY DEF Init
  <2>2. budget \in [errors : 0..MaxErrors, resends : 0..MaxResends, pongs : 0..MaxPongs]
    BY StreamAssumption DEF Init
  <2>3. Cardinality(dispatched) <= 1
    BY <2>1, FS_EmptySet
  <2>4. epoch \in 0..MaxConnections
    BY StreamAssumption DEF Init
  <2>5. up \in BOOLEAN /\ created \subseteq Keys /\ acked \subseteq Events
    BY DEF Init
  <2>6. pingInterval \in Nat \ {0}
    BY StreamAssumption DEF Init
  <2> QED
    BY <2>1, <2>2, <2>3, <2>4, <2>5, <2>6 DEF StreamTypeOK
<1> QED
  BY <1>1 DEF Init, IInv, WireInv, TableInv, DispatchedWhole, AnswerInv

\* What is known of a frame on the wire.
LEMMA FrameOnWire ==
    ASSUME IInv, NEW f \in wire
    PROVE  /\ f.event \in Events /\ f.event.sum \in Nat \ {0}
           /\ epoch \in Epochs /\ up
           /\ f.piece.seq \in Seqs(f.event)
           /\ f.piece = Piece(f.piece.seq, epoch)
           /\ f = Frame(f.event, f.piece.seq)
           /\ f.piece # Missing
<1>1. f.event \in Events /\ up
  BY DEF IInv, WireInv
<1>2. epoch \in Epochs
  BY <1>1 DEF IInv, WireInv, StreamTypeOK, Epochs
<1>3. PICK i \in Seqs(f.event) : f = Frame(f.event, i)
  BY DEF IInv, WireInv
<1>4. f.piece = Piece(i, epoch) /\ f.piece.seq = i
  BY <1>3 DEF Frame, Piece
<1>5. f.piece # Missing
  BY <1>2, <1>4 DEF Piece, Missing, Epochs
<1> QED
  BY <1>1, <1>2, <1>3, <1>4, <1>5, StreamAssumption

\* combine puts the frame's piece in its place and leaves the others.
LEMMA FilledSlots ==
    ASSUME IInv, NEW f \in wire
    PROVE  /\ Filled(f) \in Slots(f.event)
           /\ DOMAIN Filled(f) = Seqs(f.event)
           /\ Filled(f)[f.piece.seq] = f.piece
           /\ \A i \in Seqs(f.event) :
                  /\ Filled(f)[i] \in {Missing, Piece(i, epoch)}
                  /\ i # f.piece.seq =>
                         (Filled(f)[i] = Missing <=> Open(f.event, i))
<1> DEFINE e == f.event
           slots == IF e \in DOMAIN fragments THEN fragments[e]
                    ELSE [i \in 0..(e.sum - 1) |-> Missing]
<1>0. /\ e \in Events /\ epoch \in Epochs /\ f.piece.seq \in Seqs(e)
      /\ f.piece = Piece(f.piece.seq, epoch) /\ f.piece # Missing
  BY FrameOnWire
<1>1. DOMAIN slots = Seqs(e)
  BY DEF IInv, StreamTypeOK, Slots, Seqs
<1>2. \A i \in Seqs(e) : slots[i] \in {Missing, Piece(i, epoch)}
  BY DEF IInv, TableInv, Seqs
<1>3. Filled(f) = [i \in Seqs(e) |-> IF i = f.piece.seq THEN f.piece ELSE slots[i]]
  BY <1>1 DEF Filled
<1>4. \A i \in Seqs(e) : Filled(f)[i] \in {Missing, Piece(i, epoch)}
  BY <1>0, <1>2, <1>3
<1>5. \A i \in Seqs(e) : i # f.piece.seq => (Filled(f)[i] = Missing <=> Open(e, i))
  BY <1>3 DEF Open, Seqs
<1>6. Filled(f) \in Slots(e)
  BY <1>0, <1>3, <1>4 DEF Slots, Seqs
<1> QED
  BY <1>0, <1>3, <1>4, <1>5, <1>6

\* A complete event is the event as it was sent on this connection.
LEMMA CompleteIsWhole ==
    ASSUME IInv, NEW f \in wire, Complete(Filled(f))
    PROVE  Filled(f) = Whole(f.event, epoch)
<1>1. \A i \in Seqs(f.event) : Filled(f)[i] = Piece(i, epoch)
  BY FilledSlots DEF Complete
<1>2. DOMAIN Filled(f) = Seqs(f.event) /\ Filled(f) \in Slots(f.event)
  BY FilledSlots
<1> QED
  BY <1>1, <1>2 DEF Whole, Slots, Seqs

\* With the last piece of a tidy event nothing of it is left on the wire.
LEMMA CompleteLeavesWire ==
    ASSUME IInv, NEW f \in wire, Complete(Filled(f)), budget.resends = 0
    PROVE  \A g \in wire : g.event = f.event => g = f
<1> SUFFICES ASSUME NEW g \in wire, g.event = f.event, g # f PROVE FALSE
  OBVIOUS
<1>1. Tidy(f.event)
  BY FrameOnWire DEF IInv
<1>2. f = Frame(f.event, f.piece.seq) /\ g = Frame(f.event, g.piece.seq)
      /\ g.piece.seq \in Seqs(f.event)
  BY FrameOnWire
<1>3. g.piece.seq # f.piece.seq
  BY <1>2
<1>4. Open(f.event, g.piece.seq)
  BY <1>1, <1>2 DEF Tidy
<1>5. Filled(f)[g.piece.seq] = Missing
  BY <1>2, <1>3, <1>4, FilledSlots
<1> QED
  BY <1>2, <1>5, FilledSlots DEF Complete

-----------------------------------------------------------------------------
(* The steps                                                               *)

LEMMA ConnectStreamInv == ASSUME IInv, ConnectStream PROVE IInv'
<1>1. StreamTypeOK'
  BY StreamAssumption DEF ConnectStream, IInv, StreamTypeOK
<1>2. WireInv'
  BY DEF ConnectStream, IInv, WireInv, StreamTypeOK
<1>3. TableInv'
  BY DEF ConnectStream, TableInv
<1>4. DispatchedWhole'
  BY DEF ConnectStream, IInv, DispatchedWhole
<1>5. \A e \in Events : Tidy(e)'
  BY DEF ConnectStream, IInv, WireInv, Tidy
<1>6. AnswerInv'
  BY DEF ConnectStream, IInv, AnswerInv
<1> QED
  BY <1>1, <1>2, <1>3, <1>4, <1>5, <1>6 DEF IInv

LEMMA DisconnectInv == ASSUME IInv, Disconnect PROVE IInv'
<1>1. StreamTypeOK'
  <2>1. wire' = {} /\ replies' = {} /\ up' \in BOOLEAN
    BY DEF Disconnect
  <2>2. StreamTypeOK /\ UNCHANGED <<epoch, fragments, pingInterval, dispatched, created, acked, budget>>
    BY DEF Disconnect, IInv
  <2> QED
    BY <2>1, <2>2 DEF StreamTypeOK
<1>2. WireInv' /\ ~up'
  BY DEF Disconnect, WireInv
<1>3. TableInv'
  BY DEF Disconnect, IInv, TableInv
<1>4. DispatchedWhole' /\ AnswerInv'
  BY DEF Disconnect, IInv, DispatchedWhole, AnswerInv
<1> QED
  BY <1>1, <1>2, <1>3, <1>4 DEF IInv

LEMMA PlatformSendInv ==
    ASSUME IInv, NEW e \in Events, PlatformSend(e) PROVE IInv'
<1>1. up /\ epoch \in Epochs /\ epoch > 0
  BY DEF PlatformSend, IInv, WireInv, StreamTypeOK, Epochs
<1>2. \A i : i \in Seqs(e) => Frame(e, i) \in Frames(e, epoch)
  BY DEF Frame, Frames, Seqs
<1>3. \A f \in Frames(e, epoch) : f.event = e /\ \E i \in Seqs(e) : f = Frame(e, i)
  BY DEF Frame, Frames, Seqs
<1>4. StreamTypeOK'
  <2>1. wire' \subseteq UNION {Frames(d, n) : d \in Events, n \in Epochs}
    BY <1>1 DEF PlatformSend, IInv, StreamTypeOK
  <2>2. budget' \in [errors : 0..MaxErrors, resends : 0..MaxResends, pongs : 0..MaxPongs]
    BY StreamAssumption DEF PlatformSend, IInv, StreamTypeOK
  <2> QED
    BY <2>1, <2>2 DEF PlatformSend, IInv, StreamTypeOK
<1>5. WireInv'
  BY <1>1, <1>3 DEF PlatformSend, IInv, WireInv, Frame
<1>6. TableInv' /\ DispatchedWhole'
  BY DEF PlatformSend, IInv, TableInv, DispatchedWhole
<1>7. ASSUME budget'.resends = 0, NEW d \in Events PROVE Tidy(d)'
  <2>1. ~Underway(e) /\ budget.resends = 0
    BY <1>7 DEF PlatformSend, IInv, StreamTypeOK
  <2>2. Tidy(e) /\ Tidy(d)
    BY <1>1, <2>1 DEF IInv
  <2>3. e \notin DOMAIN fragments
    <3> SUFFICES ASSUME e \in DOMAIN fragments PROVE FALSE
      OBVIOUS
    <3>1. PICK i \in Seqs(e) : fragments[e][i] = Missing
      BY DEF IInv, TableInv
    <3>2. Frame(e, i) \in wire
      BY <2>2, <3>1 DEF Tidy, Open
    <3> QED
      BY <2>1, <3>2 DEF Underway, Frame
  <2>4. CASE d = e
    BY <1>2, <2>1, <2>3, <2>4 DEF PlatformSend, Tidy, Open, Underway, Frame
  <2>5. CASE d # e
    <3>1. \A i : Frame(d, i) \notin Frames(e, epoch)
      BY <1>3, <2>5 DEF Frame
    <3> QED
      BY <1>3, <2>2, <2>5, <3>1 DEF PlatformSend, Tidy, Open, Frame
  <2> QED
    BY <2>4, <2>5
<1>8. AnswerInv'
  BY DEF PlatformSend, IInv, AnswerInv
<1> QED
  BY <1>4, <1>5, <1>6, <1>7, <1>8 DEF IInv

LEMMA PlatformReceiveInv ==
    ASSUME IInv, NEW r \in replies, PlatformReceive(r) PROVE IInv'
<1>1. StreamTypeOK'
  BY DEF PlatformReceive, IInv, StreamTypeOK
<1>2. WireInv'
  BY DEF PlatformReceive, IInv, WireInv, Frame
<1>3. TableInv' /\ DispatchedWhole'
  BY DEF PlatformReceive, IInv, TableInv, DispatchedWhole
<1>4. \A e \in Events : Tidy(e) => Tidy(e)'
  BY DEF PlatformReceive, Tidy, Open, Frame
<1>5. AnswerInv'
  BY DEF PlatformReceive, IInv, AnswerInv
<1> QED
  BY <1>1, <1>2, <1>3, <1>4, <1>5 DEF IInv, PlatformReceive

LEMMA PongInv == ASSUME IInv, NEW i \in Intervals, Pong(i) PROVE IInv'
<1>1. StreamTypeOK'
  BY StreamAssumption DEF Pong, IInv, StreamTypeOK
<1>2. WireInv'
  BY DEF Pong, IInv, WireInv, Frame
<1>3. TableInv' /\ DispatchedWhole' /\ AnswerInv'
  BY DEF Pong, IInv, TableInv, DispatchedWhole, AnswerInv
<1>4. \A e \in Events : Tidy(e) => Tidy(e)'
  BY DEF Pong, Tidy, Open, Frame
<1>5. budget'.resends = budget.resends
  BY DEF Pong, IInv, StreamTypeOK
<1> QED
  BY <1>1, <1>2, <1>3, <1>4, <1>5 DEF IInv, Pong

LEMMA StoreFragmentInv ==
    ASSUME IInv, NEW f \in wire, StoreFragment(f) PROVE IInv'
<1> DEFINE e == f.event
<1>0. /\ e \in Events /\ epoch \in Epochs /\ f.piece.seq \in Seqs(e)
      /\ f = Frame(e, f.piece.seq) /\ f.piece # Missing
  BY FrameOnWire
<1>a. /\ DOMAIN fragments' = DOMAIN fragments \cup {e}
      /\ fragments'[e] = Filled(f)
      /\ \A d \in DOMAIN fragments : d # e => fragments'[d] = fragments[d]
  BY DEF StoreFragment
<1>1. StreamTypeOK'
  BY <1>0, <1>a, FilledSlots DEF StoreFragment, IInv, StreamTypeOK
<1>2. WireInv'
  BY DEF StoreFragment, IInv, WireInv, Frame
<1>3. TableInv'
  <2>1. \E i \in Seqs(e) : Filled(f)[i] = Missing
    BY FilledSlots DEF StoreFragment, Complete
  <2>2. \A i \in Seqs(e) : Filled(f)[i] \in {Missing, Piece(i, epoch)}
    BY FilledSlots
  <2> QED
    BY <1>a, <2>1, <2>2 DEF StoreFragment, IInv, TableInv
<1>4. DispatchedWhole' /\ AnswerInv'
  BY DEF StoreFragment, IInv, DispatchedWhole, AnswerInv
<1>5. ASSUME NEW d \in Events, \A c \in Events : Tidy(c) PROVE Tidy(d)'
  <2>1. Tidy(d)
    BY <1>5
  <2>2. CASE d = e
    <3>1. /\ \A i \in Seqs(e) : Frame(e, i) \in wire <=> Open(e, i)
          /\ \A r \in replies : r.event # e
      BY <2>1, <2>2 DEF Tidy
    <3>2. ASSUME NEW i \in Seqs(e) PROVE (Frame(e, i) \in wire)' <=> Open(e, i)'
      <4>1. Frame(e, i)' = Frame(e, i) /\ wire' = wire \ {f}
        BY DEF StoreFragment, Frame
      <4>2. Open(e, i)' <=> Filled(f)[i] = Missing
        BY <1>a DEF Open
      <4>3. CASE i = f.piece.seq
        BY <1>0, <4>1, <4>2, <4>3, FilledSlots
      <4>4. CASE i # f.piece.seq
        <5>1. Frame(e, i) # f
          BY <4>4, <1>0 DEF Frame, Piece
        <5> QED
          BY <3>1, <4>1, <4>2, <4>4, <5>1, FilledSlots
      <4> QED
        BY <4>3, <4>4
    <3> QED
      BY <2>2, <3>1, <3>2 DEF StoreFragment, Tidy
  <2>3. CASE d # e
    <3>1. \A i : Frame(d, i) # f
      BY <2>3 DEF Frame
    <3> QED
      BY <1>a, <2>1, <2>3, <3>1 DEF StoreFragment, Tidy, Open, Frame
  <2> QED
    BY <2>2, <2>3
<1> QED
  BY <1>1, <1>2, <1>3, <1>4, <1>5 DEF IInv, StoreFragment

\* The three steps that complete an event have this in common.
LEMMA CompletedInv ==
    ASSUME IInv, NEW f \in wire, Complete(Filled(f)),
           wire' = wire \ {f}, Forget(f), epoch' = epoch, up' = up,
           budget'.resends = budget.resends,
           \A r \in replies' : r \in replies \/ r.event = f.event
    PROVE  /\ WireInv'
           /\ TableInv'
           /\ \A e \in DOMAIN fragments' : fragments'[e] \in Slots(e)
           /\ DOMAIN fragments' \subseteq Events
           /\ (up /\ budget.resends = 0 => \A e \in Events : Tidy(e))'
<1>0. f.event \in Events /\ up
  BY FrameOnWire
<1>a. /\ DOMAIN fragments' = DOMAIN fragments \ {f.event}
      /\ \A e \in DOMAIN fragments' : fragments'[e] = fragments[e]
  BY DEF Forget, Restrict
<1>1. WireInv'
  BY <1>0 DEF IInv, WireInv, Frame
<1>2. TableInv'
  BY <1>a DEF IInv, TableInv
<1>3. (\A e \in DOMAIN fragments' : fragments'[e] \in Slots(e))
      /\ DOMAIN fragments' \subseteq Events
  BY <1>a DEF IInv, StreamTypeOK
<1>4. ASSUME budget.resends = 0, NEW e \in Events PROVE Tidy(e)'
  <2>1. Tidy(e)
    BY <1>0, <1>4 DEF IInv
  <2>2. CASE e = f.event
    BY <1>4, <1>a, <2>2, CompleteLeavesWire DEF Tidy
  <2>3. CASE e # f.event
    <3>1. \A i : Frame(e, i)' = Frame(e, i) /\ Frame(e, i) # f
      BY <2>3 DEF Frame
    <3> QED
      BY <1>a, <2>1, <2>3, <3>1 DEF Tidy, Open
  <2> QED
    BY <2>2, <2>3
<1> QED
  BY <1>1, <1>2, <1>3, <1>4

LEMMA DispatchInv ==
    ASSUME IInv, NEW f \in wire, Dispatch(f) \/ DispatchFails(f) PROVE IInv'
<1>0. /\ f.event \in Events /\ f.event.key \in Keys /\ epoch \in Epochs
      /\ Filled(f) \in Slots(f.event)
  BY FrameOnWire, FilledSlots, StreamAssumption
<1>1. /\ Complete(Filled(f)) /\ wire' = wire \ {f} /\ Forget(f)
      /\ epoch' = epoch /\ up' = up /\ acked' = acked
      /\ pingInterval' = pingInterval
      /\ dispatched' = {[event |-> f.event, payload |-> Filled(f)]}
      /\ created' \in {created, IF f.event.kind = "message"
                                THEN created \cup {f.event.key} ELSE created}
  BY DEF Dispatch, DispatchFails
<1>2. budget' \in [errors : 0..MaxErrors, resends : 0..MaxResends, pongs : 0..MaxPongs]
      /\ budget'.resends = budget.resends
  <2>1. budget \in [errors : 0..MaxErrors, resends : 0..MaxResends, pongs : 0..MaxPongs]
    BY DEF IInv, StreamTypeOK
  <2>2. \/ budget' = budget
        \/ budget.errors < MaxErrors /\ budget' = [budget EXCEPT !.errors = @ + 1]
    BY DEF Dispatch, DispatchFails
  <2> QED
    BY <2>1, <2>2, StreamAssumption
<1>3. ASSUME NEW r \in replies'
      PROVE  /\ r \in [event : Events, ok : BOOLEAN]
             /\ r \in replies \/ r.event = f.event
             /\ r.ok /\ r.event.kind = "message" => r.event.key \in created'
  <2>1. CASE r \in replies
    <3>1. /\ r \in [event : Events, ok : BOOLEAN]
          /\ r.ok /\ r.event.kind = "message" => r.event.key \in created
      BY <2>1 DEF IInv, StreamTypeOK, AnswerInv
    <3>2. created \subseteq created'
      BY <1>1
    <3> QED
      BY <2>1, <3>1, <3>2
  <2>2. CASE r \notin replies
    <3>1. PICK b \in BOOLEAN : /\ r = [event |-> f.event, ok |-> b]
                               /\ b => Dispatch(f)
      BY <2>2 DEF Dispatch, DispatchFails, Answer
    <3>2. b /\ f.event.kind = "message" => f.event.key \in created'
      BY <3>1 DEF Dispatch
    <3>3. r.ok = b /\ r.event = f.event
      BY <3>1
    <3> QED
      BY <1>0, <3>1, <3>2, <3>3
  <2> QED
    BY <2>1, <2>2
<1>4. /\ WireInv' /\ TableInv'
      /\ \A e \in DOMAIN fragments' : fragments'[e] \in Slots(e)
      /\ DOMAIN fragments' \subseteq Events
      /\ (up /\ budget.resends = 0 => \A e \in Events : Tidy(e))'
  BY <1>1, <1>2, <1>3, CompletedInv
<1>5. Cardinality(dispatched') <= 1
  <2> DEFINE payload == [event |-> f.event, payload |-> Filled(f)]
  <2>1. dispatched' = {payload}
    BY <1>1
  <2> HIDE DEF payload
  <2> QED
    BY <2>1, FS_Singleton
<1>6. StreamTypeOK'
  BY <1>0, <1>1, <1>2, <1>3, <1>4, <1>5 DEF IInv, StreamTypeOK
<1>7. DispatchedWhole'
  BY <1>0, <1>1, CompleteIsWhole DEF DispatchedWhole
<1>8. AnswerInv'
  BY <1>1, <1>3 DEF IInv, AnswerInv
<1> QED
  BY <1>4, <1>6, <1>7, <1>8 DEF IInv

LEMMA DropSilentInv == ASSUME IInv, NEW f \in wire, DropSilent(f) PROVE IInv'
<1>1. /\ WireInv' /\ TableInv'
      /\ \A e \in DOMAIN fragments' : fragments'[e] \in Slots(e)
      /\ DOMAIN fragments' \subseteq Events
      /\ (up /\ budget.resends = 0 => \A e \in Events : Tidy(e))'
  BY CompletedInv DEF DropSilent
<1>2. StreamTypeOK'
  BY <1>1 DEF DropSilent, IInv, StreamTypeOK
<1>3. DispatchedWhole' /\ AnswerInv'
  BY DEF DropSilent, IInv, DispatchedWhole, AnswerInv
<1> QED
  BY <1>1, <1>2, <1>3 DEF IInv

LEMMA StutterInv == ASSUME IInv, UNCHANGED vars PROVE IInv'
<1>1. StreamTypeOK'
  BY DEF vars, IInv, StreamTypeOK
<1>2. WireInv' /\ TableInv' /\ DispatchedWhole' /\ AnswerInv'
  BY DEF vars, IInv, WireInv, TableInv, DispatchedWhole, AnswerInv, Frame
<1>3. \A e \in Events : Tidy(e) => Tidy(e)'
  BY DEF vars, Tidy, Open, Frame
<1> QED
  BY <1>1, <1>2, <1>3 DEF IInv, vars

LEMMA NextInv == IInv /\ [Next]_vars => IInv'
<1> SUFFICES ASSUME IInv, [Next]_vars PROVE IInv'
  OBVIOUS
<1>1. ASSUME NEW f \in wire, HandleFrame(f) PROVE IInv'
  BY <1>1, StoreFragmentInv, DispatchInv, DropSilentInv DEF HandleFrame
<1>2. CASE Idle \/ UNCHANGED vars
  BY <1>2, StutterInv DEF Idle
<1> QED
  BY <1>1, <1>2, ConnectStreamInv, DisconnectInv, PlatformSendInv,
     PlatformReceiveInv, PongInv DEF Next

\* Every reachable state satisfies the invariant.
LEMMA AlwaysIInv == SafetySpec => []IInv
  BY InitInv, NextInv, PTL DEF SafetySpec

-----------------------------------------------------------------------------

(***************************************************************************)
(* StreamTypeOK: among the types, that the host's ping timer always gets a       *)
(* positive interval, whatever the endpoint and the pongs announce.        *)
(***************************************************************************)
THEOREM TypeCorrect == SafetySpec => []StreamTypeOK
<1>1. IInv => StreamTypeOK
  BY DEF IInv
<1> QED
  BY <1>1, AlwaysIInv, PTL

(***************************************************************************)
(* What the dispatcher gets is a whole event of one connection, however the*)
(* frames of any number of events, in any number of pieces, interleave.    *)
(***************************************************************************)
THEOREM OnlyWholeEvents == SafetySpec => []DispatchedWhole
<1>1. IInv => DispatchedWhole
  BY DEF IInv
<1> QED
  BY <1>1, AlwaysIInv, PTL

(***************************************************************************)
(* The fragment table keeps no complete event, and without early resends   *)
(* nothing of an event that the platform is done with.                     *)
(***************************************************************************)
THEOREM NothingLeftOver == SafetySpec => []NoLeftovers
<1>1. IInv => NoLeftovers
  <2> SUFFICES ASSUME IInv PROVE NoLeftovers
    OBVIOUS
  <2>1. ASSUME NEW e \in DOMAIN fragments
        PROVE  \E i \in Seqs(e) : fragments[e][i] = Missing /\ i \in DOMAIN fragments[e]
    <3>1. PICK i \in Seqs(e) : fragments[e][i] = Missing
      BY DEF IInv, TableInv
    <3>2. fragments[e] \in Slots(e)
      BY DEF IInv, StreamTypeOK
    <3> QED
      BY <3>1, <3>2 DEF Slots, Seqs
  <2>2. ASSUME up, budget.resends = 0, NEW e \in DOMAIN fragments PROVE Underway(e)
    <3>1. Tidy(e)
      BY <2>2 DEF IInv, StreamTypeOK
    <3>2. PICK i \in Seqs(e) : fragments[e][i] = Missing
      BY <2>1
    <3>3. Frame(e, i) \in wire
      BY <3>1, <3>2 DEF Tidy, Open
    <3> QED
      BY <3>3 DEF Underway, Frame
  <2> QED
    BY <2>1, <2>2 DEF NoLeftovers, Complete
<1> QED
  BY <1>1, AlwaysIInv, PTL

\* A frame acknowledges nothing and creates at most its event's message.
LEMMA FrameEffects ==
    ASSUME NEW f, HandleFrame(f)
    PROVE  /\ acked' = acked
           /\ \/ created' = created
              \/ f.event.kind = "message" /\ created' = created \cup {f.event.key}
<1>1. CASE StoreFragment(f)
  BY <1>1 DEF StoreFragment
<1>2. CASE DropSilent(f)
  BY <1>2 DEF DropSilent
<1>3. CASE Dispatch(f)
  BY <1>3 DEF Dispatch
<1>4. CASE DispatchFails(f)
  BY <1>4 DEF DispatchFails
<1> QED
  BY <1>1, <1>2, <1>3, <1>4 DEF HandleFrame

(***************************************************************************)
(* A step of the stream creates the message of one event, acknowledges one *)
(* event, or does nothing that the contract sees.                          *)
(***************************************************************************)
LEMMA StepRefines ==
    ASSUME IInv, [Next]_vars
    PROVE  [Contract!Next]_(Contract!vars)
<1> USE DEF Contract!Next, Contract!vars, Contract!Create, Contract!Ack
<1>1. ASSUME NEW f \in wire, HandleFrame(f) PROVE [Contract!Next]_(Contract!vars)
  <2>0. f.event \in Events /\ f.event.key \in Keys
    BY FrameOnWire, StreamAssumption
  <2>1. acked' = acked
        /\ \/ created' = created
           \/ f.event.kind = "message" /\ created' = created \cup {f.event.key}
    BY <1>1, FrameEffects
  <2>2. CASE created' = created
    BY <2>1, <2>2
  <2>3. CASE created' # created
    <3>1. /\ f.event.kind = "message" /\ f.event.key \notin created
          /\ created' = created \cup {f.event.key}
      BY <2>1, <2>3
    <3>2. [k \in Keys |-> IF k \in created' THEN 1 ELSE 0]
             = [[k \in Keys |-> IF k \in created THEN 1 ELSE 0]
                    EXCEPT ![f.event.key] = @ + 1]
      BY <2>0, <3>1
    <3> QED
      BY <2>0, <2>1, <3>1, <3>2
  <2> QED
    BY <2>2, <2>3
<1>2. ASSUME NEW r \in replies, PlatformReceive(r) PROVE [Contract!Next]_(Contract!vars)
  <2>1. /\ r.event \in Events /\ r.event.key \in Keys /\ created' = created
        /\ acked' = IF r.ok THEN acked \cup {r.event} ELSE acked
        /\ r.ok /\ r.event.kind = "message" => r.event.key \in created
    BY <1>2, StreamAssumption DEF PlatformReceive, IInv, StreamTypeOK, AnswerInv
  <2>2. CASE r.ok
    <3>1. Contract!Ack(r.event)
      BY <2>1, <2>2
    <3> QED
      BY <2>1, <3>1
  <2>3. CASE ~r.ok
    <3>1. UNCHANGED <<created, acked>>
      BY <2>1, <2>3
    <3> QED
      BY <3>1
  <2> QED
    BY <2>2, <2>3
<1>3. ASSUME NEW e \in Events, PlatformSend(e) PROVE [Contract!Next]_(Contract!vars)
  BY <1>3 DEF PlatformSend
<1>4. ASSUME \/ ConnectStream \/ Disconnect \/ Idle \/ UNCHANGED vars
             \/ \E i \in Intervals : Pong(i)
      PROVE  UNCHANGED <<created, acked>>
  BY <1>4 DEF ConnectStream, Disconnect, Idle, Pong, vars
<1> QED
  BY <1>1, <1>2, <1>3, <1>4 DEF Next

(***************************************************************************)
(* Over broken connections, failing handlers and resends the stream keeps  *)
(* the contract's promise: an event is acknowledged only after its message.*)
(***************************************************************************)
THEOREM StreamImplementsContract == SafetySpec => Contract!SafetySpec
<1>1. Init => Contract!Init
  BY DEF Init, Contract!Init
<1>2. IInv /\ [Next]_vars => [Contract!Next]_(Contract!vars)
  BY StepRefines
<1> QED
  BY <1>1, <1>2, InitInv, NextInv, PTL DEF SafetySpec, Contract!SafetySpec
=============================================================================
