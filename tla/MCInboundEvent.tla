--------------------------- MODULE MCInboundEvent ---------------------------
(***************************************************************************)
(* Instances of InboundEvent for TLC.                                      *)
(***************************************************************************)
EXTENDS InboundEvent, TLC

CONSTANTS h1, h2, s1, k1, k2, k3, k4, k5, c1, c2

MCHandlers == {h1, h2}
MCSenders == {s1}
MCKeys == {k1, k2, k3, k4, k5}
MCChats == {c1, c2}

\* Two users' messages, one of which mentions somebody.
TwoMessages ==
    {[key |-> k1, chat |-> c1, kind |-> "message", mentions |-> TRUE,
      told |-> {"open_id"}],
     [key |-> k2, chat |-> c2, kind |-> "message", mentions |-> FALSE,
      told |-> {"open_id"}]}

\* Two users' messages, the bot's echo of its answer and events to be ignored.
EveryKind ==
    TwoMessages \cup
    {[key |-> k3, chat |-> c1, kind |-> "echo", mentions |-> TRUE,
      told |-> {"open_id", "user_id"}],
     [key |-> k4, chat |-> c2, kind |-> "incomplete", mentions |-> FALSE,
      told |-> {}],
     [key |-> k5, chat |-> c2, kind |-> "foreign", mentions |-> FALSE,
      told |-> {"open_id"}]}

\* The account knows nothing of its bot, or an id of one type.
Unknown == {{}}
AnId == {{"open_id"}, {"user_id"}}

\* The instances satisfy what the proofs assume.
ASSUME MCAssumption == EchoesAreTold

Symmetry == Permutations(MCHandlers)
=============================================================================
