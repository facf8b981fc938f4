---------------------------- MODULE MCHostStream ----------------------------
(***************************************************************************)
(* Instance of HostStream for TLC.                                        *)
(***************************************************************************)
EXTENDS HostStream

CONSTANTS k1, k2, k3

MCKeys == {k1, k2, k3}

\* A message in three frames, a card click in one and a payload in two that is
\* not an event.
Mixed ==
    {[key |-> k1, kind |-> "message", sum |-> 3],
     [key |-> k2, kind |-> "card", sum |-> 1],
     [key |-> k3, kind |-> "silent", sum |-> 2]}

MCIntervals == {0, 3}
=============================================================================
