-------------------------- MODULE InboundContract --------------------------
(***************************************************************************)
(* What inbound handling promises the host and the platform, without any   *)
(* account state: every message event becomes a Beak message before it is  *)
(* acknowledged, and nothing else does.  Retries may repeat the message.    *)
(***************************************************************************)
EXTENDS Integers

CONSTANTS Keys, Events

VARIABLES messages, acked

vars == <<messages, acked>>

Init ==
    /\ messages = [k \in Keys |-> 0]
    /\ acked = {}

\* The message of a complete user event is created.
Create(k) ==
    /\ \E e \in Events : e.key = k /\ e.kind = "message"
    /\ messages' = [messages EXCEPT ![k] = @ + 1]
    /\ UNCHANGED acked

\* The platform is told that the event is dealt with.
Ack(e) ==
    /\ e.kind = "message" => messages[e.key] > 0
    /\ acked' = acked \cup {e}
    /\ UNCHANGED messages

Next ==
    \/ \E k \in Keys : Create(k)
    \/ \E e \in Events : Ack(e)

SafetySpec == Init /\ [][Next]_vars

Spec ==
    /\ SafetySpec
    /\ \A k \in Keys : WF_vars(messages[k] = 0 /\ Create(k))
    /\ \A e \in Events : WF_vars(Ack(e))
=============================================================================
