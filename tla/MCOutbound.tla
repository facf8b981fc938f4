----------------------------- MODULE MCOutbound -----------------------------
(***************************************************************************)
(* Instance of Outbound for TLC.                                           *)
(***************************************************************************)
EXTENDS Outbound

CONSTANTS c1, c2, m1

Request(message, id, text, attachments, broken) ==
    [message |-> message, id |-> id, text |-> text,
     attachments |-> attachments, broken |-> broken]

\* A text with two attachments, one of which can never be uploaded, and two
\* files that the host gave no MessageUUID.
Mixed ==
    {Request(m1, 1, TRUE, 2, {2}), Request(NoMessage, 2, FALSE, 1, {}),
     Request(NoMessage, 3, FALSE, 1, {})}

MCCalls == {c1, c2}
=============================================================================
