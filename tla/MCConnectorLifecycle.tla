------------------------- MODULE MCConnectorLifecycle -------------------------
(***************************************************************************)
(* Instance of ConnectorLifecycle for TLC: two accounts, of which one is   *)
(* listed twice and one has no UUID, and an entry without any id; a plan   *)
(* that may be revised once, with two calls and two clicks at a time, and  *)
(* a request that cannot be sent.                                          *)
(***************************************************************************)
EXTENDS ConnectorLifecycle

CONSTANTS u1, app1, app2, alice, bob, s1, w1

Account(uuid, accountId, appId, bot) ==
    [uuid |-> uuid, accountId |-> accountId, appId |-> appId, bot |-> bot]

MCRuntime ==
    <<Account(u1, NoId, app1, "none"), Account(NoId, NoId, NoId, "none"),
      Account(u1, app1, app1, "none"), Account(NoId, NoId, app2, "name")>>

Plan ==
    [account |-> app2, actions |-> {"approve", "reject", "revise"}, form |-> TRUE,
     inputs |-> FALSE, requester |-> alice, revisions |-> 2]

Unaddressed ==
    [account |-> NoId, actions |-> {"submit"}, form |-> FALSE,
     inputs |-> TRUE, requester |-> bob, revisions |-> 1]

MCRequests == {Plan, Unaddressed}
MCMembers == {alice, bob}
MCStarts == {s1}
MCWriters == {w1}
MCSends == {1, 2}
MCClicks == {1, 2}
=============================================================================
