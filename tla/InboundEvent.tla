---------------------------- MODULE InboundEvent ----------------------------
(***************************************************************************)
(* Inbound messages of one bot account: processMessageEvent (connector.go) *)
(* run by several calls at once over the account state that the host keeps.*)
(*                                                                         *)
(* A call of HandleEvent or HandleWebhook is a handler.  It loads the whole*)
(* account state, works on its own copy through a chain of calls to Lark   *)
(* and to the host's gateway, and writes the whole copy back; no lock spans*)
(* the chain.  Send and Acknowledge do the same when they need a new tenant*)
(* token: their account-state part is here as the senders.  The host owns  *)
(* the state: it runs these calls, may abandon any of them (a cancelled    *)
(* context, a dead process) and writes its own connection health.          *)
(*                                                                         *)
(* Abstracted: text, mentions, display names, media and the referenced     *)
(* message (they reach the message, never the control), and the token's    *)
(* value (whether it is still usable is a choice of the environment).      *)
(***************************************************************************)
EXTENDS TrackedKeys

CONSTANTS
    Handlers,        \* calls of HandleEvent / HandleWebhook
    Senders,         \* calls of Send / Acknowledge
    Keys,            \* dedupe keys
    Chats,           \* chat state keys
    Events,          \* the events the platform delivers
    NoEvent,         \* what an actor that handles nothing holds
    Identities,      \* what the account may know of its bot at first
    Serialized,      \* the host runs one call on the account at a time
    MaxFaults,       \* bound on failed, abandoned and half-done calls
    MaxDuplicates,   \* bound on deliveries the platform need not make
    MaxSends,        \* bound on calls of Send / Acknowledge
    MaxHealthWrites, \* bound on the host's connection-health writes
    MaxTime          \* bound on the clock

\* An event names its sender by ids of the types in its field told; one with
\* mentions needs the bot's name.  "message": a complete message of a user;
\* "echo": one that the bot sent itself; "incomplete": no chat, sender or
\* content; "foreign": an event of another app or of a type the connector does
\* not handle.
Kinds == {"message", "echo", "incomplete", "foreign"}

\* What is known of the bot: any of its ids, and its name.
IdTypes == {"open_id", "user_id", "union_id"}
BotKnowledge == SUBSET (IdTypes \cup {"name"})

ASSUME InboundAssumption ==
    /\ Handlers \cap Senders = {}
    /\ \A e \in Events : /\ e.key \in Keys
                         /\ e.chat \in Chats
                         /\ e.kind \in Kinds
                         /\ e.mentions \in BOOLEAN
                         /\ e.told \subseteq IdTypes
    /\ \A e, f \in Events :
           e.key = f.key => e.chat = f.chat /\ e.kind = f.kind
    /\ NoEvent \notin Events
    /\ Identities \subseteq BotKnowledge
    /\ Serialized \in BOOLEAN
    /\ {MaxFaults, MaxDuplicates, MaxSends, MaxHealthWrites} \subseteq Nat
    /\ MaxTime \in Nat \ {0}

VARIABLES
    store,       \* the account state the host keeps
    now,         \* the wall clock
    pc,          \* where each actor is
    ev,          \* the event each handler works on
    copy,        \* each actor's copy of the account state
    messages,    \* Beak messages the gateway created, per dedupe key
    acked,       \* events the platform got a success response for
    budget,      \* faults, duplicates, sends and health writes so far
    lost,        \* messages created whose key the handler failed to save
    evicted      \* keys that pruning dropped from a saved state

vars == <<store, now, pc, ev, copy, messages, acked, budget, lost, evicted>>

Actors == Handlers \cup Senders

\* The fields of AccountState that the control depends on.
AccountStates ==
    [seen : TrackedMaps(Keys, 0..MaxTime), peers : SUBSET Chats,
     bot : BotKnowledge, lastEvent : 0..MaxTime,
     connection : Nat]

EmptyAccount ==
    [seen |-> [k \in {} |-> Unparsed], peers |-> {}, bot |-> {},
     lastEvent |-> 0, connection |-> 0]

HandlerSteps == {"load", "identify", "saveIdentity", "admit", "session",
                 "create", "save"}
SenderSteps == {"token", "saveToken"}

\* What the environment does a bounded number of times.
Budgets == {"faults", "duplicates", "sends", "health"}

TypeOK ==
    /\ store \in AccountStates
    /\ now \in 1..MaxTime
    /\ pc \in [Actors -> {"idle"} \cup HandlerSteps \cup SenderSteps]
    /\ \A s \in Senders : pc[s] \in {"idle"} \cup SenderSteps
    /\ \A h \in Handlers : pc[h] \in {"idle"} \cup HandlerSteps
    /\ ev \in [Handlers -> Events \cup {NoEvent}]
    /\ \A h \in Handlers : pc[h] = "idle" <=> ev[h] = NoEvent
    /\ copy \in [Actors -> AccountStates]
    /\ messages \in [Keys -> Nat]
    /\ acked \subseteq Events
    /\ budget \in [Budgets -> Nat]
    /\ lost \in [Keys -> Nat]
    /\ evicted \in [Keys -> Nat]

Init ==
    /\ store \in {[EmptyAccount EXCEPT !.bot = b] : b \in Identities}
    /\ now = 1
    /\ pc = [a \in Actors |-> "idle"]
    /\ ev = [h \in Handlers |-> NoEvent]
    /\ copy = [a \in Actors |-> EmptyAccount]
    /\ messages = [k \in Keys |-> 0]
    /\ acked = {}
    /\ budget = [b \in Budgets |-> 0]
    /\ lost = [k \in Keys |-> 0]
    /\ evicted = [k \in Keys |-> 0]

-----------------------------------------------------------------------------
(* Helpers                                                                 *)

MayStart == Serialized => \A a \in Actors : pc[a] = "idle"

Goto(a, step) == pc' = [pc EXCEPT ![a] = step]

Spend(what, limit) ==
    /\ budget[what] < limit
    /\ budget' = [budget EXCEPT ![what] = @ + 1]

\* Mutant of Return: the event outlives the call.
ReturnKeepingEvent(h) == Goto(h, "idle") /\ ev' = ev /\ copy' = copy

\* The handler's call returns; its copy of the state dies with it.
Return(h) ==
    /\ Goto(h, "idle")
    /\ ev' = [ev EXCEPT ![h] = NoEvent]
    /\ copy' = [copy EXCEPT ![h] = EmptyAccount]

\* A nil error: the platform gets a success response.
Acknowledge(h) == Return(h) /\ acked' = acked \cup {ev[h]}

\* SaveAccount: TouchAccount prunes the state, the host replaces what it
\* had by the whole of it.
SaveAccount(account) ==
    \E seen \in PruneTimestampMap(account.seen, now) :
        /\ store' = [account EXCEPT !.seen = seen]
        /\ evicted' = [k \in Keys |->
                           IF k \in DOMAIN account.seen \ DOMAIN seen
                           THEN evicted[k] + 1 ELSE evicted[k]]

\* ensureLarkBotIdentity returns without asking Lark.
IdentityKnown(bot, needName) ==
    \/ bot \cap {"user_id", "union_id"} # {}
    \/ "open_id" \in bot /\ (needName => "name" \in bot)

\* Mutant of IsSelfEcho: only open ids are compared.
IsSelfEchoByOpenId(e, bot) == e.kind = "echo" /\ "open_id" \in e.told \cap bot

\* larkSenderMatchesBot: the sender is the bot, and tells an id of a type that
\* is known of it.
IsSelfEcho(e, bot) == e.kind = "echo" /\ e.told \cap bot # {}

\* Mutant of Marked: the map of peer sessions is made anew.
MarkedAnew(account, e) ==
    [account EXCEPT
        !.peers = {e.chat},
        !.seen = [k \in DOMAIN @ \cup {e.key} |->
                      IF k = e.key THEN now ELSE @[k]],
        !.lastEvent = now]

\* Mutant of Marked: the peer session is left out.
MarkedWithoutPeer(account, e) ==
    [account EXCEPT
        !.seen = [k \in DOMAIN @ \cup {e.key} |->
                      IF k = e.key THEN now ELSE @[k]],
        !.lastEvent = now]

\* The handled message enters the copy: peer session, dedupe key, activity.
Marked(account, e) ==
    [account EXCEPT
        !.peers = @ \cup {e.chat},
        !.seen = [k \in DOMAIN @ \cup {e.key} |->
                      IF k = e.key THEN now ELSE @[k]],
        !.lastEvent = now]

-----------------------------------------------------------------------------
(* The handler                                                             *)

\* The platform delivers an event: one that is not acknowledged and not
\* being handled (a retry), or any other within MaxDuplicates.
Deliver(h, e) ==
    /\ pc[h] = "idle"
    /\ MayStart
    /\ IF e \in acked \/ \E g \in Handlers : ev[g] = e
       THEN Spend("duplicates", MaxDuplicates)
       ELSE UNCHANGED budget
    /\ Goto(h, "load")
    /\ ev' = [ev EXCEPT ![h] = e]
    /\ UNCHANGED <<store, now, copy, messages, acked, lost, evicted>>

\* Another app's event, or an unsupported type: ignored before any state.
IgnoreForeign(h) ==
    /\ pc[h] = "load"
    /\ ev[h].kind = "foreign"
    /\ Acknowledge(h)
    /\ UNCHANGED <<store, now, messages, budget, lost, evicted>>

\* Mutant of Load: the state the runtime was built with is never refreshed.
LoadSeedOnly(h) ==
    /\ pc[h] = "load"
    /\ ev[h].kind # "foreign"
    /\ copy' = [copy EXCEPT ![h] = [EmptyAccount EXCEPT !.bot = store.bot]]
    /\ Goto(h, "identify")
    /\ UNCHANGED <<store, now, ev, messages, acked, budget, lost, evicted>>

Load(h) ==
    /\ pc[h] = "load"
    /\ ev[h].kind # "foreign"
    /\ copy' = [copy EXCEPT ![h] = store]
    /\ Goto(h, "identify")
    /\ UNCHANGED <<store, now, ev, messages, acked, budget, lost, evicted>>

UseKnownIdentity(h) ==
    /\ pc[h] = "identify"
    /\ IdentityKnown(copy[h].bot, ev[h].mentions)
    /\ Goto(h, "admit")
    /\ UNCHANGED <<store, now, ev, copy, messages, acked, budget, lost, evicted>>

\* BotInfo tells the open id, and the name unless the bot has none.
FetchIdentity(h) ==
    /\ pc[h] = "identify"
    /\ ~IdentityKnown(copy[h].bot, ev[h].mentions)
    /\ \E name \in SUBSET {"name"} :
           copy' = [copy EXCEPT ![h].bot = @ \cup {"open_id"} \cup name]
    /\ Goto(h, "saveIdentity")
    /\ UNCHANGED <<store, now, ev, messages, acked, budget, lost, evicted>>

\* BotInfo fails and the handler goes on with the part it knows; when it
\* knows nothing the call fails (Abandon).
ProceedWithPartialIdentity(h) ==
    /\ pc[h] = "identify"
    /\ copy[h].bot # {}
    /\ ~IdentityKnown(copy[h].bot, ev[h].mentions)
    /\ Goto(h, "admit")
    /\ UNCHANGED <<store, now, ev, copy, messages, acked, budget, lost, evicted>>

SaveIdentity(h) ==
    /\ pc[h] = "saveIdentity"
    /\ SaveAccount(copy[h])
    /\ copy' = [copy EXCEPT ![h] = store']
    /\ Goto(h, "admit")
    /\ UNCHANGED <<now, ev, messages, acked, budget, lost>>

\* Mutant of Ignored: inbound_seen is not consulted.
IgnoredButDuplicates(h) ==
    IsSelfEcho(ev[h], copy[h].bot) \/ ev[h].kind = "incomplete"

\* Self echo, incomplete message or key already in the loaded state: the
\* event is ignored, which is a success for the platform.
Ignored(h) ==
    \/ IsSelfEcho(ev[h], copy[h].bot)
    \/ ev[h].kind = "incomplete"
    \/ ev[h].key \in DOMAIN copy[h].seen

Ignore(h) ==
    /\ pc[h] = "admit"
    /\ Ignored(h)
    /\ Acknowledge(h)
    /\ UNCHANGED <<store, now, messages, budget, lost, evicted>>

\* Mutant of Admit: the key is marked before the message is created.
AdmitMarkingFirst(h) ==
    /\ pc[h] = "admit"
    /\ ~Ignored(h)
    /\ copy' = [copy EXCEPT ![h] = Marked(@, ev[h])]
    /\ Goto(h, "session")
    /\ UNCHANGED <<store, now, ev, messages, acked, budget, lost, evicted>>

Admit(h) ==
    /\ pc[h] = "admit"
    /\ ~Ignored(h)
    /\ Goto(h, "session")
    /\ UNCHANGED <<store, now, ev, copy, messages, acked, budget, lost, evicted>>

EnsureChatSession(h) ==
    /\ pc[h] = "session"
    /\ Goto(h, "create")
    /\ UNCHANGED <<store, now, ev, copy, messages, acked, budget, lost, evicted>>

CreateMessage(h) ==
    /\ pc[h] = "create"
    /\ messages' = [messages EXCEPT ![ev[h].key] = @ + 1]
    /\ Goto(h, "save")
    /\ UNCHANGED <<store, now, ev, copy, acked, budget, lost, evicted>>

\* The chat's session and the key enter the state, which is saved; the call
\* returns the message.
SaveInbound(h) ==
    /\ pc[h] = "save"
    /\ SaveAccount(Marked(copy[h], ev[h]))
    /\ Acknowledge(h)
    /\ UNCHANGED <<now, messages, budget, lost>>

-----------------------------------------------------------------------------
(* Failures of a handler: no response, or an error the platform retries    *)

\* Mutant of Abandon: the error is answered with a success response.
AbandonSilently(h) ==
    /\ pc[h] # "idle"
    /\ Spend("faults", MaxFaults)
    /\ Acknowledge(h)
    /\ UNCHANGED <<store, now, messages, lost, evicted>>

\* A call of the host or of Lark fails before it takes effect, or the
\* handler is cancelled or dies between two steps.
Abandon(h) ==
    /\ pc[h] # "idle"
    /\ Spend("faults", MaxFaults)
    /\ lost' = IF pc[h] = "save"
               THEN [lost EXCEPT ![ev[h].key] = @ + 1] ELSE lost
    /\ Return(h)
    /\ UNCHANGED <<store, now, messages, acked, evicted>>

\* The gateway creates the message, the handler sees an error.
CreateThenFail(h) ==
    /\ pc[h] = "create"
    /\ Spend("faults", MaxFaults)
    /\ messages' = [messages EXCEPT ![ev[h].key] = @ + 1]
    /\ lost' = [lost EXCEPT ![ev[h].key] = @ + 1]
    /\ Return(h)
    /\ UNCHANGED <<store, now, acked, evicted>>

\* The host stores the state, the handler sees an error.
SaveThenFail(h) ==
    /\ \/ pc[h] = "saveIdentity" /\ SaveAccount(copy[h])
       \/ pc[h] = "save" /\ SaveAccount(Marked(copy[h], ev[h]))
    /\ Spend("faults", MaxFaults)
    /\ Return(h)
    /\ UNCHANGED <<now, messages, acked, lost>>

-----------------------------------------------------------------------------
(* Send and Acknowledge, as far as the account state is concerned          *)

LoadForSend(s) ==
    /\ pc[s] = "idle"
    /\ MayStart
    /\ Spend("sends", MaxSends)
    /\ copy' = [copy EXCEPT ![s] = store]
    /\ Goto(s, "token")
    /\ UNCHANGED <<store, now, ev, messages, acked, lost, evicted>>

\* The cached token is usable, or the call fails: nothing is written.
SendWithoutSave(s) ==
    /\ pc[s] \in {"token", "saveToken"}
    /\ copy' = [copy EXCEPT ![s] = EmptyAccount]
    /\ Goto(s, "idle")
    /\ UNCHANGED <<store, now, ev, messages, acked, budget, lost, evicted>>

FetchToken(s) ==
    /\ pc[s] = "token"
    /\ Goto(s, "saveToken")
    /\ UNCHANGED <<store, now, ev, copy, messages, acked, budget, lost, evicted>>

SaveToken(s) ==
    /\ pc[s] = "saveToken"
    /\ SaveAccount(copy[s])
    /\ copy' = [copy EXCEPT ![s] = EmptyAccount]
    /\ Goto(s, "idle")
    /\ UNCHANGED <<now, ev, messages, acked, budget, lost>>

-----------------------------------------------------------------------------
(* The host and the clock                                                  *)

WriteConnectionHealth ==
    /\ Spend("health", MaxHealthWrites)
    /\ store' = [store EXCEPT !.connection = @ + 1]
    /\ UNCHANGED <<now, pc, ev, copy, messages, acked, lost, evicted>>

Tick ==
    /\ now < MaxTime
    /\ now' = now + 1
    /\ UNCHANGED <<store, pc, ev, copy, messages, acked, budget, lost, evicted>>

-----------------------------------------------------------------------------

\* Nothing is left to do; a stop in any other state is a deadlock.
Quiescent ==
    /\ \A a \in Actors : pc[a] = "idle"
    /\ acked = Events
    /\ UNCHANGED vars

HandlerStep(h) ==
    \/ IgnoreForeign(h) \/ Load(h)
    \/ UseKnownIdentity(h) \/ FetchIdentity(h) \/ ProceedWithPartialIdentity(h)
    \/ SaveIdentity(h)
    \/ Ignore(h) \/ Admit(h)
    \/ EnsureChatSession(h) \/ CreateMessage(h) \/ SaveInbound(h)

HandlerFault(h) == Abandon(h) \/ CreateThenFail(h) \/ SaveThenFail(h)

SenderStep(s) == SendWithoutSave(s) \/ FetchToken(s) \/ SaveToken(s)

Next ==
    \/ \E h \in Handlers, e \in Events : Deliver(h, e)
    \/ \E h \in Handlers : HandlerStep(h) \/ HandlerFault(h)
    \/ \E s \in Senders : LoadForSend(s) \/ SenderStep(s)
    \/ WriteConnectionHealth
    \/ Tick
    \/ Quiescent

\* Calls that have begun go on (the Go scheduler), and the platform retries
\* an event until it is acknowledged.  Faults, duplicates, sends and the
\* clock are not fair.
Fairness ==
    /\ \A h \in Handlers : WF_vars(HandlerStep(h))
    /\ \A s \in Senders : WF_vars(SenderStep(s))
    /\ \A e \in Events : WF_vars(e \notin acked /\ \E h \in Handlers : Deliver(h, e))

SafetySpec == Init /\ [][Next]_vars
Spec == SafetySpec /\ Fairness

-----------------------------------------------------------------------------
(* Properties                                                              *)

Accounts == {store} \cup {copy[a] : a \in Actors}

\* A key is in inbound_seen, stored or in any call's copy, only if the gateway
\* created a message for it: no interleaving, retry or failure of the steps
\* of processMessageEvent marks a message that Beak never got.
SeenImpliesCreated ==
    \A account \in Accounts : \A k \in DOMAIN account.seen : messages[k] > 0

\* The platform gets a success response for a user's message only after a
\* Beak message exists for it, whichever of the calls that handled it
\* answered (processMessageEvent's "duplicate" result answers for another).
AckedImpliesCreated ==
    \A e \in acked : e.kind = "message" => messages[e.key] > 0

\* Where a key is in inbound_seen, the session of its chat is in
\* peer_sessions and the last event is no older than the key: a duplicate is
\* always answered with a session, and whole-state writes never mix states.
SeenIsConsistent ==
    \A account \in Accounts : \A e \in Events :
        e.key \in DOMAIN account.seen =>
            /\ e.chat \in account.peers
            /\ account.seen[e.key] <= account.lastEvent

\* Only a complete message of a user becomes a Beak message: never the bot's
\* own message (larkSenderMatchesBot), an incomplete or a foreign event,
\* also when BotInfo fails.  Rests on EchoesAreTold.
OnlyMessagesCreated ==
    \A e \in Events : messages[e.key] > 0 => e.kind = "message"

\* With the host serialising the calls on an account, a message is created
\* again only when a handler failed to save the key after creating it, or
\* pruning dropped the key: each such event costs at most one duplicate.
DuplicatesExplained ==
    \A k \in Keys : messages[k] <= 1 + lost[k] + evicted[k]

\* With the host serialising the calls on an account, the key of an
\* acknowledged message stays in inbound_seen until pruning drops it: a
\* redelivery after the acknowledgement is answered as a duplicate.
AckedIsRemembered ==
    \A e \in acked :
        e.kind = "message" =>
            e.key \in DOMAIN store.seen \/ evicted[e.key] > 0

\* The store goes on from what it held.
UndoesNothing ==
    /\ store.peers \subseteq store'.peers
    /\ store.bot \subseteq store'.bot
    /\ store.lastEvent <= store'.lastEvent
    /\ \A k \in DOMAIN store.seen :
           IF k \in DOMAIN store'.seen THEN store'.seen[k] = store.seen[k]
           ELSE evicted'[k] = evicted[k] + 1

\* With the host serialising the calls on an account, no save undoes another:
\* every peer session and what is known of the bot stay, the last event never
\* goes back, and a key leaves inbound_seen only when pruning drops it -
\* although each SaveAccount writes the whole of a state loaded before several
\* network calls.
SavesUndoNothing == [][UndoesNothing]_vars

\* SaveAccount leaves the host's connection health as the host wrote it.
HostHealthKept ==
    [][store' # store => store'.connection >= store.connection]_vars

\* processMessageEvent implements at-least-once delivery: message before
\* acknowledgement, and every event eventually acknowledged, although calls
\* fail, are abandoned half-way and write over each other's state.
AtLeastOnce == INSTANCE InboundContract
DeliversAtLeastOnce == AtLeastOnce!Spec

-----------------------------------------------------------------------------
(* What OnlyMessagesCreated rests on                                       *)

\* The bot's own messages tell an id that the account knows of its bot, or the
\* open id, if it knows nothing and has to ask.  Otherwise they are taken for
\* a user's: with the name alone if BotInfo fails; and with a user or union id
\* that they do not tell always, as BotInfo is not asked then.
EchoesAreTold ==
    \A e \in Events : e.kind = "echo" =>
        \A b \in Identities :
            e.told \cap (IF b = {} THEN {"open_id"} ELSE b) # {}
=============================================================================
