------------------------------ MODULE TokenCache ------------------------------
(***************************************************************************)
(* The tenant access token of one bot account: fetched by any call, cached *)
(* in the account state, carried by every request to the platform.         *)
(*                                                                         *)
(* A call works with its own copy of the state and with short-lived clients*)
(* that hold a token of their own (internal/lark/client.go).  Calls overlap*)
(* and write the whole state back.  Kinds of calls:                        *)
(*   "send"    Send and Acknowledge: a token first, saved at once, then    *)
(*             requests with the same client;                              *)
(*   "inbound" processMessageEvent and Start: a client each for the bot's  *)
(*             identity, the media, the names and the referenced message;  *)
(*   "card"    sendLarkInteraction: a client that knows no cached token.   *)
(*                                                                         *)
(* A token is its number in the order of issue; time is counted in ticks   *)
(* from 1, and the expiry 0 is Go's zero time: not known.  Of the account  *)
(* state only the cached token is here.                                    *)
(***************************************************************************)
EXTENDS Integers

CONSTANTS
    Calls,
    Skew,            \* five minutes: a token is renewed this long before
    Lifetimes,       \* what the platform may answer as "expire", 0 for nothing
    DefaultLifetime, \* assumed then (7200 seconds)
    MaxDelay,        \* bound on the time a request takes (RequestTimeout)
    MaxIssues,       \* bound on the tokens issued
    MaxTime          \* bound on the clock

\* A request ends before the reserve of a checked token is used up, and a new
\* token outlives the request for it and the one it is for.
ASSUME TokenAssumption ==
    /\ {Skew, MaxDelay, MaxIssues, MaxTime} \subseteq Nat
    /\ MaxTime > 0
    /\ MaxDelay <= Skew
    /\ DefaultLifetime \in Nat /\ DefaultLifetime > 2 * MaxDelay
    /\ Lifetimes \subseteq Nat
    /\ \A l \in Lifetimes : l = 0 \/ l > 2 * MaxDelay

VARIABLES
    now,     \* the wall clock
    issued,  \* tokens issued so far
    expiry,  \* when the platform stops accepting each token
    store,   \* the token and expiry in the stored account state
    call     \* what each call is doing

vars == <<now, issued, expiry, store, call>>

\* tenant_access_token and tenant_access_token_expires_at; token 0 is none.
None == [token |-> 0, expires |-> 0]
Pairs == [token : Nat, expires : Nat]

\* The clients of an inbound call, one after the other, and its last save.
Identity == 0
Media == 1
Names == 2
Reference == 3
Finish == 4

Kinds == {"send", "inbound", "card"}
Steps == {"idle", "between", "work", "fetch", "answer", "save", "flight"}

\* copy: the call's copy of the state; client: the token of its client; since:
\* when its fetch or its request began; offered: what the platform answered.
CallStates ==
    [step : Steps, kind : Kinds, phase : Identity..Finish, copy : Pairs,
     client : Pairs, since : Nat, first : BOOLEAN, offered : Pairs]

TypeOK ==
    /\ now \in Nat /\ now > 0
    /\ issued \in 0..MaxIssues
    /\ expiry \in [1..MaxIssues -> Nat]
    /\ store \in Pairs
    /\ call \in [Calls -> CallStates]

IdleCall ==
    [step |-> "idle", kind |-> "send", phase |-> Identity, copy |-> None,
     client |-> None, since |-> 0, first |-> FALSE, offered |-> None]

\* An account without a token, or with one whose expiry is not known.
Init ==
    /\ now = 1
    /\ expiry = [n \in 1..MaxIssues |-> 0]
    /\ \/ issued = 0 /\ store = None
       \/ issued = 1 /\ issued <= MaxIssues /\ store = [token |-> 1, expires |-> 0]
    /\ call = [c \in Calls |-> IdleCall]

-----------------------------------------------------------------------------
(* Helpers                                                                 *)

At(c, step) == call[c].step = step

\* Mutant of Fresh: the reserve of five minutes is forgotten.
FreshUntilExpiry(pair) == pair.token # 0 /\ pair.expires > now

\* token != "" && expiresAt.After(now.Add(5*time.Minute))
Fresh(pair) == pair.token # 0 /\ pair.expires > now + Skew

\* tokenForRequest and seedLarkClientToken take an unknown expiry as well.
Usable(pair) == Fresh(pair) \/ (pair.token # 0 /\ pair.expires = 0)

\* seedLarkClientToken, or its stricter form in ensureLarkBotIdentity.
Seeded(phase, pair) ==
    IF (phase = Identity /\ Fresh(pair)) \/ (phase # Identity /\ Usable(pair))
    THEN pair ELSE None

-----------------------------------------------------------------------------
(* Calls                                                                   *)

\* Send and Acknowledge: load, and ask for a token unless the cached one will do.
BeginSend(c) ==
    /\ At(c, "idle")
    /\ call' = [call EXCEPT ![c] =
           IF Fresh(store)
           THEN [IdleCall EXCEPT !.step = "work", !.copy = store, !.client = store]
           ELSE [IdleCall EXCEPT !.step = "fetch", !.copy = store,
                                 !.since = now, !.first = TRUE]]
    /\ UNCHANGED <<now, issued, expiry, store>>

BeginInbound(c) ==
    /\ At(c, "idle")
    /\ call' = [call EXCEPT ![c] =
           [IdleCall EXCEPT !.step = "between", !.kind = "inbound", !.copy = store]]
    /\ UNCHANGED <<now, issued, expiry, store>>

BeginCard(c) ==
    /\ At(c, "idle")
    /\ call' = [call EXCEPT ![c] =
           [IdleCall EXCEPT !.step = "work", !.kind = "card"]]
    /\ UNCHANGED <<now, issued, expiry, store>>

OpenClient(c) ==
    /\ At(c, "between")
    /\ call[c].phase # Finish
    /\ call' = [call EXCEPT ![c].step = "work",
                            ![c].client = Seeded(call[c].phase, call[c].copy)]
    /\ UNCHANGED <<now, issued, expiry, store>>

\* Mutant of SkipClient: a step of the handler too many.
SkipClientPastFinish(c) ==
    /\ At(c, "between")
    /\ call' = [call EXCEPT ![c].phase = @ + 1]
    /\ UNCHANGED <<now, issued, expiry, store>>

\* Nothing to look up: known identity, no media, cached names, no reference.
SkipClient(c) ==
    /\ At(c, "between")
    /\ call[c].phase # Finish
    /\ call' = [call EXCEPT ![c].phase = @ + 1]
    /\ UNCHANGED <<now, issued, expiry, store>>

\* Mutant of Captured: the expiry is kept without its token.
CapturedExpiryOnly(c) ==
    IF call[c].phase # Media /\ call[c].client.token # 0
    THEN [call[c].copy EXCEPT !.expires = call[c].client.expires] ELSE call[c].copy

\* captureLarkClientToken.  The media client's capture is deferred to the end
\* of the handler, after the save: it reaches nothing.
Captured(c) ==
    IF call[c].phase # Media /\ call[c].client.token # 0
    THEN call[c].client ELSE call[c].copy

\* The client is done with, whatever its lookups came to.  BotInfo failed if
\* it was the identity's.
CloseClient(c) ==
    /\ At(c, "work")
    /\ call[c].kind = "inbound"
    /\ call' = [call EXCEPT ![c].step = "between", ![c].phase = @ + 1,
                            ![c].client = None,
                            ![c].copy = IF call[c].phase = Identity THEN @
                                        ELSE Captured(c)]
    /\ UNCHANGED <<now, issued, expiry, store>>

\* A request with a token that tokenForRequest finds usable.
Request(c) ==
    /\ At(c, "work")
    /\ Usable(call[c].client)
    /\ call' = [call EXCEPT ![c].step = "flight", ![c].since = now]
    /\ UNCHANGED <<now, issued, expiry, store>>

\* A request for which tokenForRequest has to ask for a token.
Fetch(c) ==
    /\ At(c, "work")
    /\ ~Usable(call[c].client)
    /\ call' = [call EXCEPT ![c].step = "fetch", ![c].since = now]
    /\ UNCHANGED <<now, issued, expiry, store>>

\* Mutant of Offered: the lifetime counts from the answer.
OfferedAtAnswer(since, lifetime) ==
    now + MaxDelay + (IF lifetime = 0 THEN DefaultLifetime ELSE lifetime)

\* The expiry TenantAccessTokenWithExpiry computes: the lifetime counts from
\* the moment before the request.
Offered(since, lifetime) ==
    since + (IF lifetime = 0 THEN DefaultLifetime ELSE lifetime)

\* The platform issues a token; its lifetime counts from here.
Issue(c, lifetime) ==
    /\ At(c, "fetch")
    /\ issued < MaxIssues
    /\ issued' = issued + 1
    /\ expiry' = [expiry EXCEPT ![issued + 1] =
                      now + (IF lifetime = 0 THEN DefaultLifetime ELSE lifetime)]
    /\ call' = [call EXCEPT ![c].step = "answer",
                            ![c].offered = [token |-> issued + 1,
                                            expires |-> Offered(call[c].since, lifetime)]]
    /\ UNCHANGED <<now, store>>

\* The answer arrives: Send saves the token first, otherwise the request it
\* was fetched for begins.
Receive(c) ==
    /\ At(c, "answer")
    /\ LET told == [call[c] EXCEPT !.client = call[c].offered, !.offered = None]
       IN  call' = [call EXCEPT ![c] =
               IF call[c].first
               THEN [told EXCEPT !.step = "save", !.copy = call[c].offered,
                                 !.first = FALSE, !.since = 0]
               ELSE [told EXCEPT !.step = "flight", !.since = now]]
    /\ UNCHANGED <<now, issued, expiry, store>>

\* The request is over; the next one, if any, uses the same client.
Finished(c) ==
    /\ At(c, "flight")
    /\ call' = [call EXCEPT ![c].step = "work", ![c].since = 0]
    /\ UNCHANGED <<now, issued, expiry, store>>

\* BotInfo succeeded: its client's token enters the state, which is saved.
Identified(c) ==
    /\ At(c, "flight")
    /\ call[c].kind = "inbound" /\ call[c].phase = Identity
    /\ call' = [call EXCEPT ![c].step = "save", ![c].since = 0,
                            ![c].copy = call[c].client]
    /\ UNCHANGED <<now, issued, expiry, store>>

\* SaveAccount of a fetched token (Send) or of the identity.
Save(c) ==
    /\ At(c, "save")
    /\ store' = call[c].copy
    /\ call' = [call EXCEPT ![c] =
           IF call[c].kind = "send" THEN [call[c] EXCEPT !.step = "work"]
           ELSE [call[c] EXCEPT !.step = "between", !.phase = Media,
                                !.client = None]]
    /\ UNCHANGED <<now, issued, expiry>>

\* SaveAccount at the end of an inbound call.
SaveLast(c) ==
    /\ At(c, "between")
    /\ call[c].phase = Finish
    /\ store' = call[c].copy
    /\ call' = [call EXCEPT ![c] = IdleCall]
    /\ UNCHANGED <<now, issued, expiry>>

\* The platform gives no token: Send and Acknowledge end at their first fetch;
\* otherwise the request fails, and the call goes on or ends.
FetchFails(c) ==
    /\ call[c].step \in {"fetch", "answer"}
    /\ call' = [call EXCEPT ![c] =
           IF call[c].first THEN IdleCall
           ELSE [call[c] EXCEPT !.step = "work", !.since = 0, !.offered = None]]
    /\ UNCHANGED <<now, issued, expiry, store>>

\* The call returns or fails, with nothing more to save.
End(c) ==
    /\ ~At(c, "idle")
    /\ call' = [call EXCEPT ![c] = IdleCall]
    /\ UNCHANGED <<now, issued, expiry, store>>

\* No fetch and no request outlasts its timeout.
Tick ==
    /\ now < MaxTime
    /\ \A c \in Calls :
           call[c].step \in {"fetch", "answer", "flight"} =>
               now < call[c].since + MaxDelay
    /\ now' = now + 1
    /\ UNCHANGED <<issued, expiry, store, call>>

Step(c) ==
    \/ BeginSend(c) \/ BeginInbound(c) \/ BeginCard(c)
    \/ OpenClient(c) \/ SkipClient(c) \/ CloseClient(c)
    \/ Request(c) \/ Fetch(c) \/ Receive(c) \/ FetchFails(c)
    \/ Finished(c) \/ Identified(c)
    \/ Save(c) \/ SaveLast(c) \/ End(c)

Next ==
    \/ \E c \in Calls : Step(c) \/ \E l \in Lifetimes : Issue(c, l)
    \/ Tick

Spec == Init /\ [][Next]_vars

-----------------------------------------------------------------------------
(* Properties                                                              *)

Held ==
    {store} \cup {call[c].copy : c \in Calls} \cup {call[c].client : c \in Calls}

\* An expiry that the account state or a client knows is never later than the
\* platform's for that very token: stale whole-state writes and captures never
\* pair a token with another's expiry, and the clock starts before the request.
RecordedInTime ==
    \A pair \in Held :
        pair.token # 0 /\ pair.expires # 0 => pair.expires <= expiry[pair.token]

\* While a request is under way the platform accepts its token, unless the
\* state gave no expiry for it: what is checked before a request holds until
\* its timeout, also for a token fetched a moment ago and one that overlapping
\* calls have replaced.
AcceptedInFlight ==
    \A c \in Calls :
        At(c, "flight") /\ call[c].client.expires # 0 =>
            now < expiry[call[c].client.token]
=============================================================================
