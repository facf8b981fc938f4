---------------------------- MODULE ConnectorStart ----------------------------
(***************************************************************************)
(* Start (connector.go): the channel, and then for one account after the   *)
(* other the link session of the gateway, the stored state, the bot's      *)
(* identity and the session in the stored state.  An error at any step     *)
(* ends the call; the host calls it again.                                 *)
(*                                                                         *)
(* Every save writes the whole state of an account as its call loaded it.  *)
(* Meanwhile other operations (writers) load and save the same states, and *)
(* the gateway may replace a session.  Of a state only the link session    *)
(* and whether an id of the bot is known are here.                         *)
(***************************************************************************)
EXTENDS RuntimeAccounts, Faults

CONSTANTS
    Starts,   \* calls of Start
    Writers   \* other calls that load an account's state and save it

VARIABLES
    session,  \* the gateway's link session of each account, by number
    store,    \* the stored state of each account
    start,    \* what each call of Start is doing
    writer    \* what each other call has loaded

startVars == <<session, store, start, writer, faults>>

\* Link session 0: none.
States == [link : Nat, bot : BOOLEAN]
NoState == [link |-> 0, bot |-> FALSE]

StartSteps == {"idle", "channel", "ensure", "load", "identify", "save", "link",
               "started"}

\* at: the account; answer: the session the gateway gave; copy: the state as
\* loaded.  loose, for the property: accounts whose session or stored state
\* others have changed since the gateway was asked for it.
StartCalls ==
    [step : StartSteps, at : {0} \cup Candidates, answer : Nat, copy : States,
     loose : SUBSET Candidates]

StartTypeOK ==
    /\ session \in [Candidates -> Nat]
    /\ store \in [Candidates -> States]
    /\ start \in [Starts -> StartCalls]
    /\ writer \in [Writers -> [at : {0} \cup Candidates, copy : States]]

IdleStart ==
    [step |-> "idle", at |-> 0, answer |-> 0, copy |-> NoState, loose |-> {}]
IdleWriter == [at |-> 0, copy |-> NoState]

\* The accounts are new.
StartInit ==
    /\ session = [i \in Candidates |-> 1]
    /\ store = [i \in Candidates |-> NoState]
    /\ start = [s \in Starts |-> IdleStart]
    /\ writer = [w \in Writers |-> IdleWriter]

StartAt(s, step) == start[s].step = step

-----------------------------------------------------------------------------
(* Helpers                                                                 *)

\* The accounts of the loop after i.
Following(i) == {j \in Candidates : j > i}

\* Call s goes on with the first account after i, or has started.
Onward(s, i) ==
    IF Following(i) = {} THEN {[start[s] EXCEPT !.step = "started", !.at = 0]}
    ELSE {[start[s] EXCEPT !.step = "ensure", !.at = j] : j \in Earliest(Following(i))}

\* Writing state new to account i takes its session out of the others' hands,
\* unless it says what the gateway says.
Loosened(i, new) ==
    [t \in Starts |->
        IF new.link = session[i] THEN start[t]
        ELSE [start[t] EXCEPT !.loose = @ \cup {i}]]

\* SaveAccount by call s, which continues as record next.
SaveBy(s, new, next) ==
    LET i == start[s].at
    IN  /\ store' = [store EXCEPT ![i] = new]
        /\ start' = [Loosened(i, new) EXCEPT ![s] = next]

\* larkBotIdentityFromAccountState: an id in the credential or the state.
\* Validation has put one into the credential, if there was one.
BotKnown(i, copy) == Runtime[i].bot = "id" \/ copy.bot

\* Without a UUID the stored state is never read: the host's own is used.
Loaded(i) == IF Runtime[i].uuid = NoId THEN NoState ELSE store[i]

-----------------------------------------------------------------------------
(* Start                                                                   *)

Begin(s) ==
    /\ StartAt(s, "idle")
    /\ start' = [start EXCEPT ![s] = [IdleStart EXCEPT !.step = "channel"]]
    /\ UNCHANGED <<session, store, writer, faults>>

EnsureChannel(s) ==
    /\ StartAt(s, "channel")
    /\ \E next \in Onward(s, 0) : start' = [start EXCEPT ![s] = next]
    /\ UNCHANGED <<session, store, writer, faults>>

EnsureChannelLinkSession(s) ==
    LET i == start[s].at
    IN  /\ StartAt(s, "ensure")
        /\ start' = [start EXCEPT ![s].step = "load", ![s].answer = session[i],
                                  ![s].loose = @ \ {i}]
        /\ UNCHANGED <<session, store, writer, faults>>

LoadAccount(s) ==
    /\ StartAt(s, "load")
    /\ start' = [start EXCEPT ![s].step = "identify",
                              ![s].copy = Loaded(start[s].at)]
    /\ UNCHANGED <<session, store, writer, faults>>

UseKnownIdentity(s) ==
    /\ StartAt(s, "identify")
    /\ BotKnown(start[s].at, start[s].copy)
    /\ start' = [start EXCEPT ![s].step = "link"]
    /\ UNCHANGED <<session, store, writer, faults>>

FetchIdentity(s) ==
    /\ StartAt(s, "identify")
    /\ ~BotKnown(start[s].at, start[s].copy)
    /\ start' = [start EXCEPT ![s].step = "save", ![s].copy.bot = TRUE]
    /\ UNCHANGED <<session, store, writer, faults>>

\* BotInfo fails, and the credential gives at least the bot's name.
ProceedWithName(s) ==
    /\ StartAt(s, "identify")
    /\ ~BotKnown(start[s].at, start[s].copy)
    /\ Runtime[start[s].at].bot = "name"
    /\ Fault
    /\ start' = [start EXCEPT ![s].step = "link"]
    /\ UNCHANGED <<session, store, writer>>

\* The identity is saved with the link session that was loaded.
SaveIdentity(s) ==
    /\ StartAt(s, "save")
    /\ SaveBy(s, start[s].copy, [start[s] EXCEPT !.step = "link"])
    /\ UNCHANGED <<session, writer, faults>>

\* Mutant of UpToDate: any link session will do.
HasSession(s) == start[s].copy.link # 0

UpToDate(s) == start[s].copy.link = start[s].answer

KeepLink(s) ==
    /\ StartAt(s, "link")
    /\ UpToDate(s)
    /\ \E next \in Onward(s, start[s].at) : start' = [start EXCEPT ![s] = next]
    /\ UNCHANGED <<session, store, writer, faults>>

Linked(s) == [start[s].copy EXCEPT !.link = start[s].answer]

SaveLink(s) ==
    /\ StartAt(s, "link")
    /\ ~UpToDate(s)
    /\ \E next \in Onward(s, start[s].at) : SaveBy(s, Linked(s), next)
    /\ UNCHANGED <<session, writer, faults>>

\* An error of the gateway, the store or, with nothing known of the bot, the
\* platform; a cancelled context; a host that dies.
StartFails(s) ==
    /\ start[s].step \notin {"idle", "started"}
    /\ StartAt(s, "identify") =>
           Runtime[start[s].at].bot = "none" \/ BotKnown(start[s].at, start[s].copy)
    /\ Fault
    /\ start' = [start EXCEPT ![s] = IdleStart]
    /\ UNCHANGED <<session, store, writer>>

\* A save that took effect although it reported an error.
SaveThenFail(s) ==
    /\ \/ StartAt(s, "save") /\ SaveBy(s, start[s].copy, IdleStart)
       \/ StartAt(s, "link") /\ ~UpToDate(s) /\ SaveBy(s, Linked(s), IdleStart)
    /\ Fault
    /\ UNCHANGED <<session, writer>>

-----------------------------------------------------------------------------
(* The host and the gateway                                                *)

\* The host starts the connector again.
Restart(s) ==
    /\ StartAt(s, "started")
    /\ Fault
    /\ start' = [start EXCEPT ![s] = IdleStart]
    /\ UNCHANGED <<session, store, writer>>

\* The gateway replaces the session of an account.
ReplaceSession(i) ==
    /\ Fault
    /\ session' = [session EXCEPT ![i] = @ + 1]
    /\ start' = [s \in Starts |-> [start[s] EXCEPT !.loose = @ \cup {i}]]
    /\ UNCHANGED <<store, writer>>

\* A disturbance as well: the budget bounds it.
WriterLoads(w, i) ==
    /\ writer[w].at = 0
    /\ Fault
    /\ writer' = [writer EXCEPT ![w] = [at |-> i, copy |-> Loaded(i)]]
    /\ UNCHANGED <<session, store, start>>

WriterSaves(w) ==
    LET i == writer[w].at
    IN  /\ i # 0
        /\ store' = [store EXCEPT ![i] = writer[w].copy]
        /\ start' = Loosened(i, writer[w].copy)
        /\ writer' = [writer EXCEPT ![w] = IdleWriter]
        /\ UNCHANGED <<session, faults>>

StartStep(s) ==
    \/ EnsureChannel(s) \/ EnsureChannelLinkSession(s) \/ LoadAccount(s)
    \/ UseKnownIdentity(s) \/ FetchIdentity(s) \/ SaveIdentity(s)
    \/ KeepLink(s) \/ SaveLink(s)

StartNext ==
    \/ \E s \in Starts : \/ Begin(s) \/ StartStep(s) \/ ProceedWithName(s)
                         \/ StartFails(s) \/ SaveThenFail(s) \/ Restart(s)
    \/ \E i \in Candidates : ReplaceSession(i)
    \/ \E w \in Writers : WriterSaves(w) \/ \E i \in Candidates : WriterLoads(w, i)

StartSpec == StartInit /\ FaultsInit /\ [][StartNext]_startVars

-----------------------------------------------------------------------------

\* After Start has returned without an error, also when earlier calls failed
\* half way, the stored state of every account has the gateway's session,
\* except where the gateway replaced it or another call's whole-state save put
\* an older one back since Start asked for it.
StartedIsLinked ==
    \A s \in Starts : StartAt(s, "started") =>
        \A i \in Candidates \ start[s].loose : store[i].link = session[i]
=============================================================================
