------------------------ MODULE InboundEvent_proofs ------------------------
(***************************************************************************)
(* Theorems about InboundEvent, for every number of handlers, senders,     *)
(* events, faults and duplicates; at the end, that it implements the safety*)
(* part of InboundContract, unless only the bot's name is configured.      *)
(***************************************************************************)
EXTENDS InboundEvent, TLAPS

Maps == TrackedMaps(Keys, 0..MaxTime)

(***************************************************************************)
(* A tracked map is a function on a set of keys.                           *)
(***************************************************************************)
LEMMA TrackedMapShape ==
    ASSUME NEW K, NEW Stamps, NEW m
    PROVE  m \in TrackedMaps(K, Stamps) <=>
               /\ DOMAIN m \subseteq K
               /\ m \in [DOMAIN m -> Stamps]
  BY DEF TrackedMaps

(***************************************************************************)
(* pruneTimestampMap only forgets: it adds no key and dates none anew.     *)
(***************************************************************************)
LEMMA PruneForgets ==
    ASSUME NEW K, NEW Stamps, NEW m \in TrackedMaps(K, Stamps), NEW t,
           NEW p \in PruneTimestampMap(m, t)
    PROVE  /\ p \in TrackedMaps(K, Stamps)
           /\ DOMAIN p \subseteq DOMAIN m
           /\ \A k \in DOMAIN p : p[k] = m[k]
  <1>1. PICK D \in SUBSET DOMAIN m : p = [k \in D |-> m[k]]
    BY DEF PruneTimestampMap, Live, Newest, Restrict
  <1>2. DOMAIN m \subseteq K /\ m \in [DOMAIN m -> Stamps]
    BY TrackedMapShape
  <1>3. p \in [D -> Stamps] /\ DOMAIN p = D
    BY <1>1, <1>2
  <1> QED
    BY <1>1, <1>2, <1>3, TrackedMapShape

(***************************************************************************)
(* What a save writes: the account it was given, less the pruned keys.     *)
(***************************************************************************)
LEMMA SaveWrites ==
    ASSUME NEW account \in AccountStates, SaveAccount(account), TypeOK
    PROVE  /\ store' \in AccountStates
           /\ evicted' \in [Keys -> Nat]
           /\ DOMAIN store'.seen \subseteq DOMAIN account.seen
           /\ \A k \in DOMAIN store'.seen : store'.seen[k] = account.seen[k]
           /\ store'.peers = account.peers
           /\ store'.bot = account.bot
           /\ store'.lastEvent = account.lastEvent
           /\ \A k \in Keys :
                  evicted'[k] = IF k \in DOMAIN account.seen \ DOMAIN store'.seen
                                THEN evicted[k] + 1 ELSE evicted[k]
  <1>1. PICK seen \in PruneTimestampMap(account.seen, now) :
            /\ store' = [account EXCEPT !.seen = seen]
            /\ evicted' = [k \in Keys |->
                               IF k \in DOMAIN account.seen \ DOMAIN seen
                               THEN evicted[k] + 1 ELSE evicted[k]]
    BY DEF SaveAccount
  <1>2. account.seen \in Maps
    BY DEF AccountStates, Maps
  <1>3. /\ seen \in Maps
        /\ DOMAIN seen \subseteq DOMAIN account.seen
        /\ \A k \in DOMAIN seen : seen[k] = account.seen[k]
    BY <1>2, PruneForgets DEF Maps
  <1>4. store'.seen = seen
    BY <1>1 DEF AccountStates
  <1>5. store' \in AccountStates
    BY <1>1, <1>3 DEF AccountStates, Maps
  <1>6. evicted' \in [Keys -> Nat]
    BY <1>1 DEF TypeOK
  <1>7. /\ store'.peers = account.peers
        /\ store'.bot = account.bot
        /\ store'.lastEvent = account.lastEvent
    BY <1>1 DEF AccountStates
  <1> QED
    BY <1>1, <1>3, <1>4, <1>5, <1>6, <1>7

(***************************************************************************)
(* Recording a message keeps the account's type.                           *)
(***************************************************************************)
LEMMA MarkedShape ==
    ASSUME NEW account \in AccountStates, NEW e \in Events, TypeOK
    PROVE  /\ Marked(account, e) \in AccountStates
           /\ DOMAIN Marked(account, e).seen = DOMAIN account.seen \cup {e.key}
           /\ Marked(account, e).seen[e.key] = now
           /\ \A k \in DOMAIN account.seen \ {e.key} :
                  Marked(account, e).seen[k] = account.seen[k]
           /\ Marked(account, e).peers = account.peers \cup {e.chat}
           /\ Marked(account, e).lastEvent = now
           /\ Marked(account, e).bot = account.bot
  <1> DEFINE seen == [k \in DOMAIN account.seen \cup {e.key} |->
                          IF k = e.key THEN now ELSE account.seen[k]]
             marked == Marked(account, e)
  <1>1. e.key \in Keys /\ e.chat \in Chats /\ now \in 0..MaxTime
    BY InboundAssumption DEF TypeOK
  <1>2. DOMAIN account.seen \subseteq Keys
        /\ account.seen \in [DOMAIN account.seen -> 0..MaxTime]
    BY TrackedMapShape DEF AccountStates
  <1>3. seen \in [DOMAIN seen -> 0..MaxTime] /\ DOMAIN seen \subseteq Keys
    BY <1>1, <1>2
  <1>4. seen \in Maps
    BY <1>3, TrackedMapShape DEF Maps
  <1>5. marked = [account EXCEPT !.peers = account.peers \cup {e.chat},
                                 !.seen = seen, !.lastEvent = now]
    BY DEF Marked, AccountStates
  <1>6. marked \in AccountStates
    BY <1>1, <1>4, <1>5, ZenonT(30) DEF AccountStates, Maps
  <1>7. /\ marked.seen = seen
        /\ marked.peers = account.peers \cup {e.chat}
        /\ marked.lastEvent = now /\ marked.bot = account.bot
    BY <1>5 DEF AccountStates
  <1> QED
    BY <1>6, <1>7

(***************************************************************************)
(* An account nothing is known of, and the budget of the environment, have *)
(* their types.                                                            *)
(***************************************************************************)
LEMMA EmptyTyped == EmptyAccount \in AccountStates
  <1>1. [k \in {} |-> Unparsed] \in TrackedMaps(Keys, 0..MaxTime)
    BY TrackedMapShape
  <1> QED
    BY <1>1, InboundAssumption DEF EmptyAccount, AccountStates, BotKnowledge

(***************************************************************************)
(* BotInfo tells the open id and perhaps a name; only the knowledge of the *)
(* bot changes.                                                            *)
(***************************************************************************)
LEMMA Fetched ==
    ASSUME TypeOK, NEW h \in Handlers, FetchIdentity(h)
    PROVE  \E account \in AccountStates, name \in SUBSET {"name"} :
               /\ copy' = [copy EXCEPT ![h] = account]
               /\ account.seen = copy[h].seen
               /\ account.peers = copy[h].peers
               /\ account.lastEvent = copy[h].lastEvent
               /\ account.bot = copy[h].bot \cup {"open_id"} \cup name
  <1>1. PICK name \in SUBSET {"name"} :
            copy' = [copy EXCEPT ![h].bot = @ \cup {"open_id"} \cup name]
    BY DEF FetchIdentity
  <1> DEFINE bot == copy[h].bot \cup {"open_id"} \cup name
             fetched == [copy[h] EXCEPT !.bot = bot]
  <1>2. h \in Actors /\ copy[h] \in AccountStates
    BY DEF TypeOK, Actors
  <1>3. copy' = [copy EXCEPT ![h] = fetched]
    BY <1>1, <1>2 DEF TypeOK
  <1>4. bot \in BotKnowledge
    <2>1. copy[h].bot \in BotKnowledge
      BY <1>2 DEF AccountStates
    <2> QED
      BY <2>1 DEF BotKnowledge, IdTypes
  <1>5. fetched \in AccountStates
    BY <1>2, <1>4 DEF AccountStates
  <1>6. /\ fetched.seen = copy[h].seen /\ fetched.peers = copy[h].peers
        /\ fetched.lastEvent = copy[h].lastEvent /\ fetched.bot = bot
    BY <1>2 DEF AccountStates
  <1> HIDE DEF fetched
  <1> QED
    BY <1>3, <1>5, <1>6

(***************************************************************************)
(* The account as it is configured has its type.                           *)
(***************************************************************************)
LEMMA ConfiguredTyped ==
    ASSUME Init
    PROVE  /\ store \in AccountStates
           /\ store.seen = EmptyAccount.seen /\ store.lastEvent = 0
           /\ store.bot \in Identities
  <1>1. PICK b \in Identities : store = [EmptyAccount EXCEPT !.bot = b]
    BY DEF Init
  <1> QED
    BY <1>1, EmptyTyped, InboundAssumption DEF EmptyAccount, AccountStates

(***************************************************************************)
(* Spending one of the environment's chances keeps the budget's type.      *)
(***************************************************************************)
LEMMA SpendTyped ==
    ASSUME TypeOK, NEW what \in Budgets, NEW limit, Spend(what, limit)
    PROVE  budget' \in [Budgets -> Nat]
  BY DEF TypeOK, Spend

(***************************************************************************)
(* The type invariant is inductive: one case per action.                   *)
(***************************************************************************)
LEMMA InitTyped == Init => TypeOK
  BY EmptyTyped, ConfiguredTyped, InboundAssumption DEF Init, TypeOK, Actors

LEMMA NextTyped == TypeOK /\ [Next]_vars => TypeOK'
  <1> SUFFICES ASSUME TypeOK, [Next]_vars PROVE TypeOK'
    OBVIOUS
  <1> USE EmptyTyped
  <1>1. ASSUME NEW h \in Handlers, NEW e \in Events, Deliver(h, e)
        PROVE  TypeOK'
    <2>1. budget' \in [Budgets -> Nat]
      BY <1>1, SpendTyped DEF Deliver, Budgets, TypeOK
    <2> QED
      BY <1>1, <2>1, InboundAssumption
      DEF Deliver, Goto, TypeOK, Actors, HandlerSteps
  <1>2. ASSUME NEW h \in Handlers, HandlerStep(h)
        PROVE  TypeOK'
    <2> USE InboundAssumption
        DEF TypeOK, Actors, HandlerSteps, SenderSteps, Goto
    <2>1. CASE IgnoreForeign(h)
      BY <2>1 DEF IgnoreForeign, Acknowledge, Return
    <2>2. CASE Load(h)
      BY <2>2 DEF Load
    <2>3. CASE UseKnownIdentity(h)
      BY <2>3 DEF UseKnownIdentity
    <2>4. CASE FetchIdentity(h)
      <3>1. PICK account \in AccountStates : copy' = [copy EXCEPT ![h] = account]
        BY <2>4, Fetched
      <3>2. /\ pc' = [pc EXCEPT ![h] = "saveIdentity"] /\ pc[h] = "identify"
            /\ UNCHANGED <<store, now, ev, messages, acked, budget, lost, evicted>>
        BY <2>4 DEF FetchIdentity
      <3> QED
        BY <3>1, <3>2
    <2>5. CASE ProceedWithPartialIdentity(h)
      BY <2>5 DEF ProceedWithPartialIdentity
    <2>6. CASE SaveIdentity(h)
      <3>1. store' \in AccountStates /\ evicted' \in [Keys -> Nat]
        BY <2>6, SaveWrites DEF SaveIdentity
      <3> QED
        BY <2>6, <3>1 DEF SaveIdentity
    <2>7. CASE Ignore(h)
      BY <2>7 DEF Ignore, Acknowledge, Return
    <2>8. CASE Admit(h)
      BY <2>8 DEF Admit
    <2>9. CASE EnsureChatSession(h)
      BY <2>9 DEF EnsureChatSession
    <2>10. CASE CreateMessage(h)
      BY <2>10 DEF CreateMessage
    <2>11. CASE SaveInbound(h)
      <3>1. ev[h] \in Events /\ copy[h] \in AccountStates
        BY <2>11 DEF SaveInbound
      <3>2. Marked(copy[h], ev[h]) \in AccountStates
        BY <3>1, MarkedShape
      <3>3. store' \in AccountStates /\ evicted' \in [Keys -> Nat]
        BY <2>11, <3>2, SaveWrites DEF SaveInbound
      <3> QED
        BY <2>11, <3>3 DEF SaveInbound, Acknowledge, Return
    <2> QED
      BY <1>2, <2>1, <2>2, <2>3, <2>4, <2>5, <2>6, <2>7, <2>8, <2>9, <2>10,
         <2>11 DEF HandlerStep
  <1>3. ASSUME NEW h \in Handlers, HandlerFault(h)
        PROVE  TypeOK'
    <2>1. budget' \in [Budgets -> Nat]
      BY <1>3, SpendTyped
      DEF HandlerFault, Abandon, CreateThenFail, SaveThenFail, Budgets
    <2> USE <2>1, InboundAssumption
        DEF TypeOK, Actors, HandlerSteps, SenderSteps, Goto, Return
    <2>2. CASE Abandon(h)
      BY <2>2 DEF Abandon
    <2>3. CASE CreateThenFail(h)
      BY <2>3 DEF CreateThenFail
    <2>4. CASE SaveThenFail(h)
      <3>1. ev[h] \in Events /\ copy[h] \in AccountStates
        BY <2>4 DEF SaveThenFail
      <3>2. Marked(copy[h], ev[h]) \in AccountStates
        BY <3>1, MarkedShape
      <3>3. store' \in AccountStates /\ evicted' \in [Keys -> Nat]
        BY <2>4, <3>1, <3>2, SaveWrites DEF SaveThenFail
      <3> QED
        BY <2>4, <3>3 DEF SaveThenFail
    <2> QED
      BY <1>3, <2>2, <2>3, <2>4 DEF HandlerFault
  <1>4. ASSUME NEW s \in Senders, LoadForSend(s) \/ SenderStep(s)
        PROVE  TypeOK'
    <2> USE InboundAssumption
        DEF TypeOK, Actors, HandlerSteps, SenderSteps, Goto
    <2>1. CASE LoadForSend(s)
      <3>1. budget' \in [Budgets -> Nat]
        BY <2>1, SpendTyped DEF LoadForSend, Budgets
      <3> QED
        BY <2>1, <3>1 DEF LoadForSend
    <2>2. CASE SendWithoutSave(s)
      BY <2>2 DEF SendWithoutSave
    <2>3. CASE FetchToken(s)
      BY <2>3 DEF FetchToken
    <2>4. CASE SaveToken(s)
      <3>1. store' \in AccountStates /\ evicted' \in [Keys -> Nat]
        BY <2>4, SaveWrites DEF SaveToken
      <3> QED
        BY <2>4, <3>1 DEF SaveToken
    <2> QED
      BY <1>4, <2>1, <2>2, <2>3, <2>4 DEF SenderStep
  <1>5. CASE WriteConnectionHealth
    <2>1. budget' \in [Budgets -> Nat]
      BY <1>5, SpendTyped DEF WriteConnectionHealth, Budgets
    <2>2. store' \in AccountStates
      <3> DEFINE n == store.connection + 1
      <3>1. store \in AccountStates /\ n \in Nat
        BY DEF TypeOK, AccountStates
      <3>2. store' = [store EXCEPT !.connection = n]
        BY <1>5 DEF WriteConnectionHealth
      <3> HIDE DEF n
      <3> QED
        BY <3>1, <3>2 DEF AccountStates
    <2> QED
      BY <1>5, <2>1, <2>2 DEF WriteConnectionHealth, TypeOK
  <1>6. CASE Tick
    BY <1>6, InboundAssumption DEF Tick, TypeOK
  <1>7. CASE UNCHANGED vars
    BY <1>7 DEF vars, TypeOK
  <1> QED
    BY <1>1, <1>2, <1>3, <1>4, <1>5, <1>6, <1>7 DEF Next, Quiescent

(***************************************************************************)
(* Every reachable state is well typed: the state processMessageEvent, Send*)
(* and the host share keeps its shape whatever their interleaving.         *)
(***************************************************************************)
THEOREM TypeCorrect == SafetySpec => []TypeOK
  BY InitTyped, NextTyped, PTL DEF SafetySpec

-----------------------------------------------------------------------------
(***************************************************************************)
(* A Beak message comes before every trace of it.  The invariants the runs *)
(* check are not inductive: a step writes back a copy loaded long before,  *)
(* so the strengthening says of every copy, not only of what is stored,    *)
(* that its keys were created, that it is consistent and not from the      *)
(* future, and that a handler about to save has created its message.       *)
(***************************************************************************)
Sound(account, created, time) ==
    /\ \A k \in DOMAIN account.seen : created[k] > 0
    /\ \A e \in Events :
           e.key \in DOMAIN account.seen =>
               /\ e.chat \in account.peers
               /\ account.seen[e.key] <= account.lastEvent
    /\ account.lastEvent <= time

IInv ==
    /\ TypeOK
    /\ Sound(store, messages, now)
    /\ \A a \in Actors : Sound(copy[a], messages, now)
    /\ \A h \in Handlers : pc[h] = "save" => messages[ev[h].key] > 0
    /\ AckedImpliesCreated

(***************************************************************************)
(* A sound account stays so as messages are created and the clock advances,*)
(* when a message of an existing Beak message is marked, and when saved.   *)
(***************************************************************************)
LEMMA SoundLater ==
    ASSUME NEW account \in AccountStates,
           NEW m \in [Keys -> Nat], NEW n \in [Keys -> Nat],
           NEW t \in Nat, NEW u \in Nat,
           \A k \in Keys : n[k] >= m[k], u >= t,
           Sound(account, m, t)
    PROVE  Sound(account, n, u)
  <1>1. DOMAIN account.seen \subseteq Keys /\ account.lastEvent \in Nat
    BY TrackedMapShape, InboundAssumption DEF AccountStates
  <1> QED
    BY <1>1 DEF Sound

LEMMA SoundEmpty == \A m, t : t \in Nat => Sound(EmptyAccount, m, t)
  BY DEF Sound, EmptyAccount

LEMMA SoundMarked ==
    ASSUME TypeOK, NEW account \in AccountStates, NEW e \in Events,
           Sound(account, messages, now), messages[e.key] > 0
    PROVE  Sound(Marked(account, e), messages, now)
  <1> DEFINE marked == Marked(account, e)
  <1>1. /\ DOMAIN marked.seen = DOMAIN account.seen \cup {e.key}
        /\ marked.seen[e.key] = now
        /\ \A k \in DOMAIN account.seen \ {e.key} :
               marked.seen[k] = account.seen[k]
        /\ marked.peers = account.peers \cup {e.chat}
        /\ marked.lastEvent = now
    BY MarkedShape
  <1>2. /\ now \in Nat /\ account.lastEvent \in Nat
        /\ \A k \in DOMAIN account.seen : account.seen[k] \in Nat
    BY TrackedMapShape, InboundAssumption, SMTT(20) DEF TypeOK, AccountStates
  <1>3. ASSUME NEW f \in Events, f.key \in DOMAIN marked.seen
        PROVE  f.chat \in marked.peers /\ marked.seen[f.key] <= marked.lastEvent
    <2> HIDE DEF marked
    <2>1. CASE f.key = e.key
      BY <1>1, <1>2, <2>1, InboundAssumption
    <2>2. CASE f.key # e.key
      BY <1>1, <1>2, <1>3, <2>2 DEF Sound
    <2> QED
      BY <2>1, <2>2
  <1> HIDE DEF marked
  <1>4. Sound(marked, messages, now)
    BY <1>1, <1>2, <1>3 DEF Sound
  <1> QED
    BY <1>4 DEF marked

LEMMA SoundSaved ==
    ASSUME TypeOK, NEW account \in AccountStates, SaveAccount(account),
           Sound(account, messages, now)
    PROVE  Sound(store', messages, now)
  BY SaveWrites DEF Sound

(***************************************************************************)
(* No step takes a message back or turns the clock back.                   *)
(***************************************************************************)
LEMMA OnlyGrows ==
    ASSUME TypeOK, [Next]_vars
    PROVE  /\ \A k \in Keys : messages'[k] >= messages[k]
           /\ now' >= now
  <1>1. ASSUME NEW h \in Handlers,
               messages' = [messages EXCEPT ![ev[h].key] = @ + 1]
        PROVE  \A k \in Keys : messages'[k] >= messages[k]
    BY <1>1 DEF TypeOK
  <1>2. UNCHANGED messages => \A k \in Keys : messages'[k] >= messages[k]
    BY DEF TypeOK
  <1>3. \/ UNCHANGED messages
        \/ \E h \in Handlers :
               messages' = [messages EXCEPT ![ev[h].key] = @ + 1]
    BY DEF Next, vars, Deliver, HandlerStep, HandlerFault, IgnoreForeign, Load,
           UseKnownIdentity, FetchIdentity, ProceedWithPartialIdentity,
           SaveIdentity, Ignore, Admit, EnsureChatSession, CreateMessage,
           SaveInbound, Abandon, CreateThenFail, SaveThenFail, LoadForSend,
           SenderStep, SendWithoutSave, FetchToken, SaveToken,
           WriteConnectionHealth, Tick, Quiescent
  <1>4. UNCHANGED now \/ now' = now + 1
    BY DEF Next, vars, Deliver, HandlerStep, HandlerFault, IgnoreForeign, Load,
           UseKnownIdentity, FetchIdentity, ProceedWithPartialIdentity,
           SaveIdentity, Ignore, Admit, EnsureChatSession, CreateMessage,
           SaveInbound, Abandon, CreateThenFail, SaveThenFail, LoadForSend,
           SenderStep, SendWithoutSave, FetchToken, SaveToken,
           WriteConnectionHealth, Tick, Quiescent
  <1> QED
    BY <1>1, <1>2, <1>3, <1>4 DEF TypeOK

(***************************************************************************)
(* The strengthening is inductive.                                         *)
(***************************************************************************)
LEMMA InitSound == Init => IInv
  <1> SUFFICES ASSUME Init PROVE IInv
    OBVIOUS
  <1>1. TypeOK
    BY InitTyped
  <1>2. Sound(EmptyAccount, messages, now)
    BY <1>1, SoundEmpty, InboundAssumption DEF TypeOK
  <1>3. Sound(store, messages, now)
    <2>1. DOMAIN store.seen = {} /\ store.lastEvent = 0 /\ now \in Nat
      BY <1>1, ConfiguredTyped, InboundAssumption DEF EmptyAccount, TypeOK
    <2> QED
      BY <2>1 DEF Sound
  <1> QED
    BY <1>1, <1>2, <1>3 DEF Init, IInv, AckedImpliesCreated, Actors

LEMMA NextSound == IInv /\ [Next]_vars => IInv'
  <1> SUFFICES ASSUME IInv, [Next]_vars PROVE IInv'
    OBVIOUS
  <1>1. TypeOK /\ TypeOK'
    BY NextTyped DEF IInv
  <1>2. /\ \A k \in Keys : messages'[k] >= messages[k]
        /\ now' >= now
    BY <1>1, OnlyGrows
  <1>3. now \in Nat /\ now' \in Nat
    BY <1>1, InboundAssumption DEF TypeOK
  <1>4. /\ messages \in [Keys -> Nat] /\ messages' \in [Keys -> Nat]
        /\ \A account \in AccountStates :
               Sound(account, messages, now) => Sound(account, messages', now')
    BY <1>1, <1>2, <1>3, SoundLater DEF TypeOK
  <1>5. /\ EmptyAccount \in AccountStates /\ store \in AccountStates
        /\ \A a \in Actors : copy[a] \in AccountStates
        /\ Sound(EmptyAccount, messages', now')
    BY <1>1, <1>3, EmptyTyped, SoundEmpty DEF TypeOK
  <1>6. /\ Sound(store, messages', now')
        /\ \A a \in Actors : Sound(copy[a], messages', now')
    BY <1>4, <1>5 DEF IInv
  <1>7. /\ \A h \in Handlers : pc[h] = "save" => messages'[ev[h].key] > 0
        /\ \A e \in acked : e.kind = "message" => messages'[e.key] > 0
    <2>1. \A e \in Events : messages[e.key] > 0 => messages'[e.key] > 0
      BY <1>2, <1>4, InboundAssumption
    <2>2. \A h \in Handlers : pc[h] = "save" => ev[h] \in Events
      BY <1>1 DEF TypeOK
    <2> QED
      BY <1>1, <2>1, <2>2 DEF IInv, AckedImpliesCreated, TypeOK
  <1> DEFINE Stored == Sound(store', messages', now')
             Copied == \A a \in Actors : Sound(copy'[a], messages', now')
             Saving == \A h \in Handlers :
                           pc'[h] = "save" => messages'[ev'[h].key] > 0
  <1>8. ASSUME NEW h \in Handlers, NEW e \in Events, Deliver(h, e)
        PROVE  Stored /\ Copied /\ Saving /\ AckedImpliesCreated'
    BY <1>1, <1>6, <1>7, <1>8
    DEF Deliver, Goto, TypeOK, AckedImpliesCreated
  <1>9. ASSUME NEW h \in Handlers, HandlerStep(h)
        PROVE  Stored /\ Copied /\ Saving /\ AckedImpliesCreated'
    <2> h \in Actors
      BY DEF Actors
    <2> USE <1>1, <1>5, <1>6, <1>7 DEF TypeOK, Goto
    <2>1. CASE IgnoreForeign(h)
      BY <2>1 DEF IgnoreForeign, Acknowledge, Return, AckedImpliesCreated
    <2>2. CASE Load(h)
      BY <2>2 DEF Load, AckedImpliesCreated
    <2>3. CASE UseKnownIdentity(h)
      BY <2>3 DEF UseKnownIdentity, AckedImpliesCreated
    <2>4. CASE FetchIdentity(h)
      <3>1. PICK account \in AccountStates :
                /\ copy' = [copy EXCEPT ![h] = account]
                /\ account.seen = copy[h].seen /\ account.peers = copy[h].peers
                /\ account.lastEvent = copy[h].lastEvent
        BY <2>4, Fetched
      <3>2. Sound(account, messages', now')
        BY <1>6, <3>1 DEF Sound
      <3>3. Copied
        BY <3>1, <3>2
      <3>4. /\ pc' = [pc EXCEPT ![h] = "saveIdentity"]
            /\ UNCHANGED <<store, ev, acked>>
        BY <2>4 DEF FetchIdentity
      <3> QED
        BY <3>3, <3>4 DEF AckedImpliesCreated
    <2>5. CASE ProceedWithPartialIdentity(h)
      BY <2>5 DEF ProceedWithPartialIdentity, AckedImpliesCreated
    <2>6. CASE SaveIdentity(h)
      <3>1. Sound(store', messages, now)
        BY <2>6, SoundSaved DEF SaveIdentity, IInv
      <3>2. Sound(store', messages', now')
        BY <1>4, <3>1
      <3> QED
        BY <2>6, <3>2 DEF SaveIdentity, AckedImpliesCreated
    <2>7. CASE Ignore(h)
      <3>1. ev[h] \in Events
        BY <2>7 DEF Ignore
      <3>2. ev[h].kind = "message" => messages'[ev[h].key] > 0
        BY <2>7, <3>1 DEF Ignore, Ignored, IsSelfEcho, Sound
      <3> QED
        BY <2>7, <3>1, <3>2 DEF Ignore, Acknowledge, Return, AckedImpliesCreated
    <2>8. CASE Admit(h)
      BY <2>8 DEF Admit, AckedImpliesCreated
    <2>9. CASE EnsureChatSession(h)
      BY <2>9 DEF EnsureChatSession, AckedImpliesCreated
    <2>10. CASE CreateMessage(h)
      <3>1. ev[h] \in Events /\ ev[h].key \in Keys
        BY <2>10, InboundAssumption DEF CreateMessage
      <3>2. messages'[ev[h].key] > 0
        BY <2>10, <3>1 DEF CreateMessage
      <3>3. UNCHANGED <<store, copy, ev, acked>>
            /\ pc' = [pc EXCEPT ![h] = "save"]
        BY <2>10 DEF CreateMessage
      <3>4. Stored /\ Copied
        BY <3>3
      <3>5. Saving
        BY <3>2, <3>3
      <3>6. AckedImpliesCreated'
        BY <3>3 DEF AckedImpliesCreated
      <3> QED
        BY <3>4, <3>5, <3>6
    <2>11. CASE SaveInbound(h)
      <3>1. ev[h] \in Events /\ messages[ev[h].key] > 0
        BY <2>11 DEF SaveInbound, IInv
      <3>2. /\ Marked(copy[h], ev[h]) \in AccountStates
            /\ Sound(Marked(copy[h], ev[h]), messages, now)
        BY <3>1, MarkedShape, SoundMarked DEF IInv
      <3>3. Sound(store', messages, now)
        BY <2>11, <3>2, SoundSaved DEF SaveInbound
      <3>4. Sound(store', messages', now')
        BY <1>4, <3>3
      <3> QED
        BY <2>11, <3>1, <3>4
        DEF SaveInbound, Acknowledge, Return, AckedImpliesCreated
    <2> QED
      BY <1>9, <2>1, <2>2, <2>3, <2>4, <2>5, <2>6, <2>7, <2>8, <2>9, <2>10,
         <2>11 DEF HandlerStep
  <1>10. ASSUME NEW h \in Handlers, HandlerFault(h)
         PROVE  Stored /\ Copied /\ Saving /\ AckedImpliesCreated'
    <2> h \in Actors
      BY DEF Actors
    <2>1. Copied /\ Saving /\ AckedImpliesCreated'
      <3>1. /\ pc' = [pc EXCEPT ![h] = "idle"]
            /\ ev' = [ev EXCEPT ![h] = NoEvent]
            /\ copy' = [copy EXCEPT ![h] = EmptyAccount]
            /\ UNCHANGED acked
        BY <1>10
        DEF HandlerFault, Abandon, CreateThenFail, SaveThenFail, Return, Goto
      <3>2. Copied
        BY <1>1, <1>5, <1>6, <3>1 DEF TypeOK
      <3>3. Saving
        BY <1>1, <1>7, <3>1 DEF TypeOK
      <3>4. AckedImpliesCreated'
        BY <1>7, <3>1 DEF AckedImpliesCreated
      <3> QED
        BY <3>2, <3>3, <3>4
    <2>2. CASE Abandon(h) \/ CreateThenFail(h)
      BY <1>6, <2>1, <2>2 DEF Abandon, CreateThenFail
    <2>3. CASE SaveThenFail(h)
      <3>1. /\ Sound(copy[h], messages, now)
            /\ pc[h] = "save" => /\ ev[h] \in Events
                                 /\ messages[ev[h].key] > 0
        BY <1>1 DEF IInv, TypeOK
      <3>2. pc[h] = "save" => /\ Marked(copy[h], ev[h]) \in AccountStates
                              /\ Sound(Marked(copy[h], ev[h]), messages, now)
        BY <1>1, <1>5, <3>1, MarkedShape, SoundMarked
      <3>3. Sound(store', messages, now)
        BY <1>1, <1>5, <2>3, <3>1, <3>2, SoundSaved DEF SaveThenFail
      <3> QED
        BY <1>1, <1>4, <2>1, <3>3 DEF TypeOK
    <2> QED
      BY <1>10, <2>2, <2>3 DEF HandlerFault
  <1>11. ASSUME NEW s \in Senders, LoadForSend(s) \/ SenderStep(s)
         PROVE  Stored /\ Copied /\ Saving /\ AckedImpliesCreated'
    <2> s \in Actors /\ s \notin Handlers
      BY InboundAssumption DEF Actors
    <2> USE <1>1, <1>5, <1>6, <1>7 DEF TypeOK, Goto, AckedImpliesCreated
    <2>1. CASE LoadForSend(s)
      BY <2>1 DEF LoadForSend
    <2>2. CASE SendWithoutSave(s)
      BY <2>2 DEF SendWithoutSave
    <2>3. CASE FetchToken(s)
      BY <2>3 DEF FetchToken
    <2>4. CASE SaveToken(s)
      <3>1. Sound(store', messages, now)
        BY <2>4, SoundSaved DEF SaveToken, IInv
      <3>2. Sound(store', messages', now')
        BY <1>4, <3>1
      <3> QED
        BY <2>4, <3>2 DEF SaveToken
    <2> QED
      BY <1>11, <2>1, <2>2, <2>3, <2>4 DEF SenderStep
  <1>12. ASSUME WriteConnectionHealth
         PROVE  Stored /\ Copied /\ Saving /\ AckedImpliesCreated'
    <2>1. Stored
      BY <1>5, <1>6, <1>12 DEF WriteConnectionHealth, Sound, AccountStates
    <2> QED
      BY <1>6, <1>7, <1>12, <2>1
      DEF WriteConnectionHealth, AckedImpliesCreated, IInv
  <1>13. ASSUME Tick \/ UNCHANGED vars
         PROVE  Stored /\ Copied /\ Saving /\ AckedImpliesCreated'
    BY <1>6, <1>7, <1>13 DEF Tick, vars, AckedImpliesCreated, IInv
  <1>14. Stored /\ Copied /\ Saving /\ AckedImpliesCreated'
    BY <1>8, <1>9, <1>10, <1>11, <1>12, <1>13 DEF Next, Quiescent
  <1> QED
    BY <1>1, <1>14 DEF IInv

LEMMA Soundness == SafetySpec => []IInv
  BY InitSound, NextSound, PTL DEF SafetySpec

(***************************************************************************)
(* No handling of an event, however interleaved, retried or cut short,     *)
(* marks a key in inbound_seen without a Beak message for it.              *)
(***************************************************************************)
THEOREM SeenMeansCreated == SafetySpec => []SeenImpliesCreated
  <1>1. IInv => SeenImpliesCreated
    BY DEF IInv, Sound, SeenImpliesCreated, Accounts
  <1> QED
    BY <1>1, Soundness, PTL

(***************************************************************************)
(* The platform is told of success only once a user's message exists in    *)
(* Beak: a message is never lost to an acknowledgement.                    *)
(***************************************************************************)
THEOREM CreatedBeforeAcked == SafetySpec => []AckedImpliesCreated
  <1>1. IInv => AckedImpliesCreated
    BY DEF IInv
  <1> QED
    BY <1>1, Soundness, PTL

(***************************************************************************)
(* A remembered key comes with the session of its chat and an activity     *)
(* stamp no older than itself, in the stored state and in every copy.      *)
(***************************************************************************)
THEOREM SeenStaysConsistent == SafetySpec => []SeenIsConsistent
  <1>1. IInv => SeenIsConsistent
    BY DEF IInv, Sound, SeenIsConsistent, Accounts
  <1> QED
    BY <1>1, Soundness, PTL

-----------------------------------------------------------------------------
(***************************************************************************)
(* Serialised calls.  With one call at a time the active copy holds exactly*)
(* the stored keys, so each message is accounted for: its key is stored, is*)
(* about to be, was lost with a failed save, or was pruned away.           *)
(***************************************************************************)
OneAtATime ==
    \A a, b \in Actors : pc[a] # "idle" /\ pc[b] # "idle" => a = b

CopyIsCurrent ==
    \A a \in Actors :
        pc[a] \notin {"idle", "load"} =>
            DOMAIN copy[a].seen = DOMAIN store.seen

HandledIsNew ==
    \A h \in Handlers :
        pc[h] \in {"session", "create", "save"} =>
            ev[h].key \notin DOMAIN store.seen

Pending(k) == \E h \in Handlers : pc[h] = "save" /\ ev[h].key = k

Accounted ==
    \A k \in Keys :
        messages[k] = lost[k] + evicted[k] +
                      (IF k \in DOMAIN store.seen \/ Pending(k) THEN 1 ELSE 0)

SerialInv ==
    /\ TypeOK
    /\ OneAtATime
    /\ CopyIsCurrent
    /\ HandledIsNew
    /\ Accounted
    /\ AckedIsRemembered

(***************************************************************************)
(* While an actor is at work every other is idle, so only its message can  *)
(* be pending.                                                             *)
(***************************************************************************)
LEMMA OthersIdle ==
    ASSUME TypeOK, OneAtATime, NEW a \in Actors, pc[a] # "idle"
    PROVE  /\ \A b \in Actors \ {a} : pc[b] = "idle"
           /\ \A k : Pending(k) <=> a \in Handlers /\ pc[a] = "save" /\ ev[a].key = k
  BY DEF OneAtATime, Pending, Actors

(***************************************************************************)
(* What a save does to a key: it stays, or it goes and is counted.         *)
(***************************************************************************)
LEMMA SaveCounts ==
    ASSUME TypeOK, NEW account \in AccountStates, SaveAccount(account),
           NEW k \in Keys
    PROVE  /\ evicted[k] \in Nat /\ evicted'[k] \in Nat
           /\ k \in DOMAIN store'.seen =>
                  k \in DOMAIN account.seen /\ evicted'[k] = evicted[k]
           /\ k \notin DOMAIN store'.seen /\ k \in DOMAIN account.seen =>
                  evicted'[k] = evicted[k] + 1
           /\ k \notin DOMAIN account.seen => evicted'[k] = evicted[k]
  BY SaveWrites DEF TypeOK

LEMMA InitSerial == Init => SerialInv
  <1> SUFFICES ASSUME Init PROVE SerialInv
    OBVIOUS
  <1>1. TypeOK
    BY InitTyped
  <1>2. store.seen = [k \in {} |-> Unparsed]
    BY ConfiguredTyped DEF EmptyAccount
  <1>3. OneAtATime /\ CopyIsCurrent /\ HandledIsNew /\ AckedIsRemembered
    BY DEF Init, OneAtATime, CopyIsCurrent, HandledIsNew, AckedIsRemembered,
           Actors
  <1>4. Accounted
    BY <1>2 DEF Init, Accounted, Pending, Actors
  <1> QED
    BY <1>1, <1>3, <1>4 DEF SerialInv

(***************************************************************************)
(* The steps that neither save nor create: they move an actor, or change a *)
(* part of the account other than its keys.                                *)
(***************************************************************************)
LEMMA SerialMoves ==
    ASSUME SerialInv, TypeOK', NEW a \in Actors, NEW step,
           pc[a] # "idle", step # "save", step # "idle",
           pc[a] # "save",
           pc' = [pc EXCEPT ![a] = step],
           step \in {"create", "session"} /\ a \in Handlers =>
               ev[a].key \notin DOMAIN store.seen,
           DOMAIN copy'[a].seen = DOMAIN store.seen,
           \A b \in Actors \ {a} : copy'[b] = copy[b],
           UNCHANGED <<store, ev, messages, acked, lost, evicted>>
    PROVE  SerialInv'
  <1>1. /\ \A b \in Actors \ {a} : pc[b] = "idle" /\ pc'[b] = "idle"
        /\ pc'[a] = step
    BY OthersIdle DEF SerialInv, TypeOK
  <1>2. OneAtATime'
    BY <1>1 DEF OneAtATime
  <1>3. CopyIsCurrent'
    BY <1>1 DEF CopyIsCurrent
  <1>4. HandledIsNew'
    BY <1>1 DEF HandledIsNew, Actors
  <1>5. \A k : Pending(k) = FALSE /\ Pending(k)' = FALSE
    BY <1>1 DEF Pending, Actors
  <1>6. Accounted' /\ AckedIsRemembered'
    BY <1>5 DEF SerialInv, Accounted, AckedIsRemembered
  <1> QED
    BY <1>2, <1>3, <1>4, <1>6 DEF SerialInv

(***************************************************************************)
(* An actor ends: nothing of it stays in the invariant.                    *)
(***************************************************************************)
LEMMA AllIdle ==
    ASSUME SerialInv, TypeOK', NEW a \in Actors, pc[a] # "idle",
           pc' = [pc EXCEPT ![a] = "idle"], Accounted', AckedIsRemembered'
    PROVE  SerialInv'
  <1>1. \A b \in Actors : pc'[b] = "idle"
    BY OthersIdle DEF SerialInv, TypeOK
  <1> QED
    BY <1>1 DEF SerialInv, OneAtATime, CopyIsCurrent, HandledIsNew, Actors

(***************************************************************************)
(* A save of everything that is stored forgets no acknowledged key without *)
(* counting it.                                                            *)
(***************************************************************************)
LEMMA SaveRemembers ==
    ASSUME TypeOK, AckedIsRemembered,
           NEW account \in AccountStates, SaveAccount(account),
           DOMAIN store.seen \subseteq DOMAIN account.seen
    PROVE  \A e \in acked :
               e.kind = "message" =>
                   e.key \in DOMAIN store'.seen \/ evicted'[e.key] > 0
  <1> SUFFICES ASSUME NEW e \in acked, e.kind = "message"
               PROVE  e.key \in DOMAIN store'.seen \/ evicted'[e.key] > 0
    OBVIOUS
  <1>1. e.key \in Keys
    BY InboundAssumption DEF TypeOK
  <1>2. e.key \in DOMAIN store.seen \/ evicted[e.key] > 0
    BY DEF AckedIsRemembered
  <1> QED
    BY <1>1, <1>2, SaveCounts

(***************************************************************************)
(* The invariant of serialised calls is inductive.                         *)
(***************************************************************************)
LEMMA NextSerial == ASSUME Serialized PROVE SerialInv /\ [Next]_vars => SerialInv'
  <1> SUFFICES ASSUME SerialInv, [Next]_vars PROVE SerialInv'
    OBVIOUS
  <1>1. TypeOK /\ TypeOK'
    BY NextTyped DEF SerialInv
  <1>2. store \in AccountStates /\ \A a \in Actors : copy[a] \in AccountStates
    BY <1>1 DEF TypeOK
  <1>3. ASSUME MayStart, NEW a \in Actors, NEW step \in {"load", "token"},
               pc' = [pc EXCEPT ![a] = step],
               step = "token" => copy'[a] = store,
               UNCHANGED <<store, messages, acked, lost, evicted>>,
               \A h \in Handlers \ {a} : ev'[h] = ev[h]
        PROVE  SerialInv'
    <2>1. /\ \A b \in Actors : pc[b] = "idle"
          /\ \A b \in Actors \ {a} : pc'[b] = "idle"
          /\ pc'[a] = step
      BY <1>1, <1>3 DEF MayStart, TypeOK
    <2>2. OneAtATime' /\ CopyIsCurrent' /\ HandledIsNew'
      BY <1>3, <2>1 DEF OneAtATime, CopyIsCurrent, HandledIsNew, Actors
    <2>3. \A k : Pending(k) = FALSE /\ Pending(k)' = FALSE
      BY <1>3, <2>1 DEF Pending, Actors
    <2>4. Accounted' /\ AckedIsRemembered'
      BY <1>3, <2>3 DEF SerialInv, Accounted, AckedIsRemembered
    <2> QED
      BY <1>1, <2>2, <2>4 DEF SerialInv
  <1>4. ASSUME NEW h \in Handlers, NEW e \in Events, Deliver(h, e)
        PROVE  SerialInv'
    BY <1>1, <1>3, <1>4 DEF Deliver, Goto, Actors, TypeOK
  <1>5. ASSUME NEW s \in Senders, LoadForSend(s)
        PROVE  SerialInv'
    BY <1>1, <1>3, <1>5 DEF LoadForSend, Goto, Actors, TypeOK
  <1>6. ASSUME NEW h \in Handlers, HandlerStep(h)
        PROVE  SerialInv'
    <2>a. h \in Actors
      BY DEF Actors
    <2>b. pc[h] # "idle" => ev[h] \in Events /\ ev[h].key \in Keys
      BY <1>1, InboundAssumption DEF TypeOK
    <2>1. CASE IgnoreForeign(h) \/ Ignore(h)
      <3>1. /\ pc[h] \in {"load", "admit"}
            /\ pc' = [pc EXCEPT ![h] = "idle"]
            /\ UNCHANGED <<store, messages, lost, evicted>>
            /\ acked' = acked \cup {ev[h]}
        BY <2>1 DEF IgnoreForeign, Ignore, Acknowledge, Return, Goto
      <3>2. ev[h].kind = "message" => ev[h].key \in DOMAIN store.seen
        BY <2>1, <2>a DEF IgnoreForeign, Ignore, Ignored, IsSelfEcho, SerialInv,
                          CopyIsCurrent
      <3>3. AckedIsRemembered'
        BY <3>1, <3>2 DEF SerialInv, AckedIsRemembered
      <3>4. \A k : Pending(k) = FALSE /\ Pending(k)' = FALSE
        <4>1. \A b \in Actors : pc[b] # "save" /\ pc'[b] = "idle"
          BY <1>1, <2>a, <3>1, OthersIdle DEF SerialInv, TypeOK
        <4> QED
          BY <4>1 DEF Pending, Actors
      <3>5. Accounted'
        BY <3>1, <3>4 DEF SerialInv, Accounted
      <3> QED
        BY <1>1, <2>a, <3>1, <3>3, <3>5, AllIdle
    <2>2. CASE Load(h)
      BY <1>1, <2>2, <2>a, SerialMoves DEF Load, Goto, TypeOK
    <2>3. CASE UseKnownIdentity(h) \/ ProceedWithPartialIdentity(h)
      BY <1>1, <2>3, <2>a, SerialMoves
      DEF UseKnownIdentity, ProceedWithPartialIdentity, Goto, TypeOK, SerialInv,
          CopyIsCurrent
    <2>4. CASE FetchIdentity(h)
      <3>1. DOMAIN copy'[h].seen = DOMAIN copy[h].seen
        BY <1>1, <1>2, <2>4, <2>a DEF FetchIdentity, TypeOK, AccountStates
      <3>2. DOMAIN copy[h].seen = DOMAIN store.seen
        BY <2>4, <2>a DEF FetchIdentity, SerialInv, CopyIsCurrent
      <3> QED
        BY <1>1, <2>4, <2>a, <3>1, <3>2, SerialMoves
        DEF FetchIdentity, Goto, TypeOK
    <2>5. CASE SaveIdentity(h)
      <3>1. /\ SaveAccount(copy[h])
            /\ copy' = [copy EXCEPT ![h] = store']
            /\ pc[h] = "saveIdentity" /\ pc' = [pc EXCEPT ![h] = "admit"]
            /\ UNCHANGED <<ev, messages, acked, lost>>
        BY <2>5 DEF SaveIdentity, Goto
      <3>2. /\ \A b \in Actors \ {h} : pc[b] = "idle" /\ pc'[b] = "idle"
            /\ pc'[h] = "admit" /\ copy'[h] = store'
        BY <1>1, <2>a, <3>1, OthersIdle DEF SerialInv, TypeOK
      <3>3. OneAtATime' /\ CopyIsCurrent' /\ HandledIsNew'
        BY <3>2 DEF OneAtATime, CopyIsCurrent, HandledIsNew, Actors
      <3>4. \A k : Pending(k) = FALSE /\ Pending(k)' = FALSE
        BY <3>1, <3>2 DEF Pending, Actors
      <3>5. DOMAIN copy[h].seen = DOMAIN store.seen
        BY <2>a, <3>1 DEF SerialInv, CopyIsCurrent
      <3>6. Accounted'
        BY <1>1, <1>2, <2>a, <3>1, <3>4, <3>5, SaveCounts
        DEF SerialInv, Accounted, TypeOK
      <3>7. AckedIsRemembered'
        BY <1>1, <1>2, <2>a, <3>1, <3>5, SaveRemembers
        DEF SerialInv, AckedIsRemembered
      <3> QED
        BY <1>1, <3>3, <3>6, <3>7 DEF SerialInv
    <2>6. CASE Admit(h)
      <3>1. ev[h].key \notin DOMAIN store.seen
        BY <2>6, <2>a DEF Admit, Ignored, SerialInv, CopyIsCurrent
      <3> QED
        BY <1>1, <2>6, <2>a, <3>1, SerialMoves
        DEF Admit, Goto, SerialInv, CopyIsCurrent
    <2>7. CASE EnsureChatSession(h)
      BY <1>1, <2>7, <2>a, SerialMoves
      DEF EnsureChatSession, Goto, SerialInv, CopyIsCurrent, HandledIsNew
    <2>8. CASE CreateMessage(h)
      <3>1. /\ pc[h] = "create" /\ pc' = [pc EXCEPT ![h] = "save"]
            /\ messages' = [messages EXCEPT ![ev[h].key] = @ + 1]
            /\ UNCHANGED <<store, ev, copy, acked, lost, evicted>>
        BY <2>8 DEF CreateMessage, Goto
      <3>2. /\ \A b \in Actors \ {h} : pc[b] = "idle" /\ pc'[b] = "idle"
            /\ pc'[h] = "save"
        BY <1>1, <2>a, <3>1, OthersIdle DEF SerialInv, TypeOK
      <3>3. OneAtATime'
        BY <3>2 DEF OneAtATime
      <3>4. CopyIsCurrent' /\ HandledIsNew'
        BY <3>1, <3>2, <2>a
        DEF SerialInv, CopyIsCurrent, HandledIsNew, Actors
      <3>5. \A k : Pending(k) = FALSE /\ (Pending(k)' <=> k = ev[h].key)
        BY <3>1, <3>2 DEF Pending, Actors
      <3>6. ev[h].key \in Keys /\ ev[h].key \notin DOMAIN store.seen
        BY <2>b, <3>1 DEF SerialInv, HandledIsNew
      <3>7. Accounted'
        BY <1>1, <3>1, <3>5, <3>6 DEF SerialInv, Accounted, TypeOK
      <3>8. AckedIsRemembered'
        BY <3>1 DEF SerialInv, AckedIsRemembered
      <3> QED
        BY <1>1, <3>3, <3>4, <3>7, <3>8 DEF SerialInv
    <2>9. CASE SaveInbound(h)
      <3> DEFINE marked == Marked(copy[h], ev[h])
      <3>1. /\ pc[h] = "save" /\ pc' = [pc EXCEPT ![h] = "idle"]
            /\ ev' = [ev EXCEPT ![h] = NoEvent]
            /\ SaveAccount(marked)
            /\ acked' = acked \cup {ev[h]}
            /\ UNCHANGED <<messages, lost>>
        BY <2>9 DEF SaveInbound, Acknowledge, Return, Goto
      <3>2. /\ ev[h] \in Events /\ ev[h].key \in Keys
            /\ marked \in AccountStates
            /\ DOMAIN marked.seen = DOMAIN store.seen \cup {ev[h].key}
            /\ ev[h].key \notin DOMAIN store.seen
        BY <1>1, <1>2, <2>a, <2>b, <3>1, MarkedShape
        DEF SerialInv, CopyIsCurrent, HandledIsNew
      <3>3. \A k : (Pending(k) <=> k = ev[h].key) /\ Pending(k)' = FALSE
        <4>1. \A b \in Actors : pc'[b] = "idle"
          BY <1>1, <2>a, <3>1, OthersIdle DEF SerialInv, TypeOK
        <4>2. \A k : Pending(k) <=> k = ev[h].key
          BY <1>1, <2>a, <3>1, OthersIdle DEF SerialInv
        <4> QED
          BY <4>1, <4>2 DEF Pending, Actors
      <3> HIDE DEF marked
      <3>4. Accounted'
        BY <1>1, <3>1, <3>2, <3>3, SaveCounts DEF SerialInv, Accounted, TypeOK
      <3>5. AckedIsRemembered'
        <4>1. ev[h].key \in DOMAIN store'.seen \/ evicted'[ev[h].key] > 0
          BY <1>1, <3>1, <3>2, SaveCounts
        <4>2. \A e \in acked :
                  e.kind = "message" =>
                      e.key \in DOMAIN store'.seen \/ evicted'[e.key] > 0
          BY <1>1, <3>1, <3>2, SaveRemembers DEF SerialInv
        <4> QED
          BY <3>1, <4>1, <4>2 DEF AckedIsRemembered
      <3> QED
        BY <1>1, <2>a, <3>1, <3>4, <3>5, AllIdle
    <2> QED
      BY <1>6, <2>1, <2>2, <2>3, <2>4, <2>5, <2>6, <2>7, <2>8, <2>9
      DEF HandlerStep
  <1>7. ASSUME NEW h \in Handlers, HandlerFault(h)
        PROVE  SerialInv'
    <2>a. h \in Actors /\ pc[h] # "idle"
      BY <1>7 DEF Actors, HandlerFault, Abandon, CreateThenFail, SaveThenFail
    <2>b. ev[h] \in Events /\ ev[h].key \in Keys
      BY <1>1, <2>a, InboundAssumption DEF TypeOK
    <2>c. /\ pc' = [pc EXCEPT ![h] = "idle"]
          /\ UNCHANGED acked
      BY <1>7 DEF HandlerFault, Abandon, CreateThenFail, SaveThenFail, Return, Goto
    <2>d. \A k : /\ Pending(k) <=> pc[h] = "save" /\ k = ev[h].key
                 /\ Pending(k)' = FALSE
      <3>1. \A b \in Actors : pc'[b] = "idle"
        BY <1>1, <2>a, <2>c, OthersIdle DEF SerialInv, TypeOK
      <3>2. \A k : Pending(k) <=> pc[h] = "save" /\ k = ev[h].key
        BY <1>1, <2>a, OthersIdle DEF SerialInv
      <3> QED
        BY <3>1, <3>2 DEF Pending, Actors
    <2>1. ASSUME Abandon(h)
          PROVE  Accounted' /\ AckedIsRemembered'
      <3>1. /\ UNCHANGED <<store, messages, evicted>>
            /\ lost' = IF pc[h] = "save"
                       THEN [lost EXCEPT ![ev[h].key] = @ + 1] ELSE lost
        BY <2>1 DEF Abandon
      <3>2. pc[h] = "save" => ev[h].key \notin DOMAIN store.seen
        BY DEF SerialInv, HandledIsNew
      <3>3. Accounted'
        BY <1>1, <2>b, <2>d, <3>1, <3>2 DEF SerialInv, Accounted, TypeOK
      <3> QED
        BY <2>c, <3>1, <3>3 DEF SerialInv, AckedIsRemembered
    <2>2. ASSUME CreateThenFail(h)
          PROVE  Accounted' /\ AckedIsRemembered'
      <3>1. /\ pc[h] = "create"
            /\ UNCHANGED <<store, evicted>>
            /\ messages' = [messages EXCEPT ![ev[h].key] = @ + 1]
            /\ lost' = [lost EXCEPT ![ev[h].key] = @ + 1]
        BY <2>2 DEF CreateThenFail
      <3>2. Accounted'
        BY <1>1, <2>b, <2>d, <3>1 DEF SerialInv, Accounted, TypeOK
      <3> QED
        BY <2>c, <3>1, <3>2 DEF SerialInv, AckedIsRemembered
    <2>3. ASSUME SaveThenFail(h)
          PROVE  Accounted' /\ AckedIsRemembered'
      <3>1. UNCHANGED <<messages, lost>>
        BY <2>3 DEF SaveThenFail
      <3>2. DOMAIN copy[h].seen = DOMAIN store.seen
        BY <2>3, <2>a DEF SaveThenFail, SerialInv, CopyIsCurrent
      <3>3. CASE pc[h] = "saveIdentity" /\ SaveAccount(copy[h])
        <4>1. Accounted'
          BY <1>1, <1>2, <2>a, <2>d, <3>1, <3>2, <3>3, SaveCounts
          DEF SerialInv, Accounted, TypeOK
        <4> QED
          BY <1>1, <1>2, <2>a, <2>c, <3>2, <3>3, <4>1, SaveRemembers
          DEF SerialInv, AckedIsRemembered
      <3>4. CASE pc[h] = "save" /\ SaveAccount(Marked(copy[h], ev[h]))
        <4> DEFINE marked == Marked(copy[h], ev[h])
        <4>1. /\ marked \in AccountStates
              /\ DOMAIN marked.seen = DOMAIN store.seen \cup {ev[h].key}
              /\ ev[h].key \notin DOMAIN store.seen
              /\ SaveAccount(marked)
          BY <1>1, <1>2, <2>a, <2>b, <3>2, <3>4, MarkedShape
          DEF SerialInv, HandledIsNew
        <4> HIDE DEF marked
        <4>2. Accounted'
          BY <1>1, <2>b, <2>d, <3>1, <3>4, <4>1, SaveCounts
          DEF SerialInv, Accounted, TypeOK
        <4> QED
          BY <1>1, <2>c, <4>1, <4>2, SaveRemembers
          DEF SerialInv, AckedIsRemembered
      <3> QED
        BY <2>3, <3>3, <3>4 DEF SaveThenFail
    <2> QED
      BY <1>1, <1>7, <2>a, <2>c, <2>1, <2>2, <2>3, AllIdle DEF HandlerFault
  <1>8. ASSUME NEW s \in Senders, SenderStep(s)
        PROVE  SerialInv'
    <2>a. s \in Actors /\ s \notin Handlers /\ pc[s] \in {"token", "saveToken"}
      BY <1>8, InboundAssumption
      DEF Actors, SenderStep, SendWithoutSave, FetchToken, SaveToken
    <2>b. /\ \A k : Pending(k) = FALSE
          /\ DOMAIN copy[s].seen = DOMAIN store.seen
      BY <1>1, <2>a, OthersIdle DEF SerialInv, CopyIsCurrent
    <2>c. pc' = [pc EXCEPT ![s] = "idle"] => \A k : Pending(k)' = FALSE
      <3> SUFFICES ASSUME pc' = [pc EXCEPT ![s] = "idle"]
                   PROVE  \A k : Pending(k)' = FALSE
        OBVIOUS
      <3>1. \A b \in Actors : pc'[b] = "idle"
        BY <1>1, <2>a, OthersIdle DEF SerialInv, TypeOK
      <3> QED
        BY <3>1 DEF Pending, Actors
    <2>1. CASE SendWithoutSave(s)
      <3>1. /\ UNCHANGED <<store, messages, acked, lost, evicted>>
            /\ pc' = [pc EXCEPT ![s] = "idle"]
        BY <2>1 DEF SendWithoutSave, Goto
      <3>2. Accounted' /\ AckedIsRemembered'
        BY <2>b, <2>c, <3>1 DEF SerialInv, Accounted, AckedIsRemembered
      <3> QED
        BY <1>1, <2>a, <3>1, <3>2, AllIdle
    <2>2. CASE FetchToken(s)
      BY <1>1, <2>2, <2>a, <2>b, SerialMoves DEF FetchToken, Goto, TypeOK
    <2>3. CASE SaveToken(s)
      <3>1. /\ SaveAccount(copy[s])
            /\ UNCHANGED <<messages, acked, lost>>
            /\ pc' = [pc EXCEPT ![s] = "idle"]
        BY <2>3 DEF SaveToken, Goto
      <3>2. Accounted'
        BY <1>1, <1>2, <2>a, <2>b, <2>c, <3>1, SaveCounts
        DEF SerialInv, Accounted, TypeOK
      <3>3. AckedIsRemembered'
        BY <1>1, <1>2, <2>a, <2>b, <3>1, SaveRemembers
        DEF SerialInv, AckedIsRemembered
      <3> QED
        BY <1>1, <2>a, <3>1, <3>2, <3>3, AllIdle
    <2> QED
      BY <1>8, <2>1, <2>2, <2>3 DEF SenderStep
  <1>9. CASE WriteConnectionHealth \/ Tick \/ UNCHANGED vars
    <2>1. /\ store'.seen = store.seen
          /\ UNCHANGED <<pc, ev, copy, messages, acked, lost, evicted>>
      BY <1>2, <1>9 DEF WriteConnectionHealth, Tick, vars, AccountStates
    <2>2. \A k : Pending(k)' = Pending(k)
      BY <2>1 DEF Pending
    <2> QED
      BY <1>1, <2>1, <2>2
      DEF SerialInv, OneAtATime, CopyIsCurrent, HandledIsNew, Accounted,
          AckedIsRemembered
  <1> QED
    BY <1>4, <1>5, <1>6, <1>7, <1>8, <1>9 DEF Next, Quiescent

(***************************************************************************)
(* If the host runs one call on an account at a time, then no message is   *)
(* created twice unless a handler failed between creating it and saving its*)
(* key, or pruning dropped the key, each costing at most one duplicate.    *)
(***************************************************************************)
THEOREM DuplicatesAreExplained ==
    ASSUME Serialized PROVE SafetySpec => []DuplicatesExplained
  <1>1. SerialInv => DuplicatesExplained
    BY DEF SerialInv, Accounted, DuplicatesExplained, TypeOK
  <1>2. SerialInv /\ [Next]_vars => SerialInv'
    BY NextSerial
  <1> QED
    BY <1>1, <1>2, InitSerial, PTL DEF SafetySpec

(***************************************************************************)
(* If the host runs one call on an account at a time, then the key of an   *)
(* acknowledged message stays in inbound_seen until pruning drops it.      *)
(***************************************************************************)
THEOREM AckedStaysRemembered ==
    ASSUME Serialized PROVE SafetySpec => []AckedIsRemembered
  <1>1. SerialInv => AckedIsRemembered
    BY DEF SerialInv
  <1>2. SerialInv /\ [Next]_vars => SerialInv'
    BY NextSerial
  <1> QED
    BY <1>1, <1>2, InitSerial, PTL DEF SafetySpec

-----------------------------------------------------------------------------
(***************************************************************************)
(* No save undoes another.  The copy of a call that has loaded the state is*)
(* the stored state still, but for what the call itself has learned of the *)
(* bot and what the host has written of its connection.                    *)
(***************************************************************************)
Follows(account) ==
    /\ account.seen = store.seen
    /\ account.peers = store.peers
    /\ account.lastEvent = store.lastEvent
    /\ store.bot \subseteq account.bot

CopyFollows == \A a \in Actors : pc[a] \notin {"idle", "load"} => Follows(copy[a])

(***************************************************************************)
(* A step of the only call that leaves it idle, or that loads, saves or    *)
(* learns what Follows allows.                                             *)
(***************************************************************************)
LEMMA FollowsOne ==
    ASSUME TypeOK, OneAtATime, NEW a \in Actors, pc[a] # "idle",
           NEW step, pc' = [pc EXCEPT ![a] = step],
           step # "idle" => Follows(copy[a])'
    PROVE  CopyFollows'
  <1>1. \A b \in Actors \ {a} : pc'[b] = "idle"
    BY OthersIdle DEF TypeOK
  <1>2. pc'[a] = step
    BY DEF TypeOK
  <1> QED
    BY <1>1, <1>2 DEF CopyFollows

(***************************************************************************)
(* While calls are serialised a copy follows the store.                    *)
(***************************************************************************)
LEMMA FollowsNext ==
    ASSUME Serialized, SerialInv, CopyFollows, [Next]_vars
    PROVE  CopyFollows'
  <1>1. TypeOK /\ OneAtATime
    BY DEF SerialInv
  <1>2. store \in AccountStates /\ \A a \in Actors : copy[a] \in AccountStates
    BY <1>1 DEF TypeOK
  <1>3. ASSUME NEW a \in Actors, pc[a] # "idle", pc' = [pc EXCEPT ![a] = "idle"]
        PROVE  CopyFollows'
    BY <1>1, <1>3, FollowsOne
  <1>4. ASSUME NEW a \in Actors, NEW step, pc[a] \notin {"idle", "load"},
               pc' = [pc EXCEPT ![a] = step], UNCHANGED <<store, copy>>
        PROVE  CopyFollows'
    <2>1. Follows(copy[a])'
      BY <1>4 DEF CopyFollows, Follows
    <2> QED
      BY <1>1, <1>4, <2>1, FollowsOne
  <1>5. ASSUME NEW a \in Actors, NEW step, pc[a] # "idle",
               pc' = [pc EXCEPT ![a] = step], copy' = [copy EXCEPT ![a] = store']
        PROVE  CopyFollows'
    <2>1. copy'[a] = store'
      BY <1>1, <1>5 DEF TypeOK
    <2>2. Follows(copy[a])'
      BY <2>1 DEF Follows
    <2> QED
      BY <1>1, <1>5, <2>2, FollowsOne
  <1>6. CASE \E h \in Handlers, e \in Events : Deliver(h, e)
    <2>1. PICK h \in Handlers : /\ MayStart /\ pc' = [pc EXCEPT ![h] = "load"]
                                /\ h \in Actors
      BY <1>6 DEF Deliver, Goto, Actors
    <2>2. \A b \in Actors : pc'[b] \in {"idle", "load"}
      BY <1>1, <2>1 DEF MayStart, TypeOK
    <2> QED
      BY <2>2 DEF CopyFollows
  <1>7. CASE \E s \in Senders : LoadForSend(s)
    <2>1. PICK s \in Senders :
              /\ MayStart /\ s \in Actors /\ store' = store
              /\ copy' = [copy EXCEPT ![s] = store]
              /\ pc' = [pc EXCEPT ![s] = "token"]
      BY <1>7 DEF LoadForSend, Goto, Actors
    <2>2. \A b \in Actors \ {s} : pc'[b] = "idle"
      BY <1>1, <2>1 DEF MayStart, TypeOK
    <2>3. copy'[s] = store'
      BY <1>1, <2>1 DEF TypeOK
    <2> QED
      BY <2>2, <2>3 DEF CopyFollows, Follows
  <1>8. ASSUME NEW h \in Handlers, HandlerStep(h) PROVE CopyFollows'
    <2>a. h \in Actors
      BY DEF Actors
    <2>1. CASE IgnoreForeign(h) \/ Ignore(h) \/ SaveInbound(h)
      BY <1>3, <2>a, <2>1
      DEF IgnoreForeign, Ignore, SaveInbound, Acknowledge, Return, Goto
    <2>2. CASE Load(h) \/ SaveIdentity(h)
      BY <1>5, <2>a, <2>2 DEF Load, SaveIdentity, Goto
    <2>3. CASE \/ UseKnownIdentity(h) \/ ProceedWithPartialIdentity(h)
               \/ Admit(h) \/ EnsureChatSession(h) \/ CreateMessage(h)
      BY <1>4, <2>a, <2>3
      DEF UseKnownIdentity, ProceedWithPartialIdentity, Admit,
          EnsureChatSession, CreateMessage, Goto
    <2>4. CASE FetchIdentity(h)
      <3>1. /\ pc[h] = "identify" /\ pc' = [pc EXCEPT ![h] = "saveIdentity"]
            /\ store' = store
        BY <2>4 DEF FetchIdentity, Goto
      <3>2. PICK account :
                /\ copy' = [copy EXCEPT ![h] = account]
                /\ account.seen = copy[h].seen /\ account.peers = copy[h].peers
                /\ account.lastEvent = copy[h].lastEvent
                /\ copy[h].bot \subseteq account.bot
        BY <1>1, <2>4, Fetched
      <3>3. /\ copy'[h].seen = copy[h].seen /\ copy'[h].peers = copy[h].peers
            /\ copy'[h].lastEvent = copy[h].lastEvent
            /\ copy[h].bot \subseteq copy'[h].bot
        BY <1>1, <2>a, <3>2 DEF TypeOK
      <3>4. Follows(copy[h])'
        BY <2>a, <3>1, <3>3 DEF CopyFollows, Follows
      <3> QED
        BY <1>1, <2>a, <3>1, <3>4, FollowsOne
    <2> QED
      BY <1>8, <2>1, <2>2, <2>3, <2>4 DEF HandlerStep
  <1>9. ASSUME NEW h \in Handlers, HandlerFault(h) PROVE CopyFollows'
    BY <1>3, <1>9
    DEF HandlerFault, Abandon, CreateThenFail, SaveThenFail, Return, Goto, Actors
  <1>10. ASSUME NEW s \in Senders, SenderStep(s) PROVE CopyFollows'
    <2>1. CASE SendWithoutSave(s) \/ SaveToken(s)
      BY <1>3, <2>1 DEF SendWithoutSave, SaveToken, Goto, Actors
    <2>2. CASE FetchToken(s)
      BY <1>4, <2>2 DEF FetchToken, Goto, Actors
    <2> QED
      BY <1>10, <2>1, <2>2 DEF SenderStep
  <1>11. CASE WriteConnectionHealth \/ Tick \/ UNCHANGED vars
    <2>1. /\ store'.seen = store.seen /\ store'.peers = store.peers
          /\ store'.lastEvent = store.lastEvent /\ store'.bot = store.bot
          /\ UNCHANGED <<pc, copy>>
      BY <1>2, <1>11 DEF WriteConnectionHealth, Tick, vars, AccountStates
    <2> QED
      BY <2>1 DEF CopyFollows, Follows
  <1> QED
    BY <1>6, <1>7, <1>8, <1>9, <1>10, <1>11 DEF Next, Quiescent

(***************************************************************************)
(* Saving an account that goes on from the store undoes nothing.           *)
(***************************************************************************)
LEMMA SavesOnward ==
    ASSUME TypeOK, NEW account \in AccountStates, SaveAccount(account),
           store.peers \subseteq account.peers,
           store.bot \subseteq account.bot,
           store.lastEvent <= account.lastEvent,
           \A k \in DOMAIN store.seen :
               k \in DOMAIN account.seen /\ account.seen[k] = store.seen[k]
    PROVE  UndoesNothing
  <1>1. DOMAIN store.seen \subseteq Keys
    BY TrackedMapShape DEF TypeOK, AccountStates
  <1>2. ASSUME NEW k \in DOMAIN store.seen
        PROVE  IF k \in DOMAIN store'.seen THEN store'.seen[k] = store.seen[k]
               ELSE evicted'[k] = evicted[k] + 1
    BY <1>1, SaveWrites
  <1> QED
    BY <1>2, SaveWrites DEF UndoesNothing

(***************************************************************************)
(* Every save is of a copy that follows the store, with the message of its *)
(* call marked or not; no other step writes what UndoesNothing is about.   *)
(***************************************************************************)
LEMMA StepsUndoNothing ==
    ASSUME IInv, SerialInv, CopyFollows, [Next]_vars
    PROVE  [UndoesNothing]_vars
  <1>1. /\ TypeOK /\ store \in AccountStates
        /\ \A a \in Actors : copy[a] \in AccountStates
    BY DEF SerialInv, TypeOK
  <1>2. store.lastEvent \in Nat /\ store.lastEvent <= now
    BY <1>1, InboundAssumption DEF IInv, Sound, AccountStates
  <1>3. ASSUME /\ store'.seen = store.seen /\ store'.peers = store.peers
               /\ store'.lastEvent = store.lastEvent /\ store'.bot = store.bot
        PROVE  UndoesNothing
    BY <1>2, <1>3 DEF UndoesNothing
  <1>4. ASSUME NEW a \in Actors, pc[a] \notin {"idle", "load"},
               SaveAccount(copy[a])
        PROVE  UndoesNothing
    <2>1. Follows(copy[a])
      BY <1>4 DEF CopyFollows
    <2> QED
      BY <1>1, <1>2, <1>4, <2>1, SavesOnward DEF Follows
  <1>5. ASSUME NEW h \in Handlers, pc[h] = "save",
               SaveAccount(Marked(copy[h], ev[h]))
        PROVE  UndoesNothing
    <2>1. h \in Actors /\ ev[h] \in Events
      BY <1>1, <1>5 DEF Actors, TypeOK
    <2>2. Follows(copy[h]) /\ ev[h].key \notin DOMAIN store.seen
      BY <1>5, <2>1 DEF CopyFollows, SerialInv, HandledIsNew
    <2> DEFINE account == Marked(copy[h], ev[h])
    <2>3. /\ account \in AccountStates
          /\ account.peers = copy[h].peers \cup {ev[h].chat}
          /\ account.bot = copy[h].bot /\ account.lastEvent = now
          /\ DOMAIN account.seen = DOMAIN copy[h].seen \cup {ev[h].key}
          /\ \A k \in DOMAIN copy[h].seen \ {ev[h].key} :
                 account.seen[k] = copy[h].seen[k]
      BY <1>1, <2>1, MarkedShape
    <2> HIDE DEF account
    <2>4. SaveAccount(account)
      BY <1>5 DEF account
    <2> QED
      BY <1>1, <1>2, <2>2, <2>3, <2>4, SavesOnward DEF Follows
  <1>6. ASSUME NEW h \in Handlers, HandlerStep(h) \/ HandlerFault(h)
        PROVE  UndoesNothing
    <2>1. CASE SaveIdentity(h)
      BY <1>4, <2>1 DEF SaveIdentity, Actors
    <2>2. CASE SaveInbound(h)
      BY <1>5, <2>2 DEF SaveInbound
    <2>3. CASE SaveThenFail(h)
      BY <1>4, <1>5, <2>3 DEF SaveThenFail, Actors
    <2>4. CASE UNCHANGED store
      BY <1>3, <2>4
    <2> QED
      BY <1>6, <2>1, <2>2, <2>3, <2>4
      DEF HandlerStep, HandlerFault, IgnoreForeign, Load, UseKnownIdentity,
          FetchIdentity, ProceedWithPartialIdentity, Ignore, Admit,
          EnsureChatSession, CreateMessage, Abandon, CreateThenFail
  <1>7. ASSUME NEW s \in Senders, LoadForSend(s) \/ SenderStep(s)
        PROVE  UndoesNothing
    <2>1. CASE SaveToken(s)
      BY <1>4, <2>1 DEF SaveToken, Actors
    <2>2. CASE UNCHANGED store
      BY <1>3, <2>2
    <2> QED
      BY <1>7, <2>1, <2>2 DEF LoadForSend, SenderStep, SendWithoutSave, FetchToken
  <1>8. CASE WriteConnectionHealth
    BY <1>1, <1>3, <1>8 DEF WriteConnectionHealth, AccountStates
  <1>9. CASE \/ \E h \in Handlers, e \in Events : Deliver(h, e)
             \/ Tick
    BY <1>3, <1>9 DEF Deliver, Tick
  <1> QED
    BY <1>6, <1>7, <1>8, <1>9 DEF Next, Quiescent

(***************************************************************************)
(* If the host runs one call on an account at a time, then no SaveAccount  *)
(* undoes what another call saved, although each writes the whole of a     *)
(* state that was loaded before several network calls.                     *)
(***************************************************************************)
THEOREM NoSaveUndoesAnother == ASSUME Serialized PROVE SafetySpec => SavesUndoNothing
  <1>1. Init => CopyFollows
    BY DEF Init, CopyFollows
  <1>2. SerialInv /\ [Next]_vars => SerialInv'
    BY NextSerial
  <1>3. SerialInv /\ CopyFollows /\ [Next]_vars => CopyFollows'
    BY FollowsNext
  <1>4. IInv /\ SerialInv /\ CopyFollows /\ [Next]_vars => [UndoesNothing]_vars
    BY StepsUndoNothing
  <1> QED
    BY <1>1, <1>2, <1>3, <1>4, InitSerial, Soundness, PTL
    DEF SafetySpec, SavesUndoNothing

-----------------------------------------------------------------------------
(* The contract                                                            *)

(***************************************************************************)
(* Every account tells the bot's own messages from a user's, at once or    *)
(* after it has asked BotInfo; past the identity check it has asked or need*)
(* not, so an event that goes on to the gateway is a user's complete       *)
(* message.                                                                *)
(***************************************************************************)
Recognises(bot) ==
    \A e \in Events : e.kind = "echo" =>
        e.told \cap (IF bot = {} THEN {"open_id"} ELSE bot) # {}

IdentityInv ==
    /\ TypeOK
    /\ Recognises(store.bot)
    /\ \A a \in Actors : pc[a] \notin {"idle", "load"} => Recognises(copy[a].bot)
    /\ \A h \in Handlers :
           /\ pc[h] \notin {"idle", "load"} => ev[h].kind # "foreign"
           /\ pc[h] \in {"saveIdentity", "admit"} => copy[h].bot # {}
           /\ pc[h] \in {"session", "create", "save"} => ev[h].kind = "message"
    /\ OnlyMessagesCreated

LEMMA InitIdentity ==
    ASSUME EchoesAreTold PROVE Init => IdentityInv
  <1> SUFFICES ASSUME Init PROVE IdentityInv
    OBVIOUS
  <1>1. TypeOK
    BY InitTyped
  <1>2. Recognises(store.bot)
    BY ConfiguredTyped DEF EchoesAreTold, Recognises
  <1> QED
    BY <1>1, <1>2, InboundAssumption
    DEF Init, IdentityInv, OnlyMessagesCreated, Actors

(***************************************************************************)
(* The invariant is inductive.                                             *)
(***************************************************************************)
LEMMA NextIdentity == IdentityInv /\ [Next]_vars => IdentityInv'
  <1> SUFFICES ASSUME IdentityInv, [Next]_vars PROVE IdentityInv'
    OBVIOUS
  <1>1. TypeOK /\ TypeOK'
    BY NextTyped DEF IdentityInv
  <1>2. /\ store \in AccountStates
        /\ \A a \in Actors : copy[a] \in AccountStates
        /\ Handlers \subseteq Actors /\ Senders \subseteq Actors
    BY <1>1 DEF TypeOK, Actors
  <1> DEFINE At(step, e, account) ==
                 /\ step \notin {"idle", "load"} =>
                        Recognises(account.bot) /\ e.kind # "foreign"
                 /\ step \in {"saveIdentity", "admit"} => account.bot # {}
                 /\ step \in {"session", "create", "save"} => e.kind = "message"
             Sending(s) == pc'[s] # "idle" => Recognises(copy'[s].bot)
             Good == /\ Recognises(store'.bot)
                     /\ \A h \in Handlers : At(pc'[h], ev'[h], copy'[h])
                     /\ \A s \in Senders : Sending(s)
                     /\ OnlyMessagesCreated'
  <1>3. /\ \A h \in Handlers : At(pc[h], ev[h], copy[h])
        /\ \A s \in Senders : pc[s] # "idle" => Recognises(copy[s].bot)
    BY <1>1, <1>2 DEF IdentityInv, TypeOK, SenderSteps
  <1>4. UNCHANGED messages => OnlyMessagesCreated'
    BY DEF IdentityInv, OnlyMessagesCreated
  <1>5. ASSUME NEW h \in Handlers, HandlerStep(h) \/ HandlerFault(h)
        PROVE  Good
    <2>a. h \in Actors /\ pc[h] # "idle" /\ ev[h] \in Events
      BY <1>1, <1>5
      DEF Actors, HandlerStep, HandlerFault, IgnoreForeign, Load,
          UseKnownIdentity, FetchIdentity, ProceedWithPartialIdentity,
          SaveIdentity, Ignore, Admit, EnsureChatSession, CreateMessage,
          SaveInbound, Abandon, CreateThenFail, SaveThenFail, TypeOK
    <2>b. At(pc[h], ev[h], copy[h]) /\ Recognises(store.bot)
      BY <1>3 DEF IdentityInv
    <2>c. ASSUME messages' = [messages EXCEPT ![ev[h].key] = @ + 1],
                 ev[h].kind = "message"
          PROVE  OnlyMessagesCreated'
      BY <1>1, <2>a, <2>c, InboundAssumption
      DEF IdentityInv, OnlyMessagesCreated, TypeOK
    <2>1. ASSUME NEW step, pc' = [pc EXCEPT ![h] = step],
                 ev'[h] = ev[h], \A g \in Handlers \ {h} : ev'[g] = ev[g],
                 \A a \in Actors \ {h} : copy'[a] = copy[a],
                 At(step, ev[h], copy'[h]),
                 Recognises(store'.bot), OnlyMessagesCreated'
          PROVE  Good
      <3>1. /\ pc'[h] = step
            /\ \A a \in Actors \ {h} : pc'[a] = pc[a] /\ copy'[a] = copy[a]
            /\ \A s \in Senders : s \in Actors \ {h}
        BY <1>1, <1>2, <2>a, <2>1, InboundAssumption DEF TypeOK
      <3>2. \A g \in Handlers : At(pc'[g], ev'[g], copy'[g])
        <4> HIDE DEF At
        <4> QED
          BY <1>2, <1>3, <2>1, <3>1
      <3>3. \A s \in Senders : Sending(s)
        BY <1>3, <3>1
      <3> QED
        BY <2>1, <3>2, <3>3
    <2>2. ASSUME Return(h), Recognises(store'.bot), OnlyMessagesCreated'
          PROVE  Good
      <3>1. /\ pc' = [pc EXCEPT ![h] = "idle"]
            /\ ev' = [ev EXCEPT ![h] = NoEvent]
            /\ copy' = [copy EXCEPT ![h] = EmptyAccount]
        BY <2>2 DEF Return, Goto
      <3>2. /\ \A a \in Actors \ {h} : pc'[a] = pc[a] /\ copy'[a] = copy[a]
            /\ \A g \in Handlers \ {h} : ev'[g] = ev[g]
            /\ \A s \in Senders : s \in Actors \ {h}
            /\ pc'[h] = "idle"
        BY <1>1, <1>2, <2>a, <3>1, InboundAssumption DEF TypeOK
      <3>3. \A g \in Handlers \ {h} : At(pc'[g], ev'[g], copy'[g])
        <4> HIDE DEF At
        <4> QED
          BY <1>2, <1>3, <3>2
      <3>4. At(pc'[h], ev'[h], copy'[h])
        BY <3>2
      <3>5. \A s \in Senders : Sending(s)
        BY <1>3, <3>2
      <3> QED
        BY <2>2, <3>3, <3>4, <3>5
    <2>3. CASE IgnoreForeign(h) \/ Ignore(h) \/ Abandon(h)
      <3>1. Return(h) /\ UNCHANGED <<store, messages>>
        BY <2>3 DEF IgnoreForeign, Ignore, Abandon, Acknowledge
      <3> QED
        BY <1>4, <2>2, <2>b, <3>1
    <2>4. CASE Load(h)
      <3>1. /\ pc' = [pc EXCEPT ![h] = "identify"]
            /\ copy' = [copy EXCEPT ![h] = store]
            /\ ev[h].kind # "foreign"
            /\ UNCHANGED <<store, ev, messages>>
        BY <2>4 DEF Load, Goto
      <3>2. copy'[h] = store /\ \A a \in Actors \ {h} : copy'[a] = copy[a]
        BY <1>1, <2>a, <3>1 DEF TypeOK
      <3> QED
        BY <1>4, <2>1, <2>b, <3>1, <3>2
    <2>5. CASE \/ UseKnownIdentity(h) \/ ProceedWithPartialIdentity(h)
               \/ Admit(h) \/ EnsureChatSession(h)
      <3>1. UNCHANGED <<store, ev, copy, messages>>
        BY <2>5 DEF UseKnownIdentity, ProceedWithPartialIdentity, Admit,
                    EnsureChatSession
      <3>2. PICK step : pc' = [pc EXCEPT ![h] = step] /\ At(step, ev[h], copy[h])
        <4>1. CASE UseKnownIdentity(h) \/ ProceedWithPartialIdentity(h)
          <5>1. /\ pc[h] = "identify" /\ copy[h].bot # {}
                /\ pc' = [pc EXCEPT ![h] = "admit"]
            BY <4>1 DEF UseKnownIdentity, ProceedWithPartialIdentity,
                        IdentityKnown, Goto
          <5>2. At("admit", ev[h], copy[h])
            BY <2>b, <5>1
          <5> QED
            BY <5>1, <5>2
        <4>2. CASE Admit(h)
          <5>1. /\ ev[h].kind \in Kinds /\ ev[h].kind # "foreign"
                /\ ev[h].kind = "echo" => ev[h].told \cap copy[h].bot # {}
            BY <2>a, <2>b, <4>2, InboundAssumption DEF Admit, Recognises
          <5>2. ev[h].kind = "message"
            BY <4>2, <5>1 DEF Admit, Ignored, IsSelfEcho, Kinds
          <5> QED
            BY <2>b, <4>2, <5>2 DEF Admit, Goto
        <4>3. CASE EnsureChatSession(h)
          BY <2>b, <4>3 DEF EnsureChatSession, Goto
        <4> QED
          BY <2>5, <4>1, <4>2, <4>3
      <3> QED
        BY <1>4, <2>1, <2>b, <3>1, <3>2
    <2>6. CASE FetchIdentity(h)
      <3>1. /\ pc' = [pc EXCEPT ![h] = "saveIdentity"]
            /\ pc[h] = "identify"
            /\ UNCHANGED <<store, ev, messages>>
        BY <2>6 DEF FetchIdentity, Goto
      <3>2. PICK account \in AccountStates, name \in SUBSET {"name"} :
                /\ copy' = [copy EXCEPT ![h] = account]
                /\ account.bot = copy[h].bot \cup {"open_id"} \cup name
        BY <1>1, <2>6, Fetched
      <3>3. /\ copy'[h].bot = copy[h].bot \cup {"open_id"} \cup name
            /\ \A a \in Actors \ {h} : copy'[a] = copy[a]
        BY <1>1, <2>a, <3>2 DEF TypeOK
      <3>4. Recognises(copy'[h].bot)
        BY <2>b, <3>1, <3>3 DEF Recognises
      <3> QED
        BY <1>4, <2>1, <2>b, <3>1, <3>3, <3>4
    <2>7. CASE SaveIdentity(h)
      <3>1. /\ pc' = [pc EXCEPT ![h] = "admit"]
            /\ copy' = [copy EXCEPT ![h] = store']
            /\ pc[h] = "saveIdentity"
            /\ SaveAccount(copy[h])
            /\ UNCHANGED <<ev, messages>>
        BY <2>7 DEF SaveIdentity, Goto
      <3>2. store'.bot = copy[h].bot
        BY <1>1, <1>2, <2>a, <3>1, SaveWrites
      <3>3. copy'[h] = store' /\ \A a \in Actors \ {h} : copy'[a] = copy[a]
        BY <1>1, <2>a, <3>1 DEF TypeOK
      <3> QED
        BY <1>4, <2>1, <2>b, <3>1, <3>2, <3>3
    <2>8. CASE CreateMessage(h)
      <3>1. /\ pc' = [pc EXCEPT ![h] = "save"]
            /\ ev[h].kind = "message" /\ pc[h] = "create"
            /\ UNCHANGED <<store, ev, copy>>
        BY <2>8, <2>b DEF CreateMessage, Goto
      <3>2. OnlyMessagesCreated'
        BY <2>8, <2>c, <3>1 DEF CreateMessage
      <3> QED
        BY <2>1, <2>b, <3>1, <3>2
    <2>9. CASE CreateThenFail(h)
      <3>1. OnlyMessagesCreated'
        BY <2>b, <2>9, <2>c DEF CreateThenFail
      <3> QED
        BY <2>2, <2>9, <2>b, <3>1 DEF CreateThenFail
    <2>10. CASE SaveInbound(h) \/ SaveThenFail(h)
      <3>1. Return(h) /\ UNCHANGED messages /\ pc[h] \notin {"idle", "load"}
        BY <2>10 DEF SaveInbound, SaveThenFail, Acknowledge
      <3>2. PICK account \in {copy[h], Marked(copy[h], ev[h])} :
                SaveAccount(account)
        BY <2>10 DEF SaveInbound, SaveThenFail
      <3>3. account \in AccountStates
        BY <1>1, <1>2, <2>a, <3>2, MarkedShape
      <3>4. account.bot = copy[h].bot
        BY <1>2, <2>a, <3>2 DEF Marked, AccountStates
      <3>5. Recognises(store'.bot)
        BY <1>1, <2>b, <3>1, <3>2, <3>3, <3>4, SaveWrites
      <3> QED
        BY <1>4, <2>2, <3>1, <3>5
    <2> QED
      BY <1>5, <2>3, <2>4, <2>5, <2>6, <2>7, <2>8, <2>9, <2>10
      DEF HandlerStep, HandlerFault
  <1>6. ASSUME NEW h \in Handlers, NEW e \in Events, Deliver(h, e)
        PROVE  Good
    <2>1. /\ pc' = [pc EXCEPT ![h] = "load"] /\ pc'[h] = "load"
          /\ \A a \in Actors \ {h} : pc'[a] = pc[a]
          /\ \A g \in Handlers \ {h} : ev'[g] = ev[g]
          /\ \A s \in Senders : s \in Actors \ {h}
          /\ UNCHANGED <<store, copy, messages>>
      BY <1>1, <1>2, <1>6, InboundAssumption DEF Deliver, Goto, TypeOK
    <2>2. At(pc'[h], ev'[h], copy'[h])
      BY <2>1
    <2>3. \A g \in Handlers \ {h} : At(pc'[g], ev'[g], copy'[g])
      <3> HIDE DEF At
      <3> QED
        BY <1>2, <1>3, <2>1
    <2>4. \A s \in Senders : Sending(s)
      BY <1>3, <2>1
    <2> QED
      BY <1>4, <2>1, <2>2, <2>3, <2>4 DEF IdentityInv
  <1>7. ASSUME NEW s \in Senders, LoadForSend(s) \/ SenderStep(s)
        PROVE  Good
    <2>a. s \in Actors /\ s \notin Handlers
      BY InboundAssumption DEF Actors
    <2>b. /\ UNCHANGED <<ev, messages>>
          /\ \A a \in Actors \ {s} : pc'[a] = pc[a] /\ copy'[a] = copy[a]
      BY <1>1, <1>7, <2>a
      DEF TypeOK, LoadForSend, SenderStep, SendWithoutSave, FetchToken,
          SaveToken, Goto
    <2>1. Recognises(store'.bot)
      <3>1. CASE SaveToken(s)
        <4>1. SaveAccount(copy[s]) /\ copy[s] \in AccountStates
              /\ Recognises(copy[s].bot)
          BY <1>2, <1>3, <2>a, <3>1 DEF SaveToken
        <4> QED
          BY <1>1, <4>1, SaveWrites
      <3> QED
        BY <1>7, <3>1
        DEF IdentityInv, LoadForSend, SenderStep, SendWithoutSave, FetchToken
    <2>2. Sending(s)
      BY <1>1, <1>2, <1>3, <1>7, <2>a
      DEF IdentityInv, TypeOK, LoadForSend, SenderStep, SendWithoutSave,
          FetchToken, SaveToken, Goto
    <2>3. \A h \in Handlers : At(pc'[h], ev'[h], copy'[h])
      <3> HIDE DEF At
      <3> QED
        BY <1>2, <1>3, <2>a, <2>b
    <2>4. \A t \in Senders \ {s} : Sending(t)
      BY <1>2, <1>3, <2>b
    <2> QED
      BY <1>4, <2>b, <2>1, <2>2, <2>3, <2>4
  <1>8. ASSUME WriteConnectionHealth \/ Tick \/ UNCHANGED vars
        PROVE  Good
    <2>1. /\ store'.bot = store.bot
          /\ UNCHANGED <<pc, ev, copy, messages>>
      BY <1>2, <1>8 DEF WriteConnectionHealth, Tick, vars, AccountStates
    <2> QED
      BY <1>3, <1>4, <2>1 DEF IdentityInv
  <1>9. Good
    BY <1>5, <1>6, <1>7, <1>8 DEF Next, Quiescent
  <1> QED
    BY <1>1, <1>9 DEF IdentityInv, Actors

(***************************************************************************)
(* The bot's own messages, incomplete messages and other apps' events never*)
(* become Beak messages, also when BotInfo fails, if the bot's own messages*)
(* tell an id of it that the account knows - or the open id, which BotInfo *)
(* tells an account that knows nothing.                                    *)
(***************************************************************************)
THEOREM OnlyUserMessages ==
    ASSUME EchoesAreTold PROVE SafetySpec => []OnlyMessagesCreated
  <1>1. IdentityInv => OnlyMessagesCreated
    BY DEF IdentityInv
  <1>2. IdentityInv /\ [Next]_vars => IdentityInv'
    BY NextIdentity
  <1>3. Init => IdentityInv
    BY InitIdentity
  <1> QED
    BY <1>1, <1>2, <1>3, PTL DEF SafetySpec

(***************************************************************************)
(* A step of the implementation creates one message of a user, acknowledges*)
(* one event, or does nothing that the contract sees.                      *)
(***************************************************************************)
LEMMA StepRefines ==
    ASSUME IInv, IdentityInv, [Next]_vars
    PROVE  [AtLeastOnce!Next]_(AtLeastOnce!vars)
  <1> USE DEF AtLeastOnce!Next, AtLeastOnce!vars, AtLeastOnce!Create,
              AtLeastOnce!Ack
  <1>1. ASSUME NEW h \in Handlers, HandlerStep(h) \/ HandlerFault(h)
        PROVE  [AtLeastOnce!Next]_(AtLeastOnce!vars)
    <2>a. pc[h] # "idle" => ev[h] \in Events /\ ev[h].key \in Keys
      BY InboundAssumption DEF IInv, TypeOK
    <2>1. CASE CreateMessage(h) \/ CreateThenFail(h)
      <3>1. /\ pc[h] = "create"
            /\ messages' = [messages EXCEPT ![ev[h].key] = @ + 1]
            /\ UNCHANGED acked
        BY <2>1 DEF CreateMessage, CreateThenFail, Return
      <3>2. ev[h].kind = "message"
        BY <3>1 DEF IdentityInv
      <3> QED
        BY <2>a, <3>1, <3>2
    <2>2. CASE IgnoreForeign(h) \/ Ignore(h) \/ SaveInbound(h)
      <3>1. /\ pc[h] # "idle" /\ UNCHANGED messages
            /\ acked' = acked \cup {ev[h]}
        BY <2>2 DEF IgnoreForeign, Ignore, SaveInbound, Acknowledge
      <3>2. ev[h].kind = "message" => messages[ev[h].key] > 0
        BY <2>2 DEF IgnoreForeign, Ignore, Ignored, IsSelfEcho, SaveInbound,
                    IInv, Sound, Actors
      <3> QED
        BY <2>a, <3>1, <3>2
    <2>3. CASE \/ Load(h) \/ UseKnownIdentity(h) \/ FetchIdentity(h)
               \/ ProceedWithPartialIdentity(h) \/ SaveIdentity(h)
               \/ Admit(h) \/ EnsureChatSession(h)
               \/ Abandon(h) \/ SaveThenFail(h)
      BY <2>3
      DEF Load, UseKnownIdentity, FetchIdentity, ProceedWithPartialIdentity,
          SaveIdentity, Admit, EnsureChatSession, Abandon, SaveThenFail, Return
    <2> QED
      BY <1>1, <2>1, <2>2, <2>3 DEF HandlerStep, HandlerFault
  <1>2. ASSUME NEW s \in Senders, LoadForSend(s) \/ SenderStep(s)
        PROVE  UNCHANGED <<messages, acked>>
    BY <1>2
    DEF LoadForSend, SenderStep, SendWithoutSave, FetchToken, SaveToken
  <1>3. ASSUME NEW h \in Handlers, NEW e \in Events, Deliver(h, e)
        PROVE  UNCHANGED <<messages, acked>>
    BY <1>3 DEF Deliver
  <1>4. CASE WriteConnectionHealth \/ Tick \/ UNCHANGED vars
    BY <1>4 DEF WriteConnectionHealth, Tick, vars
  <1> QED
    BY <1>1, <1>2, <1>3, <1>4 DEF Next, Quiescent

(***************************************************************************)
(* processMessageEvent implements at-least-once delivery: Beak messages are*)
(* created only for users' messages, and an event is acknowledged only     *)
(* after its message exists, if the bot's own messages tell who sent them. *)
(***************************************************************************)
THEOREM ImplementsContract ==
    ASSUME EchoesAreTold PROVE SafetySpec => AtLeastOnce!SafetySpec
  <1>1. Init => AtLeastOnce!Init
    BY DEF Init, AtLeastOnce!Init
  <1>2. IInv /\ IdentityInv /\ [Next]_vars =>
            [AtLeastOnce!Next]_(AtLeastOnce!vars)
    BY StepRefines
  <1>3. Init => IInv /\ IdentityInv
    BY InitSound, InitIdentity
  <1>4. IInv /\ IdentityInv /\ [Next]_vars => IInv' /\ IdentityInv'
    BY NextSound, NextIdentity
  <1> QED
    BY <1>1, <1>2, <1>3, <1>4, PTL DEF SafetySpec, AtLeastOnce!SafetySpec
=============================================================================
