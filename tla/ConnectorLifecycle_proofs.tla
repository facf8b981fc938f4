----------------------- MODULE ConnectorLifecycle_proofs -----------------------
(***************************************************************************)
(* Proofs about interactive cards, for any requests, accounts, members,    *)
(* numbers of concurrent calls and clicks, and budget of faults; about     *)
(* validation and Start, for any accounts and number of attempts; and that *)
(* all of it holds over the connector's life.                              *)
(*                                                                         *)
(* The invariant about cards has three parts besides the types: ClickInv,  *)
(* what a click means and what came of it; SendInv and HostInv, which      *)
(* message a call will reach; and ChatInv, which messages are as they were *)
(* sent.                                                                   *)
(***************************************************************************)
EXTENDS ConnectorLifecycle, WellFoundedInduction, TLAPS

-----------------------------------------------------------------------------
(* Interactive cards                                                       *)

Of(c) == c.seen.text[1]          \* the request of a click's message
RevisionOf(c) == c.seen.text[2]

\* Where a click that the host acted on has brought its request.
Acted(c, h) ==
    /\ c.member = Of(c).requester
    /\ h.revision > RevisionOf(c)
           \/ (h.revision = RevisionOf(c) /\ h.state = NewState(c.button.label))

\* Click c on a button of a pending card, with the record h of its request.
ClickOK(c, h) ==
    /\ \E card \in Cards, a \in Actions :
           card.state = "pending" /\ c.seen = Render(card) /\ c.button = Button(card, a)
    /\ c.step = "dispatch" => c.typed # "unfit"
    /\ c.accepted => Acted(c, h)
    /\ c.step = "answer" /\ c.toast = "success" => c.accepted
    /\ c.step = "answer" /\ c.toast = "warning" => c.member # Of(c).requester

ClickInv == \A e \in Clicks : click[e] # Idle => ClickOK(click[e], host[Of(click[e])])

\* Call s of Send: the first card of a request is sent by nobody else at the
\* time, a later one to the message of the request.
SendOK(s, c, q) ==
    /\ c.from \in SelectRuntimeAccount(q.account)
    /\ c.to = host[q].message
    /\ c.to = NoMessage \/ c.alone => Sending(q) = {s}
    /\ c.step = "sent" =>
           /\ c.id \in DOMAIN chat
           /\ chat[c.id].uuid.request = q
           /\ c.to # NoMessage => c.id = c.to
           /\ c.alone => chat[c.id].shown = Render(c.card)

SendInv == \A s \in Sends : send[s] # Idle => SendOK(s, send[s], send[s].card.request)

HostOK(q, h) ==
    /\ h.known = {h.message} \ {NoMessage}
    /\ h.message # NoMessage =>
           h.message \in DOMAIN chat /\ chat[h.message].uuid.request = q
    /\ h.told # {} =>
           /\ Sending(q) = {}
           /\ h.message # NoMessage
           /\ \A card \in h.told : chat[h.message].shown = Render(card)

HostInv == \A q \in Requests : HostOK(q, host[q])

\* Only the message that the host knows of is ever updated.
ChatInv ==
    \A m \in DOMAIN chat :
        /\ chat[m].from \in SelectRuntimeAccount(chat[m].uuid.request.account)
        /\ m # host[chat[m].uuid.request].message =>
               chat[m].shown = Render(chat[m].uuid)

InteractionInv ==
    /\ InteractionTypeOK
    /\ FaultsTypeOK
    /\ ClickInv
    /\ DecidedAsSeen
    /\ SendInv
    /\ HostInv
    /\ ChatInv

-----------------------------------------------------------------------------
(* Cards, buttons and accounts                                             *)

LEMMA CardParts ==
    ASSUME NEW card \in Cards
    PROVE  /\ card.request \in Requests
           /\ card.revision \in 1..card.request.revisions
           /\ card.state \in RequestStates
BY DEF Cards

LEMMA CardType ==
    ASSUME InteractionTypeOK, NEW q \in Requests
    PROVE  Card(q) \in Cards /\ Card(q).request = q
BY DEF InteractionTypeOK, HostRecords, Card, Cards

\* What is to be seen of a card.
LEMMA RenderParts ==
    ASSUME NEW card
    PROVE  /\ Render(card).text = <<card.request, card.revision>>
           /\ Render(card).text[1] = card.request
           /\ Render(card).text[2] = card.revision
           /\ Render(card).status = card.state
BY DEF Render

\* What a click on a button of card stands for.
LEMMA ButtonParts ==
    ASSUME NEW card, NEW a
    PROVE  /\ Button(card, a).label = a
           /\ ParseToken(Button(card, a).token) =
                  [request |-> card.request, revision |-> card.revision, action |-> a]
BY DEF Button, Token, ParseToken

\* Only a pending card has buttons.
LEMMA ButtonsArePending ==
    ASSUME NEW card \in Cards, NEW b \in Render(card).buttons \cup Render(card).form
    PROVE  card.state = "pending" /\ \E a \in Actions : b = Button(card, a)
<1>1. CardActions(card) \subseteq Actions /\ (card.state # "pending" => CardActions(card) = {})
  BY CardParts, InteractionAssumption DEF CardActions
<1>2. \E a \in CardActions(card) : b = Button(card, a)
  BY DEF Render
<1> QED
  BY <1>1, <1>2

\* The account that is selected has the id that was asked for, or is the only
\* one.
LEMMA SelectedAccount ==
    ASSUME NEW id, NEW i \in SelectRuntimeAccount(id)
    PROVE  /\ i \in Candidates
           /\ IF id = NoId THEN Candidates = {i} ELSE id \in Ids(Runtime[i])
BY DEF SelectRuntimeAccount, Earliest

\* A set of places that is not empty has exactly one earliest.
LEMMA EarliestPlace ==
    ASSUME NEW places \in SUBSET DOMAIN Runtime, places # {}
    PROVE  \E i \in places : Earliest(places) = {i}
<1>1. places \subseteq Nat
  BY RuntimeAssumption
<1>2. PICK i \in places : \A j \in places : <<j, i>> \notin OpToRel(<, Nat)
  BY <1>1, NatLessThanWellFounded, WFMin
<1>3. ASSUME NEW j \in places PROVE i <= j
  <2>1. SUFFICES ASSUME ~(i <= j) PROVE FALSE
    OBVIOUS
  <2> DEFINE p == <<j, i>>
  <2>2. p \in Nat \X Nat /\ p[1] < p[2]
    BY <1>1, <2>1
  <2> HIDE DEF p
  <2>3. p \in OpToRel(<, Nat)
    BY <2>2 DEF OpToRel
  <2> QED
    BY <1>2, <2>3 DEF p
<1>4. \A j \in places : j <= i => j = i
  BY <1>1, <1>3
<1> QED
  BY <1>3, <1>4 DEF Earliest

\* Of the accounts with the same key one is a candidate.
LEMMA KeyHasCandidate ==
    ASSUME NEW i \in DOMAIN Runtime, AccountKey(Runtime[i]) # NoId
    PROVE  \E j \in Candidates : AccountKey(Runtime[j]) = AccountKey(Runtime[i])
<1> DEFINE same == {j \in DOMAIN Runtime : AccountKey(Runtime[j]) = AccountKey(Runtime[i])}
<1>1. PICK j \in same : Earliest(same) = {j}
  BY EarliestPlace
<1>2. \A k \in DOMAIN Runtime : k < j => k \notin same
  BY <1>1, RuntimeAssumption DEF Earliest
<1>3. j \in Candidates
  BY <1>1, <1>2 DEF Candidates
<1> QED
  BY <1>1, <1>3

\* Candidates have distinct keys.
LEMMA CandidateKeysDiffer ==
    ASSUME NEW i \in Candidates, NEW j \in Candidates,
           AccountKey(Runtime[i]) = AccountKey(Runtime[j])
    PROVE  i = j
BY RuntimeAssumption DEF Candidates

\* What an id or the key of an account selects is one account and has that id,
\* and no account that is configured is left out (src/connector.go,
\* runtimeAccountCandidates and selectRuntimeAccount).  It need not be the
\* account that the id is the key of: an earlier one may have it as another id.
THEOREM AccountsAreFound ==
    /\ \A id : \A i, j \in SelectRuntimeAccount(id) : i = j
    /\ \A i, j \in Candidates :
           AccountKey(Runtime[i]) = AccountKey(Runtime[j]) => i = j
    /\ \A i \in DOMAIN Runtime :
           AccountKey(Runtime[i]) # NoId =>
               \E j \in Candidates :
                   /\ SelectRuntimeAccount(AccountKey(Runtime[i])) = {j}
                   /\ AccountKey(Runtime[i]) \in Ids(Runtime[j])
<1>1. ASSUME NEW id, NEW i \in SelectRuntimeAccount(id), NEW j \in SelectRuntimeAccount(id)
      PROVE  i = j
  <2>1. CASE id = NoId
    BY <1>1, <2>1, SelectedAccount
  <2>2. CASE id # NoId
    <3>1. i <= j /\ j <= i /\ i \in Nat /\ j \in Nat
      BY <1>1, <2>2, RuntimeAssumption DEF SelectRuntimeAccount, Earliest, Candidates
    <3> QED
      BY <3>1
  <2> QED
    BY <2>1, <2>2
<1>2. ASSUME NEW i \in DOMAIN Runtime, AccountKey(Runtime[i]) # NoId
      PROVE  \E j \in Candidates :
                 /\ SelectRuntimeAccount(AccountKey(Runtime[i])) = {j}
                 /\ AccountKey(Runtime[i]) \in Ids(Runtime[j])
  <2> DEFINE key == AccountKey(Runtime[i])
             having == {j \in Candidates : key \in Ids(Runtime[j])}
  <2>1. PICK k \in Candidates : AccountKey(Runtime[k]) = key
    BY <1>2, KeyHasCandidate
  <2>2. key \in Ids(Runtime[k])
    BY <2>1 DEF AccountKey, Ids
  <2>3. having \in SUBSET DOMAIN Runtime /\ having # {}
    BY <2>1, <2>2 DEF Candidates
  <2>4. SelectRuntimeAccount(key) = Earliest(having)
    BY <1>2 DEF SelectRuntimeAccount
  <2> HIDE DEF having
  <2>5. PICK j \in having : Earliest(having) = {j}
    BY <2>3, EarliestPlace
  <2> QED
    BY <2>4, <2>5 DEF having
<1> QED
  BY <1>1, <1>2, CandidateKeysDiffer

LEMMA IdleOrNot ==
    /\ \A c \in SendCalls : c # Idle /\ c.step \in {"sending", "sent"}
    /\ \A c \in ClickCalls : c # Idle /\ c.step \in {"sent", "dispatch", "answer"}
    /\ Idle.step = "idle"
BY DEF SendCalls, ClickCalls, Idle

LEMMA ElementTypes ==
    ASSUME InteractionTypeOK
    PROVE  /\ \A q \in Requests : host[q] \in HostRecords
           /\ \A m \in DOMAIN chat : chat[m] \in Messages
           /\ DOMAIN chat = 1..Len(chat) /\ Len(chat) \in 0..MaxMessages
           /\ \A s \in Sends : send[s] # Idle => send[s] \in SendCalls
           /\ \A e \in Clicks : click[e] # Idle => click[e] \in ClickCalls
BY InteractionAssumption DEF InteractionTypeOK

LEMMA InteractionInvImplies ==
    ASSUME InteractionInv
    PROVE  DecidedAsSeen /\ ToastIsTrue /\ SuccessIsShown
<1>1. DecidedAsSeen
  BY DEF InteractionInv
<1>2. ToastIsTrue
  <2> SUFFICES ASSUME NEW e \in Clicks, click[e].step = "answer"
               PROVE  LET q == click[e].seen.text[1]
                      IN  /\ click[e].toast = "success" =>
                                /\ click[e].accepted
                                /\ click[e].member = q.requester
                                /\ host[q].revision > click[e].seen.text[2]
                                       \/ host[q].state = NewState(click[e].button.label)
                          /\ click[e].toast = "warning" => click[e].member # q.requester
    BY DEF ToastIsTrue
  <2>1. ClickOK(click[e], host[Of(click[e])])
    BY IdleOrNot DEF InteractionInv, ClickInv
  <2> QED
    BY <2>1 DEF ClickOK, Acted, Of, RevisionOf
<1>3. SuccessIsShown
  <2> SUFFICES ASSUME NEW q \in Requests, host[q].told # {}
               PROVE  /\ host[q].known # {}
                      /\ \A m \in host[q].known :
                             /\ \A card \in host[q].told : chat[m].shown = Render(card)
                             /\ IF q.account = NoId THEN Candidates = {chat[m].from}
                                ELSE q.account \in Ids(Runtime[chat[m].from])
    BY DEF SuccessIsShown
  <2>1. HostOK(q, host[q])
    BY DEF InteractionInv, HostInv
  <2>2. host[q].known = {host[q].message}
    BY <2>1 DEF HostOK
  <2>3. chat[host[q].message].from \in SelectRuntimeAccount(q.account)
    BY <2>1 DEF HostOK, InteractionInv, ChatInv
  <2> QED
    BY <2>1, <2>2, <2>3, SelectedAccount DEF HostOK
<1> QED
  BY <1>1, <1>2, <1>3

-----------------------------------------------------------------------------
(* The initial state, and steps that leave one side alone                  *)

LEMMA InteractionInvInit ==
    ASSUME InteractionInit, FaultsInit
    PROVE  InteractionInv
<1> DEFINE h == [revision |-> 1, state |-> "pending", message |-> NoMessage,
                 known |-> {}, told |-> {}]
<1>1. /\ host = [q \in Requests |-> h] /\ chat = <<>>
      /\ send = [s \in Sends |-> Idle] /\ click = [e \in Clicks |-> Idle]
      /\ decision = [q \in Requests |-> {}]
  BY DEF InteractionInit
<1>2. h \in HostRecords
  BY InteractionAssumption DEF HostRecords, RequestStates, NoMessage
<1>3. InteractionTypeOK
  <2>1. \A q \in Requests : host[q] = h /\ h.revision = 1
    BY <1>1
  <2>2. \A q \in Requests : host[q].revision \in 1..q.revisions
    BY <2>1, InteractionAssumption
  <2>3. chat \in Seq(Messages) /\ Len(chat) <= MaxMessages
    BY <1>1, InteractionAssumption
  <2>4. send \in [Sends -> SendCalls \cup {Idle}] /\ click \in [Clicks -> ClickCalls \cup {Idle}]
    BY <1>1
  <2>5. decision \in [Requests -> SUBSET Decisions]
    BY <1>1
  <2>6. host \in [Requests -> HostRecords]
    BY <1>1, <1>2
  <2> QED
    BY <2>2, <2>3, <2>4, <2>5, <2>6 DEF InteractionTypeOK
<1>4. FaultsTypeOK
  BY FaultsAssumption DEF FaultsInit, FaultsTypeOK
<1>5. ClickInv /\ DecidedAsSeen /\ SendInv /\ ChatInv
  BY <1>1 DEF ClickInv, DecidedAsSeen, SendInv, ChatInv
<1>6. HostInv
  <2>1. \A q \in Requests : /\ host[q].known = {} /\ host[q].told = {}
                            /\ host[q].message = NoMessage
    BY <1>1
  <2> QED
    BY <2>1 DEF HostInv, HostOK
<1> QED
  BY <1>3, <1>4, <1>5, <1>6 DEF InteractionInv

LEMMA RequestOfClick ==
    ASSUME InteractionInv, NEW e \in Clicks, click[e] # Idle
    PROVE  Of(click[e]) \in Requests
<1>1. PICK card \in Cards : click[e].seen = Render(card)
  BY DEF InteractionInv, ClickInv, ClickOK
<1> QED
  BY <1>1, CardParts, RenderParts DEF Of

\* Clicks and decisions stand while no request changes its state.
LEMMA ClickInvKept ==
    ASSUME InteractionInv, UNCHANGED <<click, decision>>,
           \A q \in Requests : /\ host'[q].state = host[q].state
                               /\ host'[q].revision = host[q].revision
    PROVE  ClickInv' /\ DecidedAsSeen'
<1>1. ASSUME NEW e \in Clicks, click[e] # Idle
      PROVE  ClickOK(click[e], host'[Of(click[e])])
  BY <1>1, RequestOfClick DEF InteractionInv, ClickInv, ClickOK, Acted
<1>2. ClickInv'
  BY <1>1 DEF ClickInv
<1>3. DecidedAsSeen'
  BY DEF InteractionInv, DecidedAsSeen
<1> QED
  BY <1>2, <1>3

\* Calls and messages stand while the host learns of no message.
LEMMA SendInvKept ==
    ASSUME InteractionInv, UNCHANGED <<chat, send>>,
           \A q \in Requests : /\ host'[q].message = host[q].message
                               /\ host'[q].known = host[q].known
                               /\ host'[q].told = host[q].told
    PROVE  SendInv' /\ HostInv' /\ ChatInv'
<1>1. \A q \in Requests : Sending(q)' = Sending(q)
  BY DEF Sending
<1>2. /\ \A s \in Sends : send[s] # Idle => send[s].card.request \in Requests
      /\ \A m \in DOMAIN chat : chat[m].uuid.request \in Requests
  <2>1. /\ \A s \in Sends : send[s] # Idle => send[s].card \in Cards
        /\ \A m \in DOMAIN chat : chat[m].uuid \in Cards
    BY ElementTypes DEF InteractionInv, SendCalls, Messages
  <2> QED
    BY <2>1, CardParts
<1>3. SendInv'
  BY <1>1, <1>2 DEF InteractionInv, SendInv, SendOK
<1>4. HostInv'
  BY <1>1 DEF InteractionInv, HostInv, HostOK
<1>5. ChatInv'
  BY <1>2 DEF InteractionInv, ChatInv
<1> QED
  BY <1>3, <1>4, <1>5

LEMMA FaultType ==
    ASSUME FaultsTypeOK, Fault \/ UNCHANGED faults
    PROVE  FaultsTypeOK'
BY FaultsAssumption DEF FaultsTypeOK, Fault

-----------------------------------------------------------------------------
(* The host                                                                *)

\* A new revision, or the end of a request.
LEMMA HostSteps ==
    ASSUME InteractionInv, NEW q \in Requests, PresentRevision(q) \/ Cancel(q)
    PROVE  InteractionInv'
<1> DEFINE h == IF PresentRevision(q)
                THEN [host[q] EXCEPT !.revision = @ + 1, !.state = "pending"]
                ELSE [host[q] EXCEPT !.state = "canceled"]
<1>1. /\ host' = [host EXCEPT ![q] = h]
      /\ UNCHANGED <<chat, send, click, decision>>
      /\ Fault \/ UNCHANGED faults
  BY DEF PresentRevision, Cancel, InteractionInv, InteractionTypeOK
<1>2. /\ host \in [Requests -> HostRecords] /\ host[q] \in HostRecords
      /\ \A r \in Requests : host[r].revision \in 1..r.revisions
  BY DEF InteractionInv, InteractionTypeOK
<1>3. /\ h \in HostRecords /\ h.message = host[q].message
      /\ h.known = host[q].known /\ h.told = host[q].told
      /\ \/ /\ host[q].state = "pending" /\ h.revision = host[q].revision
         \/ /\ h.revision = host[q].revision + 1
            /\ host[q].revision < q.revisions
  BY <1>2 DEF PresentRevision, Cancel, HostRecords, RequestStates
<1> HIDE DEF h
<1>4. \A r \in Requests : host'[r] = IF r = q THEN h ELSE host[r]
  BY <1>1, <1>2
<1>5. host[q].revision \in Nat /\ q.revisions \in Nat
  BY <1>2, InteractionAssumption DEF HostRecords
<1>6. InteractionTypeOK'
  <2>1. host' \in [Requests -> HostRecords]
    BY <1>1, <1>2, <1>3
  <2>2. \A r \in Requests : host'[r].revision \in 1..r.revisions
    BY <1>2, <1>3, <1>4, <1>5
  <2> QED
    BY <1>1, <2>1, <2>2 DEF InteractionInv, InteractionTypeOK
<1>7. SendInv' /\ HostInv' /\ ChatInv'
  BY <1>1, <1>3, <1>4, SendInvKept
<1>8. ClickInv'
  <2> SUFFICES ASSUME NEW e \in Clicks, click[e] # Idle
               PROVE  ClickOK(click[e], host'[Of(click[e])])
    BY <1>1 DEF ClickInv
  <2> DEFINE c == click[e]
  <2>1. ClickOK(c, host[Of(c)]) /\ Of(c) \in Requests
    BY RequestOfClick DEF InteractionInv, ClickInv
  <2>2. PICK card \in Cards, a \in Actions : c.seen = Render(card) /\ c.button = Button(card, a)
    BY <2>1 DEF ClickOK
  <2>3. RevisionOf(c) \in Nat
    <3>1. RevisionOf(c) \in 1..card.request.revisions /\ card.request \in Requests
      BY <2>2, CardParts, RenderParts DEF RevisionOf
    <3> QED
      BY <3>1, InteractionAssumption
  <2>4. NewState(c.button.label) # "pending"
    BY DEF NewState
  <2>5. ASSUME Of(c) = q, c.accepted
        PROVE  Acted(c, h)
    BY <1>3, <1>5, <2>1, <2>3, <2>4, <2>5 DEF ClickOK, Acted
  <2>6. c.accepted => Acted(c, host'[Of(c)])
    BY <1>4, <2>1, <2>5 DEF ClickOK
  <2> QED
    BY <2>1, <2>6 DEF ClickOK
<1>9. DecidedAsSeen'
  BY <1>1 DEF InteractionInv, DecidedAsSeen
<1> QED
  BY <1>1, <1>6, <1>7, <1>8, <1>9, FaultType DEF InteractionInv

-----------------------------------------------------------------------------
(* Calls of Send                                                           *)

LEMMA BeginStep ==
    ASSUME InteractionInv, NEW s \in Sends, NEW q \in Requests, BeginInteraction(s, q)
    PROVE  InteractionInv'
<1>1. PICK i \in SelectRuntimeAccount(q.account) :
          send' = [t \in Sends |->
               IF t = s
               THEN [step |-> "sending", card |-> Card(q), to |-> host[q].message,
                     from |-> i, alone |-> Sending(q) = {}, id |-> NoMessage]
               ELSE IF t \in Sending(q) THEN [send[t] EXCEPT !.alone = FALSE]
               ELSE send[t]]
  BY DEF BeginInteraction
<1> DEFINE c == [step |-> "sending", card |-> Card(q), to |-> host[q].message,
                 from |-> i, alone |-> Sending(q) = {}, id |-> NoMessage]
           d(t) == [send[t] EXCEPT !.alone = FALSE]
<1>2. /\ send[s] = Idle
      /\ Sending(q) # {} => host[q].message # NoMessage
      /\ host' = [host EXCEPT ![q].told = {}]
      /\ UNCHANGED <<chat, click, decision>>
      /\ Fault \/ UNCHANGED faults
  BY DEF BeginInteraction
<1>3. InteractionTypeOK /\ host[q] \in HostRecords
  BY ElementTypes DEF InteractionInv
<1>4. c \in SendCalls /\ c # Idle /\ c.card.request = q
  BY <1>3, CardType, SelectedAccount, IdleOrNot, InteractionAssumption
     DEF SendCalls, HostRecords, NoMessage
<1>5. ASSUME NEW t \in Sending(q)
      PROVE  /\ t \in Sends /\ t # s /\ send[t] \in SendCalls /\ send[t].card.request = q
             /\ d(t) \in SendCalls /\ d(t) # Idle /\ d(t).card = send[t].card
             /\ d(t).from = send[t].from /\ d(t).to = send[t].to /\ ~d(t).alone
             /\ d(t).step = send[t].step /\ d(t).id = send[t].id
  <2>1. t \in Sends /\ t # s /\ send[t] \in SendCalls /\ send[t].card.request = q
    BY <1>2, <1>3, ElementTypes DEF Sending
  <2>2. d(t) \in SendCalls
    BY <2>1 DEF SendCalls
  <2> QED
    BY <2>1, <2>2, IdleOrNot DEF SendCalls
<1>6. \A t \in Sends : send'[t] = IF t = s THEN c
                                 ELSE IF t \in Sending(q) THEN d(t) ELSE send[t]
  BY <1>1
<1>7. \A r \in Requests :
          /\ host'[r].message = host[r].message /\ host'[r].known = host[r].known
          /\ host'[r].state = host[r].state /\ host'[r].revision = host[r].revision
          /\ host'[r].told = IF r = q THEN {} ELSE host[r].told
          /\ host'[r] \in HostRecords
  BY <1>2, <1>3 DEF InteractionTypeOK, HostRecords
<1> HIDE DEF c, d
<1>8. InteractionTypeOK'
  <2>1. send' \in [Sends -> SendCalls \cup {Idle}]
    <3>1. \A t \in Sends : send'[t] \in SendCalls \cup {Idle}
      BY <1>3, <1>4, <1>5, <1>6 DEF InteractionTypeOK
    <3> QED
      BY <1>1, <3>1
  <2>2. host' \in [Requests -> HostRecords]
    BY <1>2, <1>3, <1>7 DEF InteractionTypeOK
  <2>3. \A r \in Requests : host'[r].revision \in 1..r.revisions
    BY <1>3, <1>7 DEF InteractionTypeOK
  <2> QED
    BY <1>2, <1>3, <2>1, <2>2, <2>3 DEF InteractionTypeOK
<1>9. ClickInv' /\ DecidedAsSeen'
  BY <1>2, <1>7, ClickInvKept
<1>10. /\ Sending(q)' = Sending(q) \cup {s}
       /\ \A r \in Requests : r # q => Sending(r)' = Sending(r)
  BY <1>2, <1>4, <1>5, <1>6 DEF Sending
<1>11. SendInv'
  <2> SUFFICES ASSUME NEW t \in Sends, send'[t] # Idle
               PROVE  SendOK(t, send[t], send[t].card.request)'
    BY DEF SendInv
  <2>1. CASE t = s
    <3>1. /\ c.from = i /\ c.to = host[q].message /\ (c.alone <=> Sending(q) = {})
          /\ c.step = "sending"
      BY DEF c
    <3> QED
      BY <1>2, <1>4, <1>6, <1>7, <1>10, <2>1, <3>1 DEF SendOK
  <2>2. CASE t \in Sending(q)
    <3>1. SendOK(t, send[t], q)
      BY <1>5, <2>2, IdleOrNot DEF InteractionInv, SendInv
    <3>2. send'[t] = d(t)
      BY <1>5, <1>6, <2>2
    <3>3. host[q].message # NoMessage
      BY <1>2, <2>2
    <3> QED
      BY <1>2, <1>5, <1>7, <2>2, <3>1, <3>2, <3>3 DEF SendOK
  <2>3. CASE t # s /\ t \notin Sending(q)
    <3>1. send'[t] = send[t] /\ send[t] # Idle
      BY <1>6, <2>3
    <3>2. send[t].card.request \in Requests /\ send[t].card.request # q
      BY <1>3, <2>3, <3>1, ElementTypes, CardParts DEF Sending, SendCalls
    <3>3. SendOK(t, send[t], send[t].card.request)
      BY <3>1 DEF InteractionInv, SendInv
    <3> QED
      BY <1>2, <1>7, <1>10, <3>1, <3>2, <3>3 DEF SendOK
  <2> QED
    BY <2>1, <2>2, <2>3
<1>12. HostInv'
  BY <1>2, <1>7, <1>10 DEF InteractionInv, HostInv, HostOK
<1>13. ChatInv'
  <2>1. \A m \in DOMAIN chat : chat[m].uuid.request \in Requests
    BY <1>3, ElementTypes, CardParts DEF Messages
  <2> QED
    BY <1>2, <1>7, <2>1 DEF InteractionInv, ChatInv
<1> QED
  BY <1>2, <1>8, <1>9, <1>11, <1>12, <1>13, FaultType DEF InteractionInv

\* The request went through: message k is created, found or updated, and the
\* call that was to send a card has its id.
LEMMA PostStep ==
    ASSUME InteractionInv, NEW s \in Sends, PostCard(s) \/ PatchCard(s)
    PROVE  InteractionInv'
<1> DEFINE c == send[s]
           q == c.card.request
<1>1. /\ c \in SendCalls /\ c # Idle /\ c.step = "sending" /\ q \in Requests
      /\ c.card \in Cards /\ InteractionTypeOK
      /\ UNCHANGED <<host, click, decision, faults>>
  <2>1. c.step = "sending" /\ UNCHANGED <<host, click, decision, faults>>
    BY DEF PostCard, PatchCard
  <2>2. c \in SendCalls /\ c # Idle
    BY <2>1, ElementTypes, IdleOrNot DEF InteractionInv
  <2> QED
    BY <2>1, <2>2, CardParts DEF SendCalls, InteractionInv
<1>2. SendOK(s, c, q) /\ HostOK(q, host[q])
  BY <1>1 DEF InteractionInv, SendInv, HostInv
<1> DEFINE new == [from |-> c.from, uuid |-> c.card, shown |-> Render(c.card)]
           d(k) == [c EXCEPT !.step = "sent", !.id = k]
<1>3. new \in Messages
  BY <1>1 DEF Messages, SendCalls, Renderings
<1>4. ChatInv /\ HostInv /\ SendInv
  BY DEF InteractionInv
<1>5. /\ \A m \in DOMAIN chat : chat[m] \in Messages
      /\ DOMAIN chat = 1..Len(chat) /\ Len(chat) \in 0..MaxMessages
      /\ chat \in Seq(Messages)
  BY <1>1, ElementTypes DEF InteractionTypeOK
\* What each way to go through comes to.
<1>6. \E k \in DOMAIN chat' :
          /\ send' = [send EXCEPT ![s] = d(k)]
          /\ chat' \in Seq(Messages) /\ Len(chat') <= MaxMessages /\ k \in 0..MaxMessages
          /\ chat'[k].uuid.request = q
          /\ c.to # NoMessage => k = c.to
          /\ chat'[k].shown = Render(c.card)
          /\ DOMAIN chat \subseteq DOMAIN chat'
          /\ \A m \in DOMAIN chat : /\ chat'[m].uuid = chat[m].uuid
                                    /\ chat'[m].from = chat[m].from
                                    /\ chat'[m].shown = chat[m].shown
                                           \/ (m = k /\ k = c.to /\ c.to # NoMessage)
          /\ \A m \in DOMAIN chat' : m \notin DOMAIN chat =>
                                        m = k /\ chat'[m] = new
  <2>1. CASE PostCard(s) /\ Created(c.card) = {}
    <3>1. /\ Len(chat) < MaxMessages /\ chat' = Append(chat, new)
          /\ send' = [send EXCEPT ![s] = d(Len(chat) + 1)]
          /\ c.to = NoMessage
      BY <1>1, <2>1 DEF PostCard, Updates, InteractionTypeOK
    <3>2. /\ chat' \in Seq(Messages) /\ Len(chat') = Len(chat) + 1
          /\ DOMAIN chat' = 1..Len(chat) + 1
          /\ chat'[Len(chat) + 1] = new
          /\ \A m \in 1..Len(chat) : chat'[m] = chat[m]
      BY <1>3, <1>5, <3>1
    <3>3. Len(chat) + 1 \in 0..MaxMessages /\ Len(chat) + 1 \in DOMAIN chat'
      BY <1>5, <3>1, <3>2, InteractionAssumption
    <3>4. \A m \in DOMAIN chat' : m \notin DOMAIN chat => m = Len(chat) + 1
      BY <1>5, <3>2
    <3>5. DOMAIN chat \subseteq DOMAIN chat'
      BY <1>5, <3>2
    <3>6. Len(chat') <= MaxMessages
      BY <1>5, <3>1, <3>2, InteractionAssumption
    <3>7. new.uuid.request = q /\ new.shown = Render(c.card)
      OBVIOUS
    <3> HIDE DEF d, new
    <3> QED
      BY <1>5, <3>1, <3>2, <3>3, <3>4, <3>5, <3>6, <3>7
  <2>2. CASE PostCard(s) /\ Created(c.card) # {}
    <3>1. PICK m \in Created(c.card) : send' = [send EXCEPT ![s] = d(m)] /\ chat' = chat
      BY <1>1, <2>2 DEF PostCard, InteractionTypeOK
    <3>2. m \in DOMAIN chat /\ chat[m].uuid = c.card /\ c.to = NoMessage
      BY <2>2 DEF Created, PostCard, Updates
    <3>3. chat[m].shown = Render(c.card)
      <4>1. m # host[q].message
        BY <1>2, <1>5, <3>2 DEF SendOK, NoMessage
      <4> QED
        BY <1>4, <3>2, <4>1 DEF ChatInv
    <3>4. m \in 0..MaxMessages
      BY <1>5, <3>2, InteractionAssumption
    <3>5. Len(chat') <= MaxMessages
      BY <1>5, <3>1, InteractionAssumption
    <3> HIDE DEF d
    <3> QED
      BY <1>5, <3>1, <3>2, <3>3, <3>4, <3>5
  <2>3. CASE PatchCard(s)
    <3> DEFINE k == c.to
    <3>1. /\ k # NoMessage /\ chat' = [chat EXCEPT ![k].shown = Render(c.card)]
          /\ send' = [send EXCEPT ![s] = d(k)]
      BY <1>1, <2>3 DEF PatchCard, Updates, InteractionTypeOK
    <3>2. k = host[q].message /\ k \in DOMAIN chat /\ chat[k].uuid.request = q
      BY <1>2, <3>1 DEF SendOK, HostOK
    <3>3. /\ DOMAIN chat' = DOMAIN chat /\ Len(chat') = Len(chat)
          /\ \A m \in DOMAIN chat :
                 /\ chat'[m] = IF m = k THEN [chat[m] EXCEPT !.shown = Render(c.card)]
                               ELSE chat[m]
                 /\ chat'[m] \in Messages
      <4> DEFINE n == Len(chat)
                 msg == [chat[k] EXCEPT !.shown = Render(c.card)]
      <4>1. msg \in Messages
        BY <1>1, <1>5, <3>2 DEF Messages, Renderings
      <4>2. n \in Nat /\ chat \in [1..n -> Messages]
        BY <1>5
      <4>3. chat' = [chat EXCEPT ![k] = msg]
        BY <3>1
      <4> HIDE DEF n, msg
      <4>4. chat' \in [1..n -> Messages] /\ DOMAIN chat' = 1..n
        BY <4>1, <4>2, <4>3
      <4>5. chat' \in Seq(Messages) /\ Len(chat') = n
        BY <4>2, <4>4
      <4>6. \A m \in DOMAIN chat : chat'[m] = IF m = k THEN msg ELSE chat[m]
        BY <4>2, <4>3
      <4> QED
        BY <4>2, <4>4, <4>5, <4>6 DEF n, msg
    <3>4. chat' \in Seq(Messages)
      <4> DEFINE n == Len(chat)
      <4>1. n \in Nat /\ DOMAIN chat' = 1..n /\ \A m \in 1..n : chat'[m] \in Messages
        BY <1>5, <3>3
      <4>2. chat' = [m \in DOMAIN chat' |-> chat'[m]]
        BY <3>1
      <4> HIDE DEF n
      <4>3. chat' \in [1..n -> Messages]
        BY <4>1, <4>2
      <4> QED
        BY <4>1, <4>3
    <3>5. \A m \in DOMAIN chat : /\ chat'[m].uuid = chat[m].uuid
                                 /\ chat'[m].from = chat[m].from
                                 /\ m # k => chat'[m].shown = chat[m].shown
      BY <1>5, <3>3 DEF Messages
    <3>6. chat'[k].shown = Render(c.card) /\ chat'[k].uuid.request = q
      BY <1>5, <3>2, <3>3 DEF Messages
    <3>7. k \in 0..MaxMessages /\ Len(chat') <= MaxMessages
      BY <1>1, <1>5, <3>3, InteractionAssumption DEF SendCalls
    <3> HIDE DEF d
    <3> QED
      BY <3>1, <3>2, <3>3, <3>4, <3>5, <3>6, <3>7
  <2> QED
    BY <2>1, <2>2, <2>3
<1>7. PICK k \in DOMAIN chat' :
          /\ send' = [send EXCEPT ![s] = d(k)]
          /\ chat' \in Seq(Messages) /\ Len(chat') <= MaxMessages /\ k \in 0..MaxMessages
          /\ chat'[k].uuid.request = q
          /\ c.to # NoMessage => k = c.to
          /\ chat'[k].shown = Render(c.card)
          /\ DOMAIN chat \subseteq DOMAIN chat'
          /\ \A m \in DOMAIN chat : /\ chat'[m].uuid = chat[m].uuid
                                    /\ chat'[m].from = chat[m].from
                                    /\ chat'[m].shown = chat[m].shown
                                           \/ (m = k /\ k = c.to /\ c.to # NoMessage)
          /\ \A m \in DOMAIN chat' : m \notin DOMAIN chat =>
                                        m = k /\ chat'[m] = new
  BY <1>6
<1>8. /\ d(k) \in SendCalls /\ d(k) # Idle /\ d(k).step = "sent" /\ d(k).id = k
      /\ d(k).card = c.card /\ d(k).from = c.from /\ d(k).to = c.to
      /\ d(k).alone = c.alone
  BY <1>1, <1>7, IdleOrNot DEF SendCalls
<1>9. \A t \in Sends : send'[t] = IF t = s THEN d(k) ELSE send[t]
  BY <1>1, <1>7 DEF InteractionTypeOK
<1> HIDE DEF d
<1>10. InteractionTypeOK' /\ ClickInv' /\ DecidedAsSeen' /\ FaultsTypeOK'
  <2>1. InteractionTypeOK'
    BY <1>1, <1>7, <1>8 DEF InteractionTypeOK
  <2>2. ClickInv' /\ DecidedAsSeen'
    BY <1>1, ClickInvKept
  <2>3. FaultsTypeOK'
    BY <1>1 DEF InteractionInv, FaultsTypeOK
  <2> QED
    BY <2>1, <2>2, <2>3
<1>11. \A r \in Requests : Sending(r)' = Sending(r)
  BY <1>1, <1>8, <1>9 DEF Sending
\* An update is seen by the requests and calls it is for, only.
<1>12. \A m \in DOMAIN chat : /\ m \in DOMAIN chat' /\ chat'[m].uuid = chat[m].uuid
                              /\ chat[m].uuid.request # q => chat'[m].shown = chat[m].shown
  BY <1>2, <1>7 DEF SendOK, HostOK
<1>13. SendInv'
  <2> SUFFICES ASSUME NEW t \in Sends, send'[t] # Idle
               PROVE  SendOK(t, send[t], send[t].card.request)'
    BY DEF SendInv
  <2>1. CASE t = s
    BY <1>1, <1>2, <1>7, <1>8, <1>9, <1>11, <2>1 DEF SendOK
  <2>2. CASE t # s
    <3> DEFINE r == send[t].card.request
    <3>1. send'[t] = send[t] /\ send[t] # Idle
      BY <1>9, <2>2
    <3>2. SendOK(t, send[t], r) /\ r \in Requests
      BY <1>1, <1>4, <3>1, ElementTypes, CardParts DEF SendInv, SendCalls
    <3>3. r = q => ~send[t].alone
      BY <1>1, <2>2, <3>1, <3>2 DEF SendOK, Sending
    <3>5. /\ send[t].from \in SelectRuntimeAccount(r.account)
          /\ send[t].to = host'[r].message
          /\ send[t].to = NoMessage \/ send[t].alone => Sending(r)' = {t}
      <4>1. host' = host /\ \A u \in Sends : u \in Sending(r)' <=> u \in Sending(r)
        BY <1>1, <1>8, <1>9, <3>1 DEF Sending
      <4>2. Sending(r)' = Sending(r)
        BY <4>1 DEF Sending
      <4> QED
        BY <3>2, <4>1, <4>2 DEF SendOK
    <3>6. ASSUME send[t].step = "sent"
          PROVE  /\ send[t].id \in DOMAIN chat'
                 /\ chat'[send[t].id].uuid.request = r
                 /\ send[t].to # NoMessage => send[t].id = send[t].to
                 /\ send[t].alone => chat'[send[t].id].shown = Render(send[t].card)
      BY <1>12, <3>2, <3>3, <3>6 DEF SendOK
    <3> QED
      BY <3>1, <3>5, <3>6 DEF SendOK
  <2> QED
    BY <2>1, <2>2
<1>14. HostInv'
  <2> SUFFICES ASSUME NEW r \in Requests
               PROVE  HostOK(r, host[r])'
    BY DEF HostInv
  <2>1. HostOK(r, host[r])
    BY <1>4 DEF HostInv
  <2>2. r = q => host[r].told = {}
    BY <1>1, <2>1 DEF HostOK, Sending
  <2>3. host'[r] = host[r] /\ Sending(r)' = Sending(r)
    BY <1>1, <1>11
  <2>4. ASSUME host[r].message # NoMessage
        PROVE  /\ host[r].message \in DOMAIN chat'
               /\ chat'[host[r].message].uuid.request = r
               /\ r # q => chat'[host[r].message].shown = chat[host[r].message].shown
    BY <1>12, <2>1, <2>4 DEF HostOK
  <2> QED
    BY <2>1, <2>2, <2>3, <2>4 DEF HostOK
<1>15. ChatInv'
  <2> SUFFICES ASSUME NEW m \in DOMAIN chat'
               PROVE  /\ chat'[m].from \in SelectRuntimeAccount(chat'[m].uuid.request.account)
                      /\ m # host[chat'[m].uuid.request].message =>
                             chat'[m].shown = Render(chat'[m].uuid)
    BY <1>1 DEF ChatInv
  <2>1. CASE m \in DOMAIN chat
    <3>1. /\ chat'[m].uuid = chat[m].uuid /\ chat'[m].from = chat[m].from
          /\ chat'[m].shown = chat[m].shown \/ (m = c.to /\ c.to # NoMessage)
      BY <1>7, <2>1
    <3>2. m = c.to /\ c.to # NoMessage => m = host[chat[m].uuid.request].message
      BY <1>2 DEF SendOK, HostOK
    <3>3. /\ chat[m].from \in SelectRuntimeAccount(chat[m].uuid.request.account)
          /\ m # host[chat[m].uuid.request].message => chat[m].shown = Render(chat[m].uuid)
      BY <1>4, <2>1 DEF ChatInv
    <3> QED
      BY <3>1, <3>2, <3>3
  <2>2. CASE m \notin DOMAIN chat
    BY <1>1, <1>2, <1>7, <2>2 DEF SendOK
  <2> QED
    BY <2>1, <2>2
<1> QED
  BY <1>10, <1>13, <1>14, <1>15 DEF InteractionInv

\* A call of Send ends: with an id, which the host takes, or with an error.
LEMMA EndStep ==
    ASSUME InteractionInv, NEW s \in Sends, ReturnSent(s) \/ SendFails(s)
    PROVE  InteractionInv'
<1> DEFINE c == send[s]
           q == c.card.request
           h == IF ReturnSent(s)
                THEN [host[q] EXCEPT !.message = c.id, !.known = @ \cup {c.id},
                                     !.told = IF c.alone THEN {c.card} ELSE {}]
                ELSE host[q]
<1>1. /\ c \in SendCalls /\ c # Idle /\ c.card \in Cards /\ q \in Requests
      /\ InteractionTypeOK /\ host[q] \in HostRecords
      /\ ReturnSent(s) => c.step = "sent"
      /\ UNCHANGED <<chat, click, decision>>
      /\ send' = [send EXCEPT ![s] = Idle]
      /\ Fault \/ UNCHANGED faults
  <2>1. c # Idle
    BY IdleOrNot DEF ReturnSent, SendFails
  <2>2. c \in SendCalls
    BY <2>1, ElementTypes DEF InteractionInv
  <2> QED
    BY <2>1, <2>2, ElementTypes, CardParts DEF ReturnSent, SendFails, SendCalls, InteractionInv
<1>2. SendOK(s, c, q) /\ HostOK(q, host[q])
  BY <1>1 DEF InteractionInv, SendInv, HostInv
<1>3. host' = [host EXCEPT ![q] = h]
  <2>1. CASE ReturnSent(s)
    BY <1>1, <2>1 DEF ReturnSent, InteractionTypeOK
  <2>2. CASE ~ReturnSent(s)
    BY <1>1, <2>2 DEF SendFails, InteractionTypeOK
  <2> QED
    BY <2>1, <2>2
<1>4. ReturnSent(s) =>
          /\ c.id \in DOMAIN chat /\ c.id # NoMessage /\ chat[c.id].uuid.request = q
          /\ c.to = host[q].message
          /\ c.to # NoMessage => c.id = c.to
          /\ c.alone => chat[c.id].shown = Render(c.card)
  BY <1>1, <1>2, ElementTypes DEF SendOK, NoMessage
<1>5. /\ h \in HostRecords /\ h.state = host[q].state /\ h.revision = host[q].revision
      /\ h.message = IF ReturnSent(s) THEN c.id ELSE host[q].message
      /\ h.known = IF ReturnSent(s) THEN host[q].known \cup {c.id} ELSE host[q].known
      /\ h.told = IF ReturnSent(s) THEN IF c.alone THEN {c.card} ELSE {}
                  ELSE host[q].told
  <2>1. ReturnSent(s) => c.id \in 1..MaxMessages
    BY <1>1, <1>4, InteractionAssumption DEF SendCalls, NoMessage
  <2> QED
    BY <1>1, <2>1 DEF HostRecords, SendCalls
<1> HIDE DEF h
<1>6. /\ \A r \in Requests : host'[r] = IF r = q THEN h ELSE host[r]
      /\ \A t \in Sends : send'[t] = IF t = s THEN Idle ELSE send[t]
  BY <1>1, <1>3 DEF InteractionTypeOK
<1>7. InteractionTypeOK'
  <2>1. host' \in [Requests -> HostRecords] /\ send' \in [Sends -> SendCalls \cup {Idle}]
    BY <1>1, <1>3, <1>5 DEF InteractionTypeOK
  <2>2. \A r \in Requests : host'[r].revision \in 1..r.revisions
    BY <1>1, <1>5, <1>6 DEF InteractionTypeOK
  <2> QED
    BY <1>1, <2>1, <2>2 DEF InteractionTypeOK
<1>8. ClickInv' /\ DecidedAsSeen'
  <2>1. \A r \in Requests : host'[r].state = host[r].state
                            /\ host'[r].revision = host[r].revision
    BY <1>5, <1>6
  <2> QED
    BY <1>1, <2>1, ClickInvKept
<1>9. \A r \in Requests : Sending(r)' = Sending(r) \ {s}
  BY <1>6 DEF Sending
<1>10. s \in Sending(q)
  BY <1>1 DEF Sending
\* The message of the request stays the same for whoever else sends for it.
<1>11. h.message = host[q].message \/ (Sending(q) = {s} /\ host[q].message = NoMessage)
  BY <1>2, <1>4, <1>5 DEF SendOK
<1>12. SendInv'
  <2> SUFFICES ASSUME NEW t \in Sends, send'[t] # Idle
               PROVE  SendOK(t, send[t], send[t].card.request)'
    BY DEF SendInv
  <2>1. t # s /\ send'[t] = send[t] /\ send[t] # Idle
    BY <1>6
  <2>2. SendOK(t, send[t], send[t].card.request) /\ send[t].card.request \in Requests
    BY <1>1, <2>1, ElementTypes, CardParts DEF InteractionInv, SendInv, SendCalls
  <2>3. t \in Sending(send[t].card.request)
    BY <2>1 DEF Sending
  <2>4. PICK r \in Requests : r = send[t].card.request
    BY <2>2
  <2>5. SendOK(t, send[t], r) /\ t \in Sending(r)
    BY <2>2, <2>3, <2>4
  <2>6. r = q => send[t].to # NoMessage /\ ~send[t].alone /\ h.message = host[q].message
    BY <1>10, <1>11, <2>1, <2>5 DEF SendOK
  <2>7. send[t].to = host'[r].message
    BY <1>6, <2>5, <2>6 DEF SendOK
  <2>8. send[t].to = NoMessage \/ send[t].alone => Sending(r)' = {t}
    BY <1>9, <2>1, <2>5, <2>6 DEF SendOK
  <2> QED
    BY <1>1, <2>1, <2>4, <2>5, <2>7, <2>8 DEF SendOK
<1>13. HostInv'
  <2> SUFFICES ASSUME NEW r \in Requests
               PROVE  HostOK(r, host[r])'
    BY DEF HostInv
  <2>1. HostOK(r, host[r])
    BY DEF InteractionInv, HostInv
  <2>2. CASE r # q \/ ~ReturnSent(s)
    <3>1. host'[r].message = host[r].message /\ host'[r].known = host[r].known
          /\ host'[r].told = host[r].told
      BY <1>5, <1>6, <2>2
    <3> QED
      BY <1>1, <1>9, <2>1, <3>1 DEF HostOK
  <2>3. CASE r = q /\ ReturnSent(s)
    <3>1. /\ host'[r].message = c.id /\ host'[r].known = host[q].known \cup {c.id}
          /\ host'[r].told = IF c.alone THEN {c.card} ELSE {}
      BY <1>5, <1>6, <2>3
    <3>2. host[q].known \cup {c.id} = {c.id} \ {NoMessage}
      BY <1>2, <1>4, <2>3 DEF HostOK
    <3>3. c.alone => Sending(r)' = {}
      BY <1>2, <1>9, <2>3 DEF SendOK
    <3> QED
      BY <1>1, <1>4, <2>3, <3>1, <3>2, <3>3 DEF HostOK
  <2> QED
    BY <2>2, <2>3
<1>14. ChatInv'
  <2> SUFFICES ASSUME NEW m \in DOMAIN chat
               PROVE  /\ chat[m].from \in SelectRuntimeAccount(chat[m].uuid.request.account)
                      /\ m # host'[chat[m].uuid.request].message =>
                             chat[m].shown = Render(chat[m].uuid)
    BY <1>1 DEF ChatInv
  <2>1. /\ chat[m].from \in SelectRuntimeAccount(chat[m].uuid.request.account)
        /\ m # host[chat[m].uuid.request].message => chat[m].shown = Render(chat[m].uuid)
    BY DEF InteractionInv, ChatInv
  <2>2. m # NoMessage /\ chat[m].uuid.request \in Requests
    BY <1>1, ElementTypes, CardParts DEF Messages, NoMessage
  <2> QED
    BY <1>6, <1>11, <2>1, <2>2
<1> QED
  BY <1>1, <1>7, <1>8, <1>12, <1>13, <1>14, FaultType DEF InteractionInv

-----------------------------------------------------------------------------
(* Clicks                                                                  *)

\* A click goes on, and no request changes.
LEMMA OneClick ==
    ASSUME InteractionInv, NEW e \in Clicks, NEW c,
           click' = [click EXCEPT ![e] = c],
           UNCHANGED <<host, chat, send, decision>>,
           Fault \/ UNCHANGED faults,
           c = Idle \/ (c \in ClickCalls /\ ClickOK(c, host[Of(c)]))
    PROVE  InteractionInv'
<1>1. InteractionTypeOK'
  BY DEF InteractionInv, InteractionTypeOK
<1>2. SendInv' /\ HostInv' /\ ChatInv'
  BY SendInvKept
<1>3. \A f \in Clicks : click'[f] = IF f = e THEN c ELSE click[f]
  BY DEF InteractionInv, InteractionTypeOK
<1>4. ClickInv'
  BY <1>3 DEF InteractionInv, ClickInv, ClickOK, Acted
<1>5. DecidedAsSeen'
  BY DEF InteractionInv, DecidedAsSeen
<1> QED
  BY <1>1, <1>2, <1>4, <1>5, FaultType DEF InteractionInv

LEMMA PressStep ==
    ASSUME InteractionInv, NEW e \in Clicks, NEW m, NEW member \in Members, NEW button,
           NEW typed \in Typings, Press(e, m, member, button, typed),
           Fault \/ UNCHANGED faults
    PROVE  InteractionInv'
<1> DEFINE c == [step |-> "sent", member |-> member, seen |-> chat[m].shown,
                 button |-> button, typed |-> typed, accepted |-> FALSE,
                 toast |-> "none"]
<1>1. /\ m \in DOMAIN chat /\ click' = [click EXCEPT ![e] = c]
      /\ UNCHANGED <<host, chat, send, decision>>
      /\ button \in chat[m].shown.buttons \cup chat[m].shown.form
  BY DEF Press
<1>2. PICK card \in Cards : chat[m].shown = Render(card)
  BY <1>1, ElementTypes DEF InteractionInv, Messages, Renderings
<1>3. card.state = "pending" /\ \E a \in Actions : button = Button(card, a)
  BY <1>1, <1>2, ButtonsArePending
<1>4. c \in ClickCalls
  BY <1>2, <1>3 DEF ClickCalls, Typings, Renderings, Buttons
<1>5. c.step = "sent" /\ c.seen = chat[m].shown /\ c.button = button /\ ~c.accepted
  OBVIOUS
<1> HIDE DEF c
<1>6. ClickOK(c, host[Of(c)])
  BY <1>2, <1>3, <1>5 DEF ClickOK
<1> QED
  BY <1>1, <1>4, <1>6, OneClick

\* Receiving a click, losing its answer and taking it do not touch what the
\* click means.
LEMMA RelayStep ==
    ASSUME InteractionInv, NEW e \in Clicks,
           ReceiveClick(e) \/ LoseAnswer(e) \/ TakeAnswer(e)
    PROVE  InteractionInv'
<1> DEFINE c == click[e]
<1>1. /\ UNCHANGED <<host, chat, send, decision>>
      /\ Fault \/ UNCHANGED faults
      /\ c \in ClickCalls /\ ClickOK(c, host[Of(c)])
  <2>1. c # Idle
    BY IdleOrNot DEF ReceiveClick, LoseAnswer, TakeAnswer
  <2> QED
    BY <2>1, ElementTypes
       DEF ReceiveClick, LoseAnswer, TakeAnswer, InteractionInv, ClickInv
<1>2. CASE TakeAnswer(e)
  BY <1>1, <1>2, OneClick DEF TakeAnswer
<1>3. CASE ReceiveClick(e) \/ LoseAnswer(e)
  <2> DEFINE step == IF ~ReceiveClick(e) THEN "sent"
                     ELSE IF FormValid(e) THEN "dispatch" ELSE "answer"
             toast == IF ReceiveClick(e) /\ ~FormValid(e) THEN "error" ELSE "none"
             d == [c EXCEPT !.step = step, !.toast = toast]
  <2>1. click' = [click EXCEPT ![e] = d]
    BY <1>1, <1>3 DEF ReceiveClick, LoseAnswer, InteractionInv, InteractionTypeOK
  <2>2. /\ d \in ClickCalls /\ d.step = step /\ d.toast = toast /\ d.member = c.member
        /\ d.seen = c.seen /\ d.button = c.button /\ d.typed = c.typed
        /\ d.accepted = c.accepted
    BY <1>1 DEF ClickCalls
  <2>3. step = "dispatch" => c.typed # "unfit"
    BY DEF FormValid
  <2>4. toast \notin {"success", "warning"}
    OBVIOUS
  <2> HIDE DEF d, step, toast
  <2>5. ClickOK(d, host[Of(d)])
    BY <1>1, <2>2, <2>3, <2>4 DEF ClickOK, Acted, Of, RevisionOf
  <2> QED
    BY <1>1, <2>1, <2>2, <2>5, OneClick
<1> QED
  BY <1>2, <1>3

\* What the host is asked to do by a click on a button of card.
LEMMA ActionOfClick ==
    ASSUME NEW e, NEW card, NEW a, click[e].button = Button(card, a)
    PROVE  /\ ActionOf(e).request = card.request /\ ActionOf(e).revision = card.revision
           /\ ActionOf(e).action = a
           /\ ActionOf(e).reason = click[e].typed /\ ActionOf(e).actor = click[e].member
           /\ ActionOf(e) = [request |-> card.request, revision |-> card.revision,
                             action |-> a, reason |-> click[e].typed,
                             actor |-> click[e].member]
<1>1. ParseToken(click[e].button.token) =
          [request |-> card.request, revision |-> card.revision, action |-> a]
  BY ButtonParts
<1> QED
  BY <1>1 DEF ActionOf, Reason

\* The host acts on a click, and c is what the connector makes of it.
LEMMA DecideStep ==
    ASSUME InteractionInv, NEW e \in Clicks, click[e].step = "dispatch",
           Decides(ActionOf(e)), Decide(e),
           UNCHANGED <<chat, send>>, Fault \/ UNCHANGED faults,
           NEW toast \in {"success", "error"},
           click' = [click EXCEPT ![e].step = "answer", ![e].accepted = TRUE,
                                  ![e].toast = toast]
    PROVE  InteractionInv'
<1> DEFINE c == click[e]
           d == [c EXCEPT !.step = "answer", !.accepted = TRUE, !.toast = toast]
<1>1. c \in ClickCalls /\ ClickOK(c, host[Of(c)]) /\ c # Idle
  <2>1. c # Idle
    BY IdleOrNot
  <2> QED
    BY <2>1, ElementTypes DEF InteractionInv, ClickInv
<1>2. PICK card \in Cards, a \in Actions :
          card.state = "pending" /\ c.seen = Render(card) /\ c.button = Button(card, a)
  BY <1>1 DEF ClickOK
<1> DEFINE act == ActionOf(e)
           q == card.request
<1>3. /\ act.request = q /\ act.revision = card.revision /\ act.action = a
      /\ act.reason = c.typed /\ act.actor = c.member
      /\ act = [request |-> q, revision |-> card.revision, action |-> a,
                reason |-> c.typed, actor |-> c.member]
  BY <1>2, ActionOfClick
<1>4. q \in Requests /\ Of(c) = q /\ RevisionOf(c) = card.revision /\ c.button.label = a
  <2>1. Button(card, a).label = a
    BY ButtonParts
  <2> QED
    BY <1>2, <2>1, CardParts, RenderParts DEF Of, RevisionOf
<1>5. /\ c.member = q.requester /\ host[q].revision = card.revision
      /\ host[q].state = "pending"
  BY <1>3 DEF Decides, Denied
<1> HIDE DEF act
<1>6. /\ host' = [host EXCEPT ![q].state = NewState(a)]
      /\ decision' = [decision EXCEPT ![q] = {[action |-> act, click |-> c]}]
  BY <1>3 DEF Decide, act
<1>7. /\ host[q] \in HostRecords /\ host \in [Requests -> HostRecords]
      /\ decision \in [Requests -> SUBSET Decisions]
      /\ click \in [Clicks -> ClickCalls \cup {Idle}]
  BY <1>4 DEF InteractionInv, InteractionTypeOK
<1>8. NewState(a) \in RequestStates
  BY DEF NewState, RequestStates
<1>9. \A r \in Requests :
          /\ host'[r] \in HostRecords
          /\ host'[r].revision = host[r].revision
          /\ host'[r].message = host[r].message /\ host'[r].known = host[r].known
          /\ host'[r].told = host[r].told
          /\ host'[r].state = IF r = q THEN NewState(a) ELSE host[r].state
  BY <1>6, <1>7, <1>8 DEF HostRecords
<1>10. /\ click' = [click EXCEPT ![e] = d] /\ d \in ClickCalls
       /\ d.step = "answer" /\ d.accepted /\ d.toast = toast /\ d.member = c.member
       /\ d.seen = c.seen /\ d.button = c.button /\ d.typed = c.typed
  BY <1>1, <1>7 DEF ClickCalls
<1> HIDE DEF d
<1>11. \A f \in Clicks : click'[f] = IF f = e THEN d ELSE click[f]
  BY <1>7, <1>10
<1>12. InteractionTypeOK'
  <2>1. [action |-> act, click |-> c] \in Decisions
    <3>1. card.revision \in Nat
      BY <1>2, <1>4, CardParts, InteractionAssumption
    <3>2. c.typed \in {"none", "details", "unfit"} /\ c.member \in Members
      BY <1>1 DEF ClickCalls
    <3> QED
      BY <1>1, <1>2, <1>3, <1>4, <3>1, <3>2 DEF Decisions
  <2>2. decision' \in [Requests -> SUBSET Decisions]
    BY <1>6, <1>7, <2>1
  <2>3. host' \in [Requests -> HostRecords]
    <3>1. host' = [r \in Requests |-> host'[r]]
      BY <1>6, <1>7
    <3> QED
      BY <1>9, <3>1
  <2>4. click' \in [Clicks -> ClickCalls \cup {Idle}]
    BY <1>7, <1>10
  <2> QED
    BY <1>9, <2>2, <2>3, <2>4 DEF InteractionInv, InteractionTypeOK
<1>13. SendInv' /\ HostInv' /\ ChatInv'
  BY <1>9, SendInvKept
<1>14. ClickInv'
  <2>1. ASSUME NEW f \in Clicks, f # e, click[f] # Idle
        PROVE  ClickOK(click[f], host'[Of(click[f])])
    <3>1. ClickOK(click[f], host[Of(click[f])]) /\ Of(click[f]) \in Requests
      BY <2>1, RequestOfClick DEF InteractionInv, ClickInv
    <3>2. NewState(click[f].button.label) # "pending"
      BY DEF NewState
    <3>3. click[f].accepted => Acted(click[f], host'[Of(click[f])])
      BY <1>5, <1>9, <3>1, <3>2 DEF ClickOK, Acted
    <3> QED
      BY <3>1, <3>3 DEF ClickOK
  <2>2. ClickOK(d, host'[Of(d)])
    <3>1. Of(d) = q /\ RevisionOf(d) = card.revision
      BY <1>4, <1>10 DEF Of, RevisionOf
    <3>2. Acted(d, host'[q])
      BY <1>4, <1>5, <1>9, <1>10, <3>1 DEF Acted
    <3> QED
      BY <1>2, <1>10, <3>1, <3>2 DEF ClickOK
  <2> QED
    BY <1>11, <2>1, <2>2 DEF ClickInv
<1>15. DecidedAsSeen'
  <2> SUFFICES ASSUME NEW r \in Requests, NEW x \in decision'[r]
               PROVE  /\ x.action.request = r
                      /\ x.click.seen.text = <<r, x.action.revision>>
                      /\ x.click.seen.status = "pending"
                      /\ x.click.button.label = x.action.action
                      /\ x.click.typed = x.action.reason /\ x.action.reason # "unfit"
                      /\ {x.click.member, x.action.actor} = {r.requester}
    BY DEF DecidedAsSeen
  <2>1. CASE r = q
    <3>1. x.action = act /\ x.click = c
      BY <1>4, <1>6, <1>7, <2>1
    <3>2. c.typed # "unfit"
      BY <1>1 DEF ClickOK
    <3>3. c.seen.text = <<q, card.revision>> /\ c.seen.status = "pending"
      BY <1>2, RenderParts
    <3> QED
      BY <1>3, <1>4, <1>5, <2>1, <3>1, <3>2, <3>3
  <2>2. CASE r # q
    <3>1. x \in decision[r]
      BY <1>6, <1>7, <2>2
    <3> QED
      BY <3>1 DEF InteractionInv, DecidedAsSeen
  <2> QED
    BY <2>1, <2>2
<1> QED
  BY <1>12, <1>13, <1>14, <1>15, FaultType DEF InteractionInv

\* The host is asked, and its answer becomes a toast.
LEMMA DispatchStep ==
    ASSUME InteractionInv, NEW e \in Clicks, Dispatch(e) \/ DispatchFails(e)
    PROVE  InteractionInv'
<1> DEFINE c == click[e]
<1>1. /\ c.step = "dispatch" /\ UNCHANGED <<chat, send>> /\ (Fault \/ UNCHANGED faults)
      /\ c \in ClickCalls /\ ClickOK(c, host[Of(c)])
  <2>1. c.step = "dispatch" /\ UNCHANGED <<chat, send>> /\ (Fault \/ UNCHANGED faults)
    BY DEF Dispatch, DispatchFails
  <2>2. c # Idle
    BY <2>1, IdleOrNot
  <2> QED
    BY <2>1, <2>2, ElementTypes DEF InteractionInv, ClickInv
<1>2. PICK card \in Cards, a \in Actions :
          card.state = "pending" /\ c.seen = Render(card) /\ c.button = Button(card, a)
  BY <1>1 DEF ClickOK
<1>3. Of(c) = card.request /\ (Denied(ActionOf(e)) <=> c.member # Of(c).requester)
  BY <1>2, RenderParts, ActionOfClick DEF Of, Denied
<1>4. Toast("done") = "success" /\ Toast("failed") = "error"
      /\ Toast("stale") = "error" /\ Toast("actor_not_requester") = "warning"
  BY DEF Toast
<1>5. CASE Dispatch(e) /\ ~c.accepted /\ Decides(ActionOf(e))
  <2>1. Outcome(e) = "done"
    BY <1>5 DEF Outcome, Decides
  <2>2. /\ Decide(e)
        /\ click' = [click EXCEPT ![e].step = "answer", ![e].accepted = TRUE,
                                  ![e].toast = "success"]
    BY <1>4, <1>5, <2>1 DEF Dispatch
  <2> QED
    BY <1>1, <1>5, <2>2, DecideStep
<1>6. CASE Dispatch(e) /\ ~(~c.accepted /\ Decides(ActionOf(e)))
  <2> DEFINE done == Outcome(e) = "done"
             toast == Toast(Outcome(e))
             d == [c EXCEPT !.step = "answer", !.accepted = done, !.toast = toast]
  <2>1. click' = [click EXCEPT ![e] = d] /\ UNCHANGED <<host, decision>>
    BY <1>1, <1>6 DEF Dispatch, InteractionInv, InteractionTypeOK
  <2>2. /\ done => c.accepted
        /\ toast = "success" => done
        /\ toast = "warning" => c.member # Of(c).requester
        /\ toast \in {"success", "warning", "error"}
    BY <1>3, <1>4, <1>6 DEF Outcome
  <2>3. /\ d \in ClickCalls /\ d.step = "answer" /\ d.toast = toast /\ d.member = c.member
        /\ d.seen = c.seen /\ d.button = c.button /\ d.typed = c.typed
        /\ d.accepted = done
    BY <1>1, <2>2 DEF ClickCalls
  <2> HIDE DEF d, done, toast
  <2>4. ClickOK(d, host[Of(d)])
    BY <1>1, <2>2, <2>3 DEF ClickOK, Acted, Of, RevisionOf
  <2> QED
    BY <1>1, <2>1, <2>3, <2>4, OneClick
<1>7. CASE DispatchFails(e)
  <2>1. CASE UNCHANGED <<host, decision>>
             /\ click' = [click EXCEPT ![e].step = "answer", ![e].toast = Toast("failed")]
    <3> DEFINE d == [c EXCEPT !.step = "answer", !.toast = "error"]
    <3>1. click' = [click EXCEPT ![e] = d] /\ UNCHANGED <<host, decision>>
      BY <1>1, <1>4, <2>1 DEF InteractionInv, InteractionTypeOK
    <3>2. /\ d \in ClickCalls /\ d.step = "answer" /\ d.toast = "error"
          /\ d.member = c.member /\ d.seen = c.seen /\ d.button = c.button
          /\ d.typed = c.typed /\ d.accepted = c.accepted
      BY <1>1 DEF ClickCalls
    <3> HIDE DEF d
    <3>3. ClickOK(d, host[Of(d)])
      BY <1>1, <3>2 DEF ClickOK, Acted, Of, RevisionOf
    <3> QED
      BY <1>1, <3>1, <3>2, <3>3, OneClick
  <2>2. CASE /\ ~c.accepted /\ Decides(ActionOf(e)) /\ Decide(e)
             /\ click' = [click EXCEPT ![e].step = "answer", ![e].accepted = TRUE,
                                       ![e].toast = Toast("failed")]
    BY <1>1, <1>4, <2>2, DecideStep
  <2> QED
    BY <1>7, <2>1, <2>2 DEF DispatchFails
<1> QED
  BY <1>5, <1>6, <1>7

-----------------------------------------------------------------------------

LEMMA InteractionInvNext ==
    ASSUME InteractionInv, InteractionNext
    PROVE  InteractionInv'
<1>1. ASSUME NEW q \in Requests, PresentRevision(q) \/ Cancel(q)
      PROVE  InteractionInv'
  BY <1>1, HostSteps
<1>2. ASSUME NEW q \in Requests, NEW s \in Sends, BeginInteraction(s, q)
      PROVE  InteractionInv'
  BY <1>2, BeginStep
<1>3. ASSUME NEW e \in Clicks, NEW q \in Requests, NEW typed \in Typings,
             PressCurrent(e, q, typed)
      PROVE  InteractionInv'
  <2>1. PICK m \in DOMAIN chat : \E b \in chat[m].shown.buttons \cup chat[m].shown.form :
            Press(e, m, q.requester, b, typed)
    BY <1>3 DEF PressCurrent
  <2>2. q.requester \in Members /\ UNCHANGED faults
    BY <1>3, InteractionAssumption DEF PressCurrent
  <2> QED
    BY <2>1, <2>2, PressStep
<1>4. ASSUME NEW e \in Clicks, NEW m \in DOMAIN chat, NEW member \in Members,
             NEW typed \in Typings, PressAnything(e, m, member, typed)
      PROVE  InteractionInv'
  BY <1>4, PressStep DEF PressAnything
<1>5. ASSUME NEW s \in Sends, SendStep(s) \/ SendFails(s)
      PROVE  InteractionInv'
  BY <1>5, PostStep, EndStep DEF SendStep
<1>6. ASSUME NEW e \in Clicks, ClickStep(e) \/ LoseAnswer(e) \/ DispatchFails(e)
      PROVE  InteractionInv'
  BY <1>6, RelayStep, DispatchStep DEF ClickStep
<1> QED
  BY <1>1, <1>2, <1>3, <1>4, <1>5, <1>6 DEF InteractionNext

\* A card decides only what its requester saw and pressed, tells the truth in
\* its toasts, and shows what Send reported: for a host and a platform as they
\* are described here (src/interaction.go, src/internal/lark/interaction.go).
THEOREM InteractionCorrect ==
    InteractionSpec => [](DecidedAsSeen /\ ToastIsTrue /\ SuccessIsShown)
<1>1. InteractionInit /\ FaultsInit => InteractionInv
  BY InteractionInvInit
<1>2. InteractionInv /\ [InteractionNext]_interactionVars => InteractionInv'
  <2>1. CASE InteractionNext
    BY <2>1, InteractionInvNext
  <2>2. ASSUME InteractionInv, UNCHANGED interactionVars
        PROVE  InteractionInv'
    <3>1. UNCHANGED <<host, chat, send, click, decision, faults>>
      BY <2>2 DEF interactionVars
    <3>2. SendInv' /\ HostInv' /\ ChatInv' /\ ClickInv' /\ DecidedAsSeen'
      BY <2>2, <3>1, SendInvKept, ClickInvKept
    <3>3. InteractionTypeOK' /\ FaultsTypeOK'
      BY <2>2, <3>1 DEF InteractionInv, InteractionTypeOK, FaultsTypeOK
    <3> QED
      BY <3>2, <3>3 DEF InteractionInv
  <2> QED
    BY <2>1, <2>2
<1>3. InteractionInv => DecidedAsSeen /\ ToastIsTrue /\ SuccessIsShown
  BY InteractionInvImplies
<1> QED
  BY <1>1, <1>2, <1>3, PTL DEF InteractionSpec

-----------------------------------------------------------------------------
(* Validation                                                              *)

\* What has to be known of a call that is under way.  Its failed attempts are
\* counted, a copy is incomplete if the credential was when it was made, only a
\* complete one gets tokens, and an error that rejects the credential comes from a platform that refuses it.
CallInv(c, q) ==
    /\ c.step \notin {"idle", "done"} => c.verdict = "none" /\ q \in c.seen
    /\ c.step \notin {"idle", "done"} /\ ~c.complete => "incomplete" \in c.seen
    /\ c.step \notin {"idle", "done"} /\ c.complete => q # "incomplete"
    /\ c.held # "none" \/ c.step = "ask" => c.complete
    /\ c.step \in {"token", "info", "ask"} => c.troubles = c.attempt - 1
    /\ c.step = "wait" => c.troubles = c.attempt /\ c.attempt < Attempts
    /\ c.step = "failed" /\ IsCredentialRejected(c.error) =>
           c.seen \cap {"refused", "incomplete"} # {}
    /\ c.step = "failed" /\ ~IsCredentialRejected(c.error) =>
           IF IsRetryableError(c.error) THEN c.troubles = c.attempt ELSE c.fatal

ValidationInv ==
    /\ ValidationTypeOK
    /\ FaultsTypeOK
    /\ VerdictIsThePlatforms
    /\ \A i \in Candidates : CallInv(check[i], quality[i])

\* Every error of a platform that refuses the credential rejects it, and none
\* of the disturbances does.
LEMMA ErrorClasses ==
    /\ \A e \in Refusals \cup {Missing} : IsCredentialRejected(e)
    /\ \A e \in Disturbances : ~IsCredentialRejected(e)
BY DEF Refusals, Disturbances, Missing, IsCredentialRejected, Answer, HTTPError,
       Plain

\* A new record of a call has the type of one.
LEMMA NewCheckType ==
    ASSUME NEW step \in CheckSteps, NEW complete \in BOOLEAN,
           NEW seen \in SUBSET Qualities
    PROVE  NewCheck(step, complete, seen) \in Checks
BY AttemptsAssumption DEF NewCheck, Checks, Errors

LEMMA ValidationInvInit ==
    ASSUME ValidationInit, FaultsInit
    PROVE  ValidationInv
<1>1. ValidationTypeOK
  BY NewCheckType DEF ValidationInit, ValidationTypeOK, Qualities, CheckSteps
<1>2. FaultsTypeOK
  BY FaultsAssumption DEF FaultsInit, FaultsTypeOK
<1>3. \A i \in Candidates :
          /\ check[i].step = "idle" /\ check[i].verdict = "none" /\ check[i].held = "none"
  BY DEF ValidationInit, NewCheck
<1> QED
  BY <1>1, <1>2, <1>3 DEF ValidationInv, VerdictIsThePlatforms, CallInv

\* One call goes on, and its credential changes or not: enough to look at.
LEMMA OneCheck ==
    ASSUME ValidationInv, NEW i \in Candidates,
           faults' \in 0..MaxFaults,
           quality' \in [Candidates -> Qualities],
           \A j \in Candidates : j # i => quality'[j] = quality[j],
           NEW c \in Checks, check' = [check EXCEPT ![i] = c],
           c.verdict = "valid" => "good" \in c.seen,
           c.verdict = "rejected" => c.seen \cap {"refused", "incomplete"} # {},
           c.verdict = "failed" => c.troubles = Attempts \/ c.fatal,
           CallInv(c, quality'[i])
    PROVE  ValidationInv'
<1>1. ValidationTypeOK' /\ FaultsTypeOK'
  BY DEF ValidationInv, ValidationTypeOK, FaultsTypeOK
<1>2. \A j \in Candidates : check'[j] = IF j = i THEN c ELSE check[j]
  BY DEF ValidationInv, ValidationTypeOK
<1>3. \A j \in Candidates : CallInv(check'[j], quality'[j])
  BY <1>2 DEF ValidationInv
<1>4. VerdictIsThePlatforms'
  BY <1>2 DEF ValidationInv, VerdictIsThePlatforms
<1> QED
  BY <1>1, <1>3, <1>4 DEF ValidationInv

\* A call begins, or its platform changes its mind, or one of its steps.
LEMMA ValidationInvNext ==
    ASSUME ValidationInv, ValidationNext
    PROVE  ValidationInv'
<1>1. PICK i \in Candidates :
          \/ Revoke(i) \/ Repair(i) \/ ValidateCredential(i)
          \/ CheckStep(i) \/ CancelWait(i)
          \/ \E e \in Disturbances : Disturb(i, e)
  BY DEF ValidationNext
<1> DEFINE c == check[i]
<1>2. /\ c \in Checks /\ check \in [Candidates -> Checks]
      /\ quality \in [Candidates -> Qualities] /\ faults \in 0..MaxFaults
      /\ CallInv(c, quality[i])
      /\ c.verdict = "valid" => "good" \in c.seen
      /\ c.verdict = "rejected" => c.seen \cap {"refused", "incomplete"} # {}
      /\ c.verdict = "failed" => c.troubles = Attempts \/ c.fatal
  BY DEF ValidationInv, ValidationTypeOK, FaultsTypeOK, VerdictIsThePlatforms
<1>3. c.step \notin {"idle", "done"} => c.verdict = "none"
  BY <1>2 DEF CallInv
<1>4. ASSUME Fault
      PROVE  faults' \in 0..MaxFaults
  BY <1>2, <1>4, FaultsAssumption DEF Fault
<1>5. CASE Revoke(i) \/ Repair(i)
  <2> DEFINE q == IF Revoke(i) THEN "refused" ELSE "good"
             d == [c EXCEPT !.seen = IF c.step \in {"idle", "done"} THEN @ ELSE @ \cup {q}]
  <2>1. /\ quality' = [quality EXCEPT ![i] = q]
        /\ check' = [check EXCEPT ![i] = d]
        /\ faults' \in 0..MaxFaults
    BY <1>2, <1>4, <1>5 DEF Revoke, Repair, Seeing
  <2>2. q \in Qualities
    BY DEF Qualities
  <2>3. quality' \in [Candidates -> Qualities] /\ quality'[i] = q
    BY <1>2, <2>1, <2>2
  <2>4. d \in Checks
    BY <1>2, <2>2 DEF Checks
  <2>5. CallInv(d, q)
    BY <1>2 DEF CallInv, Checks, CheckSteps, Qualities
  <2>6. /\ d.verdict = c.verdict /\ d.troubles = c.troubles /\ d.fatal = c.fatal
        /\ c.seen \subseteq d.seen
    BY <1>2 DEF Checks
  <2> HIDE DEF d, q
  <2> QED
    BY <1>2, <2>1, <2>3, <2>4, <2>5, <2>6, OneCheck
<1>6. CASE ValidateCredential(i)
  <2> DEFINE d == NewCheck("token", quality[i] # "incomplete", {quality[i]})
  <2>1. check' = [check EXCEPT ![i] = d] /\ UNCHANGED <<quality, faults>>
    BY <1>6 DEF ValidateCredential
  <2>2. d \in Checks
    BY <1>2, NewCheckType DEF CheckSteps
  <2>3. /\ d.step = "token" /\ d.attempt = 1 /\ d.troubles = 0 /\ d.verdict = "none"
        /\ d.complete <=> quality[i] # "incomplete"
        /\ d.held = "none" /\ d.seen = {quality[i]}
    BY DEF NewCheck
  <2> HIDE DEF d
  <2>4. CallInv(d, quality[i])
    BY <2>3 DEF CallInv
  <2> QED
    BY <1>2, <2>1, <2>2, <2>3, <2>4, OneCheck
<1> DEFINE Goes(d) ==
        /\ check' = [check EXCEPT ![i] = d]
        /\ d \in Checks
        /\ CallInv(d, quality[i])
        /\ d.verdict = "none"
<1>7. ASSUME NEW d, Goes(d), quality' = quality, faults' \in 0..MaxFaults
      PROVE  ValidationInv'
  BY <1>2, <1>7, OneCheck
<1>8. CASE ReuseToken(i) \/ UseToken(i) \/ WaitForRetry(i) \/ TryAgain(i)
  <2>1. CASE ReuseToken(i)
    BY <1>2, <1>3, <1>7, <2>1 DEF ReuseToken, CheckAt, CallInv, Checks, CheckSteps
  <2>2. CASE UseToken(i)
    BY <1>2, <1>3, <1>7, <2>2 DEF UseToken, CheckAt, CallInv, Checks, CheckSteps
  <2>3. CASE WaitForRetry(i)
    BY <1>2, <1>3, <1>7, <2>3, AttemptsAssumption
       DEF WaitForRetry, CheckAt, CallInv, Checks, CheckSteps
  <2>4. CASE TryAgain(i)
    <3> DEFINE d == [c EXCEPT !.step = "wait", !.error = NoError]
    <3>1. check' = [check EXCEPT ![i] = d] /\ UNCHANGED <<quality, faults>>
      BY <2>4 DEF TryAgain
    <3>2. /\ d \in Checks /\ d.step = "wait" /\ d.seen = c.seen
          /\ d.complete = c.complete /\ d.held = c.held /\ d.verdict = c.verdict
          /\ d.troubles = c.troubles /\ d.attempt = c.attempt
      BY <1>2 DEF Checks, CheckSteps, Errors
    <3>3. c.step = "failed" /\ c.troubles = c.attempt /\ c.attempt # Attempts
      BY <1>2, <2>4 DEF TryAgain, CheckAt, GivesUp, CallInv
    <3>4. c.attempt < Attempts
      BY <1>2, <3>3, AttemptsAssumption DEF Checks
    <3> HIDE DEF d
    <3>5. CallInv(d, quality[i]) /\ d.verdict = "none"
      BY <1>2, <1>3, <3>2, <3>3, <3>4 DEF CallInv
    <3> QED
      BY <1>2, <1>7, <3>1, <3>2, <3>5
  <2> QED
    BY <1>8, <2>1, <2>2, <2>3, <2>4
<1>9. CASE \E life \in Lives : GetToken(i, life)
  BY <1>2, <1>3, <1>7, <1>9
     DEF GetToken, AsksForToken, CheckAt, CallInv, Checks, CheckSteps
<1>10. CASE LacksCredential(i)
  BY <1>2, <1>3, <1>7, <1>10, ErrorClasses
     DEF LacksCredential, AsksForToken, CheckAt, CallInv, Checks, CheckSteps, Errors
<1>11. CASE \E e \in Refusals : Refuse(i, e)
  <2>1. PICK e \in Refusals : Refuse(i, e)
    BY <1>11
  <2> DEFINE d == [c EXCEPT !.step = "failed", !.error = e]
  <2>2. check' = [check EXCEPT ![i] = d] /\ UNCHANGED <<quality, faults>>
    BY <2>1 DEF Refuse
  <2>3. c.step \in {"token", "info", "ask"} /\ quality[i] = "refused"
    BY <2>1 DEF Refuse, Requesting, AsksForToken, CheckAt
  <2>4. /\ d \in Checks /\ d.step = "failed" /\ d.error = e /\ d.seen = c.seen
        /\ d.complete = c.complete /\ d.held = c.held /\ d.verdict = c.verdict
    BY <1>2 DEF Checks, CheckSteps, Errors
  <2> HIDE DEF d
  <2>5. CallInv(d, quality[i]) /\ d.verdict = "none"
    BY <1>2, <2>3, <2>4, ErrorClasses DEF CallInv
  <2> QED
    BY <1>2, <1>7, <2>2, <2>4, <2>5
<1>12. CASE \E e \in Disturbances : Disturb(i, e)
  <2>1. PICK e \in Disturbances : Disturb(i, e)
    BY <1>12
  <2> DEFINE d == [c EXCEPT !.step = "failed", !.error = e,
                        !.troubles = IF IsRetryableError(e) THEN @ + 1 ELSE @,
                        !.fatal = @ \/ ~IsRetryableError(e)]
  <2>2. /\ check' = [check EXCEPT ![i] = d]
        /\ quality' = quality /\ faults' \in 0..MaxFaults
    BY <1>2, <1>4, <2>1 DEF Disturb
  <2>3. c.step \in {"token", "info", "ask"}
    BY <2>1 DEF Disturb, Requesting, AsksForToken, CheckAt
  <2>4. c.verdict = "none" /\ c.troubles = c.attempt - 1 /\ quality[i] \in c.seen
    BY <1>2, <2>3 DEF CallInv
  <2>5. /\ d.step = "failed" /\ d.error = e /\ d.verdict = "none"
        /\ d.complete = c.complete /\ d.held = c.held /\ d.seen = c.seen /\ d.attempt = c.attempt
    BY <1>2, <2>4 DEF Checks
  <2>55. /\ d.troubles = IF IsRetryableError(e) THEN c.troubles + 1 ELSE c.troubles
         /\ ~IsRetryableError(e) => d.fatal
    BY <1>2 DEF Checks
  <2>56. c.troubles + 1 = c.attempt /\ c.attempt \in 1..Attempts
         /\ c.troubles \in 0..Attempts
    BY <1>2, <2>4, AttemptsAssumption DEF Checks
  <2>6. d.troubles \in 0..Attempts
    BY <2>55, <2>56, AttemptsAssumption
  <2>7. d.fatal \in BOOLEAN
    BY <1>2 DEF Checks, IsRetryableError
  <2>8. d \in Checks
    BY <1>2, <2>1, <2>6, <2>7 DEF Checks, CheckSteps, Errors
  <2>9. CallInv(d, quality[i])
    BY <1>2, <2>3, <2>4, <2>5, <2>55, <2>56, ErrorClasses DEF CallInv
  <2> HIDE DEF d
  <2> QED
    BY <1>7, <2>2, <2>5, <2>8, <2>9
<1>13. CASE BotInfo(i) \/ Conclude(i) \/ CancelWait(i)
  <2>1. CASE BotInfo(i)
    <3> DEFINE d == Concluded(i, "valid")
    <3>1. check' = [check EXCEPT ![i] = d] /\ UNCHANGED <<quality, faults>>
          /\ c.step = "ask" /\ quality[i] # "refused"
      BY <2>1 DEF BotInfo, CheckAt
    <3>2. d.step = "done" /\ d.held = "none" /\ d.verdict = "valid" /\ d.seen = c.seen /\ d \in Checks
      BY <1>2 DEF Concluded, Checks, CheckSteps, Errors
    <3>3. CallInv(d, quality[i])
      BY <3>2 DEF CallInv
    <3>4. "good" \in c.seen
      BY <1>2, <3>1 DEF CallInv, Qualities
    <3> HIDE DEF d
    <3> QED
      BY <1>2, <3>1, <3>2, <3>3, <3>4, OneCheck
  <2> DEFINE v == IF IsCredentialRejected(c.error) THEN "rejected" ELSE "failed"
  <2>2. CASE Conclude(i)
    <3> DEFINE d == Concluded(i, v)
    <3>1. /\ check' = [check EXCEPT ![i] = d] /\ UNCHANGED <<quality, faults>>
          /\ c.step = "failed" /\ GivesUp(i)
      BY <2>2 DEF Conclude, CheckAt
    <3>2. /\ d.step = "done" /\ d.held = "none" /\ d.verdict = v /\ d.seen = c.seen
          /\ d.troubles = c.troubles /\ d.fatal = c.fatal
      BY <1>2 DEF Concluded, Checks
    <3>3. v \in {"rejected", "failed"}
      OBVIOUS
    <3>4. d \in Checks
      BY <1>2, <3>3 DEF Concluded, Checks, CheckSteps, Errors
    <3>5. v = "failed" => c.troubles = Attempts \/ c.fatal
      BY <1>2, <3>1 DEF CallInv, GivesUp
    <3>6. v = "rejected" => c.seen \cap {"refused", "incomplete"} # {}
      BY <1>2, <3>1 DEF CallInv
    <3>7. CallInv(d, quality[i])
      BY <3>2 DEF CallInv
    <3> HIDE DEF d, v
    <3> QED
      BY <1>2, <3>1, <3>2, <3>3, <3>4, <3>5, <3>6, <3>7, OneCheck
  <2>3. CASE CancelWait(i)
    <3> DEFINE d == [Concluded(i, "failed") EXCEPT !.fatal = TRUE]
    <3>1. check' = [check EXCEPT ![i] = d] /\ quality' = quality
          /\ faults' \in 0..MaxFaults
      BY <1>4, <2>3 DEF CancelWait
    <3>2. d.step = "done" /\ d.held = "none" /\ d.verdict = "failed" /\ d.fatal /\ d \in Checks
      BY <1>2 DEF Concluded, Checks, CheckSteps, Errors
    <3>3. CallInv(d, quality[i])
      BY <3>2 DEF CallInv
    <3> HIDE DEF d
    <3> QED
      BY <1>2, <3>1, <3>2, <3>3, OneCheck
  <2> QED
    BY <1>13, <2>1, <2>2, <2>3
<1> QED
  BY <1>1, <1>5, <1>6, <1>8, <1>9, <1>10, <1>11, <1>12, <1>13 DEF CheckStep

-----------------------------------------------------------------------------
(* Start                                                                   *)

Working == {"ensure", "load", "identify", "save", "link"}

\* What has to be known of a call c of Start and an account with this session
\* and this stored one that nobody has touched since c asked for the session:
\* c has stored the session; or c is at the account and has the session as the
\* gateway's answer, which is stored if it is what c loaded.
LinkInv(c, i, link, sess) ==
    i \notin c.loose =>
        /\ c.step = "started" \/ (c.step \in Working /\ i < c.at) => link = sess
        /\ c.at = i /\ c.step \in Working \ {"ensure"} => c.answer = sess
        /\ /\ c.at = i /\ c.step \in Working \ {"ensure", "load"}
           /\ c.copy.link = sess
           => link = sess

StartCallOK(c) == c \in StartCalls /\ (c.step \in Working => c.at \in Candidates)

StartInv ==
    /\ StartTypeOK
    /\ FaultsTypeOK
    /\ \A i \in Candidates : session[i] # 0
    /\ \A s \in Starts : StartCallOK(start[s])
    /\ \A s \in Starts : \A i \in Candidates :
           LinkInv(start[s], i, store[i].link, session[i])

LEMMA CandidatesPositive == Candidates \subseteq Nat \ {0}
BY RuntimeAssumption DEF Candidates

LEMMA StartInvInit ==
    ASSUME StartInit, FaultsInit
    PROVE  StartInv
<1>1. IdleStart \in StartCalls /\ IdleStart.step = "idle"
  BY DEF IdleStart, StartCalls, StartSteps, NoState, States
<1>2. NoState \in States /\ IdleWriter \in [at : {0} \cup Candidates, copy : States]
  BY DEF NoState, States, IdleWriter
<1>3. StartTypeOK
  BY <1>1, <1>2 DEF StartInit, StartTypeOK
<1>4. FaultsTypeOK
  BY FaultsAssumption DEF FaultsInit, FaultsTypeOK
<1>5. \A s \in Starts : start[s] = IdleStart
  BY DEF StartInit
<1>6. \A i \in Candidates : session[i] # 0
  BY DEF StartInit
<1> QED
  BY <1>1, <1>3, <1>4, <1>5, <1>6 DEF StartInv, StartCallOK, LinkInv, Working

LEMMA StartInvImplies ==
    ASSUME StartInv
    PROVE  StartedIsLinked
BY DEF StartInv, StartedIsLinked, StartAt, LinkInv

\* The call that goes on after account k has dealt with the accounts up to k.
LEMMA OnwardInv ==
    ASSUME StartInv, NEW s \in Starts, NEW k \in {0} \cup Candidates,
           NEW next \in Onward(s, k), NEW links,
           \A i \in Candidates :
               i \notin start[s].loose /\ i <= k => links[i] = session[i]
    PROVE  StartCallOK(next)
           /\ \A i \in Candidates : LinkInv(next, i, links[i], session[i])
<1>1. start[s] \in StartCalls
  BY DEF StartInv, StartTypeOK
<1>2. CASE Following(k) = {}
  <2>1. next = [start[s] EXCEPT !.step = "started", !.at = 0]
    BY <1>2 DEF Onward
  <2>2. next \in StartCalls /\ next.step = "started" /\ next.loose = start[s].loose
        /\ next.at = 0
    BY <1>1, <2>1 DEF StartCalls, StartSteps
  <2>3. \A i \in Candidates : i <= k
    BY <1>2, CandidatesPositive DEF Following
  <2> QED
    BY <2>2, <2>3, CandidatesPositive DEF StartCallOK, LinkInv, Working
<1>3. CASE Following(k) # {}
  <2>1. PICK j \in Earliest(Following(k)) :
            next = [start[s] EXCEPT !.step = "ensure", !.at = j]
    BY <1>3 DEF Onward
  <2>2. j \in Candidates /\ \A i \in Candidates : i < j => i <= k
    BY <2>1, CandidatesPositive DEF Earliest, Following
  <2>3. next \in StartCalls /\ next.step = "ensure" /\ next.loose = start[s].loose
        /\ next.at = j
    BY <1>1, <2>1, <2>2 DEF StartCalls, StartSteps
  <2> QED
    BY <2>2, <2>3, CandidatesPositive DEF StartCallOK, LinkInv, Working
<1> QED
  BY <1>2, <1>3

\* A step of one call that saves nothing.
LEMMA LocalStep ==
    ASSUME StartInv, NEW s \in Starts, NEW c,
           start' = [start EXCEPT ![s] = c],
           UNCHANGED <<session, store, writer>>, faults' \in 0..MaxFaults,
           StartCallOK(c),
           \A i \in Candidates : LinkInv(c, i, store[i].link, session[i])
    PROVE  StartInv'
<1>1. StartTypeOK' /\ FaultsTypeOK'
  BY DEF StartInv, StartTypeOK, FaultsTypeOK, StartCallOK
<1>2. \A t \in Starts : start'[t] = IF t = s THEN c ELSE start[t]
  BY DEF StartInv, StartTypeOK
<1> QED
  BY <1>1, <1>2 DEF StartInv

\* New contents of the state of account i, not by call t.
LEMMA OthersLinked ==
    ASSUME StartInv, NEW i \in Candidates, NEW new \in States, NEW t \in Starts,
           store' = [store EXCEPT ![i] = new], session' = session
    PROVE  /\ StartCallOK(Loosened(i, new)[t])
           /\ \A j \in Candidates :
                  LinkInv(Loosened(i, new)[t], j, store'[j].link, session'[j])
<1>1. /\ start[t] \in StartCalls /\ StartCallOK(start[t])
      /\ store' \in [Candidates -> States]
      /\ \A j \in Candidates : store'[j] = IF j = i THEN new ELSE store[j]
      /\ \A j \in Candidates : LinkInv(start[t], j, store[j].link, session[j])
  BY DEF StartInv, StartTypeOK
<1>2. CASE new.link = session[i]
  <2>1. Loosened(i, new)[t] = start[t]
    BY <1>2 DEF Loosened
  <2> QED
    BY <1>1, <1>2, <2>1 DEF LinkInv
<1>3. CASE new.link # session[i]
  <2> DEFINE d == [start[t] EXCEPT !.loose = @ \cup {i}]
  <2>1. Loosened(i, new)[t] = d
    BY <1>3 DEF Loosened
  <2>2. /\ d \in StartCalls /\ d.step = start[t].step /\ d.at = start[t].at
        /\ d.answer = start[t].answer /\ d.copy = start[t].copy
        /\ d.loose = start[t].loose \cup {i}
    BY <1>1 DEF StartCalls
  <2> HIDE DEF d
  <2> QED
    BY <1>1, <2>1, <2>2 DEF LinkInv, StartCallOK
<1> QED
  BY <1>2, <1>3

\* A save by a call of Start, which goes on as next.
LEMMA SaveStep ==
    ASSUME StartInv, NEW s \in Starts, start[s].at \in Candidates,
           NEW new \in States, NEW next,
           SaveBy(s, new, next), UNCHANGED <<session, writer>>,
           faults' \in 0..MaxFaults,
           StartCallOK(next),
           \A i \in Candidates : LinkInv(next, i, store'[i].link, session[i])
    PROVE  StartInv'
<1> DEFINE i == start[s].at
<1>1. /\ store' = [store EXCEPT ![i] = new]
      /\ start' = [Loosened(i, new) EXCEPT ![s] = next]
  BY DEF SaveBy
<1>2. \A t \in Starts : start'[t] = IF t = s THEN next ELSE Loosened(i, new)[t]
  BY <1>1 DEF Loosened
<1>3. \A t \in Starts :
          /\ StartCallOK(start'[t])
          /\ \A j \in Candidates : LinkInv(start'[t], j, store'[j].link, session'[j])
  BY <1>1, <1>2, OthersLinked
<1>4. StartTypeOK' /\ FaultsTypeOK'
  <2>1. start' \in [Starts -> StartCalls]
    BY <1>1, <1>3 DEF Loosened, StartCallOK
  <2> QED
    BY <1>1, <2>1 DEF StartInv, StartTypeOK, FaultsTypeOK
<1> QED
  BY <1>3, <1>4 DEF StartInv

LEMMA StartInvNext ==
    ASSUME StartInv, StartNext
    PROVE  StartInv'
<1>1. /\ session \in [Candidates -> Nat] /\ store \in [Candidates -> States]
      /\ start \in [Starts -> StartCalls] /\ faults \in 0..MaxFaults
      /\ writer \in [Writers -> [at : {0} \cup Candidates, copy : States]]
      /\ \A s \in Starts : start[s] \in StartCalls /\ StartCallOK(start[s])
      /\ \A s \in Starts : \A i \in Candidates :
             LinkInv(start[s], i, store[i].link, session[i])
      /\ \A i \in Candidates : session[i] # 0
  BY DEF StartInv, StartTypeOK, FaultsTypeOK
<1>2. ASSUME Fault
      PROVE  faults' \in 0..MaxFaults
  BY <1>1, <1>2, FaultsAssumption DEF Fault
<1>3. /\ StartCallOK(IdleStart)
      /\ \A i \in Candidates : LinkInv(IdleStart, i, store[i].link, session[i])
      /\ \A i \in Candidates : LinkInv(IdleStart, i, store'[i].link, session[i])
  BY DEF IdleStart, StartCallOK, StartCalls, StartSteps, NoState, States, LinkInv,
         Working
<1>4. ASSUME NEW s \in Starts,
             StartFails(s) \/ Restart(s) \/ Begin(s)
      PROVE  StartInv'
  <2>1. CASE StartFails(s) \/ Restart(s)
    BY <1>2, <1>3, <2>1, LocalStep DEF StartFails, Restart
  <2>2. CASE Begin(s)
    <3> DEFINE d == [IdleStart EXCEPT !.step = "channel"]
    <3>1. StartCallOK(d) /\ \A i \in Candidates : LinkInv(d, i, store[i].link, session[i])
      BY DEF IdleStart, StartCallOK, StartCalls, StartSteps, NoState, States, LinkInv,
             Working
    <3> HIDE DEF d
    <3> QED
      BY <1>1, <2>2, <3>1, LocalStep DEF Begin, d
  <2> QED
    BY <1>4, <2>1, <2>2
<1>5. ASSUME NEW s \in Starts, EnsureChannel(s) \/ KeepLink(s)
      PROVE  StartInv'
  <2>1. CASE EnsureChannel(s)
    <3>1. PICK next \in Onward(s, 0) : start' = [start EXCEPT ![s] = next]
      BY <2>1 DEF EnsureChannel
    <3>2. \A i \in Candidates : ~(i <= 0)
      BY CandidatesPositive
    <3>3. StartCallOK(next)
          /\ \A i \in Candidates : LinkInv(next, i, store[i].link, session[i])
      <4> DEFINE links == [i \in Candidates |-> store[i].link]
      <4>1. /\ StartCallOK(next)
            /\ \A i \in Candidates : LinkInv(next, i, links[i], session[i])
        BY <3>1, <3>2, OnwardInv
      <4> QED
        BY <4>1
    <3> QED
      BY <1>1, <2>1, <3>1, <3>3, LocalStep DEF EnsureChannel
  <2>2. CASE KeepLink(s)
    <3> DEFINE k == start[s].at
    <3>1. PICK next \in Onward(s, k) : start' = [start EXCEPT ![s] = next]
      BY <2>2 DEF KeepLink
    <3>2. start[s].step = "link" /\ start[s].copy.link = start[s].answer /\ k \in Candidates
      BY <1>1, <2>2 DEF KeepLink, StartAt, UpToDate, StartCallOK, Working
    <3>3. \A i \in Candidates :
              i \notin start[s].loose /\ i <= k => store[i].link = session[i]
      <4> SUFFICES ASSUME NEW i \in Candidates, i \notin start[s].loose, i <= k
                   PROVE  store[i].link = session[i]
        OBVIOUS
      <4>1. LinkInv(start[s], i, store[i].link, session[i])
        BY <1>1
      <4>2. CASE i = k
        BY <3>2, <4>1, <4>2 DEF LinkInv, Working
      <4>3. CASE i < k
        BY <3>2, <4>1, <4>3 DEF LinkInv, Working
      <4>4. i \in Nat /\ k \in Nat
        BY <3>2, CandidatesPositive
      <4>5. i = k \/ i < k
        BY <4>4
      <4> QED
        BY <4>2, <4>3, <4>5
    <3>4. StartCallOK(next)
          /\ \A i \in Candidates : LinkInv(next, i, store[i].link, session[i])
      <4> DEFINE links == [i \in Candidates |-> store[i].link]
      <4>1. /\ StartCallOK(next)
            /\ \A i \in Candidates : LinkInv(next, i, links[i], session[i])
        BY <3>1, <3>2, <3>3, OnwardInv
      <4> QED
        BY <4>1
    <3> QED
      BY <1>1, <2>2, <3>1, <3>4, LocalStep DEF KeepLink
  <2> QED
    BY <1>5, <2>1, <2>2
<1>6. ASSUME NEW s \in Starts,
             \/ EnsureChannelLinkSession(s) \/ LoadAccount(s) \/ UseKnownIdentity(s)
             \/ FetchIdentity(s) \/ ProceedWithName(s)
      PROVE  StartInv'
  <2> DEFINE c == start[s]
             k == c.at
  <2>1. c \in StartCalls /\ (c.step \in Working => k \in Candidates)
        /\ \A i \in Candidates : LinkInv(c, i, store[i].link, session[i])
    BY <1>1 DEF StartCallOK
  <2>2. CASE EnsureChannelLinkSession(s)
    <3> DEFINE d == [c EXCEPT !.step = "load", !.answer = session[k], !.loose = @ \ {k}]
    <3>1. start' = [start EXCEPT ![s] = d] /\ c.step = "ensure" /\ k \in Candidates
      BY <2>1, <2>2 DEF EnsureChannelLinkSession, StartAt, Working
    <3>2. /\ d \in StartCalls /\ d.step = "load" /\ d.at = k /\ d.answer = session[k]
          /\ d.loose = c.loose \ {k}
      BY <1>1, <2>1, <3>1 DEF StartCalls, StartSteps
    <3> HIDE DEF d
    <3>3. StartCallOK(d) /\ \A i \in Candidates : LinkInv(d, i, store[i].link, session[i])
      BY <2>1, <3>1, <3>2, CandidatesPositive DEF StartCallOK, LinkInv, Working
    <3> QED
      BY <1>1, <2>2, <3>1, <3>3, LocalStep DEF EnsureChannelLinkSession
  <2>3. CASE LoadAccount(s)
    <3> DEFINE d == [c EXCEPT !.step = "identify", !.copy = Loaded(k)]
    <3>1. start' = [start EXCEPT ![s] = d] /\ c.step = "load" /\ k \in Candidates
      BY <2>1, <2>3 DEF LoadAccount, StartAt, Working
    <3>2. Loaded(k) \in States /\ (Loaded(k).link = session[k] => store[k].link = session[k])
      BY <1>1, <3>1 DEF Loaded, NoState, States
    <3>3. /\ d \in StartCalls /\ d.step = "identify" /\ d.at = k
          /\ d.answer = c.answer /\ d.loose = c.loose /\ d.copy = Loaded(k)
      BY <2>1, <3>1, <3>2 DEF StartCalls, StartSteps
    <3> HIDE DEF d
    <3>4. StartCallOK(d) /\ \A i \in Candidates : LinkInv(d, i, store[i].link, session[i])
      BY <2>1, <3>1, <3>2, <3>3, CandidatesPositive DEF StartCallOK, LinkInv, Working
    <3> QED
      BY <1>1, <2>3, <3>1, <3>4, LocalStep DEF LoadAccount
  <2>4. CASE UseKnownIdentity(s) \/ ProceedWithName(s)
    <3> DEFINE d == [c EXCEPT !.step = "link"]
    <3>1. /\ start' = [start EXCEPT ![s] = d] /\ c.step = "identify" /\ k \in Candidates
          /\ UNCHANGED <<session, store, writer>> /\ faults' \in 0..MaxFaults
      BY <1>1, <1>2, <2>1, <2>4 DEF UseKnownIdentity, ProceedWithName, StartAt, Working
    <3>2. /\ d \in StartCalls /\ d.step = "link" /\ d.at = k
          /\ d.answer = c.answer /\ d.loose = c.loose /\ d.copy = c.copy
      BY <2>1, <3>1 DEF StartCalls, StartSteps
    <3> HIDE DEF d
    <3>3. StartCallOK(d) /\ \A i \in Candidates : LinkInv(d, i, store[i].link, session[i])
      BY <2>1, <3>1, <3>2, CandidatesPositive DEF StartCallOK, LinkInv, Working
    <3> QED
      BY <3>1, <3>3, LocalStep
  <2>5. CASE FetchIdentity(s)
    <3> DEFINE d == [c EXCEPT !.step = "save", !.copy.bot = TRUE]
    <3>1. start' = [start EXCEPT ![s] = d] /\ c.step = "identify" /\ k \in Candidates
      BY <2>1, <2>5 DEF FetchIdentity, StartAt, Working
    <3>2. /\ d \in StartCalls /\ d.step = "save" /\ d.at = k
          /\ d.answer = c.answer /\ d.loose = c.loose /\ d.copy.link = c.copy.link
      BY <2>1, <3>1 DEF StartCalls, StartSteps, States
    <3> HIDE DEF d
    <3>3. StartCallOK(d) /\ \A i \in Candidates : LinkInv(d, i, store[i].link, session[i])
      BY <2>1, <3>1, <3>2, CandidatesPositive DEF StartCallOK, LinkInv, Working
    <3> QED
      BY <1>1, <2>5, <3>1, <3>3, LocalStep DEF FetchIdentity
  <2> QED
    BY <1>6, <2>2, <2>3, <2>4, <2>5
<1>7. ASSUME NEW s \in Starts, SaveIdentity(s) \/ SaveLink(s) \/ SaveThenFail(s)
      PROVE  StartInv'
  <2> DEFINE c == start[s]
             k == c.at
  <2>1. /\ c \in StartCalls /\ c.step \in {"save", "link"} /\ k \in Candidates
        /\ \A i \in Candidates : LinkInv(c, i, store[i].link, session[i])
    BY <1>1, <1>7 DEF StartCallOK, Working, SaveIdentity, SaveLink, SaveThenFail, StartAt
  <2>2. c.copy \in States /\ Linked(s) \in States /\ Linked(s).link = c.answer
    BY <2>1 DEF Linked, StartCalls, States
  <2>3. UNCHANGED <<session, writer>> /\ faults' \in 0..MaxFaults
    BY <1>1, <1>2, <1>7 DEF SaveIdentity, SaveLink, SaveThenFail
  <2>4. CASE SaveIdentity(s)
    <3> DEFINE d == [c EXCEPT !.step = "link"]
    <3>1. SaveBy(s, c.copy, d) /\ c.step = "save"
      BY <2>4 DEF SaveIdentity, StartAt
    <3>2. \A i \in Candidates : store'[i] = IF i = k THEN c.copy ELSE store[i]
      BY <1>1, <3>1 DEF SaveBy
    <3>3. /\ d \in StartCalls /\ d.step = "link" /\ d.at = k
          /\ d.answer = c.answer /\ d.loose = c.loose /\ d.copy = c.copy
      BY <2>1 DEF StartCalls, StartSteps
    <3> HIDE DEF d
    <3>4. StartCallOK(d) /\ \A i \in Candidates : LinkInv(d, i, store'[i].link, session[i])
      BY <2>1, <3>1, <3>2, <3>3, CandidatesPositive DEF StartCallOK, LinkInv, Working
    <3> QED
      BY <2>1, <2>2, <2>3, <3>1, <3>4, SaveStep
  <2>5. CASE SaveLink(s)
    <3>1. PICK next \in Onward(s, k) : SaveBy(s, Linked(s), next)
      BY <2>5 DEF SaveLink
    <3>2. \A i \in Candidates : store'[i] = IF i = k THEN Linked(s) ELSE store[i]
      BY <1>1, <3>1 DEF SaveBy
    <3>3. c.step = "link"
      BY <2>5 DEF SaveLink, StartAt
    <3>4. \A i \in Candidates :
              i \notin c.loose /\ i <= k => store'[i].link = session[i]
      <4> SUFFICES ASSUME NEW i \in Candidates, i \notin c.loose, i <= k
                   PROVE  store'[i].link = session[i]
        OBVIOUS
      <4>1. LinkInv(c, i, store[i].link, session[i])
        BY <2>1
      <4>2. CASE i = k
        BY <2>2, <3>2, <3>3, <4>1, <4>2 DEF LinkInv, Working
      <4>3. CASE i < k /\ i # k
        BY <3>2, <3>3, <4>1, <4>3 DEF LinkInv, Working
      <4>4. i \in Nat /\ k \in Nat
        BY <2>1, CandidatesPositive
      <4>5. i = k \/ (i < k /\ i # k)
        BY <4>4
      <4> QED
        BY <4>2, <4>3, <4>5
    <3>5. StartCallOK(next)
          /\ \A i \in Candidates : LinkInv(next, i, store'[i].link, session[i])
      <4> DEFINE links == [i \in Candidates |-> store'[i].link]
      <4>1. /\ StartCallOK(next)
            /\ \A i \in Candidates : LinkInv(next, i, links[i], session[i])
        BY <2>1, <3>1, <3>4, OnwardInv
      <4> QED
        BY <4>1
    <3> QED
      BY <2>1, <2>2, <2>3, <3>1, <3>5, SaveStep
  <2>6. CASE SaveThenFail(s)
    <3>1. \/ SaveBy(s, c.copy, IdleStart)
          \/ SaveBy(s, Linked(s), IdleStart)
      BY <2>6 DEF SaveThenFail
    <3> QED
      BY <1>3, <2>1, <2>2, <2>3, <3>1, SaveStep
  <2> QED
    BY <1>7, <2>4, <2>5, <2>6
<1>8. ASSUME NEW i \in Candidates, ReplaceSession(i)
      PROVE  StartInv'
  <2>1. /\ session' = [session EXCEPT ![i] = @ + 1]
        /\ start' = [s \in Starts |-> [start[s] EXCEPT !.loose = @ \cup {i}]]
        /\ UNCHANGED <<store, writer>> /\ faults' \in 0..MaxFaults
    BY <1>2, <1>8 DEF ReplaceSession
  <2>2. /\ session' \in [Candidates -> Nat]
        /\ \A j \in Candidates : session'[j] # 0 /\ (j # i => session'[j] = session[j])
    BY <1>1, <2>1
  <2>3. ASSUME NEW s \in Starts
        PROVE  /\ StartCallOK(start'[s])
               /\ \A j \in Candidates : LinkInv(start'[s], j, store[j].link, session'[j])
    <3> DEFINE d == [start[s] EXCEPT !.loose = @ \cup {i}]
    <3>1. start'[s] = d /\ start[s] \in StartCalls
      BY <1>1, <2>1
    <3>2. /\ d \in StartCalls /\ d.step = start[s].step /\ d.at = start[s].at
          /\ d.answer = start[s].answer /\ d.copy = start[s].copy
          /\ d.loose = start[s].loose \cup {i}
      BY <3>1 DEF StartCalls
    <3> HIDE DEF d
    <3> QED
      BY <1>1, <2>2, <3>1, <3>2 DEF LinkInv, StartCallOK
  <2>4. start' \in [Starts -> StartCalls]
    BY <2>1, <2>3 DEF StartCallOK
  <2> QED
    BY <1>1, <2>1, <2>2, <2>3, <2>4 DEF StartInv, StartTypeOK, FaultsTypeOK
<1>9. ASSUME NEW w \in Writers, WriterSaves(w)
      PROVE  StartInv'
  <2> DEFINE i == writer[w].at
             new == writer[w].copy
  <2>1. i \in Candidates /\ new \in States
    BY <1>1, <1>9 DEF WriterSaves
  <2>2. /\ store' = [store EXCEPT ![i] = new] /\ start' = Loosened(i, new)
        /\ writer' = [writer EXCEPT ![w] = IdleWriter]
        /\ UNCHANGED <<session, faults>>
    BY <1>9 DEF WriterSaves
  <2>3. \A t \in Starts :
            /\ StartCallOK(start'[t])
            /\ \A j \in Candidates : LinkInv(start'[t], j, store'[j].link, session'[j])
    BY <2>1, <2>2, OthersLinked
  <2>4. start' \in [Starts -> StartCalls]
    BY <2>2, <2>3 DEF Loosened, StartCallOK
  <2>5. IdleWriter \in [at : {0} \cup Candidates, copy : States]
    BY DEF IdleWriter, NoState, States
  <2> QED
    BY <1>1, <2>1, <2>2, <2>3, <2>4, <2>5 DEF StartInv, StartTypeOK, FaultsTypeOK
<1>10. ASSUME NEW w \in Writers, NEW i \in Candidates, WriterLoads(w, i)
       PROVE  StartInv'
  <2>1. Loaded(i) \in States
    BY <1>1 DEF StartInv, StartTypeOK, Loaded, NoState, States
  <2> QED
    BY <1>1, <1>2, <1>10, <2>1 DEF WriterLoads, StartInv, StartTypeOK, FaultsTypeOK
<1> QED
  BY <1>4, <1>5, <1>6, <1>7, <1>8, <1>9, <1>10 DEF StartNext, StartStep

-----------------------------------------------------------------------------
(* The connector's life                                                    *)

LifecycleInv == phase \in Phases /\ ValidationInv /\ StartInv /\ InteractionInv

\* What one part does is nothing to the others but a fault less to come.
LEMMA Frames ==
    ASSUME FaultsTypeOK'
    PROVE  /\ ValidationInv /\ UNCHANGED <<quality, check>> => ValidationInv'
           /\ StartInv /\ UNCHANGED <<session, store, start, writer>> => StartInv'
           /\ InteractionInv /\ UNCHANGED <<host, chat, send, click, decision>>
                  => InteractionInv'
<1>1. ASSUME ValidationInv, UNCHANGED <<quality, check>>
      PROVE  ValidationInv'
  BY <1>1 DEF ValidationInv, ValidationTypeOK, VerdictIsThePlatforms
<1>2. ASSUME StartInv, UNCHANGED <<session, store, start, writer>>
      PROVE  StartInv'
  BY <1>2 DEF StartInv, StartTypeOK
<1>3. ASSUME InteractionInv, UNCHANGED <<host, chat, send, click, decision>>
      PROVE  InteractionInv'
  <2>1. SendInv' /\ HostInv' /\ ChatInv' /\ ClickInv' /\ DecidedAsSeen'
    BY <1>3, SendInvKept, ClickInvKept
  <2>2. InteractionTypeOK'
    BY <1>3 DEF InteractionInv, InteractionTypeOK
  <2> QED
    BY <2>1, <2>2 DEF InteractionInv
<1> QED
  BY <1>1, <1>2, <1>3

\* The phases hand over calls that have ended.
LEMMA HandOver ==
    /\ ValidationInv /\ BeginStart => ValidationInv'
    /\ StartInv /\ GoLive => StartInv'
<1>1. ASSUME ValidationInv, BeginStart
      PROVE  ValidationInv'
  <2> DEFINE c == NewCheck("idle", FALSE, {})
  <2>1. /\ check' = [i \in Candidates |-> c] /\ UNCHANGED <<faults, quality>>
    BY <1>1 DEF BeginStart
  <2>2. c \in Checks /\ c.step = "idle" /\ c.verdict = "none" /\ c.held = "none"
    BY NewCheckType DEF NewCheck, CheckSteps
  <2> HIDE DEF c
  <2> QED
    BY <1>1, <2>1, <2>2
       DEF ValidationInv, ValidationTypeOK, FaultsTypeOK, VerdictIsThePlatforms, CallInv
<1>2. ASSUME StartInv, GoLive
      PROVE  StartInv'
  <2>1. /\ start' = [s \in Starts |-> IdleStart]
        /\ UNCHANGED <<faults, session, store, writer>>
    BY <1>2 DEF GoLive
  <2>2. IdleStart \in StartCalls /\ IdleStart.step = "idle"
    BY DEF IdleStart, StartCalls, StartSteps, NoState, States
  <2> HIDE DEF IdleStart
  <2> QED
    BY <1>2, <2>1, <2>2
       DEF StartInv, StartTypeOK, FaultsTypeOK, StartCallOK, LinkInv, Working
<1> QED
  BY <1>1, <1>2

LEMMA LifecycleInvInit ==
    ASSUME Init
    PROVE  LifecycleInv
BY ValidationInvInit, StartInvInit, InteractionInvInit DEF Init, LifecycleInv, Phases

LEMMA LifecycleInvNext ==
    ASSUME LifecycleInv, [Next]_vars
    PROVE  LifecycleInv'
<1> USE DEF LifecycleInv
<1>1. CASE Validate
  <2>1. /\ ValidationInv' /\ phase' \in Phases
        /\ UNCHANGED <<session, store, start, writer, host, chat, send, click, decision>>
    BY <1>1, ValidationInvNext DEF Validate
  <2> QED
    BY <2>1, Frames DEF ValidationInv
<1>2. CASE BeginStart
  <2>1. /\ UNCHANGED <<faults, session, store, start, writer, host, chat, send, click,
                       decision>>
        /\ phase' \in Phases /\ ValidationInv'
    BY <1>2, HandOver DEF BeginStart, Phases
  <2> QED
    BY <2>1, Frames DEF ValidationInv
<1>3. CASE StartConnector
  <2>1. /\ StartInv' /\ phase' \in Phases
        /\ UNCHANGED <<quality, check, host, chat, send, click, decision>>
    BY <1>3, StartInvNext DEF StartConnector
  <2> QED
    BY <2>1, Frames DEF StartInv
<1>4. CASE GoLive
  <2>1. /\ UNCHANGED <<faults, quality, check, host, chat, send, click, decision>>
        /\ phase' \in Phases /\ StartInv'
    BY <1>4, HandOver DEF GoLive, Phases
  <2> QED
    BY <2>1, Frames DEF StartInv
<1>5. CASE Interact
  <2>1. /\ InteractionInv' /\ phase' \in Phases
        /\ UNCHANGED <<quality, check, session, store, start, writer>>
    BY <1>5, InteractionInvNext DEF Interact
  <2> QED
    BY <2>1, Frames DEF InteractionInv
<1>6. CASE Rest \/ UNCHANGED vars
  <2>1. UNCHANGED <<phase, faults, quality, check, session, store, start, writer,
                    host, chat, send, click, decision>>
    BY <1>6 DEF Rest, vars
  <2>2. FaultsTypeOK'
    BY <2>1 DEF ValidationInv, FaultsTypeOK
  <2> QED
    BY <2>1, <2>2, Frames
<1> QED
  BY <1>1, <1>2, <1>3, <1>4, <1>5, <1>6 DEF Next

LEMMA LifecycleInvariant == Spec => []LifecycleInv
<1>1. Init => LifecycleInv
  BY LifecycleInvInit
<1>2. LifecycleInv /\ [Next]_vars => LifecycleInv'
  BY LifecycleInvNext
<1> QED
  BY <1>1, <1>2, PTL DEF Spec, SafetySpec

\* Every variable has its type throughout the connector's life
\* (src/connector.go, src/interaction.go).
THEOREM LifecycleTypes == Spec => []TypeOK
<1>1. LifecycleInv => TypeOK
  BY DEF LifecycleInv, ValidationInv, StartInv, InteractionInv, TypeOK
<1> QED
  BY <1>1, LifecycleInvariant, PTL

\* ValidateCredential tells the host what the platform thought of the
\* credential during the call (src/connector.go, validateLarkCredential).
THEOREM VerdictsAreThePlatforms == Spec => []VerdictIsThePlatforms
<1>1. LifecycleInv => VerdictIsThePlatforms
  BY DEF LifecycleInv, ValidationInv
<1> QED
  BY <1>1, LifecycleInvariant, PTL

\* Start without an error leaves every account with the gateway's session
\* (src/connector.go, Start and ensureLarkBotIdentity).
THEOREM StartLinks == Spec => []StartedIsLinked
<1>1. LifecycleInv => StartedIsLinked
  BY StartInvImplies DEF LifecycleInv
<1> QED
  BY <1>1, LifecycleInvariant, PTL

\* The host decides only what the requester saw and pressed
\* (src/internal/lark/interaction.go, src/interaction.go).
THEOREM DecisionsAreAsSeen == Spec => []DecidedAsSeen
<1>1. LifecycleInv => DecidedAsSeen
  BY InteractionInvImplies DEF LifecycleInv
<1> QED
  BY <1>1, LifecycleInvariant, PTL

\* The toast that answers a click says what became of it
\* (src/interaction.go, processLarkInteraction).
THEOREM ToastsAreTrue == Spec => []ToastIsTrue
<1>1. LifecycleInv => ToastIsTrue
  BY InteractionInvImplies DEF LifecycleInv
<1> QED
  BY <1>1, LifecycleInvariant, PTL

\* A card that Send reported as sent is the one the chat shows
\* (src/interaction.go, sendLarkInteraction).
THEOREM SuccessesAreShown == Spec => []SuccessIsShown
<1>1. LifecycleInv => SuccessIsShown
  BY InteractionInvImplies DEF LifecycleInv
<1> QED
  BY <1>1, LifecycleInvariant, PTL
=============================================================================
