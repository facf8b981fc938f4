----------------------------- MODULE Interaction -----------------------------
(***************************************************************************)
(* Interactive cards (interaction.go, sdk/interaction.go, internal/lark/): *)
(* the host sends a request as a card and updates it in place; a member    *)
(* clicks a button; the connector turns the click into an action for the   *)
(* host and its outcome into a toast.  The connector keeps no state: what a*)
(* click means is in the reference that the button carries.                *)
(*                                                                         *)
(* External are the host (a request with its revision and state; it decides*)
(* once, for the requester and the current revision only) and the platform *)
(* (messages, a new one once per uuid; clicks, delivered again until       *)
(* answered).  Every call may fail before or after it took effect.         *)
(*                                                                         *)
(* A rendered card is the text it shows (named by request and revision),   *)
(* its status, its buttons and its form; wording, layout and language are  *)
(* left out.                                                               *)
(***************************************************************************)
EXTENDS RuntimeAccounts, Faults, Sequences

CONSTANTS
    Requests,      \* what the host asks for (see InteractionAssumption)
    Members,       \* people in the chat
    Sends,         \* places for concurrent calls of Send, the lowest taken first
    Clicks,        \* places for concurrent clicks, likewise
    MaxMessages    \* bound on the messages of the chat

Actions == {"approve", "reject", "revise", "submit"}

\* account: the AccountUUID of its messages; actions: the buttons while it is
\* pending; form: a plan with feedback enabled; inputs: it has input fields;
\* revisions: bound on its revisions.
ASSUME InteractionAssumption ==
    /\ IsFiniteSet(Requests)
    /\ \A q \in Requests : /\ q.actions \subseteq Actions
                           /\ {q.form, q.inputs} \subseteq BOOLEAN
                           /\ q.requester \in Members
                           /\ q.revisions \in Nat \ {0}
    /\ {Sends, Clicks} \subseteq SUBSET Nat
    /\ MaxMessages \in Nat

VARIABLES
    host,     \* each request, as the host keeps it
    chat,     \* the messages in the chat, in the order of their ids
    send,     \* what each call of Send is doing
    click,    \* what becomes of each click
    decision  \* the last decision on each request, with the click it came from

interactionVars == <<host, chat, send, click, decision, faults>>

NoMessage == 0

\* "revised" is the wire state rejected with decision_action "revise".
RequestStates == {"pending", "approved", "rejected", "revised", "canceled"}

\* The card the host has for a request; a settled one has no actions.
Cards ==
    UNION {[request : {q}, revision : 1..q.revisions, state : RequestStates] :
               q \in Requests}
Card(q) == [request |-> q, revision |-> host[q].revision, state |-> host[q].state]
CardActions(card) == IF card.state = "pending" THEN card.request.actions ELSE {}

-----------------------------------------------------------------------------
(* References and rendering                                                *)

\* Mutant of Token: the reference names the request and the action only.
TokenOfRequest(card, action) == <<card.request, 0, action>>

\* InteractionAction.Token: what a button carries.
Token(card, action) == <<card.request, card.revision, action>>

\* ParseInteractionToken.
ParseToken(token) ==
    [request |-> token[1], revision |-> token[2], action |-> token[3]]

\* A button as seen (its label) and as sent back (its token).
Button(card, action) == [label |-> action, token |-> Token(card, action)]

\* A plan's revise button submits a form, if feedback is on.
InForm(card, action) == action = "revise" /\ card.request.form

\* renderInteraction: what the members see.
Render(card) ==
    [text |-> <<card.request, card.revision>>,
     status |-> card.state,
     buttons |-> {Button(card, a) : a \in {b \in CardActions(card) : ~InForm(card, b)}},
     form |-> {Button(card, a) : a \in {b \in CardActions(card) : InForm(card, b)}}]

-----------------------------------------------------------------------------
(* Types                                                                   *)

Renderings == {Render(card) : card \in Cards}
Buttons == {Button(card, a) : card \in Cards, a \in Actions}

Idle == [step |-> "idle"]

\* to: the MessageID of the card; from: the account; alone: no other call for
\* the request ran meanwhile; id: the message in the platform's answer.
SendCalls ==
    [step : {"sending", "sent"}, card : Cards, to : 0..MaxMessages,
     from : Candidates, alone : BOOLEAN, id : 0..MaxMessages]

\* typed: what the form contained, "none" without one, "unfit" if it is blank or
\* longer than 1000 characters; accepted: the host acted on this event; toast:
\* the connector's answer to it.
ClickCalls ==
    [step : {"sent", "dispatch", "answer"}, member : Members,
     seen : Renderings, button : Buttons,
     typed : {"none", "details", "unfit"}, accepted : BOOLEAN,
     toast : {"none", "success", "warning", "error"}]

\* message: the MessageID the host has; known: every id it was given; told:
\* the card of the last call that ran alone and returned no error, until the
\* next one begins.
HostRecords ==
    [revision : Nat, state : RequestStates, message : 0..MaxMessages,
     known : SUBSET (1..MaxMessages), told : SUBSET Cards]

\* What the host is asked to do, and the click behind it.
Decisions ==
    [action : [request : Requests, revision : Nat, action : Actions,
               reason : {"none", "details", "unfit"}, actor : Members],
     click : ClickCalls]

\* A message: the account it is from, the uuid it was sent with (named by the
\* card) and what it shows.
Messages == [from : Candidates, uuid : Cards, shown : Renderings]

InteractionTypeOK ==
    /\ host \in [Requests -> HostRecords]
    /\ \A q \in Requests : host[q].revision \in 1..q.revisions
    /\ chat \in Seq(Messages) /\ Len(chat) <= MaxMessages
    /\ send \in [Sends -> SendCalls \cup {Idle}]
    /\ click \in [Clicks -> ClickCalls \cup {Idle}]
    /\ decision \in [Requests -> SUBSET Decisions]

InteractionInit ==
    /\ host = [q \in Requests |->
                  [revision |-> 1, state |-> "pending", message |-> NoMessage,
                   known |-> {}, told |-> {}]]
    /\ chat = <<>>
    /\ send = [s \in Sends |-> Idle]
    /\ click = [e \in Clicks |-> Idle]
    /\ decision = [q \in Requests |-> {}]

-----------------------------------------------------------------------------
(* The host                                                                *)

\* A revised plan is put to the requester anew; a call for it may run.
PresentRevision(q) ==
    /\ host[q].state = "revised"
    /\ host[q].revision < q.revisions
    /\ host' = [host EXCEPT ![q].revision = @ + 1, ![q].state = "pending"]
    /\ UNCHANGED <<chat, send, click, decision, faults>>

\* The request is no longer wanted.
Cancel(q) ==
    /\ host[q].state = "pending"
    /\ Fault
    /\ host' = [host EXCEPT ![q].state = "canceled"]
    /\ UNCHANGED <<chat, send, click, decision>>

-----------------------------------------------------------------------------
(* sendLarkInteraction                                                     *)

Sending(q) == {s \in Sends : send[s] # Idle /\ send[s].card.request = q}

\* The account is found and the card has no input fields, which
\* SendInteraction refuses before it asks the platform.  A call for any other
\* request is refused and changes nothing.
Sendable(q) == SelectRuntimeAccount(q.account) # {} /\ ~q.inputs

\* The host sends the card it has, unless it was told that the chat shows it.
\* As CallbackInteractionGateway has it, the host coordinates its calls for a
\* request; two that overlap are a fault, and it sends the card once more.
BeginInteraction(s, q) ==
    /\ send[s] = Idle /\ \A t \in Sends : t < s => send[t] # Idle
    /\ Sendable(q)
    /\ host[q].told # {Card(q)}
    /\ IF Sending(q) = {} THEN UNCHANGED faults
       ELSE Fault /\ host[q].message # NoMessage
    /\ \E i \in SelectRuntimeAccount(q.account) :
           send' = [t \in Sends |->
               IF t = s
               THEN [step |-> "sending", card |-> Card(q), to |-> host[q].message,
                     from |-> i, alone |-> Sending(q) = {}, id |-> NoMessage]
               ELSE IF t \in Sending(q) THEN [send[t] EXCEPT !.alone = FALSE]
               ELSE send[t]]
    /\ host' = [host EXCEPT ![q].told = {}]
    /\ UNCHANGED <<chat, click, decision>>

\* The messages that the platform created for the uuid of a card.
Created(card) == {m \in DOMAIN chat : chat[m].uuid = card}

\* Mutant of Updates: a card that was sent before is sent as a new message.
UpdatesNothing(s) == FALSE

\* card.MessageID != "": PATCH of the message instead of POST of a new one.
Updates(s) == send[s].to # NoMessage

\* POST with the host's uuid, which names the request, revision and state.
PostCard(s) ==
    /\ send[s].step = "sending"
    /\ ~Updates(s)
    /\ IF Created(send[s].card) = {}
       THEN /\ Len(chat) < MaxMessages
            /\ chat' = Append(chat, [from |-> send[s].from, uuid |-> send[s].card,
                                     shown |-> Render(send[s].card)])
            /\ send' = [send EXCEPT ![s].step = "sent", ![s].id = Len(chat) + 1]
       ELSE \E m \in Created(send[s].card) :
            /\ send' = [send EXCEPT ![s].step = "sent", ![s].id = m]
            /\ UNCHANGED chat
    /\ UNCHANGED <<host, click, decision, faults>>

\* PATCH of a message of the account's own.
PatchCard(s) ==
    /\ send[s].step = "sending"
    /\ Updates(s)
    /\ chat' = [chat EXCEPT ![send[s].to].shown = Render(send[s].card)]
    /\ send' = [send EXCEPT ![s].step = "sent", ![s].id = send[s].to]
    /\ UNCHANGED <<host, click, decision, faults>>

\* Send returns the message id to the host.
ReturnSent(s) ==
    /\ send[s].step = "sent"
    /\ host' = [host EXCEPT
           ![send[s].card.request].message = send[s].id,
           ![send[s].card.request].known = @ \cup {send[s].id},
           ![send[s].card.request].told = IF send[s].alone THEN {send[s].card} ELSE {}]
    /\ send' = [send EXCEPT ![s] = Idle]
    /\ UNCHANGED <<chat, click, decision, faults>>

\* No token, no connection, no answer, an error answer, a cancelled context.
SendFails(s) ==
    /\ send[s] # Idle
    /\ Fault
    /\ send' = [send EXCEPT ![s] = Idle]
    /\ UNCHANGED <<host, chat, click, decision>>

-----------------------------------------------------------------------------
(* Members and the platform                                                *)

Outstanding(q, member) ==
    \E e \in Clicks :
        click[e] # Idle /\ click[e].member = member /\ click[e].seen.text[1] = q

\* A member clicks a button of a message; a form is sent with what was typed.
Press(e, m, member, button, typed) ==
    /\ click[e] = Idle /\ \A f \in Clicks : f < e => click[f] # Idle
    /\ m \in DOMAIN chat
    /\ \/ button \in chat[m].shown.buttons /\ typed = "none"
       \/ button \in chat[m].shown.form /\ typed # "none"
    /\ click' = [click EXCEPT ![e] =
           [step |-> "sent", member |-> member, seen |-> chat[m].shown,
            button |-> button, typed |-> typed, accepted |-> FALSE,
            toast |-> "none"]]
    /\ UNCHANGED <<host, chat, send, decision>>

Typings == {"none", "details", "unfit"}

\* The requester answers what is current.
PressCurrent(e, q, typed) ==
    \E m \in DOMAIN chat :
        /\ chat[m].shown = Render(Card(q))
        /\ ~Outstanding(q, q.requester)
        /\ typed \in {"none", "details"}
        /\ \E b \in chat[m].shown.buttons \cup chat[m].shown.form :
               Press(e, m, q.requester, b, typed)
        /\ UNCHANGED faults

\* Somebody else, twice, something outdated, or an unfit form.
PressAnything(e, m, member, typed) ==
    /\ m \in DOMAIN chat
    /\ \E b \in chat[m].shown.buttons \cup chat[m].shown.form :
           Press(e, m, member, b, typed)
    /\ Fault

\* The answer is lost, or the handler dies: the event is delivered again.
LoseAnswer(e) ==
    /\ click[e].step \in {"dispatch", "answer"}
    /\ Fault
    /\ click' = [click EXCEPT ![e].step = "sent", ![e].toast = "none"]
    /\ UNCHANGED <<host, chat, send, decision>>

\* The platform takes the answer; the member sees the toast or an error.
TakeAnswer(e) ==
    /\ click[e].step = "answer"
    /\ click' = [click EXCEPT ![e] = Idle]
    /\ UNCHANGED <<host, chat, send, decision, faults>>

-----------------------------------------------------------------------------
(* processLarkInteraction                                                  *)

\* Mutant of Reason: the form's value does not reach the host.
ReasonDropped(e) == "none"

\* action.Inputs["reason"]
Reason(e) == click[e].typed

\* The action for the host: the reference of the button, the form's value and
\* the operator of the platform's envelope.
ActionOf(e) ==
    [request |-> ParseToken(click[e].button.token).request,
     revision |-> ParseToken(click[e].button.token).revision,
     action |-> ParseToken(click[e].button.token).action,
     reason |-> Reason(e), actor |-> click[e].member]

\* A form must be a revision's, with details of 1 to 1000 characters.
FormValid(e) ==
    click[e].typed # "none" =>
        /\ ParseToken(click[e].button.token).action = "revise"
        /\ click[e].typed = "details"

ReceiveClick(e) ==
    /\ click[e].step = "sent"
    /\ click' = [click EXCEPT ![e].step = IF FormValid(e) THEN "dispatch" ELSE "answer",
                              ![e].toast = IF FormValid(e) THEN "none" ELSE "error"]
    /\ UNCHANGED <<host, chat, send, decision, faults>>

\* Mutant of Toast: whatever the host says, the click was processed.
ToastAlwaysSuccess(outcome) == "success"

\* The toast for the host's outcome; only the requester's own mistakes are
\* errors, another member gets a warning.
Toast(outcome) ==
    CASE outcome = "done" -> "success"
      [] outcome = "actor_not_requester" -> "warning"
      [] OTHER -> "error"

\* The host decides a pending request for its requester, once per event and
\* for the revision it has.
Denied(action) == action.actor # action.request.requester

Decides(action) ==
    /\ ~Denied(action)
    /\ host[action.request].revision = action.revision
    /\ host[action.request].state = "pending"

NewState(action) ==
    CASE action = "reject" -> "rejected"
      [] action = "revise" -> "revised"
      [] OTHER -> "approved"

\* HandleInteraction takes effect.
Decide(e) ==
    LET a == ActionOf(e)
    IN  /\ host' = [host EXCEPT ![a.request].state = NewState(a.action)]
        /\ decision' = [decision EXCEPT ![a.request] =
                            {[action |-> a, click |-> click[e]]}]

Outcome(e) ==
    IF Denied(ActionOf(e)) THEN "actor_not_requester"
    ELSE IF click[e].accepted \/ Decides(ActionOf(e)) THEN "done"
    ELSE "stale"

Dispatch(e) ==
    /\ click[e].step = "dispatch"
    /\ IF ~click[e].accepted /\ Decides(ActionOf(e)) THEN Decide(e)
       ELSE UNCHANGED <<host, decision>>
    /\ click' = [click EXCEPT ![e].step = "answer",
                              ![e].accepted = Outcome(e) = "done",
                              ![e].toast = Toast(Outcome(e))]
    /\ UNCHANGED <<chat, send, faults>>

\* The host's answer does not reach the connector, whether it decided or not.
DispatchFails(e) ==
    /\ click[e].step = "dispatch"
    /\ Fault
    /\ \/ /\ ~click[e].accepted /\ Decides(ActionOf(e)) /\ Decide(e)
          /\ click' = [click EXCEPT ![e].step = "answer", ![e].accepted = TRUE,
                                    ![e].toast = Toast("failed")]
       \/ /\ click' = [click EXCEPT ![e].step = "answer", ![e].toast = Toast("failed")]
          /\ UNCHANGED <<host, decision>>
    /\ UNCHANGED <<chat, send>>

\* The host and the requester go on with a request.
RequestStep(q) ==
    \/ PresentRevision(q)
    \/ Sending(q) = {} /\ \E s \in Sends : BeginInteraction(s, q)
    \/ \E e \in Clicks, typed \in Typings : PressCurrent(e, q, typed)

SendStep(s) == PostCard(s) \/ PatchCard(s) \/ ReturnSent(s)
ClickStep(e) == ReceiveClick(e) \/ Dispatch(e) \/ TakeAnswer(e)

InteractionNext ==
    \/ \E q \in Requests :
           \/ PresentRevision(q) \/ Cancel(q)
           \/ \E s \in Sends : BeginInteraction(s, q)
           \/ \E e \in Clicks, typed \in Typings : PressCurrent(e, q, typed)
    \/ \E s \in Sends : SendStep(s) \/ SendFails(s)
    \/ \E e \in Clicks : \/ ClickStep(e) \/ LoseAnswer(e) \/ DispatchFails(e)
                         \/ \E m \in DOMAIN chat, member \in Members,
                               typed \in Typings : PressAnything(e, m, member, typed)

InteractionSpec ==
    InteractionInit /\ FaultsInit /\ [][InteractionNext]_interactionVars

-----------------------------------------------------------------------------

\* Whatever the host has decided, its requester said so: a button with that
\* label, on a message that showed this very revision as pending, with the
\* details typed there, which are not unfit.  Outdated and orphaned messages, clicks by others, at
\* once or delivered again never decide about something not seen.
DecidedAsSeen ==
    \A q \in Requests : \A d \in decision[q] :
        /\ d.action.request = q
        /\ d.click.seen.text = <<q, d.action.revision>>
        /\ d.click.seen.status = "pending"
        /\ d.click.button.label = d.action.action
        /\ d.click.typed = d.action.reason /\ d.action.reason # "unfit"
        /\ {d.click.member, d.action.actor} = {q.requester}

\* A success toast is shown only to the requester whose click the host acted
\* on, and that action was the button's; a warning only to somebody else.
ToastIsTrue ==
    \A e \in Clicks : click[e].step = "answer" =>
        LET q == click[e].seen.text[1]
        IN  /\ click[e].toast = "success" =>
                   /\ click[e].accepted
                   /\ click[e].member = q.requester
                   /\ host[q].revision > click[e].seen.text[2]
                          \/ host[q].state = NewState(click[e].button.label)
            /\ click[e].toast = "warning" => click[e].member # q.requester

\* When the call of Send for a card has returned and no other ran meanwhile,
\* every message of the request that the host knows of shows that card, in the
\* name of the account that the host asked for, or else of the only one: an
\* update reaches the message it is meant for, also after failed calls and
\* calls that overlapped.
SuccessIsShown ==
    \A q \in Requests : host[q].told # {} =>
        /\ host[q].known # {}
        /\ \A m \in host[q].known :
               /\ \A card \in host[q].told : chat[m].shown = Render(card)
               /\ IF q.account = NoId THEN Candidates = {chat[m].from}
                  ELSE q.account \in Ids(Runtime[chat[m].from])
=============================================================================
