-------------------------- MODULE ConnectorLifecycle --------------------------
(***************************************************************************)
(* The life of a connector as a host lives it: the credentials of the      *)
(* accounts are validated, Start links them, and requests are put to       *)
(* members on cards and decided.  It composes CredentialValidation,        *)
(* ConnectorStart and Interaction over the same accounts and one budget of *)
(* faults.                                                                 *)
(*                                                                         *)
(* The host goes from one to the next when it has what it waited for: all  *)
(* verdicts valid, Start without an error.  Of calls that have returned    *)
(* nothing but their effects is left then.                                 *)
(***************************************************************************)
EXTENDS CredentialValidation, ConnectorStart, Interaction

VARIABLE phase   \* what the host is doing

vars == <<phase, faults, quality, check, session, store, start, writer,
          host, chat, send, click, decision>>

Phases == {"validate", "start", "live"}

TypeOK ==
    /\ phase \in Phases
    /\ FaultsTypeOK
    /\ ValidationTypeOK
    /\ StartTypeOK
    /\ InteractionTypeOK

Init ==
    /\ phase = "validate"
    /\ FaultsInit
    /\ ValidationInit
    /\ StartInit
    /\ InteractionInit

AllValid == \A i \in Candidates : check[i].verdict = "valid"

Validate ==
    /\ phase = "validate"
    /\ ValidationNext
    /\ UNCHANGED <<phase, session, store, start, writer, host, chat, send, click,
                   decision>>

BeginStart ==
    /\ phase = "validate"
    /\ AllValid
    /\ phase' = "start"
    /\ check' = [i \in Candidates |-> NewCheck("idle", FALSE, {})]
    /\ UNCHANGED <<faults, quality, session, store, start, writer, host,
                   chat, send, click, decision>>

StartConnector ==
    /\ phase = "start"
    /\ StartNext
    /\ UNCHANGED <<phase, quality, check, host, chat, send, click, decision>>

\* No call of Start or of another operation is under way any more.
GoLive ==
    /\ phase = "start"
    /\ \A s \in Starts : StartAt(s, "started")
    /\ \A w \in Writers : writer[w] = IdleWriter
    /\ phase' = "live"
    /\ start' = [s \in Starts |-> IdleStart]
    /\ UNCHANGED <<faults, quality, check, session, store, writer, host, chat,
                   send, click, decision>>

Interact ==
    /\ phase = "live"
    /\ InteractionNext
    /\ UNCHANGED <<phase, quality, check, session, store, start, writer>>

\* The request is settled, and the chat shows it.
Settled(q) ==
    /\ host[q].state # "pending"
    /\ host[q].state = "revised" => host[q].revision = q.revisions
    /\ host[q].told = {Card(q)}

Rest ==
    /\ phase = "live"
    /\ \A q \in Requests : Sendable(q) => Settled(q)
    /\ \A s \in Sends : send[s] = Idle
    /\ \A e \in Clicks : click[e] = Idle
    /\ UNCHANGED vars

Next == Validate \/ BeginStart \/ StartConnector \/ GoLive \/ Interact \/ Rest

-----------------------------------------------------------------------------

\* Requests have a timeout, so a call that runs goes on; the host repairs and
\* validates credentials, calls Start again, saves what it loaded and sends
\* the cards it has; the requester answers what the chat shows.  Faults are
\* not fair.
Fairness ==
    /\ \A i \in Candidates :
           /\ WF_validationVars(phase = "validate" /\ Repair(i))
           /\ WF_validationVars(phase = "validate" /\ (ValidateCredential(i) \/ CheckStep(i)))
    /\ WF_vars(BeginStart)
    /\ \A s \in Starts : WF_startVars(phase = "start" /\ (Begin(s) \/ StartStep(s)))
    /\ \A w \in Writers : WF_startVars(phase = "start" /\ WriterSaves(w))
    /\ WF_vars(GoLive)
    /\ \A q \in Requests : WF_interactionVars(phase = "live" /\ RequestStep(q))
    /\ \A s \in Sends : WF_interactionVars(phase = "live" /\ SendStep(s))
    /\ \A e \in Clicks : WF_interactionVars(phase = "live" /\ ClickStep(e))

SafetySpec == Init /\ [][Next]_vars
Spec == SafetySpec /\ Fairness

-----------------------------------------------------------------------------

\* Once faults end, every request that can be sent is decided or called off in
\* the end and its message shows so: validation, Start and the cards get there
\* although each may fail at any step, because the host may call each again.
EventuallyDecided == \A q \in Requests : Sendable(q) => <>[]Settled(q)
=============================================================================
