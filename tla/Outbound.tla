------------------------------ MODULE Outbound ------------------------------
(***************************************************************************)
(* Send (connector.go) of messages with text and attachments: the text     *)
(* first, then one attachment after another, each uploaded and sent as a   *)
(* message of its own, then one notice that names those that failed.       *)
(*                                                                         *)
(* The host tries a message again until a call returns no error, and may   *)
(* start another call while the first still runs.  The platform drops a    *)
(* message whose uuid it saw within its deduplication window, and answers  *)
(* as it did before.  Every call to the platform may fail before or after  *)
(* it took effect.                                                         *)
(*                                                                         *)
(* Abstracted: rendering, targets and reply threads, the notice's wording  *)
(* (it names the attachments, or counts those past the tenth), and the     *)
(* account state that Send reads and writes (see InboundEvent).            *)
(***************************************************************************)
EXTENDS Integers, FiniteSets

CONSTANTS
    Calls,       \* concurrent calls of Send
    Requests,    \* the messages the host sends
    NoMessage,   \* the MessageUUID of a request that has none
    MaxFaults,   \* bound on failed calls to the platform and dead callers
    MaxOverlaps, \* bound on calls begun while another of the request runs
    MaxWindows   \* bound on how often the deduplication window passes

\* A request has text or not, and attachments 1..attachments, of which the
\* broken ones (empty, too large, unreadable) can never be uploaded.
ASSUME OutboundAssumption ==
    /\ IsFiniteSet(Requests)
    /\ \A r \in Requests : /\ r.text \in BOOLEAN
                           /\ r.attachments \in Nat
                           /\ r.broken \subseteq 1..r.attachments
                           /\ r.text \/ r.attachments > 0
    /\ \A r, s \in Requests :
           r.message = s.message /\ r.message # NoMessage => r = s
    /\ {MaxFaults, MaxOverlaps, MaxWindows} \subseteq Nat

VARIABLES
    call,     \* what each call of Send is doing
    visible,  \* per request and part, the messages in the chat
    window,   \* the uuids the platform remembers
    noticed,  \* per request, attachments a notice in the chat names
    reported, \* per request, failures a result with a notice error names
    done,     \* requests for which a call returned no error
    budget    \* faults, overlaps and passed windows so far

vars == <<call, visible, window, noticed, reported, done, budget>>

Attachments(r) == 1..r.attachments

Text == [kind |-> "text", index |-> 0]
Media(i) == [kind |-> "attachment", index |-> i]
Notice == [kind |-> "notice", index |-> 0]

Parts(r) == {Text, Notice} \cup {Media(i) : i \in Attachments(r)}
AllParts == UNION {Parts(r) : r \in Requests}

Steps == {"prepare", "text", "attachments", "return"}

\* next: the attachment the loop is at; id: result.MessageID is not empty;
\* noticeLost: result.Raw has an attachment_notice_error.
Idle == [step |-> "idle"]
RunningFor(r) ==
    [step : Steps, req : {r}, next : 1..(r.attachments + 1),
     sent : SUBSET Attachments(r), failed : SUBSET Attachments(r),
     id : BOOLEAN, noticeLost : BOOLEAN]
Running == UNION {RunningFor(r) : r \in Requests}

Uuids == [message : {r.message : r \in Requests} \ {NoMessage}, part : AllParts]

Budgets == {"faults", "overlaps", "windows"}

\* Types; the loop has settled every attachment before the one it is at.
TypeOK ==
    /\ call \in [Calls -> {Idle} \cup Running]
    /\ \A c \in Calls :
           call[c] # Idle =>
               /\ call[c].sent \cap call[c].failed = {}
               /\ call[c].sent \cup call[c].failed = 1..(call[c].next - 1)
    /\ visible \in [Requests -> [AllParts -> Nat]]
    /\ window \subseteq Uuids
    /\ {noticed, reported} \subseteq [Requests -> SUBSET Nat]
    /\ \A r \in Requests : noticed[r] \cup reported[r] \subseteq Attachments(r)
    /\ done \subseteq Requests
    /\ budget \in [Budgets -> Nat]

Init ==
    /\ call = [c \in Calls |-> Idle]
    /\ visible = [r \in Requests |-> [p \in AllParts |-> 0]]
    /\ window = {}
    /\ noticed = [r \in Requests |-> {}]
    /\ reported = [r \in Requests |-> {}]
    /\ done = {}
    /\ budget = [b \in Budgets |-> 0]

-----------------------------------------------------------------------------
(* Helpers                                                                 *)

Spend(what, limit) ==
    /\ budget[what] < limit
    /\ budget' = [budget EXCEPT ![what] = @ + 1]

At(c, step) == call[c] # Idle /\ call[c].step = step

Underway(r) == \E c \in Calls : call[c] # Idle /\ call[c].req = r

\* Mutant of PartUuid: an absent MessageUUID is hashed like any other.
PartUuidAlways(r, part) == {[message |-> r.message, part |-> part]}

\* Mutant of PartUuid: attachments are sent without a uuid.
PartUuidForText(r, part) ==
    IF r.message = NoMessage \/ part # Text THEN {}
    ELSE {[message |-> r.message, part |-> part]}

\* The uuid of a part: the MessageUUID itself for the text, its hash with the
\* part's name for the others, and none when the host gave no MessageUUID.
PartUuid(r, part) ==
    IF r.message = NoMessage THEN {} ELSE {[message |-> r.message, part |-> part]}

Remembered(r, part) ==
    PartUuid(r, part) # {} /\ PartUuid(r, part) \subseteq window

\* The platform accepts a message: a new one unless it remembers its uuid.
Accept(r, part) ==
    /\ window' = window \cup PartUuid(r, part)
    /\ visible' = IF Remembered(r, part) THEN visible
                  ELSE [visible EXCEPT ![r][part] = @ + 1]

\* The platform may or may not have accepted a message whose call failed.
MayAccept(r, part) == Accept(r, part) \/ UNCHANGED <<window, visible>>

-----------------------------------------------------------------------------
(* Send                                                                    *)

\* The host calls Send for a message that has not succeeded, also while
\* another call for it runs.
Begin(c, r) ==
    /\ call[c] = Idle
    /\ r \notin done
    /\ IF Underway(r) THEN Spend("overlaps", MaxOverlaps) ELSE UNCHANGED budget
    /\ call' = [call EXCEPT ![c] =
           [step |-> "prepare", req |-> r, next |-> 1, sent |-> {},
            failed |-> {}, id |-> FALSE, noticeLost |-> FALSE]]
    /\ UNCHANGED <<visible, window, noticed, reported, done>>

\* The account state is loaded, a tenant token obtained (and saved), the
\* reply target looked up.
Prepare(c) ==
    /\ At(c, "prepare")
    /\ call' = [call EXCEPT ![c].step =
                    IF call[c].req.text THEN "text" ELSE "attachments"]
    /\ UNCHANGED <<visible, window, noticed, reported, done, budget>>

PrepareFails(c) ==
    /\ At(c, "prepare")
    /\ Spend("faults", MaxFaults)
    /\ call' = [call EXCEPT ![c] = Idle]
    /\ UNCHANGED <<visible, window, noticed, reported, done>>

SendText(c) ==
    /\ At(c, "text")
    /\ Accept(call[c].req, Text)
    /\ call' = [call EXCEPT ![c].step = "attachments", ![c].id = TRUE]
    /\ UNCHANGED <<noticed, reported, done, budget>>

\* A success response without a message id: the loop goes on without one.
SendTextWithoutId(c) ==
    /\ At(c, "text")
    /\ Spend("faults", MaxFaults)
    /\ Accept(call[c].req, Text)
    /\ call' = [call EXCEPT ![c].step = "attachments"]
    /\ UNCHANGED <<noticed, reported, done>>

\* Mutant of SendTextFails: the error does not end the call.
SendTextFailsSilently(c) ==
    /\ At(c, "text")
    /\ Spend("faults", MaxFaults)
    /\ MayAccept(call[c].req, Text)
    /\ call' = [call EXCEPT ![c].step = "attachments"]
    /\ UNCHANGED <<noticed, reported, done>>

\* The text's error ends the call before any attachment.
SendTextFails(c) ==
    /\ At(c, "text")
    /\ Spend("faults", MaxFaults)
    /\ MayAccept(call[c].req, Text)
    /\ call' = [call EXCEPT ![c] = Idle]
    /\ UNCHANGED <<noticed, reported, done>>

Looping(c) == At(c, "attachments") /\ call[c].next <= call[c].req.attachments

\* The message id is recorded and the loop continues.
SentOn(c) ==
    [call[c] EXCEPT !.next = @ + 1, !.sent = @ \cup {call[c].next}, !.id = TRUE]

SendAttachment(c) ==
    /\ Looping(c)
    /\ call[c].next \notin call[c].req.broken
    /\ Accept(call[c].req, Media(call[c].next))
    /\ call' = [call EXCEPT ![c] = SentOn(c)]
    /\ UNCHANGED <<noticed, reported, done, budget>>

\* Mutant of FailedOn: a failed attachment ends the loop.
FailedOnAborting(c) ==
    [call[c] EXCEPT !.failed = @ \cup {call[c].next},
                    !.next = call[c].req.attachments + 1]

\* The failure is recorded and the loop continues.
FailedOn(c) ==
    [call[c] EXCEPT !.failed = @ \cup {call[c].next}, !.next = @ + 1]

\* The file cannot be uploaded: nothing reaches the chat.
RejectAttachment(c) ==
    /\ Looping(c)
    /\ call[c].next \in call[c].req.broken
    /\ call' = [call EXCEPT ![c] = FailedOn(c)]
    /\ UNCHANGED <<visible, window, noticed, reported, done, budget>>

\* Download, upload or send fails, or the response has no message id.
SendAttachmentFails(c) ==
    /\ Looping(c)
    /\ call[c].next \notin call[c].req.broken
    /\ Spend("faults", MaxFaults)
    /\ MayAccept(call[c].req, Media(call[c].next))
    /\ call' = [call EXCEPT ![c] = FailedOn(c)]
    /\ UNCHANGED <<noticed, reported, done>>

LoopDone(c) == At(c, "attachments") /\ call[c].next > call[c].req.attachments

\* The notice enters the chat unless its uuid is remembered.
PostNotice(c) ==
    LET r == call[c].req
    IN  /\ Accept(r, Notice)
        /\ noticed' = IF Remembered(r, Notice) THEN noticed
                      ELSE [noticed EXCEPT ![r] = @ \cup call[c].failed]

SendNotice(c) ==
    /\ LoopDone(c)
    /\ call[c].failed # {}
    /\ PostNotice(c)
    /\ call' = [call EXCEPT ![c].step = "return"]
    /\ UNCHANGED <<reported, done, budget>>

\* The notice's own failure is only recorded in the result.
SendNoticeFails(c) ==
    /\ LoopDone(c)
    /\ call[c].failed # {}
    /\ Spend("faults", MaxFaults)
    /\ PostNotice(c) \/ UNCHANGED <<window, visible, noticed>>
    /\ call' = [call EXCEPT ![c].step = "return", ![c].noticeLost = TRUE]
    /\ UNCHANGED <<reported, done>>

SkipNotice(c) ==
    /\ LoopDone(c)
    /\ call[c].failed = {}
    /\ call' = [call EXCEPT ![c].step = "return"]
    /\ UNCHANGED <<visible, window, noticed, reported, done, budget>>

\* No message id is an error for the host; a result with one is a success
\* whatever failed.
Return(c) ==
    /\ At(c, "return")
    /\ done' = IF call[c].id THEN done \cup {call[c].req} ELSE done
    /\ reported' = IF call[c].noticeLost
                   THEN [reported EXCEPT ![call[c].req] = @ \cup call[c].failed]
                   ELSE reported
    /\ call' = [call EXCEPT ![c] = Idle]
    /\ UNCHANGED <<visible, window, noticed, budget>>

\* The caller dies or gives up; its result reaches nobody.
Crash(c) ==
    /\ call[c] # Idle
    /\ Spend("faults", MaxFaults)
    /\ call' = [call EXCEPT ![c] = Idle]
    /\ UNCHANGED <<visible, window, noticed, reported, done>>

\* The platform forgets the uuids it saw.
WindowPasses ==
    /\ window # {}
    /\ Spend("windows", MaxWindows)
    /\ window' = {}
    /\ UNCHANGED <<call, visible, noticed, reported, done>>

Quiescent ==
    /\ done = Requests
    /\ \A c \in Calls : call[c] = Idle
    /\ UNCHANGED vars

Step(c) ==
    \/ Prepare(c) \/ SendText(c) \/ SendAttachment(c) \/ RejectAttachment(c)
    \/ SendNotice(c) \/ SkipNotice(c) \/ Return(c)

Fault(c) ==
    \/ PrepareFails(c) \/ SendTextWithoutId(c) \/ SendTextFails(c)
    \/ SendAttachmentFails(c) \/ SendNoticeFails(c) \/ Crash(c)

Next ==
    \/ \E c \in Calls, r \in Requests : Begin(c, r)
    \/ \E c \in Calls : Step(c) \/ Fault(c)
    \/ WindowPasses
    \/ Quiescent

\* Calls that have begun go on and the host tries a message again until it
\* has succeeded.  Faults, overlaps and the window are not fair.
Fairness ==
    /\ \A c \in Calls : WF_vars(Step(c))
    /\ \A r \in Requests :
           WF_vars(~Underway(r) /\ \E c \in Calls : Begin(c, r))

SafetySpec == Init /\ [][Next]_vars
Spec == SafetySpec /\ Fairness

-----------------------------------------------------------------------------
(* Properties                                                              *)

\* An attachment whose result says "sent" is in the chat: the platform's
\* deduplication never swallows a part for another message's or another
\* part's uuid, which an absent MessageUUID would cause
\* (larkMediaMessageUUID).
SentIsVisible ==
    \A c \in Calls : call[c] # Idle =>
        \A i \in call[c].sent : visible[call[c].req][Media(i)] > 0

\* Nobody gets to see an attachment of a message, or a notice about one, whose
\* text is not in the chat: an error for the text ends the call before any
\* attachment, and only its success lets the loop begin (Connector.Send).
TextIsFirst ==
    \A r \in Requests : r.text =>
        \A p \in Parts(r) : visible[r][p] > 0 => visible[r][Text] > 0

\* Retries, overlapping calls and lost responses show no part of a message
\* with a MessageUUID twice within one deduplication window.
AtMostOncePerWindow ==
    \A r \in Requests : r.message # NoMessage =>
        \A p \in Parts(r) : visible[r][p] <= 1 + budget.windows

Settled(r) ==
    /\ r.text => visible[r][Text] > 0
    /\ \A i \in Attachments(r) :
           visible[r][Media(i)] > 0 \/ i \in noticed[r] \cup reported[r]

\* When a call of Send has returned no error, the text is in the chat and
\* every attachment is there too, or a notice in the chat names it, or the
\* host was told that the notice failed - although a later call's notice is
\* dropped as a duplicate of an earlier one that named other attachments.
SuccessIsComplete == \A r \in done : Settled(r)

\* With the host trying again until a call succeeds, every message is settled
\* in the end, also one whose attachments can never be sent and for which no
\* call ever succeeds.
EventuallySettled == \A r \in Requests : <>Settled(r)
=============================================================================
