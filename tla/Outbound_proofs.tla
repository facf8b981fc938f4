--------------------------- MODULE Outbound_proofs ---------------------------
(***************************************************************************)
(* Theorems about Outbound, for every set of concurrent calls and requests *)
(* and every bound on faults, overlapping calls and passed windows.        *)
(*                                                                         *)
(* What a call returns rests on what the chat holds, and the chat only     *)
(* grows: so CallInv says what each step of a call has already put there,  *)
(* NoticeInv why a dropped notice leaves nothing out, WindowInv and        *)
(* BoundInv what the platform's memory of uuids means.                     *)
(***************************************************************************)
EXTENDS Outbound, TLAPS

\* A remembered uuid belongs to a part that is in the chat.
WindowInv ==
    \A r \in Requests, p \in AllParts : Remembered(r, p) => visible[r][p] > 0

\* A part is in the chat at most once per window, in the present one only
\* while its uuid is remembered.
BoundInv ==
    \A r \in Requests, p \in AllParts :
        r.message # NoMessage =>
            /\ visible[r][p] <= 1 + budget.windows
            /\ ~Remembered(r, p) => visible[r][p] <= budget.windows

Shown(r, i) == visible[r][Media(i)] > 0

\* The first notice of a request leaves no attachment out.
NoticeInv ==
    \A r \in Requests :
        visible[r][Notice] > 0 =>
            \A i \in Attachments(r) : Shown(r, i) \/ i \in noticed[r]

\* What the steps of a call rely on.
CallFine(c) ==
    call[c] # Idle =>
        /\ call[c].step \in {"attachments", "return"} /\ call[c].req.text =>
               visible[call[c].req][Text] > 0
        /\ \A i \in call[c].sent : Shown(call[c].req, i)
        /\ call[c].step = "return" =>
               /\ call[c].next = call[c].req.attachments + 1
               /\ \A i \in call[c].failed :
                      \/ Shown(call[c].req, i)
                      \/ i \in noticed[call[c].req]
                      \/ call[c].noticeLost

CallInv == \A c \in Calls : CallFine(c)

IInv ==
    TypeOK /\ WindowInv /\ BoundInv /\ NoticeInv /\ CallInv /\ SuccessIsComplete

-----------------------------------------------------------------------------
(* Types                                                                   *)

(***************************************************************************)
(* The parts of a request are parts.                                       *)
(***************************************************************************)
LEMMA PartsArePairs ==
    ASSUME NEW r \in Requests
    PROVE  /\ Text \in AllParts /\ Notice \in AllParts /\ Text # Notice
           /\ Parts(r) \subseteq AllParts
           /\ \A i \in Attachments(r) :
                  Media(i) \in AllParts /\ Media(i) # Text /\ Media(i) # Notice
           /\ \A i, j : Media(i) = Media(j) => i = j
  BY DEF AllParts, Parts, Text, Notice, Media

(***************************************************************************)
(* A running call works on a request.                                      *)
(***************************************************************************)
LEMMA CallTyped ==
    ASSUME TypeOK, NEW c \in Calls, call[c] # Idle
    PROVE  /\ call[c].req \in Requests
           /\ call[c] \in RunningFor(call[c].req)
           /\ call[c].req.attachments \in Nat
           /\ call[c].sent \cap call[c].failed = {}
           /\ call[c].sent \cup call[c].failed = 1..(call[c].next - 1)
  <1>1. PICK r \in Requests : call[c] \in RunningFor(r)
    BY DEF TypeOK, Running
  <1>2. call[c].req = r
    BY <1>1 DEF RunningFor
  <1> QED
    BY <1>1, <1>2, OutboundAssumption DEF TypeOK

(***************************************************************************)
(* Writing a well-typed record for one call keeps call well-typed.         *)
(***************************************************************************)
LEMMA CallWritten ==
    ASSUME TypeOK, NEW c \in Calls, NEW r \in Requests, NEW k \in RunningFor(r),
           k.sent \cap k.failed = {},
           k.sent \cup k.failed = 1..(k.next - 1),
           call' = [call EXCEPT ![c] = k]
    PROVE  /\ call' \in [Calls -> {Idle} \cup Running]
           /\ \A d \in Calls :
                  call'[d] # Idle =>
                      /\ call'[d].sent \cap call'[d].failed = {}
                      /\ call'[d].sent \cup call'[d].failed = 1..(call'[d].next - 1)
  <1>1. k \in Running
    BY DEF Running
  <1>2. call' \in [Calls -> {Idle} \cup Running]
    BY <1>1 DEF TypeOK
  <1> QED
    BY <1>2 DEF TypeOK

(***************************************************************************)
(* So does ending one.                                                     *)
(***************************************************************************)
LEMMA CallEnded ==
    ASSUME TypeOK, NEW c \in Calls, call' = [call EXCEPT ![c] = Idle]
    PROVE  /\ call' \in [Calls -> {Idle} \cup Running]
           /\ \A d \in Calls :
                  call'[d] # Idle =>
                      /\ call'[d].sent \cap call'[d].failed = {}
                      /\ call'[d].sent \cup call'[d].failed = 1..(call'[d].next - 1)
  BY DEF TypeOK

-----------------------------------------------------------------------------
(* What the platform does                                                  *)

\* The chat and its notices only grow.
Grows ==
    /\ \A r \in Requests, p \in AllParts : visible'[r][p] >= visible[r][p]
    /\ \A r \in Requests : noticed[r] \subseteq noticed'[r]

(***************************************************************************)
(* Accepting a part: it is in the chat now, no other part is touched, and  *)
(* the platform's memory still matches the chat.                           *)
(***************************************************************************)
LEMMA Accepting ==
    ASSUME TypeOK, WindowInv, BoundInv, NEW r \in Requests, NEW part \in AllParts,
           Accept(r, part), budget'.windows = budget.windows
    PROVE  /\ visible' \in [Requests -> [AllParts -> Nat]]
           /\ window' \subseteq Uuids
           /\ WindowInv' /\ BoundInv'
           /\ visible'[r][part] > 0
           /\ \A s \in Requests, p \in AllParts :
                  visible'[s][p] >= visible[s][p]
           /\ \A s \in Requests, p \in AllParts :
                  <<s, p>> # <<r, part>> => visible'[s][p] = visible[s][p]
  <1>1. visible \in [Requests -> [AllParts -> Nat]] /\ window \subseteq Uuids
        /\ budget.windows \in Nat
    BY DEF TypeOK, Budgets
  <1>2. PartUuid(r, part) \subseteq Uuids
    BY DEF PartUuid, Uuids
  <1>3. window' \subseteq Uuids /\ visible' \in [Requests -> [AllParts -> Nat]]
    BY <1>1, <1>2 DEF Accept
  <1>4. \A s \in Requests, p \in AllParts :
            <<s, p>> # <<r, part>> =>
                /\ visible'[s][p] = visible[s][p]
                /\ Remembered(s, p)' <=> Remembered(s, p)
    <2> SUFFICES ASSUME NEW s \in Requests, NEW p \in AllParts,
                        <<s, p>> # <<r, part>>
                 PROVE  /\ visible'[s][p] = visible[s][p]
                        /\ Remembered(s, p)' <=> Remembered(s, p)
      OBVIOUS
    <2>1. visible'[s][p] = visible[s][p]
      BY <1>1 DEF Accept
    <2>2. Remembered(s, p)' <=> Remembered(s, p)
      BY OutboundAssumption DEF Accept, Remembered, PartUuid
    <2> QED
      BY <2>1, <2>2
  <1>5. /\ visible'[r][part] = IF Remembered(r, part) THEN visible[r][part]
                               ELSE visible[r][part] + 1
        /\ r.message # NoMessage => Remembered(r, part)'
        /\ r.message = NoMessage => ~Remembered(r, part) /\ ~Remembered(r, part)'
    BY <1>1 DEF Accept, Remembered, PartUuid
  <1>6. visible'[r][part] > 0 /\ visible'[r][part] >= visible[r][part]
    BY <1>1, <1>5 DEF WindowInv
  <1>7. WindowInv'
    BY <1>3, <1>4, <1>6 DEF WindowInv
  <1>8. BoundInv'
    <2> SUFFICES ASSUME NEW s \in Requests, NEW p \in AllParts, s.message # NoMessage
                 PROVE  /\ visible'[s][p] <= 1 + budget.windows
                        /\ ~Remembered(s, p)' => visible'[s][p] <= budget.windows
      BY DEF BoundInv
    <2>1. CASE <<s, p>> = <<r, part>>
      BY <2>1, <1>1, <1>5 DEF BoundInv
    <2>2. CASE <<s, p>> # <<r, part>>
      BY <2>2, <1>4 DEF BoundInv
    <2> QED
      BY <2>1, <2>2
  <1>9. \A s \in Requests, p \in AllParts : visible'[s][p] >= visible[s][p]
    BY <1>1, <1>4, <1>6
  <1> QED
    BY <1>3, <1>4, <1>6, <1>7, <1>8, <1>9

(***************************************************************************)
(* The platform may have accepted a part, or nothing happened to the chat. *)
(***************************************************************************)
LEMMA MaybeAccepting ==
    ASSUME TypeOK, WindowInv, BoundInv, NEW r \in Requests, NEW part \in AllParts,
           MayAccept(r, part), budget'.windows = budget.windows
    PROVE  /\ visible' \in [Requests -> [AllParts -> Nat]]
           /\ window' \subseteq Uuids
           /\ WindowInv' /\ BoundInv'
           /\ \A s \in Requests, p \in AllParts :
                  visible'[s][p] >= visible[s][p]
           /\ \A s \in Requests, p \in AllParts :
                  <<s, p>> # <<r, part>> => visible'[s][p] = visible[s][p]
  <1>1. CASE Accept(r, part)
    BY <1>1, Accepting
  <1>2. CASE UNCHANGED <<window, visible>>
    <2>1. \A s \in Requests, p \in AllParts : visible[s][p] \in Nat
      BY DEF TypeOK
    <2>2. WindowInv' /\ BoundInv'
      BY <1>2 DEF WindowInv, BoundInv, Remembered, PartUuid
    <2> QED
      BY <1>2, <2>1, <2>2 DEF TypeOK
  <1> QED
    BY <1>1, <1>2 DEF MayAccept

(***************************************************************************)
(* The chat is untouched: the platform's memory still matches it.          *)
(***************************************************************************)
LEMMA ChatKept ==
    ASSUME TypeOK, WindowInv, BoundInv, UNCHANGED <<window, visible>>,
           budget'.windows = budget.windows
    PROVE  /\ visible' \in [Requests -> [AllParts -> Nat]]
           /\ window' \subseteq Uuids
           /\ WindowInv' /\ BoundInv'
           /\ \A s \in Requests, p \in AllParts :
                  visible'[s][p] >= visible[s][p] /\ visible'[s][p] = visible[s][p]
  <1>1. \A s \in Requests, p \in AllParts : visible[s][p] \in Nat
    BY DEF TypeOK
  <1>2. WindowInv' /\ BoundInv'
    BY DEF WindowInv, BoundInv, Remembered, PartUuid
  <1> QED
    BY <1>1, <1>2 DEF TypeOK

(***************************************************************************)
(* Spending keeps the budget well-typed and touches one entry of it.       *)
(***************************************************************************)
LEMMA Spending ==
    ASSUME TypeOK, NEW what \in Budgets, NEW limit, Spend(what, limit)
    PROVE  /\ budget' \in [Budgets -> Nat]
           /\ what # "windows" => budget'.windows = budget.windows
           /\ what = "windows" => budget'.windows = budget.windows + 1
  BY DEF TypeOK, Spend, Budgets

-----------------------------------------------------------------------------
(* Steps of a call                                                         *)

\* What a step of call c keeps: it leaves the other calls alone, lets the
\* chat grow, and what the step itself relies on holds after it.
Moves(c) ==
    /\ TypeOK'
    /\ WindowInv' /\ BoundInv'
    /\ Grows
    /\ \A d \in Calls \ {c} : call'[d] = call[d]
    /\ CallFine(c)'
    /\ NoticeInv'

(***************************************************************************)
(* The other calls still rely on what they relied on, as the chat grew.    *)
(***************************************************************************)
LEMMA OthersFine ==
    ASSUME IInv, NEW c \in Calls, Moves(c)
    PROVE  CallInv'
  <1> SUFFICES ASSUME NEW d \in Calls, d # c
               PROVE  CallFine(d)'
    BY DEF CallInv, Moves
  <1>1. CallFine(d) /\ call'[d] = call[d]
    BY DEF IInv, CallInv, Moves
  <1> SUFFICES ASSUME call[d] # Idle
               PROVE  CallFine(d)'
    BY <1>1 DEF CallFine
  <1>2. /\ call[d].req \in Requests
        /\ call[d].sent \cup call[d].failed \subseteq Attachments(call[d].req)
    BY CallTyped DEF IInv, RunningFor
  <1>3. /\ Text \in AllParts
        /\ \A i \in Attachments(call[d].req) : Media(i) \in AllParts
    BY <1>2, PartsArePairs
  <1>4. \A p \in AllParts :
            visible[call[d].req][p] > 0 => visible'[call[d].req][p] > 0
    BY <1>2 DEF Moves, Grows, IInv, TypeOK
  <1>5. noticed[call[d].req] \subseteq noticed'[call[d].req]
    BY <1>2 DEF Moves, Grows
  <1> QED
    BY <1>1, <1>2, <1>3, <1>4, <1>5 DEF CallFine, Shown

(***************************************************************************)
(* A settled request stays settled while the chat grows.                   *)
(***************************************************************************)
LEMMA StaysSettled ==
    ASSUME TypeOK, TypeOK', Grows, NEW r \in Requests, Settled(r),
           reported[r] \subseteq reported'[r]
    PROVE  Settled(r)'
  <1>1. Text \in AllParts /\ \A i \in Attachments(r) : Media(i) \in AllParts
    BY PartsArePairs
  <1>2. \A p \in AllParts : visible[r][p] > 0 => visible'[r][p] > 0
    BY DEF Grows, TypeOK
  <1>3. noticed[r] \subseteq noticed'[r]
    BY DEF Grows
  <1> QED
    BY <1>1, <1>2, <1>3 DEF Settled

(***************************************************************************)
(* A step that leaves the chat alone and writes for c a well-typed record  *)
(* it can rely on.                                                         *)
(***************************************************************************)
LEMMA QuietMove ==
    ASSUME IInv, NEW c \in Calls,
           UNCHANGED <<visible, window, noticed>>,
           budget' \in [Budgets -> Nat], budget'.windows = budget.windows,
           call' \in [Calls -> {Idle} \cup Running],
           \A d \in Calls :
               call'[d] # Idle =>
                   /\ call'[d].sent \cap call'[d].failed = {}
                   /\ call'[d].sent \cup call'[d].failed = 1..(call'[d].next - 1),
           \A d \in Calls \ {c} : call'[d] = call[d],
           reported' \in [Requests -> SUBSET Nat],
           \A r \in Requests : reported'[r] \subseteq Attachments(r),
           done' \subseteq Requests,
           CallFine(c)'
    PROVE  Moves(c)
  <1>1. TypeOK /\ WindowInv /\ BoundInv /\ NoticeInv
    BY DEF IInv
  <1>2. /\ visible' \in [Requests -> [AllParts -> Nat]]
        /\ window' \subseteq Uuids
        /\ WindowInv' /\ BoundInv'
        /\ Grows
    BY <1>1, ChatKept DEF Grows
  <1>3. \A r \in Requests : noticed[r] \subseteq Attachments(r)
    BY <1>1 DEF TypeOK
  <1>4. TypeOK'
    BY <1>1, <1>2, <1>3 DEF TypeOK
  <1>5. NoticeInv'
    BY <1>1 DEF NoticeInv, Shown
  <1> QED
    BY <1>2, <1>4, <1>5 DEF Moves

(***************************************************************************)
(* A step that writes for c a well-typed record it can rely on and changes *)
(* the chat, if at all, in keeping with the invariants.                    *)
(***************************************************************************)
LEMMA WritingMove ==
    ASSUME IInv, NEW c \in Calls, NEW r \in Requests, NEW k \in RunningFor(r),
           k.sent \cap k.failed = {},
           k.sent \cup k.failed = 1..(k.next - 1),
           call' = [call EXCEPT ![c] = k],
           UNCHANGED <<reported, done>>,
           budget' \in [Budgets -> Nat],
           visible' \in [Requests -> [AllParts -> Nat]],
           window' \subseteq Uuids,
           noticed' \in [Requests -> SUBSET Nat],
           \A s \in Requests : noticed'[s] \subseteq Attachments(s),
           WindowInv', BoundInv', NoticeInv', Grows,
           CallFine(c)'
    PROVE  Moves(c)
  <1>1. TypeOK
    BY DEF IInv
  <1>2. /\ call' \in [Calls -> {Idle} \cup Running]
        /\ \A d \in Calls :
               call'[d] # Idle =>
                   /\ call'[d].sent \cap call'[d].failed = {}
                   /\ call'[d].sent \cup call'[d].failed = 1..(call'[d].next - 1)
    BY <1>1, CallWritten
  <1>3. \A d \in Calls \ {c} : call'[d] = call[d]
    BY <1>1 DEF TypeOK
  <1>4. TypeOK'
    BY <1>1, <1>2 DEF TypeOK
  <1> QED
    BY <1>3, <1>4 DEF Moves

(***************************************************************************)
(* The same for a step that leaves the chat alone.                         *)
(***************************************************************************)
LEMMA QuietWritingMove ==
    ASSUME IInv, NEW c \in Calls, NEW r \in Requests, NEW k \in RunningFor(r),
           k.sent \cap k.failed = {},
           k.sent \cup k.failed = 1..(k.next - 1),
           call' = [call EXCEPT ![c] = k],
           UNCHANGED <<visible, window, noticed, reported, done>>,
           budget' \in [Budgets -> Nat], budget'.windows = budget.windows,
           CallFine(c)'
    PROVE  Moves(c)
  <1>1. TypeOK /\ WindowInv /\ BoundInv /\ NoticeInv
    BY DEF IInv
  <1>2. /\ visible' \in [Requests -> [AllParts -> Nat]]
        /\ window' \subseteq Uuids
        /\ WindowInv' /\ BoundInv'
        /\ Grows
    BY <1>1, ChatKept DEF Grows
  <1>3. /\ noticed' \in [Requests -> SUBSET Nat]
        /\ \A s \in Requests : noticed'[s] \subseteq Attachments(s)
    BY <1>1 DEF TypeOK
  <1>4. NoticeInv'
    BY <1>1 DEF NoticeInv, Shown
  <1> QED
    BY <1>2, <1>3, <1>4, WritingMove

(***************************************************************************)
(* Beginning a call.                                                       *)
(***************************************************************************)
LEMMA BeginMoves ==
    ASSUME IInv, NEW c \in Calls, NEW r \in Requests, Begin(c, r)
    PROVE  Moves(c)
  <1> DEFINE k == [step |-> "prepare", req |-> r, next |-> 1, sent |-> {},
                   failed |-> {}, id |-> FALSE, noticeLost |-> FALSE]
  <1>1. TypeOK
    BY DEF IInv
  <1>2. k \in RunningFor(r)
    BY OutboundAssumption DEF RunningFor, Steps
  <1>3. k.sent \cap k.failed = {} /\ k.sent \cup k.failed = 1..(k.next - 1)
    OBVIOUS
  <1>4. call' = [call EXCEPT ![c] = k]
    BY DEF Begin
  <1>5. budget' \in [Budgets -> Nat] /\ budget'.windows = budget.windows
    BY <1>1, Spending DEF Begin, Budgets, TypeOK
  <1>6. call'[c] = k /\ \A d \in Calls \ {c} : call'[d] = call[d]
    BY <1>1, <1>4 DEF TypeOK
  <1>7. CallFine(c)'
    BY <1>6 DEF CallFine
  <1> QED
    BY <1>2, <1>3, <1>4, <1>5, <1>7, QuietWritingMove DEF Begin

(***************************************************************************)
(* Preparing a call.                                                       *)
(***************************************************************************)
LEMMA PrepareMoves ==
    ASSUME IInv, NEW c \in Calls, Prepare(c)
    PROVE  Moves(c)
  <1> DEFINE k == [call[c] EXCEPT !.step =
                       IF call[c].req.text THEN "text" ELSE "attachments"]
             r == call[c].req
  <1>1. TypeOK /\ call[c] # Idle /\ call[c].step = "prepare" /\ CallFine(c)
    BY DEF IInv, CallInv, Prepare, At
  <1>2. /\ r \in Requests /\ call[c] \in RunningFor(r)
        /\ call[c].sent \cap call[c].failed = {}
        /\ call[c].sent \cup call[c].failed = 1..(call[c].next - 1)
    BY <1>1, CallTyped
  <1>3. /\ k \in RunningFor(r)
        /\ k.sent = call[c].sent /\ k.failed = call[c].failed
        /\ k.next = call[c].next /\ k.req = r
        /\ k.step \in {"text", "attachments"}
        /\ k.step = "attachments" => ~r.text
    BY <1>2, OutboundAssumption DEF RunningFor, Steps
  <1>4. call' = [call EXCEPT ![c] = k]
    BY <1>1 DEF Prepare, TypeOK
  <1>5. call'[c] = k /\ \A d \in Calls \ {c} : call'[d] = call[d]
    BY <1>1, <1>4 DEF TypeOK
  <1>6. CallFine(c)'
    BY <1>1, <1>3, <1>5 DEF CallFine, Shown, Prepare
  <1>7. budget' \in [Budgets -> Nat] /\ budget'.windows = budget.windows
    BY <1>1 DEF Prepare, TypeOK
  <1> HIDE DEF k
  <1> QED
    BY <1>2, <1>3, <1>4, <1>6, <1>7, QuietWritingMove DEF Prepare

(***************************************************************************)
(* A call that ends without a result.                                      *)
(***************************************************************************)
LEMMA EndMoves ==
    ASSUME IInv, NEW c \in Calls, PrepareFails(c) \/ Crash(c)
    PROVE  Moves(c)
  <1>1. TypeOK /\ call' = [call EXCEPT ![c] = Idle]
    BY DEF IInv, PrepareFails, Crash
  <1>2. budget' \in [Budgets -> Nat] /\ budget'.windows = budget.windows
    BY <1>1, Spending DEF PrepareFails, Crash, Budgets
  <1>3. call'[c] = Idle /\ \A d \in Calls \ {c} : call'[d] = call[d]
    BY <1>1 DEF TypeOK
  <1>4. CallFine(c)'
    BY <1>3 DEF CallFine
  <1> QED
    BY <1>1, <1>2, <1>3, <1>4, CallEnded, QuietMove
       DEF PrepareFails, Crash, TypeOK

(***************************************************************************)
(* The record of a call whose attachment failed.                           *)
(***************************************************************************)
LEMMA FailedRecord ==
    ASSUME TypeOK, NEW c \in Calls, call[c] # Idle,
           call[c].step = "attachments",
           call[c].next <= call[c].req.attachments
    PROVE  /\ FailedOn(c) \in RunningFor(call[c].req)
           /\ FailedOn(c).sent = call[c].sent
           /\ FailedOn(c).req = call[c].req
           /\ FailedOn(c).step = "attachments"
           /\ FailedOn(c).sent \cap FailedOn(c).failed = {}
           /\ FailedOn(c).sent \cup FailedOn(c).failed = 1..(FailedOn(c).next - 1)
  <1> DEFINE r == call[c].req
             n == call[c].next
  <1>1. /\ r \in Requests /\ call[c] \in RunningFor(r) /\ r.attachments \in Nat
        /\ call[c].sent \cap call[c].failed = {}
        /\ call[c].sent \cup call[c].failed = 1..(n - 1)
    BY CallTyped
  <1>2. n \in 1..r.attachments
    BY <1>1 DEF RunningFor
  <1>3. n \in Attachments(r) /\ n + 1 \in 1..(r.attachments + 1)
    BY <1>1, <1>2 DEF Attachments
  <1> DEFINE k == [call[c] EXCEPT !.failed = @ \cup {n}]
             l == [k EXCEPT !.next = n + 1]
  <1>4. /\ k \in RunningFor(r)
        /\ k.step = call[c].step /\ k.req = r /\ k.sent = call[c].sent
        /\ k.failed = call[c].failed \cup {n}
    BY <1>1, <1>3 DEF RunningFor
  <1>5. /\ l \in RunningFor(r)
        /\ l.step = call[c].step /\ l.req = r /\ l.sent = call[c].sent
        /\ l.failed = call[c].failed \cup {n} /\ l.next = n + 1
    <2> HIDE DEF k
    <2> QED
      BY <1>3, <1>4 DEF RunningFor
  <1> FailedOn(c) = l
    BY DEF FailedOn
  <1> HIDE DEF l
  <1>6. n \notin call[c].sent /\ 1..(n + 1 - 1) = 1..(n - 1) \cup {n}
    BY <1>1, <1>2
  <1> QED
    BY <1>1, <1>5, <1>6

(***************************************************************************)
(* An attachment that cannot be uploaded.                                  *)
(***************************************************************************)
LEMMA RejectMoves ==
    ASSUME IInv, NEW c \in Calls, RejectAttachment(c)
    PROVE  Moves(c)
  <1> DEFINE k == FailedOn(c)
             r == call[c].req
  <1>1. /\ TypeOK /\ call[c] # Idle /\ CallFine(c)
        /\ call[c].step = "attachments" /\ call[c].next <= r.attachments
    BY DEF IInv, CallInv, RejectAttachment, Looping, At
  <1>2. /\ r \in Requests /\ call[c] \in RunningFor(r) /\ r.attachments \in Nat
        /\ call[c].sent \cap call[c].failed = {}
        /\ call[c].sent \cup call[c].failed = 1..(call[c].next - 1)
    BY <1>1, CallTyped
  <1>3. /\ k \in RunningFor(r)
        /\ k.sent = call[c].sent /\ k.req = r /\ k.step = "attachments"
    BY <1>1, FailedRecord
  <1>4. k.sent \cap k.failed = {} /\ k.sent \cup k.failed = 1..(k.next - 1)
    BY <1>1, FailedRecord
  <1>5. call' = [call EXCEPT ![c] = k]
    BY DEF RejectAttachment
  <1>6. call'[c] = k /\ \A d \in Calls \ {c} : call'[d] = call[d]
    BY <1>1, <1>5 DEF TypeOK
  <1>7. CallFine(c)'
    BY <1>1, <1>3, <1>6 DEF CallFine, Shown, RejectAttachment
  <1>8. budget' \in [Budgets -> Nat] /\ budget'.windows = budget.windows
    BY <1>1 DEF RejectAttachment, TypeOK
  <1> HIDE DEF k
  <1> QED
    BY <1>2, <1>3, <1>4, <1>5, <1>7, <1>8, QuietWritingMove DEF RejectAttachment

(***************************************************************************)
(* The loop ends without a failure.                                        *)
(***************************************************************************)
LEMMA SkipNoticeMoves ==
    ASSUME IInv, NEW c \in Calls, SkipNotice(c)
    PROVE  Moves(c)
  <1> DEFINE k == [call[c] EXCEPT !.step = "return"]
             r == call[c].req
  <1>1. /\ TypeOK /\ call[c] # Idle /\ CallFine(c) /\ call[c].failed = {}
        /\ call[c].step = "attachments" /\ call[c].next > r.attachments
    BY DEF IInv, CallInv, SkipNotice, LoopDone, At
  <1>2. /\ r \in Requests /\ call[c] \in RunningFor(r) /\ r.attachments \in Nat
        /\ call[c].sent \cap call[c].failed = {}
        /\ call[c].sent \cup call[c].failed = 1..(call[c].next - 1)
    BY <1>1, CallTyped
  <1>3. /\ k \in RunningFor(r)
        /\ k.sent = call[c].sent /\ k.failed = call[c].failed
        /\ k.next = call[c].next /\ k.req = r /\ k.step = "return"
        /\ k.next = r.attachments + 1
    BY <1>1, <1>2 DEF RunningFor, Steps
  <1>4. call' = [call EXCEPT ![c] = k]
    BY <1>1 DEF SkipNotice, TypeOK
  <1>5. call'[c] = k /\ \A d \in Calls \ {c} : call'[d] = call[d]
    BY <1>1, <1>4 DEF TypeOK
  <1>6. CallFine(c)'
    BY <1>1, <1>3, <1>5 DEF CallFine, Shown, SkipNotice
  <1>7. budget' \in [Budgets -> Nat] /\ budget'.windows = budget.windows
    BY <1>1 DEF SkipNotice, TypeOK
  <1> HIDE DEF k
  <1> QED
    BY <1>2, <1>3, <1>4, <1>6, <1>7, QuietWritingMove DEF SkipNotice

(***************************************************************************)
(* A call that returns.                                                    *)
(***************************************************************************)
LEMMA ReturnMoves ==
    ASSUME IInv, NEW c \in Calls, Return(c)
    PROVE  Moves(c)
  <1> DEFINE r == call[c].req
  <1>1. TypeOK /\ call[c] # Idle /\ call' = [call EXCEPT ![c] = Idle]
    BY DEF IInv, Return, At
  <1>2. /\ r \in Requests
        /\ call[c].failed \subseteq Attachments(r)
        /\ Attachments(r) \subseteq Nat
    BY <1>1, CallTyped DEF RunningFor, Attachments
  <1>3. /\ done' \subseteq Requests
        /\ reported' \in [Requests -> SUBSET Nat]
        /\ \A s \in Requests : reported'[s] \subseteq Attachments(s)
    BY <1>1, <1>2 DEF Return, TypeOK
  <1>4. call'[c] = Idle /\ \A d \in Calls \ {c} : call'[d] = call[d]
    BY <1>1 DEF TypeOK
  <1>5. CallFine(c)'
    BY <1>4 DEF CallFine
  <1>6. UNCHANGED <<visible, window, noticed, budget>>
    BY DEF Return
  <1>7. budget' \in [Budgets -> Nat] /\ budget'.windows = budget.windows
    BY <1>1, <1>6 DEF TypeOK
  <1> QED
    BY <1>1, <1>3, <1>4, <1>5, <1>6, <1>7, CallEnded, QuietMove

(***************************************************************************)
(* The notices still leave nothing out when no notice was posted.          *)
(***************************************************************************)
LEMMA NoticeKept ==
    ASSUME TypeOK, NoticeInv, Grows,
           \A r \in Requests : visible'[r][Notice] = visible[r][Notice],
           visible' \in [Requests -> [AllParts -> Nat]]
    PROVE  NoticeInv'
  <1> SUFFICES ASSUME NEW r \in Requests, visible'[r][Notice] > 0,
                      NEW i \in Attachments(r)
               PROVE  Shown(r, i)' \/ i \in noticed'[r]
    BY DEF NoticeInv
  <1>1. Shown(r, i) \/ i \in noticed[r]
    BY DEF NoticeInv
  <1>2. Media(i) \in AllParts
    BY PartsArePairs
  <1>3. visible[r][Media(i)] > 0 => visible'[r][Media(i)] > 0
    BY <1>2 DEF Grows, TypeOK
  <1>4. noticed[r] \subseteq noticed'[r]
    BY DEF Grows
  <1> QED
    BY <1>1, <1>3, <1>4 DEF Shown

(***************************************************************************)
(* A part that is no notice enters the chat, surely or perhaps.            *)
(***************************************************************************)
LEMMA PartAccepted ==
    ASSUME IInv, NEW r \in Requests, NEW part \in AllParts \ {Notice},
           MayAccept(r, part), budget'.windows = budget.windows,
           UNCHANGED noticed
    PROVE  /\ visible' \in [Requests -> [AllParts -> Nat]]
           /\ window' \subseteq Uuids
           /\ noticed' \in [Requests -> SUBSET Nat]
           /\ \A s \in Requests : noticed'[s] \subseteq Attachments(s)
           /\ WindowInv' /\ BoundInv' /\ NoticeInv' /\ Grows
  <1>1. TypeOK /\ WindowInv /\ BoundInv /\ NoticeInv
    BY DEF IInv
  <1>2. /\ visible' \in [Requests -> [AllParts -> Nat]]
        /\ window' \subseteq Uuids
        /\ WindowInv' /\ BoundInv'
        /\ \A s \in Requests, p \in AllParts : visible'[s][p] >= visible[s][p]
        /\ \A s \in Requests, p \in AllParts :
               <<s, p>> # <<r, part>> => visible'[s][p] = visible[s][p]
    BY <1>1, MaybeAccepting
  <1>3. Grows
    BY <1>2 DEF Grows
  <1>4. \A s \in Requests : visible'[s][Notice] = visible[s][Notice]
    BY <1>2, PartsArePairs
  <1>5. NoticeInv'
    BY <1>1, <1>2, <1>3, <1>4, NoticeKept
  <1>6. /\ noticed' \in [Requests -> SUBSET Nat]
        /\ \A s \in Requests : noticed'[s] \subseteq Attachments(s)
    BY <1>1 DEF TypeOK
  <1> QED
    BY <1>2, <1>3, <1>5, <1>6

(***************************************************************************)
(* What the chat shows it keeps showing.                                   *)
(***************************************************************************)
LEMMA StaysShown ==
    ASSUME TypeOK, Grows, visible' \in [Requests -> [AllParts -> Nat]],
           NEW r \in Requests, NEW i \in Attachments(r), Shown(r, i)
    PROVE  Shown(r, i)'
  <1>1. Media(i) \in AllParts
    BY PartsArePairs
  <1>2. visible'[r][Media(i)] >= visible[r][Media(i)]
    BY <1>1 DEF Grows
  <1>3. visible'[r][Media(i)] \in Nat /\ visible[r][Media(i)] \in Nat
    BY <1>1 DEF TypeOK
  <1> QED
    BY <1>2, <1>3 DEF Shown

(***************************************************************************)
(* The text is sent, with or without a message id in the answer.           *)
(***************************************************************************)
LEMMA TextMoves ==
    ASSUME IInv, NEW c \in Calls, SendText(c) \/ SendTextWithoutId(c)
    PROVE  Moves(c)
  <1>1. /\ TypeOK /\ WindowInv /\ BoundInv /\ call[c] # Idle /\ CallFine(c)
        /\ call[c].step = "text"
    BY DEF IInv, CallInv, SendText, SendTextWithoutId, At
  <1> PICK r \in Requests : r = call[c].req
    BY <1>1, CallTyped
  <1>2. /\ call[c] \in RunningFor(r)
        /\ call[c].sent \cap call[c].failed = {}
        /\ call[c].sent \cup call[c].failed = 1..(call[c].next - 1)
        /\ call[c].sent \subseteq Attachments(r)
    BY <1>1, CallTyped DEF RunningFor
  <1>3. PICK k \in RunningFor(r) :
            /\ k.sent = call[c].sent /\ k.failed = call[c].failed
            /\ k.next = call[c].next /\ k.req = r /\ k.step = "attachments"
            /\ call' = [call EXCEPT ![c] = k]
    <2> DEFINE k == [call[c] EXCEPT !.step = "attachments"]
               l == [k EXCEPT !.id = TRUE]
    <2>1. /\ k \in RunningFor(r)
          /\ k.sent = call[c].sent /\ k.failed = call[c].failed
          /\ k.next = call[c].next /\ k.req = r /\ k.step = "attachments"
      BY <1>2 DEF RunningFor, Steps
    <2>2. /\ l \in RunningFor(r)
          /\ l.sent = call[c].sent /\ l.failed = call[c].failed
          /\ l.next = call[c].next /\ l.req = r /\ l.step = "attachments"
      <3> HIDE DEF k
      <3> QED
        BY <2>1 DEF RunningFor
    <2>3. CASE SendText(c)
      <3>1. call' = [call EXCEPT ![c] = l]
        BY <1>1, <2>3 DEF SendText, TypeOK
      <3> HIDE DEF l
      <3> QED
        BY <2>2, <3>1
    <2>4. CASE SendTextWithoutId(c)
      <3>1. call' = [call EXCEPT ![c] = k]
        BY <1>1, <2>4 DEF SendTextWithoutId, TypeOK
      <3> HIDE DEF k
      <3> QED
        BY <2>1, <3>1
    <2> QED
      BY <2>3, <2>4
  <1>4. budget' \in [Budgets -> Nat] /\ budget'.windows = budget.windows
    BY <1>1, Spending DEF SendText, SendTextWithoutId, Budgets, TypeOK
  <1>5. Accept(r, Text) /\ UNCHANGED <<noticed, reported, done>>
    BY DEF SendText, SendTextWithoutId
  <1>6. Text \in AllParts \ {Notice}
    BY <1>2, PartsArePairs
  <1>7. /\ visible' \in [Requests -> [AllParts -> Nat]]
        /\ window' \subseteq Uuids
        /\ noticed' \in [Requests -> SUBSET Nat]
        /\ \A s \in Requests : noticed'[s] \subseteq Attachments(s)
        /\ WindowInv' /\ BoundInv' /\ NoticeInv' /\ Grows
    BY <1>2, <1>4, <1>5, <1>6, PartAccepted DEF MayAccept
  <1>8. visible'[r][Text] > 0
    BY <1>1, <1>2, <1>4, <1>5, <1>6, Accepting
  <1>9. \A i \in Attachments(r) : Shown(r, i) => Shown(r, i)'
    BY <1>1, <1>7, StaysShown
  <1>10. call'[c] = k
    BY <1>1, <1>3 DEF TypeOK
  <1>11. CallFine(c)'
    BY <1>1, <1>2, <1>3, <1>8, <1>9, <1>10 DEF CallFine
  <1> QED
    BY <1>2, <1>3, <1>4, <1>5, <1>7, <1>11, WritingMove

(***************************************************************************)
(* The text fails and ends the call.                                       *)
(***************************************************************************)
LEMMA TextFailsMoves ==
    ASSUME IInv, NEW c \in Calls, SendTextFails(c)
    PROVE  Moves(c)
  <1> DEFINE r == call[c].req
  <1>1. TypeOK /\ call[c] # Idle /\ call' = [call EXCEPT ![c] = Idle]
    BY DEF IInv, SendTextFails, At
  <1>2. r \in Requests
    BY <1>1, CallTyped
  <1>3. budget' \in [Budgets -> Nat] /\ budget'.windows = budget.windows
    BY <1>1, Spending DEF SendTextFails, Budgets
  <1>4. Text \in AllParts \ {Notice}
    BY <1>2, PartsArePairs
  <1>5. MayAccept(r, Text) /\ UNCHANGED <<noticed, reported, done>>
    BY DEF SendTextFails
  <1>6. /\ visible' \in [Requests -> [AllParts -> Nat]]
        /\ window' \subseteq Uuids
        /\ noticed' \in [Requests -> SUBSET Nat]
        /\ \A s \in Requests : noticed'[s] \subseteq Attachments(s)
        /\ WindowInv' /\ BoundInv' /\ NoticeInv' /\ Grows
    BY <1>2, <1>3, <1>4, <1>5, PartAccepted
  <1>7. call'[c] = Idle /\ \A d \in Calls \ {c} : call'[d] = call[d]
    BY <1>1 DEF TypeOK
  <1>8. CallFine(c)'
    BY <1>7 DEF CallFine
  <1>9. /\ call' \in [Calls -> {Idle} \cup Running]
        /\ \A d \in Calls :
               call'[d] # Idle =>
                   /\ call'[d].sent \cap call'[d].failed = {}
                   /\ call'[d].sent \cup call'[d].failed = 1..(call'[d].next - 1)
    BY <1>1, CallEnded
  <1>10. TypeOK'
    BY <1>1, <1>3, <1>5, <1>6, <1>9 DEF TypeOK
  <1> QED
    BY <1>6, <1>7, <1>8, <1>10 DEF Moves

(***************************************************************************)
(* The attachment the loop is at is sent.                                  *)
(***************************************************************************)
LEMMA AttachmentMoves ==
    ASSUME IInv, NEW c \in Calls, SendAttachment(c)
    PROVE  Moves(c)
  <1>1. /\ TypeOK /\ WindowInv /\ BoundInv /\ call[c] # Idle /\ CallFine(c)
        /\ call[c].step = "attachments"
        /\ call[c].next <= call[c].req.attachments
    BY DEF IInv, CallInv, SendAttachment, Looping, At
  <1> PICK r \in Requests : r = call[c].req
    BY <1>1, CallTyped
  <1> PICK n : n = call[c].next
    OBVIOUS
  <1>2. /\ call[c] \in RunningFor(r) /\ r.attachments \in Nat
        /\ call[c].sent \cap call[c].failed = {}
        /\ call[c].sent \cup call[c].failed = 1..(n - 1)
    BY <1>1, CallTyped
  <1>3. /\ n \in Attachments(r) /\ n + 1 \in 1..(r.attachments + 1) /\ n \in Nat
        /\ 1..(n + 1 - 1) = 1..(n - 1) \cup {n}
    BY <1>1, <1>2 DEF RunningFor, Attachments
  <1>4. PICK k \in RunningFor(r) :
            /\ k.sent = call[c].sent \cup {n} /\ k.failed = call[c].failed
            /\ k.next = n + 1 /\ k.req = r /\ k.step = "attachments"
            /\ call' = [call EXCEPT ![c] = k]
    <2> DEFINE k == [call[c] EXCEPT !.next = n + 1]
               l == [k EXCEPT !.sent = @ \cup {n}]
               m == [l EXCEPT !.id = TRUE]
    <2>1. /\ k \in RunningFor(r)
          /\ k.sent = call[c].sent /\ k.failed = call[c].failed
          /\ k.next = n + 1 /\ k.req = r /\ k.step = "attachments"
      BY <1>1, <1>2, <1>3 DEF RunningFor
    <2>2. /\ l \in RunningFor(r)
          /\ l.sent = call[c].sent \cup {n} /\ l.failed = call[c].failed
          /\ l.next = n + 1 /\ l.req = r /\ l.step = "attachments"
      <3> HIDE DEF k
      <3> QED
        BY <2>1, <1>3 DEF RunningFor
    <2>3. /\ m \in RunningFor(r)
          /\ m.sent = call[c].sent \cup {n} /\ m.failed = call[c].failed
          /\ m.next = n + 1 /\ m.req = r /\ m.step = "attachments"
      <3> HIDE DEF l
      <3> QED
        BY <2>2 DEF RunningFor
    <2>4. SentOn(c) = m
      BY DEF SentOn
    <2>5. call' = [call EXCEPT ![c] = m]
      BY <2>4 DEF SendAttachment
    <2> HIDE DEF m
    <2> QED
      BY <2>3, <2>5
  <1>5. k.sent \cap k.failed = {} /\ k.sent \cup k.failed = 1..(k.next - 1)
    BY <1>2, <1>3, <1>4
  <1>6. budget' \in [Budgets -> Nat] /\ budget'.windows = budget.windows
    BY <1>1 DEF SendAttachment, TypeOK
  <1>7. Accept(r, Media(n)) /\ UNCHANGED <<noticed, reported, done>>
    BY DEF SendAttachment
  <1>8. Media(n) \in AllParts \ {Notice}
    BY <1>3, PartsArePairs
  <1>9. /\ visible' \in [Requests -> [AllParts -> Nat]]
        /\ window' \subseteq Uuids
        /\ noticed' \in [Requests -> SUBSET Nat]
        /\ \A s \in Requests : noticed'[s] \subseteq Attachments(s)
        /\ WindowInv' /\ BoundInv' /\ NoticeInv' /\ Grows
    BY <1>6, <1>7, <1>8, PartAccepted DEF MayAccept
  <1>10. visible'[r][Media(n)] > 0
    BY <1>1, <1>6, <1>7, <1>8, Accepting
  <1>11. \A i \in Attachments(r) : Shown(r, i) => Shown(r, i)'
    BY <1>1, <1>9, StaysShown
  <1>12. visible[r][Text] > 0 => visible'[r][Text] > 0
    BY <1>1, <1>9, PartsArePairs DEF Grows, TypeOK
  <1>13. call'[c] = k
    BY <1>1, <1>4 DEF TypeOK
  <1>14. \A i \in k.sent : Shown(r, i)'
    <2>1. \A i \in call[c].sent : i \in Attachments(r) /\ Shown(r, i)
      BY <1>1, <1>2 DEF CallFine, RunningFor
    <2>2. Shown(r, n)'
      BY <1>10 DEF Shown
    <2> QED
      BY <1>4, <1>11, <2>1, <2>2
  <1>15. r.text => visible'[r][Text] > 0
    BY <1>1, <1>12 DEF CallFine
  <1>16. CallFine(c)'
    BY <1>4, <1>13, <1>14, <1>15 DEF CallFine
  <1> QED
    BY <1>4, <1>5, <1>6, <1>7, <1>9, <1>16, WritingMove

(***************************************************************************)
(* The attachment the loop is at fails, before or after the platform took  *)
(* it.                                                                     *)
(***************************************************************************)
LEMMA AttachmentFailsMoves ==
    ASSUME IInv, NEW c \in Calls, SendAttachmentFails(c)
    PROVE  Moves(c)
  <1>1. /\ TypeOK /\ WindowInv /\ BoundInv /\ call[c] # Idle /\ CallFine(c)
        /\ call[c].step = "attachments"
        /\ call[c].next <= call[c].req.attachments
    BY DEF IInv, CallInv, SendAttachmentFails, Looping, At
  <1> PICK r \in Requests : r = call[c].req
    BY <1>1, CallTyped
  <1> PICK n : n = call[c].next
    OBVIOUS
  <1> PICK k : k = FailedOn(c)
    OBVIOUS
  <1>2. /\ k \in RunningFor(r)
        /\ k.sent = call[c].sent /\ k.req = r /\ k.step = "attachments"
        /\ k.sent \cap k.failed = {} /\ k.sent \cup k.failed = 1..(k.next - 1)
    BY <1>1, FailedRecord
  <1>3. /\ call[c] \in RunningFor(r) /\ r.attachments \in Nat
        /\ n \in Attachments(r)
    BY <1>1, CallTyped DEF RunningFor, Attachments
  <1>4. call' = [call EXCEPT ![c] = k] /\ call'[c] = k
    BY <1>1 DEF SendAttachmentFails, TypeOK
  <1>5. budget' \in [Budgets -> Nat] /\ budget'.windows = budget.windows
    BY <1>1, Spending DEF SendAttachmentFails, Budgets
  <1>6. MayAccept(r, Media(n)) /\ UNCHANGED <<noticed, reported, done>>
    BY DEF SendAttachmentFails
  <1>7. Media(n) \in AllParts \ {Notice}
    BY <1>3, PartsArePairs
  <1>8. /\ visible' \in [Requests -> [AllParts -> Nat]]
        /\ window' \subseteq Uuids
        /\ noticed' \in [Requests -> SUBSET Nat]
        /\ \A s \in Requests : noticed'[s] \subseteq Attachments(s)
        /\ WindowInv' /\ BoundInv' /\ NoticeInv' /\ Grows
    BY <1>5, <1>6, <1>7, PartAccepted
  <1>9. \A i \in Attachments(r) : Shown(r, i) => Shown(r, i)'
    BY <1>1, <1>8, StaysShown
  <1>10. visible[r][Text] > 0 => visible'[r][Text] > 0
    BY <1>1, <1>8, PartsArePairs DEF Grows, TypeOK
  <1>11. \A i \in k.sent : Shown(r, i)'
    BY <1>1, <1>2, <1>3, <1>9 DEF CallFine, RunningFor
  <1>12. r.text => visible'[r][Text] > 0
    BY <1>1, <1>10 DEF CallFine
  <1>13. CallFine(c)'
    BY <1>2, <1>4, <1>11, <1>12 DEF CallFine
  <1> QED
    BY <1>2, <1>4, <1>5, <1>6, <1>8, <1>13, WritingMove

(***************************************************************************)
(* Posting the notice: it is new and names every failure, or it is dropped *)
(* as a duplicate of one that left nothing out. Either way each failure of *)
(* the call is accounted for.                                              *)
(***************************************************************************)
LEMMA Posting ==
    ASSUME IInv, NEW c \in Calls, LoopDone(c), PostNotice(c),
           NEW r \in Requests, r = call[c].req,
           budget'.windows = budget.windows
    PROVE  /\ visible' \in [Requests -> [AllParts -> Nat]]
           /\ window' \subseteq Uuids
           /\ noticed' \in [Requests -> SUBSET Nat]
           /\ \A s \in Requests : noticed'[s] \subseteq Attachments(s)
           /\ WindowInv' /\ BoundInv' /\ NoticeInv' /\ Grows
           /\ \A i \in call[c].failed : Shown(r, i)' \/ i \in noticed'[r]
  <1>1. /\ TypeOK /\ WindowInv /\ BoundInv /\ NoticeInv
        /\ call[c] # Idle /\ CallFine(c)
    BY DEF IInv, CallInv, LoopDone, At
  <1>2. /\ call[c].sent \cup call[c].failed = Attachments(r)
        /\ Attachments(r) \subseteq Nat
    BY <1>1, CallTyped DEF LoopDone, RunningFor, Attachments
  <1>3. Notice \in AllParts /\ Accept(r, Notice)
    BY PartsArePairs DEF PostNotice
  <1>4. /\ visible' \in [Requests -> [AllParts -> Nat]]
        /\ window' \subseteq Uuids
        /\ WindowInv' /\ BoundInv'
        /\ \A s \in Requests, p \in AllParts : visible'[s][p] >= visible[s][p]
        /\ \A s \in Requests, p \in AllParts :
               <<s, p>> # <<r, Notice>> => visible'[s][p] = visible[s][p]
    BY <1>1, <1>3, Accepting
  <1>5. noticed' = IF Remembered(r, Notice) THEN noticed
                   ELSE [noticed EXCEPT ![r] = @ \cup call[c].failed]
    BY DEF PostNotice
  <1>6. /\ noticed' \in [Requests -> SUBSET Nat]
        /\ \A s \in Requests :
               noticed[s] \subseteq noticed'[s] /\ noticed'[s] \subseteq Attachments(s)
    BY <1>1, <1>2, <1>5 DEF TypeOK
  <1>7. Grows
    BY <1>4, <1>6 DEF Grows
  <1>8. \A i \in Attachments(r) : Shown(r, i) => Shown(r, i)'
    BY <1>1, <1>4, <1>7, StaysShown
  <1>9. \A i \in Attachments(r) : Shown(r, i)' \/ i \in noticed'[r]
    <2>1. CASE Remembered(r, Notice)
      <3>1. visible[r][Notice] > 0
        BY <1>1, <1>3, <2>1 DEF WindowInv
      <3> QED
        BY <1>1, <1>6, <1>8, <3>1 DEF NoticeInv
    <2>2. CASE ~Remembered(r, Notice)
      <3>1. call[c].failed \subseteq noticed'[r]
        BY <1>1, <1>5, <2>2 DEF TypeOK
      <3>2. \A i \in call[c].sent : Shown(r, i)
        BY <1>1 DEF CallFine
      <3> QED
        BY <1>2, <1>8, <3>1, <3>2
    <2> QED
      BY <2>1, <2>2
  <1>10. NoticeInv'
    <2> SUFFICES ASSUME NEW s \in Requests, s # r, visible'[s][Notice] > 0,
                        NEW i \in Attachments(s)
                 PROVE  Shown(s, i)' \/ i \in noticed'[s]
      BY <1>9 DEF NoticeInv
    <2>1. visible[s][Notice] > 0
      BY <1>3, <1>4
    <2>2. Shown(s, i) \/ i \in noticed[s]
      BY <1>1, <2>1 DEF NoticeInv
    <2> QED
      BY <1>1, <1>4, <1>6, <1>7, <2>2, StaysShown
  <1> QED
    BY <1>2, <1>4, <1>6, <1>7, <1>9, <1>10

(***************************************************************************)
(* What a call relies on after its last request to the platform.           *)
(***************************************************************************)
LEMMA ReturningFine ==
    ASSUME IInv, NEW c \in Calls, LoopDone(c), NEW r \in Requests,
           r = call[c].req, NEW k \in RunningFor(r), call'[c] = k,
           k.sent = call[c].sent, k.failed = call[c].failed,
           k.next = call[c].next, k.step = "return",
           visible' \in [Requests -> [AllParts -> Nat]], Grows,
           \A i \in call[c].failed :
               Shown(r, i)' \/ i \in noticed'[r] \/ k.noticeLost
    PROVE  CallFine(c)'
  <1>1. /\ TypeOK /\ call[c] # Idle /\ CallFine(c)
        /\ call[c].step = "attachments" /\ call[c].next > r.attachments
    BY DEF IInv, CallInv, LoopDone, At
  <1>2. call[c] \in RunningFor(r) /\ r.attachments \in Nat
    BY <1>1, CallTyped
  <1>3. call[c].next \in 1..(r.attachments + 1)
    BY <1>2 DEF RunningFor
  <1>4. k.next = r.attachments + 1
    BY <1>1, <1>2, <1>3
  <1>5. k.req = r
    BY DEF RunningFor
  <1>6. \A i \in Attachments(r) : Shown(r, i) => Shown(r, i)'
    BY <1>1, StaysShown
  <1>7. visible[r][Text] > 0 => visible'[r][Text] > 0
    BY <1>1, PartsArePairs DEF Grows, TypeOK
  <1>8. \A i \in k.sent : Shown(r, i)'
    BY <1>1, <1>2, <1>6 DEF CallFine, RunningFor
  <1>9. r.text => visible'[r][Text] > 0
    BY <1>1, <1>7 DEF CallFine
  <1> QED
    BY <1>4, <1>5, <1>8, <1>9 DEF CallFine

(***************************************************************************)
(* The notice is sent.                                                     *)
(***************************************************************************)
LEMMA NoticeMoves ==
    ASSUME IInv, NEW c \in Calls, SendNotice(c)
    PROVE  Moves(c)
  <1>1. TypeOK /\ call[c] # Idle /\ LoopDone(c)
    BY DEF IInv, SendNotice, LoopDone, At
  <1> PICK r \in Requests : r = call[c].req
    BY <1>1, CallTyped
  <1>2. /\ call[c] \in RunningFor(r)
        /\ call[c].sent \cap call[c].failed = {}
        /\ call[c].sent \cup call[c].failed = 1..(call[c].next - 1)
    BY <1>1, CallTyped
  <1>3. PICK k \in RunningFor(r) :
            /\ k.sent = call[c].sent /\ k.failed = call[c].failed
            /\ k.next = call[c].next /\ k.req = r /\ k.step = "return"
            /\ call' = [call EXCEPT ![c] = k]
    <2> DEFINE k == [call[c] EXCEPT !.step = "return"]
    <2>1. /\ k \in RunningFor(r)
          /\ k.sent = call[c].sent /\ k.failed = call[c].failed
          /\ k.next = call[c].next /\ k.req = r /\ k.step = "return"
      BY <1>2 DEF RunningFor, Steps
    <2>2. call' = [call EXCEPT ![c] = k]
      BY <1>1 DEF SendNotice, TypeOK
    <2> HIDE DEF k
    <2> QED
      BY <2>1, <2>2
  <1>4. call'[c] = k
    BY <1>1, <1>3 DEF TypeOK
  <1>5. budget' \in [Budgets -> Nat] /\ budget'.windows = budget.windows
    BY <1>1 DEF SendNotice, TypeOK
  <1>6. PostNotice(c) /\ UNCHANGED <<reported, done>>
    BY DEF SendNotice
  <1>7. /\ visible' \in [Requests -> [AllParts -> Nat]]
        /\ window' \subseteq Uuids
        /\ noticed' \in [Requests -> SUBSET Nat]
        /\ \A s \in Requests : noticed'[s] \subseteq Attachments(s)
        /\ WindowInv' /\ BoundInv' /\ NoticeInv' /\ Grows
        /\ \A i \in call[c].failed : Shown(r, i)' \/ i \in noticed'[r]
    BY <1>1, <1>5, <1>6, Posting
  <1>8. CallFine(c)'
    BY <1>1, <1>3, <1>4, <1>7, ReturningFine
  <1> QED
    BY <1>2, <1>3, <1>4, <1>5, <1>6, <1>7, <1>8, WritingMove

(***************************************************************************)
(* The notice fails, before or after the platform took it.                 *)
(***************************************************************************)
LEMMA NoticeFailsMoves ==
    ASSUME IInv, NEW c \in Calls, SendNoticeFails(c)
    PROVE  Moves(c)
  <1>1. TypeOK /\ call[c] # Idle /\ LoopDone(c)
    BY DEF IInv, SendNoticeFails, LoopDone, At
  <1> PICK r \in Requests : r = call[c].req
    BY <1>1, CallTyped
  <1>2. /\ call[c] \in RunningFor(r)
        /\ call[c].sent \cap call[c].failed = {}
        /\ call[c].sent \cup call[c].failed = 1..(call[c].next - 1)
    BY <1>1, CallTyped
  <1>3. PICK k \in RunningFor(r) :
            /\ k.sent = call[c].sent /\ k.failed = call[c].failed
            /\ k.next = call[c].next /\ k.req = r /\ k.step = "return"
            /\ k.noticeLost
            /\ call' = [call EXCEPT ![c] = k]
    <2> DEFINE k == [call[c] EXCEPT !.step = "return"]
               l == [k EXCEPT !.noticeLost = TRUE]
    <2>1. /\ k \in RunningFor(r)
          /\ k.sent = call[c].sent /\ k.failed = call[c].failed
          /\ k.next = call[c].next /\ k.req = r /\ k.step = "return"
      BY <1>2 DEF RunningFor, Steps
    <2>2. /\ l \in RunningFor(r)
          /\ l.sent = call[c].sent /\ l.failed = call[c].failed
          /\ l.next = call[c].next /\ l.req = r /\ l.step = "return"
          /\ l.noticeLost
      <3> HIDE DEF k
      <3> QED
        BY <2>1 DEF RunningFor
    <2>3. call' = [call EXCEPT ![c] = l]
      BY <1>1 DEF SendNoticeFails, TypeOK
    <2> HIDE DEF l
    <2> QED
      BY <2>2, <2>3
  <1>4. call'[c] = k
    BY <1>1, <1>3 DEF TypeOK
  <1>5. budget' \in [Budgets -> Nat] /\ budget'.windows = budget.windows
    BY <1>1, Spending DEF SendNoticeFails, Budgets
  <1>6. UNCHANGED <<reported, done>>
    BY DEF SendNoticeFails
  <1>7. /\ visible' \in [Requests -> [AllParts -> Nat]]
        /\ window' \subseteq Uuids
        /\ noticed' \in [Requests -> SUBSET Nat]
        /\ \A s \in Requests : noticed'[s] \subseteq Attachments(s)
        /\ WindowInv' /\ BoundInv' /\ NoticeInv' /\ Grows
    <2>1. CASE PostNotice(c)
      BY <1>1, <1>5, <2>1, Posting
    <2>2. CASE UNCHANGED <<window, visible, noticed>>
      <3>1. TypeOK /\ WindowInv /\ BoundInv /\ NoticeInv
        BY DEF IInv
      <3>2. NoticeInv'
        BY <2>2, <3>1 DEF NoticeInv, Shown
      <3> QED
        BY <1>5, <2>2, <3>1, <3>2, ChatKept DEF Grows, TypeOK
    <2> QED
      BY <2>1, <2>2 DEF SendNoticeFails
  <1>8. CallFine(c)'
    BY <1>1, <1>3, <1>4, <1>7, ReturningFine
  <1> QED
    BY <1>2, <1>3, <1>4, <1>5, <1>6, <1>7, <1>8, WritingMove

(***************************************************************************)
(* Every step and every fault of a call moves it and nothing else.         *)
(***************************************************************************)
LEMMA CallMoves ==
    ASSUME IInv, NEW c \in Calls, Step(c) \/ Fault(c)
    PROVE  Moves(c)
  BY PrepareMoves, EndMoves, TextMoves, TextFailsMoves, AttachmentMoves,
     RejectMoves, AttachmentFailsMoves, NoticeMoves, NoticeFailsMoves,
     SkipNoticeMoves, ReturnMoves DEF Step, Fault

-----------------------------------------------------------------------------
(* The inductive invariant                                                 *)

(***************************************************************************)
(* It holds initially.                                                     *)
(***************************************************************************)
LEMMA InitInv ==
    ASSUME Init
    PROVE  IInv
  <1>1. TypeOK
    BY OutboundAssumption DEF Init, TypeOK, Attachments, Budgets
  <1>2. WindowInv /\ BoundInv /\ NoticeInv /\ CallInv /\ SuccessIsComplete
    BY PartsArePairs DEF Init, WindowInv, BoundInv, NoticeInv, CallInv, CallFine,
       SuccessIsComplete, Remembered, Budgets
  <1> QED
    BY <1>1, <1>2 DEF IInv

(***************************************************************************)
(* A result without an error leaves its request settled.                   *)
(***************************************************************************)
LEMMA ReturnedSettled ==
    ASSUME IInv, NEW c \in Calls, Return(c), Moves(c)
    PROVE  SuccessIsComplete'
  <1>1. /\ TypeOK /\ TypeOK' /\ Grows /\ call[c] # Idle /\ CallFine(c)
        /\ call[c].step = "return"
    BY DEF IInv, CallInv, Return, At, Moves
  <1> PICK r \in Requests : r = call[c].req
    BY <1>1, CallTyped
  <1>2. /\ call[c] \in RunningFor(r)
        /\ call[c].next = r.attachments + 1 /\ r.attachments \in Nat
        /\ call[c].sent \cup call[c].failed = Attachments(r)
    <2>1. /\ call[c].next = r.attachments + 1 /\ r.attachments \in Nat
          /\ call[c].sent \cup call[c].failed = 1..(call[c].next - 1)
          /\ call[c] \in RunningFor(r)
      BY <1>1, CallTyped DEF CallFine
    <2> QED
      BY <2>1 DEF Attachments
  <1>3. UNCHANGED <<visible, noticed>>
    BY DEF Return
  <1>4. \A s \in Requests : reported[s] \subseteq reported'[s]
    BY <1>1 DEF Return, TypeOK
  <1>5. call[c].noticeLost => call[c].failed \subseteq reported'[r]
    BY <1>1 DEF Return, TypeOK
  <1>6. Settled(r)'
    <2>1. r.text => visible'[r][Text] > 0
      BY <1>1, <1>3 DEF CallFine
    <2>2. ASSUME NEW i \in Attachments(r)
          PROVE  visible'[r][Media(i)] > 0 \/ i \in noticed'[r] \cup reported'[r]
      <3>1. CASE i \in call[c].sent
        BY <1>1, <1>3, <3>1 DEF CallFine, Shown
      <3>2. CASE i \in call[c].failed
        BY <1>1, <1>3, <1>5, <3>2 DEF CallFine, Shown
      <3> QED
        BY <1>2, <3>1, <3>2
    <2> QED
      BY <2>1, <2>2 DEF Settled
  <1>7. ASSUME NEW s \in done
        PROVE  Settled(s)'
    <2>1. s \in Requests /\ Settled(s)
      BY <1>1 DEF IInv, SuccessIsComplete, TypeOK
    <2> QED
      BY <1>1, <1>4, <2>1, StaysSettled
  <1>8. done' \subseteq done \cup {r}
    BY DEF Return
  <1> QED
    BY <1>6, <1>7, <1>8 DEF SuccessIsComplete

(***************************************************************************)
(* Steps that return nothing leave what was settled settled.               *)
(***************************************************************************)
LEMMA OthersSettled ==
    ASSUME IInv, NEW c \in Calls, Moves(c), UNCHANGED <<reported, done>>
    PROVE  SuccessIsComplete'
  <1>1. TypeOK /\ TypeOK' /\ Grows
    BY DEF IInv, Moves
  <1>2. ASSUME NEW s \in done
        PROVE  Settled(s)'
    <2>1. s \in Requests /\ Settled(s)
      BY <1>1 DEF IInv, SuccessIsComplete, TypeOK
    <2> QED
      BY <1>1, <2>1, StaysSettled
  <1> QED
    BY <1>2 DEF SuccessIsComplete

(***************************************************************************)
(* The window passes: the chat keeps what it has, and each part may enter  *)
(* it once more.                                                           *)
(***************************************************************************)
LEMMA WindowKeeps ==
    ASSUME IInv, WindowPasses
    PROVE  IInv'
  <1>1. /\ TypeOK /\ WindowInv /\ BoundInv /\ NoticeInv /\ CallInv
        /\ SuccessIsComplete
    BY DEF IInv
  <1>2. /\ window' = {}
        /\ UNCHANGED <<call, visible, noticed, reported, done>>
        /\ budget' \in [Budgets -> Nat]
        /\ budget'.windows = budget.windows + 1
    BY <1>1, Spending DEF WindowPasses, Budgets
  <1>3. TypeOK'
    BY <1>1, <1>2 DEF TypeOK
  <1>4. WindowInv'
    BY <1>2 DEF WindowInv, Remembered
  <1>5. BoundInv'
    <2>1. \A r \in Requests, p \in AllParts : visible[r][p] \in Nat
      BY <1>1 DEF TypeOK
    <2>2. budget.windows \in Nat
      BY <1>1 DEF TypeOK, Budgets
    <2> QED
      BY <1>1, <1>2, <2>1, <2>2 DEF BoundInv
  <1>6. NoticeInv' /\ CallInv' /\ SuccessIsComplete'
    BY <1>1, <1>2 DEF NoticeInv, CallInv, CallFine, SuccessIsComplete, Settled, Shown
  <1> QED
    BY <1>3, <1>4, <1>5, <1>6 DEF IInv

(***************************************************************************)
(* Every step of the system keeps it.                                      *)
(***************************************************************************)
LEMMA NextInv ==
    ASSUME IInv, [Next]_vars
    PROVE  IInv'
  <1>1. ASSUME NEW c \in Calls, NEW r \in Requests, Begin(c, r)
        PROVE  IInv'
    <2>1. Moves(c)
      BY <1>1, BeginMoves
    <2>2. SuccessIsComplete'
      BY <1>1, <2>1, OthersSettled DEF Begin
    <2> QED
      BY <2>1, <2>2, OthersFine DEF IInv, Moves
  <1>2. ASSUME NEW c \in Calls, Step(c) \/ Fault(c)
        PROVE  IInv'
    <2>1. Moves(c)
      BY <1>2, CallMoves
    <2>2. SuccessIsComplete'
      <3>1. CASE Return(c)
        BY <2>1, <3>1, ReturnedSettled
      <3>2. CASE ~Return(c)
        <4>1. UNCHANGED <<reported, done>>
          BY <1>2, <3>2
             DEF Step, Fault, Prepare, SendText, SendAttachment,
                 RejectAttachment, SendNotice, SkipNotice, PrepareFails,
                 SendTextWithoutId, SendTextFails, SendAttachmentFails,
                 SendNoticeFails, Crash
        <4> QED
          BY <2>1, <4>1, OthersSettled
      <3> QED
        BY <3>1, <3>2
    <2> QED
      BY <2>1, <2>2, OthersFine DEF IInv, Moves
  <1>3. CASE WindowPasses
    BY <1>3, WindowKeeps
  <1>4. CASE UNCHANGED vars
    BY <1>4 DEF vars, IInv, TypeOK, WindowInv, BoundInv, NoticeInv, CallInv,
       CallFine, SuccessIsComplete, Settled, Shown, Remembered, PartUuid
  <1> QED
    BY <1>1, <1>2, <1>3, <1>4 DEF Next, Quiescent

(***************************************************************************)
(* It is an invariant of the specification.                                *)
(***************************************************************************)
LEMMA Soundness == SafetySpec => []IInv
  <1>1. Init => IInv
    BY InitInv
  <1>2. IInv /\ [Next]_vars => IInv'
    BY NextInv
  <1> QED
    BY <1>1, <1>2, PTL DEF SafetySpec

(***************************************************************************)
(* Only a call whose text is in the chat, or that sends it, shows a part.  *)
(***************************************************************************)
LEMMA Speaking ==
    ASSUME IInv, [Next]_vars
    PROVE  \/ UNCHANGED visible
           \/ \E r \in Requests, part \in AllParts :
                  /\ Accept(r, part)
                  /\ part = Text \/ (r.text => visible[r][Text] > 0)
  <1> SUFFICES ASSUME NEW c \in Calls, Step(c) \/ Fault(c), visible' # visible
               PROVE  \E r \in Requests, part \in AllParts :
                          /\ Accept(r, part)
                          /\ part = Text \/ (r.text => visible[r][Text] > 0)
    BY DEF Next, Begin, WindowPasses, Quiescent, vars
  <1> DEFINE r == call[c].req
  <1>1. call[c] # Idle /\ CallFine(c)
    BY DEF IInv, CallInv, Step, Fault, Prepare, SendText, SendAttachment,
           RejectAttachment, SendNotice, SkipNotice, Return, PrepareFails,
           SendTextWithoutId, SendTextFails, SendAttachmentFails,
           SendNoticeFails, Crash, Looping, LoopDone, At
  <1>2. r \in Requests /\ r.attachments \in Nat /\ call[c] \in RunningFor(r)
    BY <1>1, CallTyped DEF IInv
  <1>3. Text \in AllParts /\ Notice \in AllParts
        /\ \A i \in Attachments(r) : Media(i) \in AllParts
    BY <1>2, PartsArePairs
  <1>4. call[c].step = "attachments" => (r.text => visible[r][Text] > 0)
    BY <1>1 DEF CallFine
  <1>5. CASE SendText(c) \/ SendTextWithoutId(c) \/ SendTextFails(c)
    <2>1. Accept(r, Text)
      BY <1>5 DEF SendText, SendTextWithoutId, SendTextFails, MayAccept
    <2> QED
      BY <1>2, <1>3, <2>1
  <1>6. CASE SendAttachment(c) \/ SendAttachmentFails(c)
    <2>1. /\ call[c].step = "attachments" /\ call[c].next <= r.attachments
          /\ Accept(r, Media(call[c].next))
      BY <1>6 DEF SendAttachment, SendAttachmentFails, MayAccept, Looping, At
    <2>2. call[c].next \in Attachments(r)
      BY <1>2, <2>1 DEF RunningFor, Attachments
    <2> QED
      BY <1>2, <1>3, <1>4, <2>1, <2>2
  <1>7. CASE SendNotice(c) \/ SendNoticeFails(c)
    <2>1. call[c].step = "attachments" /\ Accept(r, Notice)
      BY <1>7 DEF SendNotice, SendNoticeFails, PostNotice, LoopDone, At
    <2> QED
      BY <1>2, <1>3, <1>4, <2>1
  <1> QED
    BY <1>5, <1>6, <1>7
       DEF Step, Fault, Prepare, RejectAttachment, SkipNotice, Return,
           PrepareFails, Crash

-----------------------------------------------------------------------------
(* The theorems                                                            *)

(***************************************************************************)
(* Send's calls, the chat and the platform's memory keep their types, and  *)
(* the attachment loop has settled every attachment before the one it is   *)
(* at.                                                                     *)
(***************************************************************************)
THEOREM TypeCorrect == SafetySpec => []TypeOK
  BY Soundness, PTL DEF IInv

(***************************************************************************)
(* When a call of Send returned no error, nothing of the message is missing*)
(* without a notice in the chat or an attachment_notice_error for the host,*)
(* whatever failed, was lost, overlapped or was tried again.               *)
(***************************************************************************)
THEOREM SuccessLeavesNothingOut == SafetySpec => []SuccessIsComplete
  BY Soundness, PTL DEF IInv

(***************************************************************************)
(* An attachment reported as sent is in the chat: no uuid that the         *)
(* connector makes lets the platform take one part for another.            *)
(***************************************************************************)
THEOREM SentMeansVisible == SafetySpec => []SentIsVisible
  <1>1. IInv => SentIsVisible
    BY DEF IInv, CallInv, CallFine, Shown, SentIsVisible
  <1> QED
    BY <1>1, Soundness, PTL

(***************************************************************************)
(* No part of a message with a MessageUUID enters the chat twice within one*)
(* deduplication window, however often the host tries again.               *)
(***************************************************************************)
THEOREM OncePerWindow == SafetySpec => []AtMostOncePerWindow
  <1>1. IInv => AtMostOncePerWindow
    BY PartsArePairs DEF IInv, BoundInv, AtMostOncePerWindow
  <1> QED
    BY <1>1, Soundness, PTL

(***************************************************************************)
(* No attachment and no notice of a message is in the chat without its     *)
(* text, whichever calls of Send failed, overlapped or lost their answer.  *)
(***************************************************************************)
THEOREM TextComesFirst == SafetySpec => []TextIsFirst
  <1>1. Init => TextIsFirst
    BY PartsArePairs DEF Init, TextIsFirst
  <1>2. ASSUME IInv, TextIsFirst, [Next]_vars PROVE TextIsFirst'
    <2>1. CASE UNCHANGED visible
      BY <1>2, <2>1 DEF TextIsFirst
    <2>2. ASSUME NEW r \in Requests, NEW part \in AllParts, Accept(r, part),
                 part = Text \/ (r.text => visible[r][Text] > 0)
          PROVE  TextIsFirst'
      <3>1. visible \in [Requests -> [AllParts -> Nat]]
        BY <1>2 DEF IInv, TypeOK
      <3>2. Text \in AllParts
        BY PartsArePairs
      <3>3. \A s \in Requests, p \in AllParts :
                visible'[s][p] =
                    IF s = r /\ p = part /\ ~Remembered(r, part)
                    THEN visible[s][p] + 1 ELSE visible[s][p]
        BY <2>2, <3>1 DEF Accept
      <3>4. Remembered(r, part) => visible[r][part] > 0
        BY <1>2 DEF IInv, WindowInv
      <3> SUFFICES ASSUME NEW s \in Requests, s.text, NEW p \in Parts(s),
                          visible'[s][p] > 0
                   PROVE  visible'[s][Text] > 0
        BY DEF TextIsFirst
      <3>5. p \in AllParts /\ visible[s][p] \in Nat /\ visible[s][Text] \in Nat
        BY <3>1, <3>2, PartsArePairs
      <3>6. visible[s][Text] > 0 => visible'[s][Text] > 0
        BY <3>2, <3>3, <3>5
      <3>7. CASE visible[s][p] > 0
        BY <1>2, <3>6, <3>7 DEF TextIsFirst
      <3>8. CASE ~(visible[s][p] > 0)
        <4>1. s = r /\ p = part /\ ~Remembered(r, part)
          BY <3>3, <3>5, <3>8
        <4> QED
          BY <2>2, <3>6, <4>1
      <3> QED
        BY <3>7, <3>8
    <2> QED
      BY <1>2, <2>1, <2>2, Speaking
  <1> QED
    BY <1>1, <1>2, Soundness, PTL DEF SafetySpec
=============================================================================
