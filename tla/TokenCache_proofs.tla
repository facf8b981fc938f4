-------------------------- MODULE TokenCache_proofs --------------------------
(***************************************************************************)
(* Type correctness and the two safety invariants of TokenCache, for any   *)
(* number of calls and any bounds.                                         *)
(*                                                                         *)
(* The argument: an expiry is computed from a moment before the platform   *)
(* starts to count, so it is early (Early); pairs only travel whole; and a *)
(* request starts with more of its token's life left than it may last      *)
(* (Reserve), either checked or because the token is new.                  *)
(***************************************************************************)
EXTENDS TokenCache, TLAPS

\* A pair of an issued token, and an expiry that is early unless unknown.
Early(pair) ==
    /\ pair.token <= issued
    /\ pair.token # 0 /\ pair.expires # 0 => pair.expires <= expiry[pair.token]

\* A fetch or a request is not older than its timeout.
InTime(r) ==
    r.step \in {"fetch", "answer", "flight"} =>
        r.since <= now /\ now <= r.since + MaxDelay

\* The answer under way outlives the fetch and the request it is for.
OfferLasts(r) ==
    r.step = "answer" =>
        /\ r.offered.token # 0
        /\ Early(r.offered)
        /\ r.offered.expires > r.since + 2 * MaxDelay

\* The token of a request outlives the request, if its expiry is known.
Reserve(r) ==
    r.step = "flight" =>
        /\ r.client.token # 0
        /\ r.client.expires # 0 => r.client.expires > r.since + MaxDelay

CallInv(r) ==
    Early(r.copy) /\ Early(r.client) /\ InTime(r) /\ OfferLasts(r) /\ Reserve(r)

IInv == TypeOK /\ Early(store) /\ \A c \in Calls : CallInv(call[c])

-----------------------------------------------------------------------------

\* Nothing is held and nothing is under way at first (Init).
LEMMA InitInv == Init => IInv
<1> SUFFICES ASSUME Init PROVE IInv
  OBVIOUS
<1>1. TypeOK
  BY TokenAssumption
     DEF Init, TypeOK, IdleCall, CallStates, None, Pairs, Steps, Kinds,
         Identity, Finish
<1>2. Early(store) BY TokenAssumption DEF Init, Early, None
<1>3. ASSUME NEW c \in Calls PROVE CallInv(call[c])
  BY <1>3, TokenAssumption
     DEF Init, CallInv, Early, InTime, OfferLasts, Reserve, At, IdleCall, None
<1> QED BY <1>1, <1>2, <1>3 DEF IInv

\* A step that issues no token and keeps the clock preserves the invariant if
\* it does so for the store and for the one call it changes.
LEMMA OneCall ==
    ASSUME IInv, NEW c \in Calls, NEW next \in CallStates, CallInv(next),
           call' = [call EXCEPT ![c] = next],
           UNCHANGED <<now, issued, expiry>>, store' \in Pairs, Early(store')
    PROVE  IInv'
<1>1. TypeOK' BY DEF IInv, TypeOK
<1>2. Early(store)' BY DEF Early
<1>3. ASSUME NEW d \in Calls PROVE CallInv(call[d])'
  <2>1. CallInv(call'[d]) BY DEF IInv, TypeOK
  <2> QED BY <2>1 DEF CallInv, Early, InTime, OfferLasts, Reserve
<1> QED BY <1>1, <1>2, <1>3 DEF IInv

\* No action of a call but Issue breaks the invariant.
LEMMA StepInv ==
    ASSUME IInv, NEW c \in Calls, Step(c)
    PROVE  IInv'
<1> DEFINE old == call[c]
           next == call'[c]
<1>t. old \in CallStates /\ store \in Pairs /\ now \in Nat /\ CallInv(old)
      /\ Early(store)
  BY DEF IInv, TypeOK
<1>p. old.copy \in Pairs /\ old.client \in Pairs /\ old.offered \in Pairs
      /\ old.since \in Nat /\ old.phase \in 0..4
  BY <1>t DEF CallStates, Identity, Finish
<1>n. None \in Pairs /\ Early(None)
  BY TokenAssumption DEF None, Pairs, IInv, TypeOK, Early
<1>i. IdleCall \in CallStates /\ CallInv(IdleCall)
  BY <1>n DEF IdleCall, CallStates, Steps, Kinds, Identity, Finish, CallInv,
              InTime, OfferLasts, Reserve
<1>z. 0 \in Nat OBVIOUS
<1>u. UNCHANGED <<now, issued, expiry>>
  BY DEF Step, BeginSend, BeginInbound, BeginCard, OpenClient, SkipClient,
         CloseClient, Request, Fetch, Receive, FetchFails, Finished,
         Identified, Save, SaveLast, End
<1>c. call' = [call EXCEPT ![c] = next]
  BY DEF IInv, TypeOK, Step, BeginSend, BeginInbound, BeginCard, OpenClient,
         SkipClient, CloseClient, Request, Fetch, Receive, FetchFails,
         Finished, Identified, Save, SaveLast, End
<1> SUFFICES next \in CallStates /\ CallInv(next)
             /\ store' \in Pairs /\ Early(store')
  BY <1>u, <1>c, OneCall
<1>1. CASE BeginSend(c)
  <2>1. store' = store BY <1>1 DEF BeginSend
  <2>2. CASE Fresh(store)
    <3>1. next = [IdleCall EXCEPT !.step = "work", !.copy = store, !.client = store]
      BY <1>1, <2>2 DEF BeginSend, IInv, TypeOK
    <3>2. next \in CallStates
      BY <3>1, <1>t, <1>i DEF CallStates, Steps, IdleCall
    <3> QED BY <2>1, <3>1, <3>2, <1>t
               DEF CallInv, InTime, OfferLasts, Reserve, IdleCall
  <2>3. CASE ~Fresh(store)
    <3>1. next = [IdleCall EXCEPT !.step = "fetch", !.copy = store,
                                  !.since = now, !.first = TRUE]
      BY <1>1, <2>3 DEF BeginSend, IInv, TypeOK
    <3>2. next \in CallStates
      BY <3>1, <1>t, <1>i DEF CallStates, Steps, IdleCall
    <3> QED BY <2>1, <3>1, <3>2, <1>t, <1>n, TokenAssumption
               DEF CallInv, InTime, OfferLasts, Reserve, IdleCall
  <2> QED BY <2>2, <2>3
<1>2. CASE BeginInbound(c)
  <2>1. store' = store BY <1>2 DEF BeginInbound
  <2>2. next = [IdleCall EXCEPT !.step = "between", !.kind = "inbound", !.copy = store]
    BY <1>2 DEF BeginInbound, IInv, TypeOK
  <2>3. next \in CallStates
    BY <2>2, <1>t, <1>i DEF CallStates, Steps, Kinds, IdleCall
  <2> QED BY <2>1, <2>2, <2>3, <1>t, <1>n
             DEF CallInv, InTime, OfferLasts, Reserve, IdleCall
<1>3. CASE BeginCard(c)
  <2>1. store' = store BY <1>3 DEF BeginCard
  <2>2. next = [IdleCall EXCEPT !.step = "work", !.kind = "card"]
    BY <1>3 DEF BeginCard, IInv, TypeOK
  <2>3. next \in CallStates
    BY <2>2, <1>i DEF CallStates, Steps, Kinds, IdleCall
  <2> QED BY <2>1, <2>2, <2>3, <1>t, <1>n
             DEF CallInv, InTime, OfferLasts, Reserve, IdleCall
<1>4. CASE OpenClient(c)
  <2>1. store' = store BY <1>4 DEF OpenClient
  <2>2. next = [old EXCEPT !.step = "work", !.client = Seeded(old.phase, old.copy)]
    BY <1>4 DEF OpenClient, IInv, TypeOK
  <2>3. Seeded(old.phase, old.copy) \in Pairs /\ Early(Seeded(old.phase, old.copy))
    BY <1>n, <1>p, <1>t DEF Seeded, CallInv
  <2>4. next \in CallStates BY <2>2, <2>3, <1>t DEF CallStates, Steps
  <2> QED BY <2>1, <2>2, <2>3, <2>4, <1>t
             DEF CallInv, InTime, OfferLasts, Reserve, CallStates
<1>5. CASE SkipClient(c)
  <2>1. store' = store BY <1>5 DEF SkipClient
  <2>2. next = [old EXCEPT !.phase = old.phase + 1]
    BY <1>5 DEF SkipClient, IInv, TypeOK
  <2>3. old.phase + 1 \in Identity..Finish
    BY <1>5, <1>p DEF SkipClient, Identity, Finish
  <2>4. next \in CallStates BY <2>2, <2>3, <1>t DEF CallStates
  <2> QED BY <2>1, <2>2, <2>4, <1>t
             DEF CallInv, InTime, OfferLasts, Reserve, CallStates
<1>6. CASE CloseClient(c)
  <2> DEFINE kept == IF old.phase = Identity THEN old.copy ELSE Captured(c)
  <2>1. store' = store BY <1>6 DEF CloseClient
  <2>2. /\ old.phase # Finish
        /\ next = [old EXCEPT !.step = "between", !.phase = old.phase + 1,
                              !.client = None, !.copy = kept]
    BY <1>6 DEF CloseClient, Captured, IInv, TypeOK, CallStates, At
  <2>3. kept \in Pairs /\ Early(kept)
    BY <1>p, <1>t DEF Captured, CallInv
  <2>4. old.phase + 1 \in Identity..Finish
    BY <2>2, <1>p DEF Identity, Finish
  <2> HIDE DEF kept
  <2>5. next \in CallStates
    BY <2>2, <2>3, <2>4, <1>t, <1>n DEF CallStates, Steps
  <2> QED BY <2>1, <2>2, <2>3, <2>5, <1>t, <1>n
             DEF CallInv, InTime, OfferLasts, Reserve, CallStates
<1>7. CASE Request(c)
  <2>1. store' = store BY <1>7 DEF Request
  <2>2. next = [old EXCEPT !.step = "flight", !.since = now]
    BY <1>7 DEF Request, IInv, TypeOK
  <2>3. old.client.token # 0
        /\ (old.client.expires # 0 => old.client.expires > now + Skew)
    BY <1>7 DEF Request, Usable, Fresh
  <2>4. next \in CallStates BY <2>2, <1>t DEF CallStates, Steps
  <2> QED BY <2>1, <2>2, <2>3, <2>4, <1>t, <1>p, TokenAssumption
             DEF CallInv, InTime, OfferLasts, Reserve, CallStates, Pairs
<1>8. CASE Fetch(c)
  <2>1. store' = store BY <1>8 DEF Fetch
  <2>2. next = [old EXCEPT !.step = "fetch", !.since = now]
    BY <1>8 DEF Fetch, IInv, TypeOK
  <2>3. next \in CallStates BY <2>2, <1>t DEF CallStates, Steps
  <2> QED BY <2>1, <2>2, <2>3, <1>t, TokenAssumption
             DEF CallInv, InTime, OfferLasts, Reserve, CallStates
<1>9. CASE Receive(c)
  <2>0. /\ old.step = "answer" /\ store' = store
        /\ Early(old.offered) /\ old.offered.token # 0
        /\ now <= old.since + MaxDelay
        /\ old.offered.expires > old.since + 2 * MaxDelay
    BY <1>9, <1>t DEF Receive, At, CallInv, OfferLasts, InTime
  <2>1. CASE old.first
    <3>1. next = [old EXCEPT !.client = old.offered, !.offered = None,
                             !.step = "save", !.copy = old.offered,
                             !.first = FALSE, !.since = 0]
      BY <1>9, <2>1, <1>t DEF Receive, IInv, TypeOK, CallStates
    <3>2. next \in CallStates
      BY <3>1, <1>t, <1>p, <1>n, <1>z DEF CallStates, Steps
    <3> QED BY <2>0, <3>1, <3>2, <1>t
               DEF CallInv, InTime, OfferLasts, Reserve, CallStates
  <2>2. CASE ~old.first
    <3>1. next = [old EXCEPT !.client = old.offered, !.offered = None,
                             !.step = "flight", !.since = now]
      BY <1>9, <2>2, <1>t DEF Receive, IInv, TypeOK, CallStates
    <3>2. next \in CallStates
      BY <3>1, <1>t, <1>p, <1>n DEF CallStates, Steps
    <3>3. old.offered.expires > now + MaxDelay
      BY <2>0, <1>t, <1>p, TokenAssumption DEF Pairs
    <3> QED BY <2>0, <3>1, <3>2, <3>3, <1>t, TokenAssumption
               DEF CallInv, InTime, OfferLasts, Reserve, CallStates
  <2> QED BY <2>1, <2>2
<1>10. CASE FetchFails(c)
  <2>1. store' = store BY <1>10 DEF FetchFails
  <2>2. CASE old.first
    <3>1. next = IdleCall BY <1>10, <2>2 DEF FetchFails, IInv, TypeOK
    <3> QED BY <2>1, <3>1, <1>i, <1>t
  <2>3. CASE ~old.first
    <3>1. next = [old EXCEPT !.step = "work", !.since = 0, !.offered = None]
      BY <1>10, <2>3 DEF FetchFails, IInv, TypeOK
    <3>2. next \in CallStates BY <3>1, <1>t, <1>n, <1>z DEF CallStates, Steps
    <3> QED BY <2>1, <3>1, <3>2, <1>t
               DEF CallInv, InTime, OfferLasts, Reserve, CallStates
  <2> QED BY <2>2, <2>3
<1>11. CASE Finished(c)
  <2>1. store' = store BY <1>11 DEF Finished
  <2>2. next = [old EXCEPT !.step = "work", !.since = 0]
    BY <1>11 DEF Finished, IInv, TypeOK
  <2>3. next \in CallStates BY <2>2, <1>z, <1>t DEF CallStates, Steps
  <2> QED BY <2>1, <2>2, <2>3, <1>t
             DEF CallInv, InTime, OfferLasts, Reserve, CallStates
<1>12. CASE Identified(c)
  <2>1. store' = store BY <1>12 DEF Identified
  <2>2. next = [old EXCEPT !.step = "save", !.since = 0, !.copy = old.client]
    BY <1>12 DEF Identified, IInv, TypeOK
  <2>3. next \in CallStates BY <2>2, <1>z, <1>t, <1>p DEF CallStates, Steps
  <2> QED BY <2>1, <2>2, <2>3, <1>t
             DEF CallInv, InTime, OfferLasts, Reserve, CallStates
<1>13. CASE Save(c)
  <2>1. store' = old.copy BY <1>13 DEF Save
  <2>2. CASE old.kind = "send"
    <3>1. next = [old EXCEPT !.step = "work"]
      BY <1>13, <2>2 DEF Save, IInv, TypeOK
    <3>2. next \in CallStates BY <3>1, <1>t DEF CallStates, Steps
    <3> QED BY <2>1, <3>1, <3>2, <1>t, <1>p
               DEF CallInv, InTime, OfferLasts, Reserve, CallStates
  <2>3. CASE old.kind # "send"
    <3>1. next = [old EXCEPT !.step = "between", !.phase = Media, !.client = None]
      BY <1>13, <2>3 DEF Save, IInv, TypeOK
    <3>2. Media \in Identity..Finish BY DEF Media, Identity, Finish
    <3>3. next \in CallStates BY <3>1, <3>2, <1>t, <1>n DEF CallStates, Steps
    <3> QED BY <2>1, <3>1, <3>3, <1>t, <1>p, <1>n
               DEF CallInv, InTime, OfferLasts, Reserve, CallStates
  <2> QED BY <2>2, <2>3
<1>14. CASE SaveLast(c)
  <2>1. store' = old.copy /\ next = IdleCall
    BY <1>14 DEF SaveLast, IInv, TypeOK
  <2> QED BY <2>1, <1>i, <1>t, <1>p DEF CallInv
<1>15. CASE End(c)
  <2>1. store' = store /\ next = IdleCall BY <1>15 DEF End, IInv, TypeOK
  <2> QED BY <2>1, <1>i, <1>t
<1> QED
  BY <1>1, <1>2, <1>3, <1>4, <1>5, <1>6, <1>7, <1>8, <1>9, <1>10, <1>11,
     <1>12, <1>13, <1>14, <1>15 DEF Step

\* A new token's expiry is late enough for the pair offered for it, and
\* concerns no other pair.
LEMMA IssueInv ==
    ASSUME IInv, NEW c \in Calls, NEW l \in Lifetimes, Issue(c, l)
    PROVE  IInv'
<1> USE TokenAssumption DEF IInv
<1> DEFINE life == IF l = 0 THEN DefaultLifetime ELSE l
<1>1. life \in Nat /\ life > 2 * MaxDelay OBVIOUS
<1>2. call[c].since \in Nat /\ now \in Nat /\ issued \in Nat
      /\ issued + 1 \in 1..MaxIssues
  BY DEF TypeOK, CallStates, Issue
<1>3. expiry' = [expiry EXCEPT ![issued + 1] = now + life]
  BY DEF Issue
<1>4. call' = [call EXCEPT ![c] =
          [call[c] EXCEPT !.step = "answer",
                          !.offered = [token |-> issued + 1,
                                       expires |-> call[c].since + life]]]
  BY DEF Issue, Offered, TypeOK, CallStates
<1>5. issued' = issued + 1 /\ now' = now /\ store' = store BY DEF Issue
<1> HIDE DEF life
<1>6. TypeOK'
  <2>1. [token |-> issued + 1, expires |-> call[c].since + life] \in Pairs
    BY <1>1, <1>2 DEF Pairs
  <2>2. call' \in [Calls -> CallStates]
    BY <1>4, <2>1, ZenonT(30) DEF TypeOK, CallStates, Steps
  <2> QED BY <1>1, <1>2, <1>3, <1>5, <2>2 DEF TypeOK
<1>7. ASSUME NEW p \in Pairs, Early(p)
      PROVE  /\ p.token <= issued'
             /\ p.token # 0 /\ p.expires # 0 => p.expires <= expiry'[p.token]
  <2>1. p.token \in Nat /\ p.expires \in Nat BY DEF Pairs
  <2>2. p.token # 0 => p.token \in 1..MaxIssues /\ p.token # issued + 1
    BY <2>1, <1>2, <1>7 DEF Early, TypeOK
  <2>3. p.token # 0 => expiry'[p.token] = expiry[p.token]
    BY <2>2, <1>3 DEF TypeOK
  <2> QED BY <2>1, <2>3, <1>2, <1>5, <1>7 DEF Early
<1>8. Early(store)' BY <1>5, <1>7 DEF TypeOK, Early
<1>9. ASSUME NEW d \in Calls PROVE CallInv(call[d])'
  <2> DEFINE old == call[d]
  <2>0. old \in CallStates /\ CallInv(call[d]) BY DEF TypeOK
  <2>a. old.copy \in Pairs /\ old.client \in Pairs /\ old.offered \in Pairs
        /\ old.since \in Nat
    BY <2>0 DEF CallStates
  <2>1. CASE d = c
    <3>1. /\ call'[d].copy = old.copy /\ call'[d].client = old.client
          /\ call'[d].since = old.since /\ call'[d].step = "answer"
          /\ call'[d].offered = [token |-> issued + 1,
                                 expires |-> old.since + life]
      BY <1>4, <2>0, <2>1 DEF TypeOK, CallStates
    <3>2. Early(old.copy)' /\ Early(old.client)'
      <4>1. Early(old.copy) /\ Early(old.client) BY <2>0 DEF CallInv
      <4>2. /\ old.copy.token <= issued'
            /\ old.copy.token # 0 /\ old.copy.expires # 0 =>
                   old.copy.expires <= expiry'[old.copy.token]
        BY <4>1, <2>a, <1>7
      <4>3. /\ old.client.token <= issued'
            /\ old.client.token # 0 /\ old.client.expires # 0 =>
                   old.client.expires <= expiry'[old.client.token]
        BY <4>1, <2>a, <1>7
      <4> QED BY <3>1, <4>2, <4>3 DEF Early
    <3>3. InTime(call[d])' 
      BY <2>0, <2>1, <3>1, <1>5 DEF InTime, CallInv, Issue, At
    <3>4. expiry'[issued + 1] = now + life BY <1>2, <1>3 DEF TypeOK
    <3>5. old.since <= now BY <2>0, <2>1 DEF CallInv, InTime, Issue, At
    <3>6. OfferLasts(call[d])'
      BY <1>1, <1>2, <1>5, <2>a, <3>1, <3>4, <3>5 DEF OfferLasts, At, Early
    <3> QED BY <3>1, <3>2, <3>3, <3>6 DEF CallInv, Reserve, At, Early
  <2>2. CASE d # c
    <3>1. call'[d] = call[d] BY <1>4, <2>2 DEF TypeOK
    <3>2. Early(old.copy)'
      BY <2>0, <2>a, <3>1, <1>7 DEF CallInv, Early
    <3>3. Early(old.client)'
      BY <2>0, <2>a, <3>1, <1>7 DEF CallInv, Early
    <3>4. OfferLasts(old)'
      BY <2>0, <2>a, <3>1, <1>7 DEF CallInv, OfferLasts, Early
    <3> QED
      BY <2>0, <3>1, <3>2, <3>3, <3>4, <1>5 DEF CallInv, InTime, Reserve
  <2> QED BY <2>1, <2>2
<1> QED BY <1>6, <1>8, <1>9

\* The clock does not pass the timeout of what is under way.
LEMMA TickInv == ASSUME IInv, Tick PROVE IInv'
<1> USE DEF IInv
<1>1. TypeOK' BY DEF TypeOK, Tick
<1>2. Early(store)' BY DEF Early, Tick
<1>3. ASSUME NEW c \in Calls PROVE CallInv(call[c])'
  <2>1. call[c].since \in Nat /\ now \in Nat /\ MaxDelay \in Nat
    BY TokenAssumption DEF TypeOK, CallStates
  <2> QED
    BY <2>1 DEF Tick, CallInv, Early, InTime, OfferLasts, Reserve, At
<1> QED BY <1>1, <1>2, <1>3

\* The invariant says nothing of what a stuttering step could change.
LEMMA StutterInv == ASSUME IInv, UNCHANGED vars PROVE IInv'
  BY DEF vars, IInv, TypeOK, CallInv, Early, InTime, OfferLasts, Reserve, At

\* Every action preserves the invariant.
LEMMA NextInv == IInv /\ [Next]_vars => IInv'
  BY StepInv, IssueInv, TickInv, StutterInv DEF Next

\* The invariant of every reachable state.
LEMMA Invariant == Spec => []IInv
  BY InitInv, NextInv, PTL DEF Spec

-----------------------------------------------------------------------------

\* Every variable stays within its type (TokenCache!TypeOK).
THEOREM TypeCorrect == Spec => []TypeOK
<1>1. IInv => TypeOK BY DEF IInv
<1> QED BY <1>1, Invariant, PTL

\* The account state and the clients never record an expiry later than the
\* platform's, whatever calls overlap (TenantAccessTokenWithExpiry,
\* captureLarkClientToken, the saves of whole states).
THEOREM NeverRecordedLate == Spec => []RecordedInTime
<1>1. IInv => RecordedInTime
  BY DEF IInv, RecordedInTime, Held, CallInv, Early
<1> QED BY <1>1, Invariant, PTL

\* A request never outlasts a token whose expiry is known: the reserve of
\* tokenForRequest covers the timeout, and a new token outlives its own fetch
\* and the request it was fetched for.
THEOREM NeverExpiresInFlight == Spec => []AcceptedInFlight
<1>1. IInv => AcceptedInFlight
  <2> SUFFICES ASSUME IInv, NEW c \in Calls, At(c, "flight"), call[c].client.expires # 0
               PROVE  now < expiry[call[c].client.token]
    BY DEF AcceptedInFlight
  <2>1. CallInv(call[c]) BY DEF IInv
  <2>2. call[c].client \in Pairs /\ call[c].since \in Nat /\ now \in Nat
        /\ issued \in 0..MaxIssues /\ expiry \in [1..MaxIssues -> Nat]
    BY DEF IInv, TypeOK, CallStates
  <2>3. call[c].client.token \in 1..MaxIssues
    BY <2>1, <2>2, TokenAssumption, SMTT(20) DEF CallInv, Early, Reserve, Pairs, At
  <2>4. call[c].client.expires > call[c].since + MaxDelay
        /\ now <= call[c].since + MaxDelay
    BY <2>1 DEF CallInv, InTime, Reserve, At
  <2>5. call[c].client.expires <= expiry[call[c].client.token]
    BY <2>1, <2>3 DEF CallInv, Early
  <2>6. expiry[call[c].client.token] \in Nat BY <2>2, <2>3
  <2>7. call[c].client.expires \in Nat BY <2>2 DEF Pairs
  <2>8. MaxDelay \in Nat BY TokenAssumption
  <2> QED BY <2>2, <2>4, <2>5, <2>6, <2>7, <2>8
<1> QED BY <1>1, Invariant, PTL
=============================================================================
