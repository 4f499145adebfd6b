--------------------------- MODULE PaymentsProofs ---------------------------
(***************************************************************************)
(* Theorems about Payments, for any number of requests, callers, checkouts *)
(* and events.                                                             *)
(***************************************************************************)
EXTENDS Payments, TLAPS

-----------------------------------------------------------------------------
(* The inductive invariant *)

\* A checkout has a session unless it is new, and is of an approved request.
RowsAreSound ==
  \A c \in Checkouts :
    \/ checkout[c] = NoRow
    \/ /\ checkout[c].state # "none"
       /\ checkout[c].attached <=> checkout[c].state # "created"
       /\ occupancy[c[1]] # "none"

\* A call has read the clock in the past, and receives what was sent.
CallsAreSound ==
  \A p \in Callers :
    /\ caller[p].phase = "preparing" => caller[p].at <= now
    /\ caller[p].phase = "receiving" => sent[caller[p].event] # Unsent

\* Checkout c has session s.
Has(c, s) == checkout[c].attached /\ SessionOf(c) = s

\* No session is attached to two checkouts.
SessionsAreApart ==
  \A c, d \in Checkouts, s \in Sessions : Has(c, s) /\ Has(d, s) => c = d

\* A guest's session is attached.
GivenAreAttached == \A s \in given : \E c \in Checkouts : Has(c, s)

\* Only a guest who has a session pays it, and only payments are successes.
SuccessesAreCharged ==
  /\ \A s \in Sessions : session[s] = "charged" => s \in given
  /\ \A e \in EventIds : sent[e] # Unsent /\ sent[e].type = "succeeded" =>
       session[sent[e].session] = "charged"

\* What was received was sent.
ReceivedWereSent == \A e \in EventIds : received[e] # "absent" => sent[e] # Unsent

IInv ==
  /\ TypeOK
  /\ RowsAreSound
  /\ CallsAreSound
  /\ SessionsAreApart
  /\ GivenAreAttached
  /\ SuccessesAreCharged
  /\ ReceivedWereSent
  /\ OneLiveCheckout
  /\ PaymentsAreKnown
  /\ OneEventDecides
  /\ OutcomesHold

-----------------------------------------------------------------------------
(* Types *)

\* A checkout is a request and a number, and has a session.
LEMMA CheckoutFields ==
  ASSUME TypeOK, NEW c \in Checkouts
  PROVE  /\ c[1] \in Requests
         /\ checkout[c] \in Row
         /\ SessionOf(c) \in Sessions
<1>1. c[1] \in Requests /\ checkout[c] \in Row
  BY DEF Checkouts, TypeOK
<1> QED BY <1>1 DEF SessionOf, Sessions, Row

\* The fields of a call, phase by phase.
LEMMA CallFields ==
  ASSUME TypeOK, NEW p \in Callers
  PROVE  /\ caller[p].phase = "preparing" => caller[p].request \in Requests /\ caller[p].at \in Time
         /\ caller[p].phase \in {"creating", "attaching"} => caller[p].checkout \in Checkouts
         /\ caller[p].phase = "receiving" => caller[p].event \in EventIds /\ caller[p].at \in Time
<1>1. caller[p] \in Calls
  BY DEF TypeOK
<1> QED BY <1>1 DEF Calls, Idle

\* An event that was sent has a type and a session.
LEMMA EventFields ==
  ASSUME TypeOK, NEW e \in EventIds, sent[e] # Unsent
  PROVE  sent[e] \in Event /\ sent[e].type \in EventTypes /\ sent[e].session \in Sessions
  BY DEF TypeOK, Event

LEMMA InitTypeOK == Init => TypeOK
<1> USE MaxTimeAssumption, DurationAssumption
<1>1. NoRow \in Row
  BY DEF NoRow, Row, Time, Expiries
<1>2. Init => now \in Time
  BY DEF Init, Time
<1> QED BY <1>1, <1>2 DEF Init, TypeOK, Calls

\* A caller that becomes idle is well typed.
LEMMA IdleIsACall ==
  ASSUME TypeOK, NEW p \in Callers, NEW call \in Calls, Become(p, call)
  PROVE  caller' \in [Callers -> Calls] /\ caller'[p] = call
  BY DEF TypeOK, Become

LEMMA StepTypeOK == TypeOK /\ CallsAreSound /\ [Next]_vars => TypeOK'
<1> SUFFICES ASSUME TypeOK, CallsAreSound, [Next]_vars PROVE TypeOK'
  OBVIOUS
<1> USE MaxTimeAssumption, DurationAssumption
<1>0. Idle \in Calls
  BY DEF Calls
<1>1. CASE Tick
  BY <1>1 DEF Tick, TypeOK, Time, provider
<1>2. ASSUME NEW r \in Requests, Approve(r) \/ Release(r) PROVE TypeOK'
  BY <1>2 DEF Approve, Release, TypeOK, provider
<1>3. ASSUME NEW p \in Callers, NEW r \in Requests, StartCheckout(p, r) PROVE TypeOK'
  <2>1. [phase |-> "preparing", request |-> r, at |-> now] \in Calls
    BY DEF TypeOK, Calls
  <2> QED BY <1>3, <2>1, IdleIsACall DEF StartCheckout, TypeOK, provider
<1>4. ASSUME NEW p \in Callers, NEW e \in EventIds, Deliver(p, e) PROVE TypeOK'
  <2>1. [phase |-> "receiving", event |-> e, at |-> now] \in Calls
    BY DEF TypeOK, Calls
  <2> QED BY <1>4, <2>1, IdleIsACall DEF Deliver, TypeOK, provider
<1>5. ASSUME NEW p \in Callers, Reuse(p) PROVE TypeOK'
  <2>1. PICK c \in Checkouts : Become(p, [phase |-> "creating", checkout |-> c])
    BY <1>5 DEF Reuse, Reusable
  <2>2. [phase |-> "creating", checkout |-> c] \in Calls
    BY DEF Calls
  <2> QED BY <1>5, <2>1, <2>2, IdleIsACall DEF Reuse, TypeOK, provider
<1>6. ASSUME NEW p \in Callers, Insert(p) PROVE TypeOK'
  <2>1. caller[p].request \in Requests /\ caller[p].at \in Time
    BY <1>6, CallFields DEF Insert
  <2>2. PICK n \in 1..MaxCheckoutAttempts :
          /\ checkout' = [checkout EXCEPT ![<<caller[p].request, n>>] =
                            [state |-> "created", created |-> caller[p].at,
                             expires |-> caller[p].at + CheckoutDuration, attached |-> FALSE]]
          /\ Become(p, [phase |-> "creating", checkout |-> <<caller[p].request, n>>])
    BY <1>6 DEF Insert
  <2>3. <<caller[p].request, n>> \in Checkouts
    BY <2>1 DEF Checkouts
  <2>4. [phase |-> "creating", checkout |-> <<caller[p].request, n>>] \in Calls
    BY <2>3 DEF Calls
  <2>5. caller[p].at + CheckoutDuration \in Expiries
    BY <2>1 DEF Time, Expiries
  <2>6. checkout' \in [Checkouts -> Row]
    BY <2>1, <2>2, <2>5 DEF TypeOK, Row
  <2> QED BY <1>6, <2>2, <2>4, <2>6, IdleIsACall DEF Insert, TypeOK, provider
<1>7. ASSUME NEW p \in Callers, CreateSession(p) PROVE TypeOK'
  <2>1. caller[p].checkout \in Checkouts
    BY <1>7, CallFields DEF CreateSession
  <2>2. [phase |-> "attaching", checkout |-> caller[p].checkout, at |-> now] \in Calls
    BY <2>1 DEF Calls, TypeOK
  <2>3. session' \in [Sessions -> {"none", "open", "charged", "closed"}]
    BY <1>7 DEF CreateSession, TypeOK
  <2>4. caller' \in [Callers -> Calls]
    BY <1>7, <2>2, <1>0 DEF CreateSession, Become, TypeOK
  <2> QED BY <1>7, <2>3, <2>4 DEF CreateSession, TypeOK
<1>8. ASSUME NEW p \in Callers, Attach(p) PROVE TypeOK'
  <2>1. caller[p].checkout \in Checkouts
    BY <1>8, CallFields DEF Attach
  <2>2. SessionOf(caller[p].checkout) \in Sessions /\ checkout[caller[p].checkout] \in Row
    BY <2>1, CheckoutFields
  <2>3. checkout' \in [Checkouts -> Row]
    BY <1>8, <2>1, <2>2 DEF Attach, TypeOK, Row
  <2> QED BY <1>0, <1>8, <2>2, <2>3, IdleIsACall DEF Attach, Answer, TypeOK
<1>9. ASSUME NEW p \in Callers, AttachedBefore(p) PROVE TypeOK'
  <2>1. SessionOf(caller[p].checkout) \in Sessions
    BY <1>9, CallFields, CheckoutFields DEF AttachedBefore
  <2> QED BY <1>0, <1>9, <2>1, IdleIsACall DEF AttachedBefore, Answer, TypeOK
<1>10. ASSUME NEW p \in Callers, PrepareFails(p) \/ AttachFails(p) \/ ReceiveDuplicate(p)
       PROVE  TypeOK'
  BY <1>0, <1>10, IdleIsACall DEF PrepareFails, AttachFails, ReceiveDuplicate, TypeOK, provider
<1>11. ASSUME NEW p \in Callers, ReceiveRejected(p) \/ ReceiveIgnored(p) PROVE TypeOK'
  <2>1. PICK code \in Outcomes : Judge(p, code)
    BY <1>11 DEF ReceiveRejected, ReceiveIgnored, Outcomes, Ignored, Rejected
  <2>2. received' \in [EventIds -> {"absent"} \cup Outcomes] /\ Become(p, Idle)
    BY <2>1 DEF Judge, TypeOK
  <2> QED BY <1>0, <1>11, <2>2, IdleIsACall DEF ReceiveRejected, ReceiveIgnored, TypeOK, provider
<1>12. ASSUME NEW p \in Callers, ReceiveApplied(p) PROVE TypeOK'
  <2> DEFINE e == caller[p].event
             outcome == IF sent[e].type = "succeeded" THEN "paid" ELSE sent[e].type
  <2>1. PICK code \in Outcomes : Judge(p, code)
    BY <1>12 DEF ReceiveApplied, Outcomes, Ignored
  <2>2. received' \in [EventIds -> {"absent"} \cup Outcomes] /\ Become(p, Idle)
    BY <2>1 DEF Judge, TypeOK
  <2>3. PICK c \in Checkouts :
          \/ checkout' = [checkout EXCEPT ![c].state = "expired"]
          \/ checkout' = [checkout EXCEPT ![c].state = outcome]
    BY <1>12 DEF ReceiveApplied, Late
  <2>4. e \in EventIds /\ sent[e] # Unsent
    BY <1>12, CallFields DEF ReceiveApplied, CallsAreSound
  <2>5. outcome \in {"paid", "failed", "expired"}
    BY <2>4, EventFields DEF EventTypes
  <2>6. checkout[c] \in Row
    BY CheckoutFields
  <2> HIDE DEF outcome
  <2>7. checkout' \in [Checkouts -> Row]
    BY <2>3, <2>5, <2>6 DEF TypeOK, Row
  <2> QED BY <1>0, <1>12, <2>2, <2>7, IdleIsACall DEF ReceiveApplied, TypeOK, provider
<1>13. ASSUME NEW p \in Callers, Crash(p) PROVE TypeOK'
  BY <1>0, <1>13, IdleIsACall DEF Crash, RolledBack, TypeOK, provider
<1>14. ASSUME NEW s \in Sessions, NEW e \in EventIds, Provider(s, e) PROVE TypeOK'
  <2>1. PICK type \in EventTypes, agrees \in BOOLEAN :
          /\ Send(e, type, s, agrees)
          /\ session' \in [Sessions -> {"none", "open", "charged", "closed"}]
    BY <1>14 DEF Provider, Charge, Repeat, Decline, Close, EventTypes, TypeOK
  <2>2. [type |-> type, session |-> s, agrees |-> agrees] \in Event
    BY DEF Event
  <2> QED BY <2>1, <2>2 DEF Send, TypeOK
<1>15. CASE UNCHANGED vars
  BY <1>15 DEF vars, TypeOK, provider
<1> QED BY <1>1, <1>2, <1>3, <1>4, <1>5, <1>6, <1>7, <1>8, <1>9, <1>10, <1>11, <1>12, <1>13,
           <1>14, <1>15 DEF Next, Serve, Receive

\* The clock goes on, and what was sent stays sent.
LEMMA StepCallsAreSound == TypeOK /\ CallsAreSound /\ [Next]_vars => CallsAreSound'
<1> SUFFICES ASSUME TypeOK, CallsAreSound, [Next]_vars PROVE CallsAreSound'
  OBVIOUS
<1>1. now \in Nat /\ now' \in Nat /\ now <= now'
  <2>1. now \in Nat
    BY MaxTimeAssumption DEF TypeOK, Time
  <2>2. now' = now \/ now' = now + 1
    BY DEF Next, Tick, Approve, Release, StartCheckout, Deliver, Serve, Reuse, Insert,
           PrepareFails, CreateSession, Attach, AttachedBefore, AttachFails, Receive,
           ReceiveDuplicate, ReceiveRejected, ReceiveIgnored, ReceiveApplied, Crash,
           Provider, Charge, Repeat, Decline, Close, Send, vars
  <2> QED BY <2>1, <2>2
<1>2. \A e \in EventIds : sent[e] # Unsent => sent'[e] # Unsent
  <2>1. ASSUME NEW s \in Sessions, NEW e \in EventIds, Provider(s, e)
        PROVE  \A f \in EventIds : sent[f] # Unsent => sent'[f] = sent[f]
    BY <2>1 DEF Provider, Charge, Repeat, Decline, Close, Send, TypeOK
  <2>2. CASE ~\E s \in Sessions, e \in EventIds : Provider(s, e)
    BY <2>2 DEF Next, Tick, Approve, Release, StartCheckout, Deliver, Serve, Reuse, Insert,
           PrepareFails, CreateSession, Attach, AttachedBefore, AttachFails, Receive,
           ReceiveDuplicate, ReceiveRejected, ReceiveIgnored, ReceiveApplied, Crash,
           provider, vars
  <2> QED BY <2>1, <2>2
<1>3. \A p \in Callers :
        \/ caller'[p] = caller[p]
        \/ caller'[p].phase = "preparing" /\ caller'[p].at = now
        \/ caller'[p].phase = "receiving" /\ caller'[p].event \in EventIds
           /\ sent[caller'[p].event] # Unsent
        \/ caller'[p].phase \in {"idle", "creating", "attaching"}
  <2> DEFINE Moves(p) ==
        \/ caller'[p] = caller[p]
        \/ caller'[p].phase = "preparing" /\ caller'[p].at = now
        \/ caller'[p].phase = "receiving" /\ caller'[p].event \in EventIds
           /\ sent[caller'[p].event] # Unsent
        \/ caller'[p].phase \in {"idle", "creating", "attaching"}
  <2> SUFFICES ASSUME NEW q \in Callers PROVE Moves(q)
    OBVIOUS
  <2>1. ASSUME NEW p \in Callers, NEW r \in Requests, StartCheckout(p, r) PROVE Moves(q)
    BY <2>1 DEF StartCheckout, Become, TypeOK
  <2>2. ASSUME NEW p \in Callers, NEW e \in EventIds, Deliver(p, e) PROVE Moves(q)
    BY <2>2 DEF Deliver, Become, TypeOK
  <2>3. ASSUME NEW p \in Callers, Reuse(p) \/ Insert(p) \/ CreateSession(p) PROVE Moves(q)
    <3>1. PICK call : Become(p, call) /\ call.phase \in {"idle", "creating", "attaching"}
      <4>1. CASE Reuse(p)
        BY <4>1 DEF Reuse
      <4>2. CASE Insert(p)
        BY <4>2 DEF Insert
      <4>3. CASE CreateSession(p)
        BY <4>3 DEF CreateSession, Idle
      <4> QED BY <2>3, <4>1, <4>2, <4>3
    <3> QED BY <3>1 DEF Become, TypeOK
  <2>4. ASSUME NEW p \in Callers,
               PrepareFails(p) \/ Attach(p) \/ AttachedBefore(p) \/ AttachFails(p)
                 \/ Receive(p) \/ Crash(p)
        PROVE  Moves(q)
    <3>1. Become(p, Idle)
      BY <2>4 DEF PrepareFails, Attach, AttachedBefore, AttachFails, Receive, Crash,
                  ReceiveDuplicate, ReceiveRejected, ReceiveIgnored, ReceiveApplied, Judge
    <3> QED BY <3>1 DEF Become, TypeOK, Idle
  <2>5. CASE UNCHANGED caller
    BY <2>5
  <2> QED BY <2>1, <2>2, <2>3, <2>4, <2>5
          DEF Next, Serve, Tick, Approve, Release, Provider, Charge, Repeat, Decline, Close,
              Send, vars
<1> QED
  <2> SUFFICES ASSUME NEW p \in Callers
               PROVE  /\ caller'[p].phase = "preparing" => caller'[p].at <= now'
                      /\ caller'[p].phase = "receiving" => sent'[caller'[p].event] # Unsent
    BY DEF CallsAreSound
  <2>1. CASE caller'[p] = caller[p]
    <3>1. caller[p].phase = "preparing" => caller[p].at \in Nat /\ caller[p].at <= now
      BY MaxTimeAssumption, CallFields DEF CallsAreSound, Time
    <3> QED BY <1>1, <1>2, <2>1, <3>1, CallFields DEF CallsAreSound
  <2>2. CASE caller'[p] # caller[p]
    BY <1>1, <1>2, <1>3, <2>2
  <2> QED BY <2>1, <2>2

LEMMA InitCallsAreSound == Init => CallsAreSound
  BY DEF Init, CallsAreSound, Idle

\* Every reachable state is well typed.
THEOREM PaymentsTypeCorrectness == Spec => []TypeOK
<1>1. Init => TypeOK /\ CallsAreSound
  BY InitTypeOK, InitCallsAreSound
<1>2. TypeOK /\ CallsAreSound /\ [Next]_vars => (TypeOK /\ CallsAreSound)'
  BY StepTypeOK, StepCallsAreSound
<1> QED BY <1>1, <1>2, PTL DEF Spec

-----------------------------------------------------------------------------
(* One lemma per kind of step *)

\* What the provider and its guests do, and what calls do for them, in any step.
\* Nothing is taken back, guests learn of attached sessions only, and a success
\* is sent of a charged session only.
ProviderMovesOn ==
  /\ given \subseteq given'
  /\ \A s \in given' : s \in given \/ \E c \in Checkouts : Has(c, s)'
  /\ \A s \in Sessions : session[s] = "charged" => session'[s] = "charged"
  /\ \A s \in Sessions : session'[s] = "charged" => session[s] = "charged" \/ s \in given
  /\ \A e \in EventIds :
       \/ sent'[e] = sent[e]
       \/ /\ sent[e] = Unsent /\ sent'[e] # Unsent
          /\ sent'[e].type = "succeeded" => session'[sent'[e].session] = "charged"

\* With attached checkouts that keep their sessions, the facts about the
\* provider are kept.
LEMMA ProviderFactsKept ==
  ASSUME IInv, TypeOK', ProviderMovesOn,
         \A c \in Checkouts, s \in Sessions : Has(c, s) => Has(c, s)'
  PROVE  GivenAreAttached' /\ SuccessesAreCharged'
<1> USE DEF IInv
<1>1. GivenAreAttached'
  BY DEF ProviderMovesOn, GivenAreAttached, TypeOK
<1>2. \A s \in Sessions : session'[s] = "charged" => s \in given'
  BY DEF ProviderMovesOn, SuccessesAreCharged
<1>3. ASSUME NEW e \in EventIds, sent'[e] # Unsent, sent'[e].type = "succeeded"
      PROVE  session'[sent'[e].session] = "charged"
  <2>1. CASE sent'[e] = sent[e]
    BY <1>3, <2>1, EventFields DEF ProviderMovesOn, SuccessesAreCharged
  <2>2. CASE sent'[e] # sent[e]
    BY <1>3, <2>2 DEF ProviderMovesOn
  <2> QED BY <2>1, <2>2
<1> QED BY <1>1, <1>2, <1>3 DEF SuccessesAreCharged

\* Steps that write neither a checkout nor the outcome of an event.
LEMMA QuietKeepsIInv ==
  ASSUME IInv, TypeOK', CallsAreSound', ProviderMovesOn,
         UNCHANGED <<checkout, received>>, now <= now',
         \A r \in Requests :
           \/ occupancy'[r] = occupancy[r]
           \/ occupancy[r] # "released" /\ occupancy'[r] # "none"
  PROVE  IInv'
<1> USE DEF IInv
<1>1. \A c \in Checkouts : c[1] \in Requests /\ SessionOf(c)' = SessionOf(c)
  BY CheckoutFields DEF SessionOf
<1>2. RowsAreSound'
  BY <1>1 DEF RowsAreSound
<1>3. SessionsAreApart'
  BY <1>1 DEF SessionsAreApart, Has
<1>4. OneLiveCheckout'
  <2>1. \A c \in Checkouts : Payable(c)' => Payable(c)
    <3> SUFFICES ASSUME NEW c \in Checkouts, Payable(c)' PROVE Payable(c)
      OBVIOUS
    <3>1. now \in Nat /\ now' \in Nat /\ checkout[c].expires \in Nat
      BY CheckoutFields, MaxTimeAssumption, DurationAssumption DEF TypeOK, Time, Row, Expiries
    <3> QED BY <3>1 DEF Payable
  <2> QED BY <2>1 DEF OneLiveCheckout
<1>5. GivenAreAttached' /\ SuccessesAreCharged'
  BY <1>1, ProviderFactsKept DEF Has
<1>6. \A e \in EventIds : received[e] # "absent" => sent[e] # Unsent /\ sent'[e] = sent[e]
  BY DEF ReceivedWereSent, ProviderMovesOn
<1>7. ReceivedWereSent' /\ PaymentsAreKnown'
  BY <1>6 DEF ReceivedWereSent, PaymentsAreKnown, TypeOK, Rejected
<1>8. OutcomesHold'
  <2>1. \A e \in EventIds, c \in Checkouts :
          received[e] \in {"processed"} \cup Ignored /\ Fits(e, c) => Fits(e, c)'
    BY <1>1, <1>6 DEF Fits, Final, Ignored
  <2> QED BY <2>1 DEF OutcomesHold
<1>9. OneEventDecides'
  BY <1>1, <1>6 DEF OneEventDecides, Decided, Final
<1> QED BY <1>2, <1>3, <1>4, <1>5, <1>7, <1>8, <1>9

\* A new checkout has no session, and there was none to go on with.
LEMMA InsertKeepsIInv ==
  ASSUME IInv, TypeOK', CallsAreSound', NEW p \in Callers, Insert(p)
  PROVE  IInv'
<1> USE DEF IInv
<1> DEFINE call == caller[p]
<1>1. /\ call.phase = "preparing" /\ call.request \in Requests
      /\ call.at \in Nat /\ now \in Nat /\ call.at <= now
  BY CallFields, MaxTimeAssumption DEF Insert, CallsAreSound, TypeOK, Time
<1>2. PICK n \in 1..MaxCheckoutAttempts :
        /\ NextAttempt(call.request, n)
        /\ checkout' = [checkout EXCEPT ![<<call.request, n>>] =
                          [state |-> "created", created |-> call.at,
                           expires |-> call.at + CheckoutDuration, attached |-> FALSE]]
  BY DEF Insert
<1> DEFINE new == <<call.request, n>>
<1>3. new \in Checkouts /\ new[1] = call.request /\ checkout[new] = NoRow
  BY <1>1, <1>2 DEF Checkouts, NextAttempt
<1>4. checkout'[new].state = "created" /\ ~checkout'[new].attached
  BY <1>2, <1>3 DEF TypeOK
<1>5. \A c \in Checkouts : c # new => checkout'[c] = checkout[c] /\ SessionOf(c)' = SessionOf(c)
  BY <1>2, <1>3 DEF TypeOK, SessionOf
<1>6. /\ UNCHANGED <<now, occupancy, received, provider>>
      /\ occupancy[new[1]] = "active"
      /\ Reusable(call.request, call.at) = {}
  BY <1>3 DEF Insert
<1> HIDE DEF new, call
<1>7. \A c \in Checkouts, s \in Sessions : Has(c, s)' <=> Has(c, s)
  BY <1>3, <1>4, <1>5 DEF Has, NoRow
<1>8. RowsAreSound'
  BY <1>4, <1>5, <1>6 DEF RowsAreSound
<1>9. SessionsAreApart'
  BY <1>7 DEF SessionsAreApart
<1>10. OneLiveCheckout'
  <2>1. ASSUME NEW c \in Checkouts, c[1] = new[1] PROVE ~Payable(c)
    <3>1. checkout[c].expires \in Nat
      BY CheckoutFields, MaxTimeAssumption, DurationAssumption DEF Row, Expiries
    <3>2. ~Unfinished(c) \/ ~(checkout[c].expires > call.at)
      BY <1>3, <1>6, <2>1 DEF Reusable
    <3> QED BY <1>1, <3>1, <3>2 DEF Payable, Unfinished
  <2>2. \A c \in Checkouts : c # new => (Payable(c)' <=> Payable(c))
    BY <1>5, <1>6 DEF Payable
  <2> QED BY <2>1, <2>2 DEF OneLiveCheckout
<1>11. ProviderMovesOn
  BY <1>6 DEF ProviderMovesOn, provider
<1>12. GivenAreAttached' /\ SuccessesAreCharged'
  BY <1>7, <1>11, ProviderFactsKept
<1>13. ReceivedWereSent' /\ PaymentsAreKnown'
  BY <1>6 DEF ReceivedWereSent, PaymentsAreKnown, provider
<1>14. OutcomesHold'
  <2>1. \A e \in EventIds, c \in Checkouts : Fits(e, c) => Fits(e, c)'
    BY <1>3, <1>5, <1>6 DEF Fits, Final, NoRow, provider
  <2> QED BY <1>6, <2>1 DEF OutcomesHold
<1>15. OneEventDecides'
  BY <1>4, <1>5, <1>6 DEF OneEventDecides, Decided, Final, provider
<1> QED BY <1>8, <1>9, <1>10, <1>12, <1>13, <1>14, <1>15

\* A checkout gets its session, which no other has: no event has decided it.
LEMMA AttachKeepsIInv ==
  ASSUME IInv, TypeOK', CallsAreSound', NEW p \in Callers, Attach(p)
  PROVE  IInv'
<1> USE DEF IInv
<1>1. PICK c \in Checkouts : c = caller[p].checkout
  BY CallFields DEF Attach
<1>2. /\ ~checkout[c].attached /\ checkout[c].state = "created" /\ ~SessionTaken(c)
      /\ checkout' = [checkout EXCEPT ![c].attached = TRUE, ![c].state = "open"]
      /\ Answer(p)
      /\ UNCHANGED <<now, occupancy, received, session, sent>>
  BY <1>1 DEF Attach, Attachable
<1>3. PICK s \in Sessions : s = SessionOf(c)
  BY CheckoutFields
<1>4. checkout'[c].attached /\ checkout'[c].state = "open" /\ SessionOf(c)' = s
      /\ checkout'[c].expires = checkout[c].expires
  BY <1>2, <1>3, CheckoutFields DEF TypeOK, Row, SessionOf
<1>5. \A d \in Checkouts : d # c => checkout'[d] = checkout[d] /\ SessionOf(d)' = SessionOf(d)
  BY <1>2 DEF TypeOK, SessionOf
<1>6. Answer(p) => given' = given \cup {s} \/ UNCHANGED given
  BY <1>1, <1>3 DEF Answer
<1>7. \A d \in Checkouts : ~Has(d, s)
  BY <1>2, <1>3 DEF Has, SessionTaken
<1>8. Has(c, s)' /\ \A d \in Checkouts, t \in Sessions : d # c \/ t # s => (Has(d, t)' <=> Has(d, t))
  <2>1. Has(c, s)'
    BY <1>4 DEF Has
  <2>2. \A t \in Sessions : t # s => ~Has(c, t)' /\ ~Has(c, t)
    BY <1>2, <1>4 DEF Has
  <2>3. \A d \in Checkouts, t \in Sessions : d # c => (Has(d, t)' <=> Has(d, t))
    BY <1>5 DEF Has
  <2> QED BY <2>1, <2>2, <2>3
<1>9. RowsAreSound'
  <2>1. checkout'[c].attached <=> checkout'[c].state # "created"
    BY <1>4
  <2>2. occupancy[c[1]] # "none"
    BY <1>2 DEF RowsAreSound, NoRow
  <2> QED BY <1>2, <1>4, <1>5, <2>1, <2>2 DEF RowsAreSound
<1>10. SessionsAreApart'
  BY <1>4, <1>7, <1>8 DEF SessionsAreApart
<1>11. OneLiveCheckout'
  <2>1. \A d \in Checkouts : Payable(d)' <=> Payable(d)
    BY <1>2, <1>4, <1>5 DEF Payable
  <2> QED BY <2>1 DEF OneLiveCheckout
<1>12. ProviderMovesOn
  BY <1>2, <1>6, <1>8 DEF ProviderMovesOn
<1>13. GivenAreAttached' /\ SuccessesAreCharged'
  BY <1>7, <1>8, <1>12, ProviderFactsKept
<1>14. ReceivedWereSent' /\ PaymentsAreKnown'
  BY <1>2 DEF ReceivedWereSent, PaymentsAreKnown
<1>15. OutcomesHold'
  <2>1. \A e \in EventIds, d \in Checkouts : Fits(e, d) => Fits(e, d)'
    BY <1>2, <1>5 DEF Fits, Final
  <2> QED BY <1>2, <2>1 DEF OutcomesHold
<1>16. OneEventDecides'
  <2>1. ASSUME NEW e \in EventIds, Decided(e) PROVE sent[e].session # s
    <3>1. PICK d \in Checkouts : checkout[d].attached /\ SessionOf(d) = sent[e].session
      BY <2>1 DEF Decided, OutcomesHold, Fits, Ignored
    <3> QED BY <1>7, <3>1 DEF Has
  <2>2. ASSUME NEW d \in Checkouts, d # c
        PROVE  /\ checkout'[d].attached <=> checkout[d].attached
               /\ Final(d)' <=> Final(d)
               /\ SessionOf(d)' = SessionOf(d)
    BY <1>5, <2>2 DEF Final
  <2>3. \A e \in EventIds : Decided(e)' <=> Decided(e)
    BY <1>2 DEF Decided
  <2>4. ~Final(c)'
    BY <1>4 DEF Final
  <2> QED BY <1>2, <1>4, <2>1, <2>2, <2>3, <2>4 DEF OneEventDecides
<1> QED BY <1>9, <1>10, <1>11, <1>13, <1>14, <1>15, <1>16

\* An event is put aside.  A success is never unknown, since its session was
\* given to a guest and so is attached.
LEMMA PutAsideKeepsIInv ==
  ASSUME IInv, TypeOK', CallsAreSound', NEW p \in Callers, ReceiveRejected(p) \/ ReceiveIgnored(p)
  PROVE  IInv'
<1> USE DEF IInv
<1>1. PICK e \in EventIds : e = caller[p].event
  BY CallFields DEF ReceiveRejected, ReceiveIgnored
<1>2. /\ New(e) /\ sent[e] # Unsent
      /\ UNCHANGED <<now, occupancy, checkout, provider>>
  BY <1>1 DEF ReceiveRejected, ReceiveIgnored, CallsAreSound
<1>3. PICK code \in Ignored \cup Rejected :
        /\ received' = [received EXCEPT ![e] = code]
        /\ code = "unknown_checkout" => \A c \in Checkouts : ~Loaded(c, sent[e].session)
        /\ code \in Ignored => \E c \in Checkouts :
             /\ Loaded(c, sent[e].session)
             /\ code = "terminal_state" => Terminal(c)
             /\ code = "occupancy_unavailable" => occupancy[c[1]] # "active"
             /\ code # "checkout_expired"
  <2>1. CASE ReceiveRejected(p)
    BY <1>1, <2>1 DEF ReceiveRejected, Judge, Ignored, Rejected
  <2>2. CASE ReceiveIgnored(p)
    BY <1>1, <2>2 DEF ReceiveIgnored, Judge, Ignored, Rejected
  <2> QED BY <2>1, <2>2
<1>4. received'[e] = code /\ \A f \in EventIds : f # e => received'[f] = received[f]
  BY <1>3 DEF TypeOK
<1>5. received[e] = "absent"
  BY <1>2 DEF New
<1>6. \A c \in Checkouts : SessionOf(c)' = SessionOf(c)
  BY <1>2 DEF SessionOf
<1>7. RowsAreSound' /\ SessionsAreApart' /\ OneLiveCheckout'
  BY <1>2, <1>6 DEF RowsAreSound, SessionsAreApart, Has, OneLiveCheckout, Payable
<1>8. ProviderMovesOn
  BY <1>2 DEF ProviderMovesOn, provider
<1>9. GivenAreAttached' /\ SuccessesAreCharged'
  BY <1>2, <1>6, <1>8, ProviderFactsKept DEF Has
<1>10. ReceivedWereSent'
  BY <1>2, <1>4 DEF ReceivedWereSent, provider
<1>11. PaymentsAreKnown'
  <2>1. ASSUME sent[e].type = "succeeded" PROVE code # "unknown_checkout"
    <3>1. sent[e].session \in given
      BY <1>2, <2>1, EventFields DEF SuccessesAreCharged
    <3>2. \E c \in Checkouts : Loaded(c, sent[e].session)
      BY <3>1 DEF GivenAreAttached, Has, Loaded
    <3> QED BY <1>3, <3>2
  <2> QED BY <1>2, <1>4, <2>1 DEF PaymentsAreKnown, provider
<1>12. OutcomesHold'
  <2>1. \A f \in EventIds, c \in Checkouts : f # e /\ Fits(f, c) => Fits(f, c)'
    BY <1>2, <1>4, <1>6 DEF Fits, Final, provider
  <2>2. ASSUME code \in Ignored PROVE \E c \in Checkouts : Fits(e, c)'
    <3>1. PICK c \in Checkouts :
             /\ Loaded(c, sent[e].session)
             /\ code = "terminal_state" => Terminal(c)
             /\ code = "occupancy_unavailable" => occupancy[c[1]] # "active"
             /\ code # "checkout_expired"
      BY <1>3, <2>2
    <3>2. occupancy[c[1]] \in {"none", "active", "released"} /\ occupancy[c[1]] # "none"
      BY <3>1, CheckoutFields DEF RowsAreSound, NoRow, Loaded, TypeOK
    <3>3. code # "processed"
      BY <2>2 DEF Ignored
    <3> QED BY <1>2, <1>4, <1>6, <3>1, <3>2, <3>3 DEF Fits, Loaded, Terminal, Final, provider
  <2>3. code \in {"processed"} \cup Ignored => code \in Ignored
    BY <1>3 DEF Rejected, Ignored
  <2> QED BY <1>4, <2>1, <2>2, <2>3 DEF OutcomesHold
<1>13. OneEventDecides'
  <2>1. code \notin {"processed", "checkout_expired"}
    BY <1>3 DEF Ignored, Rejected
  <2>2. \A f \in EventIds : Decided(f)' <=> Decided(f)
    BY <1>4, <1>5, <2>1 DEF Decided
  <2>3. \A c \in Checkouts : Final(c)' <=> Final(c)
    BY <1>2 DEF Final
  <2> QED BY <1>2, <1>6, <2>2, <2>3 DEF OneEventDecides, provider
<1> QED BY <1>7, <1>9, <1>10, <1>11, <1>12, <1>13

\* An event decides a checkout that no event has decided.
LEMMA AppliedKeepsIInv ==
  ASSUME IInv, TypeOK', CallsAreSound', NEW p \in Callers, ReceiveApplied(p)
  PROVE  IInv'
<1> USE DEF IInv
<1>1. PICK e \in EventIds : e = caller[p].event
  BY CallFields DEF ReceiveApplied
<1>2. /\ New(e) /\ sent[e] # Unsent
      /\ UNCHANGED <<now, occupancy, provider>>
  BY <1>1 DEF ReceiveApplied, CallsAreSound
<1>3. PICK c \in Checkouts, code \in {"processed", "checkout_expired"},
           outcome \in {"paid", "failed", "expired"} :
        /\ Loaded(c, sent[e].session) /\ ~Terminal(c)
        /\ checkout' = [checkout EXCEPT ![c].state = outcome]
        /\ received' = [received EXCEPT ![e] = code]
        /\ code = "processed" =>
             outcome = IF sent[e].type = "succeeded" THEN "paid" ELSE sent[e].type
        /\ code = "checkout_expired" => outcome = "expired"
  <2>1. sent[e].type \in EventTypes
    BY <1>2, EventFields
  <2> QED BY <1>1, <2>1 DEF ReceiveApplied, Late, Judge, EventTypes
<1>4. checkout[c].attached /\ SessionOf(c) = sent[e].session /\ ~Final(c)
  BY <1>3 DEF Loaded, Terminal, Final
<1>5. /\ checkout'[c].state = outcome /\ checkout'[c].attached /\ Final(c)'
      /\ SessionOf(c)' = SessionOf(c)
  BY <1>3, <1>4, CheckoutFields DEF TypeOK, Row, SessionOf, Final
<1>6. \A d \in Checkouts : d # c => checkout'[d] = checkout[d] /\ SessionOf(d)' = SessionOf(d)
  BY <1>3 DEF TypeOK, SessionOf
<1>7. received'[e] = code /\ \A f \in EventIds : f # e => received'[f] = received[f]
  BY <1>3 DEF TypeOK
<1>8. received[e] = "absent" /\ UNCHANGED <<sent, given, session>>
  BY <1>2 DEF New, provider
<1>9. \A d \in Checkouts, s \in Sessions : Has(d, s)' <=> Has(d, s)
  BY <1>4, <1>5, <1>6 DEF Has
<1>10. RowsAreSound'
  <2>1. checkout'[c].attached <=> checkout'[c].state # "created"
    BY <1>5
  <2>2. occupancy[c[1]] # "none"
    BY <1>4 DEF RowsAreSound, NoRow
  <2> QED BY <1>2, <1>5, <1>6, <2>1, <2>2 DEF RowsAreSound
<1>11. SessionsAreApart'
  BY <1>9 DEF SessionsAreApart
<1>12. OneLiveCheckout'
  <2>1. ~Payable(c)'
    BY <1>5 DEF Payable
  <2>2. \A d \in Checkouts : d # c => (Payable(d)' <=> Payable(d))
    BY <1>2, <1>6 DEF Payable
  <2> QED BY <2>1, <2>2 DEF OneLiveCheckout
<1>13. ProviderMovesOn
  BY <1>8 DEF ProviderMovesOn
<1>14. GivenAreAttached' /\ SuccessesAreCharged'
  BY <1>9, <1>13, ProviderFactsKept
<1>15. ReceivedWereSent' /\ PaymentsAreKnown'
  BY <1>2, <1>7, <1>8 DEF ReceivedWereSent, PaymentsAreKnown
<1>16. ASSUME NEW f \in EventIds, f # e, received[f] \in {"processed", "checkout_expired", "terminal_state"},
              Fits(f, c)
       PROVE  FALSE
  <2>1. sent[f].type \in EventTypes
    BY <1>16, EventFields DEF ReceivedWereSent
  <2> QED BY <1>4, <1>16, <2>1 DEF Fits, Final, EventTypes
<1>17. OutcomesHold'
  <2>1. ASSUME NEW f \in EventIds, NEW d \in Checkouts, f # e, Fits(f, d),
               received[f] \in {"processed"} \cup Ignored
        PROVE  Fits(f, d)'
    <3>1. CASE d = c
      <4>1. received[f] = "occupancy_unavailable"
        BY <1>16, <2>1, <3>1 DEF Ignored
      <4> QED BY <1>2, <1>5, <1>7, <1>8, <2>1, <3>1, <4>1 DEF Fits
    <3>2. CASE d # c
      BY <1>2, <1>6, <1>7, <1>8, <2>1, <3>2 DEF Fits, Final
    <3> QED BY <3>1, <3>2
  <2>2. Fits(e, c)'
    BY <1>3, <1>4, <1>5, <1>7, <1>8 DEF Fits
  <2> QED BY <1>7, <2>1, <2>2 DEF OutcomesHold
<1>18. OneEventDecides'
  <2>1. Decided(e)' /\ ~Decided(e) /\ \A f \in EventIds : f # e => (Decided(f)' <=> Decided(f))
    BY <1>7, <1>8 DEF Decided
  <2>2. \A f \in EventIds : Decided(f) => sent[f].session # SessionOf(c)
    BY <1>4 DEF OneEventDecides
  <2>3. ASSUME NEW d \in Checkouts, d # c
        PROVE  /\ checkout'[d].attached <=> checkout[d].attached
               /\ Final(d)' <=> Final(d)
               /\ SessionOf(d)' = SessionOf(d)
               /\ checkout[d].attached => SessionOf(d) # sent[e].session
    <3>1. checkout[d].attached => SessionOf(d) # SessionOf(c)
      BY <1>4, <2>3, CheckoutFields DEF SessionsAreApart, Has
    <3> QED BY <1>4, <1>6, <2>3, <3>1 DEF Final
  <2> QED BY <1>4, <1>5, <1>8, <2>1, <2>2, <2>3 DEF OneEventDecides
<1> QED BY <1>10, <1>11, <1>12, <1>14, <1>15, <1>17, <1>18

-----------------------------------------------------------------------------
(* Every step *)

\* Every other step of a call is quiet: it learns something, or gives up.
LEMMA CallsAreQuiet ==
  ASSUME IInv, TypeOK', CallsAreSound', NEW p \in Callers,
         \/ \E r \in Requests : StartCheckout(p, r)
         \/ \E e \in EventIds : Deliver(p, e)
         \/ Reuse(p) \/ PrepareFails(p) \/ CreateSession(p) \/ AttachedBefore(p)
         \/ AttachFails(p) \/ ReceiveDuplicate(p) \/ Crash(p)
  PROVE  IInv'
<1> USE DEF IInv
<1>1. UNCHANGED <<now, occupancy, checkout, received, sent>>
  BY DEF StartCheckout, Deliver, Reuse, PrepareFails, CreateSession, AttachedBefore,
         AttachFails, ReceiveDuplicate, Crash, RolledBack, provider
<1>2. \A c \in Checkouts, s \in Sessions : Has(c, s)' <=> Has(c, s)
  BY <1>1 DEF Has, SessionOf
<1>3. now <= now'
  BY <1>1, MaxTimeAssumption DEF TypeOK, Time
<1>4. /\ given \subseteq given'
      /\ \A s \in given' : s \in given \/ \E c \in Checkouts : Has(c, s)'
  <2>1. CASE AttachedBefore(p)
    <3>1. PICK c \in Checkouts : c = caller[p].checkout
      BY <2>1, CallFields DEF AttachedBefore
    <3>2. PICK s \in Sessions : s = SessionOf(c)
      BY CheckoutFields
    <3>3. Has(c, s) /\ (given' = given \cup {s} \/ UNCHANGED given)
      BY <2>1, <3>1, <3>2 DEF AttachedBefore, Answer, Has
    <3> QED BY <1>2, <3>3
  <2>2. CASE ~AttachedBefore(p)
    <3>1. UNCHANGED given
      BY <2>2 DEF StartCheckout, Deliver, Reuse, PrepareFails, CreateSession, AttachFails,
                  ReceiveDuplicate, Crash, provider
    <3> QED BY <3>1
  <2> QED BY <2>1, <2>2
<1>5. \A s \in Sessions : session'[s] = "charged" <=> session[s] = "charged"
  <2>1. CASE CreateSession(p)
    <3>1. SessionOf(caller[p].checkout) \in Sessions
      BY <2>1, CallFields, CheckoutFields DEF CreateSession
    <3> QED BY <2>1, <3>1 DEF CreateSession, TypeOK
  <2>2. CASE ~CreateSession(p)
    <3>1. UNCHANGED session
      BY <2>2 DEF StartCheckout, Deliver, Reuse, PrepareFails, AttachedBefore, AttachFails,
                  ReceiveDuplicate, Crash, provider
    <3> QED BY <3>1
  <2> QED BY <2>1, <2>2
<1>6. ProviderMovesOn
  BY <1>1, <1>4, <1>5 DEF ProviderMovesOn
<1> QED BY <1>1, <1>3, <1>6, QuietKeepsIInv

\* The provider charges sessions that guests have, and reports what it did.
LEMMA ProviderIsQuiet ==
  ASSUME IInv, TypeOK', CallsAreSound', NEW s \in Sessions, NEW e \in EventIds, Provider(s, e)
  PROVE  IInv'
<1> USE DEF IInv
<1>1. PICK type \in EventTypes, agrees \in BOOLEAN :
        /\ Send(e, type, s, agrees)
        /\ type = "succeeded" => session'[s] = "charged"
        /\ \/ UNCHANGED session
           \/ /\ session[s] = "open"
              /\ \/ s \in given /\ session' = [session EXCEPT ![s] = "charged"]
                 \/ session' = [session EXCEPT ![s] = "closed"]
  <2>1. CASE Charge(s, e)
    BY <2>1 DEF Charge, EventTypes, TypeOK
  <2>2. CASE Repeat(s, e)
    BY <2>2 DEF Repeat, EventTypes
  <2>3. CASE Decline(s, e)
    BY <2>3 DEF Decline, EventTypes
  <2>4. CASE Close(s, e)
    BY <2>4 DEF Close, EventTypes
  <2> QED BY <2>1, <2>2, <2>3, <2>4 DEF Provider
<1>2. UNCHANGED <<now, occupancy, checkout, received, given>> /\ sent[e] = Unsent
  BY <1>1 DEF Send
<1>3. /\ sent'[e] = [type |-> type, session |-> s, agrees |-> agrees]
      /\ \A f \in EventIds : f # e => sent'[f] = sent[f]
  BY <1>1 DEF Send, TypeOK
<1>4. sent'[e] # Unsent /\ (sent'[e].type = "succeeded" => session'[sent'[e].session] = "charged")
  BY <1>1, <1>3 DEF Unsent, EventTypes
<1>5. \A t \in Sessions :
        /\ session[t] = "charged" => session'[t] = "charged"
        /\ session'[t] = "charged" => session[t] = "charged" \/ t \in given
  BY <1>1 DEF TypeOK
<1>6. ProviderMovesOn
  BY <1>2, <1>3, <1>4, <1>5 DEF ProviderMovesOn
<1>7. now <= now'
  BY <1>2, MaxTimeAssumption DEF TypeOK, Time
<1> QED BY <1>2, <1>6, <1>7, QuietKeepsIInv

LEMMA InitIInv == Init => IInv
<1> SUFFICES ASSUME Init PROVE IInv
  OBVIOUS
<1>1. TypeOK /\ CallsAreSound
  BY InitTypeOK, InitCallsAreSound
<1>2. \A c \in Checkouts :
        checkout[c] = NoRow /\ ~checkout[c].attached /\ ~Payable(c)
  BY DEF Init, NoRow, Payable
<1>3. RowsAreSound /\ SessionsAreApart /\ OneLiveCheckout
  BY <1>2 DEF RowsAreSound, SessionsAreApart, Has, OneLiveCheckout
<1>4. GivenAreAttached /\ SuccessesAreCharged /\ ReceivedWereSent /\ PaymentsAreKnown
  BY DEF Init, GivenAreAttached, SuccessesAreCharged, ReceivedWereSent, PaymentsAreKnown
<1>5. OneEventDecides /\ OutcomesHold
  BY <1>2 DEF Init, OneEventDecides, OutcomesHold, Ignored
<1> QED BY <1>1, <1>3, <1>4, <1>5 DEF IInv

LEMMA NextKeepsIInv == IInv /\ [Next]_vars => IInv'
<1> SUFFICES ASSUME IInv, [Next]_vars PROVE IInv'
  OBVIOUS
<1>1. TypeOK' /\ CallsAreSound'
  BY StepTypeOK, StepCallsAreSound DEF IInv
<1>2. CASE Tick \/ (\E r \in Requests : Approve(r) \/ Release(r)) \/ UNCHANGED vars
  <2>1. UNCHANGED <<checkout, received, provider>> /\ ProviderMovesOn
    BY <1>2 DEF Tick, Approve, Release, vars, provider, ProviderMovesOn
  <2>2. now <= now'
    BY <1>2, MaxTimeAssumption DEF Tick, Approve, Release, vars, IInv, TypeOK, Time
  <2>3. \A r \in Requests :
          \/ occupancy'[r] = occupancy[r]
          \/ occupancy[r] # "released" /\ occupancy'[r] # "none"
    BY <1>2 DEF Tick, Approve, Release, vars, IInv, TypeOK
  <2> QED BY <1>1, <2>1, <2>2, <2>3, QuietKeepsIInv
<1>3. ASSUME NEW p \in Callers,
             \/ \E r \in Requests : StartCheckout(p, r)
             \/ \E e \in EventIds : Deliver(p, e)
             \/ Serve(p) \/ Crash(p)
      PROVE  IInv'
  <2>1. CASE Insert(p)
    BY <1>1, <2>1, InsertKeepsIInv
  <2>2. CASE Attach(p)
    BY <1>1, <2>2, AttachKeepsIInv
  <2>3. CASE ReceiveRejected(p) \/ ReceiveIgnored(p)
    BY <1>1, <2>3, PutAsideKeepsIInv
  <2>4. CASE ReceiveApplied(p)
    BY <1>1, <2>4, AppliedKeepsIInv
  <2>5. CASE \/ \E r \in Requests : StartCheckout(p, r)
             \/ \E e \in EventIds : Deliver(p, e)
             \/ Reuse(p) \/ PrepareFails(p) \/ CreateSession(p) \/ AttachedBefore(p)
             \/ AttachFails(p) \/ ReceiveDuplicate(p) \/ Crash(p)
    BY <1>1, <2>5, CallsAreQuiet
  <2> QED BY <1>3, <2>1, <2>2, <2>3, <2>4, <2>5 DEF Serve, Receive
<1>4. ASSUME NEW s \in Sessions, NEW e \in EventIds, Provider(s, e) PROVE IInv'
  BY <1>1, <1>4, ProviderIsQuiet
<1> QED BY <1>2, <1>3, <1>4 DEF Next

LEMMA Invariance == Spec => []IInv
  BY InitIInv, NextKeepsIInv, PTL DEF Spec

-----------------------------------------------------------------------------
(* The theorems *)

\* However many calls start checkouts, a request has one that can be paid.
THEOREM OneCheckoutAtATime == Spec => []OneLiveCheckout
<1>1. IInv => OneLiveCheckout
  BY DEF IInv
<1> QED BY <1>1, Invariance, PTL

\* A payment is never reported of a checkout that is not there yet.
THEOREM NoPaymentIsUnknown == Spec => []PaymentsAreKnown
<1>1. IInv => PaymentsAreKnown
  BY DEF IInv
<1> QED BY <1>1, Invariance, PTL

\* Repeated, late and reordered events decide a checkout once.
THEOREM DecidedOnce == Spec => []OneEventDecides
<1>1. IInv => OneEventDecides
  BY DEF IInv
<1> QED BY <1>1, Invariance, PTL

\* The table of events stays true.
THEOREM RecordsStayTrue == Spec => []OutcomesHold
<1>1. IInv => OutcomesHold
  BY DEF IInv
<1> QED BY <1>1, Invariance, PTL

\* No step of any call changes a paid, failed or expired checkout.
THEOREM FinalStaysFinal == Spec => OutcomesAreFinal
<1> DEFINE Kept == \A c \in Checkouts : Final(c) => checkout'[c] = checkout[c]
<1>1. ASSUME IInv, [Next]_vars PROVE Kept
  <2>1. ASSUME NEW p \in Callers, Insert(p) PROVE Kept
    <3>1. PICK n \in 1..MaxCheckoutAttempts :
            /\ checkout[<<caller[p].request, n>>] = NoRow
            /\ \E new : checkout' = [checkout EXCEPT ![<<caller[p].request, n>>] = new]
      BY <2>1 DEF Insert, NextAttempt
    <3> QED BY <1>1, <3>1 DEF Final, NoRow, IInv, TypeOK
  <2>2. ASSUME NEW p \in Callers, Attach(p) PROVE Kept
    BY <1>1, <2>2 DEF Attach, Attachable, Final, IInv, TypeOK
  <2>3. ASSUME NEW p \in Callers, ReceiveApplied(p) PROVE Kept
    BY <1>1, <2>3 DEF ReceiveApplied, Late, Terminal, Final, IInv, TypeOK
  <2>4. CASE ~\E p \in Callers : Insert(p) \/ Attach(p) \/ ReceiveApplied(p)
    BY <1>1, <2>4 DEF Next, Tick, Approve, Release, StartCheckout, Deliver, Serve, Reuse,
           PrepareFails, CreateSession, AttachedBefore, AttachFails, Receive,
           ReceiveDuplicate, ReceiveRejected, ReceiveIgnored, Crash,
           Provider, Charge, Repeat, Decline, Close, Send, vars
  <2> QED BY <2>1, <2>2, <2>3, <2>4
<1>2. IInv /\ [Next]_vars => [Kept]_vars
  BY <1>1
<1> QED BY <1>2, Invariance, PTL DEF Spec, OutcomesAreFinal

=============================================================================
