------------------------------ MODULE Payments ------------------------------
(***************************************************************************)
(* Checkouts of approved requests and the events of a payment provider.    *)
(*                                                                         *)
(* startCheckout is three steps: prepare a checkout in a transaction, make *)
(* a session at the provider, attach the session to the checkout in        *)
(* another transaction; only then does the guest get the session's URL.    *)
(* The provider reports what becomes of a session by events, which it may  *)
(* send early, late, twice and in any order.                               *)
(*                                                                         *)
(* Every transaction works under the lock of the property and is one       *)
(* action, taken when it commits.  Its clock was read before it queued for *)
(* the lock, so `at' may be older than now, and callers may commit in an   *)
(* order other than that of their clocks.                                  *)
(***************************************************************************)
EXTENDS Integers

CONSTANTS
  Requests,             \* booking requests of one property
  Callers,              \* handlers of POST /checkout and POST /webhook
  EventIds,             \* provider_event_id
  MaxCheckoutAttempts,  \* option maxCheckoutAttempts
  CheckoutDuration,     \* option checkoutDurationMs
  MaxTime               \* bound: where the clock stops

ASSUME AttemptsAssumption == MaxCheckoutAttempts \in Nat \ {0}
ASSUME DurationAssumption == CheckoutDuration \in Nat \ {0}
ASSUME MaxTimeAssumption == MaxTime \in Nat

VARIABLES
  now,        \* the clock
  occupancy,  \* of each request: is it approved, and are its nights still sold?
  checkout,   \* rows of payment_checkouts, the n-th of request r at <<r, n>>
  received,   \* rows of payment_provider_events: what became of each event
  caller,     \* the call each handler is in
  session,    \* sessions at the provider
  given,      \* sessions whose URL a guest has
  sent        \* events of the provider

vars == <<now, occupancy, checkout, received, caller, session, given, sent>>

provider == <<session, given, sent>>

-----------------------------------------------------------------------------
(* State *)

Time == 0..MaxTime
Expiries == 0..(MaxTime + CheckoutDuration)

Checkouts == Requests \X (1..MaxCheckoutAttempts)

\* The adapter makes the session's identifier from the fields of the checkout
\* request.  Of one request only the expiry differs.
Sessions == [request: Requests, expires: Expiries]

\* attached: provider_session_id is set.  It is the session of the row.  The
\* state rejected, which the table allows, is never written.
Row == [state: {"none", "created", "open", "paid", "failed", "expired"},
        created: Time, expires: Expiries, attached: BOOLEAN]

NoRow == [state |-> "none", created |-> 0, expires |-> 0, attached |-> FALSE]

SessionOf(c) == [request |-> c[1], expires |-> checkout[c].expires]

\* agrees: account, metadata, quote, amount and currency are the checkout's.
EventTypes == {"succeeded", "failed", "expired"}
Event == [type: EventTypes, session: Sessions, agrees: BOOLEAN]
Unsent == [type |-> "none"]

\* Processed, ignored or rejected, by the code the row keeps.
Ignored == {"terminal_state", "occupancy_unavailable", "checkout_expired"}
Rejected == {"unknown_checkout", "mismatch"}
Outcomes == {"processed"} \cup Ignored \cup Rejected

Idle == [phase |-> "idle"]
Calls ==
  {Idle}
    \cup [phase: {"preparing"}, request: Requests, at: Time]
    \cup [phase: {"creating"}, checkout: Checkouts]
    \cup [phase: {"attaching"}, checkout: Checkouts, at: Time]
    \cup [phase: {"receiving"}, event: EventIds, at: Time]

TypeOK ==
  /\ now \in Time
  /\ occupancy \in [Requests -> {"none", "active", "released"}]
  /\ checkout \in [Checkouts -> Row]
  /\ received \in [EventIds -> {"absent"} \cup Outcomes]
  /\ caller \in [Callers -> Calls]
  /\ session \in [Sessions -> {"none", "open", "charged", "closed"}]
  /\ given \subseteq Sessions
  /\ sent \in [EventIds -> {Unsent} \cup Event]

Init ==
  /\ now = 0
  /\ occupancy = [r \in Requests |-> "none"]
  /\ checkout = [c \in Checkouts |-> NoRow]
  /\ received = [e \in EventIds |-> "absent"]
  /\ caller = [p \in Callers |-> Idle]
  /\ session = [s \in Sessions |-> "none"]
  /\ given = {}
  /\ sent = [e \in EventIds |-> Unsent]

Become(p, call) == caller' = [caller EXCEPT ![p] = call]

-----------------------------------------------------------------------------
(* Around the payments *)

Tick ==
  /\ now < MaxTime
  /\ now' = now + 1
  /\ UNCHANGED <<occupancy, checkout, received, caller, provider>>

\* A request is approved, which sells its nights.
Approve(r) ==
  /\ occupancy[r] = "none"
  /\ occupancy' = [occupancy EXCEPT ![r] = "active"]
  /\ UNCHANGED <<now, checkout, received, caller, provider>>

\* releaseOccupancy: a released record is never active again.
Release(r) ==
  /\ occupancy[r] = "active"
  /\ occupancy' = [occupancy EXCEPT ![r] = "released"]
  /\ UNCHANGED <<now, checkout, received, caller, provider>>

-----------------------------------------------------------------------------
(* startCheckout *)

StartCheckout(p, r) ==
  /\ caller[p] = Idle
  /\ Become(p, [phase |-> "preparing", request |-> r, at |-> now])
  /\ UNCHANGED <<now, occupancy, checkout, received, provider>>

\* Mutation: only checkouts with a session are found again.
UnfinishedWithSession(c) == checkout[c].state = "open"

Unfinished(c) == checkout[c].state \in {"created", "open"}

\* Checkouts of request r that a call with clock `at' may go on with.
Reusable(r, at) ==
  {c \in Checkouts : c[1] = r /\ Unfinished(c) /\ checkout[c].expires > at}

\* The latest of them, by the clock of the call that made it.
Latest(c, C) == c \in C /\ \A d \in C : checkout[d].created <= checkout[c].created

\* prepareCheckout finds a checkout to go on with, in whatever state it is.
Reuse(p) ==
  LET call == caller[p]
  IN  /\ call.phase = "preparing" /\ occupancy[call.request] = "active"
      /\ \E c \in Reusable(call.request, call.at) :
           /\ Latest(c, Reusable(call.request, call.at))
           /\ Become(p, [phase |-> "creating", checkout |-> c])
      /\ UNCHANGED <<now, occupancy, checkout, received, provider>>

\* The n-th checkout of request r is the next one to be made.
NextAttempt(r, n) ==
  /\ checkout[<<r, n>>] = NoRow
  /\ \A m \in 1..MaxCheckoutAttempts : m < n => checkout[<<r, m>>] # NoRow

\* prepareCheckout inserts a checkout.
Insert(p) ==
  LET call == caller[p]
  IN  /\ call.phase = "preparing" /\ occupancy[call.request] = "active"
      /\ Reusable(call.request, call.at) = {}
      /\ \E n \in 1..MaxCheckoutAttempts :
           /\ NextAttempt(call.request, n)
           /\ checkout' = [checkout EXCEPT ![<<call.request, n>>] =
                             [state |-> "created", created |-> call.at,
                              expires |-> call.at + CheckoutDuration, attached |-> FALSE]]
           /\ Become(p, [phase |-> "creating", checkout |-> <<call.request, n>>])
      /\ UNCHANGED <<now, occupancy, received, provider>>

\* prepareCheckout throws: the request is not approved, its nights are not sold
\* any more, or its checkouts are used up.
PrepareFails(p) ==
  LET call == caller[p]
  IN  /\ call.phase = "preparing"
      /\ \/ occupancy[call.request] # "active"
         \/ /\ Reusable(call.request, call.at) = {}
            /\ \A n \in 1..MaxCheckoutAttempts : ~NextAttempt(call.request, n)
      /\ Become(p, Idle)
      /\ UNCHANGED <<now, occupancy, checkout, received, provider>>

\* The session is made, or made again, and attachProviderSession reads its
\* clock: a session that has expired by then is refused.
CreateSession(p) ==
  LET c == caller[p].checkout
      s == SessionOf(c)
  IN  /\ caller[p].phase = "creating"
      /\ session' = [session EXCEPT ![s] = IF @ = "none" THEN "open" ELSE @]
      /\ Become(p, IF checkout[c].expires <= now THEN Idle
                   ELSE [phase |-> "attaching", checkout |-> c, at |-> now])
      /\ UNCHANGED <<now, occupancy, checkout, received, given, sent>>

\* The unique index on (provider, provider_session_id).
SessionTaken(c) ==
  \E d \in Checkouts : d # c /\ checkout[d].attached /\ SessionOf(d) = SessionOf(c)

\* The call returns the session's URL, unless the answer is lost.
Answer(p) ==
  LET s == SessionOf(caller[p].checkout)
  IN  given' = given \cup {s} \/ UNCHANGED given

Attachable(c) == checkout[c].state = "created" /\ ~SessionTaken(c)

\* attachProviderSession.  The checkout is loaded by its primary key.
Attach(p) ==
  LET c == caller[p].checkout
  IN  /\ caller[p].phase = "attaching"
      /\ ~checkout[c].attached /\ Attachable(c)
      /\ checkout' = [checkout EXCEPT ![c].attached = TRUE, ![c].state = "open"]
      /\ Answer(p)
      /\ Become(p, Idle)
      /\ UNCHANGED <<now, occupancy, received, session, sent>>

\* Another call has attached the same session, and a guest may have used it.
AttachedBefore(p) ==
  /\ caller[p].phase = "attaching"
  /\ checkout[caller[p].checkout].attached
  /\ Answer(p)
  /\ Become(p, Idle)
  /\ UNCHANGED <<now, occupancy, checkout, received, session, sent>>

\* The session belongs to an earlier checkout with the same expiry.
AttachFails(p) ==
  LET c == caller[p].checkout
  IN  /\ caller[p].phase = "attaching"
      /\ ~checkout[c].attached /\ ~Attachable(c)
      /\ Become(p, Idle)
      /\ UNCHANGED <<now, occupancy, checkout, received, provider>>

-----------------------------------------------------------------------------
(* handleWebhook *)

\* The provider delivers event e, for the first time or again.
Deliver(p, e) ==
  /\ caller[p] = Idle /\ sent[e] # Unsent
  /\ Become(p, [phase |-> "receiving", event |-> e, at |-> now])
  /\ UNCHANGED <<now, occupancy, checkout, received, provider>>

\* Mutation: only open checkouts are looked up.
LoadedIfOpen(c, s) == checkout[c].state = "open" /\ SessionOf(c) = s

\* loadCheckoutBySession.
Loaded(c, s) == checkout[c].attached /\ SessionOf(c) = s

\* Mutation: a declined payment may still become a paid one.
TerminalUnlessFailed(c) == checkout[c].state \in {"paid", "expired"}

Terminal(c) == checkout[c].state \in {"paid", "failed", "expired"}

\* Mutation: events are not recognised by their identifier.
AlwaysNew(e) == TRUE

\* INSERT ... ON CONFLICT DO NOTHING inserts.
New(e) == received[e] = "absent"

\* markEvent, and the end of the call.
Judge(p, code) ==
  /\ received' = [received EXCEPT ![caller[p].event] = code]
  /\ Become(p, Idle)

\* The duplicate is answered from what is stored.
ReceiveDuplicate(p) ==
  /\ caller[p].phase = "receiving" /\ ~New(caller[p].event)
  /\ Become(p, Idle)
  /\ UNCHANGED <<now, occupancy, checkout, received, provider>>

\* No checkout has the session, or the event is not about the same money.
ReceiveRejected(p) ==
  LET e == caller[p].event
      Found(c) == Loaded(c, sent[e].session)
  IN  /\ caller[p].phase = "receiving" /\ New(e)
      /\ \/ (\A c \in Checkouts : ~Found(c)) /\ Judge(p, "unknown_checkout")
         \/ (\E c \in Checkouts : Found(c)) /\ ~sent[e].agrees /\ Judge(p, "mismatch")
      /\ UNCHANGED <<now, occupancy, checkout, provider>>

\* The checkout has its outcome already, or there are no nights to pay for.
ReceiveIgnored(p) ==
  LET e == caller[p].event
  IN  /\ caller[p].phase = "receiving" /\ New(e) /\ sent[e].agrees
      /\ \E c \in Checkouts :
           /\ Loaded(c, sent[e].session)
           /\ \/ Terminal(c) /\ Judge(p, "terminal_state")
              \/ ~Terminal(c) /\ occupancy[c[1]] # "active" /\ Judge(p, "occupancy_unavailable")
      /\ UNCHANGED <<now, occupancy, checkout, provider>>

\* Mutation: an event that comes too late is only put aside.
LateLeftOpen(c) == UNCHANGED checkout

\* A checkout whose time is up is expired by any event, a success included.
Late(c) == checkout' = [checkout EXCEPT ![c].state = "expired"]

\* The checkout takes the outcome the event reports, or is expired.
ReceiveApplied(p) ==
  LET e == caller[p].event
      outcome == IF sent[e].type = "succeeded" THEN "paid" ELSE sent[e].type
  IN  /\ caller[p].phase = "receiving" /\ New(e) /\ sent[e].agrees
      /\ \E c \in Checkouts :
           /\ Loaded(c, sent[e].session) /\ ~Terminal(c) /\ occupancy[c[1]] = "active"
           /\ \/ checkout[c].expires <= caller[p].at /\ Late(c) /\ Judge(p, "checkout_expired")
              \/ /\ checkout[c].expires > caller[p].at
                 /\ checkout' = [checkout EXCEPT ![c].state = outcome]
                 /\ Judge(p, "processed")
      /\ UNCHANGED <<now, occupancy, provider>>

Receive(p) ==
  ReceiveDuplicate(p) \/ ReceiveRejected(p) \/ ReceiveIgnored(p) \/ ReceiveApplied(p)

\* Mutation: the event is inserted in a transaction of its own, with the
\* outcome the column has until it is judged.
KeptAfterCrash(p) ==
  IF caller[p].phase = "receiving" /\ New(caller[p].event)
  THEN [received EXCEPT ![caller[p].event] = "mismatch"] ELSE received

\* The events after the transaction of caller p was rolled back.
RolledBack(p) == received

\* A handler dies, or its transaction fails, with nothing written.
Crash(p) ==
  /\ caller[p] # Idle
  /\ received' = RolledBack(p)
  /\ Become(p, Idle)
  /\ UNCHANGED <<now, occupancy, checkout, provider>>

-----------------------------------------------------------------------------
(* The provider *)

Send(e, type, s, agrees) ==
  /\ sent[e] = Unsent
  /\ sent' = [sent EXCEPT ![e] = [type |-> type, session |-> s, agrees |-> agrees]]
  /\ UNCHANGED <<now, occupancy, checkout, received, caller, given>>

\* A guest pays.
Charge(s, e) ==
  /\ s \in given /\ session[s] = "open"
  /\ session' = [session EXCEPT ![s] = "charged"]
  /\ Send(e, "succeeded", s, TRUE)

\* A success has two events, checkout.session.completed and
\* payment_intent.succeeded, and one may give another amount.
Repeat(s, e) ==
  /\ session[s] = "charged"
  /\ \E agrees \in BOOLEAN : Send(e, "succeeded", s, agrees)
  /\ UNCHANGED session

\* A card is declined.  The guest may try again.
Decline(s, e) ==
  /\ s \in given /\ session[s] = "open"
  /\ Send(e, "failed", s, TRUE)
  /\ UNCHANGED session

\* The provider closes a session that nobody has paid.
Close(s, e) ==
  /\ session[s] = "open" /\ s.expires <= now
  /\ session' = [session EXCEPT ![s] = "closed"]
  /\ Send(e, "expired", s, TRUE)

-----------------------------------------------------------------------------
(* Specification *)

Serve(p) ==
  \/ Reuse(p) \/ Insert(p) \/ PrepareFails(p) \/ CreateSession(p)
  \/ Attach(p) \/ AttachedBefore(p) \/ AttachFails(p)
  \/ Receive(p)

Provider(s, e) == Charge(s, e) \/ Repeat(s, e) \/ Decline(s, e) \/ Close(s, e)

Next ==
  \/ Tick
  \/ \E r \in Requests : Approve(r) \/ Release(r)
  \/ \E p \in Callers :
       \/ \E r \in Requests : StartCheckout(p, r)
       \/ \E e \in EventIds : Deliver(p, e)
       \/ Serve(p) \/ Crash(p)
  \/ \E s \in Sessions, e \in EventIds : Provider(s, e)

Spec == Init /\ [][Next]_vars

\* The provider delivers an event until it is answered, and not every handler
\* of one event dies.  Nothing is assumed of guests or of the clock.
FairSpec ==
  /\ Spec
  /\ \A e \in EventIds :
       /\ SF_vars(received[e] = "absent" /\ \E p \in Callers : Deliver(p, e))
       /\ SF_vars(\E p \in Callers :
                    caller[p].phase = "receiving" /\ caller[p].event = e /\ Receive(p))
  /\ \A p \in Callers : WF_vars(Serve(p))

-----------------------------------------------------------------------------
(* Properties *)

\* A guest could still pay checkout c.
Payable(c) == checkout[c].state \in {"created", "open"} /\ checkout[c].expires > now

\* Checkout c has its outcome.
Final(c) == checkout[c].state \in {"paid", "failed", "expired"}

\* A request has at most one checkout that a guest could still pay, however
\* many calls start checkouts with clocks that disagree.
OneLiveCheckout ==
  \A c, d \in Checkouts : c[1] = d[1] /\ Payable(c) /\ Payable(d) => c = d

\* The report of a payment always finds its checkout: no guest has the URL of
\* a session before it is attached, and no call attaches another one later.
PaymentsAreKnown ==
  \A e \in EventIds :
    sent[e] # Unsent /\ sent[e].type = "succeeded" => received[e] # "unknown_checkout"

\* Event e gave its session's checkout the state it is in.
Decided(e) == received[e] \in {"processed", "checkout_expired"}

\* A checkout is in a final state exactly if one event brought it there, and no
\* two did: not the two events of one success, not one event delivered twice.
OneEventDecides ==
  \A c \in Checkouts :
    LET deciders == {e \in EventIds : Decided(e) /\ sent[e].session = SessionOf(c)}
    IN  checkout[c].attached =>
          /\ Final(c) <=> deciders # {}
          /\ \A e, f \in deciders : e = f

\* What payment_provider_events says of event e is so of checkout c.
Fits(e, c) ==
  /\ checkout[c].attached /\ SessionOf(c) = sent[e].session
  /\ received[e] = "processed" =>
       checkout[c].state = IF sent[e].type = "succeeded" THEN "paid" ELSE sent[e].type
  /\ received[e] = "checkout_expired" => checkout[c].state = "expired"
  /\ received[e] = "terminal_state" => Final(c)
  /\ received[e] = "occupancy_unavailable" => occupancy[c[1]] = "released"

\* The recorded outcome of an event never becomes a lie: the checkout is still
\* in the state the event gave it, or the reason to ignore it still stands.
OutcomesHold ==
  \A e \in EventIds : received[e] \in {"processed"} \cup Ignored =>
    \E c \in Checkouts : Fits(e, c)

\* A paid, failed or expired checkout never changes, whatever is reported later
\* and whichever calls are still about to attach its session.
OutcomesAreFinal ==
  [][\A c \in Checkouts : Final(c) => checkout'[c] = checkout[c]]_vars

\* A guest's payment comes to be known: its checkout reaches a final state, or
\* the nights it paid for have been released, whichever handlers die.
PaymentsArrive ==
  \A c \in Checkouts :
    checkout[c].attached /\ session[SessionOf(c)] = "charged"
      ~> Final(c) \/ occupancy[c[1]] = "released"

=============================================================================
