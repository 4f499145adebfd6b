---------------------------- MODULE RequestToBook ----------------------------
(***************************************************************************)
(* requestToBook of the public API: one property, its rate plan, and guests *)
(* that ask for a stay under an idempotency key and ask again.             *)
(*                                                                         *)
(* A call looks its key up, reads the property, reads the rate plan, and   *)
(* submits; each is a statement or a transaction of its own, so the owner  *)
(* and other calls act between any two.  The submit transaction is atomic  *)
(* here; BookingEngine takes it apart.                                     *)
(***************************************************************************)
EXTENDS Rates

CONSTANTS
  Callers,        \* handlers of concurrent calls, each of one client
  Key,            \* Key[c]: the idempotency key c sends
  Body,           \* Body[c]: the stay and the guest count c asks for
  PlanInputs,     \* what the owner may try to save as a rate plan
  Maxima,         \* what the owner may set maximumGuests to
  MaxCalls,       \* bound: calls of one client
  MaxEdits        \* bound: what the owner does

ASSUME RequestToBookAssumption ==
  /\ MaxCalls \in Nat \ {0}
  /\ MaxEdits \in Nat
  /\ Maxima \subseteq Nat \ {0}
  /\ \A c \in Callers :
       /\ Body[c].guests \in Nat
       /\ Body[c].arrival \in DateParts /\ Body[c].departure \in DateParts
  /\ "nobody" \notin Callers

VARIABLES
  property,       \* the property row: its maximumGuests, or 0 when there is no row
  plan,           \* the rate plan row and the seasons of the property
  requests,       \* booking request rows
  locked,         \* the caller whose transaction holds the property lock
  call,           \* call[c]: the call of c in progress, or its last
  edits,          \* what the owner did so far
  answers,        \* history: the requests the guests were told of
  inForce         \* history: inForce[c], the plans and maxima during c's call

vars == <<property, plan, requests, locked, call, edits, answers, inForce>>

NoProperty == 0
NoRow == [currency |-> "none", base |-> 0, cleaning |-> 0, minimumStay |-> 0]
NoPlan == [row |-> NoRow, seasons |-> {}]
NoOne == "nobody"

\* The tables of a plan: the seasons are rows without an order.
Rows(input) ==
  [row |-> [currency |-> input.currency, base |-> input.base, cleaning |-> input.cleaning,
            minimumStay |-> input.minimumStay],
   seasons |-> ToSet(input.seasons)]

\* toRatePlan: ORDER BY lower(stay).  Seasons that were saved do not overlap,
\* so each has its place.
InOrder(seasons) ==
  [i \in 1 .. Cardinality(seasons) |->
     CHOOSE s \in seasons :
       Cardinality({t \in seasons : Earlier(t.arrival, s.arrival)}) = i - 1]

PlanFrom(row, seasons) ==
  [currency |-> row.currency, base |-> row.base, cleaning |-> row.cleaning,
   minimumStay |-> row.minimumStay, seasons |-> InOrder(seasons)]

\* What saveRatePlan accepts: canonicalizeRatePlan.
SavedPlans == {Rows(input) : input \in {i \in PlanInputs : PlanErrors(i) = {}}}

Idle == [phase |-> "idle", calls |-> 0, row |-> NoRow, quote |-> "none", answer |-> "none"]

Init ==
  /\ property \in Maxima
  /\ plan \in SavedPlans \cup {NoPlan}
  /\ requests = {}
  /\ locked = NoOne
  /\ call = [c \in Callers |-> Idle]
  /\ edits = 0
  /\ answers = {}
  /\ inForce = [c \in Callers |-> {}]

-----------------------------------------------------------------------------

At(c, phase) == call[c].phase = phase

\* The tables, and what else a reading step leaves alone.
Database == <<property, plan, requests>>

\* The call goes on.
Becomes(c, value) ==
  /\ call' = [call EXCEPT ![c] = value]
  /\ UNCHANGED <<answers, inForce>>

Go(c, phase) == Becomes(c, [call[c] EXCEPT !.phase = phase])

\* Something of the inner try threw: the outer catch looks the key up once more.
Throws(c) == Becomes(c, [Idle EXCEPT !.phase = "lookAgain", !.calls = call[c].calls])

\* A call that is over keeps its answer only.
Over(c, answer) ==
  /\ call' = [call EXCEPT ![c] = [Idle EXCEPT !.phase = "answered", !.calls = call[c].calls,
                                              !.answer = answer]]
  /\ inForce' = [inForce EXCEPT ![c] = {}]

\* The call answers with an error of the public contract; those other than
\* request_conflict are one here.
Refuses(c, code) ==
  /\ Over(c, code)
  /\ UNCHANGED answers

\* The call answers with the request stored in row r.
Accepts(c, r) ==
  /\ Over(c, "accepted")
  /\ answers' = answers \cup {[key |-> Key[c], body |-> Body[c], id |-> r.id, quote |-> r.quote]}

Stored(c) == {r \in requests : r.key = Key[c]}

\* Mutation: a lookup compares keys only.
SameKeyOnly(c, r) == r.key = Key[c]

\* matchesNormalizedClientRequest.
SameRequest(c, r) == r.body = Body[c]

-----------------------------------------------------------------------------
(* A call *)

\* A guest asks, or asks again after an answer that was lost or was an error.
Ask(c) ==
  /\ call[c].phase \in {"idle", "answered"}
  /\ call[c].calls < MaxCalls
  /\ call' = [call EXCEPT ![c] = [Idle EXCEPT !.phase = "lookup", !.calls = call[c].calls + 1]]
  /\ inForce' = [inForce EXCEPT ![c] = {<<property, plan>>}]
  /\ UNCHANGED <<Database, locked, edits, answers>>

\* findReplay, before anything that may have changed since the first answer.
Lookup(c) ==
  /\ At(c, "lookup")
  /\ \/ \E r \in Stored(c) :
          IF SameRequest(c, r) THEN Accepts(c, r) ELSE Refuses(c, "request_conflict")
     \/ Stored(c) = {} /\ Go(c, "property")
     \/ Refuses(c, "failed")
  /\ UNCHANGED <<Database, locked, edits>>

\* ensureProperty and the guest count.
EnsureProperty(c) ==
  /\ At(c, "property")
  /\ \/ property = NoProperty /\ Throws(c)
     \/ /\ property # NoProperty
        /\ IF Body[c].guests > property THEN Throws(c) ELSE Go(c, "plan")
     \/ Throws(c)
  /\ UNCHANGED <<Database, locked, edits>>

\* Mutation: getRatePlan reads without the property lock.
ReadPlanUnlocked(c) ==
  /\ At(c, "plan")
  /\ IF property = NoProperty \/ plan = NoPlan THEN Throws(c)
     ELSE Becomes(c, [call[c] EXCEPT !.phase = "seasons", !.row = plan.row])
  /\ UNCHANGED <<Database, locked, edits>>

\* getRatePlan: under the property lock, the plan's row ...
ReadPlan(c) ==
  /\ At(c, "plan")
  /\ locked = NoOne
  /\ \/ /\ property = NoProperty
        /\ Throws(c)
        /\ UNCHANGED locked
     \/ /\ property # NoProperty /\ plan = NoPlan
        /\ Throws(c)
        /\ UNCHANGED locked
     \/ /\ property # NoProperty /\ plan # NoPlan
        /\ Becomes(c, [call[c] EXCEPT !.phase = "seasons", !.row = plan.row])
        /\ locked' = c
  /\ UNCHANGED <<Database, edits>>

\* ... and its seasons; quoteRatePlan prices the stay.
ReadSeasons(c) ==
  LET read == PlanFrom(call[c].row, plan.seasons)
  IN  /\ At(c, "seasons")
      /\ IF PlanErrors(read) # {} THEN Throws(c)
         ELSE IF QuoteErrors(read, Body[c]) # {} THEN Throws(c)
         ELSE Becomes(c, [call[c] EXCEPT !.phase = "submit", !.row = NoRow,
                                         !.quote = QuoteOf(read, Body[c])])
      /\ locked' = IF locked = c THEN NoOne ELSE locked
      /\ UNCHANGED <<Database, edits>>

\* The connection is lost while the plan is read.
ReadFails(c) ==
  /\ call[c].phase \in {"plan", "seasons"}
  /\ Throws(c)
  /\ locked' = IF locked = c THEN NoOne ELSE locked
  /\ UNCHANGED <<Database, edits>>

NewRequest(c) ==
  [id |-> <<c, call[c].calls>>, key |-> Key[c], body |-> Body[c], quote |-> call[c].quote]

\* The row of r is what submit of c would store: its fingerprint has the quote.
SameFingerprint(c, r) == r.body = Body[c] /\ r.quote = call[c].quote

\* submit, under the property lock.
Submit(c) ==
  /\ At(c, "submit")
  /\ locked = NoOne
  /\ IF SnapshotErrors(call[c].quote) # {}
     THEN Throws(c) /\ UNCHANGED requests
     ELSE IF property = NoProperty
     THEN Throws(c) /\ UNCHANGED requests
     ELSE IF Stored(c) = {}
     THEN requests' = requests \cup {NewRequest(c)} /\ Accepts(c, NewRequest(c))
     ELSE \E r \in Stored(c) :
            /\ IF SameFingerprint(c, r) THEN Accepts(c, r)
               ELSE Go(c, "lookReuse")
            /\ UNCHANGED requests
  /\ UNCHANGED <<property, plan, locked, edits>>

\* The connection is lost during submit, before or after the commit.
SubmitFails(c) ==
  /\ At(c, "submit")
  /\ locked = NoOne
  /\ \/ UNCHANGED requests
     \/ /\ property # NoProperty /\ Stored(c) = {} /\ SnapshotErrors(call[c].quote) = {}
        /\ requests' = requests \cup {NewRequest(c)}
  /\ Throws(c)
  /\ UNCHANGED <<property, plan, locked, edits>>

\* Mutation: the key is in use, and that is the answer.
ReuseIsConflict(c) ==
  /\ At(c, "lookReuse")
  /\ Refuses(c, "request_conflict")
  /\ UNCHANGED <<Database, locked, edits>>

\* submit said idempotency_key_reuse: a racing call may have stored the very
\* request, quoted differently.
LookAfterReuse(c) ==
  /\ At(c, "lookReuse")
  /\ \/ \E r \in Stored(c) :
          IF SameRequest(c, r) THEN Accepts(c, r) ELSE Refuses(c, "request_conflict")
     \/ Stored(c) = {} /\ Refuses(c, "request_conflict")
     \/ Throws(c)
  /\ UNCHANGED <<Database, locked, edits>>

\* Another error: a request stored under the key outweighs it.  The error is
\* the answer when there is none, and when this lookup fails itself.
LookAgain(c) ==
  /\ At(c, "lookAgain")
  /\ \/ \E r \in Stored(c) :
          IF SameRequest(c, r) THEN Accepts(c, r) ELSE Refuses(c, "request_conflict")
     \/ Refuses(c, "failed")
  /\ UNCHANGED <<Database, locked, edits>>

\* The process dies: its transaction rolls back, and the guest hears nothing.
Crash(c) ==
  /\ call[c].phase \notin {"idle", "answered"}
  /\ Refuses(c, "none")
  /\ locked' = IF locked = c THEN NoOne ELSE locked
  /\ UNCHANGED <<Database, edits>>

-----------------------------------------------------------------------------
(* The owner *)

Edit ==
  /\ locked = NoOne
  /\ edits < MaxEdits
  /\ edits' = edits + 1
  /\ inForce' = [c \in Callers |-> IF call[c].phase \in {"idle", "answered"} THEN inForce[c]
                                   ELSE inForce[c] \cup {<<property', plan'>>}]
  /\ UNCHANGED <<locked, call>>

\* saveRatePlan.
SaveRatePlan ==
  /\ property # NoProperty
  /\ plan' \in SavedPlans
  /\ UNCHANGED <<property, requests, answers>>
  /\ Edit

\* update of the property.
UpdateProperty ==
  /\ property # NoProperty
  /\ \E n \in Maxima : property' = n
  /\ UNCHANGED <<plan, requests, answers>>
  /\ Edit

\* delete: the plan and the requests go with the property, and what their
\* keys stood for.
DeleteProperty ==
  /\ property # NoProperty
  /\ property' = NoProperty
  /\ plan' = NoPlan
  /\ requests' = {}
  /\ answers' = {}
  /\ Edit

\* create, of a property with the same id.
CreateProperty ==
  /\ property = NoProperty
  /\ \E n \in Maxima : property' = n
  /\ UNCHANGED <<plan, requests, answers>>
  /\ Edit

Next ==
  \/ \E c \in Callers :
       \/ Ask(c) \/ Lookup(c) \/ EnsureProperty(c)
       \/ ReadPlan(c) \/ ReadSeasons(c) \/ ReadFails(c)
       \/ Submit(c) \/ SubmitFails(c)
       \/ LookAfterReuse(c) \/ LookAgain(c)
       \/ Crash(c)
  \/ SaveRatePlan \/ UpdateProperty \/ DeleteProperty \/ CreateProperty

Spec == Init /\ [][Next]_vars

-----------------------------------------------------------------------------
(* Properties *)

\* While a property exists, every accepted call under one key was for the
\* same body and was told the same request at the same price, whatever the
\* calls raced and however often they were repeated (findByIdempotencyKey,
\* the unique key, and the lookups after a failure).
OneAnswerPerKey == \A a, b \in answers : a.key = b.key => a = b

\* A request is stored with the price that one plan in force during its call
\* asks for its stay, and for no more guests than the property took at some
\* time of the call: no quote mixes two plans (getRatePlan under the property
\* lock, quoteRatePlan, createQuoteSnapshot).
PricedByOnePlan ==
  [][\A c \in Callers : \A r \in requests' \ requests :
       r.id = <<c, call[c].calls>> =>
         /\ \E v \in inForce[c] : v[1] >= r.body.guests
         /\ \E v \in inForce[c] :
              v[2] # NoPlan /\ IsQuoteOf(r.quote, PlanFrom(v[2].row, v[2].seasons), r.body)]_vars

\* A guest is told of a conflict only when the key stands for another
\* request, or for none any more: never when it stands for this very one
\* (the lookups of requestToBook after idempotency_key_reuse).
ConflictsAreReal ==
  [][\A c \in Callers :
       call'[c].answer = "request_conflict" /\ call[c].answer # "request_conflict" =>
         ~ \E r \in Stored(c) : r.body = Body[c]]_vars
=============================================================================
