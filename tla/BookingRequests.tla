-------------------------- MODULE BookingRequests --------------------------
(***************************************************************************)
(* The booking request repository: submit, approve, reject, recheck and    *)
(* expire, with the inventory and the outbox rows each writes.             *)
(***************************************************************************)
EXTENDS Store

\* How long a submitted request may stay undecided.
CONSTANT HoldDuration

ASSUME HoldDurationAssumption == HoldDuration \in Nat \ {0}

\* defer is deferInventory: the public API submits so, and the request owns
\* no nights until it is approved.
SubmitCalls ==
  [op: {"submit"}, prop: Properties, id: Ids, stay: Stays, body: Bodies, key: Keys,
   defer: BOOLEAN]
DecideCalls ==
  [op: {"approve", "reject", "recheck", "expire"}, prop: Properties, id: Ids]

RequestCalls == SubmitCalls \cup DecideCalls

-----------------------------------------------------------------------------
(* Rows *)

Exists(r) == request[r] # NoRow

\* Mutation: a decided request is found again.
IsKnown(P, r) == Exists(r) /\ request[r].prop = P

IsPending(P, r) == Exists(r) /\ request[r].prop = P /\ request[r].status = "pending"

\* isExpired: the deadline itself is too late.
Lapsed(r, at) == request[r].expires # Never /\ request[r].expires <= at

HasHold(r) == request[r].hold # NoId

\* loadActiveHold finds the request's hold.
HoldInForce(P, r, at) ==
  /\ HasHold(r)
  /\ LiveHold(P, request[r].hold)
  /\ block[P][request[r].hold].expires > at

\* Requests R of property P move to status s.
WithStatus(R, s) ==
  [r \in Ids |-> IF r \in R THEN [request[r] EXCEPT !.status = s] ELSE request[r]]

\* Mutation: the request is closed and its hold forgotten.
HoldsForgotten(P, R) == {}

\* The live holds of requests R: what releaseHold finds for each of them.
HoldsOf(P, R) == {i \in Ids : LiveHold(P, i) /\ \E r \in R : request[r].hold = i}

\* Mutation: a decision is not announced.
EmitSubmissionsOnly(R, e) == outbox

\* insertOutbox for each request of R.
Emit(R, e) == outbox \cup (R \X {e})

-----------------------------------------------------------------------------
(* submit *)

\* Mutation: the sweep of a submission forgets the deadline.
DueWithoutDeadline(P, at) == {r \in Ids : IsPending(P, r) /\ HasHold(r)}

\* expirePendingRequests: the requests whose deadline has passed ...
Due(P, at) == {r \in Ids : IsPending(P, r) /\ Lapsed(r, at)}

\* ... and the rows of P once they and every expired hold are released.
Swept(P, at) ==
  Released(block[P],
           HoldsOf(P, Due(P, at)) \cup {i \in Ids : LiveHold(P, i) /\ block[P][i].expires <= at})

\* The request stored under the call's key, of any property.
SameKey(c) == {r \in Ids : Exists(r) /\ request[r].key = c.key}

\* Equal fingerprints, or for a legacy row equal normalized fields.
Matches(c, r) ==
  /\ request[r].prop = c.prop
  /\ request[r].stay = c.stay
  /\ request[r].body = c.body

SubmitRead(p) ==
  LET c == Call(p)
  IN  /\ Entering(p, "submit")
      /\ IF SameKey(c) # {}
         THEN IF \A r \in SameKey(c) : Matches(c, r) THEN Decide(p, "replay") ELSE Refuse(p)
         ELSE IF ~c.defer /\ FeedConflict(c.prop, c.stay) THEN Refuse(p) ELSE Decide(p, "insert")

NewRequest(c, at) ==
  [status |-> "pending", prop |-> c.prop, stay |-> c.stay, body |-> c.body, key |-> c.key,
   hold |-> IF c.defer THEN NoId ELSE c.id, expires |-> at + HoldDuration,
   fingerprint |-> "sha256"]

\* Mutation: the unique index on idempotency keys is per property.
AcceptedPerProperty(c, rows) ==
  /\ ~Exists(c.id)
  /\ \A r \in SameKey(c) : request[r].prop # c.prop
  /\ c.defer \/ Insertable(rows, c.id, c.stay)

\* The keys and the exclusion constraint accept the new rows.
Accepted(c, rows) ==
  /\ ~Exists(c.id)
  /\ SameKey(c) = {}
  /\ c.defer \/ Insertable(rows, c.id, c.stay)

\* A retry returns the stored request, and upgrades a legacy fingerprint.
ReplayWrite(p) ==
  LET c == Call(p)
      due == Due(c.prop, txn[p].at)
  IN  /\ Holding(p, "submit")
      /\ txn[p].verdict = "replay"
      /\ block' = [block EXCEPT ![c.prop] = Swept(c.prop, txn[p].at)]
      /\ request' = [r \in Ids |->
                       IF r \in SameKey(c)
                       THEN [WithStatus(due, "expired")[r] EXCEPT !.fingerprint = "sha256"]
                       ELSE WithStatus(due, "expired")[r]]
      /\ outbox' = Emit(due, "expired")
      /\ Finish(p)
      /\ UNCHANGED feed

\* A constraint that refuses a row also undoes the expirations.
SubmitWrite(p) ==
  LET c == Call(p)
      due == Due(c.prop, txn[p].at)
      rows == Swept(c.prop, txn[p].at)
      hold == NewBlock("hold", c.stay, txn[p].at + HoldDuration)
  IN  /\ Holding(p, "submit")
      /\ txn[p].verdict = "insert"
      /\ IF Accepted(c, rows)
         THEN /\ block' = [block EXCEPT ![c.prop] =
                             IF c.defer THEN rows ELSE [rows EXCEPT ![c.id] = hold]]
              /\ request' = [WithStatus(due, "expired") EXCEPT ![c.id] = NewRequest(c, txn[p].at)]
              /\ outbox' = Emit(due, "expired") \cup {<<c.id, "submitted">>}
         ELSE UNCHANGED <<block, request, outbox>>
      /\ Finish(p)
      /\ UNCHANGED feed

-----------------------------------------------------------------------------
(* approve, reject, recheckAvailability, expire *)

\* The verdict of approve on a pending request that has not lapsed.
ApproveVerdict(P, r, at) ==
  IF HasHold(r)
  THEN IF ~HoldInForce(P, r, at) THEN "expire"
       ELSE IF FeedConflict(P, block[P][request[r].hold].stay) THEN "none" ELSE "promote"
  ELSE IF NativeConflict(P, request[r].stay) \/ FeedConflict(P, request[r].stay) THEN "none"
       ELSE "occupy"

\* What the transaction will write; "none" when it throws or only reports.
Verdict(op, P, r, at) ==
  IF ~IsPending(P, r) THEN "none"
  ELSE IF Lapsed(r, at) THEN "expire"
  ELSE CASE op = "approve" -> ApproveVerdict(P, r, at)
         [] op = "reject" -> "reject"
         [] op = "recheck" -> IF HasHold(r) /\ ~HoldInForce(P, r, at) THEN "expire" ELSE "none"
         [] op = "expire" -> "none"

DecideRead(p) ==
  LET c == Call(p)
      v == Verdict(c.op, c.prop, c.id, txn[p].at)
  IN  /\ \E op \in {"approve", "reject", "recheck", "expire"} : Entering(p, op)
      /\ IF v = "none" THEN Refuse(p) ELSE Decide(p, v)

Deciding(p, verdict) ==
  /\ txn[p].phase = "holding"
  /\ Call(p).op \in {"approve", "reject", "recheck", "expire"}
  /\ txn[p].verdict = verdict

\* Mutation: approve of a deferred request takes no nights.
OccupyNothing(p) ==
  LET r == Call(p).id
  IN  /\ Deciding(p, "occupy")
      /\ block' = block
      /\ request' = [request EXCEPT ![r].status = "approved", ![r].hold = r]
      /\ outbox' = Emit({r}, "approved")
      /\ Finish(p)
      /\ UNCHANGED feed

\* approve of a deferred request: its occupancy is inserted.
OccupyWrite(p) ==
  LET P == Call(p).prop
      r == Call(p).id
  IN  /\ Deciding(p, "occupy")
      /\ IF IsPending(P, r) /\ Insertable(block[P], r, request[r].stay)
         THEN /\ block' = [block EXCEPT ![P][r] = NewBlock("occupancy", request[r].stay, 0)]
              /\ request' = [request EXCEPT ![r].status = "approved", ![r].hold = r]
              /\ outbox' = Emit({r}, "approved")
         ELSE UNCHANGED <<block, request, outbox>>
      /\ Finish(p)
      /\ UNCHANGED feed

\* approve of a request with a hold: the hold becomes the occupancy.
PromoteWrite(p) ==
  LET P == Call(p).prop
      r == Call(p).id
  IN  /\ Deciding(p, "promote")
      /\ IF IsPending(P, r) /\ HasHold(r) /\ LiveHold(P, request[r].hold)
         THEN /\ block' = Promoted(P, request[r].hold)
              /\ request' = WithStatus({r}, "approved")
              /\ outbox' = Emit({r}, "approved")
         ELSE UNCHANGED <<block, request, outbox>>
      /\ Finish(p)
      /\ UNCHANGED feed

\* reject and every path to expired: the live hold, if any, is released.
CloseWrite(p) ==
  LET P == Call(p).prop
      r == Call(p).id
      s == IF txn[p].verdict = "reject" THEN "rejected" ELSE "expired"
  IN  /\ Deciding(p, "reject") \/ Deciding(p, "expire")
      /\ IF IsPending(P, r)
         THEN /\ block' = [block EXCEPT ![P] = Released(@, HoldsOf(P, {r}))]
              /\ request' = WithStatus({r}, s)
              /\ outbox' = Emit({r}, s)
         ELSE UNCHANGED <<block, request, outbox>>
      /\ Finish(p)
      /\ UNCHANGED feed

RequestStep(p) ==
  \/ SubmitRead(p) \/ ReplayWrite(p) \/ SubmitWrite(p)
  \/ DecideRead(p)
  \/ OccupyWrite(p) \/ PromoteWrite(p) \/ CloseWrite(p)
=============================================================================
