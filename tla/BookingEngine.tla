--------------------------- MODULE BookingEngine ---------------------------
(***************************************************************************)
(* The repositories that write to a property's inventory, side by side:    *)
(* booking requests, the availability repository and the imported          *)
(* calendar, all over the tables and the locks of Store.                   *)
(***************************************************************************)
EXTENDS BookingRequests, Availability, ICalBlocks

ASSUME CallsAssumption == Calls \subseteq RequestCalls \cup AvailabilityCalls \cup ICalCalls

\* A call in flight makes progress.
Progress(p) == RequestStep(p) \/ AvailabilityStep(p) \/ ICalStep(p)

Step(p) == Begin(p) \/ Progress(p) \/ Crash(p)

Next == Tick \/ \E p \in Procs : Step(p)

Spec == Init /\ [][Next]_vars

\* PostgreSQL queues the waiters of an advisory lock, and the event loop
\* drives a call it has begun: a call that can go on again and again does.
\* Clients need not call, the clock need not move and processes need not die.
FairSpec == Spec /\ \A p \in Procs : SF_vars(Progress(p))

-----------------------------------------------------------------------------
(* Safety *)

\* The rows of one property leave each other and its imported events alone.
Disjoint(rows, events) ==
  /\ \A i, j \in Ids :
       i # j /\ rows[i].status = "active" /\ rows[j].status = "active" =>
         ~Overlaps(rows[i].stay, rows[j].stay)
  /\ \A i \in Ids, u \in Uids :
       rows[i].status = "active" /\ events[u].status = "active" =>
         ~Overlaps(events[u].stay, rows[i].stay)

\* No night of a property is claimed twice: active native records exclude each
\* other (the exclusion constraint) and no active record overlaps an active
\* imported event, which only the advisory lock around "check the other table,
\* then write" can guarantee.
NoDoubleBooking == \A P \in Properties : Disjoint(block[P], feed[P])

\* What a call read under the property's lock is still true when it writes:
\* between the check and the write no event or record appears on the nights in
\* question, and the request it is about keeps its property and its stay.
VerdictHolds(p) ==
  LET c == Call(p)
      v == txn[p].verdict
  IN  /\ c.op # "sweep"
      /\ lock[c.prop] = p
      /\ c.op = "insert" => ~FeedConflict(c.prop, c.stay)
      /\ c.op = "submit" /\ v = "insert" /\ ~c.defer => ~FeedConflict(c.prop, c.stay)
      /\ c.op = "upsert" => ~NativeConflict(c.prop, c.stay)
      /\ v = "occupy" =>
           /\ c.op = "approve"
           /\ Exists(c.id)
           /\ request[c.id].prop = c.prop
           /\ ~FeedConflict(c.prop, request[c.id].stay)

VerdictsHold == \A p \in Procs : txn[p].phase = "holding" => VerdictHolds(p)

\* A request that points to an inventory record points to its own, of exactly
\* the stay it quotes, and once approved that record is an occupancy for good:
\* whatever expired, was confirmed, swept or retried in between.
InventoryMatchesRequest ==
  \A r \in Ids : Exists(r) =>
    /\ HasHold(r) =>
         /\ request[r].hold = r
         /\ block[request[r].prop][r] # NoRow
         /\ block[request[r].prop][r].stay = request[r].stay
    /\ request[r].status = "approved" =>
         HasHold(r) /\ block[request[r].prop][r].kind = "occupancy"

\* A rejected or expired request leaves no hold behind: its nights would stay
\* blocked with nobody left to decide about them.
NoHoldOutlivesItsRequest ==
  \A r \in Ids : Exists(r) /\ request[r].status \in {"rejected", "expired"} /\ HasHold(r) =>
    ~LiveHold(request[r].prop, request[r].hold)

\* The outbox tells each request's story and nothing else: it was submitted
\* (unless it predates the outbox), and how it was decided, once.
OutboxTellsTheStory ==
  \A r \in Ids :
    {e \in Events : <<r, e>> \in outbox} =
      IF Exists(r)
      THEN (IF r \in DOMAIN Legacy THEN {} ELSE {"submitted"}) \cup ({request[r].status} \cap Decisions)
      ELSE {}

\* An idempotency key names one request of the organization, though concurrent
\* submissions for different properties do not wait for each other's lock.
OneRequestPerKey ==
  \A r, s \in Ids : Exists(r) /\ Exists(s) /\ request[r].key = request[s].key => r = s

-----------------------------------------------------------------------------
(* Action properties *)

\* A decided request is never touched again, but for the upgrade of its
\* fingerprint: approvals, rejections and expirations race, one wins.
DecisionsAreFinal ==
  [][\A r \in Ids : Exists(r) /\ request[r].status # "pending" =>
       request'[r] = [request[r] EXCEPT !.fingerprint = request'[r].fingerprint]]_vars

\* The transaction of p ends in this step; a step ends one, and what it changes
\* in the tables is what that call wrote.
Ending(p) == txn[p] # Idle /\ txn'[p] = Idle

\* What entitles a call to expire request r of its property: the instant it works
\* with, or, for approve and recheck of r itself, that the hold is gone.
MayExpire(p, r) ==
  LET c == Call(p)
      at == txn[p].at
  IN  /\ c.op \in {"submit", "approve", "reject", "recheck", "expire"}
      /\ c.prop = request[r].prop
      /\ c.op # "submit" => c.id = r
      /\ \/ Lapsed(r, at)
         \/ c.op \in {"approve", "recheck"} /\ HasHold(r) /\ ~HoldInForce(c.prop, r, at)

\* The call that expires a request worked with an instant at or after the
\* deadline or found the hold gone, and the approval that approves it worked
\* with an earlier instant, however long either waited for the lock and whatever
\* the instants of the calls beside it.
DeadlineDecides ==
  [][\A r \in Ids : Exists(r) /\ request[r].status = "pending" =>
       /\ request'[r].status = "expired" => \E p \in Procs : Ending(p) /\ MayExpire(p, r)
       /\ request'[r].status = "approved" =>
            \E p \in Procs :
              /\ Ending(p)
              /\ Call(p).op = "approve" /\ Call(p).id = r /\ ~Lapsed(r, txn[p].at)]_vars

\* An imported event never goes back to an older version, and a cancelled one
\* comes back only with a newer version than the cancellation's.
ImportsMoveForward ==
  [][\A P \in Properties, u \in Uids : feed[P][u] # NoRow =>
       /\ feed'[P][u].version >= feed[P][u].version
       /\ feed[P][u].status = "released" /\ feed'[P][u].status = "active" =>
            feed'[P][u].version > feed[P][u].version]_vars

\* An occupancy is given up only by the call that releases it, that record of
\* that property and as an occupancy: no expiry, rejection, sweep or retry, and
\* no release of another record or of the hold it once was, gives away sold
\* nights.
OnlyAReleaseFreesOccupancy ==
  [][\A P \in Properties, i \in Ids :
       ActiveAt(P, i) /\ block[P][i].kind = "occupancy" /\ block'[P][i] # block[P][i] =>
         \E p \in Procs :
           /\ Ending(p)
           /\ Call(p).op = "release" /\ Call(p).kind = "occupancy"
           /\ Call(p).prop = P /\ Call(p).id = i]_vars

-----------------------------------------------------------------------------
(* Refinement *)

\* What a record means for the calendar: a hold is tentative, the rest firm.
ClaimOf(P, i) ==
  IF ActiveAt(P, i)
  THEN [nights |-> Nights(block[P][i].stay), firm |-> block[P][i].kind # "hold"]
  ELSE [nights |-> {}, firm |-> FALSE]

ImportOf(P, u) == IF feed[P][u].status = "active" THEN Nights(feed[P][u].stay) ELSE {}

claims == [P \in Properties |-> [i \in Ids |-> ClaimOf(P, i)]]
imports == [P \in Properties |-> [u \in Uids |-> ImportOf(P, u)]]
statuses == [r \in Ids |-> request[r].status]

Abstract == INSTANCE Calendar WITH
  Claimants <- Ids,
  Imports <- Uids,
  claim <- claims,
  imported <- imports,
  status <- statuses

\* The repositories implement the calendar: with all their locks, clocks,
\* retries and crashes, every committed transaction is a trade, the giving up
\* of one firm claim or one import of Calendar.
ImplementsCalendar == Abstract!CalendarSpec

-----------------------------------------------------------------------------
(* Liveness *)

\* Every call ends, also when sweeps that own several locks and single-property
\* calls wait for each other.
CallsEnd == \A p \in Procs : txn[p] # Idle ~> txn[p] = Idle
=============================================================================
