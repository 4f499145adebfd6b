---------------------------- MODULE Availability ----------------------------
(***************************************************************************)
(* The availability repository: manual blocks, holds and occupancies       *)
(* written outside the booking request flow, and the maintenance that      *)
(* releases expired holds across properties.                               *)
(***************************************************************************)
EXTENDS Store

InsertCalls ==
  [op: {"insert"}, prop: Properties, id: Ids, kind: Kinds, stay: Stays, expires: Nat]
ReleaseCalls == [op: {"release"}, prop: Properties, id: Ids, kind: Kinds]
ConfirmCalls == [op: {"confirm"}, prop: Properties, id: Ids]
SweepCalls == [op: {"sweep"}]

AvailabilityCalls == InsertCalls \cup ReleaseCalls \cup ConfirmCalls \cup SweepCalls

-----------------------------------------------------------------------------
(* createManualBlock, createHold, createConfirmedOccupancy *)

\* Mutation: the imported calendar is not consulted.
InsertReadsNothing(p) ==
  /\ Entering(p, "insert")
  /\ Decide(p, "insert")

InsertRead(p) ==
  /\ Entering(p, "insert")
  /\ IF FeedConflict(Call(p).prop, Call(p).stay) THEN Refuse(p) ELSE Decide(p, "insert")

\* The primary key and the exclusion constraint have the last word.
InsertWrite(p) ==
  LET c == Call(p)
  IN  /\ Holding(p, "insert")
      /\ block' = IF Insertable(block[c.prop], c.id, c.stay)
                  THEN [block EXCEPT ![c.prop][c.id] = NewBlock(c.kind, c.stay, c.expires)]
                  ELSE block
      /\ Finish(p)
      /\ UNCHANGED <<feed, request, outbox>>

-----------------------------------------------------------------------------
(* releaseManualBlock, releaseHold, releaseOccupancy *)

ReleaseRead(p) == Entering(p, "release") /\ Decide(p, "release")

\* Mutation: a release does not ask for the kind of the record.
ReleaseAnyKind(P, i, kind) == ActiveAt(P, i)

\* The rows UPDATE ... WHERE block_kind = kind AND status = 'active' finds.
Releasable(P, i, kind) == ActiveAt(P, i) /\ block[P][i].kind = kind

ReleaseWrite(p) ==
  LET c == Call(p)
      R == {i \in {c.id} : Releasable(c.prop, i, c.kind)}
  IN  /\ Holding(p, "release")
      /\ block' = [block EXCEPT ![c.prop] = Released(@, R)]
      /\ Finish(p)
      /\ UNCHANGED <<feed, request, outbox>>

-----------------------------------------------------------------------------
(* confirmHold *)

ConfirmRead(p) ==
  LET c == Call(p)
  IN  /\ Entering(p, "confirm")
      /\ IF LiveHold(c.prop, c.id) /\ ~FeedConflict(c.prop, block[c.prop][c.id].stay)
         THEN Decide(p, "promote")
         ELSE Refuse(p)

ConfirmWrite(p) ==
  LET c == Call(p)
  IN  /\ Holding(p, "confirm")
      /\ block' = IF LiveHold(c.prop, c.id) THEN Promoted(c.prop, c.id) ELSE block
      /\ Finish(p)
      /\ UNCHANGED <<feed, request, outbox>>

-----------------------------------------------------------------------------
(* releaseExpiredHolds: one transaction over several properties *)

\* Active holds of property P whose deadline is not after at.
ExpiredHolds(P, at) == {i \in Ids : LiveHold(P, i) /\ block[P][i].expires <= at}

\* The properties are read before any lock is owned.
SweepScan(p) ==
  /\ txn[p].phase = "waiting"
  /\ Call(p).op = "sweep"
  /\ txn' = [txn EXCEPT ![p].phase = "sweeping",
                        ![p].todo = {P \in Properties : ExpiredHolds(P, txn[p].at) # {}}]
  /\ UNCHANGED <<now, lock, tables>>

\* Mutation: ORDER BY property_id is gone, and two plans differ in order.
NextUnordered(p) ==
  LET first == CHOOSE q \in Procs : TRUE
  IN  CHOOSE P \in txn[p].todo :
        \A Q \in txn[p].todo : IF p = first THEN P <= Q ELSE P >= Q

NextProperty(p) == CHOOSE P \in txn[p].todo : \A Q \in txn[p].todo : P <= Q

SweepLock(p) ==
  /\ txn[p].phase = "sweeping"
  /\ txn[p].todo # {}
  /\ LockFree(NextProperty(p))
  /\ lock' = [lock EXCEPT ![NextProperty(p)] = p]
  /\ txn' = [txn EXCEPT ![p].todo = @ \ {NextProperty(p)}]
  /\ UNCHANGED <<now, tables>>

\* Every UPDATE ran under its property's lock, which is owned to the end: the
\* rows they found are those expired at the commit.
SweepWrite(p) ==
  /\ txn[p].phase = "sweeping"
  /\ txn[p].todo = {}
  /\ block' = [P \in Properties |->
                 IF lock[P] = p THEN Released(block[P], ExpiredHolds(P, txn[p].at)) ELSE block[P]]
  /\ Finish(p)
  /\ UNCHANGED <<feed, request, outbox>>

AvailabilityStep(p) ==
  \/ InsertRead(p) \/ InsertWrite(p)
  \/ ReleaseRead(p) \/ ReleaseWrite(p)
  \/ ConfirmRead(p) \/ ConfirmWrite(p)
  \/ SweepScan(p) \/ SweepLock(p) \/ SweepWrite(p)
=============================================================================
