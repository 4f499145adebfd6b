------------------------------- MODULE Store -------------------------------
(***************************************************************************)
(* The tables of one organization, as the PostgreSQL schema keeps them,    *)
(* and the life of a transaction that writes to them.                      *)
(*                                                                         *)
(* Every repository operation that may change what a property has to sell  *)
(* runs as one READ COMMITTED transaction of this form:                    *)
(*                                                                         *)
(*   read the clock; BEGIN; take the property's advisory lock;             *)
(*   read rows and decide; write; COMMIT, which frees the lock.            *)
(*                                                                         *)
(* A process is one such call in flight.  It is "waiting" after it read    *)
(* its clock and before it owns the lock, and "holding" after it read the  *)
(* tables and decided, with its decision kept as its verdict.  Its writes  *)
(* become visible in the single step that commits them.  Reads and writes  *)
(* are different steps, so nothing but the lock keeps another process from *)
(* invalidating a verdict before it is written.                            *)
(***************************************************************************)
EXTENDS Integers, FiniteSets, Intervals

CONSTANTS
  Procs,         \* calls that can be in flight at once
  NoProc,        \* nobody: the value of a free lock
  Properties,    \* the organization's properties, numbered in property_id order
  Ids,           \* request identifiers and availability record identifiers
  NoId,          \* SQL NULL in hold_record_id
  Uids,          \* (source, external uid) pairs of imported calendar events
  Keys,          \* idempotency keys
  Bodies,        \* guest data and quote: everything a fingerprint covers besides the stay
  Stays,         \* the stays clients ask for
  Calls,         \* the operations clients may call, with their arguments
  Legacy,        \* rows of booking_requests that migration 010 left behind
  MaxTime        \* bound: the clock stops here

VARIABLES
  now,           \* the wall clock
  lock,          \* who owns each property's advisory lock
  txn,           \* the call each process has in flight
  block,         \* table availability_blocks
  feed,          \* table ical_blocks
  request,       \* table booking_requests
  outbox         \* table booking_outbox, as (request, event) pairs

tables == <<block, feed, request, outbox>>
vars == <<now, lock, txn, block, feed, request, outbox>>

ASSUME ProcsAssumption == NoProc \notin Procs
ASSUME IdsAssumption == NoId \notin Ids
ASSUME PropertiesAssumption == Properties \subseteq Nat
ASSUME MaxTimeAssumption == MaxTime \in Nat
ASSUME StaysAssumption == \A s \in Stays : IsStay(s)

-----------------------------------------------------------------------------
(* Rows *)

\* The key is in no row.
NoRow == [status |-> "absent"]

\* SQL NULL in hold_expires_at: the request never lapses.
Never == -1

Kinds == {"manual", "hold", "occupancy"}

\* expires is read of holds only; other kinds have NULL there, kept as 0.
Block == [status: {"active", "released"}, kind: Kinds, stay: Stays, expires: Nat]

\* (sequence, last_modified) pairs are ordered lexicographically with NULL
\* below every value: a version is its rank in that order.
FeedBlock == [status: {"active", "released"}, stay: Stays, version: Nat]

Decisions == {"approved", "rejected", "expired"}

Request ==
  [status: {"pending"} \cup Decisions, prop: Properties, stay: Stays, body: Bodies,
   key: Keys, hold: Ids \cup {NoId}, expires: Nat \cup {Never},
   fingerprint: {"legacy", "sha256"}]

Events == {"submitted"} \cup Decisions

\* A legacy row is pending and had no live hold, so the repair set its hold
\* and its deadline to NULL; its fingerprint is of the old kind.
ASSUME LegacyAssumption ==
  /\ DOMAIN Legacy \subseteq Ids
  /\ \A r \in DOMAIN Legacy :
       /\ Legacy[r] \in Request
       /\ Legacy[r].status = "pending"
       /\ Legacy[r].hold = NoId
       /\ Legacy[r].expires = Never
       /\ Legacy[r].fingerprint = "legacy"
  /\ \A r, s \in DOMAIN Legacy : Legacy[r].key = Legacy[s].key => r = s

-----------------------------------------------------------------------------
(* The calls in flight *)

Idle == [phase |-> "idle"]

Verdicts == {"none", "insert", "replay", "occupy", "promote", "reject", "expire", "release", "upsert"}

\* at is the instant the call works with; todo is only used by a sweep.
Running ==
  [phase: {"waiting", "holding", "sweeping"}, call: Calls, at: Nat,
   verdict: Verdicts, todo: SUBSET Properties]

TypeOK ==
  /\ now \in Nat
  /\ lock \in [Properties -> Procs \cup {NoProc}]
  /\ txn \in [Procs -> {Idle} \cup Running]
  /\ block \in [Properties -> [Ids -> {NoRow} \cup Block]]
  /\ feed \in [Properties -> [Uids -> {NoRow} \cup FeedBlock]]
  /\ request \in [Ids -> {NoRow} \cup Request]
  /\ outbox \in SUBSET (Ids \X Events)

Init ==
  /\ now = 0
  /\ lock = [P \in Properties |-> NoProc]
  /\ txn = [p \in Procs |-> Idle]
  /\ block = [P \in Properties |-> [i \in Ids |-> NoRow]]
  /\ feed = [P \in Properties |-> [u \in Uids |-> NoRow]]
  /\ request = [r \in Ids |-> IF r \in DOMAIN Legacy THEN Legacy[r] ELSE NoRow]
  /\ outbox = {}

Tick ==
  /\ now < MaxTime
  /\ now' = now + 1
  /\ UNCHANGED <<lock, txn, tables>>

\* The instants a call may work with.  expire and releaseExpiredHolds take
\* one from their caller; the request decisions read the clock before the
\* transaction begins; the others need none.
Instants(c) ==
  CASE c.op \in {"expire", "sweep"} -> 0 .. MaxTime
    [] c.op \in {"submit", "approve", "reject", "recheck"} -> {now}
    [] OTHER -> {0}

\* A client calls an operation: the clock is read, the lock is not yet owned.
Begin(p) ==
  /\ txn[p] = Idle
  /\ \E c \in Calls : \E at \in Instants(c) :
       txn' = [txn EXCEPT ![p] = [phase |-> "waiting", call |-> c, at |-> at,
                                  verdict |-> "none", todo |-> {}]]
  /\ UNCHANGED <<now, lock, tables>>

Call(p) == txn[p].call

\* Mutation: every caller takes the lock under a key of its own.
LockFreeIgnored(P) == TRUE

\* pg_advisory_xact_lock returns only when nobody else owns the lock.
LockFree(P) == lock[P] = NoProc

\* p is next to own the lock and to run the reads of operation op.
Entering(p, op) ==
  /\ txn[p].phase = "waiting"
  /\ Call(p).op = op
  /\ LockFree(Call(p).prop)

\* The reads let the call go on, and it will write what verdict says.
Decide(p, verdict) ==
  /\ lock' = [lock EXCEPT ![Call(p).prop] = p]
  /\ txn' = [txn EXCEPT ![p].phase = "holding", ![p].verdict = verdict]
  /\ UNCHANGED <<now, tables>>

\* The reads made the call throw, or return with nothing to write: the
\* transaction ends where it began.
Refuse(p) ==
  /\ txn' = [txn EXCEPT ![p] = Idle]
  /\ UNCHANGED <<now, lock, tables>>

Holding(p, op) == txn[p].phase = "holding" /\ Call(p).op = op

\* COMMIT or ROLLBACK: the transaction's locks are freed with it.
Finish(p) ==
  /\ txn' = [txn EXCEPT ![p] = Idle]
  /\ lock' = [P \in Properties |-> IF lock[P] = p THEN NoProc ELSE lock[P]]
  /\ UNCHANGED now

\* The API process dies or loses its connection, before or after the lock:
\* PostgreSQL rolls the transaction back.
Crash(p) ==
  /\ txn[p] # Idle
  /\ Finish(p)
  /\ UNCHANGED tables

-----------------------------------------------------------------------------
(* Reads and constraints several repositories share *)

ActiveAt(P, i) == block[P][i].status = "active"

LiveHold(P, i) == ActiveAt(P, i) /\ block[P][i].kind = "hold"

\* requireNoICalConflict throws: an active imported block overlaps the stay.
FeedConflict(P, s) ==
  \E u \in Uids : feed[P][u].status = "active" /\ Overlaps(feed[P][u].stay, s)

\* requireNoAvailabilityConflict throws: an active native record overlaps it.
NativeConflict(P, s) ==
  \E i \in Ids : ActiveAt(P, i) /\ Overlaps(block[P][i].stay, s)

\* What the primary key and the exclusion constraint let INSERT of record i
\* add to the rows of one property.
Insertable(rows, i, s) ==
  /\ rows[i] = NoRow
  /\ \A j \in Ids : rows[j].status = "active" => ~Overlaps(rows[j].stay, s)

NewBlock(kind, s, expires) ==
  [status |-> "active", kind |-> kind, stay |-> s, expires |-> expires]

\* The rows of one property once the records in R are released.
Released(rows, R) ==
  [i \in Ids |-> IF i \in R THEN [rows[i] EXCEPT !.status = "released"] ELSE rows[i]]

\* A hold becomes an occupancy of the same stay, and its deadline is dropped.
Promoted(P, i) == [block EXCEPT ![P][i].kind = "occupancy", ![P][i].expires = 0]
=============================================================================
