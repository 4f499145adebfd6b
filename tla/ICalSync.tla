------------------------------ MODULE ICalSync ------------------------------
(***************************************************************************)
(* The synchronisation job of one imported calendar.                       *)
(*                                                                         *)
(* A run notes its start in the health record, fetches and parses the      *)
(* calendar the channel publishes at that time, and reconciles all of its  *)
(* events in one transaction under the property's lock.  Runs may overlap: *)
(* a slow one reconciles an older calendar than a quick one before it did. *)
(* Bookings come and go on the same property, each in a transaction under  *)
(* the same lock.                                                          *)
(*                                                                         *)
(* The transaction reads the table once and then writes event by event; no *)
(* write is visible before it commits, and a conflict with a booking rolls *)
(* all of them back.                                                       *)
(***************************************************************************)
EXTENDS ICalReconcile, FiniteSets, Sequences

CONSTANTS
  Workers,      \* runs that can be in flight at once
  Nobody,       \* the value of a free lock
  Uids,         \* external uids, numbered in the order they are reconciled
  Stays,        \* the stays of events and of bookings
  Histories,    \* what a channel may publish: sequences of calendars
  StaleAfter,   \* staleAfterMs
  MaxRuns,      \* bound: runs started
  MaxTime       \* bound: the clock stops here

VARIABLES
  now,          \* the wall clock
  history,      \* the calendars this channel publishes, in order
  current,      \* the one it publishes now
  rows,         \* ical_blocks of the source, by uid
  booked,       \* the stays of active native records of the property
  lock,         \* who owns the property's advisory lock
  run,          \* the run each worker has in flight
  health,       \* the job's health record, in memory
  runs,         \* runs started so far, for the bound
  seen,         \* history: the highest version of each uid ever reconciled
  outcome       \* history: how the run that ended last did end

vars == <<now, history, current, rows, booked, lock, run, health, runs, seen, outcome>>

ASSUME NobodyAssumption == Nobody \notin Workers
ASSUME SyncUidsAssumption == Uids \subseteq Nat
ASSUME SyncBoundsAssumption == {StaleAfter, MaxRuns, MaxTime} \subseteq Nat
ASSUME SyncStaysAssumption == \A s \in Stays : IsStay(s)

\* The calendars channels publish, parsed: one event for each of their uids.
Calendars == UNION {{h[k] : k \in DOMAIN h} : h \in Histories}

ASSUME HistoriesAssumption ==
  /\ \A h \in Histories : h \in Seq(Calendars) /\ h # <<>>
  /\ \A c \in Calendars : DOMAIN c \subseteq Uids /\ \A u \in DOMAIN c : c[u] \in Event(Stays)

\* Errors the record may carry: those of a fetch or a parse, and the one that
\* stands for every error the job has no safe text for.
SourceErrors == {"fetch", "parse"}
Errors == SourceErrors \cup {"sync_failed"}

NoError == "none"
NeverSynced == -1

Tables == [Uids -> {Absent} \cup Row(Stays)]

Actions ==
  {"created", "updated", "unchanged", "released", "needs_review", "ignored_cancelled",
   "retained_missing"}

\* A run in each of its phases.
Idle == [phase |-> "idle"]
Fetching == [phase: {"fetching"}, from: Nat \ {0}]
Fetched == [phase: {"fetched"}, calendar: Calendars]
Reconciling ==
  [phase: {"reconciling", "committed"}, calendar: Calendars, todo: SUBSET Uids,
   read: Tables, staged: Tables, decided: [Uids -> Actions \cup {"none"}]]

TypeOK ==
  /\ now \in 0 .. MaxTime
  /\ history \in Histories /\ current \in DOMAIN history
  /\ rows \in Tables
  /\ booked \subseteq Stays
  /\ lock \in Workers \cup {Nobody}
  /\ run \in [Workers -> {Idle} \cup Fetching \cup Fetched \cup Reconciling]
  /\ health \in [lastSuccess: Nat \cup {NeverSynced}, stale: BOOLEAN, error: Errors \cup {NoError}]
  /\ runs \in 0 .. MaxRuns
  /\ seen \in [Uids -> [seq: Nullable, mod: Nullable]]
  /\ outcome \in {"none", "success", "failed"}

FreshHealth == [lastSuccess |-> NeverSynced, stale |-> TRUE, error |-> NoError]

Unversioned == [seq |-> Null, mod |-> Null]

Init ==
  /\ now = 0
  /\ history \in Histories
  /\ current = 1
  /\ rows = [u \in Uids |-> Absent]
  /\ booked = {}
  /\ lock = Nobody
  /\ run = [w \in Workers |-> Idle]
  /\ health = FreshHealth
  /\ runs = 0
  /\ seen = [u \in Uids |-> Unversioned]
  /\ outcome = "none"

-----------------------------------------------------------------------------
(* The world around the job *)

Tick ==
  /\ now < MaxTime
  /\ now' = now + 1
  /\ UNCHANGED <<history, current, rows, booked, lock, run, health, runs, seen, outcome>>

Publish ==
  /\ current + 1 \in DOMAIN history
  /\ current' = current + 1
  /\ UNCHANGED <<now, history, rows, booked, lock, run, health, runs, seen, outcome>>

LockFree == lock = Nobody

\* A native record is written under the lock if no active row overlaps it.
Book(s) ==
  /\ LockFree
  /\ \A t \in booked : ~Overlaps(s, t)
  /\ \A u \in Uids : rows[u].status = "active" => ~Overlaps(s, rows[u].stay)
  /\ booked' = booked \cup {s}
  /\ UNCHANGED <<now, history, current, rows, lock, run, health, runs, seen, outcome>>

Unbook(s) ==
  /\ LockFree
  /\ s \in booked
  /\ booked' = booked \ {s}
  /\ UNCHANGED <<now, history, current, rows, lock, run, health, runs, seen, outcome>>

-----------------------------------------------------------------------------
(* A run *)

Start(w) ==
  /\ run[w] = Idle
  /\ runs < MaxRuns
  /\ runs' = runs + 1
  /\ run' = [run EXCEPT ![w] = [phase |-> "fetching", from |-> current]]
  /\ health' = [health EXCEPT !.stale = TRUE, !.error = NoError]
  /\ UNCHANGED <<now, history, current, rows, booked, lock, seen, outcome>>

\* Any calendar the channel published since the fetch began may be the answer.
Fetch(w) ==
  /\ run[w].phase = "fetching"
  /\ \E k \in run[w].from .. current :
       run' = [run EXCEPT ![w] = [phase |-> "fetched", calendar |-> history[k]]]
  /\ UNCHANGED <<now, history, current, rows, booked, lock, health, runs, seen, outcome>>

\* Mutation: a failure leaves the flag as the last success left it.
FailureKeepsFlag(w, error) ==
  /\ run' = [run EXCEPT ![w] = Idle]
  /\ health' = [health EXCEPT !.error = error]
  /\ outcome' = "failed"

\* The catch of a run: what it threw becomes the record's error.
Fail(w, error) ==
  /\ run' = [run EXCEPT ![w] = Idle]
  /\ health' = [health EXCEPT !.stale = TRUE, !.error = error]
  /\ outcome' = "failed"

\* safeError: codes without a message in the job's table become sync_failed.
SafeError(code) == IF code \in SourceErrors THEN code ELSE "sync_failed"

FetchFails(w) ==
  /\ run[w].phase = "fetching"
  /\ \E e \in SourceErrors : Fail(w, SafeError(e))
  /\ UNCHANGED <<now, history, current, rows, booked, lock, runs, seen>>

\* withReconciliation owns the lock, and the first list reads the table.
Lock(w) ==
  /\ run[w].phase = "fetched"
  /\ LockFree
  /\ lock' = w
  /\ run' = [run EXCEPT ![w] =
       [phase |-> "reconciling", calendar |-> run[w].calendar, todo |-> DOMAIN run[w].calendar,
        read |-> rows, staged |-> rows, decided |-> [u \in Uids |-> "none"]]]
  /\ UNCHANGED <<now, history, current, rows, booked, health, runs, seen, outcome>>

NextUid(w) == CHOOSE u \in run[w].todo : \A v \in run[w].todo : u <= v

\* Mutation: the guard of native records is asked of created events only.
BlockedIfCreated(r, write, e) ==
  write = "upsert" /\ r = Absent /\ \E s \in booked : Overlaps(s, e.stay)

\* requireNoAvailabilityConflict: an upsert is refused where a booking is.
Blocked(r, write, e) == write = "upsert" /\ \E s \in booked : Overlaps(s, e.stay)

\* One turn of the loop of reconcileLocked that does not throw: the store's
\* guards may still refuse the write, and then the event is left for review.
ReconcileEvent(w) ==
  LET u == NextUid(w)
      e == run[w].calendar[u]
      r == run[w].staged[u]
      v == VerdictOf(e, run[w].read[u])
  IN  /\ run[w].phase = "reconciling"
      /\ run[w].todo # {}
      /\ ~Blocked(r, v.write, e)
      /\ run' = [run EXCEPT ![w].todo = @ \ {u},
                            ![w].staged[u] = Written(v.write, e, r),
                            ![w].decided[u] = IF StaleWrite(v.write, e, r)
                                              THEN "needs_review" ELSE v.action]
      /\ UNCHANGED <<now, history, current, rows, booked, lock, health, runs, seen, outcome>>

\* A booking is in the way, or the database fails: all of the run's writes
\* are rolled back, and neither error has a message of its own.
RollBack(w) ==
  /\ run[w].phase = "reconciling"
  /\ lock' = Nobody
  /\ Fail(w, SafeError("availability_conflict"))
  /\ UNCHANGED <<now, history, current, rows, booked, runs, seen>>

Higher(x, y) == IF Precedes(y, x) THEN x ELSE y

\* An event counts as seen if it was about a row the store has: a
\* cancellation of a uid it never had leaves no trace.
SeenAfter(w) ==
  [u \in Uids |->
     IF u \in DOMAIN run[w].calendar /\ run[w].staged[u] # Absent
     THEN LET e == run[w].calendar[u]
          IN  IF e.status = "unknown" THEN seen[u]
              ELSE Higher([seq |-> e.seq, mod |-> e.mod], seen[u])
     ELSE seen[u]]

\* Active rows the calendar did not mention are reported and kept.
Missing(w) ==
  {u \in Uids \ DOMAIN run[w].calendar : run[w].read[u].status = "active"}

\* Mutation: a uid the calendar no longer mentions is taken as cancelled.
CommitDropsMissing(w) ==
  /\ run[w].phase = "reconciling"
  /\ run[w].todo = {}
  /\ rows' = [u \in Uids |-> IF u \in Missing(w)
                             THEN [run[w].staged[u] EXCEPT !.status = "released"]
                             ELSE run[w].staged[u]]
  /\ lock' = Nobody
  /\ run' = [run EXCEPT ![w].phase = "committed",
       ![w].decided = [u \in Uids |-> IF u \in Missing(w) THEN "retained_missing" ELSE @[u]]]
  /\ seen' = SeenAfter(w)
  /\ UNCHANGED <<now, history, current, booked, health, runs, outcome>>

Commit(w) ==
  /\ run[w].phase = "reconciling"
  /\ run[w].todo = {}
  /\ rows' = run[w].staged
  /\ lock' = Nobody
  /\ run' = [run EXCEPT ![w].phase = "committed",
       ![w].decided = [u \in Uids |-> IF u \in Missing(w) THEN "retained_missing" ELSE @[u]]]
  /\ seen' = SeenAfter(w)
  /\ UNCHANGED <<now, history, current, booked, health, runs, outcome>>

\* After the commit, in a turn of the event loop of its own.
Succeed(w) ==
  /\ run[w].phase = "committed"
  /\ run' = [run EXCEPT ![w] = Idle]
  /\ health' = [lastSuccess |-> now, stale |-> FALSE, error |-> NoError]
  /\ outcome' = "success"
  /\ UNCHANGED <<now, history, current, rows, booked, lock, runs, seen>>

\* The process ends: open transactions roll back, the health record is lost.
Restart ==
  /\ run' = [w \in Workers |-> Idle]
  /\ lock' = Nobody
  /\ health' = FreshHealth
  /\ outcome' = "none"
  /\ UNCHANGED <<now, history, current, rows, booked, runs, seen>>

RunStep(w) ==
  \/ Start(w) \/ Fetch(w) \/ FetchFails(w) \/ Lock(w)
  \/ ReconcileEvent(w) \/ RollBack(w) \/ Commit(w) \/ Succeed(w)

Next ==
  \/ Tick \/ Publish \/ Restart
  \/ \E s \in Stays : Book(s) \/ Unbook(s)
  \/ \E w \in Workers : RunStep(w)

Spec == Init /\ [][Next]_vars

-----------------------------------------------------------------------------
(* What a caller of health() is told *)

ReportedStale ==
  \/ health.stale
  \/ health.lastSuccess = NeverSynced
  \/ now - health.lastSuccess >= StaleAfter

-----------------------------------------------------------------------------
(* Properties *)

\* No imported block shares a night with an active booking, although a run
\* writes several events in one transaction, moves stays and brings released
\* rows back (reconcileLocked under lockProperty, requireNoAvailabilityConflict).
NoChannelOverlap ==
  \A u \in Uids : \A s \in booked :
    rows[u].status = "active" => ~Overlaps(s, rows[u].stay)

\* The version of a row never decreases, whatever calendars overlapping runs
\* reconcile in whatever order, and within one version a stay never changes
\* and a released row stays released (the SQL guards of upsert and release).
VersionsNeverGoBack ==
  [][\A u \in Uids : rows[u] # Absent /\ rows'[u] # rows[u] =>
       /\ rows'[u] # Absent
       /\ \/ Precedes(rows[u], rows'[u])
          \/ /\ rows'[u] = [rows[u] EXCEPT !.status = "released", !.eventStatus = "cancelled"]
             /\ rows[u].status = "active"]_vars

\* A version some run reconciled against a row is not lost again: a row is
\* never behind an event that a committed run had in its calendar, although
\* the run that decides works with what it read before it wrote, and with
\* rules other than the store's (reconcileEvent and versionIsNewer against
\* the guards of PostgresICalBlockStore).
NothingSeenIsForgotten ==
  \A u \in Uids : rows[u] # Absent => ~Precedes(rows[u], seen[u])

\* What a run reports of an event is what its commit did to the row, also
\* where the store refused what the run decided; a uid the calendar does not
\* mention keeps its row (reconcileLocked's decisions, missing_is_not_deletion).
ReportHolds(action, e, before, after) ==
  CASE action = "created" -> before = Absent /\ after = ActiveRow(e)
    [] action = "updated" -> before \notin {Absent, ActiveRow(e)} /\ after = ActiveRow(e)
    [] action = "unchanged" -> after.status = before.status /\ after.stay = before.stay
    [] action = "released" -> before.status = "active" /\ after.status = "released"
    [] action = "retained_missing" -> before.status = "active" /\ after = before
    [] action = "ignored_cancelled" -> before = Absent /\ after = Absent
    [] action \in {"needs_review", "none"} -> after = before

ReportsMatchTheTables ==
  [][\A w \in Workers :
       run[w].phase = "reconciling" /\ run'[w].phase = "committed" =>
         \A u \in Uids :
           LET e == IF u \in DOMAIN run[w].calendar THEN run[w].calendar[u] ELSE Absent
           IN  ReportHolds(run'[w].decided[u], e, rows[u], rows'[u])]_vars

\* Overlapping runs share one health record.  It never hides that the run
\* that ended last failed, and a calendar is fresh only if that run succeeded
\* within staleAfterMs (the try and catch of run, healthSnapshot).
HealthTellsTheLastOutcome ==
  /\ ~ReportedStale => outcome = "success" /\ now - health.lastSuccess < StaleAfter
  /\ health.error # NoError => outcome = "failed" /\ ReportedStale
  /\ outcome = "failed" /\ (\A w \in Workers : run[w] = Idle) => health.error # NoError
=============================================================================
