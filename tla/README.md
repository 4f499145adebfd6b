# A TLA+ model of the booking engine

This directory models the core of the booking engine: how calls that run at the same time decide
who gets the nights of a property, and how the decisions reach the outside world although workers
crash, stall and take over from each other, and how payments for them are recorded although their
events come twice, late and in any order. Around that core it models the calendars imported from
other channels (fetch, parse, reconcile, health), the public call that prices and submits a
request, the sessions of the admin API and the edits of a property. Two halves share the modules:
TLC checks small instances, and TLAPS proves, for every value of the constants, each safety
property of these runs.

    tlc -workers 2 -config decisions.cfg MCBookingEngine     # one run
    tlc -workers 2 -config ical_sync.cfg MCICalSync
    tlapm BookingEngineProofs.tla                            # the proofs of one component
    for m in *Proofs.tla Folding.tla; do tlapm $m; done      # all proofs

## 1. The system

| Component (source) | State | Operations | Hard behaviour |
|---|---|---|---|
| Booking requests (`database-postgres/src/booking/requests.ts`) | `booking_requests`, `booking_outbox` rows | submit, approve, reject, recheckAvailability, expire | decisions race; a request owns nights at once or only when approved; deadlines; retries by idempotency key; old rows |
| Availability (`availability/repository.ts`) | `availability_blocks` | create/release manual block, hold, occupancy; confirmHold; releaseExpiredHolds | native records exclude each other by constraint, imports only by lock; one sweep owns many locks |
| Imported calendar store (`ical/blocks.ts`) | `ical_blocks` | upsert, release | versions out of order; conflicts with native records |
| Lock, guards, transactions (`database/property-lock.ts`, `property-guards.ts`, `postgres.ts`) | one advisory lock per property | lock, check, COMMIT, ROLLBACK | everything the three repositories promise across tables rests on it |
| Outbox delivery (`booking/outbox.ts`) | delivery state of outbox rows | claim, deliver, acknowledge | crashes, leases, attempts |
| iCalendar reconciliation and sync (`channel-ical/src/reconcile.ts`, `apps/api/src/jobs/ical/sync.ts`) | health record of a source | run, reconcile | a stale snapshot, two rules for what is newer, one conflict in a feed, overlapping runs |
| iCalendar fetch, parse, export (`fetch.ts`, `parse.ts`, `export.ts`, `address-policy.ts`) | none | fetch, parse, export | redirects, stalls, answers that change, calendars cut off, escapes and folds |
| Public API (`apps/api/src/public/booking/api.ts`) | none | requestToBook | retries while rates and properties change |
| Payments (`payment/checkout.ts`, `checkout`, `stripe`, `payment/http/api.ts`) | `payment_checkouts`, `payment_provider_events` | prepare, attach, webhook | duplicated, early, late and reordered events |
| Rates (`rates/repository.ts`, `booking-core/src/availability-rates.ts`) | `rate_plans`, `seasonal_rate_overrides` | save, read, quote | a plan in two tables; calendar arithmetic, gaps and bounds |
| Admin sessions (`admin/postgres-auth.ts`, `admin/auth.ts`, `admin/security.ts`) | `admin_sessions` | login, logout, get, verifyCsrf, evict | concurrent logins against a bound; checks and use in different transactions |
| Properties (`property/repository.ts`, `booking-core/src/property/configuration`) | `properties` | create, update, delete, read, public view | three judges of one configuration; load, merge and write back |
| Admin API (`admin/api.ts`, `routes.ts`, `scope.ts`, `validation.ts`) | none | routes by role and CSRF | what is checked before what is awaited |
| HTTP server, organizations, owners, migrations, SDK, scripts | little or none | formatting, I/O, single inserts | little that a model checker reaches |

The API calls the repositories; the repositories never call each other. They meet in the tables
and in the property lock: booking requests write inventory rows of the availability tables
directly, an approval reads the imported calendar, an import reads the native records, the
outbox worker reads what a decision wrote, payments read what an approval wrote.
`PROJECT.json` lists every component with what is modelled of it, and every hazard with its line.

What makes the modelled part correct:

* no night of a property has two owners, across two tables that no constraint spans;
* request, inventory and outbox never disagree, although they are written by separate statements
  and other callers touch the same inventory rows;
* a request is decided once, in time, and its decision is final;
* an idempotency key names one request of the organization;
* an imported event never goes back in time;
* calls that wait for locks end;
* an event of the outbox is called delivered only if the receiver accepted it, is given up only
  for a reason, is sent at most once per counted attempt, and ends, whichever workers die;
* a request has one checkout that can be paid; a checkout is decided once, by one event, for good;
  a payment is never reported of a checkout the database does not know;
* imports, bookings and older snapshots of a feed may meet in any order: imported stays keep off
  sold nights, versions go forward, a report tells what was written and health how a run ended;
* a fetch ends within its bounds, a calendar that parses is whole, an export reads back as itself;
* a retried request has one answer, at the price of one plan, and a conflict is a real one;
* an admin session that has ended lets no request in, and no token checked after that is good;
* a property that was accepted can be read again, unless the runtime names its time zone as the
  parser would not (a finding), and an edit leaves the rest alone.

## 2. The modules

    Intervals       stays as half-open intervals of days
    Store           tables, property locks, clock, the life of a transaction, shared reads
    BookingRequests submit, approve, reject, recheck, expire          (over Store)
    Availability    blocks, holds, occupancies, confirm, sweep        (over Store)
    ICalBlocks      upsert and release of imported events             (over Store)
    Calendar        the promise, with no table, lock, clock or transaction
    BookingEngine   the three repositories together; properties; refinement of Calendar
    BookingEngineProofs   theorems about BookingEngine, its refinement of Calendar, and Calendar
    MCBookingEngine       the instances TLC checks
    OutboxDelivery        the workers of deliverPending; properties; fairness
    OutboxDeliveryProofs  theorems about OutboxDelivery
    MCOutboxDelivery      the instances TLC checks
    Payments              startCheckout, handleWebhook, and the provider
    PaymentsProofs        theorems about Payments
    MCPayments            the instances TLC checks
    ICalReconcile   what is decided of one event, and the predicates of the SQL it writes through
    ICalSync        runs of the sync job, bookings beside them, the health record  (over ICalReconcile)
    ICalSyncProofs  theorems about ICalReconcile and ICalSync
    MCICalSync      its instance
    LocalDates      the civil calendar: day numbers, valid dates
    AddressPolicy   the address ranges a fetch may connect to
    ICalText        the parser and the exporter, over lines and words
    ICalFeed        one fetch and the parse of its body          (over ICalText, AddressPolicy)
    MCICalFeed      its instance: documents, exports, addresses
    Rates           rate plans, quotes, the snapshot of a quote  (over LocalDates)
    RequestToBook   requestToBook beside edits of rates and property   (over Rates)
    MCRequestToBook its instance
    Folding         what a fold computes, one element at a time, for any operator
    LocalDatesProofs  theorems about LocalDates, and about RequestToBook and ICalFeed, which
                      compute with dates                         (over Folding)
    AdminSessions   login, logout and requests under a session
    AdminSessionsProofs  theorems about AdminSessions
    MCAdminSessions its instance
    PropertyConfiguration  the parser of a property, and the CHECKs of its table
    PropertyEdits   the row, and the admin requests that edit it (over PropertyConfiguration)
    PropertyEditsProofs  theorems about PropertyConfiguration and PropertyEdits
    MCPropertyEdits its instance

`Payments` needs one fact of the engine about each request, whether its nights are sold, and keeps
it as `occupancy[r]`: none, active after an approval, released for good. That an approved request has
an occupancy of its own is `InventoryMatchesRequest` of the engine. A payment writes no table of
the engine.

Engine and outbox meet in `booking_outbox` only: `BookingEngine` says which rows exist (and
that they commit with the decision they announce), `OutboxDelivery` what becomes of a row. A
worker never reads a booking table, and no booking call reads a delivery column, so neither needs
the other's steps.

`ICalSync` has the table of `ICalBlocks` once more, in another grain: `ICalBlocks` in the engine
writes one event per transaction against every kind of native record, with a version abstracted to
its rank; `ICalSync` writes a whole feed per transaction, with sequence and modification date apart
and either of them unknown, against bookings that come and go under the same lock. `RequestToBook`
sees of `submit` what its caller can tell apart: a new row, the same fingerprint, another one, an
error before or after the commit.

### The booking engine

**A call is a process.** `txn[p]` is the call process `p` has in flight. `Begin` is the client's
call: the arguments are chosen and the clock is read, *before* the transaction starts, as the
code does (`requests.ts:611`, `:838`, `:980`). In state `waiting` the call queues for the
property lock. A `...Read` action takes the lock, runs the reads and guards of the handler and
keeps its outcome as `verdict`, or ends the call with nothing written (an error or a read-only
answer). A `...Write` action runs the writes, constraints included, commits and frees the locks.
`Crash` is a process that dies or a connection that breaks at any point before the commit: a
rollback. Between `Read` and `Write` every other process may step, so what the lock protects is
checked and not assumed; taking the lock out (`LockFreeIgnored`) breaks `NoDoubleBooking`.

| Variable | Code |
|---|---|
| `now` | the clock the repositories read; it only moves forward and stops at `MaxTime` |
| `lock[P]` | `pg_advisory_xact_lock` of property `P` (`property-lock.ts:7`) |
| `block[P][i]` | row `i` of `availability_blocks`: status, kind, stay, expires_at |
| `feed[P][u]` | row of `ical_blocks` for the (source, uid) pair `u`: status, stay, version |
| `request[r]` | row of `booking_requests`: status, property, stay, body, key, hold, deadline, fingerprint kind |
| `outbox` | rows of `booking_outbox` as (request, event type) |

What is abstracted:

* A local date is a day number; stays come from a small set. The body of a request stands for
  guest data and quote: a fingerprint compares property, stay and body, and equal fingerprints
  and equal normalized fields are the same thing.
* The version of an imported event is the rank of its (sequence, last_modified) pair in the
  order the SQL predicates define, NULL below every value; event status and summary are not kept,
  so "the very same snapshot" is the same stay and version.
* Reads that happen under the lock are taken at the moment the lock is taken, writes at the
  commit. Reads made after the lock cannot change before the commit unless another transaction
  writes the same row without the lock; the one such case, a request found by its idempotency key
  under another property, is re-evaluated by `Accepted` when the row is inserted, as the unique
  index does.
* An instant argument (`expire`, `releaseExpiredHolds`) may be any instant, past or future.
* `requireProperty` always succeeds: the properties of a run exist. Input validation is done.
* A call that PostgreSQL aborts as a deadlock victim and `withDeadlockRetry` repeats is a `Crash`
  followed by another `Begin`. Row locks are not modelled; the one deadlock they allow that
  advisory locks do not is in the list of hazards (`requests.ts:624`).
* `Legacy` are pending rows that migrations 005 and 010 left: no hold, no deadline, an old
  fingerprint. Decided rows from before the outbox are not modelled.
* All statements of a transaction's writes are one step, and so is the undoing of all of them: that
  a decision, its release and its event (`requests.ts:1099`) are written together or not at all
  when a process dies (`postgres.ts:72`), and that the requests a submission expired come back when
  its own insert is refused (`requests.ts:617`), is PostgreSQL's atomicity, taken for granted here.
  No property would notice that a transaction is missing; the hazards of that kind say so.
* Properties are not deleted here; `RequestToBook` deletes and creates one.
* Identifiers are chosen by the callers; a request and an availability record may have the same
  one, as the code gives a request's inventory the request's identifier.

### Outbox delivery

**A round is four steps**, with any other worker, or a crash, between them, because the code makes
two transactions with the receiver's call in between:

| Step | Code (`booking/outbox.ts`) |
|---|---|
| `Pick` | the statements of the claim: the `UPDATE` of claims out of attempts waits for rows another claim has locked, the `SELECT ... FOR UPDATE SKIP LOCKED` does not see them |
| `Claim` | its `COMMIT`: the attempt is counted and a new lease starts |
| `Deliver` | the receiver answers, or its promise is rejected |
| `MarkDelivered` | the `UPDATE` that asks for `status = 'processing'`, but not for the attempt |
| `AcknowledgementLost` | that update throws inside the `try`, before or after its `COMMIT` took effect: the event goes on as a temporary failure |
| `MarkFailed` | the update fenced by `attempts`; if it does not match, the round ends with an exception |
| `Crash`, `Restart` | a worker dies at any point; an open claim is rolled back |

`row[e]` holds the delivery columns of event `e`, `worker[w]` the round worker `w` is in, and
`answers` is a history of what the receiver said to which attempt. What is abstracted:

* `locked_at` and `processingTimeoutMs` are one flag, `lapsed`. It is set by `Lapse` at any time:
  a lease may run out while its worker is still at work, or long after it died.
* `available_at` is always a past reading of the clock, so a pending row is always due.
* `limit` bounds the rounds of one call; here a worker may always begin another round.
* A database failure in `markFailed` is a `Crash` followed by a `Restart`: the exception leaves
  `deliverPending`, and the claim waits for its lease.
* The receiver is external: it may give any answer to any attempt, the same event included.

### Payments

Every transaction of the repository takes the property's lock first (a webhook inserts its event
row before that, which makes a second delivery of the same event wait for the first), so each is
one action, taken when it commits. What is not atomic is kept apart: the clock `at` a call read
before it queued, the steps of `startCheckout`, and deaths between any of them.

| Step | Code |
|---|---|
| `StartCheckout`, `Deliver` | a handler is called and reads its clock (`payment/checkout.ts:347`, `:655`) |
| `Reuse`, `Insert`, `PrepareFails` | `prepareCheckout`: go on with the latest unfinished checkout, make one, or throw |
| `CreateSession` | the adapter's session, whose identifier is a hash of the checkout request (`stripe/src/index.ts:405`), and the check at the head of `attachProviderSession` |
| `Attach`, `AttachedBefore`, `AttachFails` | `attachProviderSession`; after the first two the guest gets the URL, or the answer is lost |
| `ReceiveDuplicate`, `ReceiveRejected`, `ReceiveIgnored`, `ReceiveApplied` | `processWebhookEvent` by its outcomes, in the order of its tests |
| `Crash` | a handler dies or its transaction fails; also a provider that does not answer |
| `Charge`, `Repeat`, `Decline`, `Close` | external: a guest pays, a second event of a success, a declined card, a session that ran out |

`checkout[<<r, n>>]` is the n-th checkout of request `r`, `received[e]` the outcome stored for event
`e`, `session`, `given` and `sent` belong to the provider and its guests: only a session whose URL
was returned can be paid. What is abstracted: the fields compared by `paymentMismatchCode` are one
flag, `agrees`; one provider and one account; a duplicate with another payload is answered with
another code and, like every duplicate, changes nothing. The clock of the provider need not agree
with that of the handlers: it closes a session some time after its expiry.

### Imported calendars

**A sync run** is `Start` (the health record says stale), `Fetch` or `FetchFails`, `Lock` (the
property's lock, and the list `reconcileLocked` reads once), one `ReconcileEvent` per event, then
`Commit`, or `RollBack` when a booking is in the way or the database fails, and `Succeed` or `Fail`
(`jobs/ical/sync.ts:153`). Two workers run at once; a fetch may return any calendar published since
it began, so a slow run reconciles an older one. `Restart` ends the process: transactions roll
back, the health record is gone. A run's writes are in `run[w].staged` until it commits.

`VerdictOf` is the decision of `reconcileEvent` by its own rules (`VersionIsNewer`,
`VersionIsOlder`); `UpsertGuard` and `ReleaseGuard` are the predicates of the SQL behind it. They
are not the same rules, and a write the store refuses becomes a review (`StaleWrite`). A
version is a sequence and a date, each possibly `Null`; summaries and time zones are left out.

**A fetch** goes hop by hop: `Validate`, `Lookup1`, `Lookup2`, `Respond`, `Chunk`, `Disposed` for a
body nobody wants, `ReadAndParse`. Every wait has a deadline; the clock cannot pass one, and
`Timeout` competes with an answer in the instant they meet. The faults of a URL's text are a
constant; addresses are 16-bit words and the ranges of the policy are the code's. A chunk is a
line. The mapped addresses and ranges in `AddressPolicy` are compared by prefix.

**A calendar** is a sequence of physical lines: a marker (`BEGIN`, `END`), a property with text,
date, number or word, a fold that continues the line before it, a blank or a broken line. A text is
a sequence of units, characters and the escapes the format knows, so that `Unfold`, `UnescapeOne`,
`EscapeText`, `SafeText` and `FoldLine` do to units what the code does to characters. The limits
(`MaxEvents`, `MaxReservations`, `MaxLine`, `MaxText`, `MaxNights`, `MaxSequence`, `FoldAt`) are
constants. `MaxText` is both `maxTextLength` and `maxUidLength`; that an escaped text fits a line
(`2 * MaxText < MaxLine`) holds of the code's 2,000 and 8,192, for characters of more octets too:
those are not escaped. `MaxReservations` is larger than `MaxEvents` in the code (1,000 and 500): an
export may be more than the parser takes.

### The public call

`RequestToBook` follows one call through its awaits: `Lookup` of the key, `EnsureProperty`,
`ReadPlan` and `ReadSeasons` (one transaction, under the lock, that reads two tables), `Submit`,
and after an error `LookAfterReuse` or `LookAgain`. `SubmitFails` is a lost connection before or
after the commit; `Crash` a process that dies: the guest hears nothing. The owner saves plans,
changes the guest maximum, deletes the property (requests and plan go with it) and creates it
again. A plan is its row and its seasons, `quoteRatePlan` is computed over real dates, and amounts
above `MaxSafe` overflow as the code's do. `inForce` is a history of the pairs of property and plan
that held during a call. The identifiers of requests are random and differ: the violation of their
primary key, which `errors.ts:96` reports as the same conflict, is not modelled.

### Admin sessions and property edits

`AdminSessions` follows one owner's requests. `Authenticate`, `Rotate`, `Create`, `Purge`, `Trim`,
`DeleteRow`, `Insert` are a login, statement by statement, because under READ COMMITTED each
statement sees what was committed when it began and waits for rows another transaction is deleting
(`LockedFor`). `Get`, `VerifyCsrf`, `Act` are a request that changes something: a session read by
one transaction, a token verified by a query that joins session and membership again (`CsrfHolds`),
and the call that follows. Nodes have clocks of their own (`Skew`) and `verifyCsrf` goes by the
database's (`DatabaseSkew`), each so far ahead of the slowest. `ended` is a history of the tokens
whose session a logout or a login has ended, an eviction has deleted, or the owner's membership has
taken with it. `KindOf` is what a route asks for: a
session, a role that may read or change or decide, a token. A token stands for its digest and its
CSRF token; the origin of a request is the admin's own.

`PropertyEdits` is the row of one property and the content route: `Load` (parse the row), an await,
`Validate` (merge, parse, compare the id), `Write` (all columns, under the lock). `Create` and
`Delete` may come between. `PropertyConfiguration` is the parser as the set of its error codes and
the canonical value: a text is a word with its length, its white space and whether it is clean. A
time zone passes two tests in the code: one of its shape (`ZoneShapes`, `timezone.ts:4-6` and 18)
and one by the runtime, which also answers with its own name for it (`Zones`, `timezone.ts:29`).
The assumption about `Zones` is that the runtime's name is its own name, not that it has the shape
asked for: which names a runtime gives depends on its version.

## 3. What the runs check

| Run | Instance | Question |
|---|---|---|
| `decisions` | 1 property, 2 processes, 2 requests (one deferred, one held) for overlapping nights, clock 0..2 | do concurrent decisions keep requests, inventory and outbox consistent? |
| `imports` | 1 property, 2 processes, a manual block, a held and a deferred request, one event in three versions | do native records and imports stay apart? |
| `keys` | 2 properties, 2 processes, 2 keys, 2 bodies, one legacy request, holds, sweeps, fairness | what do idempotency keys and sweeps do across properties, and does every call end? |
| `outbox` | 2 events, 2 workers, `maxAttempts` 2, fairness | what may a row say, what may a late worker do to it, and does every event end although workers die? |
| `payments` | 1 request, 2 checkouts, 2 handlers, 2 events, clock 0..2 | what do concurrent checkouts and disordered events do to a request's payments? |
| `payments_arrive` | 1 request, 1 checkout, 2 handlers, 2 events, fairness | is every payment recorded although handlers die? |
| `ical_sync` | 2 runs at a time, 3 in all, 2 uids, 3 stays, 4 histories of 3 calendars, clock 0..1 | what do runs with old and new snapshots, bookings and restarts do to the imported rows, the reports and the health record? |
| `ical_feed` | 5 urls, 3 addresses, 1 redirect, 20 documents of up to 18 lines, every header | how does a fetch end, and is what it parsed what was sent? |
| `request_to_book` | 3 calls under one key (two of one stay), 3 plans over a leap day, 2 guest maxima, 2 edits | what does a retried call answer while rates and property change? |
| `admin` | 2 requests on 2 nodes, 3 tokens, `maxSessions` 1, 3 roles, 3 clocks, 2 instants | what may a request do while sessions end around it? |
| `property_edits` | about 200 inputs; 2 requests of 10 bodies each, 3 creations | do parser and table agree, and what do edits change? |
| `offset_zones` | the same | is what persistence returns canonical? (expects a violation) |

| Property | Says | Broken by (a mutant) |
|---|---|---|
| `NoDoubleBooking` | active native records exclude each other and every active imported event | locks under different keys |
| `VerdictsHold` | what was read under the lock is still true at the write | locks under different keys |
| `InventoryMatchesRequest` | a request's record is its own, of its stay, and an occupancy once approved | approval that inserts nothing |
| `NoHoldOutlivesItsRequest` | no live hold of a rejected or expired request | closing without releasing |
| `OutboxTellsTheStory` | the outbox has exactly the submission and the decision of each request | decisions not announced |
| `OneRequestPerKey` | a key names one request, across properties | a unique index per property |
| `DecisionsAreFinal` | a decided request changes only its fingerprint | decisions of requests not pending |
| `DeadlineDecides` | expired only at or after the deadline or without a hold; approved only before it, by the instant of the very call that writes it | a sweep that forgets the deadline |
| `ImportsMoveForward` | versions never go back; a cancelled event returns only with a newer version | equal versions accepted |
| `OnlyAReleaseFreesOccupancy` | sold nights are freed only by the call that releases this very record, as an occupancy | a release that ignores the kind |
| `ImplementsCalendar` | every step is a step or a stutter of `Calendar` | an approval or an insert that skips its part |
| `CallsEnd` | every call ends | a sweep that locks in no fixed order |
| `DeliveredWasAccepted` | a delivered event was accepted in one of its attempts | acknowledging with the claim |
| `FailureIsExplained` | a failed event was refused for good or has used every attempt | giving up every lapsed claim |
| `NoAttemptIsSentTwice` | the receiver is called once per counted attempt | counting attempts when they fail |
| `LateFailuresAreIgnored` | a claim within its lease ends by its own worker or by an acceptance | no fence in `markFailed` |
| `SettledIsFinal` | delivered and failed rows are never written again | an acknowledgement that ignores the status |
| `EveryEventSettles` | a pending event is delivered or failed in the end | claims out of attempts are not cleared |
| `OneLiveCheckout` | a request has at most one unfinished, unexpired checkout | a lookup that misses checkouts without a session |
| `PaymentsAreKnown` | the report of a payment finds its checkout | a lookup of open checkouts only |
| `OneEventDecides` | a checkout is final exactly if one event decided it | events not recognised as duplicates |
| `OutcomesHold` | what is stored of an event is still so | a late event that leaves its checkout open |
| `OutcomesAreFinal` | a paid, failed or expired checkout never changes | a success after a decline that counts |
| `PaymentsArrive` | a payment is recorded, or its checkout closed, or its nights released | an event row that outlives a crash |
| `NoChannelOverlap` | no active imported row shares a night with an active booking | a guard asked of new events only |
| `VersionsNeverGoBack` | a row changes only to a newer version, or from active to cancelled | a release without the SQL guard |
| `NothingSeenIsForgotten` | no row is behind an event a committed run had in its calendar | a decision by sequence alone |
| `ReportsMatchTheTables` | the action a run reports of a uid is what its commit did to the row | missing uids taken as cancelled |
| `HealthTellsTheLastOutcome` | health is fresh only if the run that ended last succeeded in time, and carries an error only if it failed | a failure that leaves the stale flag |
| `FetchStaysInBounds` | connections only to addresses both lookups agreed on; redirects, bytes and time bounded | a second lookup nobody compares |
| `FetchEnds` | every fetch ends, whatever resolver and server do | a timer that ends with the lookups |
| `CalendarsAreWhole` | a calendar that parses is the whole body, an event per BEGIN and END, uids apart, nights counted | an END that may close an event twice |
| `ExportsComeBack` | exported reservations, no more than the parser has room for, parse back as themselves | an escape that forgets the backslash |
| `OneAnswerPerKey` | accepted answers under one key tell one request at one price | a lookup that compares keys only |
| `PricedByOnePlan` | a stored price is that of one plan in force during the call | plan and seasons read without the lock |
| `ConflictsAreReal` | a conflict is told only if the key stands for another request | a reuse error answered at once |
| `EndedSessionsStayEnded` | a session that has ended lets nobody in again; what it let in before changes nothing once the token's query finds it ended or expired | a token check that trusts what `get` found |
| `SessionsStayBounded` | live sessions exceed the bound by logins in flight only | trimming to the bound before the insert |
| `ConfigurationsReadBack` | what the parser takes, the CHECKs take, and it reads back as itself, in the public view too, unless refused for the shape of its time zone and that alone | amenities compared before trimming |
| `PersistenceReturnsCanonical` | a row is parsed as itself, whatever its time zone | the code (a finding) |
| `EditsKeepTheRest` | columns an edit was not sent stay as they were, unless another edit came between | an edit over the public view |

`TypeOK` of a module is not among the runs' properties: it is part of the inductive invariant of
that module's proofs (section 4), so that it is proved for every instance.

**Bounds of the engine.** Two processes are what the races need: each property is about one call that changes
what another has read or is waiting for, and every hazard listed shows with two calls in flight
followed by others. Stays `[0,2)`, `[1,3)` and `[2,3)` overlap, nest and touch. `MaxTime = 2` with
`HoldDuration = 1` lets a deadline be ahead, reached and passed, and lets a call work with an
instant older than the state it meets. Processes are symmetric, so the safety runs use symmetry;
`keys` does not, because symmetry is unsound for liveness, and its `MaxTime` is 1: a hold that
lapses is all a sweep needs. `CHECK_DEADLOCK` stays on: an idle process can always begin a call,
and a state in which every process waits for ever would be reported.

**Bounds of the outbox.** Two workers are the one whose lease ran out and the one that took over; a
third would be another of either. Two events show that `SKIP LOCKED` passes over a claimed event
and that the clean-up of one event travels with the claim of another. With `maxAttempts` 2 there
is one take-over, or one refusal, and then a last attempt, which its worker may leave to the
clean-up of another. The run checks liveness, so it has no symmetry.

**Bounds of the payments.** A request's checkouts are independent of another's, but for a lock that
is one action here, so one request is enough. Two checkouts are an old one and its successor; with
`CheckoutDuration = 1` and `MaxTime = 2` the first can be unfinished, expired or decided when the
second is made, and a handler can have a clock before or after an expiry. The properties compare
two events at most: two of one success, a decline and a success, an expiry and a success. Callers
and event identifiers are symmetric.

**Bounds of the calendars.** Two overlapping runs are an older and a newer snapshot; the third run
comes after both. Two uids are one that conflicts and one that is rolled back with it. The four
histories count sequences, date changes, mix both and give neither, with moves, cancellations,
a swap of two stays and an event of unknown status. `StaleAfter = 1` makes one tick stale. A fetch
needs one redirect to meet a redirect and the limit; `TimeoutMs = 1` puts every answer before or at
a deadline. The documents cover each error of the parser the model keeps, and each limit is met and
exceeded by one of them. `CHECK_DEADLOCK` is on: runs, bookings and restarts never end, and a
fetch that is done stutters.

**Bounds of the public call.** A key's calls are the first, its retry and one for another stay; more
would repeat them. Two edits are a plan saved and saved again, or a property deleted and created.
The stays cross the end of a February with 29 days; the plans have no, two and three seasons in an
order they are not stored in, a minimum stay above and below, and amounts that overflow at
`MaxSafe = 16`. The calls stop after an answer, so deadlock is not checked; the same holds of the
admin run, whose tokens run out.

**Bounds of the admin sessions.** With `maxSessions` 1 each login evicts; two logins at once exceed
the bound by one, the third token is the login after. The two nodes' clocks are two ticks apart and
the database's is between them, as long as a session lasts (`Ttl = 2`): one that is live to a node
may be over to the database, and a tick ends it between `get` and the token's query. Tokens are
symmetric.

**Bounds of the property edits.** The inputs take one field at a time to a missing, wrong, empty,
padded, longest and too long value, and counts and beds to each side of the rules that join
fields. Two requests are enough for one to overtake the other. One of the time zones, `+03`, has a name of
the runtime that is not of the shape asked for; a creation and a body bring it.

**Fairness of the engine.** `FairSpec` adds strong fairness of the steps of each call in flight, and nothing
else: PostgreSQL queues the waiters of an advisory lock, so a call that can get the lock again and
again gets it, and the event loop drives a call it has begun. Weak fairness would be too little,
since a waiting call is disabled whenever another one owns the lock. No fairness is assumed of
clients, of the clock or of crashes.

**Fairness of the outbox.** Weak fairness of the rounds of each worker (whoever runs the engine keeps
calling `deliverPending`, and the receiver's call ends) and of `Lapse` (time passes). A worker
that is down need not come back. `EveryEventSettles` is stated for behaviours in which every worker
is up for ever or down for ever at last, and one is up: a worker that dies and returns again and
again could hold a lock in every moment in which another one asks for it.

**Fairness of the payments.** Strong fairness, for each event, of its delivery until it has an outcome
and of its handling: the provider sends an event until it is answered, and not every handler of
one event dies. Weak fairness of a handler's steps. Guests, clocks and crashes owe nothing.

**Fairness of a fetch.** Weak fairness of the process's own steps (`Internal`), of the clock and of
timers that are due. Resolver and server owe nothing, not even an error.

**Refinement.** `Calendar` knows claims (free, tentative, firm), imports and request statuses. A
committed transaction is one of its steps: a `Trade` (claims are taken of nights nobody has, lapse
if tentative, become firm; a request is approved only in the step that gives it firm nights),
`GiveUp` of one firm claim, or one `Import`. Waiting, deciding, crashing and retrying are stutters.
A block maps to the set of its nights, a hold being tentative; a released row to no claim.

**What the model shows about the code, beyond the properties.**

* A decision is judged by the instant at which it was called. A call that waits for the lock
  across a deadline still approves; the hold check uses the same instant, so the outcome is
  consistent (`DeadlineDecides`).
* `confirmHold` on the hold of a pending request leaves the request without a hold to release:
  approving it then expires it and rejecting it keeps the nights sold. No caller in the repository
  does this; `InventoryMatchesRequest` is stated so that it holds even then.
* An event the receiver accepted can end as `failed`: the acknowledgement of the last attempt is
  lost, or an earlier, accepted attempt is acknowledged only after a later one was refused.
  `DeliveredWasAccepted` has no converse, and receivers must be idempotent.
* `markDelivered` is not fenced by the attempt as `markFailed` is. It is harmless: it can only end
  another worker's claim on the strength of an acceptance (`LateFailuresAreIgnored`,
  `DeliveredWasAccepted`).
* Nothing stops a request that is paid from getting another checkout: `prepareCheckout` looks at
  unfinished checkouts only. `OneLiveCheckout` is about checkouts that can still be paid.
* A success judged after the checkout's expiry expires the checkout although the guest has paid; a
  success after a decline in the same session is ignored as `terminal_state`. `PaymentsArrive`
  promises that a payment is not lost sight of, not that its checkout becomes `paid`.
* Two checkouts of one request made with the same reading of the clock have the same session. If the
  first was decided before the second is attached, the second never is, and the request waits for
  it to expire.
* A session that was made but not attached, because its handler died, can still be closed by the
  provider. That report is stored as `unknown_checkout`; the report of a payment never is.
* The rules of `reconcile.ts` and of the SQL behind them differ where a version is unknown: a
  cancellation without a sequence, for the dates of the row, is decided `release` and refused by the
  predicate. The report is then `needs_review` with `stale_write`, whose text blames a concurrent
  change though there was none. Nothing is lost: `NothingSeenIsForgotten`, `ReportsMatchTheTables`.
* The cancellation of a uid without a row leaves no trace (`ignored_cancelled`), so an older
  snapshot reconciled later creates the event until the next sync.
* One booking on a feed's nights rolls back the whole feed, and `availability_conflict` has no safe
  text: health says `sync_failed`. An own booking that comes back from a channel does so for ever.
  Fresh health says nothing of events left for review.
* Parser and exporter keep a TAB in a summary, `validateEvent` of the reconciliation refuses it, and
  with it the feed. The exporter writes up to 1000 reservations, the parser reads up to 500 events.
* A redirect whose body cannot be destroyed is read to its end under the body limit, so that a long
  body fails the redirect. A fetch may take two timer spans per hop.
* A quote may be older than the submission, and so may the guest maximum; both were true at some
  time of the call. Deleting a property frees its keys.
* Two logins at once exceed `maxSessions` by one each, and may be each other's deadlock: one of them
  is answered with an error. A node whose clock is behind the one that made a session fails on it
  (`last_seen_at >= created_at`). A session inserted while its membership is revoked is never let in.
* An act is not fenced against its session: a logout between the token's check and the act does not
  stop it. `EndedSessionsStayEnded` is stated of the moment of the check.
* A time zone given as an offset is accepted once and never again: `+03` has the shape asked for,
  the runtime calls it `+03:00`, the CHECK on the column takes that, and every read parses the row
  and refuses the colon (`timezone.ts:18`, `repository.ts:163` and 174). README.md:194 has it that
  "Persistence returns canonical domain properties." The content route reads before it writes, so
  no edit mends the row; `offset_zones` shows the creation, `ConfigurationsReadBack` what holds
  otherwise.
* A content edit writes every column of what it loaded: of two edits at once the later one undoes
  the earlier. `EditsKeepTheRest` is what holds otherwise.
* A manual block or hold created under the identifier of a deferred request makes the approval of
  that request fail until the end of its time: the primary key refuses the occupancy.

## 4. What is proved

The proofs assume what the `ASSUME`s of the modules say of the constants, and nothing else; TLC
evaluates each of them in the runs. None of them bounds a set or a number: processes, properties,
keys, events, workers, documents and inputs are any. Every state machine has an inductive
invariant, shown in three steps (the initial states have it, every step keeps it, it implies the
property), with one lemma or step for each action.

### The booking engine

`BookingEngineProofs` (`ProcsAssumption`, `IdsAssumption`, `PropertiesAssumption`,
`MaxTimeAssumption`, `StaysAssumption`, `LegacyAssumption`, `HoldDurationAssumption`,
`CallsAssumption`):

| Theorem | Statement |
|---|---|
| `TypeCorrectness` | `Spec => []TypeOK` |
| `NoNightIsSoldTwice` | `Spec => []NoDoubleBooking` |
| `VerdictsStayTrue` | `Spec => []VerdictsHold` |
| `OverlapsIffNightShared` | two stays overlap exactly when they share a night |
| `KeysNameOneRequest` | `Spec => []OneRequestPerKey` |
| `RequestsOwnTheirInventory` | `Spec => []InventoryMatchesRequest` |
| `OutboxMatchesRequests` | `Spec => []OutboxTellsTheStory` |
| `TurnedDownMeansFreed` | `Spec => []NoHoldOutlivesItsRequest` |
| `FirstDecisionWins` | `Spec => DecisionsAreFinal` |
| `NothingIsApprovedLate` | `Spec => DeadlineDecides` |
| `SoldNightsStaySold` | `Spec => OnlyAReleaseFreesOccupancy` |
| `OldNewsChangesNothing` | `Spec => ImportsMoveForward` |
| `EngineImplementsCalendar` | `Spec => ImplementsCalendar` |
| `CalendarKeepsItsPromise` | `Calendar` never gives a night to two owners |

`NoDoubleBooking` is not inductive: a call that decided to insert must still find no imported
event on its nights when it writes. The inductive invariant is

    IInv == TypeOK /\ VerdictsHold /\ NoDoubleBooking

where `VerdictsHold` says that a call that holds its property's lock has read the truth. The
argument: a step of process `p` leaves `Undisturbed` the calls and locks of every other process,
the rows of every property whose lock `p` does not own, and the property and stay of every
request. So the verdict of a process that owns a lock can only be invalidated by that process
itself, whose write ends its call; and a write that follows a true verdict keeps its property
`Disjoint`. One lemma per group of actions proves each half.

For the records, each of the eleven writes is first summed up as what it does to one row of each
table. `RowMoves`: an inventory row stays, is new, is a live hold that is released or sold, or is
released by the call that releases it, as what it is. `RequestMoves`: a request stays, is given a
new fingerprint, or `Opens`, `Closes`, `Approves`. `StoryMoves`: the outbox gains exactly the event
of that move. On top of `IInv` the invariant is

    RecordsInv == /\ OneRequestPerKey /\ OutboxTellsTheStory
                  /\ InventoryMatchesRequest /\ NoHoldOutlivesItsRequest
                  /\ LegacyStays             the rows the migrations left are still there
                  /\ DecisionsAreTimely      a decision under the lock agrees with its clock

`DecisionsAreTimely` is what `DeadlineDecides` needs: the comparison with the deadline is made when
the call reads, and judged when it writes, by the call that writes (`MayExpire`). `OneRequestPerKey`
needs no lock: two submissions under one key may own the locks of different properties, and the
unique index decides.

The refinement follows step by step: a read, a wait or a crash is a stutter; a move of a row that
ends a live hold is a lapse, an approval a firm claim with its request in the same step, and
`NoDoubleBooking` before and after the step is why the claims that are taken are of nights nobody
has. That `Calendar` is a specification worth implementing is the last theorem.

Model-checked only: `CallsEnd` (fairness and `ENABLED` are out of the prover's reach).

### Outbox delivery

`OutboxDeliveryProofs`, for all sets of workers, all sets of numbered events
(`EventsAssumption`) and every positive `MaxAttempts` (`MaxAttemptsAssumption`):

| Theorem | Statement |
|---|---|
| `OutboxTypeCorrectness` | `Spec => []TypeOK` |
| `NoFalseDelivery` | `Spec => []DeliveredWasAccepted` |
| `NoEarlyFailure` | `Spec => []FailureIsExplained` |
| `OneCallPerAttempt` | `Spec => []NoAttemptIsSentTwice` |
| `SettledEventsStay` | `Spec => SettledIsFinal` |
| `TakeoversAreSafe` | `Spec => LateFailuresAreIgnored` |

The inductive invariant joins the properties with what the row locks and the counter guarantee:

    IInv == /\ TypeOK
            /\ ClaimsAreCurrent      an open claim's rows are still as it read them
            /\ ClaimsAreApart        no row is locked by two claims
            /\ AttemptsAreCounted    an attempt in flight is not above the row's count
            /\ AttemptsArePrivate    two workers never make the same attempt of an event
            /\ SendsAreNew           an attempt about to be sent has no answer yet
            /\ RepliesWereGiven      a reply a worker carries is one the receiver gave
            /\ DeliveredWasAccepted /\ FailureIsExplained

The argument: a claim raises `attempts` of a row only it has locked, so the attempt it makes is
above every attempt made before; the two action properties follow because a row that is settled
is in nobody's claim, and because a row under a running lease can be changed only by its worker, by
an acceptance, or by a failure whose attempt equals the count, which is that worker's alone.

Model-checked only: `EveryEventSettles` (fairness).

### Payments

`PaymentsProofs`, for all sets of requests, callers and events and all values of the bounds
(`AttemptsAssumption`, `DurationAssumption`, `MaxTimeAssumption`):

| Theorem | Statement |
|---|---|
| `PaymentsTypeCorrectness` | `Spec => []TypeOK` |
| `OneCheckoutAtATime` | `Spec => []OneLiveCheckout` |
| `NoPaymentIsUnknown` | `Spec => []PaymentsAreKnown` |
| `DecidedOnce` | `Spec => []OneEventDecides` |
| `RecordsStayTrue` | `Spec => []OutcomesHold` |
| `FinalStaysFinal` | `Spec => OutcomesAreFinal` |

The inductive invariant adds to the properties

    RowsAreSound          a checkout has a session unless it is new, and its request was approved
    CallsAreSound         a call has read the clock in the past, and receives what was sent
    SessionsAreApart      no session is attached to two checkouts
    GivenAreAttached      a guest's session is attached
    SuccessesAreCharged   only guests pay, and only payments are reported as successes
    ReceivedWereSent      what was received was sent

A payment is known because it was made in a session a guest had, which was attached before. A
checkout is decided once because an event that decides it finds it undecided, so that no earlier
event decided it, and because no other checkout has its session. A request has one live checkout
because the clock of a call that inserts one is never ahead: a checkout that is alive now was
alive then and would have been found.

Model-checked only: `PaymentsArrive` (fairness).

### Imported calendars

`ICalSyncProofs`, for any number of overlapping runs, uids and published calendars
(`NobodyAssumption`, `SyncUidsAssumption`, `SyncBoundsAssumption`, `SyncStaysAssumption`,
`HistoriesAssumption`):

| Theorem | Statement |
|---|---|
| `SyncKeepsItsInvariant` | `Spec => []SyncInv` |
| `NoOverlapOnTheChannel` | `Spec => []NoChannelOverlap` |
| `VersionsSeenAreKept` | `Spec => []NothingSeenIsForgotten` |
| `HealthIsHonest` | `Spec => []HealthTellsTheLastOutcome` |
| `VersionsOnlyRise` | `Spec => VersionsNeverGoBack` |
| `ReportsAreTrue` | `Spec => ReportsMatchTheTables` |

`SyncInv` says that the transaction that reconciles owns the lock and is alone (`OneReconciles`),
that the list it read once is still what the table holds, that what it has staged and noted of
every uid is the decision of that event on that row (`StagedFaithfully`), that nothing it staged
meets a booking (`StagedApart`), and what the history variables have to do with the tables. The
properties then follow from facts about one event and one row: the decision by sequence and date,
and the guards of the SQL, are not the same rule, but both follow one order of versions, and what
the first lets through the second never turns into a step backwards.

### Days, and folds

Prices and calendars rest on the arithmetic of days and on folds: over the nights of a stay, the
lines of a document, the properties of an event. `LocalDatesProofs` proves of the arithmetic, for
every date from year 1 on:

| Theorem or lemma | Statement |
|---|---|
| `NextDayCountsOne` | `DayNumber` of the day after is one more, over months, leap years and centuries |
| `CivilUndoesDayNumber` | `CivilFromDays` gives the date back |
| `DaysAfterCounts` | the difference of two day numbers is how often the next day is taken from one to the other |
| `DatesAreOrdered` | `Earlier` is the order of the day numbers |

They put `DayNumber` without its eras, as days from one 1 March to another (`DayNumberIsMarches`).

The induction theorems of the library take a predicate as a parameter, which the provers cannot
give them. `Folding` does without: induction is stated for a set of numbers (`NaturalInduction`)
and follows from the least element of a well-founded set (`WFMin`); the operator that is folded is
a constant of the module, and `LocalDatesProofs` has one `INSTANCE` for each operator. `FoldSteps`
says that a fold has partial results, each one step from the one before, and ends with the last of
them; `FoldIsLast` that nothing else proceeds so; `FoldOfConcat` that a sequence may be folded in
two parts. `Folded` repeats the definition of `FoldLeft` instead of extending `SequencesExt`, which
each instance would carry along; where it is used, the two are unfolded and compared.

### Fetched calendars

`LocalDatesProofs`, for any urls, redirects, resolver, server and documents of physical lines
(`FetchLimitsAssumption`, `TextLimitsAssumption`, `DocumentsAssumption`), and any exports of
reservations that the exporter takes (`ExportsAssumption`):

| Theorem | Statement |
|---|---|
| `FetchesAreBounded` | `FetchSpec => []FetchStaysInBounds` |
| `CalendarsHoldAllEvents` | `FetchSpec => []CalendarsAreWhole` |
| `ExportsAreReadBack` | `FetchSpec => []ExportsComeBack` |

The bound on the time adds up hop by hop: a hop begins within two timer spans for each hop before
it, its lookups end within one span more, its request within another (`ClockOK`). What was taken
of a body is always a beginning of it (`BodyOK`), and what was parsed is all of it (`ParsedAsSent`).

`ParsedIsWhole` is about the parser alone. Unfolding neither makes nor loses the end of an event,
or it leaves an end nobody accepts (`UnfoldedSoFar`). Reading keeps as many events as it read ends,
none of them of one uid, each a stay whose nights were counted (`Reads`), and stops at the first
line it does not accept; the nights are the calendar's by `DaysAfterCounts`.

`ExportsAreReadBack` follows the exporter through the parser, one level at a time, each the
inverse of the one below it, by the lemmas about folds:

* characters: what `EscapeText` wrote, `Unescape` reads (`EscapedComesBack`), and a text that is
  safe has nothing the parser rejects (`SafeTextIsSafe`);
* lines: the pieces `FoldLine` makes of a line unfold to that line (`LinesComeBack`); an escape may
  lie across a fold, because lines are unfolded before they are unescaped;
* events: each of the ten lines of an `ExportedEvent` is taken by `ReadLine`, and the event read of
  them is the reservation (`ExportedEventIsRead`); the dates that `validDate` accepts by counting,
  the parser accepts by `parseLocalDate`'s rule;
* calendars: the events come in the order of the reservations, none is refused for its uid or for
  the number of events before it (`ExportsParse`).

With `ParsedAsSent`, that is the invariant: a fetch that fails for want of bytes, time or routes
says so, and one that parsed the whole of an export ends with its reservations.

Model-checked only: `FetchEnds` (fairness).

### The public call

`LocalDatesProofs`, for any callers, keys, bodies, plans and edits (`RequestToBookAssumption`,
`RateLimitsAssumption`):

| Theorem | Statement |
|---|---|
| `EveryKeyHasOneAnswer` | `Spec => []OneAnswerPerKey` |
| `ConflictsAreTrue` | `Spec => ConflictsAreReal` |
| `CallsReadOnePlan` | `Spec => []CallInv` |
| `QuotesReadOnePlan` | `Spec => QuotedFromOnePlan` |
| `QuotesAreRight` | a quote without an error is right: the nights of the stay, each at its own rate, and their sum |
| `PricesAreRight` | `Spec => PricedByOnePlan` |

The answers are always those of stored rows, and a key has one row, or the property was deleted
and took rows and answers along (`RowsInv`). For the price, `CallInv` follows what a call has
read: what is in force now was in force during every call in progress; the row that was read is
that of the plan until its seasons are read, because the lock is held in between; a quote is that
of one plan of the call's time (`QuotedFromOnePlan`). What such a quote is, `QuotesAreRight` says:
offsets are the days of the stay (`OffsetsAreDays`), no day has two seasons because the plan was
accepted (`OneSeasonADay`), the fold adds one night at a time at the rate of its season or of the
plan (`NightAdded`), and no amount that passed the bounds has overflowed. The two together are
`PricedByOnePlan`.

### Admin sessions

`AdminSessionsProofs`, for any clocks, any capacity and any finite number of requests in progress
(`AdminSessionsAssumption`):

| Theorem | Statement |
|---|---|
| `EndedSessionsAreOver` | `Spec => EndedSessionsStayEnded` |
| `SessionsAreBounded` | `Spec => []SessionsStayBounded` |

The first needs that what has ended is over for good (`EndedOver`): a token that was drawn has no
row any more, or a revoked one, or an owner without membership, and no statement in flight undoes
that, because tokens are drawn once, rows are only ever marked revoked, and a login deletes only
rows of tokens that were drawn. Then `get` and the token's query, which ask for a live row, refuse
it, the query also by the database's clock. The bound is the subtle one: a login trims to
`maxSessions - 1`, but others insert between its trim and its insert, and a login that ends may be
followed by another of the same client. `LiveCounted` assigns to each login that has trimmed the set
of requests that inserted since, none of them twice: who inserts a second time has trimmed in
between, and saw the first. Since the requests are finitely many, so is the excess.

### Properties

`PropertyEditsProofs`, for any vocabulary, inputs, bodies and requests (`VocabularyAssumption`,
`InputsAssumption`: a text has a length and an amount of white space, arrays are sequences):

| Theorem | Statement |
|---|---|
| `RowsReadBack` | `Spec => []ConfigurationsReadBack` |
| `EditsAreWhole` | `Spec => EditsKeepTheRest` |

Most of it is about values, field by field: what the parser accepts it makes canonical, a canonical
value stays what it is, and is accepted again but for the shape of its time zone
(`RefusedForItsZone`), the CHECK constraints accept it, and so it is with the owner's and the public
reading of the row (`AcceptedIsSound`). Nothing is assumed about the shape of the runtime's names.
Trimming, upper case, the names of time zones, beds and amenities each have their lemma. The sums
over the beds stay opaque: they are sums of the same beds each time. `EditsInv` says of every
request what it holds: what it loaded was the row if nobody wrote since, and what it will write
differs from that in the fields of the body.

## 5. Not modelled, and plan

Not modelled: the HTTP server and its limits, rendering and serialization, the read-only routes, the
in-memory session store, password hashing, the migration runner (one advisory lock around files in
order), the creation of organizations and owners, the SDK, contract documents and scripts. They
keep no state that others change, or are I/O and text. Of the row locks of `submit` that span
properties (`requests.ts:624`) only the advisory locks are modelled.

Next: the migration runner, and the row locks of `submit`.
