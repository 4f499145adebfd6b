--------------------------- MODULE ICalSyncProofs ---------------------------
(***************************************************************************)
(* Theorems about the synchronisation of imported calendars, for any       *)
(* number of overlapping runs, uids and published calendars.               *)
(*                                                                         *)
(* First what the comparisons of versions, the decision of reconcileEvent  *)
(* and the guards of the store have in common: they follow one order.      *)
(* Then what a run keeps true of the table while it owns the lock.         *)
(***************************************************************************)
EXTENDS ICalSync, WellFoundedInduction, TLAPS

-----------------------------------------------------------------------------
(* Versions *)

\* What the lemmas below compare: events, rows, and versions alone.
Versioned(x) == x.seq \in Nullable /\ x.mod \in Nullable

\* The order of versions is total on versions: one is before the other or
\* they are equal, and whatever precedes is not preceded.
LEMMA VersionsAreOrdered ==
  ASSUME NEW x, NEW y, NEW z, Versioned(x), Versioned(y), Versioned(z)
  PROVE  /\ Precedes(x, y) => ~Precedes(y, x)
         /\ Precedes(x, y) \/ Precedes(y, x) \/ (x.seq = y.seq /\ x.mod = y.mod)
         /\ ~Precedes(y, x) /\ ~Precedes(z, y) => ~Precedes(z, x)
  BY DEF Versioned, Nullable, Null, Precedes

\* versionIsNewer is that order, with null below every value.
LEMMA NewerIsLater ==
  ASSUME NEW e, NEW r, Versioned(e), Versioned(r)
  PROVE  VersionIsNewer(e, r) <=> Precedes(r, e)
  BY DEF Versioned, Nullable, Null, Precedes, VersionIsNewer

\* versionIsOlder says nothing wrong, but does not notice every older version.
LEMMA OlderIsEarlier ==
  ASSUME NEW e, NEW r, Versioned(e), Versioned(r)
  PROVE  VersionIsOlder(e, r) => Precedes(e, r)
  BY DEF Versioned, Nullable, Null, Precedes, VersionIsOlder

\* The guards written in SQL follow the same order as the comparisons.
LEMMA GuardsFollowTheOrder ==
  ASSUME NEW e, NEW r, Versioned(e), Versioned(r), r # Absent
  PROVE  /\ UpsertGuard(e, r) <=> Precedes(r, e) \/ r = ActiveRow(e)
         /\ ReleaseGuard(e, r) <=> ~Precedes(e, r)
  BY DEF Versioned, Nullable, Null, Precedes, UpsertGuard, ReleaseGuard

\* Events and rows have versions, and no row is the absent one.
LEMMA Versions ==
  /\ \A e \in Event(Stays) : Versioned(e)
  /\ \A r \in Row(Stays) : Versioned(r) /\ r # Absent
  BY DEF Event, Row, Versioned, Absent

\* An upsert leaves an active row of the event's version and stay.
LEMMA ActiveRows ==
  ASSUME NEW e \in Event(Stays), e.status \in {"confirmed", "tentative"}
  PROVE  /\ ActiveRow(e) \in Row(Stays)
         /\ ActiveRow(e).status = "active" /\ ActiveRow(e).stay = e.stay
         /\ ActiveRow(e).seq = e.seq /\ ActiveRow(e).mod = e.mod
  BY DEF ActiveRow, Event, Row

\* A release leaves a released row of the event's version and the row's stay.
LEMMA ReleasedRows ==
  ASSUME NEW e \in Event(Stays), NEW r \in Row(Stays)
  PROVE  /\ ReleasedRow(e, r) \in Row(Stays)
         /\ ReleasedRow(e, r).status = "released" /\ ReleasedRow(e, r).stay = r.stay
         /\ ReleasedRow(e, r).seq = e.seq /\ ReleasedRow(e, r).mod = e.mod
  BY DEF ReleasedRow, Event, Row

-----------------------------------------------------------------------------
(* One event against one row *)

\* The row after the decision about e was carried out on the row it was about.
RowAfter(e, r) == Written(VerdictOf(e, r).write, e, r)

\* What the run reports of e.
Report(e, r) ==
  IF StaleWrite(VerdictOf(e, r).write, e, r) THEN "needs_review" ELSE VerdictOf(e, r).action

\* The decision about a cancellation, or about a stay, in full.
LEMMA Cancellations ==
  ASSUME NEW e \in Event(Stays), NEW r \in {Absent} \cup Row(Stays), e.status = "cancelled"
  PROVE  LET v == VerdictOf(e, r)
         IN  \/ v = Review
             \/ r = Absent /\ v = Verdict("ignored_cancelled", "none")
             \/ /\ r # Absent /\ r.status = "released"
                /\ v \in {Verdict("unchanged", "none"), Verdict("unchanged", "release")}
                /\ v.write = "release" <=> VersionIsNewer(e, r)
                /\ ~VersionIsOlder(e, r)
             \/ /\ r # Absent /\ r.status = "active"
                /\ v = Verdict("released", "release")
                /\ ~VersionIsOlder(e, r)
<1>1. CASE r = Absent
  BY <1>1 DEF VerdictOf, CancellationVerdict, Verdict, Review, Absent
<1>2. CASE r # Absent /\ VersionIsOlder(e, r)
  BY <1>2 DEF VerdictOf, CancellationVerdict, Verdict, Review
<1>3. CASE r # Absent /\ ~VersionIsOlder(e, r) /\ r.status = "released"
  <2>1. VerdictOf(e, r) = Verdict("unchanged", IF VersionIsNewer(e, r) THEN "release" ELSE "none")
    BY <1>3 DEF VerdictOf, CancellationVerdict
  <2> QED BY <1>3, <2>1 DEF Verdict
<1>4. CASE r # Absent /\ ~VersionIsOlder(e, r) /\ r.status = "active"
  <2>1. \/ VerdictOf(e, r) = Review
        \/ VerdictOf(e, r) = Verdict("released", "release")
    BY <1>4 DEF VerdictOf, CancellationVerdict
  <2> QED BY <1>4, <2>1
<1>5. r = Absent \/ r.status \in {"active", "released"}
  BY DEF Row
<1> QED BY <1>1, <1>2, <1>3, <1>4, <1>5

\* The same for stays, and for events of a status the store does not know.
LEMMA StayDecisions ==
  ASSUME NEW e \in Event(Stays), NEW r \in {Absent} \cup Row(Stays), e.status # "cancelled"
  PROVE  LET v == VerdictOf(e, r)
         IN  \/ v = Review
             \/ r = Absent /\ v = Verdict("created", "upsert")
             \/ r # Absent /\ r = ActiveRow(e) /\ v = Verdict("unchanged", "upsert")
             \/ /\ r # Absent /\ r # ActiveRow(e) /\ VersionIsNewer(e, r)
                /\ v = Verdict("updated", "upsert")
<1>1. CASE e.status = "unknown"
  BY <1>1 DEF VerdictOf
<1>2. CASE e.status \in {"confirmed", "tentative"}
  <2>1. VerdictOf(e, r) = StayVerdict(e, r)
    BY <1>2 DEF VerdictOf
  <2>2. CASE r = Absent
    BY <2>1, <2>2 DEF StayVerdict, ActiveRow, Absent
  <2>3. CASE r # Absent /\ r = ActiveRow(e)
    <3>1. StayVerdict(e, r) = Verdict("unchanged", "upsert")
      BY <2>3 DEF StayVerdict
    <3> QED BY <2>1, <2>3, <3>1
  <2>4. CASE r # Absent /\ r # ActiveRow(e)
    <3>1. StayVerdict(e, r) = IF VersionIsNewer(e, r) THEN Verdict("updated", "upsert") ELSE Review
      BY <2>4 DEF StayVerdict
    <3> QED BY <2>1, <2>4, <3>1
  <2> QED BY <2>2, <2>3, <2>4
<1> QED BY <1>1, <1>2 DEF Event

\* An event left for review changes no row and is reported as it is.
LEMMA ReviewedRows ==
  ASSUME NEW e, NEW r, VerdictOf(e, r).write = "none"
  PROVE  RowAfter(e, r) = r /\ Report(e, r) = VerdictOf(e, r).action
  BY DEF RowAfter, Report, Written, StaleWrite

\* Where the decision is to write, the guard of the store lets it: the rules
\* of the two agree, but for a release of a version the store knows better.
LEMMA WrittenRows ==
  ASSUME NEW e \in Event(Stays), NEW r \in {Absent} \cup Row(Stays),
         VerdictOf(e, r).write # "none"
  PROVE  \/ /\ VerdictOf(e, r).write = "upsert" /\ e.status \in {"confirmed", "tentative"}
            /\ RowAfter(e, r) = ActiveRow(e) /\ Report(e, r) = VerdictOf(e, r).action
         \/ /\ VerdictOf(e, r).write = "release" /\ e.status = "cancelled"
            /\ r # Absent
            /\ RowAfter(e, r) = IF Precedes(e, r) THEN r ELSE ReleasedRow(e, r)
            /\ Report(e, r) = IF Precedes(e, r) THEN "needs_review" ELSE VerdictOf(e, r).action
<1>1. Versioned(e) /\ (r = Absent \/ Versioned(r))
  BY Versions
<1>2. CASE e.status = "cancelled"
  <2>1. VerdictOf(e, r).write = "release" /\ r # Absent
    BY <1>2, Cancellations DEF Verdict, Review
  <2>2. ReleaseGuard(e, r) <=> ~Precedes(e, r)
    BY <1>1, <2>1, GuardsFollowTheOrder
  <2> QED BY <1>2, <2>1, <2>2 DEF RowAfter, Report, Written, StaleWrite
<1>3. CASE e.status # "cancelled"
  <2>1. VerdictOf(e, r).write = "upsert" /\ e.status # "unknown"
    <3>1. e.status = "unknown" => VerdictOf(e, r) = Review
      BY DEF VerdictOf
    <3> QED BY <1>3, <3>1, StayDecisions DEF Verdict, Review
  <2>2. r = Absent \/ r = ActiveRow(e) \/ VersionIsNewer(e, r)
    BY <1>3, <2>1, StayDecisions DEF Verdict, Review
  <2>3. UpsertGuard(e, r)
    <3>1. CASE r = Absent
      BY <3>1 DEF UpsertGuard
    <3>2. CASE r # Absent
      BY <1>1, <2>2, <3>2, GuardsFollowTheOrder, NewerIsLater
    <3> QED BY <3>1, <3>2
  <2> QED BY <2>1, <2>3, <1>3 DEF RowAfter, Report, Written, StaleWrite, Event
<1> QED BY <1>2, <1>3

\* A row moves to a higher version, or stays as it is, or is released within
\* its version; it is never lost, and no upsert brings an older one.
LEMMA RowsMoveForward ==
  ASSUME NEW e \in Event(Stays), NEW r \in {Absent} \cup Row(Stays)
  PROVE  LET n == RowAfter(e, r)
         IN  /\ n \in {Absent} \cup Row(Stays)
             /\ r # Absent =>
                  /\ n # Absent
                  /\ \/ n = r
                     \/ Precedes(r, n)
                     \/ /\ r.status = "active"
                        /\ n = [r EXCEPT !.status = "released", !.eventStatus = "cancelled"]
<1>1. Versioned(e) /\ (r = Absent \/ (Versioned(r) /\ r \in Row(Stays)))
  BY Versions
<1>2. CASE VerdictOf(e, r).write = "none"
  BY <1>2, ReviewedRows
<1>3. CASE /\ VerdictOf(e, r).write = "upsert" /\ e.status \in {"confirmed", "tentative"}
           /\ RowAfter(e, r) = ActiveRow(e)
  <2>1. ActiveRow(e) \in Row(Stays) /\ ActiveRow(e).seq = e.seq /\ ActiveRow(e).mod = e.mod
    BY <1>3, ActiveRows
  <2>2. r = Absent \/ r = ActiveRow(e) \/ VersionIsNewer(e, r)
    BY <1>3, StayDecisions DEF Verdict, Review
  <2>3. r # Absent /\ VersionIsNewer(e, r) => Precedes(r, e)
    BY <1>1, NewerIsLater
  <2>4. Precedes(r, e) => Precedes(r, ActiveRow(e))
    BY <2>1 DEF Precedes
  <2> QED BY <1>3, <2>1, <2>2, <2>3, <2>4, Versions
<1>4. CASE /\ VerdictOf(e, r).write = "release" /\ e.status = "cancelled" /\ r # Absent
           /\ RowAfter(e, r) = IF Precedes(e, r) THEN r ELSE ReleasedRow(e, r)
  <2>1. CASE Precedes(e, r)
    BY <1>1, <1>4, <2>1
  <2>2. CASE ~Precedes(e, r)
    <3>1. /\ ReleasedRow(e, r) \in Row(Stays)
          /\ ReleasedRow(e, r).seq = e.seq /\ ReleasedRow(e, r).mod = e.mod
      BY <1>1, <1>4, ReleasedRows
    <3>2. Precedes(r, e) \/ (r.seq = e.seq /\ r.mod = e.mod)
      BY <1>1, <1>4, <2>2, VersionsAreOrdered
    <3>3. CASE Precedes(r, e)
      <4>1. Precedes(r, ReleasedRow(e, r))
        BY <3>1, <3>3 DEF Precedes
      <4> QED BY <1>4, <2>2, <3>1, <4>1, Versions
    <3>4. CASE r.seq = e.seq /\ r.mod = e.mod
      <4>1. ReleasedRow(e, r) = [r EXCEPT !.status = "released", !.eventStatus = "cancelled"]
        BY <1>1, <1>4, <3>4 DEF ReleasedRow, Row
      <4>2. r.status = "active" \/ r.status = "released"
        BY <1>1, <1>4 DEF Row
      <4>3. CASE r.status = "released"
        <5>1. ~VersionIsNewer(e, r)
          BY <1>1, <1>4, <3>4 DEF VersionIsNewer, Nullable, Null, Versioned
        <5> QED BY <1>4, <4>3, <5>1, Cancellations DEF Verdict, Review
      <4> QED BY <1>4, <2>2, <3>1, <4>1, <4>2, <4>3, Versions
    <3> QED BY <3>2, <3>3, <3>4
  <2> QED BY <2>1, <2>2
<1> QED BY <1>2, <1>3, <1>4, WrittenRows

\* What is reported of an event is what happened to the row.
LEMMA ReportsHold ==
  ASSUME NEW e \in Event(Stays), NEW r \in {Absent} \cup Row(Stays)
  PROVE  ReportHolds(Report(e, r), e, r, RowAfter(e, r))
<1>1. CASE VerdictOf(e, r).write = "none"
  <2>1. RowAfter(e, r) = r /\ Report(e, r) = VerdictOf(e, r).action
    BY <1>1, ReviewedRows
  <2>2. /\ Report(e, r) \in {"needs_review", "ignored_cancelled", "unchanged"}
        /\ Report(e, r) = "ignored_cancelled" => r = Absent
    BY <1>1, <2>1, Cancellations, StayDecisions DEF Verdict, Review
  <2> QED BY <2>1, <2>2 DEF ReportHolds
<1>2. CASE /\ VerdictOf(e, r).write = "upsert" /\ e.status \in {"confirmed", "tentative"}
           /\ RowAfter(e, r) = ActiveRow(e) /\ Report(e, r) = VerdictOf(e, r).action
  <2>1. \/ Report(e, r) = "created" /\ r = Absent
        \/ Report(e, r) = "unchanged" /\ r = ActiveRow(e)
        \/ Report(e, r) = "updated" /\ r # Absent /\ r # ActiveRow(e)
    BY <1>2, StayDecisions DEF Verdict, Review
  <2> QED BY <1>2, <2>1 DEF ReportHolds
<1>3. CASE /\ VerdictOf(e, r).write = "release" /\ e.status = "cancelled" /\ r # Absent
           /\ RowAfter(e, r) = IF Precedes(e, r) THEN r ELSE ReleasedRow(e, r)
           /\ Report(e, r) = IF Precedes(e, r) THEN "needs_review" ELSE VerdictOf(e, r).action
  <2>1. CASE Precedes(e, r)
    BY <1>3, <2>1 DEF ReportHolds
  <2>2. CASE ~Precedes(e, r)
    <3>1. ReleasedRow(e, r).status = "released" /\ ReleasedRow(e, r).stay = r.stay
      BY <1>3, ReleasedRows
    <3>2. \/ Report(e, r) = "unchanged" /\ r.status = "released"
          \/ Report(e, r) = "released" /\ r.status = "active"
      BY <1>3, <2>2, Cancellations DEF Verdict, Review
    <3> QED BY <1>3, <2>2, <3>1, <3>2 DEF ReportHolds
  <2> QED BY <2>1, <2>2
<1> QED BY <1>1, <1>2, <1>3, WrittenRows

\* A row is not behind an event it was reconciled with: what the decision
\* turns away is never newer than the row.
LEMMA NeverBehind ==
  ASSUME NEW e \in Event(Stays), NEW r \in {Absent} \cup Row(Stays),
         e.status # "unknown", RowAfter(e, r) # Absent
  PROVE  ~Precedes(RowAfter(e, r), e)
<1>1. Versioned(e) /\ (r = Absent \/ (Versioned(r) /\ r \in Row(Stays)))
  BY Versions
<1>2. CASE VerdictOf(e, r).write = "none"
  <2>1. RowAfter(e, r) = r /\ r # Absent
    BY <1>2, ReviewedRows
  <2>2. CASE e.status = "cancelled"
    <3>1. \/ VerdictOf(e, r) = Review
          \/ ~VersionIsNewer(e, r)
      BY <1>2, <2>1, <2>2, Cancellations DEF Verdict, Review
    <3>2. VersionIsNewer(e, r) => ~VersionIsOlder(e, r)
      BY <1>1, <2>1, NewerIsLater, OlderIsEarlier, VersionsAreOrdered
    <3>3. VerdictOf(e, r) = Review /\ VersionIsNewer(e, r) => FALSE
      <4> SUFFICES ASSUME VersionIsNewer(e, r) PROVE VerdictOf(e, r) # Review
        OBVIOUS
      <4>1. VerdictOf(e, r) = CancellationVerdict(e, r)
        BY <2>2 DEF VerdictOf
      <4>2. HasProvenance(e)
        BY <1>1 DEF VersionIsNewer, HasProvenance, Versioned, Null
      <4>3. r.status = "released" \/ r.status = "active"
        BY <1>1, <2>1 DEF Row
      <4>4. CASE r.status = "released"
        BY <2>1, <3>2, <4>1, <4>4 DEF CancellationVerdict, Verdict, Review
      <4>5. CASE r.status = "active"
        BY <2>1, <3>2, <4>1, <4>2, <4>5 DEF CancellationVerdict, Verdict, Review
      <4> QED BY <4>3, <4>4, <4>5
    <3> QED BY <1>1, <2>1, <3>1, <3>3, NewerIsLater
  <2>3. CASE e.status \in {"confirmed", "tentative"}
    <3>1. VerdictOf(e, r) = StayVerdict(e, r)
      BY <2>3 DEF VerdictOf
    <3>2. ~VersionIsNewer(e, r)
      <4> SUFFICES ASSUME VersionIsNewer(e, r) PROVE VerdictOf(e, r).write # "none"
        BY <1>2
      <4>1. CASE r = ActiveRow(e)
        <5>1. VerdictOf(e, r) = Verdict("unchanged", "upsert")
          BY <2>1, <3>1, <4>1 DEF StayVerdict
        <5> QED BY <5>1 DEF Verdict
      <4>2. CASE r # ActiveRow(e)
        <5>1. VerdictOf(e, r) = Verdict("updated", "upsert")
          BY <2>1, <3>1, <4>2 DEF StayVerdict
        <5> QED BY <5>1 DEF Verdict
      <4> QED BY <4>1, <4>2
    <3> QED BY <1>1, <2>1, <3>2, NewerIsLater
  <2> QED BY <2>2, <2>3 DEF Event
<1>3. CASE e.status \in {"confirmed", "tentative"} /\ RowAfter(e, r) = ActiveRow(e)
  BY <1>1, <1>3, ActiveRows DEF Precedes, Versioned, Nullable, Null
<1>4. CASE /\ e.status = "cancelled" /\ r # Absent
           /\ RowAfter(e, r) = IF Precedes(e, r) THEN r ELSE ReleasedRow(e, r)
  <2>1. CASE Precedes(e, r)
    BY <1>1, <1>4, <2>1, VersionsAreOrdered
  <2>2. CASE ~Precedes(e, r)
    <3>1. ReleasedRow(e, r).seq = e.seq /\ ReleasedRow(e, r).mod = e.mod
      BY <1>1, <1>4, ReleasedRows
    <3> QED BY <1>1, <1>4, <2>2, <3>1 DEF Precedes, Versioned, Nullable, Null
  <2> QED BY <2>1, <2>2
<1> QED BY <1>2, <1>3, <1>4, WrittenRows

\* An active row is the one there was, or has the stay of an upserted event.
LEMMA ActiveStays ==
  ASSUME NEW e \in Event(Stays), NEW r \in {Absent} \cup Row(Stays),
         RowAfter(e, r).status = "active"
  PROVE  \/ RowAfter(e, r) = r
         \/ VerdictOf(e, r).write = "upsert" /\ RowAfter(e, r).stay = e.stay
<1>1. CASE VerdictOf(e, r).write = "none"
  BY <1>1, ReviewedRows
<1>2. CASE /\ VerdictOf(e, r).write = "upsert" /\ e.status \in {"confirmed", "tentative"}
           /\ RowAfter(e, r) = ActiveRow(e)
  BY <1>2, ActiveRows
<1>3. CASE /\ r # Absent
           /\ RowAfter(e, r) = IF Precedes(e, r) THEN r ELSE ReleasedRow(e, r)
  BY <1>3, ReleasedRows
<1> QED BY <1>1, <1>2, <1>3, WrittenRows

\* An event of a status the store does not know changes nothing, and every
\* report is one of the actions.
LEMMA UnknownEvents ==
  ASSUME NEW e \in Event(Stays), NEW r \in {Absent} \cup Row(Stays)
  PROVE  /\ e.status = "unknown" => RowAfter(e, r) = r
         /\ Report(e, r) \in Actions
<1>1. e.status = "unknown" => VerdictOf(e, r) = Review
  BY DEF VerdictOf
<1>2. VerdictOf(e, r).action \in Actions
  BY Cancellations, StayDecisions DEF Verdict, Review, Actions
<1>3. Report(e, r) \in Actions
  BY <1>2 DEF Report, Actions
<1> QED BY <1>1, <1>3, ReviewedRows DEF Verdict, Review

\* The events of a run are reconciled in the order of their uids, so there
\* is a next one as long as some are left.
LEMMA LeastUid ==
  ASSUME NEW T \in SUBSET Nat, T # {}
  PROVE  \E u \in T : \A v \in T : u <= v
<1>1. \A x, y \in Nat : y < x => <<y, x>> \in OpToRel(<, Nat)
  BY DEF OpToRel
<1>2. PICK x \in T : \A y \in T : <<y, x>> \notin OpToRel(<, Nat)
  BY NatLessThanWellFounded, WFMin
<1>3. \A y \in T : ~(y < x)
  BY <1>1, <1>2, Zenon
<1> QED BY <1>3

-----------------------------------------------------------------------------
(* What holds between the steps of a run *)

Reconciles(w) == run[w].phase = "reconciling"

\* The transaction that reconciles is the one that owns the lock.
OneReconciles == \A w \in Workers : Reconciles(w) <=> lock = w

\* The uids whose event the run has been through.
Settled(w) == DOMAIN run[w].calendar \ run[w].todo

\* What a transaction read is still what the table holds; what it staged and
\* noted follows event by event from that.
StagedFaithfully ==
  \A w \in Workers : Reconciles(w) =>
    /\ run[w].todo \subseteq DOMAIN run[w].calendar
    /\ run[w].read = rows
    /\ \A u \in Uids :
         IF u \in Settled(w)
         THEN /\ run[w].staged[u] = RowAfter(run[w].calendar[u], rows[u])
              /\ run[w].decided[u] = Report(run[w].calendar[u], rows[u])
         ELSE run[w].staged[u] = rows[u] /\ run[w].decided[u] = "none"

\* No staged row shares a night with a booking either.
StagedApart ==
  \A w \in Workers, u \in Uids : \A s \in booked :
    Reconciles(w) /\ run[w].staged[u].status = "active" => ~Overlaps(s, run[w].staged[u].stay)

\* A uid without a row was never reconciled.
UnseenUntilWritten == \A u \in Uids : rows[u] = Absent => seen[u] = Unversioned

\* The record and the outcome of the run that ended last.
HealthAgrees ==
  /\ health.error # NoError => outcome = "failed"
  /\ ~health.stale => outcome = "success"
  /\ outcome = "failed" /\ health.error = NoError => \E w \in Workers : run[w] # Idle

SyncInv ==
  /\ TypeOK
  /\ OneReconciles
  /\ StagedFaithfully
  /\ StagedApart
  /\ NoChannelOverlap
  /\ UnseenUntilWritten
  /\ NothingSeenIsForgotten
  /\ HealthAgrees

\* The phase of a run tells its fields.
LEMMA Phases ==
  ASSUME TypeOK, NEW w \in Workers
  PROVE  /\ run[w] # Idle /\ run[w].phase = "fetching" => run[w] \in Fetching
         /\ run[w].phase = "fetched" => run[w] \in Fetched
         /\ run[w].phase \in {"reconciling", "committed"} => run[w] \in Reconciling
         /\ run[w].phase = "idle" => run[w] = Idle
  BY DEF TypeOK, Idle, Fetching, Fetched, Reconciling

\* What a calendar says of a uid is an event, and rows are rows.
LEMMA EventsAndRows ==
  /\ \A c \in Calendars : DOMAIN c \subseteq Uids /\ \A u \in DOMAIN c : c[u] \in Event(Stays)
  /\ \A t \in Tables, u \in Uids : t[u] \in {Absent} \cup Row(Stays)
  BY HistoriesAssumption DEF Tables

-----------------------------------------------------------------------------
(* The steps of a run, with what they make of the run *)

\* A run that ends, for better or worse, is idle again.
LEMMA Ends ==
  ASSUME TypeOK, NEW w \in Workers, NEW error \in Errors, Fail(w, error)
  PROVE  /\ run' = [run EXCEPT ![w] = Idle] /\ run' \in [Workers -> {Idle} \cup Fetching \cup Fetched \cup Reconciling]
         /\ health' = [lastSuccess |-> health.lastSuccess, stale |-> TRUE, error |-> error]
         /\ health' \in [lastSuccess: Nat \cup {NeverSynced}, stale: BOOLEAN, error: Errors \cup {NoError}]
         /\ outcome' = "failed"
<1>1. run' = [run EXCEPT ![w] = Idle] /\ outcome' = "failed"
  BY DEF Fail
<1>2. health' = [lastSuccess |-> health.lastSuccess, stale |-> TRUE, error |-> error]
  BY DEF Fail, TypeOK
<1> QED BY <1>1, <1>2 DEF TypeOK

\* The lock, taken, with what the transaction read.
LEMMA Locks ==
  ASSUME TypeOK, NEW w \in Workers, Lock(w)
  PROVE  /\ run[w] \in Fetched
         /\ run'[w] = [phase |-> "reconciling", calendar |-> run[w].calendar,
                       todo |-> DOMAIN run[w].calendar, read |-> rows, staged |-> rows,
                       decided |-> [u \in Uids |-> "none"]]
         /\ run'[w] \in Reconciling
         /\ run' \in [Workers -> {Idle} \cup Fetching \cup Fetched \cup Reconciling]
<1>1. run[w] \in Fetched /\ run[w].calendar \in Calendars
  BY Phases DEF Lock, Fetched
<1>2. run'[w] = [phase |-> "reconciling", calendar |-> run[w].calendar,
                 todo |-> DOMAIN run[w].calendar, read |-> rows, staged |-> rows,
                 decided |-> [u \in Uids |-> "none"]]
  BY DEF Lock, TypeOK
<1>3. run'[w] \in Reconciling
  <2>1. DOMAIN run[w].calendar \in SUBSET Uids
    BY <1>1, EventsAndRows
  <2>2. [u \in Uids |-> "none"] \in [Uids -> Actions \cup {"none"}]
    OBVIOUS
  <2>3. rows \in Tables
    BY DEF TypeOK
  <2> QED BY <1>1, <1>2, <2>1, <2>2, <2>3 DEF Reconciling
<1>4. run' = [run EXCEPT ![w] = run'[w]]
  BY <1>2 DEF Lock, TypeOK
<1> QED BY <1>1, <1>2, <1>3, <1>4 DEF TypeOK

\* One turn of the loop settles one event, as if the table were read again.
LEMMA Turns ==
  ASSUME TypeOK, StagedFaithfully, NEW w \in Workers, ReconcileEvent(w)
  PROVE  LET u == NextUid(w)
             c == run[w].calendar
         IN  /\ run[w] \in Reconciling
             /\ u \in run[w].todo /\ u \in Uids /\ u \in DOMAIN c /\ c[u] \in Event(Stays)
             /\ VerdictOf(c[u], rows[u]).write = "upsert" =>
                  \A s \in booked : ~Overlaps(s, c[u].stay)
             /\ run' = [run EXCEPT ![w] = run'[w]]
             /\ run'[w] =
                  [phase |-> "reconciling", calendar |-> c, todo |-> run[w].todo \ {u},
                   read |-> run[w].read,
                   staged |-> [run[w].staged EXCEPT ![u] = RowAfter(c[u], rows[u])],
                   decided |-> [run[w].decided EXCEPT ![u] = Report(c[u], rows[u])]]
<1> DEFINE u == NextUid(w)
           c == run[w].calendar
<1>1. run[w] \in Reconciling /\ run[w].phase = "reconciling" /\ run[w].todo # {}
  BY Phases DEF ReconcileEvent
<1>2. /\ run[w].todo \subseteq DOMAIN c /\ run[w].read = rows /\ c \in Calendars
      /\ \A v \in Uids : v \notin Settled(w) => run[w].staged[v] = rows[v]
  BY <1>1 DEF StagedFaithfully, Reconciles, Reconciling
<1>3. u \in run[w].todo
  <2>1. run[w].todo \in SUBSET Nat
    BY <1>1, SyncUidsAssumption DEF Reconciling
  <2>2. \E v \in run[w].todo : \A x \in run[w].todo : v <= x
    BY <1>1, <2>1, LeastUid
  <2> QED BY <2>2 DEF NextUid
<1>4. u \in Uids /\ u \in DOMAIN c /\ c[u] \in Event(Stays)
  BY <1>2, <1>3, EventsAndRows
<1>5. run[w].staged[u] = rows[u]
  BY <1>2, <1>3, <1>4 DEF Settled
<1>6. run' = [run EXCEPT ![w].todo = @ \ {u},
                         ![w].staged[u] = RowAfter(c[u], rows[u]),
                         ![w].decided[u] = Report(c[u], rows[u])]
  BY <1>2, <1>5 DEF ReconcileEvent, RowAfter, Report
<1>7. VerdictOf(c[u], rows[u]).write = "upsert" => \A s \in booked : ~Overlaps(s, c[u].stay)
  BY <1>2 DEF ReconcileEvent, Blocked
<1> HIDE DEF u, c
<1>8. run'[w] = [phase |-> "reconciling", calendar |-> c, todo |-> run[w].todo \ {u},
                 read |-> run[w].read,
                 staged |-> [run[w].staged EXCEPT ![u] = RowAfter(c[u], rows[u])],
                 decided |-> [run[w].decided EXCEPT ![u] = Report(c[u], rows[u])]]
  BY <1>1, <1>6 DEF TypeOK, Reconciling, c
<1>9. run' = [run EXCEPT ![w] = run'[w]]
  BY <1>6 DEF TypeOK
<1> QED BY <1>1, <1>3, <1>4, <1>7, <1>8, <1>9 DEF u, c

\* The commit makes of the table what the calendar makes of each row.
LEMMA Commits ==
  ASSUME TypeOK, StagedFaithfully, NEW w \in Workers, Commit(w)
  PROVE  LET c == run[w].calendar
         IN  /\ run[w] \in Reconciling /\ c \in Calendars
             /\ run' = [run EXCEPT ![w] = run'[w]]
             /\ run'[w] \in Reconciling /\ run'[w].phase = "committed"
             /\ rows' \in Tables
             /\ \A u \in Uids :
                  IF u \in DOMAIN c
                  THEN /\ rows'[u] = RowAfter(c[u], rows[u])
                       /\ run'[w].decided[u] = Report(c[u], rows[u])
                  ELSE /\ rows'[u] = rows[u]
                       /\ run'[w].decided[u] = IF rows[u].status = "active"
                                               THEN "retained_missing" ELSE "none"
<1> DEFINE c == run[w].calendar
           D == [u \in Uids |-> IF u \in Missing(w) THEN "retained_missing" ELSE run[w].decided[u]]
<1>1. run[w] \in Reconciling /\ run[w].phase = "reconciling" /\ run[w].todo = {}
  BY Phases DEF Commit
<1>2. c \in Calendars /\ run[w].staged \in Tables /\ run[w].decided \in [Uids -> Actions \cup {"none"}]
  BY <1>1 DEF Reconciling
<1>3. /\ run[w].read = rows
      /\ \A u \in Uids :
           IF u \in DOMAIN c
           THEN /\ run[w].staged[u] = RowAfter(c[u], rows[u])
                /\ run[w].decided[u] = Report(c[u], rows[u])
           ELSE run[w].staged[u] = rows[u] /\ run[w].decided[u] = "none"
  BY <1>1 DEF StagedFaithfully, Reconciles, Settled
<1>4. rows' = run[w].staged
  BY DEF Commit
<1>5. run' = [run EXCEPT ![w].phase = "committed", ![w].decided = D]
  BY DEF Commit
<1>6. \A u \in Uids : u \in Missing(w) <=> u \notin DOMAIN c /\ rows[u].status = "active"
  BY <1>3 DEF Missing
<1>7. D \in [Uids -> Actions \cup {"none"}]
  BY <1>2 DEF Actions
<1>8. \A u \in Uids :
        D[u] = IF u \in DOMAIN c THEN Report(c[u], rows[u])
               ELSE IF rows[u].status = "active" THEN "retained_missing" ELSE "none"
  BY <1>3, <1>6
<1> HIDE DEF D, c
<1>9. run'[w] = [phase |-> "committed", calendar |-> c, todo |-> run[w].todo,
                 read |-> run[w].read, staged |-> run[w].staged, decided |-> D]
  BY <1>1, <1>5 DEF TypeOK, Reconciling, c
<1>10. run'[w] \in Reconciling
  BY <1>1, <1>2, <1>7, <1>9 DEF Reconciling
<1>11. run' = [run EXCEPT ![w] = run'[w]]
  BY <1>5 DEF TypeOK
<1> QED BY <1>1, <1>2, <1>3, <1>4, <1>8, <1>9, <1>10, <1>11 DEF c

\* What a commit has seen is typed, and about the uids of its calendar.
LEMMA Sees ==
  ASSUME TypeOK, NEW w \in Workers, run[w] \in Reconciling
  PROVE  SeenAfter(w) \in [Uids -> [seq: Nullable, mod: Nullable]]
<1> SUFFICES ASSUME NEW u \in Uids PROVE SeenAfter(w)[u] \in [seq: Nullable, mod: Nullable]
  BY DEF SeenAfter
<1>1. seen[u] \in [seq: Nullable, mod: Nullable]
  BY DEF TypeOK
<1>2. CASE u \in DOMAIN run[w].calendar
  <2>1. run[w].calendar[u] \in Event(Stays)
    BY <1>2, EventsAndRows DEF Reconciling
  <2>2. [seq |-> run[w].calendar[u].seq, mod |-> run[w].calendar[u].mod]
          \in [seq: Nullable, mod: Nullable]
    BY <2>1 DEF Event
  <2> QED BY <1>1, <1>2, <2>2 DEF SeenAfter, Higher
<1>3. CASE u \notin DOMAIN run[w].calendar
  BY <1>1, <1>3 DEF SeenAfter
<1> QED BY <1>2, <1>3

-----------------------------------------------------------------------------
(* Every step keeps the types *)

\* What a step of a run does to a run that is not its own: nothing.
LEMMA OthersKeep ==
  ASSUME TypeOK, NEW w \in Workers, RunStep(w), NEW v \in Workers \ {w}
  PROVE  run'[v] = run[v]
  BY DEF TypeOK, RunStep, Start, Fetch, FetchFails, Fail, Lock, ReconcileEvent, RollBack,
     Commit, Succeed

\* The initial state is typed.
LEMMA InitTyped == Init => TypeOK
<1> SUFFICES ASSUME Init PROVE TypeOK
  OBVIOUS
<1>1. history \in Seq(Calendars) /\ history # <<>> /\ current = 1
  BY HistoriesAssumption DEF Init
<1>2. current \in DOMAIN history
  BY <1>1
<1>3. rows \in Tables /\ seen \in [Uids -> [seq: Nullable, mod: Nullable]]
  BY DEF Init, Tables, Unversioned, Nullable
<1>4. health \in [lastSuccess: Nat \cup {NeverSynced}, stale: BOOLEAN, error: Errors \cup {NoError}]
  BY DEF Init, FreshHealth
<1>5. run \in [Workers -> {Idle} \cup Fetching \cup Fetched \cup Reconciling]
  BY DEF Init
<1>6. now \in 0 .. MaxTime /\ runs \in 0 .. MaxRuns
  BY SyncBoundsAssumption DEF Init
<1> QED BY <1>2, <1>3, <1>4, <1>5, <1>6 DEF Init, TypeOK

\* Every step keeps the types: what is staged are rows, what is seen versions.
LEMMA StepTyped == TypeOK /\ StagedFaithfully /\ [Next]_vars => TypeOK'
<1> SUFFICES ASSUME TypeOK, StagedFaithfully, [Next]_vars PROVE TypeOK'
  OBVIOUS
<1>1. CASE UNCHANGED vars
  BY <1>1 DEF vars, TypeOK
<1>2. CASE Tick
  BY <1>2, SyncBoundsAssumption DEF Tick, TypeOK
<1>3. CASE Publish
  BY <1>3 DEF Publish, TypeOK
<1>4. CASE Restart
  <2>1. FreshHealth \in [lastSuccess: Nat \cup {NeverSynced}, stale: BOOLEAN, error: Errors \cup {NoError}]
    BY DEF FreshHealth
  <2>2. run' \in [Workers -> {Idle} \cup Fetching \cup Fetched \cup Reconciling]
    BY <1>4 DEF Restart
  <2> QED BY <1>4, <2>1, <2>2 DEF Restart, TypeOK
<1>5. ASSUME NEW s \in Stays, Book(s) \/ Unbook(s) PROVE TypeOK'
  BY <1>5 DEF Book, Unbook, TypeOK
<1>6. ASSUME NEW w \in Workers, Start(w) PROVE TypeOK'
  <2>1. current \in Nat \ {0}
    BY HistoriesAssumption DEF TypeOK
  <2>2. [phase |-> "fetching", from |-> current] \in Fetching
    BY <2>1 DEF Fetching
  <2>3. health' \in [lastSuccess: Nat \cup {NeverSynced}, stale: BOOLEAN, error: Errors \cup {NoError}]
    BY <1>6 DEF Start, TypeOK
  <2>4. run' \in [Workers -> {Idle} \cup Fetching \cup Fetched \cup Reconciling]
    BY <1>6, <2>2 DEF Start, TypeOK
  <2>5. runs' \in 0 .. MaxRuns
    BY <1>6, SyncBoundsAssumption DEF Start, TypeOK
  <2> QED BY <1>6, <2>3, <2>4, <2>5 DEF Start, TypeOK
<1>7. ASSUME NEW w \in Workers, Fetch(w) PROVE TypeOK'
  <2>1. run[w] \in Fetching
    BY <1>7, Phases DEF Fetch, Idle
  <2>2. PICK k \in run[w].from .. current :
          run' = [run EXCEPT ![w] = [phase |-> "fetched", calendar |-> history[k]]]
    BY <1>7 DEF Fetch
  <2>3. history \in Seq(Calendars) /\ k \in DOMAIN history
    BY <2>1, <2>2, HistoriesAssumption DEF TypeOK, Fetching
  <2>4. [phase |-> "fetched", calendar |-> history[k]] \in Fetched
    BY <2>3 DEF Fetched
  <2>5. run' \in [Workers -> {Idle} \cup Fetching \cup Fetched \cup Reconciling]
    BY <2>2, <2>4 DEF TypeOK
  <2> QED BY <1>7, <2>5 DEF Fetch, TypeOK
<1>8. ASSUME NEW w \in Workers, FetchFails(w) PROVE TypeOK'
  <2>1. PICK e \in SourceErrors : Fail(w, SafeError(e))
    BY <1>8 DEF FetchFails
  <2>2. SafeError(e) \in Errors
    BY DEF SafeError, Errors
  <2> QED BY <1>8, <2>1, <2>2, Ends DEF FetchFails, TypeOK
<1>9. ASSUME NEW w \in Workers, Lock(w) PROVE TypeOK'
  BY <1>9, Locks DEF Lock, TypeOK
<1>10. ASSUME NEW w \in Workers, ReconcileEvent(w) PROVE TypeOK'
  <2> DEFINE u == NextUid(w)
             c == run[w].calendar
  <2>1. /\ run[w] \in Reconciling /\ u \in Uids /\ c[u] \in Event(Stays)
        /\ run' = [run EXCEPT ![w] = run'[w]]
        /\ run'[w] = [phase |-> "reconciling", calendar |-> c, todo |-> run[w].todo \ {u},
                      read |-> run[w].read,
                      staged |-> [run[w].staged EXCEPT ![u] = RowAfter(c[u], rows[u])],
                      decided |-> [run[w].decided EXCEPT ![u] = Report(c[u], rows[u])]]
    BY <1>10, Turns
  <2>2. rows[u] \in {Absent} \cup Row(Stays)
    BY <2>1, EventsAndRows DEF TypeOK
  <2>3. RowAfter(c[u], rows[u]) \in {Absent} \cup Row(Stays) /\ Report(c[u], rows[u]) \in Actions
    BY <2>1, <2>2, RowsMoveForward, UnknownEvents
  <2> HIDE DEF u, c
  <2>4. /\ [run[w].staged EXCEPT ![u] = RowAfter(c[u], rows[u])] \in Tables
        /\ [run[w].decided EXCEPT ![u] = Report(c[u], rows[u])] \in [Uids -> Actions \cup {"none"}]
    BY <2>1, <2>3 DEF Reconciling, Tables
  <2>5. run'[w] \in Reconciling
    BY <2>1, <2>4 DEF Reconciling, c
  <2>6. run' \in [Workers -> {Idle} \cup Fetching \cup Fetched \cup Reconciling]
    BY <2>1, <2>5 DEF TypeOK
  <2> QED BY <1>10, <2>6 DEF ReconcileEvent, TypeOK
<1>11. ASSUME NEW w \in Workers, RollBack(w) PROVE TypeOK'
  <2>1. SafeError("availability_conflict") \in Errors
    BY DEF SafeError, Errors, SourceErrors
  <2> QED BY <1>11, <2>1, Ends DEF RollBack, TypeOK
<1>12. ASSUME NEW w \in Workers, Commit(w) PROVE TypeOK'
  <2>1. run[w] \in Reconciling
    BY <1>12, Phases DEF Commit
  <2>2. run' \in [Workers -> {Idle} \cup Fetching \cup Fetched \cup Reconciling] /\ rows' \in Tables
    BY <1>12, Commits DEF TypeOK
  <2>3. seen' \in [Uids -> [seq: Nullable, mod: Nullable]]
    BY <1>12, <2>1, Sees DEF Commit
  <2> QED BY <1>12, <2>2, <2>3 DEF Commit, TypeOK
<1>13. ASSUME NEW w \in Workers, Succeed(w) PROVE TypeOK'
  BY <1>13 DEF Succeed, TypeOK
<1> QED
  BY <1>1, <1>2, <1>3, <1>4, <1>5, <1>6, <1>7, <1>8, <1>9, <1>10, <1>11, <1>12, <1>13
     DEF Next, RunStep

-----------------------------------------------------------------------------
(* Every step keeps the lock and the transaction that owns it *)

\* A step that does not lock, reconcile or commit leaves the runs that
\* reconcile as they are, and starts none.
LEMMA Undisturbed ==
  ASSUME TypeOK, NEW w \in Workers, NEW v \in Workers,
         Start(w) \/ Fetch(w) \/ FetchFails(w) \/ Succeed(w) \/ RollBack(w)
  PROVE  /\ rows' = rows /\ booked' = booked /\ seen' = seen
         /\ Reconciles(v)' => Reconciles(v) /\ run'[v] = run[v]
         /\ v = w => ~Reconciles(v)'
<1>1. v # w => run'[v] = run[v]
  BY OthersKeep DEF RunStep
<1>2. v = w => ~Reconciles(v)'
  <2>1. CASE Start(w)
    BY <2>1 DEF TypeOK, Reconciles, Start
  <2>2. CASE Fetch(w)
    BY <2>2 DEF TypeOK, Reconciles, Fetch
  <2>3. CASE FetchFails(w) \/ Succeed(w) \/ RollBack(w)
    <3>1. run' = [run EXCEPT ![w] = Idle]
      BY <2>3 DEF FetchFails, Fail, Succeed, RollBack
    <3> QED BY <3>1 DEF TypeOK, Reconciles, Idle
  <2> QED BY <2>1, <2>2, <2>3
<1> QED BY <1>1, <1>2 DEF Reconciles, Start, Fetch, FetchFails, Succeed, RollBack

\* The lock is handed on with the phase.
LEMMA StepLocked == TypeOK /\ StagedFaithfully /\ OneReconciles /\ [Next]_vars => OneReconciles'
<1> SUFFICES ASSUME TypeOK, StagedFaithfully, OneReconciles, [Next]_vars PROVE OneReconciles'
  OBVIOUS
<1>1. CASE UNCHANGED <<run, lock>>
  BY <1>1 DEF OneReconciles, Reconciles
<1>2. CASE Restart
  BY <1>2, NobodyAssumption DEF Restart, OneReconciles, Reconciles, Idle
<1>3. ASSUME NEW w \in Workers, RunStep(w) PROVE OneReconciles'
  <2> SUFFICES ASSUME NEW v \in Workers PROVE Reconciles(v)' <=> lock' = v
    BY DEF OneReconciles
  <2>0. v # w => (Reconciles(v)' <=> Reconciles(v))
    BY <1>3, OthersKeep DEF Reconciles
  <2>1. CASE Start(w) \/ Fetch(w) \/ FetchFails(w) \/ Succeed(w)
    <3>1. lock' = lock /\ ~Reconciles(w) /\ ~Reconciles(w)'
      BY <2>1, Undisturbed DEF Start, Fetch, FetchFails, Succeed, Reconciles, Idle
    <3> QED BY <2>0, <3>1 DEF OneReconciles
  <2>2. CASE Lock(w)
    <3>1. lock = Nobody /\ lock' = w /\ Reconciles(w)'
      BY <2>2, Locks DEF Lock, LockFree, Reconciles
    <3> QED BY <2>0, <3>1, NobodyAssumption DEF OneReconciles
  <2>3. CASE ReconcileEvent(w)
    <3>1. lock' = lock /\ Reconciles(w) /\ Reconciles(w)'
      <4>1. run[w] \in Reconciling /\ run[w].phase = "reconciling"
        BY <2>3, Phases DEF ReconcileEvent
      <4>2. run'[w].phase = "reconciling"
        BY <2>3, <4>1 DEF ReconcileEvent, TypeOK, Reconciling
      <4> QED BY <2>3, <4>1, <4>2 DEF ReconcileEvent, Reconciles
    <3> QED BY <2>0, <3>1 DEF OneReconciles
  <2>4. CASE RollBack(w)
    <3>1. lock' = Nobody /\ Reconciles(w) /\ ~Reconciles(w)'
      BY <2>4, Undisturbed DEF RollBack, Reconciles
    <3> QED BY <2>0, <3>1, NobodyAssumption DEF OneReconciles
  <2>5. CASE Commit(w)
    <3>1. lock' = Nobody /\ Reconciles(w) /\ ~Reconciles(w)'
      BY <2>5, Commits DEF Commit, Reconciles
    <3> QED BY <2>0, <3>1, NobodyAssumption DEF OneReconciles
  <2> QED BY <1>3, <2>1, <2>2, <2>3, <2>4, <2>5 DEF RunStep
<1> QED BY <1>1, <1>2, <1>3 DEF Next, vars, Tick, Publish, Book, Unbook

\* While a transaction reconciles, nobody else writes the table.
LEMMA StepStaged ==
  TypeOK /\ StagedFaithfully /\ OneReconciles /\ [Next]_vars => StagedFaithfully'
<1> SUFFICES ASSUME TypeOK, StagedFaithfully, OneReconciles, [Next]_vars, NEW v \in Workers, Reconciles(v)'
             PROVE  /\ run'[v].todo \subseteq DOMAIN run'[v].calendar
                    /\ run'[v].read = rows'
                    /\ \A u \in Uids :
                         IF u \in Settled(v)'
                         THEN /\ run'[v].staged[u] = RowAfter(run'[v].calendar[u], rows'[u])
                              /\ run'[v].decided[u] = Report(run'[v].calendar[u], rows'[u])
                         ELSE run'[v].staged[u] = rows'[u] /\ run'[v].decided[u] = "none"
  BY DEF StagedFaithfully
<1>1. CASE Reconciles(v) /\ run'[v] = run[v] /\ rows' = rows
  BY <1>1 DEF StagedFaithfully, Settled
<1>2. CASE UNCHANGED <<run, rows>>
  BY <1>1, <1>2 DEF Reconciles
<1>3. CASE Restart
  BY <1>3 DEF Restart, Reconciles, Idle
<1>4. ASSUME NEW w \in Workers, v # w, RunStep(w)
      PROVE  Reconciles(v) /\ run'[v] = run[v] /\ rows' = rows
  <2>1. run'[v] = run[v] /\ Reconciles(v)
    BY <1>4, OthersKeep DEF Reconciles
  <2>2. ~Commit(w)
    BY <1>4, <2>1 DEF Commit, OneReconciles, Reconciles
  <2>3. rows' = rows
    BY <1>4, <2>2 DEF RunStep, Start, Fetch, FetchFails, Lock, ReconcileEvent, RollBack, Succeed
  <2> QED BY <2>1, <2>3
<1>5. CASE Start(v) \/ Fetch(v) \/ FetchFails(v) \/ Succeed(v) \/ RollBack(v)
  BY <1>5, Undisturbed
<1>6. CASE Lock(v)
  <2>1. rows' = rows
    BY <1>6 DEF Lock
  <2>2. run'[v] = [phase |-> "reconciling", calendar |-> run[v].calendar,
                   todo |-> DOMAIN run[v].calendar, read |-> rows, staged |-> rows,
                   decided |-> [u \in Uids |-> "none"]]
    BY <1>6, Locks
  <2>3. Settled(v)' = {}
    BY <2>2 DEF Settled
  <2> QED BY <2>1, <2>2, <2>3
<1>7. CASE ReconcileEvent(v)
  <2> DEFINE u == NextUid(v)
             c == run[v].calendar
  <2>1. /\ run[v] \in Reconciling /\ u \in run[v].todo /\ u \in Uids /\ u \in DOMAIN c
        /\ run'[v] = [phase |-> "reconciling", calendar |-> c, todo |-> run[v].todo \ {u},
                      read |-> run[v].read,
                      staged |-> [run[v].staged EXCEPT ![u] = RowAfter(c[u], rows[u])],
                      decided |-> [run[v].decided EXCEPT ![u] = Report(c[u], rows[u])]]
    BY <1>7, Turns
  <2>2. Reconciles(v) /\ rows' = rows
    BY <1>7 DEF ReconcileEvent, Reconciles
  <2>3. /\ run[v].staged \in [Uids -> {Absent} \cup Row(Stays)]
        /\ run[v].decided \in [Uids -> Actions \cup {"none"}]
    BY <2>1 DEF Reconciling, Tables
  <2>4. /\ run[v].todo \subseteq DOMAIN c /\ run[v].read = rows
        /\ \A x \in Uids :
             IF x \in Settled(v)
             THEN /\ run[v].staged[x] = RowAfter(c[x], rows[x])
                  /\ run[v].decided[x] = Report(c[x], rows[x])
             ELSE run[v].staged[x] = rows[x] /\ run[v].decided[x] = "none"
    BY <2>2 DEF StagedFaithfully
  <2> HIDE DEF u
  <2>5. Settled(v)' = Settled(v) \cup {u}
    BY <2>1, <2>4 DEF Settled
  <2> HIDE DEF c
  <2>6. /\ run'[v].todo = run[v].todo \ {u} /\ run'[v].calendar = c /\ run'[v].read = run[v].read
        /\ run'[v].staged = [run[v].staged EXCEPT ![u] = RowAfter(c[u], rows[u])]
        /\ run'[v].decided = [run[v].decided EXCEPT ![u] = Report(c[u], rows[u])]
    BY <2>1
  <2>7. ASSUME NEW x \in Uids
        PROVE  IF x \in Settled(v)'
               THEN /\ run'[v].staged[x] = RowAfter(c[x], rows[x])
                    /\ run'[v].decided[x] = Report(c[x], rows[x])
               ELSE run'[v].staged[x] = rows[x] /\ run'[v].decided[x] = "none"
    <3>1. CASE x = u
      BY <2>1, <2>3, <2>5, <2>6, <3>1
    <3>2. CASE x # u
      <4>1. run'[v].staged[x] = run[v].staged[x] /\ run'[v].decided[x] = run[v].decided[x]
        BY <2>3, <2>6, <3>2
      <4>2. x \in Settled(v)' <=> x \in Settled(v)
        BY <2>5, <3>2
      <4> QED BY <2>4, <4>1, <4>2
    <3> QED BY <3>1, <3>2
  <2> QED BY <2>2, <2>4, <2>6, <2>7
<1>8. CASE Commit(v)
  BY <1>8, Commits DEF Reconciles
<1> QED
  BY <1>1, <1>2, <1>3, <1>4, <1>5, <1>6, <1>7, <1>8
     DEF Next, vars, Tick, Publish, Book, Unbook, RunStep

\* No turn stages a row over a booking, and none is booked meanwhile.
LEMMA StepApart ==
  TypeOK /\ StagedFaithfully /\ OneReconciles /\ StagedApart /\ NoChannelOverlap /\ [Next]_vars
    => StagedApart'
<1> SUFFICES ASSUME TypeOK, StagedFaithfully, OneReconciles, StagedApart, NoChannelOverlap, [Next]_vars,
                    NEW v \in Workers, NEW x \in Uids, NEW s \in booked',
                    Reconciles(v)', run'[v].staged[x].status = "active"
             PROVE  ~Overlaps(s, run'[v].staged[x].stay)
  BY DEF StagedApart
<1>1. CASE Reconciles(v) /\ run'[v] = run[v] /\ booked' = booked
  BY <1>1 DEF StagedApart
<1>2. CASE UNCHANGED <<run, booked>>
  BY <1>1, <1>2 DEF Reconciles
<1>3. CASE Restart
  BY <1>3 DEF Restart, Reconciles, Idle
<1>4. ASSUME NEW t \in Stays, Book(t) \/ Unbook(t) PROVE FALSE
  <2>1. lock = Nobody /\ Reconciles(v)
    BY <1>4 DEF Book, Unbook, LockFree, Reconciles
  <2> QED BY <2>1, NobodyAssumption DEF OneReconciles
<1>5. ASSUME NEW w \in Workers, v # w, RunStep(w)
      PROVE  Reconciles(v) /\ run'[v] = run[v] /\ booked' = booked
  BY <1>5, OthersKeep
     DEF Reconciles, RunStep, Start, Fetch, FetchFails, Lock, ReconcileEvent, RollBack, Commit, Succeed
<1>6. CASE Start(v) \/ Fetch(v) \/ FetchFails(v) \/ Succeed(v) \/ RollBack(v)
  BY <1>6, Undisturbed
<1>7. CASE Lock(v)
  <2>1. run'[v].staged = rows
    <3>1. run'[v] = [phase |-> "reconciling", calendar |-> run[v].calendar,
                     todo |-> DOMAIN run[v].calendar, read |-> rows, staged |-> rows,
                     decided |-> [u \in Uids |-> "none"]]
      BY <1>7, Locks
    <3> QED BY <3>1
  <2>2. booked' = booked
    BY <1>7 DEF Lock
  <2> QED BY <2>1, <2>2 DEF NoChannelOverlap
<1>8. CASE ReconcileEvent(v)
  <2> DEFINE u == NextUid(v)
             c == run[v].calendar
  <2>1. /\ run[v] \in Reconciling /\ u \in Uids /\ c[u] \in Event(Stays)
        /\ VerdictOf(c[u], rows[u]).write = "upsert" => \A t \in booked : ~Overlaps(t, c[u].stay)
        /\ run'[v] = [phase |-> "reconciling", calendar |-> c, todo |-> run[v].todo \ {u},
                      read |-> run[v].read,
                      staged |-> [run[v].staged EXCEPT ![u] = RowAfter(c[u], rows[u])],
                      decided |-> [run[v].decided EXCEPT ![u] = Report(c[u], rows[u])]]
    BY <1>8, Turns
  <2>2. Reconciles(v) /\ booked' = booked
    BY <1>8 DEF ReconcileEvent, Reconciles
  <2>3. run[v].staged \in [Uids -> {Absent} \cup Row(Stays)] /\ rows[u] \in {Absent} \cup Row(Stays)
    BY <2>1, EventsAndRows DEF Reconciling, Tables, TypeOK
  <2> HIDE DEF u, c
  <2>4. run'[v].staged = [run[v].staged EXCEPT ![u] = RowAfter(c[u], rows[u])]
    BY <2>1
  <2>5. CASE x # u
    <3>1. run'[v].staged[x] = run[v].staged[x]
      BY <2>3, <2>4, <2>5
    <3> QED BY <2>2, <3>1 DEF StagedApart
  <2>6. CASE x = u
    <3>1. run'[v].staged[x] = RowAfter(c[u], rows[u])
      BY <2>1, <2>3, <2>4, <2>6
    <3>2. \/ RowAfter(c[u], rows[u]) = rows[u]
          \/ VerdictOf(c[u], rows[u]).write = "upsert" /\ RowAfter(c[u], rows[u]).stay = c[u].stay
      BY <2>1, <2>3, <3>1, ActiveStays
    <3>3. CASE RowAfter(c[u], rows[u]) = rows[u]
      BY <2>1, <2>2, <3>1, <3>3 DEF NoChannelOverlap
    <3>4. CASE VerdictOf(c[u], rows[u]).write = "upsert" /\ RowAfter(c[u], rows[u]).stay = c[u].stay
      BY <2>1, <2>2, <3>1, <3>4
    <3> QED BY <3>2, <3>3, <3>4
  <2> QED BY <2>5, <2>6
<1>9. CASE Commit(v)
  BY <1>9, Commits DEF Reconciles
<1> QED
  BY <1>1, <1>2, <1>3, <1>4, <1>5, <1>6, <1>7, <1>8, <1>9 DEF Next, vars, Tick, Publish, RunStep

\* What is booked, and what is committed, overlaps nothing.
LEMMA StepNoOverlap ==
  TypeOK /\ StagedFaithfully /\ StagedApart /\ NoChannelOverlap /\ [Next]_vars => NoChannelOverlap'
<1> SUFFICES ASSUME TypeOK, StagedFaithfully, StagedApart, NoChannelOverlap, [Next]_vars
             PROVE  NoChannelOverlap'
  OBVIOUS
<1>1. CASE UNCHANGED <<rows, booked>>
  BY <1>1 DEF NoChannelOverlap
<1>2. ASSUME NEW s \in Stays, Book(s) PROVE NoChannelOverlap'
  BY <1>2 DEF Book, NoChannelOverlap
<1>3. ASSUME NEW s \in Stays, Unbook(s) PROVE NoChannelOverlap'
  BY <1>3 DEF Unbook, NoChannelOverlap
<1>4. ASSUME NEW w \in Workers, Commit(w) PROVE NoChannelOverlap'
  BY <1>4 DEF Commit, StagedApart, NoChannelOverlap, Reconciles
<1> QED
  BY <1>1, <1>2, <1>3, <1>4
     DEF Next, vars, Tick, Publish, Restart, RunStep, Start, Fetch, FetchFails, Lock, ReconcileEvent,
         RollBack, Succeed

\* What a commit leaves of a row it had an event for is not behind the event,
\* nor behind what was seen before.
LEMMA StepSeen ==
  TypeOK /\ StagedFaithfully /\ UnseenUntilWritten /\ NothingSeenIsForgotten /\ [Next]_vars
    => UnseenUntilWritten' /\ NothingSeenIsForgotten'
<1> SUFFICES ASSUME TypeOK, StagedFaithfully, UnseenUntilWritten, NothingSeenIsForgotten, [Next]_vars
             PROVE  UnseenUntilWritten' /\ NothingSeenIsForgotten'
  OBVIOUS
<1>1. CASE UNCHANGED <<rows, seen>>
  BY <1>1 DEF UnseenUntilWritten, NothingSeenIsForgotten
<1>2. ASSUME NEW w \in Workers, Commit(w), NEW u \in Uids
      PROVE  /\ rows'[u] = Absent => seen'[u] = Unversioned
             /\ rows'[u] # Absent => ~Precedes(rows'[u], seen'[u])
  <2> DEFINE c == run[w].calendar
  <2>1. /\ c \in Calendars
        /\ IF u \in DOMAIN c THEN rows'[u] = RowAfter(c[u], rows[u]) ELSE rows'[u] = rows[u]
    BY <1>2, Commits
  <2>2. seen'[u] = SeenAfter(w)[u] /\ rows'[u] = run[w].staged[u]
    BY <1>2 DEF Commit
  <2>3. rows[u] \in {Absent} \cup Row(Stays) /\ Versioned(seen[u])
    BY EventsAndRows DEF TypeOK, Versioned
  <2>4. CASE u \notin DOMAIN c
    <3>1. seen'[u] = seen[u]
      BY <2>2, <2>4 DEF SeenAfter
    <3> QED BY <2>1, <2>4, <3>1 DEF UnseenUntilWritten, NothingSeenIsForgotten
  <2>5. CASE u \in DOMAIN c
    <3> DEFINE e == c[u]
               n == RowAfter(e, rows[u])
    <3>1. e \in Event(Stays) /\ Versioned(e)
      BY <2>1, <2>5, EventsAndRows, Versions
    <3>2. /\ n \in {Absent} \cup Row(Stays)
          /\ rows[u] # Absent => n # Absent /\ ~Precedes(n, rows[u])
      <4>1. /\ n \in {Absent} \cup Row(Stays)
            /\ rows[u] # Absent =>
                 /\ n # Absent
                 /\ \/ n = rows[u]
                    \/ Precedes(rows[u], n)
                    \/ n = [rows[u] EXCEPT !.status = "released", !.eventStatus = "cancelled"]
        BY <2>3, <3>1, RowsMoveForward
      <4> HIDE DEF n
      <4>2. ASSUME rows[u] # Absent PROVE ~Precedes(n, rows[u])
        <5>1. rows[u] \in Row(Stays) /\ Versioned(rows[u]) /\ Versioned(n)
          BY <2>3, <4>1, <4>2, Versions
        <5>2. ~Precedes(rows[u], rows[u])
          BY <5>1, VersionsAreOrdered
        <5>3. CASE n = [rows[u] EXCEPT !.status = "released", !.eventStatus = "cancelled"]
          BY <5>1, <5>2, <5>3 DEF Precedes, Row
        <5> QED BY <4>1, <4>2, <5>1, <5>2, <5>3, VersionsAreOrdered
      <4> QED BY <4>1, <4>2
    <3>3. rows'[u] = n /\ run[w].staged[u] = n
      BY <2>1, <2>2, <2>5
    <3>4. e.status = "unknown" => n = rows[u]
      BY <2>3, <3>1, UnknownEvents
    <3>5. e.status # "unknown" /\ n # Absent => ~Precedes(n, e)
      BY <2>3, <3>1, NeverBehind
    <3>6. n # Absent => Versioned(n)
      BY <3>2, Versions
    <3>7. n = Absent \/ e.status = "unknown" => seen'[u] = seen[u]
      BY <2>2, <2>5, <3>3 DEF SeenAfter
    <3>8. n # Absent /\ e.status # "unknown" =>
            seen'[u] = Higher([seq |-> e.seq, mod |-> e.mod], seen[u])
      BY <2>2, <2>5, <3>3 DEF SeenAfter
    <3>9. n # Absent => ~Precedes(n, seen[u])
      <4>1. CASE rows[u] = Absent
        BY <3>6, <4>1 DEF UnseenUntilWritten, Precedes, Versioned, Nullable, Null, Unversioned
      <4>2. CASE rows[u] # Absent
        <5>1. Versioned(rows[u]) /\ ~Precedes(rows[u], seen[u])
          BY <2>3, <4>2, Versions DEF NothingSeenIsForgotten
        <5> QED BY <2>3, <3>2, <3>6, <4>2, <5>1, VersionsAreOrdered
      <4> QED BY <4>1, <4>2
    <3> HIDE DEF e, n
    <3>10. n # Absent /\ e.status # "unknown" => ~Precedes(n, [seq |-> e.seq, mod |-> e.mod])
      BY <3>5 DEF Precedes
    <3>11. n # Absent => ~Precedes(n, seen'[u])
      BY <3>7, <3>8, <3>9, <3>10 DEF Higher
    <3>12. n = Absent => seen'[u] = Unversioned
      BY <3>2, <3>7 DEF UnseenUntilWritten
    <3> QED BY <3>3, <3>11, <3>12
  <2> QED BY <2>4, <2>5
<1>3. ASSUME NEW w \in Workers, Commit(w) PROVE UnseenUntilWritten' /\ NothingSeenIsForgotten'
  BY <1>2, <1>3 DEF UnseenUntilWritten, NothingSeenIsForgotten
<1> QED
  BY <1>1, <1>3
     DEF Next, vars, Tick, Publish, Restart, Book, Unbook, RunStep, Start, Fetch, FetchFails, Lock,
         ReconcileEvent, RollBack, Succeed

\* The health record changes where a run starts or ends, and says how.
LEMMA StepHealth == TypeOK /\ HealthAgrees /\ [Next]_vars => HealthAgrees'
<1> SUFFICES ASSUME TypeOK, HealthAgrees, [Next]_vars PROVE HealthAgrees'
  OBVIOUS
<1>1. CASE UNCHANGED <<run, health, outcome>>
  BY <1>1 DEF HealthAgrees
<1>2. CASE Restart
  BY <1>2 DEF Restart, HealthAgrees, FreshHealth
<1>3. ASSUME NEW w \in Workers, Start(w) PROVE HealthAgrees'
  <2>1. health'.stale = TRUE /\ health'.error = NoError /\ outcome' = outcome
    BY <1>3 DEF Start, TypeOK
  <2>2. run'[w] # Idle
    BY <1>3 DEF Start, TypeOK, Idle
  <2> QED BY <2>1, <2>2 DEF HealthAgrees
<1>4. ASSUME NEW w \in Workers, NEW error \in Errors, Fail(w, error) PROVE HealthAgrees'
  <2>1. health'.stale = TRUE /\ health'.error = error /\ outcome' = "failed"
    BY <1>4, Ends
  <2>2. error # NoError
    BY DEF Errors, SourceErrors, NoError
  <2> QED BY <2>1, <2>2 DEF HealthAgrees
<1>5. ASSUME NEW w \in Workers, Succeed(w) PROVE HealthAgrees'
  BY <1>5 DEF Succeed, HealthAgrees
<1>6. ASSUME NEW w \in Workers, Fetch(w) \/ Lock(w) \/ ReconcileEvent(w) \/ Commit(w)
      PROVE  HealthAgrees'
  <2>1. health' = health /\ outcome' = outcome
    BY <1>6 DEF Fetch, Lock, ReconcileEvent, Commit
  <2>2. run'[w] # Idle
    <3>1. CASE Fetch(w)
      BY <3>1 DEF Fetch, TypeOK, Idle
    <3>2. CASE Lock(w)
      BY <3>2 DEF Lock, TypeOK, Idle
    <3>3. CASE ReconcileEvent(w) \/ Commit(w)
      <4>1. run[w] \in Reconciling
        BY <3>3, Phases DEF ReconcileEvent, Commit
      <4>2. run'[w].phase \in {"reconciling", "committed"}
        BY <3>3, <4>1 DEF ReconcileEvent, Commit, TypeOK, Reconciling
      <4> QED BY <4>2 DEF Idle
    <3> QED BY <1>6, <3>1, <3>2, <3>3
  <2> QED BY <2>1, <2>2 DEF HealthAgrees
<1>7. ASSUME NEW w \in Workers, FetchFails(w) \/ RollBack(w) PROVE HealthAgrees'
  <2>1. \A e : SafeError(e) \in Errors
    BY DEF SafeError, Errors
  <2> QED BY <1>4, <1>7, <2>1 DEF FetchFails, RollBack
<1> QED
  BY <1>1, <1>2, <1>3, <1>5, <1>6, <1>7 DEF Next, vars, Tick, Publish, Book, Unbook, RunStep

-----------------------------------------------------------------------------
(* The theorems *)

\* The invariant holds initially,
LEMMA InitSync == Init => SyncInv
<1>1. Init => OneReconciles /\ StagedFaithfully /\ StagedApart
  BY NobodyAssumption
     DEF Init, OneReconciles, StagedFaithfully, StagedApart, Reconciles, Idle
<1>2. Init => NoChannelOverlap /\ UnseenUntilWritten /\ NothingSeenIsForgotten
  BY DEF Init, NoChannelOverlap, UnseenUntilWritten, NothingSeenIsForgotten, Absent
<1>3. Init => HealthAgrees
  BY DEF Init, HealthAgrees, FreshHealth
<1> QED BY <1>1, <1>2, <1>3, InitTyped DEF SyncInv

\* and every step keeps it.
LEMMA StepSync == SyncInv /\ [Next]_vars => SyncInv'
  BY StepTyped, StepLocked, StepStaged, StepApart, StepNoOverlap, StepSeen, StepHealth DEF SyncInv

\* However many runs overlap, the table is staged under one lock, from what
\* it still holds, and never over a booking.
THEOREM SyncKeepsItsInvariant == Spec => []SyncInv
  BY InitSync, StepSync, PTL DEF Spec

\* No imported block shares a night with an active booking, whatever the runs
\* in flight reconcile (reconcileLocked under lockProperty,
\* requireNoAvailabilityConflict).
THEOREM NoOverlapOnTheChannel == Spec => []NoChannelOverlap
  BY SyncKeepsItsInvariant, PTL DEF SyncInv

\* No version a run reconciled against a row is lost again, although decision
\* and guard compare versions by different rules (versionIsNewer and
\* versionIsOlder against the guards of PostgresICalBlockStore).
THEOREM VersionsSeenAreKept == Spec => []NothingSeenIsForgotten
  BY SyncKeepsItsInvariant, PTL DEF SyncInv

\* The shared health record never reports a calendar as fresh unless the run
\* that ended last succeeded within staleAfterMs (run, healthSnapshot).
THEOREM HealthIsHonest == Spec => []HealthTellsTheLastOutcome
<1>1. TypeOK /\ HealthAgrees => HealthTellsTheLastOutcome
  <2> SUFFICES ASSUME TypeOK, HealthAgrees PROVE HealthTellsTheLastOutcome
    OBVIOUS
  <2>1. /\ now \in Int /\ StaleAfter \in Nat
        /\ health.lastSuccess \in Int /\ health.stale \in BOOLEAN
    BY SyncBoundsAssumption DEF TypeOK, NeverSynced
  <2>2. ~ReportedStale => ~health.stale /\ now - health.lastSuccess < StaleAfter
    BY <2>1 DEF ReportedStale
  <2>3. health.error # NoError => health.stale
    BY DEF HealthAgrees
  <2> QED BY <2>2, <2>3 DEF HealthTellsTheLastOutcome, HealthAgrees, ReportedStale
<1> QED BY <1>1, SyncKeepsItsInvariant, PTL DEF SyncInv

\* A step that changes a row is the commit of some run.
LEMMA OnlyCommitsWrite ==
  ASSUME [Next]_vars, rows' # rows
  PROVE  \E w \in Workers : Commit(w)
  BY DEF Next, vars, Tick, Publish, Restart, Book, Unbook, RunStep, Start, Fetch, FetchFails, Lock,
     ReconcileEvent, RollBack, Succeed

\* The version of a row never decreases, and within a version it can only be
\* released (the WHERE clauses of upsert and release).
THEOREM VersionsOnlyRise == Spec => VersionsNeverGoBack
<1>1. SyncInv /\ [Next]_vars =>
        \A u \in Uids : rows[u] # Absent /\ rows'[u] # rows[u] =>
          /\ rows'[u] # Absent
          /\ \/ Precedes(rows[u], rows'[u])
             \/ /\ rows'[u] = [rows[u] EXCEPT !.status = "released", !.eventStatus = "cancelled"]
                /\ rows[u].status = "active"
  <2> SUFFICES ASSUME SyncInv, [Next]_vars, NEW u \in Uids, rows[u] # Absent, rows'[u] # rows[u]
               PROVE  /\ rows'[u] # Absent
                      /\ \/ Precedes(rows[u], rows'[u])
                         \/ /\ rows'[u] = [rows[u] EXCEPT !.status = "released",
                                                          !.eventStatus = "cancelled"]
                            /\ rows[u].status = "active"
    OBVIOUS
  <2>1. PICK w \in Workers : Commit(w)
    BY OnlyCommitsWrite
  <2> DEFINE c == run[w].calendar
  <2>2. c \in Calendars /\ u \in DOMAIN c /\ rows'[u] = RowAfter(c[u], rows[u])
    BY <2>1, Commits DEF SyncInv
  <2>3. c[u] \in Event(Stays) /\ rows[u] \in {Absent} \cup Row(Stays)
    BY <2>2, EventsAndRows DEF SyncInv, TypeOK
  <2> HIDE DEF c
  <2> QED BY <2>2, <2>3, RowsMoveForward
<1> QED BY <1>1, SyncKeepsItsInvariant, PTL DEF Spec, VersionsNeverGoBack

\* What a run reports of each event and of each missing uid is what its
\* commit made of the row (the decisions of reconcileLocked).
THEOREM ReportsAreTrue == Spec => ReportsMatchTheTables
<1> DEFINE Told(w) ==
      run[w].phase = "reconciling" /\ run'[w].phase = "committed" =>
        \A u \in Uids :
          LET e == IF u \in DOMAIN run[w].calendar THEN run[w].calendar[u] ELSE Absent
          IN  ReportHolds(run'[w].decided[u], e, rows[u], rows'[u])
<1>1. SyncInv /\ [Next]_vars => \A w \in Workers : Told(w)
  <2> SUFFICES ASSUME SyncInv, [Next]_vars, NEW w \in Workers, NEW u \in Uids,
                      run[w].phase = "reconciling", run'[w].phase = "committed"
               PROVE  ReportHolds(run'[w].decided[u],
                                  IF u \in DOMAIN run[w].calendar THEN run[w].calendar[u] ELSE Absent,
                                  rows[u], rows'[u])
    OBVIOUS
  <2>1. Commit(w)
    <3>1. run' # run /\ run[w] \in Reconciling
      BY Phases DEF SyncInv
    <3>2. ~Restart
      BY DEF Restart, Idle
    <3>3. \A v \in Workers : RunStep(v) => v = w
      BY OthersKeep DEF SyncInv
    <3>4. ~(Start(w) \/ Fetch(w) \/ FetchFails(w) \/ Lock(w) \/ Succeed(w) \/ RollBack(w))
      <4>1. ~(Start(w) \/ Fetch(w) \/ FetchFails(w) \/ Lock(w) \/ Succeed(w))
        BY DEF Start, Fetch, FetchFails, Lock, Succeed, Idle
      <4>2. RollBack(w) => run'[w] = Idle
        BY DEF RollBack, Fail, SyncInv, TypeOK
      <4> QED BY <4>1, <4>2 DEF Idle
    <3>5. ReconcileEvent(w) => run'[w].phase = "reconciling"
      BY <3>1 DEF ReconcileEvent, SyncInv, TypeOK, Reconciling
    <3> QED BY <3>1, <3>2, <3>3, <3>4, <3>5 DEF Next, vars, Tick, Publish, Book, Unbook, RunStep
  <2> DEFINE c == run[w].calendar
  <2>2. /\ c \in Calendars
        /\ IF u \in DOMAIN c
           THEN /\ rows'[u] = RowAfter(c[u], rows[u])
                /\ run'[w].decided[u] = Report(c[u], rows[u])
           ELSE /\ rows'[u] = rows[u]
                /\ run'[w].decided[u] = IF rows[u].status = "active"
                                        THEN "retained_missing" ELSE "none"
    BY <2>1, Commits DEF SyncInv
  <2>3. CASE u \in DOMAIN c
    <3>1. c[u] \in Event(Stays) /\ rows[u] \in {Absent} \cup Row(Stays)
      BY <2>2, <2>3, EventsAndRows DEF SyncInv, TypeOK
    <3> QED BY <2>2, <2>3, <3>1, ReportsHold
  <2>4. CASE u \notin DOMAIN c
    BY <2>2, <2>4 DEF ReportHolds
  <2> QED BY <2>3, <2>4
<1> QED BY <1>1, SyncKeepsItsInvariant, PTL DEF Spec, ReportsMatchTheTables
=============================================================================
