--------------------------- MODULE ICalReconcile ---------------------------
(***************************************************************************)
(* One event of a fetched calendar against the row the store has for its   *)
(* uid: what reconcileICalFeed decides to write, and what the store's own  *)
(* guards let it write.                                                    *)
(*                                                                         *)
(* The decision and the guard are two independent pieces of code, one in   *)
(* TypeScript and one in SQL.  Both compare versions, which are pairs of a *)
(* sequence and a modification time, each of which may be null.  Summaries *)
(* are left out: they are compared where the stays are, with the same      *)
(* result.                                                                 *)
(***************************************************************************)
EXTENDS Intervals

\* null in an event, NULL in a column.
Null == -1

Nullable == Nat \cup {Null}

Event(stays) ==
  [stay: stays, status: {"confirmed", "tentative", "cancelled", "unknown"},
   seq: Nullable, mod: Nullable]

Row(stays) ==
  [status: {"active", "released"}, stay: stays,
   eventStatus: {"confirmed", "tentative", "cancelled"}, seq: Nullable, mod: Nullable]

Absent == [status |-> "absent"]

-----------------------------------------------------------------------------
(* Comparing versions *)

\* The order the comparisons below are meant to follow: lexicographic, with
\* null below every value.
Precedes(x, y) == x.seq < y.seq \/ (x.seq = y.seq /\ x.mod < y.mod)

\* Mutation: equal sequences never differ, whatever their times.
SequenceAlone(e, r) == e.seq # Null /\ (r.seq = Null \/ e.seq > r.seq)

VersionIsNewer(e, r) ==
  \/ e.seq # Null /\ (r.seq = Null \/ e.seq > r.seq)
  \/ e.seq = r.seq /\ e.mod # Null /\ (r.mod = Null \/ e.mod > r.mod)

\* Not the converse of the test above: it ignores a sequence that only one of
\* the two has, if it is the row, and is never true if it is the event.
VersionIsOlder(e, r) ==
  IF e.seq # Null /\ r.seq # Null /\ e.seq # r.seq
  THEN e.seq < r.seq
  ELSE /\ e.seq = Null \/ r.seq # Null
       /\ e.mod # Null /\ r.mod # Null
       /\ e.mod < r.mod

HasProvenance(x) == x.seq # Null \/ x.mod # Null

\* The row an upsert of e leaves.
ActiveRow(e) ==
  [status |-> "active", stay |-> e.stay, eventStatus |-> e.status, seq |-> e.seq, mod |-> e.mod]

\* The row r becomes when e releases it.
ReleasedRow(e, r) ==
  [r EXCEPT !.status = "released", !.eventStatus = "cancelled", !.seq = e.seq, !.mod = e.mod]

-----------------------------------------------------------------------------
(* What reconcileEvent decides: the action it reports and the store's        *)
(* operation it calls                                                        *)

Verdict(action, write) == [action |-> action, write |-> write]

Review == Verdict("needs_review", "none")

CancellationVerdict(e, r) ==
  CASE r = Absent -> Verdict("ignored_cancelled", "none")
    [] r # Absent /\ VersionIsOlder(e, r) -> Review
    [] r.status = "released" /\ ~VersionIsOlder(e, r) ->
         Verdict("unchanged", IF VersionIsNewer(e, r) THEN "release" ELSE "none")
    [] r.status = "active" /\ ~VersionIsOlder(e, r) ->
         IF \/ HasProvenance(r) /\ ~HasProvenance(e)
            \/ e.stay # r.stay /\ ~VersionIsNewer(e, r)
         THEN Review
         ELSE Verdict("released", "release")

StayVerdict(e, r) ==
  CASE r = Absent -> Verdict("created", "upsert")
    [] r = ActiveRow(e) -> Verdict("unchanged", "upsert")
    [] r # Absent /\ r # ActiveRow(e) ->
         IF VersionIsNewer(e, r) THEN Verdict("updated", "upsert") ELSE Review

VerdictOf(e, r) ==
  CASE e.status = "unknown" -> Review
    [] e.status = "cancelled" -> CancellationVerdict(e, r)
    [] e.status \in {"confirmed", "tentative"} -> StayVerdict(e, r)

-----------------------------------------------------------------------------
(* What the store writes *)

\* ON CONFLICT DO UPDATE ... WHERE: the row is of a lower version, or is the
\* very row the upsert would leave.
UpsertGuard(e, r) ==
  \/ r = Absent
  \/ r.seq = Null /\ e.seq # Null
  \/ r.seq # Null /\ e.seq # Null /\ e.seq > r.seq
  \/ /\ r.seq = e.seq
     /\ \/ r.mod = Null /\ e.mod # Null
        \/ r.mod # Null /\ e.mod # Null /\ e.mod > r.mod
  \/ r = ActiveRow(e)

\* Mutation: a release is written whatever version it carries.
ReleaseGuardGone(e, r) == r # Absent

\* UPDATE ... WHERE of a release with provenance: equal versions may.
ReleaseGuard(e, r) ==
  /\ r # Absent
  /\ \/ r.seq = Null /\ e.seq # Null
     \/ r.seq # Null /\ e.seq # Null /\ e.seq > r.seq
     \/ /\ r.seq = e.seq
        /\ \/ r.mod = Null /\ e.mod # Null
           \/ r.mod # Null /\ e.mod # Null /\ e.mod > r.mod
           \/ r.mod = e.mod

\* The store throws ICalStaleWriteError: it found a row its guard refused.
StaleWrite(write, e, r) ==
  \/ write = "upsert" /\ ~UpsertGuard(e, r)
  \/ write = "release" /\ r # Absent /\ ~ReleaseGuard(e, r)

\* The row after the operation.
Written(write, e, r) ==
  CASE write = "upsert" /\ UpsertGuard(e, r) -> ActiveRow(e)
    [] write = "release" /\ ReleaseGuard(e, r) -> ReleasedRow(e, r)
    [] OTHER -> r
=============================================================================
