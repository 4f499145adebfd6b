----------------------------- MODULE ICalBlocks -----------------------------
(***************************************************************************)
(* The store of imported calendar events: upsert and release, each in a    *)
(* transaction of its own.  A row keeps the version it was last written    *)
(* with, and a write of an older version is turned away as stale.          *)
(***************************************************************************)
EXTENDS Store

\* A release without provenance carries no version.
NoVersion == -1

UpsertCalls == [op: {"upsert"}, prop: Properties, uid: Uids, stay: Stays, version: Nat]
WithdrawCalls ==
  [op: {"withdraw"}, prop: Properties, uid: Uids, version: Nat \cup {NoVersion}]

ICalCalls == UpsertCalls \cup WithdrawCalls

-----------------------------------------------------------------------------
(* upsert *)

UpsertRead(p) ==
  /\ Entering(p, "upsert")
  /\ IF NativeConflict(Call(p).prop, Call(p).stay) THEN Refuse(p) ELSE Decide(p, "upsert")

\* Mutation: a released row accepts the version it was released with.
NotStaleWhenEqual(row, c) ==
  \/ row = NoRow
  \/ c.version >= row.version

\* INSERT, or the DO UPDATE ... WHERE of an existing row: a newer version, or
\* the very snapshot the active row already has.
NotStale(row, c) ==
  \/ row = NoRow
  \/ c.version > row.version
  \/ row = [status |-> "active", stay |-> c.stay, version |-> c.version]

UpsertWrite(p) ==
  LET c == Call(p)
  IN  /\ Holding(p, "upsert")
      /\ feed' = IF NotStale(feed[c.prop][c.uid], c)
                 THEN [feed EXCEPT ![c.prop][c.uid] =
                         [status |-> "active", stay |-> c.stay, version |-> c.version]]
                 ELSE feed
      /\ Finish(p)
      /\ UNCHANGED <<block, request, outbox>>

-----------------------------------------------------------------------------
(* release *)

WithdrawRead(p) == Entering(p, "withdraw") /\ Decide(p, "release")

\* With provenance, the version must not be older than the row's and becomes
\* the row's; without, an active row is released as it is.
WithdrawnRow(row, version) ==
  IF version = NoVersion
  THEN IF row.status = "active" THEN [row EXCEPT !.status = "released"] ELSE row
  ELSE IF row # NoRow /\ version >= row.version
       THEN [row EXCEPT !.status = "released", !.version = version]
       ELSE row

WithdrawWrite(p) ==
  LET c == Call(p)
  IN  /\ Holding(p, "withdraw")
      /\ feed' = [feed EXCEPT ![c.prop][c.uid] = WithdrawnRow(@, c.version)]
      /\ Finish(p)
      /\ UNCHANGED <<block, request, outbox>>

ICalStep(p) ==
  \/ UpsertRead(p) \/ UpsertWrite(p)
  \/ WithdrawRead(p) \/ WithdrawWrite(p)
=============================================================================
