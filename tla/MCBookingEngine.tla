-------------------------- MODULE MCBookingEngine --------------------------
(***************************************************************************)
(* Small instances of BookingEngine.  Each run gives its clients the calls *)
(* whose interplay it is about.                                            *)
(***************************************************************************)
EXTENDS BookingEngine, TLC

CONSTANTS p1, p2, r1, r2, r3, m1, u1, k1, k2, b1, b2

MCStay(a, d) == [arrival |-> a, departure |-> d]

\* Two stays that share the night between day 1 and day 2, and one that starts
\* on the day the first one ends.
Early == MCStay(0, 2)
Late == MCStay(1, 3)
Next2 == MCStay(2, 3)

MCStays == {Early, Late, Next2}

MCProcs == {p1, p2}
MCSymmetry == Permutations(MCProcs)

NoLegacy == [r \in {} |-> NoRow]

Submit(P, r, s, b, k, defer) ==
  [op |-> "submit", prop |-> P, id |-> r, stay |-> s, body |-> b, key |-> k, defer |-> defer]
On(op, P, r) == [op |-> op, prop |-> P, id |-> r]
Insert(P, i, kind, s, expires) ==
  [op |-> "insert", prop |-> P, id |-> i, kind |-> kind, stay |-> s, expires |-> expires]
Release(P, i, kind) == [op |-> "release", prop |-> P, id |-> i, kind |-> kind]
Confirm(P, i) == [op |-> "confirm", prop |-> P, id |-> i]
Sweep == [op |-> "sweep"]
Upsert(P, u, s, v) == [op |-> "upsert", prop |-> P, uid |-> u, stay |-> s, version |-> v]
Withdraw(P, u, v) == [op |-> "withdraw", prop |-> P, uid |-> u, version |-> v]

\* One property: a deferred and a held request for overlapping stays, decided
\* by everyone who may, with the inventory calls that touch their records.
DecisionCalls ==
  {Submit(1, r1, Early, b1, k1, TRUE), Submit(1, r2, Late, b1, k2, FALSE)}
    \cup {On(op, 1, r) : op \in {"approve", "reject", "recheck", "expire"}, r \in {r1, r2}}
    \cup {Confirm(1, r2), Release(1, r2, "hold"), Release(1, r1, "occupancy")}

\* One property: native records and an imported event compete for its nights.
ImportCalls ==
  {Insert(1, m1, "manual", Late, 0), Submit(1, r2, Next2, b1, k2, FALSE),
   Release(1, m1, "manual"), Confirm(1, r2),
   Submit(1, r1, Early, b1, k1, TRUE), On("approve", 1, r1), Release(1, r1, "occupancy"),
   Upsert(1, u1, Early, 0), Upsert(1, u1, Late, 1), Upsert(1, u1, Next2, 2),
   Withdraw(1, u1, 1), Withdraw(1, u1, NoVersion)}

\* Two properties: one key used for both, a retry with changed guest data, a
\* request that predates the outbox, a hold of each property and sweeps across
\* both.
OldRequest ==
  [status |-> "pending", prop |-> 1, stay |-> Late, body |-> b1, key |-> k2,
   hold |-> NoId, expires |-> Never, fingerprint |-> "legacy"]
OneLegacy == [r \in {r3} |-> OldRequest]

KeyCalls ==
  {Submit(1, r1, Early, b1, k1, FALSE), Submit(2, r2, Early, b1, k1, FALSE),
   Submit(1, r2, Early, b2, k1, TRUE), Submit(1, r2, Late, b1, k2, TRUE),
   On("approve", 1, r3), Insert(2, m1, "hold", Early, 0), Sweep}
=============================================================================
