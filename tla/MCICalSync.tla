---- MODULE MCICalSync ----
(* A small instance of the synchronisation job. *)
EXTENDS ICalSync

Stay(a, d) == [arrival |-> a, departure |-> d]
Early == Stay(1, 3)
Late == Stay(3, 5)
Middle == Stay(2, 4)

StaysChosen == {Early, Late, Middle}

Ev(stay, status, seq, mod) == [stay |-> stay, status |-> status, seq |-> seq, mod |-> mod]

Confirmed(stay, seq, mod) == Ev(stay, "confirmed", seq, mod)
Cancelled(stay, seq, mod) == Ev(stay, "cancelled", seq, mod)

Both(e, f) == [u \in {1, 2} |-> IF u = 1 THEN e ELSE f]
First(e) == [u \in {1} |-> e]
Second(e) == [u \in {2} |-> e]

\* Channels that count sequences, that date their changes, that do either
\* from one event to the next, and that do neither.
Counting ==
  <<Both(Confirmed(Early, 0, Null), Confirmed(Late, 0, Null)),
    Both(Confirmed(Late, 1, Null), Confirmed(Early, 1, Null)),
    Both(Cancelled(Late, 2, Null), Confirmed(Middle, 1, Null))>>

Dating ==
  <<First(Confirmed(Early, 0, 1)),
    Both(Cancelled(Early, 0, 2), Cancelled(Late, 0, 1)),
    Both(Confirmed(Middle, 0, 3), Ev(Late, "unknown", 0, 2))>>

Mixed ==
  <<Both(Confirmed(Early, 1, 1), Confirmed(Late, Null, 1)),
    Both(Cancelled(Early, Null, 2), Confirmed(Late, 0, Null)),
    Both(Ev(Middle, "tentative", 1, 2), Cancelled(Late, 0, 1))>>

Unversioning ==
  <<First(Confirmed(Early, Null, Null)),
    Both(Confirmed(Middle, Null, Null), Confirmed(Late, 0, Null)),
    Second(Cancelled(Late, Null, Null))>>

HistoriesChosen == {Counting, Dating, Mixed, Unversioning}

====
