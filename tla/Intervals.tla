----------------------------- MODULE Intervals -----------------------------
(***************************************************************************)
(* Stays as half-open intervals of local dates.                            *)
(*                                                                         *)
(* Every table of the engine keeps a stay as [arrival, departure): the     *)
(* departure day is free for the next arrival.  A local date is its day    *)
(* number, so the order of dates is the order of integers.                 *)
(***************************************************************************)
EXTENDS Integers

IsStay(s) ==
  /\ s \in [arrival: Int, departure: Int]
  /\ s.arrival < s.departure

\* The test both the rate overrides and the SQL operator && use.
Overlaps(s, t) == s.arrival < t.departure /\ t.arrival < s.departure

\* The nights a stay occupies: what the test above is meant to decide.
Nights(s) == s.arrival .. (s.departure - 1)
=============================================================================
