---------------------------- MODULE MCPayments ----------------------------
(***************************************************************************)
(* Instances of Payments for TLC.                                          *)
(***************************************************************************)
EXTENDS Payments, TLC

CONSTANTS r1, p1, p2, e1, e2

\* Callers and identifiers are interchangeable.
MCSymmetry == Permutations(Callers) \cup Permutations(EventIds)

===========================================================================
