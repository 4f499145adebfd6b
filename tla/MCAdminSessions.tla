-------------------------- MODULE MCAdminSessions --------------------------
(* Two requests at a time: of the database's clock, one node is ahead, one behind. *)
EXTENDS AdminSessions, TLC

CONSTANTS ahead, behind

SkewChosen == [h \in Handlers |-> IF h = ahead THEN 2 ELSE 0]

\* A token is nothing but itself.
AnyToken == Permutations(Tokens)
=============================================================================
