-------------------------- MODULE MCOutboxDelivery --------------------------
(***************************************************************************)
(* An instance of OutboxDelivery for TLC.                                  *)
(***************************************************************************)
EXTENDS OutboxDelivery

CONSTANTS w1, w2

MCWorkers == {w1, w2}

=============================================================================
