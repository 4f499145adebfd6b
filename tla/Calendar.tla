------------------------------ MODULE Calendar ------------------------------
(***************************************************************************)
(* What the engine promises about a property's calendar, with no table,    *)
(* lock, clock or transaction in sight.                                    *)
(*                                                                         *)
(* A claimant asks for a set of nights and has them tentatively (a hold)   *)
(* or firmly (a manual block, an occupancy).  Nights come from other       *)
(* channels too: an import.  A request is decided once, and approving it   *)
(* and giving it firm nights are one step.                                 *)
(***************************************************************************)
EXTENDS Integers

CONSTANTS Properties, Claimants, Imports

VARIABLES
  claim,      \* claim[P][c]: what claimant c has of property P
  imported,   \* imported[P][u]: the nights of P that import u blocks
  status      \* status[c]: the booking request with claimant c's name

cvars == <<claim, imported, status>>

Free == [nights |-> {}, firm |-> FALSE]

Claim == {Free} \cup [nights: (SUBSET Int) \ {{}}, firm: BOOLEAN]

Statuses == {"absent", "pending", "approved", "rejected", "expired"}

CalendarTypeOK ==
  /\ claim \in [Properties -> [Claimants -> Claim]]
  /\ imported \in [Properties -> [Imports -> SUBSET Int]]
  /\ status \in [Claimants -> Statuses]

CalendarInit ==
  /\ claim = [P \in Properties |-> [c \in Claimants |-> Free]]
  /\ imported = [P \in Properties |-> [u \in Imports |-> {}]]
  /\ status \in [Claimants -> {"absent", "pending"}]

\* Nobody else's nights: neither another claimant's nor an import's.
Unclaimed(P, c, N) ==
  /\ \A d \in Claimants \ {c} : N \cap claim'[P][d].nights = {}
  /\ \A u \in Imports : N \cap imported'[P][u] = {}

\* One claim moves: it lapses if it was tentative, becomes firm for the same
\* nights, or is a new claim of nights nobody has.
ClaimMoves(P, c) ==
  \/ ~claim[P][c].firm /\ claim'[P][c] = Free
  \/ claim[P][c] # Free /\ claim'[P][c] = [nights |-> claim[P][c].nights, firm |-> TRUE]
  \/ /\ claim[P][c] = Free
     /\ claim'[P][c] \in Claim
     /\ Unclaimed(P, c, claim'[P][c].nights)

\* One request moves: a decision is final, an approval has its firm nights
\* somewhere in the same step, and a refusal keeps no tentative ones.
StatusMoves(c) ==
  \/ status[c] = "absent" /\ status'[c] = "pending"
  \/ /\ status[c] = "pending"
     /\ status'[c] = "approved"
     /\ \E P \in Properties : claim'[P][c] # Free /\ claim'[P][c].firm
  \/ status[c] = "pending" /\ status'[c] \in {"rejected", "expired"}

Trade ==
  /\ claim' \in [Properties -> [Claimants -> Claim]]
  /\ \A P \in Properties, c \in Claimants :
       claim'[P][c] # claim[P][c] => ClaimMoves(P, c)
  /\ status' \in [Claimants -> Statuses]
  /\ \A c \in Claimants : status'[c] # status[c] => StatusMoves(c)
  /\ UNCHANGED imported

\* A firm claim is given up on its own.
GiveUp(P, c) ==
  /\ claim' = [claim EXCEPT ![P][c] = Free]
  /\ UNCHANGED <<imported, status>>

\* A channel announces, changes or withdraws one event.
Import(P, u) ==
  /\ imported'[P][u] \in SUBSET Int
  /\ imported' = [imported EXCEPT ![P][u] = imported'[P][u]]
  /\ \A c \in Claimants : imported'[P][u] \cap claim[P][c].nights = {}
  /\ UNCHANGED <<claim, status>>

CalendarNext ==
  \/ Trade
  \/ \E P \in Properties : \E c \in Claimants : GiveUp(P, c)
  \/ \E P \in Properties : \E u \in Imports : Import(P, u)

CalendarSpec == CalendarInit /\ [][CalendarNext]_cvars

\* The promise in one sentence: no night has two owners.
NoNightOwnedTwice ==
  \A P \in Properties : \A c \in Claimants :
    /\ \A d \in Claimants \ {c} : claim[P][c].nights \cap claim[P][d].nights = {}
    /\ \A u \in Imports : claim[P][c].nights \cap imported[P][u] = {}
=============================================================================
