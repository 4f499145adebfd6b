--------------------------- MODULE MCRequestToBook ---------------------------
(* A retry beside its first call, and another client under the same key. *)
EXTENDS RequestToBook

CONSTANTS first, retry, other

KeyChosen == [c \in Callers |-> "key"]

Stay == [arrival |-> Date(2024, 2, 28), departure |-> Date(2024, 3, 2), guests |-> 2]
LongerStay == [Stay EXCEPT !.departure = Date(2024, 3, 3)]

BodyChosen == [c \in Callers |-> IF c = other THEN LongerStay ELSE Stay]

Season(from, to, rate) == [arrival |-> from, departure |-> to, rate |-> rate]
Leap == Season(Date(2024, 2, 29), Date(2024, 3, 1), 3)
March == Season(Date(2024, 3, 1), Date(2024, 3, 6), 4)
Winter == Season(Date(2024, 2, 26), Date(2024, 3, 1), 2)

PlanOf(base, minimumStay, seasons) ==
  [currency |-> "EUR", base |-> base, cleaning |-> 1, minimumStay |-> minimumStay,
   seasons |-> seasons]

PlansChosen ==
  {PlanOf(1, 1, <<March, Leap>>), PlanOf(5, 2, <<>>), PlanOf(1, 1, <<Leap, March, Winter>>)}

\* The two calls for one stay are interchangeable.
Retries == Permutations({first, retry})
=============================================================================
