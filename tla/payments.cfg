\* One request, two checkouts of it, two calls at a time, two events.
SPECIFICATION Spec
CONSTANTS
  r1 = r1  p1 = p1  p2 = p2  e1 = e1  e2 = e2
  Requests = {r1}
  Callers = {p1, p2}
  EventIds = {e1, e2}
  MaxCheckoutAttempts = 2
  CheckoutDuration = 1
  MaxTime = 2
SYMMETRY MCSymmetry
INVARIANTS
  OneLiveCheckout
  PaymentsAreKnown
  OneEventDecides
  OutcomesHold
PROPERTIES
  OutcomesAreFinal
