\* One checkout, two handlers, two events, handlers that die.
SPECIFICATION FairSpec
CONSTANTS
  r1 = r1  p1 = p1  p2 = p2  e1 = e1  e2 = e2
  Requests = {r1}
  Callers = {p1, p2}
  EventIds = {e1, e2}
  MaxCheckoutAttempts = 1
  CheckoutDuration = 1
  MaxTime = 1
PROPERTIES
  PaymentsArrive
