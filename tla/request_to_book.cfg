SPECIFICATION Spec
CONSTANTS
  first = first
  retry = retry
  other = other
  Callers = {first, retry, other}
  Key <- KeyChosen
  Body <- BodyChosen
  PlanInputs <- PlansChosen
  Maxima = {1, 3}
  Currencies = {"EUR"}
  MaxSafe = 16
  MaxAmount = 5
  MaxStay = 5
  MaxOverrides = 3
  MaxCalls = 1
  MaxEdits = 2
SYMMETRY Retries
CHECK_DEADLOCK FALSE
INVARIANTS
  OneAnswerPerKey
PROPERTIES
  PricedByOnePlan
  ConflictsAreReal
