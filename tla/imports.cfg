\* One property, native records against one imported event.
SPECIFICATION Spec
CONSTANTS
  p1 = p1  p2 = p2
  r1 = r1  r2 = r2  r3 = r3  m1 = m1
  u1 = u1  k1 = k1  k2 = k2  b1 = b1  b2 = b2
  NoProc = NoProc
  NoId = NoId
  Procs <- MCProcs
  Properties = {1}
  Ids = {r1, r2, m1}
  Uids = {u1}
  Keys = {k1, k2}
  Bodies = {b1}
  Stays <- MCStays
  Calls <- ImportCalls
  Legacy <- NoLegacy
  MaxTime = 1
  HoldDuration = 1
SYMMETRY MCSymmetry
INVARIANTS
  NoDoubleBooking
  VerdictsHold
PROPERTIES
  ImportsMoveForward
  ImplementsCalendar
