\* Two properties that share idempotency keys and sweeps, calls that own one
\* lock or several, under fairness.
SPECIFICATION FairSpec
CONSTANTS
  p1 = p1  p2 = p2
  r1 = r1  r2 = r2  r3 = r3  m1 = m1
  u1 = u1  k1 = k1  k2 = k2  b1 = b1  b2 = b2
  NoProc = NoProc
  NoId = NoId
  Procs <- MCProcs
  Properties = {1, 2}
  Ids = {r1, r2, r3, m1}
  Uids = {}
  Keys = {k1, k2}
  Bodies = {b1, b2}
  Stays <- MCStays
  Calls <- KeyCalls
  Legacy <- OneLegacy
  MaxTime = 1
  HoldDuration = 1
INVARIANTS
  OneRequestPerKey
PROPERTIES
  CallsEnd
