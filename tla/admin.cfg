SPECIFICATION Spec
CONSTANTS
  ahead = ahead
  behind = behind
  Handlers = {ahead, behind}
  Tokens = {t1, t2, t3}
  NoToken = noToken
  Skew <- SkewChosen
  DatabaseSkew = 1
  Ttl = 2
  MaxSessions = 1
  Roles = {"owner", "manager", "viewer"}
  MaxTime = 1
SYMMETRY AnyToken
CHECK_DEADLOCK FALSE
INVARIANTS
  SessionsStayBounded
PROPERTIES
  EndedSessionsStayEnded
