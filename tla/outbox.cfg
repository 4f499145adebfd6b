\* Two events, two workers, two attempts: a claim can be taken over once, and
\* then it is the last.  Liveness is checked, so workers are not symmetric.
SPECIFICATION FairSpec
CONSTANTS
  w1 = w1  w2 = w2
  Events = {1, 2}
  Workers <- MCWorkers
  MaxAttempts = 2
INVARIANTS
  DeliveredWasAccepted
  FailureIsExplained
  NoAttemptIsSentTwice
PROPERTIES
  LateFailuresAreIgnored
  SettledIsFinal
  EveryEventSettles
