SPECIFICATION FairSpec
CONSTANTS
  Workers = {w1, w2}
  Emails = {e1, e2}
  MaxAttempts = 2
  BatchSize = 1
  BackoffBase = 1
  BackoffMax = 1
  ReclaimAfter = 1
  MaxFaults = 1
INVARIANTS
  TypeOK
  OnceUnlessReclaimed
  AttemptsOvershoot
PROPERTIES
  SentIsFinal
  EveryEmailSettles
  ImplementsQueue
