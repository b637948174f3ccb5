\* Two registrations, two executions, two failed statements and two silent workers.
SPECIFICATION FairSpec
CONSTANTS
  Clients = {c1, c2}
  Workers = {w1, w2}
  None = None
  Scales <- SomeScales
  ATTEMPTS = 3
  MAX_STALLED = 1
  MaxDbErrors = 2
  MaxStalls = 2
INVARIANT TypeOK
INVARIANT VerifiedIsBacked
INVARIANT FailedIsExplained
INVARIANT NibCheckAgrees
PROPERTY LevelDropsOnlyOnFailure
PROPERTY Settles
CHECK_DEADLOCK FALSE
