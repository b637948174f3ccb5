\* Two activities in flight: every workflow settles unless the process dies.
SPECIFICATION FairSpec
CONSTANTS
  Tasks = {t1, t2}
  Texts = {a, b}
  NoText = NoText
  STAGES <- ShortStages
  STAGE_MAX_ATTEMPTS <- ShortAttempts
  MaxRequests = 2
  MaxFaults = 1
PROPERTY Settles
CHECK_DEADLOCK FALSE
