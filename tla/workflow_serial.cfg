\* One activity at a time, the code's seven stages and attempts, no fault.
SPECIFICATION FairSpec
CONSTANTS
  Tasks = {t1}
  Texts = {a, b}
  NoText = NoText
  STAGES <- AllStages
  STAGE_MAX_ATTEMPTS <- AllAttempts
  MaxRequests = 4
  MaxFaults = 0
PROPERTY KeepsPromise
CHECK_DEADLOCK FALSE
