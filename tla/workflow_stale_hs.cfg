\* An edit while a run is classifying the old text.
SPECIFICATION Spec
CONSTANTS
  Tasks = {t1, t2}
  Texts = {a, b}
  NoText = NoText
  STAGES <- ShortStages
  STAGE_MAX_ATTEMPTS <- ShortAttempts
  MaxRequests = 2
  MaxFaults = 0
INVARIANT HsReflectsProduct
CHECK_DEADLOCK FALSE
