\* Two activities in flight, one fault.
SPECIFICATION Spec
CONSTANTS
  Tasks = {t1, t2}
  Texts = {a, b}
  NoText = NoText
  STAGES <- ShortStages
  STAGE_MAX_ATTEMPTS <- ShortAttempts
  MaxRequests = 3
  MaxFaults = 1
SYMMETRY TaskSymmetry
INVARIANT TypeOK
INVARIANT NothingAbandoned
INVARIANT CompletedMeansDone
INVARIANT FailedMeansResumable
INVARIANT VersionCountsResets
INVARIANT DeathNeedsOverlap
CHECK_DEADLOCK FALSE
