\* Two seedings or backfills in any overlap, searches between their steps.
SPECIFICATION FairSpec
CONSTANTS
  Seeders = {s1, s2}
  Workers = {w1}
  SIZE = 2
  PROFILES = 1
  MAX_RETRIES = 1
  MaxJobs = 2
INVARIANT TypeOK
INVARIANT SeedingsAccountedFor
PROPERTY EveryoneMatchable
CHECK_DEADLOCK FALSE
