\* Two tasks of any kind at once; two headings of one chapter.
SPECIFICATION Spec
CONSTANTS
  Workers = {w1, w2}
  Headings = {901, 902}
  Years = {2023, 2024}
  Requests <- MCRequests
  Reporters = {de}
  NoCode = NoCode
  Nibs = {"old", "new", "short"}
  ShortNibs = {"short"}
  MAX_RETRIES = 1
  MaxJobs = 2
SYMMETRY WorkerSymmetry
INVARIANT TypeOK
INVARIANT RecordsAccountedFor
CHECK_DEADLOCK FALSE
