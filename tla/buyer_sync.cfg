\* Two ingest and two ai processes, two overlapping queries, embeddings that fail.
SPECIFICATION FairSpec
CONSTANTS
  WORKERS = 2
  Embedders = {e1, e2}
  acme = acme
  best = best
  toTheOrderOf = toTheOrderOf
  coffee = coffee
  cocoa = cocoa
  Importers = {acme, best, toTheOrderOf}
  Placeholders = {toTheOrderOf}
  Queries = {coffee, cocoa}
  Offer <- MCOffer
  MAX_PAGES = 2
  BATCH = 2
  MAX_RETRIES = 1
  MaxTriggers = 2
  MaxFaults = 0
INVARIANT EmbeddingFollowsRow
PROPERTY Drains
CHECK_DEADLOCK FALSE
