\* Two overlapping queries and one failure of a fetch, a row or a process.
SPECIFICATION Spec
CONSTANTS
  WORKERS = 2
  Embedders = {e1}
  acme = acme
  best = best
  toTheOrderOf = toTheOrderOf
  coffee = coffee
  cocoa = cocoa
  Importers = {acme, best, toTheOrderOf}
  Placeholders = {toTheOrderOf}
  Queries = {coffee, cocoa}
  Offer <- MCOffer
  MAX_PAGES = 2
  BATCH = 2
  MAX_RETRIES = 0
  MaxTriggers = 2
  MaxFaults = 1
INVARIANT TypeOK
INVARIANT NeverOlder
INVARIANT OnlyFullAggregates
INVARIANT CountsAddUp
INVARIANT EmbeddingFollowsRow
CHECK_DEADLOCK FALSE
