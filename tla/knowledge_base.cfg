\* Two seedings of an empty or a seeded table, and two embedding runs at once.
SPECIFICATION Spec
CONSTANTS
  Seeders = {s1, s2}
  Embedders = {e1, e2}
  fob = fob
  docs = docs
  moq = moq
  KB_ENTRIES = {fob, docs}
  SqlEntries = {moq}
  Category <- MCCategory
  Paragraphs <- MCParagraphs
  CHUNK_SIZE = 12
  CHUNK_OVERLAP = 3
  MaxSeedings = 3
  MaxRuns = 2
SYMMETRY ProcessSymmetry
INVARIANT TypeOK
INVARIANT TextAccountedFor
PROPERTY StaysGrounded
CHECK_DEADLOCK FALSE
