---------------------------- MODULE KnowledgeBase ----------------------------
(***************************************************************************)
(* export_knowledge_base: what the language model is told about exporting. *)
(* Seeding scripts fill the table, the embedding script splits long        *)
(* entries and embeds them row by row, the comms-service searches it. The  *)
(* scripts are started by hand and may overlap; what orders them is what   *)
(* Postgres locks: a DELETE the rows it removes, every write the table     *)
(* against the index that ends a seeding.                                  *)
(***************************************************************************)
EXTENDS Integers, FiniteSets, Sequences

CONSTANTS
  Seeders,     \* processes of scripts/seed-knowledge-base.py
  Embedders,   \* processes of infra/scripts/embed_knowledge_base.py
  KB_ENTRIES,  \* entries of the seeding script
  SqlEntries,  \* entries of seed-knowledge-base.sql
  Category,    \* Category[e]: the category of entry e
  Paragraphs,  \* Paragraphs[e]: the lengths of the paragraphs of e
  CHUNK_SIZE, CHUNK_OVERLAP,
  MaxSeedings, \* bound: seedings that reach the database
  MaxRuns      \* bound: embedding runs

Entries == KB_ENTRIES \union SqlEntries

Categories == {"incoterms", "payment_terms", "negotiation", "fraud_indicators",
               "documents", "regulations", "logistics", "market_intelligence"}

INTENT_CATEGORIES ==
  [rfq               |-> {"incoterms", "payment_terms", "documents", "regulations"},
   price_negotiation |-> {"negotiation", "incoterms", "market_intelligence"},
   spec_inquiry      |-> {"documents", "regulations", "incoterms"},
   complaint         |-> {"logistics", "documents", "regulations"},
   general           |-> {"incoterms", "payment_terms", "negotiation", "logistics"}]

ASSUME EntriesAssumption == IsFiniteSet(KB_ENTRIES) /\ IsFiniteSet(SqlEntries)
ASSUME CategoryAssumption == Category \in [Entries -> Categories]
ASSUME ParagraphsAssumption == Paragraphs \in [Entries -> Seq(Nat \ {0})]
ASSUME ChunkAssumption ==
  CHUNK_SIZE \in Nat /\ CHUNK_OVERLAP \in Nat /\ CHUNK_OVERLAP < CHUNK_SIZE
ASSUME BoundAssumption == MaxSeedings \in Nat /\ MaxRuns \in Nat
ASSUME CoverAssumption ==
  \A intent \in DOMAIN INTENT_CATEGORIES :
    \E e \in KB_ENTRIES : Category[e] \in INTENT_CATEGORIES[intent]

-----------------------------------------------------------------------------
(* chunk_text: paragraphs fill a chunk until the next one does not fit; one *)
(* that is too long by itself is wrapped into lines, each a chunk, and the  *)
(* tail of the last line opens the next. At least one chunk, the whole text *)
(* when it is short.                                                        *)
Lesser(a, b) == IF a < b THEN a ELSE b

AddParagraph(chunks, p) ==
  LET open == chunks.open
      closed == chunks.closed + (IF open > 0 THEN 1 ELSE 0)
      width == CHUNK_SIZE - CHUNK_OVERLAP
      lines == (p + width - 1) \div width
  IN  IF open + p + 2 <= CHUNK_SIZE
        THEN [chunks EXCEPT !.open = IF open = 0 THEN p ELSE open + 2 + p]
      ELSE IF p > CHUNK_SIZE
        THEN [closed |-> closed + lines,
              open |-> Lesser(CHUNK_OVERLAP, p - (lines - 1) * width)]
      ELSE [closed |-> closed, open |-> p]

(* What the first paragraphs of a text fill. *)
Filled(text) ==
  LET Fill[i \in 0..Len(text)] ==
        IF i = 0 THEN [closed |-> 0, open |-> 0] ELSE AddParagraph(Fill[i - 1], text[i])
  IN  Fill

Chunks(e) ==
  LET text == Paragraphs[e]
      Length[i \in 0..Len(text)] == IF i = 0 THEN 0 ELSE Length[i - 1] + text[i] + 2
      filled == Filled(text)[Len(text)]
  IN  IF Length[Len(text)] - 2 <= CHUNK_SIZE THEN 1
      ELSE filled.closed + (IF filled.open > 0 THEN 1 ELSE 0)

-----------------------------------------------------------------------------
VARIABLES
  table,     \* the committed rows
  created,   \* rows ever created; the next id is one more
  seeder,    \* seeder[s]: the open transaction of a seeding, if any
  embedder,  \* embedder[e]: the rows an embedding run has yet to do
  seedings,  \* seedings begun
  runs,      \* embedding runs begun
  again,     \* history: a seeding added to rows it was not told to remove
  broken,    \* history: rows that a run broke off after their first chunk
  shared     \* history: rows that two runs embedded together

vars == <<table, created, seeder, embedder, seedings, runs, again, broken, shared>>

(* chunk 0 is the whole entry. "of" is the id of the row a chunk was cut    *)
(* from; the table does not hold it.                                        *)
Row == [id : Nat, entry : Entries, chunk : Nat, of : Nat, embedded : BOOLEAN]

(* A seeding: the rows its DELETE took, and whether it was told to clear.   *)
NoSeeding == [open |-> FALSE, clear |-> FALSE, doomed |-> {}]

(* An embedding run: the rows selected, the one under way (if any) with the *)
(* next chunk, and whether its UPDATE waits for a seeding.                  *)
NoRow == [id |-> 0, entry |-> CHOOSE e \in Entries : TRUE, chunk |-> 0, of |-> 0,
          embedded |-> FALSE]
NoRun == [on |-> FALSE, todo |-> {}, row |-> NoRow, chunk |-> 0, waits |-> FALSE]

(* One new row per entry, ids in some order: no key but the generated id.   *)
Fresh(entries, last, embedded) ==
  LET order == CHOOSE f \in [entries -> 1..Cardinality(entries)] :
                 \A a, b \in entries : f[a] = f[b] => a = b
  IN  {[id |-> last + order[x], entry |-> x, chunk |-> 0,
        of |-> last + order[x], embedded |-> embedded] : x \in entries}

(* The table is empty, or was seeded before.                                *)
Init ==
  /\ \/ table = {} /\ created = 0
     \/ table = Fresh(KB_ENTRIES, 0, FALSE) /\ created = Cardinality(KB_ENTRIES)
  /\ seeder = [s \in Seeders |-> NoSeeding]
  /\ embedder = [e \in Embedders |-> NoRun]
  /\ seedings = 0
  /\ runs = 0
  /\ again = FALSE
  /\ broken = {}
  /\ shared = {}

-----------------------------------------------------------------------------
Doomed(id) == \E s \in Seeders : \E row \in seeder[s].doomed : row.id = id

\* Faulty variant: no index, and so no lock that keeps writers out.
NothingInTheWay(s) == FALSE

(* Others whose uncommitted writes keep the index of seeding s from being   *)
(* made: another seeding, or an UPDATE that waits for a row s removes.      *)
InTheWay(s) ==
  \/ \E t \in Seeders \ {s} : seeder[t].open
  \/ \E e \in Embedders : embedder[e].waits

\* Faulty variant: the DELETE is committed by itself.
SeedBeginCleared(s, clear) ==
  /\ ~seeder[s].open
  /\ seedings < MaxSeedings
  /\ seeder' = [seeder EXCEPT ![s] = [open |-> TRUE, clear |-> clear,
                                      doomed |-> {}]]
  /\ table' = (IF clear THEN {} ELSE table)
  /\ seedings' = seedings + 1
  /\ UNCHANGED <<created, embedder, runs, again, broken, shared>>

(* The first write of a seeding: the DELETE, if asked for.                  *)
SeedBegin(s, clear) ==
  /\ ~seeder[s].open
  /\ seedings < MaxSeedings
  /\ seeder' = [seeder EXCEPT ![s] = [open |-> TRUE, clear |-> clear,
                                      doomed |-> IF clear THEN table ELSE {}]]
  /\ seedings' = seedings + 1
  /\ UNCHANGED <<table, created, embedder, runs, again, broken, shared>>

(* The inserts (with embeddings or not), the index and the commit.          *)
SeedCommit(s, embed) ==
  /\ seeder[s].open
  /\ ~InTheWay(s)
  /\ table' = (table \ seeder[s].doomed) \union Fresh(KB_ENTRIES, created, embed)
  /\ created' = created + Cardinality(KB_ENTRIES)
  /\ again' = (again \/ (~seeder[s].clear /\ table # {}))
  /\ seeder' = [seeder EXCEPT ![s] = NoSeeding]
  /\ UNCHANGED <<embedder, seedings, runs, broken, shared>>

(* An error, or the loser of a deadlock: everything is rolled back.         *)
SeedAborts(s) ==
  /\ seeder[s].open
  /\ seeder' = [seeder EXCEPT ![s] = NoSeeding]
  /\ UNCHANGED <<table, created, embedder, seedings, runs, again, broken, shared>>

(* Step 1 of run_full_seeding: one INSERT, committed at once.               *)
SeedSql ==
  /\ seedings < MaxSeedings
  /\ table' = table \union Fresh(SqlEntries, created, FALSE)
  /\ created' = created + Cardinality(SqlEntries)
  /\ again' = (again \/ table # {} \/ \E s \in Seeders : seeder[s].open)
  /\ seedings' = seedings + 1
  /\ UNCHANGED <<seeder, embedder, runs, broken, shared>>

-----------------------------------------------------------------------------
(* A run selects the rows without an embedding.                             *)
Unembedded == {row \in table : ~row.embedded}

Holds(e, id) == \E row \in embedder[e].todo \union {embedder[e].row} : row.id = id

EmbedBegin(e) ==
  /\ ~embedder[e].on
  /\ runs < MaxRuns
  /\ Unembedded # {}
  /\ embedder' = [embedder EXCEPT ![e] = [NoRun EXCEPT !.on = TRUE, !.todo = Unembedded]]
  /\ shared' = shared \union
       {row.id : row \in {x \in Unembedded : \E d \in Embedders : Holds(d, x.id)}}
  /\ runs' = runs + 1
  /\ UNCHANGED <<table, created, seeder, seedings, again, broken>>

(* The oldest row; the embedding of its first chunk is asked for.           *)
EmbedPick(e, row) ==
  /\ row \in embedder[e].todo
  /\ \A other \in embedder[e].todo : row.id <= other.id
  /\ embedder[e].row = NoRow
  /\ embedder' = [embedder EXCEPT ![e].todo = @ \ {row}, ![e].row = row, ![e].chunk = 1]
  /\ UNCHANGED <<table, created, seeder, seedings, runs, again, broken, shared>>

(* The UPDATE of a row that a seeding has deleted waits.                    *)
EmbedWaits(e) ==
  /\ embedder[e].chunk = 1
  /\ ~embedder[e].waits
  /\ Doomed(embedder[e].row.id)
  /\ embedder' = [embedder EXCEPT ![e].waits = TRUE]
  /\ UNCHANGED <<table, created, seeder, seedings, runs, again, broken, shared>>

(* The chunk is committed: on to the next one, or to the next row.          *)
Onward(run) ==
  IF run.chunk < Chunks(run.row.entry)
  THEN [run EXCEPT !.chunk = @ + 1, !.waits = FALSE]
  ELSE [run EXCEPT !.chunk = 0, !.waits = FALSE, !.row = NoRow, !.on = (run.todo # {})]

(* The first chunk takes the place of the entry in its row, if it is there. *)
FirstChunk(row) ==
  [row EXCEPT !.embedded = TRUE, !.chunk = IF Chunks(row.entry) = 1 THEN 0 ELSE 1]

EmbedFirst(e) ==
  LET run == embedder[e]
  IN  /\ run.chunk = 1
      /\ ~Doomed(run.row.id)
      /\ table' = {IF row.id = run.row.id THEN FirstChunk(row) ELSE row : row \in table}
      /\ embedder' = [embedder EXCEPT ![e] = Onward(run)]
      /\ UNCHANGED <<created, seeder, seedings, runs, again, broken, shared>>

\* Faulty variant: the inserted chunk keeps the id of the row it is selected from.
EmbedMoreSameId(e) ==
  LET run == embedder[e]
      sources == {row \in table : row.id = run.row.id}
  IN  /\ run.chunk > 1
      /\ table' = table \union {[row EXCEPT !.chunk = run.chunk] : row \in sources}
      /\ embedder' = [embedder EXCEPT ![e] = Onward(run)]
      /\ again' = (again \/ Doomed(run.row.id))
      /\ UNCHANGED <<created, seeder, seedings, runs, broken, shared>>

(* The others are inserted next to it, as long as it is there: a row that   *)
(* an uncommitted seeding removes still is.                                 *)
EmbedMore(e) ==
  LET run == embedder[e]
      sources == {row \in table : row.id = run.row.id}
  IN  /\ run.chunk > 1
      /\ table' = table \union
           {[id |-> created + 1, entry |-> row.entry, chunk |-> run.chunk,
             of |-> row.of, embedded |-> TRUE] : row \in sources}
      /\ created' = created + Cardinality(sources)
      /\ embedder' = [embedder EXCEPT ![e] = Onward(run)]
      /\ again' = (again \/ Doomed(run.row.id))
      /\ UNCHANGED <<seeder, seedings, runs, broken, shared>>

(* A call to the model or a statement fails, or the loser of a deadlock:    *)
(* the script ends where it is.                                             *)
EmbedBreaks(e) ==
  /\ embedder[e].on
  /\ embedder' = [embedder EXCEPT ![e] = NoRun]
  /\ broken' = broken \union
       (IF embedder[e].chunk > 1 THEN {embedder[e].row.id} ELSE {})
  /\ UNCHANGED <<table, created, seeder, seedings, runs, again, shared>>

Next ==
  \/ \E s \in Seeders :
       \/ \E clear \in BOOLEAN : SeedBegin(s, clear)
       \/ \E embed \in BOOLEAN : SeedCommit(s, embed)
       \/ SeedAborts(s)
  \/ SeedSql
  \/ \E e \in Embedders :
       \/ EmbedBegin(e)
       \/ \E row \in embedder[e].todo : EmbedPick(e, row)
       \/ EmbedWaits(e)
       \/ EmbedFirst(e)
       \/ EmbedMore(e)
       \/ EmbedBreaks(e)

Spec == Init /\ [][Next]_vars

-----------------------------------------------------------------------------
(* What search_by_text can find for an intent: rows of its categories come  *)
(* last in the union it searches, and are there whatever the query says.    *)
Found(intent) == {row \in table : Category[row.entry] \in INTENT_CATEGORIES[intent]}

TypeOK ==
  /\ table \subseteq Row
  /\ created \in Nat
  /\ seeder \in [Seeders -> [open : BOOLEAN, clear : BOOLEAN, doomed : SUBSET Row]]
  /\ embedder \in [Embedders -> [on : BOOLEAN, todo : SUBSET Row, row : Row, chunk : Nat,
                                  waits : BOOLEAN]]
  /\ seedings \in 0..MaxSeedings
  /\ runs \in 0..MaxRuns
  /\ again \in BOOLEAN
  /\ broken \subseteq Nat
  /\ shared \subseteq Nat
  /\ \A a, b \in table : a.id = b.id => a = b

(* An entry that was cut keeps all its text: for the first chunk in its own *)
(* row every later one is there, is still to come, or was lost when the     *)
(* embedding run broke off (which no later run makes good).                 *)
NothingForgotten ==
  \A row \in table : row.chunk = 1 =>
    \A n \in 2..Chunks(row.entry) :
      \/ \E part \in table : part.of = row.id /\ part.chunk = n
      \/ \E e \in Embedders : embedder[e].row.id = row.id /\ embedder[e].chunk <= n
      \/ row.id \in broken

(* A text is in the table twice only if a seeding was repeated without      *)
(* clearing, a run added to a row that was being cleared, or two embedding  *)
(* runs selected the same row. Two seedings at once never double anything:  *)
(* the index at their end lets only one through.                            *)
DoublesExplained ==
  \A a, b \in table : (a # b /\ a.entry = b.entry) =>
    \/ a.of # b.of /\ again
    \/ a.of = b.of /\ (a.chunk # b.chunk \/ a.of \in shared)

TextAccountedFor == NothingForgotten /\ DoublesExplained

(* Once the table has been seeded a request of any intent finds something,  *)
(* also while the entries are being cleared, replaced and cut.              *)
StaysGrounded ==
  [][(\A intent \in DOMAIN INTENT_CATEGORIES : Found(intent) # {})
       => (\A intent \in DOMAIN INTENT_CATEGORIES : Found(intent) # {})']_vars

=============================================================================
