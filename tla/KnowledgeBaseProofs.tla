------------------------- MODULE KnowledgeBaseProofs -------------------------
(***************************************************************************)
(* Theorems about the knowledge base, for any number of seeding and        *)
(* embedding processes, any entries and paragraphs and any chunk size.     *)
(***************************************************************************)
EXTENDS KnowledgeBase, FiniteSetTheorems, FunctionTheorems, SequenceTheorems, WellFoundedInduction, TLAPS

Part(row) == row.chunk > 1

(* Ids are given once; what is not yet embedded is a whole entry, in a row  *)
(* of its own, of which there are no parts.                                 *)
RowsOK ==
  /\ \A row \in table :
       /\ row.id \in 1..created /\ row.of \in 1..created
       /\ IF Part(row) THEN row.embedded ELSE row.of = row.id
       /\ ~row.embedded => row.chunk = 0
  /\ \A row, part \in table : (Part(part) /\ part.of = row.id) => row.embedded

(* A run holds each id once, and knows the entry that is in the row.        *)
HeldOK(run) ==
  /\ ~run.on => run.chunk = 0 /\ run.todo = {}
  /\ \A x \in run.todo : x.id \in 1..created /\ x.id # run.row.id
  /\ \A x, y \in run.todo : x.id = y.id => x = y
  /\ IF run.chunk = 0 THEN run.row = NoRow ELSE run.row.id \in 1..created
  /\ \A x \in run.todo \union {run.row}, r \in table : r.id = x.id => (~Part(r) /\ r.entry = x.entry)
  /\ run.chunk > 1 => \A r \in table : r.id = run.row.id => r.embedded

(* Parts that a run has not made itself are of a row that two have held.    *)
PartsOK(run) ==
  \A part \in table : Part(part) =>
    /\ (\E x \in run.todo : x.id = part.of) => part.of \in shared
    /\ (run.row.id = part.of /\ part.chunk >= run.chunk) => part.of \in shared

SharedOK ==
  \A d, e \in Embedders : d # e => \A i \in 1..created : (Holds(d, i) /\ Holds(e, i)) => i \in shared

(* What a seeding removes stays until it does, with all the parts of a row  *)
(* or none; if it clears, what it leaves came after its DELETE.             *)
SeedingOK(job) ==
  /\ job.doomed \subseteq table
  /\ ~job.open => job.doomed = {}
  /\ (job.open /\ job.clear /\ table # job.doomed) => again
  /\ \A part \in job.doomed, row \in table : row.id = part.of => row \in job.doomed

(* NothingForgotten, of the chunks that a run past the first is still to    *)
(* make: one that is before the first may break off and promises nothing.   *)
Covered ==
  \A row \in table : row.chunk = 1 =>
    \A n \in 2..Chunks(row.entry) :
      \/ \E part \in table : part.of = row.id /\ part.chunk = n
      \/ \E e \in Embedders : embedder[e].row.id = row.id /\ embedder[e].chunk \in 2..n
      \/ row.id \in broken

KInv ==
  /\ TypeOK /\ RowsOK /\ SharedOK
  /\ \A e \in Embedders : HeldOK(embedder[e]) /\ PartsOK(embedder[e])
  /\ \A s \in Seeders : SeedingOK(seeder[s])

-----------------------------------------------------------------------------
(* Chunks: what the recursion over the paragraphs comes to, by the least    *)
(* number for which it would not.                                           *)
LEMMA LeastNumber == ASSUME NEW T \in SUBSET Nat, T # {} PROVE \E x \in T : \A y \in T : x <= y
<1>. DEFINE Less == {ss \in Nat \X Nat : ss[1] < ss[2]}
<1>1. IsWellFoundedOn(Less, Nat)
  BY NatLessThanWellFounded DEF OpToRel
<1>2. \A x, y \in Nat : <<y, x>> \notin Less => x <= y
  OBVIOUS
<1>. HIDE DEF Less
<1>3. \E x \in T : \A y \in T : <<y, x>> \notin Less
  BY <1>1, WFMin
<1>. QED
  BY <1>2, <1>3

(* Lines of a width: enough, and the last one is not empty. *)
LEMMA Lines ==
  ASSUME NEW p \in Nat \ {0}, NEW width \in Nat \ {0}
  PROVE  LET lines == (p + width - 1) \div width
         IN  lines \in Nat \ {0} /\ p - (lines - 1) * width \in Nat \ {0}
<1>1. PICK q \in Int : q = (p + width - 1) \div width
  OBVIOUS
<1>2. PICK a \in Int : a = p + width - 1
  OBVIOUS
<1>3. a = width * (a \div width) + (a % width) /\ a % width >= 0 /\ a % width < width
  BY <1>2
<1>4. q * width <= a /\ a < (q + 1) * width
  BY <1>1, <1>2, <1>3
<1>5. p - (q - 1) * width >= 1 /\ q >= 1
  BY <1>2, <1>4
<1>. QED
  BY <1>1, <1>5

Chunked == [closed : Nat, open : Nat]

LEMMA ParagraphAdded ==
  ASSUME NEW c \in Chunked, NEW p \in Nat \ {0}
  PROVE  AddParagraph(c, p) \in Chunked /\ (AddParagraph(c, p).closed > 0 \/ AddParagraph(c, p).open > 0)
<1>1. PICK width \in Nat \ {0} : width = CHUNK_SIZE - CHUNK_OVERLAP
  BY ChunkAssumption
<1>2. PICK lines \in Nat \ {0} : lines = (p + width - 1) \div width /\ p - (lines - 1) * width \in Nat \ {0}
  BY Lines
<1>3. Lesser(CHUNK_OVERLAP, p - (lines - 1) * width) \in Nat
  BY <1>2, ChunkAssumption DEF Lesser
<1>4. PICK closed \in Nat : closed = c.closed + (IF c.open > 0 THEN 1 ELSE 0)
  BY DEF Chunked
<1>5. c.open \in Nat /\ CHUNK_SIZE \in Nat
  BY ChunkAssumption DEF Chunked
<1>6. AddParagraph(c, p) = IF c.open + p + 2 <= CHUNK_SIZE
                             THEN [c EXCEPT !.open = IF c.open = 0 THEN p ELSE c.open + 2 + p]
                           ELSE IF p > CHUNK_SIZE
                             THEN [closed |-> closed + lines, open |-> Lesser(CHUNK_OVERLAP, p - (lines - 1) * width)]
                           ELSE [closed |-> closed, open |-> p]
  BY <1>1, <1>2, <1>4 DEF AddParagraph
<1>7. CASE c.open + p + 2 <= CHUNK_SIZE
  <2>1. PICK open \in Nat \ {0} : open = IF c.open = 0 THEN p ELSE c.open + 2 + p
    BY <1>5
  <2>. QED
    BY <1>6, <1>7, <2>1 DEF Chunked
<1>8. CASE ~(c.open + p + 2 <= CHUNK_SIZE) /\ p > CHUNK_SIZE
  BY <1>3, <1>6, <1>8 DEF Chunked
<1>9. CASE ~(c.open + p + 2 <= CHUNK_SIZE) /\ ~(p > CHUNK_SIZE)
  BY <1>6, <1>9 DEF Chunked
<1>. QED
  BY <1>7, <1>8, <1>9

LEMMA FilledIsFunction ==
  ASSUME NEW text \in Seq(Nat \ {0})
  PROVE  /\ Filled(text) \in [0..Len(text) -> Chunked]
         /\ \A i \in 0..Len(text) : Filled(text)[i] =
              IF i = 0 THEN [closed |-> 0, open |-> 0] ELSE AddParagraph(Filled(text)[i - 1], text[i])
<1>. DEFINE Step(f, i) == IF i = 0 THEN [closed |-> 0, open |-> 0] ELSE AddParagraph(f[i - 1], text[i])
            Fills(f, n) == f \in [0..n -> Chunked] /\ \A i \in 0..n : f[i] = Step(f, i)
            Not == {n \in 0..Len(text) : ~ \E f \in [0..n -> Chunked] : Fills(f, n)}
<1>1. /\ Len(text) \in Nat /\ Filled(text) = CHOOSE f : f = [i \in 0..Len(text) |-> Step(f, i)]
      /\ \A i \in 1..Len(text) : text[i] \in Nat \ {0}
  BY DEF Filled
<1>2. [closed |-> 0, open |-> 0] \in Chunked
  BY DEF Chunked
<1>3. Not = {}
  <2>1. SUFFICES ASSUME Not # {} PROVE FALSE
    OBVIOUS
  <2>2. PICK n \in Not : \A m \in Not : n <= m
    <3>1. Not \in SUBSET Nat
      OBVIOUS
    <3>. HIDE DEF Not
    <3>. QED
      BY <2>1, <3>1, LeastNumber
  <2>3. CASE n = 0
    <3>1. PICK f : f = [i \in 0..0 |-> [closed |-> 0, open |-> 0]]
      OBVIOUS
    <3>2. Fills(f, 0)
      BY <1>2, <3>1
    <3>. QED
      BY <2>3, <3>2
  <2>4. CASE n # 0
    <3>0. n \in 0..Len(text) /\ n \in Int
      BY <1>1, <2>2
    <3>1. n \in 1..Len(text) /\ n - 1 \in 0..Len(text)
      BY <1>1, <2>4, <3>0
    <3>2. PICK f \in [0..(n - 1) -> Chunked] : Fills(f, n - 1)
      <4>1. n - 1 \notin Not
        <5>. HIDE DEF Not
        <5>. QED
          BY <2>2, <3>0
      <4>. QED
        BY <3>1, <4>1
    <3>3. PICK last \in Chunked : last = AddParagraph(f[n - 1], text[n])
      BY <1>1, <3>1, <3>2, ParagraphAdded
    <3>4. PICK g : g = [i \in 0..n |-> IF i = n THEN last ELSE f[i]]
      OBVIOUS
    <3>5. g \in [0..n -> Chunked]
      BY <3>1, <3>2, <3>3, <3>4
    <3>6. ASSUME NEW i \in 0..n PROVE g[i] = Step(g, i)
      <4>1. CASE i = n
        BY <3>1, <3>3, <3>4, <4>1
      <4>2. CASE i # n
        <5>1. i \in 0..(n - 1) /\ (i # 0 => i - 1 \in 0..(n - 1) /\ i - 1 \in 0..n /\ i - 1 # n)
          BY <3>1, <4>2
        <5>2. g[i] = f[i] /\ (i # 0 => g[i - 1] = f[i - 1])
          BY <3>4, <4>2, <5>1
        <5>3. f[i] = Step(f, i)
          BY <3>2, <5>1
        <5>. QED
          BY <5>2, <5>3
      <4>. QED
        BY <4>1, <4>2
    <3>. QED
      BY <3>5, <3>6
  <2>. QED
    BY <2>3, <2>4
<1>4. PICK f : Fills(f, Len(text))
  <2>1. Len(text) \in 0..Len(text)
    BY <1>1
  <2>2. \E f \in [0..Len(text) -> Chunked] : Fills(f, Len(text))
    BY <1>3, <2>1
  <2>. HIDE DEF Fills
  <2>. QED
    BY <2>2
<1>5. f = [i \in 0..Len(text) |-> Step(f, i)]
  BY <1>4
<1>6. PICK g : g = Filled(text)
  OBVIOUS
<1>7. g = [i \in 0..Len(text) |-> Step(g, i)]
  BY <1>1, <1>5, <1>6
<1>. DEFINE Wrong == {i \in 0..Len(text) : g[i] \notin Chunked}
<1>8. Wrong = {}
  <2>1. SUFFICES ASSUME Wrong # {} PROVE FALSE
    OBVIOUS
  <2>2. PICK n \in Wrong : \A m \in Wrong : n <= m
    <3>1. Wrong \in SUBSET Nat
      OBVIOUS
    <3>. HIDE DEF Wrong
    <3>. QED
      BY <2>1, <3>1, LeastNumber
  <2>3. n # 0
    BY <1>2, <1>7
  <2>4. n \in 1..Len(text) /\ n - 1 \in 0..Len(text) /\ g[n - 1] \in Chunked
    BY <1>1, <2>2, <2>3
  <2>5. g[n] = AddParagraph(g[n - 1], text[n])
    BY <1>7, <2>3, <2>4
  <2>. QED
    BY <1>1, <2>2, <2>4, <2>5, ParagraphAdded
<1>. QED
  BY <1>6, <1>7, <1>8

(* chunk_text never returns nothing: every entry, however its paragraphs    *)
(* fall, is at least one chunk.                                             *)
THEOREM ChunksAtLeastOne == ASSUME NEW e \in Entries PROVE Chunks(e) \in Nat \ {0}
<1>1. PICK text \in Seq(Nat \ {0}) : text = Paragraphs[e]
  BY ParagraphsAssumption
<1>2. PICK n \in Nat : n = Len(text)
  BY <1>1
<1>3. PICK filled \in Chunked : filled = Filled(text)[n]
  BY <1>1, <1>2, FilledIsFunction
<1>. DEFINE Length == CHOOSE f : f = [i \in 0..n |-> IF i = 0 THEN 0 ELSE f[i - 1] + text[i] + 2]
<1>4. Chunks(e) = IF Length[n] - 2 <= CHUNK_SIZE THEN 1 ELSE filled.closed + (IF filled.open > 0 THEN 1 ELSE 0)
  BY <1>1, <1>2, <1>3 DEF Chunks
<1>5. CASE n = 0
  <2>1. \E f : f = [i \in 0..0 |-> IF i = 0 THEN 0 ELSE f[i - 1] + text[i] + 2]
    <3>1. PICK f : f = [i \in 0..0 |-> 0]
      OBVIOUS
    <3>2. f = [i \in 0..0 |-> IF i = 0 THEN 0 ELSE f[i - 1] + text[i] + 2]
      BY <3>1
    <3>. QED
      BY <3>2
  <2>2. Length[0] = 0
    BY <1>5, <2>1
  <2>. HIDE DEF Length
  <2>. QED
    BY <1>4, <1>5, <2>2, ChunkAssumption
<1>6. CASE n # 0
  <2>1. n \in 0..n /\ n - 1 \in 0..n /\ text[n] \in Nat \ {0}
    BY <1>1, <1>2, <1>6
  <2>2. filled = AddParagraph(Filled(text)[n - 1], text[n]) /\ Filled(text)[n - 1] \in Chunked
    BY <1>2, <1>3, <1>6, <2>1, FilledIsFunction
  <2>3. filled.closed > 0 \/ filled.open > 0
    BY <2>1, <2>2, ParagraphAdded
  <2>. HIDE DEF Length
  <2>. QED
    BY <1>4, <2>3 DEF Chunked
<1>. QED
  BY <1>5, <1>6

-----------------------------------------------------------------------------
Job == [open : BOOLEAN, clear : BOOLEAN, doomed : SUBSET Row]
Run == [on : BOOLEAN, todo : SUBSET Row, row : Row, chunk : Nat, waits : BOOLEAN]

OneRowPerId == \A a, b \in table : a.id = b.id => a = b
HoldsIn(run, i) == \E row \in run.todo \union {run.row} : row.id = i

(* What the types come to. *)
LEMMA Types ==
  TypeOK =>
    /\ table \subseteq Row /\ created \in Nat /\ seeder \in [Seeders -> Job] /\ embedder \in [Embedders -> Run]
    /\ seedings \in 0..MaxSeedings /\ runs \in 0..MaxRuns /\ again \in BOOLEAN /\ broken \subseteq Nat /\ shared \subseteq Nat
    /\ OneRowPerId
    /\ \A r \in Row : r.id \in Nat /\ r.entry \in Entries /\ r.chunk \in Nat /\ r.of \in Nat /\ r.embedded \in BOOLEAN
BY DEF TypeOK, Job, Run, Row, OneRowPerId

LEMMA Nobody ==
  /\ NoRow \in Row /\ NoRow.id = 0 /\ NoRun \in Run /\ NoRun.todo = {} /\ NoRun.row = NoRow /\ NoRun.chunk = 0
  /\ NoSeeding \in Job /\ NoSeeding.doomed = {} /\ ~NoSeeding.open
<1>1. (CHOOSE e \in Entries : TRUE) \in Entries
  BY CoverAssumption DEF Entries, INTENT_CATEGORIES
<1>2. NoRow \in Row /\ NoRow.id = 0
  BY <1>1 DEF NoRow, Row
<1>. QED
  BY <1>2 DEF NoRun, Run, NoSeeding, Job

LEMMA FreshRows ==
  ASSUME NEW S \in SUBSET Entries, IsFiniteSet(S), NEW last \in Nat, NEW embed \in BOOLEAN
  PROVE  LET fresh == Fresh(S, last, embed)
         IN  /\ Cardinality(S) \in Nat /\ fresh \subseteq Row
             /\ \A r \in fresh : /\ r.id \in (last + 1)..(last + Cardinality(S)) /\ r.of = r.id
                                 /\ r.chunk = 0 /\ r.embedded = embed /\ r.entry \in S
             /\ \A a, b \in fresh : (a.id = b.id \/ a.entry = b.entry) => a = b
             /\ \A x \in S : \E r \in fresh : r.entry = x
<1>1. PICK n \in Nat : n = Cardinality(S) /\ ExistsBijection(1..n, S)
  BY FS_CardinalityType
<1>2. ExistsBijection(S, 1..n)
  BY <1>1, Fun_ExistsBijSymmetric
<1>3. \E f \in [S -> 1..n] : \A a, b \in S : f[a] = f[b] => a = b
  BY <1>2 DEF ExistsBijection, Bijection, Injection, IsInjective
<1>4. PICK f \in [S -> 1..n] : /\ \A a, b \in S : f[a] = f[b] => a = b
                               /\ f = CHOOSE g \in [S -> 1..n] : \A a, b \in S : g[a] = g[b] => a = b
  BY <1>3
<1>5. Fresh(S, last, embed) = {[id |-> last + f[x], entry |-> x, chunk |-> 0, of |-> last + f[x], embedded |-> embed] : x \in S}
  BY <1>1, <1>4 DEF Fresh
<1>6. \A x \in S : last + f[x] \in (last + 1)..(last + n) /\ last + f[x] \in Nat /\ x \in Entries /\ f[x] \in Nat
  BY <1>4
<1>7. Fresh(S, last, embed) \subseteq Row
  BY <1>5, <1>6 DEF Row
<1>8. \A r \in Fresh(S, last, embed) : /\ r.id = last + f[r.entry] /\ r.of = r.id
                                       /\ r.chunk = 0 /\ r.embedded = embed /\ r.entry \in S
                                       /\ r = [id |-> r.id, entry |-> r.entry, chunk |-> 0, of |-> r.id, embedded |-> embed]
  BY <1>5
<1>9. \A a, b \in Fresh(S, last, embed) : (a.id = b.id \/ a.entry = b.entry) => a = b
  <2>1. ASSUME NEW a \in Fresh(S, last, embed), NEW b \in Fresh(S, last, embed), a.id = b.id PROVE a.entry = b.entry
    <3>1. a.entry \in S /\ b.entry \in S /\ f[a.entry] \in Nat /\ f[b.entry] \in Nat
      BY <1>6, <1>8
    <3>2. last + f[a.entry] = last + f[b.entry]
      BY <1>8, <2>1
    <3>3. f[a.entry] = f[b.entry]
      BY <3>1, <3>2
    <3>. QED
      BY <1>4, <3>1, <3>3
  <2>. QED
    BY <1>8, <2>1
<1>10. ASSUME NEW r \in Fresh(S, last, embed) PROVE r.id \in (last + 1)..(last + Cardinality(S))
  BY <1>1, <1>6, <1>8
<1>11. ASSUME NEW x \in S PROVE \E r \in Fresh(S, last, embed) : r.entry = x
  <2>1. PICK r : r = [id |-> last + f[x], entry |-> x, chunk |-> 0, of |-> last + f[x], embedded |-> embed]
    OBVIOUS
  <2>2. r \in Fresh(S, last, embed) /\ r.entry = x
    BY <1>5, <2>1
  <2>. QED
    BY <2>2
<1>12. Cardinality(S) \in Nat
  BY <1>1
<1>. QED
  BY <1>7, <1>8, <1>9, <1>10, <1>11, <1>12

LEMMA InitKInv == Init => KInv
<1>. SUFFICES ASSUME Init PROVE KInv
  OBVIOUS
<1>1. \/ table = {} /\ created = 0
      \/ /\ created = Cardinality(KB_ENTRIES) /\ created \in Nat /\ table \subseteq Row /\ OneRowPerId
         /\ \A r \in table : r.id \in 1..created /\ r.of = r.id /\ r.chunk = 0
  <2>1. CASE table = {} /\ created = 0
    BY <2>1
  <2>2. CASE table = Fresh(KB_ENTRIES, 0, FALSE) /\ created = Cardinality(KB_ENTRIES)
    <3>1. KB_ENTRIES \in SUBSET Entries /\ IsFiniteSet(KB_ENTRIES)
      BY EntriesAssumption DEF Entries
    <3>4. PICK no \in BOOLEAN : no = FALSE
      OBVIOUS
    <3>5. PICK fresh : fresh = Fresh(KB_ENTRIES, 0, no)
      OBVIOUS
    <3>6. PICK last \in Nat : last = Cardinality(KB_ENTRIES)
      BY <3>1, FS_CardinalityType
    <3>7. /\ fresh \subseteq Row
          /\ \A r \in fresh : r.id \in (0 + 1)..(0 + last) /\ r.of = r.id /\ r.chunk = 0
          /\ \A a, b \in fresh : (a.id = b.id \/ a.entry = b.entry) => a = b
      BY <3>1, <3>5, <3>6, FreshRows
    <3>8. table = fresh /\ created = last
      BY <2>2, <3>4, <3>5, <3>6
    <3>2. /\ created \in Nat /\ table \subseteq Row
          /\ \A r \in table : r.id \in (0 + 1)..(0 + created) /\ r.of = r.id /\ r.chunk = 0
          /\ \A a, b \in table : (a.id = b.id \/ a.entry = b.entry) => a = b
      BY <3>6, <3>7, <3>8
    <3>3. \A r \in table : r.id \in 1..created
      BY <3>2
    <3>. QED
      BY <2>2, <3>2, <3>3 DEF OneRowPerId
  <2>. QED
    BY <2>1, <2>2 DEF Init
<1>2. /\ table \subseteq Row /\ created \in Nat /\ OneRowPerId
      /\ \A r \in table : r.id \in 1..created /\ r.of = r.id /\ r.chunk = 0
  BY <1>1 DEF OneRowPerId
<1>3. /\ \A s \in Seeders : seeder[s] = NoSeeding
      /\ \A e \in Embedders : embedder[e] = NoRun
      /\ seeder \in [Seeders -> Job] /\ embedder \in [Embedders -> Run]
  BY Nobody DEF Init
<1>4. TypeOK
  <2>1. seedings \in 0..MaxSeedings /\ runs \in 0..MaxRuns /\ again \in BOOLEAN /\ broken \subseteq Nat /\ shared \subseteq Nat
    <3>1. 0 \in 0..MaxSeedings /\ 0 \in 0..MaxRuns
      BY BoundAssumption
    <3>. QED
      BY <3>1 DEF Init
  <2>. QED
    BY <1>2, <1>3, <2>1 DEF TypeOK, OneRowPerId, Job, Run
<1>5. RowsOK
  BY <1>2 DEF RowsOK, Part
<1>6. \A e \in Embedders : HeldOK(embedder[e]) /\ PartsOK(embedder[e])
  BY <1>2, <1>3, Nobody DEF HeldOK, PartsOK, Part
<1>7. SharedOK
  BY <1>3, Nobody DEF SharedOK, Holds
<1>8. \A s \in Seeders : SeedingOK(seeder[s])
  BY <1>3, Nobody DEF SeedingOK
<1>. QED
  BY <1>4, <1>5, <1>6, <1>7, <1>8 DEF KInv

-----------------------------------------------------------------------------
(* What new rows of whole entries, and the loss of old ones, leave alone. *)
LEMMA Replaced ==
  ASSUME KInv, NEW n \in Nat, NEW gone, NEW fresh \in SUBSET Row,
         table' = (table \ gone) \union fresh, created' = created + n, UNCHANGED <<embedder, shared>>,
         \A r \in fresh : r.id \in (created + 1)..(created + n) /\ r.of = r.id /\ r.chunk = 0,
         \A a, b \in fresh : a.id = b.id => a = b
  PROVE  /\ OneRowPerId' /\ RowsOK' /\ SharedOK' /\ table' \subseteq Row /\ created' \in Nat
         /\ \A e \in Embedders : HeldOK(embedder[e])' /\ PartsOK(embedder[e])'
<1>1. /\ table \subseteq Row /\ created \in Nat /\ OneRowPerId /\ embedder \in [Embedders -> Run] /\ RowsOK
      /\ \A e \in Embedders : HeldOK(embedder[e]) /\ PartsOK(embedder[e])
  BY Types DEF KInv
<1>2. \A r \in table : r.id \in 1..created /\ r.of \in 1..created
  BY <1>1 DEF RowsOK
<1>3. \A r \in table' : \/ r \in table /\ r.id \in 1..created /\ r.of \in 1..created
                        \/ r \in fresh /\ r.id \in (created + 1)..(created + n) /\ r.of = r.id /\ r.chunk = 0
  BY <1>2
<1>4. OneRowPerId'
  BY <1>1, <1>3 DEF OneRowPerId
<1>5. RowsOK'
  <2>1. ASSUME NEW r \in table'
        PROVE  /\ r.id \in 1..(created + n) /\ r.of \in 1..(created + n)
               /\ IF Part(r) THEN r.embedded ELSE r.of = r.id
               /\ ~r.embedded => r.chunk = 0
    BY <1>1, <1>3 DEF RowsOK, Part
  <2>2. ASSUME NEW r \in table', NEW part \in table', Part(part), part.of = r.id PROVE r.embedded
    <3>1. part \in table /\ part.of \in 1..created
      BY <1>3, <2>2 DEF Part
    <3>2. r \in table
      BY <1>1, <1>3, <2>2, <3>1
    <3>. QED
      BY <1>1, <2>2, <3>1, <3>2 DEF RowsOK
  <2>. QED
    BY <2>1, <2>2 DEF RowsOK, Part
<1>6. ASSUME NEW run \in Run, HeldOK(run), PartsOK(run) PROVE HeldOK(run)' /\ PartsOK(run)'
  <2>1. \A x \in run.todo \union {run.row} : x.id \in 0..created
    BY <1>1, <1>6, Nobody DEF HeldOK
  <2>2. \A x \in run.todo \union {run.row}, r \in table' : r.id = x.id => r \in table
    BY <1>1, <1>3, <2>1
  <2>3. HeldOK(run)'
    <3>1. (\A x \in run.todo : x.id \in 1..created') /\ (run.row.id \in 1..created => run.row.id \in 1..created')
      BY <1>1, <1>6 DEF HeldOK
    <3>. QED
      BY <1>6, <2>2, <3>1 DEF HeldOK, Part
  <2>4. PartsOK(run)'
    BY <1>3, <1>6 DEF PartsOK, Part
  <2>. QED
    BY <2>3, <2>4
<1>7. ASSUME NEW e \in Embedders PROVE HeldOK(embedder[e])' /\ PartsOK(embedder[e])'
  <2>1. PICK run \in Run : run = embedder[e] /\ run = embedder'[e]
    BY <1>1
  <2>2. HeldOK(run)' /\ PartsOK(run)'
    BY <1>1, <1>6, <2>1
  <2>. QED
    BY <2>1, <2>2 DEF HeldOK, PartsOK
<1>8. SharedOK'
  <2>1. \A e \in Embedders, i \in 1..(created + n) : Holds(e, i) => i \in 1..created
    <3>1. ASSUME NEW e \in Embedders, NEW i \in 1..(created + n), Holds(e, i) PROVE i \in 1..created
      <4>1. \A x \in embedder[e].todo \union {embedder[e].row} : x.id \in 0..created
        BY <1>1, Nobody DEF HeldOK
      <4>. QED
        BY <1>1, <3>1, <4>1 DEF Holds
    <3>. QED
      BY <3>1
  <2>. QED
    BY <2>1 DEF KInv, SharedOK, Holds
<1>. QED
  BY <1>1, <1>4, <1>5, <1>7, <1>8

LEMMA SeedBeginKeeps == ASSUME KInv, NEW s \in Seeders, NEW clear \in BOOLEAN, SeedBegin(s, clear) PROVE KInv'
<1>1. PICK doomed \in SUBSET Row : doomed = IF clear THEN table ELSE {}
  BY Types DEF KInv
<1>2. PICK j : j = [open |-> TRUE, clear |-> clear, doomed |-> doomed]
  OBVIOUS
<1>3. j \in Job /\ SeedingOK(j)
  BY <1>1, <1>2 DEF Job, SeedingOK
<1>4. /\ seeder' = [seeder EXCEPT ![s] = j] /\ seedings' = seedings + 1 /\ seedings < MaxSeedings
      /\ UNCHANGED <<table, created, embedder, runs, again, broken, shared>>
  BY <1>1, <1>2 DEF SeedBegin
<1>5. TypeOK'
  <2>1. seedings' \in 0..MaxSeedings
    BY <1>4, Types, BoundAssumption DEF KInv
  <2>. QED
    BY <1>3, <1>4, <2>1 DEF KInv, TypeOK, Job
<1>6. RowsOK' /\ SharedOK' /\ \A e \in Embedders : HeldOK(embedder[e])' /\ PartsOK(embedder[e])'
  BY <1>4 DEF KInv, RowsOK, SharedOK, Holds, HeldOK, PartsOK, Part
<1>7. \A t \in Seeders : SeedingOK(seeder[t])'
  BY <1>3, <1>4, Types DEF KInv, SeedingOK
<1>. QED
  BY <1>5, <1>6, <1>7 DEF KInv

LEMMA SeedAbortsKeeps == ASSUME KInv, NEW s \in Seeders, SeedAborts(s) PROVE KInv'
<1>1. seeder' = [seeder EXCEPT ![s] = NoSeeding] /\ UNCHANGED <<table, created, embedder, seedings, runs, again, broken, shared>>
  BY DEF SeedAborts
<1>2. TypeOK'
  BY <1>1, Nobody DEF KInv, TypeOK, Job
<1>3. RowsOK' /\ SharedOK' /\ \A e \in Embedders : HeldOK(embedder[e])' /\ PartsOK(embedder[e])'
  BY <1>1 DEF KInv, RowsOK, SharedOK, Holds, HeldOK, PartsOK, Part
<1>4. \A t \in Seeders : SeedingOK(seeder[t])'
  BY <1>1, Nobody, Types DEF KInv, SeedingOK
<1>. QED
  BY <1>2, <1>3, <1>4 DEF KInv

LEMMA SeedCommitKeeps == ASSUME KInv, NEW s \in Seeders, NEW embed \in BOOLEAN, SeedCommit(s, embed) PROVE KInv'
<1>1. PICK n \in Nat, fresh \in SUBSET Row :
        /\ n = Cardinality(KB_ENTRIES) /\ fresh = Fresh(KB_ENTRIES, created, embed)
        /\ \A r \in fresh : r.id \in (created + 1)..(created + n) /\ r.of = r.id /\ r.chunk = 0
        /\ \A a, b \in fresh : a.id = b.id => a = b
  <2>1. KB_ENTRIES \in SUBSET Entries /\ IsFiniteSet(KB_ENTRIES) /\ created \in Nat
    BY EntriesAssumption, Types DEF KInv, Entries
  <2>. QED
    BY <2>1, FreshRows
<1>2. /\ table' = (table \ seeder[s].doomed) \union fresh /\ created' = created + n
      /\ seeder' = [seeder EXCEPT ![s] = NoSeeding] /\ again' = (again \/ (~seeder[s].clear /\ table # {}))
      /\ \A t \in Seeders \ {s} : ~seeder[t].open
      /\ UNCHANGED <<embedder, seedings, runs, broken, shared>>
  BY <1>1 DEF SeedCommit, InTheWay
<1>3. /\ OneRowPerId' /\ RowsOK' /\ SharedOK' /\ table' \subseteq Row /\ created' \in Nat
      /\ \A e \in Embedders : HeldOK(embedder[e])' /\ PartsOK(embedder[e])'
  BY <1>1, <1>2, Replaced
<1>4. TypeOK'
  <2>1. seeder' \in [Seeders -> Job] /\ again' \in BOOLEAN
    BY <1>2, Nobody, Types DEF KInv
  <2>. QED
    BY <1>2, <1>3, <2>1 DEF KInv, TypeOK, OneRowPerId, Job
<1>5. \A t \in Seeders : SeedingOK(seeder[t])'
  <2>1. \A t \in Seeders : ~seeder'[t].open /\ seeder'[t].doomed = {}
    BY <1>2, Nobody, Types DEF KInv, SeedingOK
  <2>. QED
    BY <2>1 DEF SeedingOK
<1>. QED
  BY <1>3, <1>4, <1>5 DEF KInv

LEMMA SeedSqlKeeps == ASSUME KInv, SeedSql PROVE KInv'
<1>0. PICK embed \in BOOLEAN : embed = FALSE
  OBVIOUS
<1>1. PICK n \in Nat, fresh \in SUBSET Row :
        /\ n = Cardinality(SqlEntries) /\ fresh = Fresh(SqlEntries, created, embed)
        /\ \A r \in fresh : r.id \in (created + 1)..(created + n) /\ r.of = r.id /\ r.chunk = 0
        /\ \A a, b \in fresh : a.id = b.id => a = b
  <2>1. SqlEntries \in SUBSET Entries /\ IsFiniteSet(SqlEntries) /\ created \in Nat
    BY EntriesAssumption, Types DEF KInv, Entries
  <2>. QED
    BY <2>1, FreshRows
<1>2. /\ table' = (table \ {}) \union fresh /\ table \subseteq table' /\ created' = created + n
      /\ again' = (again \/ table # {} \/ \E s \in Seeders : seeder[s].open) /\ seedings' = seedings + 1 /\ seedings < MaxSeedings
      /\ UNCHANGED <<seeder, embedder, runs, broken, shared>>
  BY <1>0, <1>1 DEF SeedSql
<1>3. /\ OneRowPerId' /\ RowsOK' /\ SharedOK' /\ table' \subseteq Row /\ created' \in Nat
      /\ \A e \in Embedders : HeldOK(embedder[e])' /\ PartsOK(embedder[e])'
  BY <1>1, <1>2, Replaced
<1>4. TypeOK'
  <2>1. seedings' \in 0..MaxSeedings /\ again' \in BOOLEAN
    BY <1>2, Types, BoundAssumption DEF KInv
  <2>. QED
    BY <1>2, <1>3, <2>1 DEF KInv, TypeOK, OneRowPerId
<1>5. ASSUME NEW t \in Seeders PROVE SeedingOK(seeder[t])'
  <2>1. PICK j \in Job : j = seeder[t] /\ j = seeder'[t] /\ SeedingOK(j)
    BY <1>2, Types DEF KInv
  <2>2. ASSUME NEW part \in j.doomed, NEW row \in table', row.id = part.of PROVE row \in j.doomed
    <3>1. part.of \in 1..created /\ created \in Nat
      BY <2>1, Types DEF KInv, RowsOK, SeedingOK
    <3>2. row \in table
      <4>1. \A r \in fresh : r.id > created
        BY <1>1, <3>1
      <4>. QED
        BY <1>2, <2>2, <3>1, <4>1
    <3>. QED
      BY <2>1, <2>2, <3>2 DEF SeedingOK
  <2>3. j.open => again'
    BY <1>2, <2>1
  <2>4. SeedingOK(j)'
    BY <1>2, <2>1, <2>2, <2>3 DEF SeedingOK
  <2>. QED
    BY <2>1, <2>4 DEF SeedingOK
<1>. QED
  BY <1>3, <1>4, <1>5 DEF KInv

-----------------------------------------------------------------------------
(* A step of one run that leaves the table alone. *)
LEMMA RunStep ==
  ASSUME KInv, NEW e \in Embedders, NEW run \in Run, embedder' = [embedder EXCEPT ![e] = run],
         UNCHANGED <<table, created, seeder, seedings, again>>, runs' \in 0..MaxRuns, broken' \subseteq Nat,
         shared \subseteq shared', shared' \subseteq Nat, HeldOK(run), PartsOK(run)',
         \A d \in Embedders \ {e}, i \in 1..created : (Holds(d, i) /\ HoldsIn(run, i)) => i \in shared'
  PROVE  KInv'
<1>1. embedder' \in [Embedders -> Run] /\ \A d \in Embedders : embedder'[d] = IF d = e THEN run ELSE embedder[d]
  BY Types DEF KInv
<1>2. TypeOK'
  BY <1>1 DEF KInv, TypeOK, Run
<1>3. RowsOK' /\ \A s \in Seeders : SeedingOK(seeder[s])'
  BY DEF KInv, RowsOK, SeedingOK
<1>4. ASSUME NEW d \in Embedders PROVE HeldOK(embedder[d])' /\ PartsOK(embedder[d])'
  <2>1. PICK r \in Run : r = embedder'[d] /\ HeldOK(r) /\ PartsOK(r)'
    <3>1. CASE d = e
      BY <1>1, <3>1
    <3>2. CASE d # e
      <4>1. PICK r \in Run : r = embedder[d] /\ r = embedder'[d] /\ HeldOK(r) /\ PartsOK(r)
        BY <1>1, <3>2, Types DEF KInv
      <4>2. PartsOK(r)'
        BY <4>1 DEF PartsOK
      <4>. QED
        BY <4>1, <4>2
    <3>. QED
      BY <3>1, <3>2
  <2>2. HeldOK(r)'
    BY <2>1 DEF HeldOK
  <2>. QED
    BY <2>1, <2>2 DEF HeldOK, PartsOK
<1>5. SharedOK'
  <2>1. \A d \in Embedders : \A i : Holds(d, i)' <=> IF d = e THEN HoldsIn(run, i) ELSE Holds(d, i)
    BY <1>1 DEF Holds, HoldsIn
  <2>2. SharedOK
    BY DEF KInv
  <2>. QED
    BY <2>1, <2>2 DEF SharedOK
<1>. QED
  BY <1>2, <1>3, <1>4, <1>5 DEF KInv

(* A run that lets go of everything. *)
LEMMA Released == KInv => HeldOK(NoRun) /\ PartsOK(NoRun) /\ \A i \in 1..created : ~HoldsIn(NoRun, i)
BY Nobody, Types DEF KInv, RowsOK, HeldOK, PartsOK, HoldsIn

LEMMA EmbedBreaksKeeps == ASSUME KInv, NEW e \in Embedders, EmbedBreaks(e) PROVE KInv'
<1>1. embedder[e].row.id \in Nat
  BY Types DEF KInv, Run
<1>2. /\ embedder' = [embedder EXCEPT ![e] = NoRun]
      /\ UNCHANGED <<table, created, seeder, seedings, runs, again, shared>>
      /\ broken' \subseteq Nat /\ runs' \in 0..MaxRuns /\ shared' \subseteq Nat
  BY <1>1, Types DEF KInv, EmbedBreaks
<1>3. PartsOK(NoRun)'
  BY <1>2, Released DEF PartsOK
<1>. QED
  BY <1>2, <1>3, Nobody, Released, RunStep

LEMMA EmbedBeginKeeps == ASSUME KInv, NEW e \in Embedders, EmbedBegin(e) PROVE KInv'
<1>1. PICK todo \in SUBSET Row : todo = Unembedded /\ \A x \in todo : x \in table /\ ~x.embedded
  <2>1. table \subseteq Row
    BY Types DEF KInv
  <2>2. Unembedded \in SUBSET Row /\ \A x \in Unembedded : x \in table /\ ~x.embedded
    BY <2>1 DEF Unembedded
  <2>. QED
    BY <2>2
<1>2. PICK run : run = [NoRun EXCEPT !.on = TRUE, !.todo = todo]
  OBVIOUS
<1>3. run = [on |-> TRUE, todo |-> todo, row |-> NoRow, chunk |-> 0, waits |-> FALSE]
  BY <1>2 DEF NoRun
<1>4. run \in Run /\ run.on /\ run.todo = todo /\ run.row = NoRow /\ run.chunk = 0
  BY <1>3, Nobody DEF Run
<1>5. PICK news \in SUBSET Nat : news = {row.id : row \in {x \in todo : \E d \in Embedders : Holds(d, x.id)}}
  BY Types DEF KInv
<1>6. /\ embedder' = [embedder EXCEPT ![e] = run] /\ shared' = shared \union news /\ runs' = runs + 1 /\ runs < MaxRuns
      /\ UNCHANGED <<table, created, seeder, seedings, again, broken>>
  BY <1>1, <1>2, <1>5 DEF EmbedBegin
<1>7. runs' \in 0..MaxRuns /\ broken' \subseteq Nat /\ shared' \subseteq Nat
  <2>1. runs' \in 0..MaxRuns
    BY <1>6, Types, BoundAssumption DEF KInv
  <2>2. shared' \subseteq Nat
    BY <1>6, Types DEF KInv
  <2>. QED
    BY <1>6, <2>1, <2>2, Types DEF KInv
<1>8. /\ \A r \in table : r.id \in 1..created /\ r.of \in 1..created /\ (~r.embedded => r.chunk = 0)
      /\ \A a, b \in table : a.id = b.id => a = b
      /\ \A r, part \in table : (Part(part) /\ part.of = r.id) => r.embedded
  BY Types DEF KInv, RowsOK, OneRowPerId
<1>9. HeldOK(run)
  BY <1>1, <1>4, <1>8, Nobody DEF HeldOK, Part
<1>10. PartsOK(run)'
  <2>1. \A part \in table, x \in todo : (Part(part) /\ x.id = part.of) => FALSE
    BY <1>1, <1>8
  <2>2. \A part \in table : part.of # 0
    BY <1>8
  <2>. QED
    BY <1>4, <1>6, <2>1, <2>2, Nobody DEF PartsOK
<1>11. ASSUME NEW d \in Embedders \ {e}, NEW i \in 1..created, Holds(d, i), HoldsIn(run, i) PROVE i \in shared'
  <2>1. PICK x \in todo : x.id = i
    BY <1>4, <1>11, Nobody DEF HoldsIn
  <2>2. i \in news
    BY <1>5, <1>11, <2>1
  <2>. QED
    BY <1>6, <2>2
<1>. QED
  BY <1>4, <1>6, <1>7, <1>9, <1>10, <1>11, RunStep

LEMMA EmbedPickKeeps == ASSUME KInv, NEW e \in Embedders, NEW row \in embedder[e].todo, EmbedPick(e, row) PROVE KInv'
<1>1. PICK old \in Run : old = embedder[e] /\ HeldOK(old) /\ PartsOK(old) /\ old.row = NoRow /\ row \in old.todo
  BY Types DEF KInv, EmbedPick
<1>2. PICK todo \in SUBSET Row : todo = old.todo \ {row}
  BY DEF Run
<1>3. PICK run : run = [on |-> old.on, todo |-> todo, row |-> row, chunk |-> 1, waits |-> old.waits]
  OBVIOUS
<1>4. run \in Run /\ run.todo = todo /\ run.row = row /\ run.chunk = 1 /\ run.on
  BY <1>1, <1>3 DEF Run, HeldOK
<1>5. embedder' = [embedder EXCEPT ![e].todo = todo, ![e].row = row, ![e].chunk = 1]
  BY <1>1, <1>2 DEF EmbedPick
<1>6. embedder' = [embedder EXCEPT ![e] = run] /\ UNCHANGED <<table, created, seeder, seedings, runs, again, broken, shared>>
  <2>1. embedder'[e] = run
    BY <1>1, <1>3, <1>5, Types DEF KInv, Run
  <2>. QED
    BY <1>5, <2>1, Types DEF KInv, EmbedPick
<1>7. HeldOK(run)
  BY <1>1, <1>2, <1>4 DEF HeldOK
<1>8. PartsOK(run)'
  BY <1>1, <1>2, <1>4, <1>6 DEF PartsOK
<1>9. \A i : HoldsIn(run, i) => Holds(e, i)
  BY <1>1, <1>2, <1>4 DEF HoldsIn, Holds
<1>10. runs' \in 0..MaxRuns /\ broken' \subseteq Nat /\ shared' \subseteq Nat
  BY <1>6, Types DEF KInv
<1>. QED
  BY <1>4, <1>6, <1>7, <1>8, <1>9, <1>10, RunStep DEF KInv, SharedOK

LEMMA EmbedWaitsKeeps == ASSUME KInv, NEW e \in Embedders, EmbedWaits(e) PROVE KInv'
<1>1. PICK old \in Run : old = embedder[e] /\ HeldOK(old) /\ PartsOK(old)
  BY Types DEF KInv
<1>2. PICK run : run = [old EXCEPT !.waits = TRUE]
  OBVIOUS
<1>3. run \in Run /\ run.on = old.on /\ run.todo = old.todo /\ run.row = old.row /\ run.chunk = old.chunk
  BY <1>1, <1>2 DEF Run
<1>4. embedder' = [embedder EXCEPT ![e] = run] /\ UNCHANGED <<table, created, seeder, seedings, runs, again, broken, shared>>
  BY <1>1, <1>2 DEF EmbedWaits
<1>5. HeldOK(run) /\ PartsOK(run)'
  BY <1>1, <1>3, <1>4 DEF HeldOK, PartsOK
<1>6. \A i : HoldsIn(run, i) => Holds(e, i)
  BY <1>1, <1>3 DEF HoldsIn, Holds
<1>7. runs' \in 0..MaxRuns /\ broken' \subseteq Nat /\ shared' \subseteq Nat
  BY <1>4, Types DEF KInv
<1>. QED
  BY <1>3, <1>4, <1>5, <1>6, <1>7, RunStep DEF KInv, SharedOK

(* Where a run goes on after a chunk: to the next one, or to no row. *)
LEMMA Onwards ==
  ASSUME NEW run \in Run
  PROVE  /\ Onward(run) \in Run /\ Onward(run).todo = run.todo /\ (run.on => (Onward(run).on \/ run.todo = {}))
         /\ \/ Onward(run).row = run.row /\ Onward(run).chunk = run.chunk + 1 /\ run.chunk < Chunks(run.row.entry)
            \/ Onward(run).row = NoRow /\ Onward(run).chunk = 0 /\ ~(run.chunk < Chunks(run.row.entry))
         /\ Onward(run).chunk # 0 => Onward(run).on = run.on
<1>1. CASE run.chunk < Chunks(run.row.entry)
  <2>1. PICK n \in Nat : n = run.chunk + 1
    BY DEF Run
  <2>2. Onward(run) = [on |-> run.on, todo |-> run.todo, row |-> run.row, chunk |-> n, waits |-> FALSE]
    BY <1>1, <2>1 DEF Onward, Run
  <2>. QED
    BY <1>1, <2>1, <2>2 DEF Run
<1>2. CASE ~(run.chunk < Chunks(run.row.entry))
  <2>1. PICK on \in BOOLEAN : on = (run.todo # {})
    OBVIOUS
  <2>2. Onward(run) = [on |-> on, todo |-> run.todo, row |-> NoRow, chunk |-> 0, waits |-> FALSE]
    BY <1>2, <2>1 DEF Onward, Run
  <2>3. Onward(run) \in Run /\ Onward(run).chunk = 0 /\ Onward(run).row = NoRow /\ Onward(run).todo = run.todo
    BY <2>2, Nobody DEF Run
  <2>4. Onward(run).on \/ run.todo = {}
    <3>1. Onward(run).on = on
      BY <2>2
    <3>. QED
      BY <2>1, <3>1
  <2>. QED
    BY <1>2, <2>3, <2>4
<1>. QED
  BY <1>1, <1>2

LEMMA FirstChunks ==
  ASSUME NEW r \in Row
  PROVE  /\ FirstChunk(r) \in Row /\ FirstChunk(r).id = r.id /\ FirstChunk(r).entry = r.entry /\ FirstChunk(r).of = r.of
         /\ FirstChunk(r).embedded /\ FirstChunk(r).chunk = (IF Chunks(r.entry) = 1 THEN 0 ELSE 1)
<1>1. PICK n \in {0, 1} : n = IF Chunks(r.entry) = 1 THEN 0 ELSE 1
  OBVIOUS
<1>2. PICK yes \in BOOLEAN : yes = TRUE
  OBVIOUS
<1>3. PICK q : q = [r EXCEPT !.embedded = yes, !.chunk = n]
  OBVIOUS
<1>4. q = FirstChunk(r)
  BY <1>1, <1>2, <1>3 DEF FirstChunk
<1>5. [r EXCEPT !.embedded = yes] \in Row
  BY DEF Row
<1>6. q \in Row /\ q.id = r.id /\ q.entry = r.entry /\ q.of = r.of /\ q.embedded = yes /\ q.chunk = n
  BY <1>1, <1>3, <1>5 DEF Row
<1>. QED
  BY <1>1, <1>2, <1>4, <1>6

(* The first chunk: no row changes but the one that is cut. *)
LEMMA Cut ==
  ASSUME KInv, NEW e \in Embedders, EmbedFirst(e), NEW run, run = embedder[e]
  PROVE  /\ run \in Run /\ HeldOK(run) /\ PartsOK(run) /\ run.chunk = 1 /\ run.row.id \in 1..created
         /\ \A s \in Seeders : \A r \in seeder[s].doomed : r.id # run.row.id
         /\ \A q \in table' : \E r \in table :
              /\ r.id = q.id /\ r.entry = q.entry /\ r.of = q.of /\ (Part(q) <=> Part(r))
              /\ IF r.id = run.row.id
                   THEN q.embedded /\ q.chunk = (IF Chunks(r.entry) = 1 THEN 0 ELSE 1) /\ q = FirstChunk(r)
                   ELSE q = r
         /\ \A r \in table : (IF r.id = run.row.id THEN FirstChunk(r) ELSE r) \in table'
         /\ embedder' = [embedder EXCEPT ![e] = Onward(run)] /\ table' \subseteq Row
         /\ UNCHANGED <<created, seeder, seedings, runs, again, broken, shared>>
<1>1. run \in Run /\ HeldOK(run) /\ PartsOK(run) /\ run.chunk = 1 /\ run.row.id \in 1..created /\ table \subseteq Row
  BY Types DEF KInv, EmbedFirst, HeldOK
<1>2. /\ table' = {IF r.id = run.row.id THEN FirstChunk(r) ELSE r : r \in table} /\ ~Doomed(run.row.id)
      /\ embedder' = [embedder EXCEPT ![e] = Onward(run)]
      /\ UNCHANGED <<created, seeder, seedings, runs, again, broken, shared>>
  BY DEF EmbedFirst
<1>3. \A r \in table : r.id = run.row.id => ~Part(r)
  BY <1>1 DEF HeldOK
<1>4. ASSUME NEW q \in table'
      PROVE  q \in Row /\ \E r \in table :
              /\ r.id = q.id /\ r.entry = q.entry /\ r.of = q.of /\ (Part(q) <=> Part(r))
              /\ IF r.id = run.row.id
                   THEN q.embedded /\ q.chunk = (IF Chunks(r.entry) = 1 THEN 0 ELSE 1) /\ q = FirstChunk(r)
                   ELSE q = r
  <2>1. PICK r \in table : q = IF r.id = run.row.id THEN FirstChunk(r) ELSE r
    BY <1>2
  <2>2. r \in Row
    BY <1>1
  <2>3. CASE r.id = run.row.id
    <3>1. q = FirstChunk(r) /\ q \in Row /\ q.id = r.id /\ q.entry = r.entry /\ q.of = r.of /\ q.embedded
      BY <2>1, <2>2, <2>3, FirstChunks
    <3>2. q.chunk = (IF Chunks(r.entry) = 1 THEN 0 ELSE 1)
      BY <2>2, <3>1, FirstChunks
    <3>3. ~Part(q) /\ ~Part(r)
      BY <1>3, <2>3, <3>2 DEF Part
    <3>. QED
      BY <2>3, <3>1, <3>2, <3>3
  <2>4. CASE r.id # run.row.id
    BY <2>1, <2>2, <2>4
  <2>. QED
    BY <2>3, <2>4
<1>5. \A r \in table : (IF r.id = run.row.id THEN FirstChunk(r) ELSE r) \in table'
  BY <1>2
<1>6. \A s \in Seeders : \A r \in seeder[s].doomed : r.id # run.row.id
  BY <1>2 DEF Doomed
<1>. QED
  BY <1>1, <1>2, <1>4, <1>5, <1>6

LEMMA EmbedFirstKeeps == ASSUME KInv, NEW e \in Embedders, EmbedFirst(e) PROVE KInv'
<1>1. PICK run : run = embedder[e]
  OBVIOUS
<1>2. /\ run \in Run /\ HeldOK(run) /\ PartsOK(run) /\ run.chunk = 1 /\ run.row.id \in 1..created
      /\ \A s \in Seeders : \A r \in seeder[s].doomed : r.id # run.row.id
      /\ \A r \in table : (IF r.id = run.row.id THEN FirstChunk(r) ELSE r) \in table'
      /\ embedder' = [embedder EXCEPT ![e] = Onward(run)] /\ table' \subseteq Row
      /\ UNCHANGED <<created, seeder, seedings, runs, again, broken, shared>>
  BY <1>1, Cut
<1>3. ASSUME NEW q \in table'
      PROVE  \E r \in table :
              /\ r.id = q.id /\ r.entry = q.entry /\ r.of = q.of /\ (Part(q) <=> Part(r))
              /\ IF r.id = run.row.id
                   THEN q.embedded /\ q.chunk = (IF Chunks(r.entry) = 1 THEN 0 ELSE 1) /\ q = FirstChunk(r)
                   ELSE q = r
  BY <1>1, Cut
<1>4. /\ \A a, b \in table : a.id = b.id => a = b
      /\ RowsOK /\ table \subseteq Row
  BY Types DEF KInv, OneRowPerId
<1>5. PICK next \in Run : /\ next = Onward(run) /\ next.todo = run.todo /\ (run.on => (next.on \/ run.todo = {}))
                          /\ next.chunk # 0 => next.on = run.on
                          /\ \/ next.row = run.row /\ next.chunk = 2
                             \/ next.row = NoRow /\ next.chunk = 0
  BY <1>2, Onwards
<1>6. OneRowPerId'
  BY <1>3, <1>4 DEF OneRowPerId
<1>7. RowsOK'
  <2>1. ASSUME NEW q \in table'
        PROVE  /\ q.id \in 1..created /\ q.of \in 1..created
               /\ IF Part(q) THEN q.embedded ELSE q.of = q.id
               /\ ~q.embedded => q.chunk = 0
    BY <1>3, <1>4 DEF RowsOK
  <2>2. ASSUME NEW q \in table', NEW part \in table', Part(part), part.of = q.id PROVE q.embedded
    <3>1. PICK r \in table : r.id = q.id /\ (q.embedded \/ q = r)
      BY <1>3
    <3>2. PICK p \in table : p.of = part.of /\ Part(p)
      BY <1>3, <2>2
    <3>. QED
      BY <1>4, <2>2, <3>1, <3>2 DEF RowsOK
  <2>. QED
    BY <1>2, <2>1, <2>2 DEF RowsOK, Part
<1>8. ASSUME NEW k \in Run, HeldOK(k), PartsOK(k) PROVE HeldOK(k)' /\ PartsOK(k)'
  <2>1. ASSUME NEW x \in k.todo \union {k.row}, NEW q \in table', q.id = x.id PROVE ~Part(q) /\ q.entry = x.entry
    BY <1>3, <1>8, <2>1 DEF HeldOK
  <2>2. ASSUME k.chunk > 1, NEW q \in table', q.id = k.row.id PROVE q.embedded
    <3>1. PICK r \in table : r.id = q.id /\ (q.embedded \/ q = r)
      BY <1>3
    <3>. QED
      BY <1>8, <2>2, <3>1 DEF HeldOK
  <2>3. HeldOK(k)'
    BY <1>2, <1>8, <2>1, <2>2 DEF HeldOK, Part
  <2>4. ASSUME NEW part \in table', Part(part) PROVE part \in table
    <3>1. PICK r \in table : Part(r) /\ (part = r \/ r.id = run.row.id)
      BY <1>3, <2>4
    <3>. QED
      BY <1>2, <3>1 DEF HeldOK
  <2>5. PartsOK(k)'
    BY <1>2, <1>8, <2>4 DEF PartsOK, Part
  <2>. QED
    BY <2>3, <2>5
<1>9. HeldOK(next)' /\ PartsOK(next)'
  <2>1. HeldOK(run)' /\ PartsOK(run)'
    BY <1>2, <1>8
  <2>2. \A q \in table' : q.id = run.row.id => q.embedded
    BY <1>3
  <2>3. HeldOK(next)'
    <3>1. CASE next.row = run.row /\ next.chunk = 2
      BY <1>2, <1>5, <2>1, <2>2, <3>1 DEF HeldOK
    <3>2. CASE next.row = NoRow /\ next.chunk = 0
      <4>1. \A q \in table' : q.id # 0
        BY <1>2, <1>7 DEF RowsOK
      <4>2. \A x \in run.todo : x.id \in 1..created' /\ x.id # 0
        BY <2>1 DEF HeldOK
      <4>. QED
        BY <1>5, <2>1, <3>2, <4>1, <4>2, Nobody DEF HeldOK
    <3>. QED
      BY <1>5, <3>1, <3>2
  <2>4. PartsOK(next)'
    <3>1. CASE next.row = run.row /\ next.chunk = 2
      BY <1>2, <1>5, <2>1, <3>1 DEF PartsOK, Part, Row
    <3>2. CASE next.row = NoRow /\ next.chunk = 0
      <4>1. \A q \in table' : q.of # 0
        BY <1>2, <1>7 DEF RowsOK
      <4>. QED
        BY <1>5, <2>1, <3>2, <4>1, Nobody DEF PartsOK
    <3>. QED
      BY <1>5, <3>1, <3>2
  <2>. QED
    BY <2>3, <2>4
<1>10. embedder' \in [Embedders -> Run] /\ \A d \in Embedders : embedder'[d] = IF d = e THEN next ELSE embedder[d]
  BY <1>2, <1>5, Types DEF KInv
<1>11. ASSUME NEW d \in Embedders PROVE HeldOK(embedder[d])' /\ PartsOK(embedder[d])'
  <2>1. PICK k \in Run : k = embedder'[d] /\ HeldOK(k)' /\ PartsOK(k)'
    BY <1>8, <1>9, <1>10, Types DEF KInv
  <2>. QED
    BY <2>1 DEF HeldOK, PartsOK
<1>12. TypeOK'
  BY <1>2, <1>6, <1>10 DEF KInv, TypeOK, OneRowPerId, Run
<1>13. SharedOK'
  <2>1. ASSUME NEW d \in Embedders, NEW i \in 1..created, Holds(d, i)' PROVE Holds(d, i)
    <3>1. i # 0
      BY <2>1
    <3>. QED
      BY <1>1, <1>5, <1>10, <2>1, <3>1, Nobody DEF Holds
  <2>. QED
    BY <1>2, <2>1 DEF KInv, SharedOK
<1>14. ASSUME NEW t \in Seeders PROVE SeedingOK(seeder[t])'
  <2>1. PICK j \in Job : /\ j = seeder[t] /\ j = seeder'[t] /\ SeedingOK(j) /\ \A r \in j.doomed : r.id # run.row.id
    BY <1>2, Types DEF KInv
  <2>2. j.doomed \subseteq table'
    BY <1>2, <2>1 DEF SeedingOK
  <2>3. ASSUME table = j.doomed PROVE table' = j.doomed
    BY <1>3, <2>1, <2>2, <2>3
  <2>4. ASSUME NEW part \in j.doomed, NEW q \in table', q.id = part.of PROVE q \in j.doomed
    <3>1. PICK r \in table : r.id = q.id /\ (r.id # run.row.id => q = r)
      BY <1>3
    <3>2. r \in j.doomed
      BY <2>1, <2>4, <3>1 DEF SeedingOK
    <3>. QED
      BY <2>1, <3>1, <3>2
  <2>5. SeedingOK(j)'
    BY <1>2, <2>1, <2>2, <2>3, <2>4 DEF SeedingOK
  <2>. QED
    BY <2>1, <2>5 DEF SeedingOK
<1>. QED
  BY <1>7, <1>11, <1>12, <1>13, <1>14 DEF KInv

(* A later chunk: one more row, if the first is there. *)
LEMMA Inserted ==
  ASSUME KInv, NEW e \in Embedders, EmbedMore(e), NEW run, run = embedder[e]
  PROVE  /\ run \in Run /\ HeldOK(run) /\ PartsOK(run) /\ run.chunk > 1 /\ run.row.id \in 1..created
         /\ embedder' = [embedder EXCEPT ![e] = Onward(run)] /\ UNCHANGED <<seeder, seedings, runs, broken, shared>>
         /\ again \in BOOLEAN /\ again' = (again \/ Doomed(run.row.id))
         /\ \/ /\ \A r \in table : r.id # run.row.id
               /\ UNCHANGED <<table, created>>
            \/ \E r \in table, p \in Row :
                 /\ r.id = run.row.id /\ r.of = r.id /\ r.entry = run.row.entry /\ r.embedded /\ ~Part(r)
                 /\ p.id = created + 1 /\ p.entry = r.entry /\ p.chunk = run.chunk /\ p.of = r.id /\ p.embedded
                 /\ table' = table \union {p} /\ created' = created + 1
<1>1. /\ run \in Run /\ HeldOK(run) /\ PartsOK(run) /\ run.chunk > 1 /\ run.row.id \in 1..created
      /\ table \subseteq Row /\ RowsOK /\ OneRowPerId /\ created \in Nat
  BY Types DEF KInv, EmbedMore, HeldOK
<1>2. PICK sources : sources = {r \in table : r.id = run.row.id}
  OBVIOUS
<1>3. /\ table' = table \union {[id |-> created + 1, entry |-> r.entry, chunk |-> run.chunk,
                                 of |-> r.of, embedded |-> TRUE] : r \in sources}
      /\ created' = created + Cardinality(sources)
      /\ embedder' = [embedder EXCEPT ![e] = Onward(run)] /\ UNCHANGED <<seeder, seedings, runs, broken, shared>>
      /\ again' = (again \/ Doomed(run.row.id))
  BY <1>2 DEF EmbedMore
<1>4. CASE sources = {}
  <2>1. Cardinality(sources) = 0
    BY <1>4, FS_EmptySet
  <2>2. table' = table /\ created' = created /\ \A r \in table : r.id # run.row.id
    BY <1>1, <1>2, <1>3, <1>4, <2>1
  <2>. QED
    BY <1>1, <1>3, <2>2, Types DEF KInv
<1>5. CASE sources # {}
  <2>1. PICK r \in table : r.id = run.row.id /\ r \in sources
    BY <1>2, <1>5
  <2>2. sources = {r}
    BY <1>1, <1>2, <2>1 DEF OneRowPerId
  <2>3. Cardinality(sources) = 1
    BY <2>2, FS_Singleton
  <2>4. PICK yes \in BOOLEAN : yes = TRUE
    OBVIOUS
  <2>5. PICK id \in Nat : id = created + 1
    BY <1>1
  <2>6. PICK p : p = [id |-> id, entry |-> r.entry, chunk |-> run.chunk, of |-> r.of, embedded |-> yes]
    OBVIOUS
  <2>7. r \in Row /\ r.of = r.id /\ r.entry = run.row.entry /\ r.embedded /\ ~Part(r)
    BY <1>1, <2>1 DEF HeldOK, RowsOK
  <2>8. p \in Row /\ p.id = id /\ p.entry = r.entry /\ p.chunk = run.chunk /\ p.of = r.of /\ p.embedded
    BY <1>1, <2>4, <2>6, <2>7 DEF Row, Run
  <2>9. table' = table \union {p} /\ created' = created + 1
    BY <1>3, <2>2, <2>3, <2>4, <2>5, <2>6
  <2>. QED
    BY <1>1, <1>3, <2>1, <2>5, <2>7, <2>8, <2>9, Types DEF KInv
<1>. QED
  BY <1>4, <1>5

LEMMA EmbedMoreKeeps == ASSUME KInv, NEW e \in Embedders, EmbedMore(e) PROVE KInv'
<1>1. PICK run : run = embedder[e]
  OBVIOUS
<1>2. /\ run \in Run /\ HeldOK(run) /\ PartsOK(run) /\ run.chunk > 1 /\ run.row.id \in 1..created
      /\ embedder' = [embedder EXCEPT ![e] = Onward(run)] /\ UNCHANGED <<seeder, seedings, runs, broken, shared>>
      /\ again' \in BOOLEAN /\ (again => again') /\ (Doomed(run.row.id) => again')
      /\ RowsOK /\ table \subseteq Row /\ created \in Nat /\ \A a, b \in table : a.id = b.id => a = b
  <2>1. /\ run \in Run /\ HeldOK(run) /\ PartsOK(run) /\ run.chunk > 1 /\ run.row.id \in 1..created
        /\ embedder' = [embedder EXCEPT ![e] = Onward(run)] /\ UNCHANGED <<seeder, seedings, runs, broken, shared>>
        /\ again \in BOOLEAN /\ again' = (again \/ Doomed(run.row.id))
    BY <1>1, Inserted
  <2>2. again' \in BOOLEAN /\ (again => again') /\ (Doomed(run.row.id) => again')
    BY <2>1
  <2>3. RowsOK /\ table \subseteq Row /\ created \in Nat /\ \A a, b \in table : a.id = b.id => a = b
    BY Types DEF KInv, OneRowPerId
  <2>. QED
    BY <2>1, <2>2, <2>3
<1>3. PICK new \in SUBSET Row :
        /\ table' = table \union new /\ created' \in Nat /\ created <= created'
        /\ \A p \in new : /\ p.id \in (created + 1)..created' /\ p.of = run.row.id /\ p.chunk = run.chunk /\ p.embedded
                          /\ \E r \in table : r.id = run.row.id /\ r.embedded
        /\ \A p, q \in new : p = q
  <2>1. CASE (\A r \in table : r.id # run.row.id) /\ UNCHANGED <<table, created>>
    <3>1. {} \in SUBSET Row /\ table' = table \union {} /\ created' \in Nat /\ created <= created'
      BY <1>2, <2>1, Inserted, <1>1
    <3>. QED
      BY <3>1
  <2>2. ASSUME NEW r \in table, NEW p \in Row, r.id = run.row.id, r.embedded, p.id = created + 1, p.chunk = run.chunk,
               p.of = r.id, p.embedded, table' = table \union {p}, created' = created + 1
        PROVE  \E new \in SUBSET Row :
                 /\ table' = table \union new /\ created' \in Nat /\ created <= created'
                 /\ \A x \in new : /\ x.id \in (created + 1)..created' /\ x.of = run.row.id /\ x.chunk = run.chunk /\ x.embedded
                                   /\ \E y \in table : y.id = run.row.id /\ y.embedded
                 /\ \A x, y \in new : x = y
    <3>1. PICK new \in SUBSET Row : new = {p}
      OBVIOUS
    <3>2. \A x \in new : /\ x.id \in (created + 1)..created' /\ x.of = run.row.id /\ x.chunk = run.chunk /\ x.embedded
                         /\ \E y \in table : y.id = run.row.id /\ y.embedded
      BY <1>2, <2>2, <3>1
    <3>3. table' = table \union new /\ created' \in Nat /\ created <= created'
      BY <1>2, <2>2, <3>1
    <3>4. \A x, y \in new : x = y
      BY <3>1
    <3>. QED
      BY <3>2, <3>3, <3>4, Zenon
  <2>3. \/ (\A r \in table : r.id # run.row.id) /\ UNCHANGED <<table, created>>
        \/ \E r \in table, p \in Row :
             /\ r.id = run.row.id /\ r.embedded /\ p.id = created + 1 /\ p.chunk = run.chunk
             /\ p.of = r.id /\ p.embedded /\ table' = table \union {p} /\ created' = created + 1
    BY <1>1, Inserted
  <2>. QED
    BY <2>1, <2>2, <2>3
<1>4. PICK next \in Run : /\ next = Onward(run) /\ next.todo = run.todo /\ (run.on => (next.on \/ run.todo = {}))
                          /\ next.chunk # 0 => next.on = run.on
                          /\ \/ next.row = run.row /\ next.chunk = run.chunk + 1
                             \/ next.row = NoRow /\ next.chunk = 0
  BY <1>2, Onwards
<1>5. embedder' \in [Embedders -> Run] /\ \A d \in Embedders : embedder'[d] = IF d = e THEN next ELSE embedder[d]
  BY <1>2, <1>4, Types DEF KInv
<1>6. \A r \in table : r.id \in 1..created /\ r.of \in 1..created
  BY <1>2 DEF RowsOK
<1>7. \A r \in table' : \/ r \in table /\ r.id \in 1..created /\ r.of \in 1..created
                        \/ r \in new /\ r.id > created /\ r.id \in 1..created' /\ Part(r) /\ r.of = run.row.id
  BY <1>2, <1>3, <1>6 DEF Part
<1>8. OneRowPerId'
  BY <1>2, <1>3, <1>7 DEF OneRowPerId
<1>9. RowsOK'
  <2>1. \A r \in 1..created : r \in 1..created'
    BY <1>2, <1>3
  <2>2. ASSUME NEW r \in table'
        PROVE  /\ r.id \in 1..created' /\ r.of \in 1..created'
               /\ IF Part(r) THEN r.embedded ELSE r.of = r.id
               /\ ~r.embedded => r.chunk = 0
    BY <1>2, <1>3, <1>7, <2>1 DEF RowsOK
  <2>3. ASSUME NEW r \in table', NEW part \in table', Part(part), part.of = r.id PROVE r.embedded
    <3>1. CASE r \in new
      BY <1>3, <3>1
    <3>2. CASE r \in table /\ part \in table
      BY <1>2, <2>3, <3>2 DEF RowsOK
    <3>3. CASE r \in table /\ part \in new
      BY <1>2, <1>3, <2>3, <3>3
    <3>. QED
      BY <1>7, <3>1, <3>2, <3>3
  <2>. QED
    BY <2>2, <2>3 DEF RowsOK, Part
<1>10. ASSUME NEW k \in Run, HeldOK(k)
       PROVE  HeldOK(k)' /\ \A x \in k.todo \union {k.row}, r \in table' : r.id = x.id => r \in table
  <2>1. \A x \in k.todo \union {k.row} : x.id \in 0..created
    BY <1>2, <1>10, Nobody DEF HeldOK
  <2>2. \A x \in k.todo \union {k.row}, r \in table' : r.id = x.id => r \in table
    BY <1>2, <1>7, <2>1
  <2>3. (\A x \in k.todo : x.id \in 1..created') /\ (k.row.id \in 1..created => k.row.id \in 1..created')
    BY <1>2, <1>3, <1>10 DEF HeldOK
  <2>4. HeldOK(k)'
    BY <1>10, <2>2, <2>3 DEF HeldOK, Part
  <2>. QED
    BY <2>2, <2>4
<1>11. ASSUME NEW d \in Embedders, d # e, NEW k \in Run, k = embedder[d], PartsOK(k) PROVE PartsOK(k)'
  <2>1. ASSUME (\E x \in k.todo : x.id = run.row.id) \/ k.row.id = run.row.id PROVE run.row.id \in shared
    <3>1. Holds(d, run.row.id) /\ Holds(e, run.row.id)
      BY <1>1, <1>11, <2>1 DEF Holds
    <3>. QED
      BY <1>2, <1>11, <3>1 DEF KInv, SharedOK
  <2>2. ASSUME NEW part \in table', Part(part)
        PROVE  /\ (\E x \in k.todo : x.id = part.of) => part.of \in shared
               /\ (k.row.id = part.of /\ part.chunk >= k.chunk) => part.of \in shared
    <3>1. CASE part \in table
      BY <1>11, <2>2, <3>1 DEF PartsOK
    <3>2. CASE part \in new
      BY <1>3, <2>1, <3>2
    <3>. QED
      BY <1>7, <3>1, <3>2
  <2>. QED
    BY <1>2, <2>2 DEF PartsOK, Part
<1>12. HeldOK(next)' /\ PartsOK(next)'
  <2>1. HeldOK(run)' /\ \A q \in table' : q.id = run.row.id => q \in table
    BY <1>2, <1>10
  <2>2. HeldOK(next)'
    <3>1. CASE next.row = run.row /\ next.chunk = run.chunk + 1
      BY <1>2, <1>4, <2>1, <3>1 DEF HeldOK, Run
    <3>2. CASE next.row = NoRow /\ next.chunk = 0
      <4>1. \A q \in table' : q.id # 0
        BY <1>7
      <4>2. \A x \in run.todo : x.id \in 1..created' /\ x.id # 0
        BY <2>1 DEF HeldOK
      <4>. QED
        BY <1>4, <2>1, <3>2, <4>1, <4>2, Nobody DEF HeldOK
    <3>. QED
      BY <1>4, <3>1, <3>2
  <2>3. ASSUME NEW part \in table', Part(part)
        PROVE  /\ (\E x \in next.todo : x.id = part.of) => part.of \in shared
               /\ (next.row.id = part.of /\ part.chunk >= next.chunk) => part.of \in shared
    <3>1. part.of # 0 /\ part.chunk \in Nat /\ run.chunk \in Nat
      BY <1>2, <1>3, <1>7 DEF Row, Run
    <3>2. CASE part \in table
      BY <1>2, <1>4, <2>3, <3>1, <3>2, Nobody DEF PartsOK
    <3>3. CASE part \in new
      <4>1. part.of = run.row.id /\ part.chunk = run.chunk
        BY <1>3, <3>3
      <4>2. \A x \in next.todo : x.id # part.of
        BY <1>2, <1>4, <4>1 DEF HeldOK
      <4>3. ~(next.row.id = part.of /\ part.chunk >= next.chunk)
        BY <1>4, <3>1, <4>1, Nobody
      <4>. QED
        BY <4>2, <4>3
    <3>. QED
      BY <1>7, <3>2, <3>3
  <2>4. PartsOK(next)'
    BY <1>2, <2>3 DEF PartsOK, Part
  <2>. QED
    BY <2>2, <2>4
<1>13. ASSUME NEW d \in Embedders PROVE HeldOK(embedder[d])' /\ PartsOK(embedder[d])'
  <2>1. PICK k \in Run : k = embedder'[d] /\ HeldOK(k)' /\ PartsOK(k)'
    <3>1. CASE d = e
      BY <1>5, <1>12, <3>1
    <3>2. CASE d # e
      <4>1. PICK k \in Run : k = embedder[d] /\ k = embedder'[d] /\ HeldOK(k) /\ PartsOK(k)
        BY <1>5, <3>2, Types DEF KInv
      <4>2. HeldOK(k)' /\ PartsOK(k)'
        BY <1>10, <1>11, <3>2, <4>1
      <4>. QED
        BY <4>1, <4>2
    <3>. QED
      BY <3>1, <3>2
  <2>. QED
    BY <2>1 DEF HeldOK, PartsOK
<1>14. TypeOK'
  BY <1>2, <1>3, <1>5, <1>8 DEF KInv, TypeOK, OneRowPerId, Run
<1>15. SharedOK'
  <2>1. ASSUME NEW d \in Embedders, NEW i \in 1..created', Holds(d, i)' PROVE Holds(d, i) /\ i \in 1..created
    <3>1. i # 0
      BY <2>1
    <3>2. Holds(d, i)
      BY <1>1, <1>4, <1>5, <2>1, <3>1, Nobody DEF Holds
    <3>3. \A x \in embedder[d].todo \union {embedder[d].row} : x.id \in 0..created
      BY <1>2, Nobody DEF KInv, HeldOK
    <3>. QED
      BY <1>2, <3>1, <3>2, <3>3 DEF Holds
  <2>. QED
    BY <1>2, <2>1 DEF KInv, SharedOK
<1>16. ASSUME NEW t \in Seeders PROVE SeedingOK(seeder[t])'
  <2>1. PICK j \in Job : j = seeder[t] /\ j = seeder'[t] /\ SeedingOK(j)
    BY <1>2, Types DEF KInv
  <2>2. j.doomed \subseteq table'
    BY <1>3, <2>1 DEF SeedingOK
  <2>3. ASSUME j.open, j.clear, table' # j.doomed PROVE again'
    <3>1. CASE table # j.doomed
      BY <1>2, <2>1, <2>3, <3>1 DEF SeedingOK
    <3>2. CASE table = j.doomed
      <4>1. PICK r \in table : r.id = run.row.id
        BY <1>3, <2>3, <3>2
      <4>2. Doomed(run.row.id)
        BY <2>1, <3>2, <4>1 DEF Doomed
      <4>. QED
        BY <1>2, <4>2
    <3>. QED
      BY <3>1, <3>2
  <2>4. ASSUME NEW part \in j.doomed, NEW q \in table', q.id = part.of PROVE q \in j.doomed
    <3>1. part \in table /\ part.of \in 1..created
      BY <1>6, <2>1 DEF SeedingOK
    <3>2. q \in table
      BY <1>2, <1>7, <2>4, <3>1
    <3>. QED
      BY <2>1, <2>4, <3>2 DEF SeedingOK
  <2>5. SeedingOK(j)'
    BY <2>1, <2>2, <2>3, <2>4 DEF SeedingOK
  <2>. QED
    BY <2>1, <2>5 DEF SeedingOK
<1>. QED
  BY <1>9, <1>13, <1>14, <1>15, <1>16 DEF KInv

LEMMA NextKInv == KInv /\ [Next]_vars => KInv'
<1>. SUFFICES ASSUME KInv, [Next]_vars PROVE KInv'
  OBVIOUS
<1>1. CASE UNCHANGED vars
  <2>1. TypeOK' /\ RowsOK' /\ SharedOK'
    BY <1>1 DEF vars, KInv, TypeOK, RowsOK, SharedOK, Holds, Part
  <2>2. \A e \in Embedders : HeldOK(embedder[e])' /\ PartsOK(embedder[e])'
    BY <1>1 DEF vars, KInv, HeldOK, PartsOK, Part
  <2>3. \A s \in Seeders : SeedingOK(seeder[s])'
    BY <1>1 DEF vars, KInv, SeedingOK
  <2>. QED
    BY <2>1, <2>2, <2>3 DEF KInv
<1>2. CASE Next
  BY <1>2, SeedBeginKeeps, SeedCommitKeeps, SeedAbortsKeeps, SeedSqlKeeps, EmbedBeginKeeps, EmbedPickKeeps,
     EmbedWaitsKeeps, EmbedFirstKeeps, EmbedMoreKeeps, EmbedBreaksKeeps DEF Next
<1>. QED
  BY <1>1, <1>2

(* Rows, runs and seedings keep their types and no id is given twice,       *)
(* however seedings and embedding runs overlap and break off.               *)
THEOREM TypeCorrect == Spec => []TypeOK
<1>1. KInv => TypeOK
  BY DEF KInv
<1>. QED
  BY InitKInv, NextKInv, <1>1, PTL DEF Spec

-----------------------------------------------------------------------------
(* Nothing is forgotten. *)
RowCovered(row, n) ==
  \/ \E part \in table : part.of = row.id /\ part.chunk = n
  \/ \E e \in Embedders : embedder[e].row.id = row.id /\ embedder[e].chunk \in 2..n
  \/ row.id \in broken

LEMMA CoveredRows == Covered <=> \A row \in table : row.chunk = 1 => \A n \in 2..Chunks(row.entry) : RowCovered(row, n)
BY DEF Covered, RowCovered

LEMMA NothingIsForgotten == TypeOK /\ Covered => NothingForgotten
<1>. SUFFICES ASSUME TypeOK, Covered, NEW row \in table, row.chunk = 1, NEW n \in 2..Chunks(row.entry)
              PROVE  \/ \E part \in table : part.of = row.id /\ part.chunk = n
                     \/ \E e \in Embedders : embedder[e].row.id = row.id /\ embedder[e].chunk <= n
                     \/ row.id \in broken
  BY DEF NothingForgotten
<1>1. \A e \in Embedders : embedder[e].chunk \in 2..n => embedder[e].chunk <= n
  OBVIOUS
<1>. QED
  BY <1>1 DEF Covered

LEMMA SeedingCovered ==
  ASSUME KInv, Covered,
         \/ \E s \in Seeders : SeedAborts(s) \/ \E clear \in BOOLEAN : SeedBegin(s, clear)
         \/ \E s \in Seeders, embed \in BOOLEAN : SeedCommit(s, embed)
         \/ SeedSql
  PROVE  Covered'
<1>1. CASE \E s \in Seeders : SeedAborts(s) \/ \E clear \in BOOLEAN : SeedBegin(s, clear)
  <2>1. UNCHANGED <<table, embedder, broken>>
    BY <1>1 DEF SeedBegin, SeedAborts
  <2>. QED
    BY <2>1 DEF Covered
<1>2. ASSUME NEW gone, NEW fresh, table' = (table \ gone) \union fresh, UNCHANGED <<embedder, broken>>,
             \A r \in fresh : r.chunk = 0, \A part \in gone, row \in table : row.id = part.of => row \in gone
      PROVE  Covered'
  <2>1. ASSUME NEW row \in table', row.chunk = 1, NEW n \in 2..Chunks(row.entry) PROVE RowCovered(row, n)'
    <3>1. row \in table \ gone
      BY <1>2, <2>1
    <3>2. RowCovered(row, n)
      BY <2>1, <3>1, CoveredRows
    <3>3. \A part \in table : part.of = row.id => part \in table'
      BY <1>2, <3>1
    <3>. QED
      BY <1>2, <3>2, <3>3 DEF RowCovered
  <2>. QED
    BY <2>1 DEF Covered, RowCovered
<1>3. ASSUME NEW s \in Seeders, NEW embed \in BOOLEAN, SeedCommit(s, embed) PROVE Covered'
  <2>1. PICK fresh : fresh = Fresh(KB_ENTRIES, created, embed)
    OBVIOUS
  <2>2. \A r \in fresh : r.chunk = 0
    BY <2>1 DEF Fresh
  <2>3. table' = (table \ seeder[s].doomed) \union fresh /\ UNCHANGED <<embedder, broken>>
    BY <1>3, <2>1 DEF SeedCommit
  <2>. QED
    BY <1>2, <2>2, <2>3 DEF KInv, SeedingOK
<1>4. CASE SeedSql
  <2>1. PICK gone, fresh : gone = {} /\ fresh = Fresh(SqlEntries, created, FALSE)
    OBVIOUS
  <2>2. \A r \in fresh : r.chunk = 0
    BY <2>1 DEF Fresh
  <2>3. table' = (table \ gone) \union fresh /\ UNCHANGED <<embedder, broken>>
    BY <1>4, <2>1 DEF SeedSql
  <2>4. \A part \in gone, row \in table : row.id = part.of => row \in gone
    BY <2>1
  <2>. QED
    BY <1>2, <2>2, <2>3, <2>4
<1>. QED
  BY <1>1, <1>3, <1>4

(* A step of one run that leaves the table alone and covers as much. *)
LEMMA RunCovers ==
  ASSUME Covered, NEW e \in Embedders, UNCHANGED table, broken \subseteq broken',
         \A d \in Embedders : d # e => embedder'[d] = embedder[d],
         \A n \in Nat : embedder[e].chunk \in 2..n =>
           \/ embedder'[e].row = embedder[e].row /\ embedder'[e].chunk = embedder[e].chunk
           \/ embedder[e].row.id \in broken'
  PROVE  Covered'
<1>1. ASSUME NEW row \in table, row.chunk = 1, NEW n \in 2..Chunks(row.entry) PROVE RowCovered(row, n)'
  <2>1. RowCovered(row, n) /\ n \in Nat
    BY <1>1, CoveredRows
  <2>2. CASE \E d \in Embedders : embedder[d].row.id = row.id /\ embedder[d].chunk \in 2..n
    BY <2>1, <2>2 DEF RowCovered
  <2>3. CASE row.id \in broken \/ \E part \in table : part.of = row.id /\ part.chunk = n
    BY <2>3 DEF RowCovered
  <2>. QED
    BY <2>1, <2>2, <2>3 DEF RowCovered
<1>. QED
  BY <1>1 DEF Covered, RowCovered

LEMMA EmbedCovered ==
  ASSUME KInv, Covered, NEW e \in Embedders,
         \/ EmbedBegin(e) \/ (\E row \in embedder[e].todo : EmbedPick(e, row))
         \/ EmbedWaits(e) \/ EmbedBreaks(e)
  PROVE  Covered'
<1>1. PICK old \in Run : old = embedder[e] /\ HeldOK(old)
  BY Types DEF KInv
<1>2. /\ UNCHANGED table /\ broken \subseteq broken' /\ \A d \in Embedders : d # e => embedder'[d] = embedder[d]
  BY Types DEF KInv, EmbedBegin, EmbedPick, EmbedWaits, EmbedBreaks
<1>3. CASE EmbedBegin(e) \/ \E row \in embedder[e].todo : EmbedPick(e, row)
  <2>1. old.chunk = 0
    <3>1. CASE EmbedBegin(e)
      BY <1>1, <3>1 DEF EmbedBegin, HeldOK
    <3>2. CASE \E row \in embedder[e].todo : EmbedPick(e, row)
      <4>1. old.row = NoRow
        BY <1>1, <3>2 DEF EmbedPick
      <4>2. NoRow.id = 0 /\ 0 \notin 1..created
        BY Nobody, Types DEF KInv
      <4>. QED
        BY <1>1, <4>1, <4>2 DEF HeldOK
    <3>. QED
      BY <1>3, <3>1, <3>2
  <2>2. \A n \in Nat : embedder[e].chunk \notin 2..n
    BY <1>1, <2>1
  <2>. QED
    BY <1>2, <2>2, RunCovers
<1>4. CASE EmbedWaits(e)
  <2>1. embedder'[e] = [old EXCEPT !.waits = TRUE]
    BY <1>1, <1>4, Types DEF KInv, EmbedWaits
  <2>2. embedder'[e].row = embedder[e].row /\ embedder'[e].chunk = embedder[e].chunk
    BY <1>1, <2>1 DEF Run
  <2>. QED
    BY <1>2, <2>2, RunCovers
<1>5. CASE EmbedBreaks(e)
  <2>1. \A n \in Nat : embedder[e].chunk \in 2..n => embedder[e].row.id \in broken'
    BY <1>5 DEF EmbedBreaks
  <2>. QED
    BY <1>2, <2>1, RunCovers
<1>. QED
  BY <1>3, <1>4, <1>5

LEMMA FirstCovered == ASSUME KInv, Covered, NEW e \in Embedders, EmbedFirst(e) PROVE Covered'
<1>1. PICK run : run = embedder[e]
  OBVIOUS
<1>2. /\ run \in Run /\ HeldOK(run) /\ run.chunk = 1
      /\ \A r \in table : (IF r.id = run.row.id THEN FirstChunk(r) ELSE r) \in table'
      /\ embedder' = [embedder EXCEPT ![e] = Onward(run)] /\ UNCHANGED broken /\ table \subseteq Row
  BY <1>1, Cut, Types DEF KInv
<1>3. ASSUME NEW q \in table'
      PROVE  \E r \in table :
              /\ r.id = q.id /\ r.entry = q.entry /\ r.of = q.of /\ (Part(q) <=> Part(r))
              /\ IF r.id = run.row.id
                   THEN q.embedded /\ q.chunk = (IF Chunks(r.entry) = 1 THEN 0 ELSE 1) /\ q = FirstChunk(r)
                   ELSE q = r
  BY <1>1, Cut
<1>4. embedder'[e] = Onward(run) /\ \A d \in Embedders : d # e => embedder'[d] = embedder[d]
  BY <1>2, Types DEF KInv
<1>5. ASSUME NEW row \in table', row.chunk = 1, NEW n \in 2..Chunks(row.entry) PROVE RowCovered(row, n)'
  <2>1. PICK r \in table : /\ r.id = row.id /\ r.entry = row.entry
                           /\ IF r.id = run.row.id THEN row.chunk = (IF Chunks(r.entry) = 1 THEN 0 ELSE 1) ELSE row = r
    BY <1>3
  <2>2. CASE r.id = run.row.id
    <3>1. r.entry = run.row.entry /\ r.entry \in Entries
      BY <1>2, <2>1, <2>2, Types DEF HeldOK, KInv
    <3>2. Chunks(run.row.entry) \in Nat \ {0} /\ Chunks(run.row.entry) # 1
      BY <1>5, <2>1, <2>2, <3>1, ChunksAtLeastOne
    <3>3. Onward(run).row = run.row /\ Onward(run).chunk = 2
      BY <1>2, <3>2, Onwards
    <3>4. 2 \in 2..n
      BY <1>5, <2>1, <3>1, <3>2
    <3>. QED
      BY <1>4, <2>1, <2>2, <3>3, <3>4 DEF RowCovered
  <2>3. CASE r.id # run.row.id
    <3>1. RowCovered(row, n) /\ row = r /\ n \in Int /\ n > 1
      BY <1>5, <2>1, <2>3, CoveredRows
    <3>2. CASE \E part \in table : part.of = row.id /\ part.chunk = n
      <4>1. PICK part \in table : part.of = row.id /\ part.chunk = n
        BY <3>2
      <4>2. part.id # run.row.id
        BY <1>2, <3>1, <4>1 DEF HeldOK, Part
      <4>3. part \in table'
        BY <1>2, <4>2
      <4>. QED
        BY <4>1, <4>3 DEF RowCovered
    <3>3. CASE \E d \in Embedders : embedder[d].row.id = row.id /\ embedder[d].chunk \in 2..n
      BY <1>1, <1>2, <1>4, <3>3 DEF RowCovered
    <3>4. CASE row.id \in broken
      BY <1>2, <3>4 DEF RowCovered
    <3>. QED
      BY <3>1, <3>2, <3>3, <3>4 DEF RowCovered
  <2>. QED
    BY <2>2, <2>3
<1>. QED
  BY <1>5 DEF Covered, RowCovered

LEMMA MoreCovered == ASSUME KInv, Covered, NEW e \in Embedders, EmbedMore(e) PROVE Covered'
<1>1. PICK run : run = embedder[e]
  OBVIOUS
<1>2. /\ run \in Run /\ HeldOK(run) /\ run.chunk > 1 /\ run.chunk \in Nat
      /\ embedder' = [embedder EXCEPT ![e] = Onward(run)] /\ UNCHANGED broken
      /\ \/ (\A r \in table : r.id # run.row.id) /\ UNCHANGED table
         \/ \E r \in table, p \in Row :
                 /\ r.id = run.row.id /\ p.chunk = run.chunk /\ p.of = r.id
                 /\ table' = table \union {p}
  BY <1>1, Inserted DEF Run
<1>3. embedder'[e] = Onward(run) /\ \A d \in Embedders : d # e => embedder'[d] = embedder[d]
  BY <1>2, Types DEF KInv
<1>4. table \subseteq table' /\ \A row \in table' : row.chunk = 1 => row \in table
  BY <1>2
<1>5. ASSUME NEW row \in table', row.chunk = 1, NEW n \in 2..Chunks(row.entry) PROVE RowCovered(row, n)'
  <2>1. row \in table /\ row.entry \in Entries /\ RowCovered(row, n)
    BY <1>4, <1>5, CoveredRows, Types DEF KInv
  <2>2. Chunks(row.entry) \in Nat \ {0} /\ n \in Nat
    BY <1>5, <2>1, ChunksAtLeastOne
  <2>3. CASE run.row.id = row.id /\ run.chunk \in 2..n
    <3>1. run.row.entry = row.entry
      BY <1>2, <2>1, <2>3 DEF HeldOK
    <3>2. CASE n = run.chunk
      <4>1. \E part \in table' : part.of = row.id /\ part.chunk = n
        BY <1>2, <2>1, <2>3, <3>2
      <4>. QED
        BY <4>1 DEF RowCovered
    <3>3. CASE n # run.chunk
      <4>1. run.chunk < Chunks(run.row.entry) /\ run.chunk + 1 \in 2..n
        BY <1>2, <1>5, <2>2, <2>3, <3>1, <3>3
      <4>2. Onward(run).row = run.row /\ Onward(run).chunk = run.chunk + 1
        BY <1>2, <4>1, Onwards
      <4>. QED
        BY <1>3, <2>3, <4>1, <4>2 DEF RowCovered
    <3>. QED
      BY <3>2, <3>3
  <2>4. CASE \E d \in Embedders \ {e} : embedder[d].row.id = row.id /\ embedder[d].chunk \in 2..n
    BY <1>3, <2>4 DEF RowCovered
  <2>5. CASE row.id \in broken \/ \E part \in table : part.of = row.id /\ part.chunk = n
    BY <1>2, <1>4, <2>5 DEF RowCovered
  <2>. QED
    BY <1>1, <2>1, <2>3, <2>4, <2>5 DEF RowCovered
<1>. QED
  BY <1>5 DEF Covered, RowCovered

-----------------------------------------------------------------------------
(* Nothing is there twice without a reason. *)
Explained(a, b) ==
  \/ a.of # b.of /\ again
  \/ a.of = b.of /\ (a.chunk # b.chunk \/ a.of \in shared)

LEMMA Doubles == DoublesExplained <=> \A a, b \in table : (a # b /\ a.entry = b.entry) => Explained(a, b)
BY DEF DoublesExplained, Explained

LEMMA TableKept ==
  ASSUME DoublesExplained, UNCHANGED <<table, again>>, shared \subseteq shared'
  PROVE  DoublesExplained'
BY DEF DoublesExplained

LEMMA ReplacedExplained ==
  ASSUME KInv, DoublesExplained, NEW gone, NEW fresh, table' = (table \ gone) \union fresh, UNCHANGED shared, again => again',
         \A r \in fresh : r.of > created, \A a, b \in fresh : a.entry = b.entry => a = b,
         table \ gone # {} => again'
  PROVE  DoublesExplained'
<1>1. \A r \in table : r.of <= created
  BY Types DEF KInv, RowsOK
<1>2. \A r \in table, q \in fresh : r.of # q.of
  BY <1>1, Types DEF KInv
<1>3. ASSUME NEW a \in table', NEW b \in table', a # b, a.entry = b.entry PROVE Explained(a, b)'
  <2>1. CASE a \in table /\ b \in table
    BY <1>3, <2>1, Doubles DEF Explained
  <2>2. CASE (a \in fresh /\ b \in table \ gone) \/ (b \in fresh /\ a \in table \ gone)
    BY <1>2, <2>2 DEF Explained
  <2>. QED
    BY <1>3, <2>1, <2>2
<1>. QED
  BY <1>3 DEF DoublesExplained, Explained

LEMMA SeedingExplained ==
  ASSUME KInv, DoublesExplained,
         \/ \E s \in Seeders : SeedAborts(s) \/ \E clear \in BOOLEAN : SeedBegin(s, clear)
         \/ \E s \in Seeders, embed \in BOOLEAN : SeedCommit(s, embed)
         \/ SeedSql
  PROVE  DoublesExplained'
<1>1. CASE \E s \in Seeders : SeedAborts(s) \/ \E clear \in BOOLEAN : SeedBegin(s, clear)
  BY <1>1, TableKept DEF SeedBegin, SeedAborts
<1>2. ASSUME NEW S \in SUBSET Entries, IsFiniteSet(S), NEW embed \in BOOLEAN
      PROVE  /\ \A r \in Fresh(S, created, embed) : r.of > created
             /\ \A a, b \in Fresh(S, created, embed) : a.entry = b.entry => a = b
  <2>1. created \in Nat
    BY Types DEF KInv
  <2>2. \A r \in Fresh(S, created, embed) : r.id \in (created + 1)..(created + Cardinality(S)) /\ r.of = r.id
    BY <1>2, <2>1, FreshRows
  <2>3. Cardinality(S) \in Nat /\ \A a, b \in Fresh(S, created, embed) : a.entry = b.entry => a = b
    BY <1>2, <2>1, FreshRows
  <2>4. \A r \in Fresh(S, created, embed) : r.of > created
    BY <2>1, <2>2, <2>3
  <2>. QED
    BY <2>3, <2>4
<1>3. ASSUME NEW s \in Seeders, NEW embed \in BOOLEAN, SeedCommit(s, embed) PROVE DoublesExplained'
  <2>1. PICK fresh : fresh = Fresh(KB_ENTRIES, created, embed)
    OBVIOUS
  <2>2. /\ table' = (table \ seeder[s].doomed) \union fresh /\ UNCHANGED shared /\ seeder[s].open
        /\ again' = (again \/ (~seeder[s].clear /\ table # {}))
    BY <1>3, <2>1 DEF SeedCommit
  <2>3. KB_ENTRIES \in SUBSET Entries /\ IsFiniteSet(KB_ENTRIES)
    BY EntriesAssumption DEF Entries
  <2>4. /\ \A r \in fresh : r.of > created
        /\ \A a, b \in fresh : a.entry = b.entry => a = b
    BY <1>2, <2>1, <2>3
  <2>5. table \ seeder[s].doomed # {} => again'
    <3>1. CASE seeder[s].clear
      <4>1. table \ seeder[s].doomed # {} => table # seeder[s].doomed
        OBVIOUS
      <4>. QED
        BY <2>2, <3>1, <4>1 DEF KInv, SeedingOK
    <3>2. CASE ~seeder[s].clear
      BY <2>2, <3>2
    <3>. QED
      BY <3>1, <3>2
  <2>. QED
    BY <2>2, <2>4, <2>5, ReplacedExplained
<1>4. CASE SeedSql
  <2>1. PICK embed \in BOOLEAN, gone \in SUBSET Row : embed = FALSE /\ gone = {}
    OBVIOUS
  <2>2. PICK fresh : fresh = Fresh(SqlEntries, created, embed)
    OBVIOUS
  <2>3. /\ table' = (table \ gone) \union fresh /\ UNCHANGED shared
        /\ again' = (again \/ table # {} \/ \E t \in Seeders : seeder[t].open)
    BY <1>4, <2>1, <2>2 DEF SeedSql
  <2>4. SqlEntries \in SUBSET Entries /\ IsFiniteSet(SqlEntries)
    BY EntriesAssumption DEF Entries
  <2>5. /\ \A r \in fresh : r.of > created
        /\ \A a, b \in fresh : a.entry = b.entry => a = b
    BY <1>2, <2>2, <2>4
  <2>6. table \ gone # {} => again'
    BY <2>3
  <2>. QED
    BY <2>3, <2>5, <2>6, ReplacedExplained
<1>. QED
  BY <1>1, <1>3, <1>4

LEMMA FirstExplained == ASSUME KInv, DoublesExplained, NEW e \in Embedders, EmbedFirst(e) PROVE DoublesExplained'
<1>1. PICK run : run = embedder[e]
  OBVIOUS
<1>2. HeldOK(run) /\ UNCHANGED <<again, shared>> /\ RowsOK /\ \A x, y \in table : x.id = y.id => x = y
  BY <1>1, Cut, Types DEF KInv, OneRowPerId
<1>3. ASSUME NEW q \in table'
      PROVE  \E r \in table :
              /\ r.id = q.id /\ r.entry = q.entry /\ r.of = q.of /\ (Part(q) <=> Part(r))
              /\ IF r.id = run.row.id
                   THEN q.embedded /\ q.chunk = (IF Chunks(r.entry) = 1 THEN 0 ELSE 1) /\ q = FirstChunk(r)
                   ELSE q = r
  BY <1>1, Cut
<1>4. ASSUME NEW a \in table, NEW b \in table, a # b, a.id = run.row.id, a.of = b.of PROVE ~Part(a) /\ Part(b)
  BY <1>2, <1>4 DEF HeldOK, RowsOK
<1>5. ASSUME NEW a \in table', NEW b \in table', a # b, a.entry = b.entry PROVE Explained(a, b)'
  <2>1. PICK x \in table : /\ x.id = a.id /\ x.entry = a.entry /\ x.of = a.of /\ (Part(a) <=> Part(x))
                           /\ IF x.id = run.row.id THEN a = FirstChunk(x) ELSE a = x
    BY <1>3
  <2>2. PICK y \in table : /\ y.id = b.id /\ y.entry = b.entry /\ y.of = b.of /\ (Part(b) <=> Part(y))
                           /\ IF y.id = run.row.id THEN b = FirstChunk(y) ELSE b = y
    BY <1>3
  <2>3. x # y
    BY <1>5, <2>1, <2>2
  <2>4. Explained(x, y)
    BY <1>5, <2>1, <2>2, <2>3, Doubles
  <2>5. CASE a.of # b.of
    BY <1>2, <2>1, <2>2, <2>4, <2>5 DEF Explained
  <2>6. CASE a.of = b.of /\ x.id = run.row.id
    <3>1. ~Part(a) /\ Part(b)
      BY <1>4, <2>1, <2>2, <2>3, <2>6
    <3>. QED
      BY <2>6, <3>1 DEF Explained, Part
  <2>7. CASE a.of = b.of /\ y.id = run.row.id
    <3>1. ~Part(b) /\ Part(a)
      BY <1>4, <2>1, <2>2, <2>3, <2>7
    <3>. QED
      BY <2>7, <3>1 DEF Explained, Part
  <2>8. CASE a.of = b.of /\ x.id # run.row.id /\ y.id # run.row.id
    BY <1>2, <2>1, <2>2, <2>4, <2>8 DEF Explained
  <2>. QED
    BY <2>5, <2>6, <2>7, <2>8
<1>. QED
  BY <1>5 DEF DoublesExplained, Explained

LEMMA MoreExplained == ASSUME KInv, DoublesExplained, NEW e \in Embedders, EmbedMore(e) PROVE DoublesExplained'
<1>1. PICK run : run = embedder[e]
  OBVIOUS
<1>2. /\ PartsOK(run) /\ run \in Run /\ run.chunk > 1 /\ UNCHANGED shared /\ (again => again') /\ table \subseteq Row
      /\ \/ UNCHANGED table
         \/ \E r \in table, p \in Row :
                 /\ r.id = run.row.id /\ r.of = r.id /\ p.entry = r.entry /\ p.chunk = run.chunk /\ p.of = r.id
                 /\ table' = table \union {p}
  BY <1>1, Inserted, Types DEF KInv
<1>3. ASSUME NEW a \in table, NEW b \in table, a # b, a.entry = b.entry PROVE Explained(a, b)'
  BY <1>2, <1>3, Doubles DEF Explained
<1>4. CASE UNCHANGED table
  BY <1>3, <1>4 DEF DoublesExplained, Explained
<1>5. ASSUME NEW r \in table, NEW p \in Row, r.id = run.row.id, r.of = r.id, p.entry = r.entry, p.chunk = run.chunk,
             p.of = r.id, table' = table \union {p}
      PROVE  DoublesExplained'
  <2>1. ASSUME NEW a \in table, a.entry = p.entry PROVE Explained(a, p)' /\ Explained(p, a)'
    <3>1. CASE a.of # p.of
      <4>1. a # r /\ a.entry = r.entry
        BY <1>5, <2>1, <3>1
      <4>2. again'
        BY <1>2, <1>5, <3>1, <4>1, Doubles DEF Explained
      <4>. QED
        BY <3>1, <4>2 DEF Explained
    <3>2. CASE a.of = p.of /\ a.chunk # p.chunk
      BY <3>2 DEF Explained
    <3>3. CASE a.of = p.of /\ a.chunk = p.chunk
      <4>1. Part(a) /\ run.row.id = a.of /\ a.chunk >= run.chunk
        BY <1>2, <1>5, <3>3 DEF Part, Run
      <4>2. a.of \in shared
        BY <1>2, <4>1 DEF PartsOK
      <4>. QED
        BY <1>2, <3>3, <4>2 DEF Explained
    <3>. QED
      BY <3>1, <3>2, <3>3
  <2>. QED
    BY <1>3, <1>5, <2>1 DEF DoublesExplained, Explained
<1>. QED
  BY <1>2, <1>4, <1>5

LEMMA InitAccounted == Init => Covered /\ DoublesExplained
<1>. SUFFICES ASSUME Init PROVE Covered /\ DoublesExplained
  OBVIOUS
<1>1. \A r \in table : r.chunk = 0
  BY DEF Init, Fresh
<1>2. \A a, b \in table : a.entry = b.entry => a = b
  <2>1. PICK embed \in BOOLEAN : embed = FALSE
    OBVIOUS
  <2>2. KB_ENTRIES \in SUBSET Entries /\ IsFiniteSet(KB_ENTRIES)
    BY EntriesAssumption DEF Entries
  <2>3. \A a, b \in Fresh(KB_ENTRIES, 0, embed) : a.entry = b.entry => a = b
    BY <2>2, FreshRows
  <2>. QED
    BY <2>1, <2>3 DEF Init
<1>. QED
  BY <1>1, <1>2 DEF Covered, DoublesExplained

LEMMA NextAccounted == KInv /\ Covered /\ DoublesExplained /\ [Next]_vars => Covered' /\ DoublesExplained'
<1>. SUFFICES ASSUME KInv, Covered, DoublesExplained, [Next]_vars PROVE Covered' /\ DoublesExplained'
  OBVIOUS
<1>1. CASE UNCHANGED vars
  BY <1>1 DEF vars, Covered, DoublesExplained
<1>2. ASSUME NEW e \in Embedders,
             \/ EmbedBegin(e) \/ (\E row \in embedder[e].todo : EmbedPick(e, row))
             \/ EmbedWaits(e) \/ EmbedBreaks(e)
      PROVE  DoublesExplained'
  <2>1. UNCHANGED <<table, again>> /\ shared \subseteq shared'
    BY <1>2 DEF EmbedBegin, EmbedPick, EmbedWaits, EmbedBreaks
  <2>. QED
    BY <2>1, TableKept
<1>. QED
  BY <1>1, <1>2, SeedingCovered, EmbedCovered, FirstCovered, MoreCovered, SeedingExplained, FirstExplained,
     MoreExplained DEF Next

(* A cut entry keeps all its text unless the run that cut it broke off, and *)
(* a text is there twice only for a reason.                                 *)
THEOREM TextIsAccountedFor == Spec => []TextAccountedFor
<1>1. KInv /\ Covered /\ DoublesExplained => TextAccountedFor
  BY NothingIsForgotten DEF KInv, TextAccountedFor
<1>2. KInv /\ Covered /\ DoublesExplained /\ [Next]_vars => KInv' /\ Covered' /\ DoublesExplained'
  BY NextKInv, NextAccounted
<1>. QED
  BY InitKInv, InitAccounted, <1>1, <1>2, PTL DEF Spec

-----------------------------------------------------------------------------
(* What a step does to the entries that can be found. *)
LEMMA EntriesKept ==
  ASSUME KInv, [Next]_vars
  PROVE  \/ \A r \in table : \E q \in table' : q.entry = r.entry
         \/ \A x \in KB_ENTRIES : \E q \in table' : q.entry = x
<1>1. CASE table \subseteq table'
  BY <1>1
<1>2. ASSUME NEW s \in Seeders, NEW embed \in BOOLEAN, SeedCommit(s, embed)
      PROVE  \A x \in KB_ENTRIES : \E q \in table' : q.entry = x
  <2>1. KB_ENTRIES \in SUBSET Entries /\ IsFiniteSet(KB_ENTRIES) /\ created \in Nat
    BY EntriesAssumption, Types DEF KInv, Entries
  <2>2. \A x \in KB_ENTRIES : \E q \in Fresh(KB_ENTRIES, created, embed) : q.entry = x
    BY <2>1, FreshRows
  <2>3. Fresh(KB_ENTRIES, created, embed) \subseteq table'
    BY <1>2 DEF SeedCommit
  <2>. QED
    BY <2>2, <2>3
<1>3. ASSUME NEW e \in Embedders, EmbedFirst(e), NEW r \in table PROVE \E q \in table' : q.entry = r.entry
  <2>1. PICK run : run = embedder[e]
    OBVIOUS
  <2>2. PICK q : q = IF r.id = run.row.id THEN FirstChunk(r) ELSE r
    OBVIOUS
  <2>3. q \in table'
    BY <1>3, <2>1, <2>2, Cut
  <2>4. r \in Row
    BY Types DEF KInv
  <2>5. q.entry = r.entry
    BY <2>2, <2>4, FirstChunks
  <2>. QED
    BY <2>3, <2>5
<1>4. ASSUME \/ \E s \in Seeders : SeedAborts(s) \/ \E clear \in BOOLEAN : SeedBegin(s, clear)
             \/ SeedSql
             \/ \E e \in Embedders : \/ EmbedBegin(e) \/ (\E row \in embedder[e].todo : EmbedPick(e, row))
                                     \/ EmbedWaits(e) \/ EmbedBreaks(e) \/ EmbedMore(e)
             \/ UNCHANGED vars
      PROVE  table \subseteq table'
  BY <1>4 DEF SeedAborts, SeedBegin, SeedSql, EmbedBegin, EmbedPick, EmbedWaits, EmbedBreaks, EmbedMore, vars
<1>. QED
  BY <1>1, <1>2, <1>3, <1>4 DEF Next

Grounded == \A intent \in DOMAIN INTENT_CATEGORIES : Found(intent) # {}

(* A step never takes away the last entry of an intent.                     *)
LEMMA GroundedSteps == KInv /\ [Next]_vars => (Grounded => Grounded')
<1>. SUFFICES ASSUME KInv, [Next]_vars, Grounded, NEW intent \in DOMAIN INTENT_CATEGORIES PROVE Found(intent)' # {}
  BY DEF Grounded
<1>1. CASE \A r \in table : \E q \in table' : q.entry = r.entry
  <2>1. PICK r \in table : Category[r.entry] \in INTENT_CATEGORIES[intent]
    BY DEF Grounded, Found
  <2>2. PICK q \in table' : q.entry = r.entry
    BY <1>1, <2>1
  <2>. QED
    BY <2>1, <2>2 DEF Found
<1>2. CASE \A x \in KB_ENTRIES : \E q \in table' : q.entry = x
  <2>1. PICK x \in KB_ENTRIES : Category[x] \in INTENT_CATEGORIES[intent]
    BY CoverAssumption
  <2>2. PICK q \in table' : q.entry = x
    BY <1>2, <2>1
  <2>. QED
    BY <2>1, <2>2 DEF Found
<1>. QED
  BY <1>1, <1>2, EntriesKept

(* Once requests of every intent find something they always do, while the   *)
(* entries are cleared, replaced and cut.                                   *)
THEOREM AlwaysGrounded == Spec => StaysGrounded
<1>1. KInv /\ [Next]_vars => [Grounded => Grounded']_vars
  BY GroundedSteps
<1>2. [][Grounded => Grounded']_vars => StaysGrounded
  BY DEF StaysGrounded, Grounded
<1>. QED
  BY InitKInv, NextKInv, <1>1, <1>2, PTL DEF Spec
=============================================================================
