------------------------- MODULE BuyerMatchingProofs -------------------------
(***************************************************************************)
(* Theorems about simulated buyers, products and their embeddings, for any *)
(* number of seeders, workers, rows, retries, seedings and searches.       *)
(***************************************************************************)
EXTENDS BuyerMatching, TLAPS

Kinds == {"buyer", "product"}
Clearing == {"embeddings", "rows", "filling"}

Job == [phase : {"idle", "embeddings", "rows", "filling", "sending"}, of : Kinds,
        script : BOOLEAN, target : SUBSET Row, embeddings : SUBSET Row, rows : SUBSET Row,
        blind : SUBSET Nat, unsent : SUBSET Row]

(* What a seeding still sends: the rows of its batch from the k-th on.      *)
Unsent(j) ==
  \E batch \in 1..batches, k \in 1..SIZE :
    j.unsent = {r \in Fresh(j.of, batch) : r.n >= k} /\ j.unsent # {}

(* What a seeding knows: it removes simulated rows of its own kind, misses  *)
(* only what was committed after its DELETE, and misses the embedding of a  *)
(* product only if that came late.                                          *)
JobOK(j) ==
  /\ j.script => j.of = "buyer"
  /\ j.rows \subseteq {r \in Row : r.of = j.of /\ r.batch > 0}
  /\ IF j.phase = "sending" THEN Unsent(j) ELSE j.unsent = {}
  /\ j.phase = "rows" =>
       /\ j.target \subseteq {r \in Row : r.of = j.of /\ r.batch > 0}
       /\ \A r \in Synthetic(j.of) : r \in j.target \/ r.batch \in j.blind
  /\ j.phase = "filling" => \A r \in Synthetic(j.of) : r \in j.rows \/ r.batch \in j.blind
  /\ j.of = "product" /\ j.phase \in Clearing =>
       \A r \in embedded \intersect Synthetic("product") :
         r \in late \/ r \in (IF j.phase = "embeddings" THEN j.target ELSE j.embeddings)

(* Nobody knows a row of a seeding that has not committed.                  *)
Known(row) == row.batch <= batches

AllKnown ==
  /\ \A r \in rows : Known(r)
  /\ \A r \in embedded : Known(r)
  /\ \A m \in queue : Known(m.row)
  /\ \A w \in Workers : worker[w] # NoTask => Known(worker[w].row)
  /\ \A r \in backfill.todo : Known(r)
  /\ Known(request.product)

TInv ==
  /\ TypeOK /\ AllKnown
  /\ \A s \in Seeders : JobOK(seeder[s])

-----------------------------------------------------------------------------
LEMMA FreshRows ==
  ASSUME NEW of \in Kinds, NEW b \in Nat
  PROVE  /\ Fresh(of, b) \subseteq Row
         /\ \A r \in Fresh(of, b) : r.of = of /\ r.batch = b
         /\ \A n \in 1..PROFILES : n \in 1..SIZE
<1>1. \A n \in 1..PROFILES : n \in 1..SIZE
  BY MatchingAssumption
<1>2. PICK top \in 1..SIZE : Fresh(of, b) = {[of |-> of, batch |-> b, n |-> n] : n \in 1..top}
  <2>1. CASE of = "buyer"
    <3>1. Fresh(of, b) = {[of |-> of, batch |-> b, n |-> n] : n \in 1..SIZE} /\ SIZE \in 1..SIZE
      BY <2>1, MatchingAssumption DEF Fresh, FreshBuyers, BUYER_TEMPLATES
    <3>. QED
      BY <3>1
  <2>2. CASE of = "product"
    BY <2>2, MatchingAssumption DEF Fresh, FreshProducts, UMKM_PROFILES
  <2>. QED
    BY <2>1, <2>2 DEF Kinds
<1>3. \A n \in 1..top : n \in 1..SIZE
  BY MatchingAssumption
<1>4. Fresh(of, b) \subseteq Row /\ \A r \in Fresh(of, b) : r.of = of /\ r.batch = b
  BY <1>2, <1>3 DEF Row, Kinds
<1>. QED
  BY <1>1, <1>4

LEMMA IdleJob == NoSeeding \in Job /\ JobOK(NoSeeding)
BY DEF NoSeeding, Job, JobOK, Kinds, Clearing

LEMMA NothingReal ==
  /\ RealBuyer \in Row /\ RealProduct \in Row /\ NoTask.row = RealBuyer /\ NoTask \notin Task
  /\ RealBuyer.batch = 0 /\ RealProduct.batch = 0 /\ NoBackfill.todo = {} /\ NoBackfill.of = "none"
  /\ NoRequest.pc = "idle" /\ NoRequest.product = RealProduct
<1>1. 1 \in 1..SIZE /\ 0 \in Nat
  BY MatchingAssumption
<1>2. RealBuyer \in Row /\ RealProduct \in Row
  BY <1>1 DEF Row, RealBuyer, RealProduct
<1>3. NoTask \notin Task
  <2>1. NoTask.tries = -1 /\ -1 \notin 0..MAX_RETRIES
    BY MatchingAssumption DEF NoTask
  <2>. QED
    BY <2>1 DEF Task
<1>. QED
  BY <1>2, <1>3 DEF NoTask, RealBuyer, RealProduct, NoBackfill, NoRequest

(* What the types come to. *)
LEMMA Types ==
  TypeOK =>
    /\ rows \subseteq Row /\ embedded \subseteq Row /\ batches \in Nat /\ seeder \in [Seeders -> Job]
    /\ queue \subseteq Task /\ worker \in [Workers -> Task \union {NoTask}]
    /\ jobs \in 0..MaxJobs /\ unserved \subseteq Row /\ late \subseteq Row /\ apart \subseteq SUBSET Nat
    /\ request.product \in Row /\ backfill.todo \subseteq Row
    /\ \A r \in Row : r.of \in Kinds /\ r.batch \in Nat /\ r.n \in 1..SIZE
BY DEF TypeOK, Job, Kinds, Row

(* A step of one seeding that commits nothing. *)
LEMMA SeederStep ==
  ASSUME TInv, NEW s \in Seeders, NEW j \in Job, seeder' = [seeder EXCEPT ![s] = j], JobOK(j),
         UNCHANGED <<tables, worker, backfill, request, classifier, late, apart>>,
         queue' \subseteq Task, \A m \in queue' : Known(m.row), jobs' \in 0..MaxJobs, unserved' \subseteq Row
  PROVE  TInv'
<1>1. seeder' \in [Seeders -> Job] /\ \A o \in Seeders : seeder'[o] = IF o = s THEN j ELSE seeder[o]
  BY Types DEF TInv
<1>2. TypeOK'
  BY <1>1 DEF TInv, TypeOK, tables, Job, Kinds
<1>3. ASSUME NEW k \in Job, JobOK(k) PROVE JobOK(k)'
  BY <1>3 DEF JobOK, Unsent, Synthetic, tables
<1>4. ASSUME NEW o \in Seeders PROVE JobOK(seeder[o])'
  <2>1. PICK k \in Job : k = seeder'[o] /\ JobOK(k)
    BY <1>1, Types DEF TInv
  <2>2. JobOK(k)'
    BY <1>3, <2>1
  <2>. QED
    BY <2>1, <2>2 DEF JobOK, Unsent, Synthetic
<1>5. AllKnown'
  BY DEF TInv, AllKnown, Known, tables
<1>. QED
  BY <1>2, <1>4, <1>5 DEF TInv

(* A step of anyone else, that may store an embedding. *)
LEMMA OtherStep ==
  ASSUME TInv, UNCHANGED <<rows, batches, seeder, apart>>,
         \/ UNCHANGED <<embedded, late>>
         \/ \E row \in Row : Known(row) /\ Upsert(row),
         TypeOK',
         \A m \in queue' : Known(m.row), \A w \in Workers : worker'[w] # NoTask => Known(worker'[w].row),
         \A r \in backfill'.todo : Known(r), Known(request'.product)
  PROVE  TInv'
<1>1. ASSUME NEW o \in Seeders PROVE JobOK(seeder[o])'
  <2>1. PICK k \in Job : k = seeder[o] /\ k = seeder'[o] /\ JobOK(k)
    BY Types DEF TInv
  <2>2. CASE UNCHANGED <<embedded, late>>
    BY <2>1, <2>2 DEF JobOK, Unsent, Synthetic
  <2>3. CASE \E row \in Row : Known(row) /\ Upsert(row)
    <3>1. PICK row \in Row : Upsert(row)
      BY <2>3
    <3>2. /\ embedded' = embedded \union {row} /\ late \subseteq late'
          /\ k.of = "product" /\ k.phase \in Clearing /\ row.of = "product" => row \in late'
      BY <2>1, <3>1 DEF Upsert, Late, Clearing
    <3>3. Synthetic("product")' = Synthetic("product") /\ \A r \in Synthetic("product") : r.of = "product"
      BY DEF Synthetic
    <3>4. JobOK(k)'
      BY <2>1, <3>2, <3>3 DEF JobOK, Unsent, Synthetic
    <3>. QED
      BY <2>1, <3>4 DEF JobOK, Unsent, Synthetic
  <2>. QED
    BY <2>2, <2>3
<1>2. AllKnown'
  BY DEF TInv, AllKnown, Known, Upsert
<1>. QED
  BY <1>1, <1>2 DEF TInv

Asked == [pc : {"idle", "embed"}, product : Row]

LEMMA RequestType == NoRequest \in Asked
BY NothingReal DEF NoRequest, Asked

LEMMA InitTInv == Init => TInv
<1>. SUFFICES ASSUME Init PROVE TInv
  OBVIOUS
<1>1. /\ FreshBuyers(1) = Fresh("buyer", 1) /\ FreshProducts(1) = Fresh("product", 1)
      /\ Fresh("buyer", 1) \subseteq Row /\ Fresh("product", 1) \subseteq Row
      /\ \A r \in Fresh("buyer", 1) \union Fresh("product", 1) : r.batch = 1
  BY FreshRows DEF Fresh, Kinds
<1>2. [row |-> RealBuyer, tries |-> 0] \in Task
  BY NothingReal, MatchingAssumption DEF Task
<1>4. /\ rows \subseteq Row /\ embedded \subseteq Row /\ batches \in Nat /\ queue \subseteq Task
      /\ (\A r \in rows : Known(r)) /\ (\A r \in embedded : Known(r)) /\ \A m \in queue : Known(m.row)
  <2>1. CASE rows = {RealBuyer, RealProduct} /\ embedded = {} /\ batches = 0 /\ queue = {[row |-> RealBuyer, tries |-> 0]}
    BY <1>2, <2>1, NothingReal DEF Known
  <2>2. CASE /\ rows = {RealBuyer, RealProduct} \union FreshBuyers(1) \union FreshProducts(1)
             /\ embedded = rows /\ batches = 1 /\ queue = {}
    <3>1. rows \subseteq Row /\ \A r \in rows : r.batch \in {0, 1}
      BY <1>1, <2>2, NothingReal
    <3>. QED
      BY <2>2, <3>1 DEF Known
  <2>. QED
    BY <2>1, <2>2 DEF Init
<1>5. TypeOK
  <2>1. seeder \in [Seeders -> Job] /\ worker \in [Workers -> Task \union {NoTask}]
    BY IdleJob DEF Init
  <2>2. backfill \in [of : {"none", "product", "buyer"}, todo : SUBSET Row]
    BY DEF Init, NoBackfill
  <2>3. jobs \in 0..MaxJobs /\ classifier \in {"fresh", "half", "ready"} /\ request \in Asked
    BY RequestType, MatchingAssumption DEF Init
  <2>4. unserved \subseteq Row /\ late \subseteq Row /\ apart \subseteq SUBSET Nat
    BY DEF Init
  <2>. QED
    BY <1>4, <2>1, <2>2, <2>3, <2>4 DEF TypeOK, Job, Kinds, Asked
<1>6. \A s \in Seeders : JobOK(seeder[s])
  BY IdleJob DEF Init
<1>7. AllKnown
  BY <1>4, NothingReal DEF Init, AllKnown, Known
<1>. QED
  BY <1>4, <1>5, <1>6, <1>7 DEF TInv

-----------------------------------------------------------------------------
(* One lemma for each step of a seeding that commits nothing. *)
LEMMA SimulatedRows ==
  ASSUME TInv, NEW of \in Kinds
  PROVE  /\ Synthetic(of) \subseteq {r \in Row : r.of = of /\ r.batch > 0}
         /\ \A r \in Synthetic(of) : r.batch \in 1..batches
BY Types DEF TInv, Synthetic, AllKnown, Known

LEMMA SeedTaskKeeps == ASSUME TInv, NEW s \in Seeders, NEW of \in Kinds, SeedTask(s, of) PROVE TInv'
<1>1. /\ jobs' = jobs + 1 /\ jobs < MaxJobs /\ jobs \in 0..MaxJobs /\ unserved \subseteq Row
      /\ UNCHANGED <<tables, queue, worker, backfill, request, classifier, unserved, late, apart>>
  BY Types DEF SeedTask, ai, asked, histories, TInv
<1>2. PICK target \in SUBSET Row : target = embedded \intersect Synthetic(of)
  BY SimulatedRows
<1>3. PICK j : j = [NoSeeding EXCEPT !.phase = "embeddings", !.of = of, !.target = target]
  OBVIOUS
<1>4. /\ j.phase = "embeddings" /\ j.of = of /\ j.target = target /\ j.rows = {} /\ j.unsent = {} /\ j.script = FALSE
      /\ j.embeddings = {} /\ j.blind = {}
  BY <1>3 DEF NoSeeding
<1>5. j = [phase |-> "embeddings", of |-> of, script |-> FALSE, target |-> target,
           embeddings |-> {}, rows |-> {}, blind |-> {}, unsent |-> {}]
  BY <1>3 DEF NoSeeding
<1>6. j \in Job
  BY <1>5 DEF Job
<1>7. JobOK(j)
  BY <1>2, <1>4 DEF JobOK, Clearing
<1>8. seeder' = [seeder EXCEPT ![s] = j]
  BY <1>2, <1>3 DEF SeedTask
<1>9. jobs' \in 0..MaxJobs /\ queue' \subseteq Task /\ (\A m \in queue' : Known(m.row)) /\ unserved' \subseteq Row
  BY <1>1, Types, MatchingAssumption DEF TInv, AllKnown
<1>. QED
  BY <1>1, <1>6, <1>7, <1>8, <1>9, SeederStep

LEMMA SeedScriptKeeps == ASSUME TInv, NEW s \in Seeders, NEW clear \in BOOLEAN, SeedScript(s, clear) PROVE TInv'
<1>1. /\ jobs' = jobs + 1 /\ jobs < MaxJobs /\ jobs \in 0..MaxJobs /\ unserved \subseteq Row
      /\ UNCHANGED <<tables, queue, worker, backfill, request, classifier, unserved, late, apart>>
  BY Types DEF SeedScript, ai, asked, histories, TInv
<1>2. jobs' \in 0..MaxJobs /\ queue' \subseteq Task /\ (\A m \in queue' : Known(m.row)) /\ unserved' \subseteq Row
  BY <1>1, Types, MatchingAssumption DEF TInv, AllKnown
<1>3. PICK target \in SUBSET Row : target = {r \in embedded : r.of = "buyer"}
  BY Types DEF TInv
<1>4. PICK j : /\ seeder' = [seeder EXCEPT ![s] = j]
               /\ j = IF clear THEN [NoSeeding EXCEPT !.phase = "embeddings", !.script = TRUE, !.target = target]
                      ELSE [NoSeeding EXCEPT !.phase = "filling", !.script = TRUE, !.blind = 1..batches]
  BY <1>3 DEF SeedScript
<1>5. CASE clear
  <2>1. j = [phase |-> "embeddings", of |-> "buyer", script |-> TRUE, target |-> target,
             embeddings |-> {}, rows |-> {}, blind |-> {}, unsent |-> {}]
    BY <1>4, <1>5 DEF NoSeeding
  <2>2. j \in Job /\ JobOK(j)
    BY <2>1 DEF Job, JobOK, Clearing, Kinds
  <2>. QED
    BY <1>1, <1>2, <1>4, <2>2, SeederStep
<1>6. CASE ~clear
  <2>1. j = [phase |-> "filling", of |-> "buyer", script |-> TRUE, target |-> {},
             embeddings |-> {}, rows |-> {}, blind |-> 1..batches, unsent |-> {}]
    BY <1>4, <1>6 DEF NoSeeding
  <2>2. 1..batches \in SUBSET Nat
    OBVIOUS
  <2>3. j \in Job
    BY <2>1, <2>2 DEF Job, Kinds
  <2>4. JobOK(j)
    BY <2>1, SimulatedRows DEF JobOK, Clearing, Kinds
  <2>. QED
    BY <1>1, <1>2, <1>4, <2>3, <2>4, SeederStep
<1>. QED
  BY <1>5, <1>6

(* What a step leaves alone that only moves a seeding on. *)
LEMMA OnlySeeder ==
  ASSUME TInv, UNCHANGED <<tables, ai, backfill, jobs, asked, histories>>
  PROVE  /\ UNCHANGED <<tables, worker, backfill, request, classifier, late, apart>>
         /\ queue' \subseteq Task /\ (\A m \in queue' : Known(m.row)) /\ jobs' \in 0..MaxJobs /\ unserved' \subseteq Row
BY Types DEF TInv, AllKnown, ai, asked, histories

LEMMA ClearEmbeddingsKeeps == ASSUME TInv, NEW s \in Seeders, ClearEmbeddings(s) PROVE TInv'
<1>1. PICK k \in Job : k = seeder[s] /\ JobOK(k) /\ k.phase = "embeddings"
  BY Types DEF TInv, ClearEmbeddings
<1>2. k.of \in Kinds /\ embedded \subseteq Row
  BY <1>1, Types DEF Job, TInv
<1>3. PICK gone \in SUBSET Row, target \in SUBSET Row : gone = k.target \intersect embedded /\ target = Synthetic(k.of)
  BY <1>2, SimulatedRows
<1>4. PICK j : j = [k EXCEPT !.phase = "rows", !.embeddings = gone, !.target = target]
  OBVIOUS
<1>5. [k EXCEPT !.phase = "rows"] \in Job
  BY <1>1 DEF Job
<1>6. j \in Job
  BY <1>4, <1>5 DEF Job
<1>7. /\ j.phase = "rows" /\ j.of = k.of /\ j.script = k.script /\ j.embeddings = gone /\ j.target = target
      /\ j.rows = k.rows /\ j.unsent = k.unsent
  BY <1>1, <1>4 DEF Job
<1>8. JobOK(j)
  BY <1>1, <1>2, <1>3, <1>7, SimulatedRows DEF JobOK, Clearing
<1>9. seeder' = [seeder EXCEPT ![s] = j] /\ UNCHANGED <<tables, ai, backfill, jobs, asked, histories>>
  <2>1. seeder' = [seeder EXCEPT ![s].phase = "rows", ![s].embeddings = gone, ![s].target = target]
    BY <1>1, <1>3 DEF ClearEmbeddings
  <2>2. \A o \in Seeders : seeder'[o] = IF o = s THEN j ELSE seeder[o]
    BY <1>1, <1>4, <2>1, Types DEF TInv
  <2>3. DOMAIN seeder' = Seeders /\ seeder' = [o \in Seeders |-> seeder'[o]]
    BY <2>1, Types DEF TInv
  <2>. QED
    BY <2>2, <2>3, Types DEF TInv, ClearEmbeddings
<1>. QED
  BY <1>6, <1>8, <1>9, OnlySeeder, SeederStep

LEMMA ClearRowsKeeps == ASSUME TInv, NEW s \in Seeders, ClearRows(s) PROVE TInv'
<1>1. PICK k \in Job : k = seeder[s] /\ JobOK(k) /\ k.phase = "rows"
  BY Types DEF TInv, ClearRows
<1>2. PICK gone \in SUBSET Row : gone = k.target \intersect rows
  BY Types DEF TInv
<1>3. PICK j : j = [k EXCEPT !.phase = "filling", !.rows = gone, !.target = {}]
  OBVIOUS
<1>4. [k EXCEPT !.phase = "filling"] \in Job
  BY <1>1 DEF Job
<1>5. j \in Job
  BY <1>3, <1>4 DEF Job
<1>6. /\ j.phase = "filling" /\ j.of = k.of /\ j.script = k.script /\ j.embeddings = k.embeddings
      /\ j.rows = gone /\ j.unsent = k.unsent /\ j.blind = k.blind
  BY <1>1, <1>3 DEF Job
<1>7. JobOK(j)
  BY <1>1, <1>2, <1>6 DEF JobOK, Clearing, Synthetic
<1>8. seeder' = [seeder EXCEPT ![s] = j] /\ UNCHANGED <<tables, ai, backfill, jobs, asked, histories>>
  <2>1. seeder' = [seeder EXCEPT ![s].phase = "filling", ![s].rows = gone, ![s].target = {}]
    BY <1>1, <1>2 DEF ClearRows
  <2>2. \A o \in Seeders : seeder'[o] = IF o = s THEN j ELSE seeder[o]
    BY <1>1, <1>3, <2>1, Types DEF TInv
  <2>3. DOMAIN seeder' = Seeders /\ seeder' = [o \in Seeders |-> seeder'[o]]
    BY <2>1, Types DEF TInv
  <2>. QED
    BY <2>2, <2>3, Types DEF TInv, ClearRows
<1>. QED
  BY <1>5, <1>7, <1>8, OnlySeeder, SeederStep

LEMMA SeedAbortsKeeps == ASSUME TInv, NEW s \in Seeders, SeedAborts(s) PROVE TInv'
BY IdleJob, OnlySeeder, SeederStep DEF SeedAborts

(* The first of the rows still to be announced, and what is left. *)
LEMMA FirstUnsent ==
  ASSUME TInv, NEW k \in Job, Unsent(k)
  PROVE  LET row == CHOOSE r \in k.unsent : \A o \in k.unsent : r.n <= o.n
         IN  /\ row \in k.unsent /\ Known(row)
             /\ \A j \in Job : (j.of = k.of /\ j.unsent = k.unsent \ {row} /\ j.unsent # {}) => Unsent(j)
<1>1. PICK b \in 1..batches, m \in 1..SIZE : k.unsent = {r \in Fresh(k.of, b) : r.n >= m} /\ k.unsent # {}
  BY DEF Unsent
<1>2. SIZE \in Nat /\ PROFILES \in 1..SIZE /\ k.of \in Kinds /\ batches \in Nat
  BY MatchingAssumption, Types DEF Job, TInv
<1>3. PICK top \in 1..SIZE : Fresh(k.of, b) = {[of |-> k.of, batch |-> b, n |-> n] : n \in 1..top}
  <2>1. CASE k.of = "buyer"
    <3>1. Fresh(k.of, b) = {[of |-> k.of, batch |-> b, n |-> n] : n \in 1..SIZE} /\ SIZE \in 1..SIZE
      BY <1>2, <2>1 DEF Fresh, FreshBuyers, BUYER_TEMPLATES
    <3>. QED
      BY <3>1
  <2>2. CASE k.of = "product"
    BY <1>2, <2>2 DEF Fresh, FreshProducts, UMKM_PROFILES
  <2>. QED
    BY <1>2, <2>1, <2>2 DEF Kinds
<1>4. PICK first : first = [of |-> k.of, batch |-> b, n |-> m]
  OBVIOUS
<1>5. /\ \A r \in k.unsent : r = [of |-> k.of, batch |-> b, n |-> r.n] /\ r.n \in 1..top /\ r.n >= m
      /\ \A n \in 1..top : n >= m => [of |-> k.of, batch |-> b, n |-> n] \in k.unsent
  BY <1>1, <1>3
<1>6. m <= top
  BY <1>1, <1>2, <1>5
<1>7. first \in k.unsent /\ first.n = m
  BY <1>2, <1>4, <1>5, <1>6
<1>8. \A r \in k.unsent : (\A o \in k.unsent : r.n <= o.n) => r = first
  BY <1>2, <1>4, <1>5, <1>7
<1>9. PICK row : row = CHOOSE r \in k.unsent : \A o \in k.unsent : r.n <= o.n
  OBVIOUS
<1>10. row = first
  BY <1>5, <1>7, <1>8, <1>9
<1>11. Known(first)
  BY <1>2, <1>4 DEF Known
<1>12. ASSUME NEW j \in Job, j.of = k.of, j.unsent = k.unsent \ {first}, j.unsent # {} PROVE Unsent(j)
  <2>1. PICK l : l = m + 1
    OBVIOUS
  <2>2. j.unsent = {r \in Fresh(k.of, b) : r.n >= l}
    BY <1>1, <1>2, <1>3, <1>4, <1>5, <1>12, <2>1
  <2>3. l \in 1..SIZE
    <3>1. PICK r \in j.unsent : TRUE
      BY <1>12
    <3>2. r.n \in 1..top /\ r.n >= m + 1
      BY <1>3, <2>1, <2>2, <3>1
    <3>. QED
      BY <1>2, <2>1, <3>2
  <2>. QED
    BY <1>12, <2>2, <2>3 DEF Unsent
<1>. QED
  BY <1>7, <1>9, <1>10, <1>11, <1>12

LEMMA DispatchKeeps == ASSUME TInv, NEW s \in Seeders, Dispatch(s) PROVE TInv'
<1>1. PICK k \in Job : k = seeder[s] /\ JobOK(k) /\ k.phase = "sending" /\ Unsent(k)
  BY Types DEF TInv, Dispatch, JobOK
<1>2. PICK row : row = CHOOSE r \in k.unsent : \A o \in k.unsent : r.n <= o.n
  OBVIOUS
<1>3. PICK left : left = k.unsent \ {row}
  OBVIOUS
<1>4. /\ row \in k.unsent /\ row \in Row /\ Known(row) /\ left \in SUBSET Row
      /\ \A j \in Job : (j.of = k.of /\ j.unsent = left /\ j.unsent # {}) => Unsent(j)
  BY <1>1, <1>2, <1>3, FirstUnsent DEF Job
<1>5. PICK m \in Task : m = [row |-> row, tries |-> 0]
  <2>1. 0 \in 0..MAX_RETRIES
    BY MatchingAssumption
  <2>2. [row |-> row, tries |-> 0] \in Task
    BY <1>4, <2>1 DEF Task
  <2>. QED
    BY <2>2
<1>6. /\ queue' = queue \union {m} /\ UNCHANGED <<tables, worker, backfill, jobs, asked, histories>>
      /\ seeder' = [seeder EXCEPT ![s] = IF left = {} THEN NoSeeding ELSE [k EXCEPT !.unsent = left]]
  BY <1>1, <1>2, <1>3, <1>5 DEF Dispatch
<1>7. queue' \subseteq Task /\ \A q \in queue' : Known(q.row)
  BY <1>4, <1>5, <1>6, Types DEF TInv, AllKnown
<1>8. PICK j \in Job : JobOK(j) /\ seeder' = [seeder EXCEPT ![s] = j]
  <2>1. CASE left = {}
    BY <1>6, <2>1, IdleJob
  <2>2. CASE left # {}
    <3>1. PICK j : j = [k EXCEPT !.unsent = left]
      OBVIOUS
    <3>2. /\ j \in Job /\ j.phase = k.phase /\ j.of = k.of /\ j.script = k.script /\ j.rows = k.rows /\ j.unsent = left
      BY <1>1, <1>4, <3>1 DEF Job
    <3>3. JobOK(j)
      BY <1>1, <1>4, <2>2, <3>2 DEF JobOK, Clearing
    <3>. QED
      BY <1>6, <2>2, <3>1, <3>2, <3>3
  <2>. QED
    BY <2>1, <2>2
<1>9. UNCHANGED <<tables, worker, backfill, request, classifier, late, apart>> /\ jobs' \in 0..MaxJobs /\ unserved' \subseteq Row
  BY <1>6, Types DEF TInv, asked, histories
<1>. QED
  BY <1>7, <1>8, <1>9, SeederStep

LEMMA DispatchBreaksKeeps == ASSUME TInv, NEW s \in Seeders, DispatchBreaks(s) PROVE TInv'
<1>1. seeder[s].unsent \subseteq Row
  BY Types DEF TInv, Job
<1>2. UNCHANGED <<tables, queue, worker, backfill, request, classifier, late, apart, jobs>>
  BY DEF DispatchBreaks, ai, asked
<1>3. jobs' \in 0..MaxJobs /\ queue' \subseteq Task /\ (\A m \in queue' : Known(m.row)) /\ unserved' \subseteq Row
  BY <1>1, <1>2, Types DEF TInv, AllKnown, DispatchBreaks
<1>4. seeder' = [seeder EXCEPT ![s] = NoSeeding]
  BY DEF DispatchBreaks
<1>. QED
  BY <1>2, <1>3, <1>4, IdleJob, SeederStep

(* The commit: what is gone, what is new, and who missed it. *)
LEMMA Committed ==
  ASSUME TInv, NEW s \in Seeders, NEW embeds \in BOOLEAN, SeedCommit(s, embeds), NEW k, k = seeder[s]
  PROVE  LET fresh == Fresh(k.of, batches + 1)
         IN  /\ k \in Job /\ JobOK(k) /\ k.phase = "filling" /\ k.of \in Kinds /\ k.unsent = {}
             /\ fresh \subseteq Row /\ (\A r \in fresh : r.of = k.of /\ r.batch = batches + 1)
             /\ rows' = (rows \ k.rows) \union fresh /\ batches' = batches + 1
             /\ embedded' = {r \in embedded \ k.embeddings : r.of = "buyer" => r \in rows \ k.rows}
                              \union (IF embeds THEN fresh ELSE {})
             /\ unserved' = unserved \union (k.embeddings \intersect (rows \ k.rows))
                              \union (IF k.script /\ ~embeds THEN fresh ELSE {})
             /\ apart' = apart \union {{b, batches + 1} : b \in k.blind}
             /\ (embeds => k.script) /\ (k.of = "product" => Synthetic("product") \subseteq k.rows)
             /\ UNCHANGED <<queue, worker, backfill, jobs, classifier, request, late>>
<1>1. k \in Job /\ JobOK(k) /\ k.phase = "filling"
  BY Types DEF TInv, SeedCommit
<1>2. k.of \in Kinds /\ batches + 1 \in Nat /\ k.unsent = {}
  BY <1>1, Types DEF Job, TInv, JobOK
<1>. QED
  BY <1>1, <1>2, FreshRows DEF SeedCommit, ai, asked

LEMMA CommitKeeps ==
  ASSUME TInv, NEW s \in Seeders, NEW embeds \in BOOLEAN, SeedCommit(s, embeds) PROVE TInv'
<1>1. PICK k : k = seeder[s]
  OBVIOUS
<1>2. PICK b : b = batches + 1
  OBVIOUS
<1>3. PICK fresh : fresh = Fresh(k.of, b)
  OBVIOUS
<1>4. /\ k \in Job /\ JobOK(k) /\ k.phase = "filling" /\ k.of \in Kinds
      /\ fresh \subseteq Row /\ (\A r \in fresh : r.of = k.of /\ r.batch = b)
      /\ rows' = (rows \ k.rows) \union fresh /\ batches' = b
      /\ embedded' = {r \in embedded \ k.embeddings : r.of = "buyer" => r \in rows \ k.rows}
                       \union (IF embeds THEN fresh ELSE {})
      /\ unserved' = unserved \union (k.embeddings \intersect (rows \ k.rows))
                       \union (IF k.script /\ ~embeds THEN fresh ELSE {})
      /\ apart' = apart \union {{x, b} : x \in k.blind}
      /\ embeds => k.script
      /\ UNCHANGED <<queue, worker, backfill, jobs, classifier, request, late>>
  BY <1>1, <1>2, <1>3, Committed
<1>5. /\ batches \in Nat /\ b \in Nat /\ rows \subseteq Row /\ embedded \subseteq Row /\ seeder \in [Seeders -> Job]
      /\ unserved \subseteq Row /\ apart \subseteq SUBSET Nat /\ k.blind \subseteq Nat
      /\ \A r \in Row : r.batch \in Nat
  BY <1>2, <1>4, Types DEF TInv, Job
<1>6. /\ seeder' = [t \in Seeders |->
            IF t = s THEN IF k.script THEN NoSeeding
                          ELSE [NoSeeding EXCEPT !.phase = "sending", !.of = k.of, !.unsent = fresh]
            ELSE IF seeder[t].phase \in {"rows", "filling"}
                   THEN [seeder[t] EXCEPT !.blind = @ \union {b}]
            ELSE seeder[t]]
  BY <1>1, <1>2, <1>3 DEF SeedCommit
<1>7. /\ rows' \subseteq Row /\ embedded' \subseteq Row /\ batches' \in Nat /\ unserved' \subseteq Row /\ apart' \subseteq SUBSET Nat
  <2>1. apart' \subseteq SUBSET Nat
    <3>1. \A x \in k.blind : {x, b} \in SUBSET Nat
      BY <1>5
    <3>2. {{x, b} : x \in k.blind} \subseteq SUBSET Nat
      BY <3>1
    <3>. QED
      BY <1>4, <1>5, <3>2
  <2>. QED
    BY <1>4, <1>5, <2>1
<1>8. \A of \in Kinds : \A r \in Synthetic(of)' : r \in Synthetic(of) \/ (r \in fresh /\ r.batch = b /\ r.of = k.of)
  BY <1>4 DEF Synthetic
<1>9. ASSUME NEW t \in Seeders PROVE seeder'[t] \in Job /\ \E j \in Job : j = seeder'[t] /\ JobOK(j)'
  <2>1. CASE t = s /\ k.script
    BY <1>6, <2>1, IdleJob DEF JobOK, NoSeeding, Clearing
  <2>2. CASE t = s /\ ~k.script
    <3>1. PICK j : j = [NoSeeding EXCEPT !.phase = "sending", !.of = k.of, !.unsent = fresh]
      OBVIOUS
    <3>2. j = [phase |-> "sending", of |-> k.of, script |-> FALSE, target |-> {},
               embeddings |-> {}, rows |-> {}, blind |-> {}, unsent |-> fresh]
      BY <3>1 DEF NoSeeding
    <3>3. j \in Job
      BY <1>4, <3>2 DEF Job
    <3>4. Unsent(j)'
      <4>1. 1 \in 1..SIZE /\ PROFILES \in 1..SIZE
        BY MatchingAssumption
      <4>2. PICK first : first = [of |-> k.of, batch |-> b, n |-> 1]
        OBVIOUS
      <4>3. first \in fresh /\ \A r \in fresh : r.n >= 1
        BY <1>3, <1>4, <4>1, <4>2, MatchingAssumption
           DEF Fresh, FreshBuyers, FreshProducts, BUYER_TEMPLATES, UMKM_PROFILES, Kinds, Row
      <4>4. b \in 1..b
        BY <1>2, <1>5
      <4>5. j.unsent = {r \in Fresh(j.of, b) : r.n >= 1} /\ j.unsent # {}
        BY <1>3, <3>2, <4>3
      <4>. QED
        BY <1>4, <4>1, <4>4, <4>5 DEF Unsent
    <3>5. JobOK(j)'
      BY <3>2, <3>4 DEF JobOK, Clearing
    <3>. QED
      BY <1>6, <2>2, <3>1, <3>3, <3>5
  <2>3. CASE t # s
    <3>1. PICK o \in Job : o = seeder[t] /\ JobOK(o)
      BY <1>5 DEF TInv
    <3>2. PICK j : j = IF o.phase \in {"rows", "filling"} THEN [o EXCEPT !.blind = @ \union {b}] ELSE o
      OBVIOUS
    <3>3. /\ j \in Job /\ j.phase = o.phase /\ j.of = o.of /\ j.script = o.script /\ j.target = o.target
          /\ j.embeddings = o.embeddings /\ j.rows = o.rows /\ j.unsent = o.unsent /\ o.blind \subseteq j.blind
          /\ o.phase \in {"rows", "filling"} => b \in j.blind
      BY <1>5, <3>1, <3>2 DEF Job
    <3>4. Unsent(o) => Unsent(j)'
      BY <1>2, <1>4, <1>5, <3>3 DEF Unsent
    <3>5. o.of \in Kinds
      BY <3>1 DEF Job
    <3>6. \A r \in (embedded \intersect Synthetic("product"))' : r \in embedded \intersect Synthetic("product")
      <4>1. \A r \in embedded' : r \in embedded \/ (r \in fresh /\ k.of = "buyer")
        BY <1>4 DEF JobOK
      <4>2. \A r \in embedded : r.batch # b
        BY <1>2, <1>5 DEF TInv, AllKnown, Known
      <4>3. \A r \in Synthetic("product")' : r.of = "product"
        BY DEF Synthetic
      <4>. QED
        BY <1>4, <1>8, <4>1, <4>2, <4>3 DEF Kinds
    <3>7. JobOK(j)'
      BY <1>4, <1>8, <3>1, <3>3, <3>4, <3>5, <3>6 DEF JobOK, Clearing
    <3>8. seeder'[t] = j
      BY <1>6, <2>3, <3>1, <3>2
    <3>. QED
      BY <3>3, <3>7, <3>8
  <2>. QED
    BY <2>1, <2>2, <2>3
<1>10. seeder' \in [Seeders -> Job]
  BY <1>6, <1>9
<1>11. \A t \in Seeders : JobOK(seeder[t])'
  BY <1>9 DEF JobOK, Unsent, Synthetic
<1>12. TypeOK'
  BY <1>4, <1>7, <1>10 DEF TInv, TypeOK, Job, Kinds
<1>13. AllKnown'
  <2>1. \A r \in Row : Known(r) => Known(r)'
    BY <1>2, <1>4, <1>5 DEF Known
  <2>2. (\A r \in rows' : Known(r)') /\ \A r \in embedded' : Known(r)'
    BY <1>2, <1>4, <1>5, <2>1 DEF TInv, AllKnown, Known
  <2>3. \A m \in queue : m.row \in Row
    BY Types DEF TInv, Task
  <2>4. \A w \in Workers : worker[w] # NoTask => worker[w].row \in Row
    BY Types DEF TInv, Task
  <2>. QED
    BY <1>4, <2>1, <2>2, <2>3, <2>4, Types DEF TInv, AllKnown, Known
<1>. QED
  BY <1>7, <1>11, <1>12, <1>13 DEF TInv

-----------------------------------------------------------------------------
(* One lemma for the queue, the backfill and the searches. *)
LEMMA QueueKeeps ==
  ASSUME TInv, NEW w \in Workers,
         \/ \E task \in queue : TakeTask(w, task)
         \/ StoreEmbedding(w) \/ TaskFails(w) \/ WorkerLost(w)
  PROVE  TInv'
<1>1. /\ queue \subseteq Task /\ worker \in [Workers -> Task \union {NoTask}] /\ unserved \subseteq Row
      /\ (\A m \in queue : Known(m.row)) /\ (\A o \in Workers : worker[o] # NoTask => Known(worker[o].row))
      /\ (\A r \in backfill.todo : Known(r)) /\ Known(request.product)
  BY Types DEF TInv, AllKnown
<1>2. \A m \in Task : m.row \in Row
  BY DEF Task
<1>3. ASSUME UNCHANGED <<tables, seeder, backfill, jobs, asked, apart, late>>, queue' \subseteq Task, unserved' \subseteq Row,
             worker' \in [Workers -> Task \union {NoTask}], \A m \in queue' : Known(m.row),
             \A o \in Workers : worker'[o] # NoTask => Known(worker'[o].row)
      PROVE  TInv'
  <2>1. TypeOK'
    BY <1>3 DEF TInv, TypeOK, tables, asked
  <2>. QED
    BY <1>1, <1>3, <2>1, OtherStep DEF tables, asked
<1>4. ASSUME NEW task \in queue, TakeTask(w, task) PROVE TInv'
  <2>1. PICK m \in Task \union {NoTask} : worker' = [worker EXCEPT ![w] = m] /\ (m = NoTask \/ m = task)
    BY <1>1, <1>4 DEF TakeTask
  <2>2. /\ worker' \in [Workers -> Task \union {NoTask}] /\ queue' = queue \ {task}
        /\ \A o \in Workers : worker'[o] # NoTask => Known(worker'[o].row)
    BY <1>1, <1>4, <2>1 DEF TakeTask
  <2>. QED
    BY <1>1, <1>3, <1>4, <2>2 DEF TakeTask, histories
<1>5. ASSUME worker[w] # NoTask, worker' = [worker EXCEPT ![w] = NoTask]
      PROVE  /\ worker' \in [Workers -> Task \union {NoTask}]
             /\ \A o \in Workers : worker'[o] # NoTask => Known(worker'[o].row)
             /\ worker[w] \in Task /\ Known(worker[w].row) /\ worker[w].row \in Row
  BY <1>1, <1>2, <1>5
<1>6. ASSUME WorkerLost(w) PROVE TInv'
  <2>1. worker[w] # NoTask /\ worker' = [worker EXCEPT ![w] = NoTask] /\ UNCHANGED <<tables, seeder, backfill, jobs, asked, apart, late>>
    BY <1>6 DEF WorkerLost
  <2>2. queue' \subseteq Task /\ unserved' \subseteq Row /\ \A m \in queue' : Known(m.row)
    BY <1>1, <1>5, <1>6, <2>1 DEF WorkerLost, Known
  <2>. QED
    BY <1>3, <1>5, <2>1, <2>2
<1>7. ASSUME TaskFails(w) PROVE TInv'
  <2>1. worker[w] # NoTask /\ worker' = [worker EXCEPT ![w] = NoTask] /\ UNCHANGED <<tables, seeder, backfill, jobs, asked, apart, late>>
    BY <1>7 DEF TaskFails
  <2>2. CASE worker[w].tries < MAX_RETRIES
    <3>1. PICK n : n = worker[w].tries + 1
      OBVIOUS
    <3>2. n \in 0..MAX_RETRIES
      BY <1>5, <2>1, <2>2, <3>1, MatchingAssumption DEF Task
    <3>3. PICK m : m = [worker[w] EXCEPT !.tries = n]
      OBVIOUS
    <3>4. m \in Task /\ m.row = worker[w].row
      BY <1>5, <2>1, <3>2, <3>3 DEF Task
    <3>5. queue' = queue \union {m} /\ unserved' = unserved
      BY <1>7, <2>2, <3>1, <3>3 DEF TaskFails
    <3>6. \A q \in queue' : Known(q.row)
      BY <1>1, <1>5, <2>1, <3>4, <3>5 DEF Known
    <3>. QED
      BY <1>1, <1>3, <1>5, <2>1, <3>4, <3>5, <3>6
  <2>3. CASE ~(worker[w].tries < MAX_RETRIES)
    <3>1. queue' = queue /\ unserved' = unserved \union {worker[w].row}
      BY <1>7, <2>3 DEF TaskFails
    <3>. QED
      BY <1>1, <1>3, <1>5, <2>1, <3>1
  <2>. QED
    BY <2>2, <2>3
<1>8. ASSUME StoreEmbedding(w) PROVE TInv'
  <2>1. PICK row \in Row : row = worker[w].row /\ Known(row) /\ Upsert(row)
    BY <1>1, <1>2, <1>8 DEF StoreEmbedding
  <2>2. /\ worker[w] # NoTask /\ worker' = [worker EXCEPT ![w] = NoTask]
        /\ UNCHANGED <<rows, batches, seeder, queue, backfill, jobs, asked, unserved, apart>>
    BY <1>8 DEF StoreEmbedding
  <2>3. embedded' \subseteq Row /\ late' \subseteq Row
    BY <2>1, Types DEF TInv, Upsert
  <2>4. TypeOK'
    BY <1>5, <2>2, <2>3 DEF TInv, TypeOK, asked
  <2>. QED
    BY <1>1, <1>5, <2>1, <2>2, <2>4, OtherStep DEF asked
<1>. QED
  BY <1>4, <1>6, <1>7, <1>8

LEMMA BackfillKeeps ==
  ASSUME TInv, (\E of \in Kinds : BackfillSelect(of)) \/ (\E row \in backfill.todo : BackfillStep(row)) \/ BackfillEnds
  PROVE  TInv'
<1>1. /\ (\A m \in queue : Known(m.row)) /\ (\A o \in Workers : worker[o] # NoTask => Known(worker[o].row))
      /\ (\A r \in backfill.todo : Known(r)) /\ Known(request.product) /\ (\A r \in rows : Known(r))
      /\ rows \subseteq Row /\ backfill \in [of : {"none", "product", "buyer"}, todo : SUBSET Row] /\ jobs \in 0..MaxJobs
  BY DEF TInv, AllKnown, TypeOK
<1>2. ASSUME UNCHANGED <<tables, seeder, ai, asked, histories>>, jobs' \in 0..MaxJobs,
             backfill' \in [of : {"none", "product", "buyer"}, todo : SUBSET Row], \A r \in backfill'.todo : Known(r)
      PROVE  TInv'
  <2>1. TypeOK'
    BY <1>2 DEF TInv, TypeOK, tables, ai, asked, histories
  <2>. QED
    BY <1>1, <1>2, <2>1, OtherStep DEF tables, ai, asked, histories
<1>3. ASSUME NEW of \in Kinds, BackfillSelect(of) PROVE TInv'
  <2>1. jobs' \in 0..MaxJobs
    BY <1>1, <1>3, MatchingAssumption DEF BackfillSelect
  <2>2. PICK todo \in SUBSET Row : todo = {r \in rows : r.of = of}
    BY <1>1
  <2>3. backfill' = [of |-> of, todo |-> todo] /\ UNCHANGED <<tables, seeder, ai, asked, histories>>
    BY <1>3, <2>2 DEF BackfillSelect
  <2>4. backfill' \in [of : {"none", "product", "buyer"}, todo : SUBSET Row] /\ \A r \in backfill'.todo : Known(r)
    BY <1>1, <2>2, <2>3 DEF Kinds
  <2>. QED
    BY <1>2, <2>1, <2>3, <2>4
<1>4. ASSUME BackfillEnds PROVE TInv'
  <2>1. NoBackfill \in [of : {"none", "product", "buyer"}, todo : SUBSET Row] /\ NoBackfill.todo = {}
    BY DEF NoBackfill
  <2>. QED
    BY <1>1, <1>2, <1>4, <2>1 DEF BackfillEnds
<1>5. ASSUME NEW row \in backfill.todo, BackfillStep(row) PROVE TInv'
  <2>1. row \in Row /\ Known(row) /\ Upsert(row)
    BY <1>1, <1>5 DEF BackfillStep
  <2>2. backfill' = [backfill EXCEPT !.todo = @ \ {row}] /\ UNCHANGED <<rows, batches, seeder, ai, jobs, asked, unserved, apart>>
    BY <1>5 DEF BackfillStep
  <2>3. backfill' \in [of : {"none", "product", "buyer"}, todo : SUBSET Row] /\ \A r \in backfill'.todo : Known(r)
    BY <1>1, <2>2
  <2>4. embedded' \subseteq Row /\ late' \subseteq Row
    BY <2>1, Types DEF TInv, Upsert
  <2>5. TypeOK'
    BY <2>2, <2>3, <2>4 DEF TInv, TypeOK, ai, asked
  <2>. QED
    BY <1>1, <2>1, <2>2, <2>3, <2>5, OtherStep DEF ai, asked
<1>. QED
  BY <1>3, <1>4, <1>5

(* A search that begins, or the classifier. *)
LEMMA RequestStep ==
  ASSUME TInv, UNCHANGED <<tables, seeder, ai, backfill, jobs, histories>>, classifier' \in {"fresh", "half", "ready"},
         request' \in Asked, Known(request'.product)
  PROVE  TInv'
<1>1. TypeOK'
  BY DEF TInv, TypeOK, Asked, tables, ai, histories
<1>. QED
  BY <1>1, OtherStep DEF TInv, AllKnown, tables, ai, histories

LEMMA RequestKeeps ==
  ASSUME TInv,
         \/ \E product \in {RealProduct} \union FreshProducts(batches) : search_buyers(product)
         \/ \E up \in BOOLEAN : classify(up)
  PROVE  TInv'
<1>1. classifier \in {"fresh", "half", "ready"} /\ request \in Asked /\ batches \in Nat /\ Known(request.product)
  BY DEF TInv, TypeOK, Asked, AllKnown
<1>2. ASSUME NEW product \in {RealProduct} \union FreshProducts(batches), search_buyers(product) PROVE TInv'
  <2>1. product \in Row /\ Known(product)
    BY <1>1, FreshRows, NothingReal DEF Kinds, Fresh, Known
  <2>2. PICK new \in Asked : new = [pc |-> "embed", product |-> product]
    BY <2>1 DEF Asked
  <2>3. request' = new /\ UNCHANGED <<tables, seeder, ai, backfill, jobs, classifier, histories>>
    BY <1>2, <2>2 DEF search_buyers
  <2>4. Known(request'.product)
    BY <2>1, <2>2, <2>3 DEF Known, tables
  <2>. QED
    BY <1>1, <2>3, <2>4, RequestStep
<1>3. ASSUME NEW up \in BOOLEAN, classify(up) PROVE TInv'
  <2>1. classifier' \in {"fresh", "half", "ready"} /\ UNCHANGED <<tables, seeder, ai, backfill, jobs, request, histories>>
    BY <1>3 DEF classify
  <2>. QED
    BY <1>1, <2>1, RequestStep
<1>. QED
  BY <1>2, <1>3

LEMMA EnsureKeeps == ASSUME TInv, _ensure_product_embedding PROVE TInv'
<1>1. request.product \in Row /\ Known(request.product)
  BY DEF TInv, TypeOK, AllKnown
<1>2. request' = NoRequest /\ UNCHANGED <<rows, batches, seeder, ai, backfill, jobs, classifier, unserved, apart>>
  BY DEF _ensure_product_embedding
<1>3. UNCHANGED <<embedded, late>> \/ Upsert(request.product)
  BY DEF _ensure_product_embedding
<1>4. embedded' \subseteq Row /\ late' \subseteq Row
  BY <1>1, <1>3, Types DEF TInv, Upsert
<1>5. TypeOK'
  BY <1>2, <1>4, RequestType DEF TInv, TypeOK, Asked, ai
<1>6. Known(NoRequest.product)
  BY NothingReal, Types DEF TInv, Known
<1>. QED
  BY <1>1, <1>2, <1>3, <1>5, <1>6, OtherStep DEF TInv, AllKnown, ai

LEMMA NextTInv == TInv /\ [Next]_vars => TInv'
<1>. SUFFICES ASSUME TInv, [Next]_vars PROVE TInv'
  OBVIOUS
<1>1. CASE UNCHANGED vars
  BY <1>1 DEF TInv, TypeOK, AllKnown, Known, JobOK, Unsent, Synthetic, vars, tables, ai, asked, histories
<1>2. ASSUME NEW s \in Seeders,
             \/ \E of \in Kinds : SeedTask(s, of)
             \/ \E clear \in BOOLEAN : SeedScript(s, clear)
             \/ \E embeds \in BOOLEAN : SeedCommit(s, embeds)
             \/ ClearEmbeddings(s) \/ ClearRows(s) \/ SeedAborts(s) \/ Dispatch(s) \/ DispatchBreaks(s)
      PROVE  TInv'
  BY <1>2, SeedTaskKeeps, SeedScriptKeeps, CommitKeeps, ClearEmbeddingsKeeps, ClearRowsKeeps, SeedAbortsKeeps,
     DispatchKeeps, DispatchBreaksKeeps
<1>. QED
  BY <1>1, <1>2, QueueKeeps, BackfillKeeps, RequestKeeps, EnsureKeeps DEF Next, Seeds, Kinds

(* Rows, embeddings, messages, tasks and searches keep their types, however *)
(* seedings, workers, the backfill and searches overlap.                    *)
THEOREM TypeCorrect == Spec => []TypeOK
<1>1. TInv => TypeOK
  BY DEF TInv
<1>. QED
  BY InitTInv, NextTInv, <1>1, PTL DEF Spec

-----------------------------------------------------------------------------
(* What a seeding, a task or a search leaves of the promises about seedings. *)
Served(row) == row \in embedded \/ OnItsWay(row) \/ row \in unserved

LEMMA InitAccounted == Init => SeedingsAccountedFor
<1>. SUFFICES ASSUME Init PROVE SeedingsAccountedFor
  OBVIOUS
<1>1. RealBuyer.batch = 0 /\ RealProduct.batch = 0 /\ RealBuyer.of = "buyer" /\ RealProduct.of = "product"
  BY DEF RealBuyer, RealProduct
<1>2. CASE rows = {RealBuyer, RealProduct} /\ embedded = {} /\ queue = {[row |-> RealBuyer, tries |-> 0]}
  <2>1. Synthetic("buyer") = {} /\ Synthetic("product") = {} /\ Buyers = {RealBuyer}
    BY <1>1, <1>2 DEF Synthetic, Buyers
  <2>2. OnItsWay(RealBuyer)
    BY <1>2 DEF OnItsWay
  <2>. QED
    BY <1>2, <2>1, <2>2 DEF SeedingsAccountedFor, OneSetOfBuyers, OneCatalogue, Matchable, NoOrphans
<1>3. CASE rows = {RealBuyer, RealProduct} \union FreshBuyers(1) \union FreshProducts(1) /\ embedded = rows
  <2>1. \A r \in FreshBuyers(1) \union FreshProducts(1) : r.batch = 1
    BY DEF FreshBuyers, FreshProducts
  <2>2. \A of \in Kinds : \A r \in Synthetic(of) : r.batch = 1
    BY <1>1, <1>3, <2>1 DEF Synthetic
  <2>. QED
    BY <1>3, <2>2 DEF SeedingsAccountedFor, OneSetOfBuyers, OneCatalogue, Matchable, NoOrphans, Kinds, Buyers, Synthetic
<1>. QED
  BY <1>2, <1>3 DEF Init

(* A step that commits no seeding and loses nobody. *)
LEMMA QuietStep ==
  ASSUME TInv, SeedingsAccountedFor, UNCHANGED <<rows, apart>>,
         UNCHANGED <<embedded, late>> \/ \E row \in Row : Upsert(row),
         \A row \in rows : Served(row) => Served(row)'
  PROVE  SeedingsAccountedFor'
<1>1. OneSetOfBuyers' /\ OneCatalogue'
  BY DEF SeedingsAccountedFor, OneSetOfBuyers, OneCatalogue, Synthetic
<1>2. Matchable'
  BY DEF SeedingsAccountedFor, Matchable, Served, Buyers, Synthetic
<1>3. NoOrphans'
  <2>1. CASE UNCHANGED <<embedded, late>>
    BY <2>1 DEF SeedingsAccountedFor, NoOrphans
  <2>2. CASE \E row \in Row : Upsert(row)
    <3>1. PICK row \in Row : Upsert(row)
      BY <2>2
    <3>2. row \in rows \/ row \in late'
      BY <3>1 DEF Upsert, Refused, Late, Row
    <3>3. embedded' = embedded \union {row} /\ late \subseteq late'
      BY <3>1 DEF Upsert
    <3>. QED
      BY <3>2, <3>3 DEF SeedingsAccountedFor, NoOrphans
  <2>. QED
    BY <2>1, <2>2
<1>. QED
  BY <1>1, <1>2, <1>3 DEF SeedingsAccountedFor

(* Nobody is lost where messages, tasks and what is still to be sent stay. *)
LEMMA NobodyLost ==
  ASSUME UNCHANGED <<queue, worker>>, embedded \subseteq embedded', unserved \subseteq unserved',
         \A s \in Seeders : seeder[s].unsent \subseteq seeder'[s].unsent
  PROVE  \A row \in rows : Served(row) => Served(row)'
BY DEF Served, OnItsWay

LEMMA CommitAccounted ==
  ASSUME TInv, SeedingsAccountedFor, NEW s \in Seeders, NEW embeds \in BOOLEAN, SeedCommit(s, embeds)
  PROVE  SeedingsAccountedFor'
<1>1. PICK k : k = seeder[s]
  OBVIOUS
<1>2. PICK b : b = batches + 1
  OBVIOUS
<1>3. PICK fresh : fresh = Fresh(k.of, b)
  OBVIOUS
<1>4. /\ k \in Job /\ JobOK(k) /\ k.phase = "filling" /\ k.of \in Kinds /\ k.unsent = {}
      /\ \A r \in fresh : r.of = k.of /\ r.batch = b
      /\ rows' = (rows \ k.rows) \union fresh
      /\ embedded' = {r \in embedded \ k.embeddings : r.of = "buyer" => r \in rows \ k.rows}
                       \union (IF embeds THEN fresh ELSE {})
      /\ unserved' = unserved \union (k.embeddings \intersect (rows \ k.rows))
                       \union (IF k.script /\ ~embeds THEN fresh ELSE {})
      /\ apart' = apart \union {{x, b} : x \in k.blind}
      /\ (embeds => k.script) /\ (k.of = "product" => Synthetic("product") \subseteq k.rows)
      /\ UNCHANGED <<queue, worker, late>>
  BY <1>1, <1>2, <1>3, Committed
<1>5. /\ rows \subseteq Row /\ embedded \subseteq Row /\ \A r \in Row : r.of \in Kinds /\ r.batch \in Nat
  BY Types DEF TInv
<1>6. \A of \in Kinds : \A r \in Synthetic(of)' :
        \/ r \in Synthetic(of) /\ r \notin k.rows
        \/ r \in fresh /\ r.batch = b /\ of = k.of
  BY <1>4 DEF Synthetic
<1>7. OneSetOfBuyers'
  <2>1. ASSUME NEW x \in Synthetic("buyer"), x \notin k.rows, k.of = "buyer" PROVE {x.batch, b} \in apart'
    BY <1>4, <2>1 DEF JobOK
  <2>2. \A x, y \in Synthetic("buyer") : x.batch = y.batch \/ {x.batch, y.batch} \in apart'
    BY <1>4 DEF SeedingsAccountedFor, OneSetOfBuyers
  <2>3. \A x : {x, b} = {b, x}
    OBVIOUS
  <2>4. ASSUME NEW x \in Synthetic("buyer")', NEW y \in Synthetic("buyer")'
        PROVE  x.batch = y.batch \/ {x.batch, y.batch} \in apart'
    <3>1. "buyer" \in Kinds
      BY DEF Kinds
    <3>2. CASE x \in fresh /\ x.batch = b /\ k.of = "buyer"
      BY <1>6, <2>1, <2>3, <3>1, <3>2
    <3>3. CASE x \in Synthetic("buyer") /\ x \notin k.rows
      BY <1>6, <2>1, <2>2, <3>1, <3>3
    <3>. QED
      BY <1>6, <3>1, <3>2, <3>3
  <2>. QED
    BY <2>4 DEF OneSetOfBuyers
<1>8. OneCatalogue'
  <2>1. "product" \in Kinds
    BY DEF Kinds
  <2>. QED
    BY <1>4, <1>6, <2>1 DEF SeedingsAccountedFor, OneCatalogue
<1>9. Matchable'
  <2>1. seeder' = [t \in Seeders |->
            IF t = s THEN IF k.script THEN NoSeeding
                          ELSE [NoSeeding EXCEPT !.phase = "sending", !.of = k.of, !.unsent = fresh]
            ELSE IF seeder[t].phase \in {"rows", "filling"}
                   THEN [seeder[t] EXCEPT !.blind = @ \union {b}]
            ELSE seeder[t]]
    BY <1>1, <1>2, <1>3 DEF SeedCommit
  <2>2. \A t \in Seeders : t # s => seeder'[t].unsent = seeder[t].unsent
    BY <2>1, Types DEF TInv, Job
  <2>3. ~k.script => seeder'[s].unsent = fresh
    BY <2>1 DEF NoSeeding
  <2>4. ASSUME NEW row \in fresh PROVE Served(row)'
    BY <1>4, <2>3 DEF Served, OnItsWay
  <2>5. ASSUME NEW row \in rows \ k.rows, Served(row) PROVE Served(row)'
    BY <1>1, <1>4, <2>2, <2>5 DEF Served, OnItsWay
  <2>6. ASSUME NEW row \in rows', row.of = "buyer" \/ (row.of = "product" /\ row.batch > 0) PROVE Served(row)'
    <3>1. CASE row \in rows \ k.rows
      <4>1. row \in Buyers \union Synthetic("product")
        BY <2>6, <3>1 DEF Buyers, Synthetic
      <4>2. Served(row)
        BY <4>1 DEF SeedingsAccountedFor, Matchable, Served
      <4>. QED
        BY <2>5, <3>1, <4>2
    <3>. QED
      BY <1>4, <2>4, <3>1
  <2>7. \A row \in (Buyers \union Synthetic("product"))' :
          row \in rows' /\ (row.of = "buyer" \/ (row.of = "product" /\ row.batch > 0))
    BY DEF Buyers, Synthetic
  <2>. QED
    BY <2>6, <2>7 DEF Matchable, Served
<1>10. NoOrphans'
  <2>1. ASSUME NEW row \in embedded', row \notin rows' PROVE row \in late'
    <3>1. row \in embedded \ k.embeddings /\ (row.of = "buyer" => row \in rows \ k.rows)
      BY <1>4, <2>1
    <3>2. CASE row \notin rows
      BY <1>4, <3>1, <3>2 DEF SeedingsAccountedFor, NoOrphans
    <3>3. CASE row \in rows
      <4>1. row \in k.rows /\ row.of = "product"
        BY <1>4, <1>5, <2>1, <3>1, <3>3 DEF Kinds
      <4>2. row.of = k.of /\ row \in Synthetic("product")
        BY <1>4, <3>3, <4>1 DEF JobOK, Synthetic
      <4>. QED
        BY <1>4, <3>1, <4>1, <4>2 DEF JobOK, Clearing
    <3>. QED
      BY <3>2, <3>3
  <2>. QED
    BY <2>1 DEF NoOrphans
<1>. QED
  BY <1>7, <1>8, <1>9, <1>10 DEF SeedingsAccountedFor

(* A seeding that commits nothing keeps what it still has to send, hands it *)
(* to the queue, or leaves it unserved.                                     *)
LEMMA SeedingAccounted ==
  ASSUME TInv, SeedingsAccountedFor, NEW s \in Seeders,
         \/ \E of \in Kinds : SeedTask(s, of)
         \/ \E clear \in BOOLEAN : SeedScript(s, clear)
         \/ ClearEmbeddings(s) \/ ClearRows(s) \/ SeedAborts(s) \/ Dispatch(s) \/ DispatchBreaks(s)
  PROVE  SeedingsAccountedFor'
<1>1. PICK k \in Job : k = seeder[s] /\ JobOK(k)
  BY Types DEF TInv
<1>2. UNCHANGED <<rows, embedded, apart, late, worker>>
  BY DEF SeedTask, SeedScript, ClearEmbeddings, ClearRows, SeedAborts, Dispatch, DispatchBreaks, tables, ai, histories
<1>3. \A t \in Seeders : t # s => seeder'[t] = seeder[t]
  BY Types DEF TInv, SeedTask, SeedScript, ClearEmbeddings, ClearRows, SeedAborts, Dispatch, DispatchBreaks
<1>4. ASSUME k.phase # "sending", UNCHANGED <<queue, unserved>> PROVE SeedingsAccountedFor'
  <2>1. k.unsent = {}
    BY <1>1, <1>4 DEF JobOK
  <2>2. \A t \in Seeders : seeder[t].unsent \subseteq seeder'[t].unsent
    BY <1>1, <1>3, <2>1
  <2>. QED
    BY <1>2, <1>4, <2>2, NobodyLost, QuietStep
<1>5. CASE \/ \E of \in Kinds : SeedTask(s, of)
           \/ \E clear \in BOOLEAN : SeedScript(s, clear)
           \/ ClearEmbeddings(s) \/ ClearRows(s) \/ SeedAborts(s)
  <2>1. k.phase # "sending" /\ UNCHANGED <<queue, unserved>>
    BY <1>1, <1>5 DEF SeedTask, SeedScript, ClearEmbeddings, ClearRows, SeedAborts, ai, histories
  <2>. QED
    BY <1>4, <2>1
<1>6. CASE Dispatch(s)
  <2>1. PICK row : row = CHOOSE r \in k.unsent : \A o \in k.unsent : r.n <= o.n
    OBVIOUS
  <2>2. PICK left : left = k.unsent \ {row}
    OBVIOUS
  <2>3. /\ queue' = queue \union {[row |-> row, tries |-> 0]} /\ unserved' = unserved
        /\ seeder' = [seeder EXCEPT ![s] = IF left = {} THEN NoSeeding ELSE [k EXCEPT !.unsent = left]]
    BY <1>1, <1>6, <2>1, <2>2 DEF Dispatch, histories
  <2>4. left \subseteq seeder'[s].unsent
    BY <1>1, <2>3, Types DEF TInv, Job
  <2>5. OnItsWay(row)' /\ queue \subseteq queue'
    <3>1. [row |-> row, tries |-> 0] \in queue' /\ [row |-> row, tries |-> 0].row = row
      BY <2>3
    <3>. QED
      BY <2>3, <3>1 DEF OnItsWay
  <2>6. ASSUME NEW x, Served(x) PROVE Served(x)'
    <3>1. CASE x = row
      BY <2>5, <3>1 DEF Served
    <3>2. CASE x # row
      BY <1>1, <1>2, <1>3, <2>2, <2>3, <2>4, <2>5, <2>6, <3>2 DEF Served, OnItsWay
    <3>. QED
      BY <3>1, <3>2
  <2>. QED
    BY <1>2, <2>6, QuietStep
<1>7. CASE DispatchBreaks(s)
  <2>1. queue' = queue /\ unserved' = unserved \union k.unsent
    BY <1>1, <1>7 DEF DispatchBreaks, ai
  <2>2. ASSUME NEW x, Served(x) PROVE Served(x)'
    BY <1>1, <1>2, <1>3, <2>1, <2>2 DEF Served, OnItsWay
  <2>. QED
    BY <1>2, <2>2, QuietStep
<1>. QED
  BY <1>5, <1>6, <1>7

(* A task moves on to a worker, to the table, back to the queue, or is      *)
(* given up; only that of a buyer who is gone is dropped.                   *)
LEMMA QueueAccounted ==
  ASSUME TInv, SeedingsAccountedFor, NEW w \in Workers,
         \/ \E task \in queue : TakeTask(w, task)
         \/ StoreEmbedding(w) \/ TaskFails(w) \/ WorkerLost(w)
  PROVE  SeedingsAccountedFor'
<1>1. queue \subseteq Task /\ worker \in [Workers -> Task \union {NoTask}] /\ NoTask \notin Task
      /\ \A m \in Task : m.row \in Row
  BY Types, NothingReal DEF TInv, Task
<1>2. ASSUME NEW task \in queue, TakeTask(w, task) PROVE SeedingsAccountedFor'
  <2>1. /\ worker[w] = NoTask /\ queue' = queue \ {task} /\ UNCHANGED <<rows, embedded, apart, late, seeder, unserved>>
        /\ worker' = [worker EXCEPT ![w] = IF Refused(task.row) THEN NoTask ELSE task]
    BY <1>2 DEF TakeTask, tables, histories
  <2>2. \A o \in Workers : worker[o] # NoTask => worker'[o] = worker[o]
    BY <1>1, <2>1
  <2>3. ASSUME NEW x \in rows, Served(x) PROVE Served(x)'
    <3>1. CASE x = task.row
      <4>1. ~Refused(task.row)
        BY <3>1 DEF Refused
      <4>2. worker'[w] = task /\ task # NoTask
        BY <1>1, <2>1, <4>1
      <4>. QED
        BY <3>1, <4>2 DEF Served, OnItsWay
    <3>2. CASE x # task.row
      <4>1. (\E m \in queue : m.row = x) => \E m \in queue' : m.row = x
        BY <2>1, <3>2
      <4>2. (\E o \in Workers : worker[o] # NoTask /\ worker[o].row = x)
              => \E o \in Workers : worker'[o] # NoTask /\ worker'[o].row = x
        BY <2>2
      <4>. QED
        BY <2>1, <2>3, <4>1, <4>2 DEF Served, OnItsWay
    <3>. QED
      BY <3>1, <3>2
  <2>. QED
    BY <2>1, <2>3, QuietStep
<1>3. ASSUME NEW row, row = worker[w].row, worker[w] # NoTask, worker' = [worker EXCEPT ![w] = NoTask],
             queue \subseteq queue', unserved \subseteq unserved', embedded \subseteq embedded',
             UNCHANGED <<rows, apart, seeder>>, UNCHANGED <<embedded, late>> \/ Upsert(row), Served(row)'
      PROVE  SeedingsAccountedFor'
  <2>1. \A o \in Workers : o # w => worker'[o] = worker[o]
    BY <1>1, <1>3
  <2>2. ASSUME NEW x \in rows, Served(x) PROVE Served(x)'
    <3>1. CASE x = row
      BY <1>3, <3>1
    <3>2. CASE x # row
      BY <1>3, <2>1, <2>2, <3>2 DEF Served, OnItsWay
    <3>. QED
      BY <3>1, <3>2
  <2>3. row \in Row
    BY <1>1, <1>3
  <2>. QED
    BY <1>3, <2>2, <2>3, QuietStep
<1>4. PICK row : row = worker[w].row
  OBVIOUS
<1>5. CASE StoreEmbedding(w)
  <2>1. /\ worker[w] # NoTask /\ worker' = [worker EXCEPT ![w] = NoTask] /\ Upsert(row)
        /\ UNCHANGED <<rows, apart, seeder, queue, unserved>>
    BY <1>4, <1>5 DEF StoreEmbedding
  <2>2. embedded' = embedded \union {row}
    BY <2>1 DEF Upsert
  <2>. QED
    BY <1>3, <1>4, <2>1, <2>2 DEF Served
<1>6. CASE WorkerLost(w)
  <2>1. /\ worker[w] # NoTask /\ worker' = [worker EXCEPT ![w] = NoTask]
        /\ UNCHANGED <<rows, embedded, apart, late, seeder>>
        /\ \/ queue' = queue \union {worker[w]} /\ unserved' = unserved
           \/ queue' = queue /\ unserved' = unserved \union {row}
    BY <1>4, <1>6 DEF WorkerLost, tables
  <2>2. Served(row)'
    BY <1>4, <2>1 DEF Served, OnItsWay
  <2>. QED
    BY <1>3, <1>4, <2>1, <2>2
<1>7. CASE TaskFails(w)
  <2>1. /\ worker[w] # NoTask /\ worker' = [worker EXCEPT ![w] = NoTask]
        /\ UNCHANGED <<rows, embedded, apart, late, seeder>>
    BY <1>7 DEF TaskFails, tables
  <2>2. CASE worker[w].tries < MAX_RETRIES
    <3>1. PICK m : m = [worker[w] EXCEPT !.tries = @ + 1]
      OBVIOUS
    <3>2. queue' = queue \union {m} /\ unserved' = unserved
      BY <1>7, <2>2, <3>1 DEF TaskFails
    <3>3. m.row = row
      BY <1>1, <1>4, <2>1, <3>1 DEF Task
    <3>4. Served(row)'
      BY <3>2, <3>3 DEF Served, OnItsWay
    <3>. QED
      BY <1>3, <1>4, <2>1, <3>2, <3>4
  <2>3. CASE ~(worker[w].tries < MAX_RETRIES)
    <3>1. queue' = queue /\ unserved' = unserved \union {row}
      BY <1>4, <1>7, <2>3 DEF TaskFails
    <3>. QED
      BY <1>3, <1>4, <2>1, <3>1 DEF Served
  <2>. QED
    BY <2>2, <2>3
<1>. QED
  BY <1>2, <1>5, <1>6, <1>7

(* The backfill and the searches add embeddings and lose nobody. *)
LEMMA OthersAccounted ==
  ASSUME TInv, SeedingsAccountedFor,
         \/ \E of \in Kinds : BackfillSelect(of)
         \/ (\E row \in backfill.todo : BackfillStep(row)) \/ BackfillEnds
         \/ \E product \in {RealProduct} \union FreshProducts(batches) : search_buyers(product)
         \/ _ensure_product_embedding
         \/ \E up \in BOOLEAN : classify(up)
  PROVE  SeedingsAccountedFor'
<1>1. ASSUME UNCHANGED <<rows, seeder, queue, worker, unserved, apart>>,
             UNCHANGED <<embedded, late>> \/ \E row \in Row : Upsert(row)
      PROVE  SeedingsAccountedFor'
  <2>1. embedded \subseteq embedded'
    BY <1>1 DEF Upsert
  <2>. QED
    BY <1>1, <2>1, NobodyLost, QuietStep
<1>2. CASE (\E row \in backfill.todo : BackfillStep(row)) \/ _ensure_product_embedding
  BY <1>1, <1>2, Types DEF TInv, BackfillStep, _ensure_product_embedding, ai
<1>3. CASE (\E of \in Kinds : BackfillSelect(of)) \/ BackfillEnds
  BY <1>1, <1>3 DEF BackfillSelect, BackfillEnds, tables, ai, histories
<1>4. CASE \/ \E product \in {RealProduct} \union FreshProducts(batches) : search_buyers(product)
           \/ \E up \in BOOLEAN : classify(up)
  <2>1. UNCHANGED <<tables, seeder, ai, histories>>
    BY <1>4 DEF search_buyers, classify
  <2>. QED
    BY <1>1, <2>1 DEF tables, ai, histories
<1>. QED
  BY <1>2, <1>3, <1>4

LEMMA NextAccounted == TInv /\ SeedingsAccountedFor /\ [Next]_vars => SeedingsAccountedFor'
<1>. SUFFICES ASSUME TInv, SeedingsAccountedFor, [Next]_vars PROVE SeedingsAccountedFor'
  OBVIOUS
<1>1. CASE UNCHANGED vars
  BY <1>1 DEF SeedingsAccountedFor, OneSetOfBuyers, OneCatalogue, Matchable, NoOrphans, OnItsWay, Buyers, Synthetic,
     vars, tables, ai, asked, histories
<1>. QED
  BY <1>1, CommitAccounted, SeedingAccounted, QueueAccounted, OthersAccounted DEF Next, Seeds, Kinds

(* Two sets of simulated buyers only where the later seeding did not see    *)
(* the earlier, products never twice, nobody without an embedding on its    *)
(* way or a reason, and no embedding that outlives its row unexplained.     *)
THEOREM SeedingsCorrect == Spec => []SeedingsAccountedFor
<1>1. TInv /\ SeedingsAccountedFor /\ [Next]_vars => TInv' /\ SeedingsAccountedFor'
  BY NextTInv, NextAccounted
<1>. QED
  BY InitTInv, InitAccounted, <1>1, PTL DEF Spec

=============================================================================
