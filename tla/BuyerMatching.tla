---------------------------- MODULE BuyerMatching ----------------------------
(***************************************************************************)
(* Simulated buyers and products, their embeddings, and the requests that  *)
(* read them. Celery tasks and scripts replace the simulated rows, each in *)
(* one transaction, and leave the embeddings to tasks of the ai queue; the *)
(* matching-service offers the embedded buyers nearest to a product, which *)
(* it embeds on the spot if need be, and classifies products. Transactions *)
(* are READ COMMITTED: a DELETE takes the rows committed when it is issued,*)
(* after those that removed some of them before it have ended. What only   *)
(* reads, the ranking of a match or the directory, is no step.             *)
(***************************************************************************)
EXTENDS Integers, FiniteSets

CONSTANTS
  Seeders,      \* processes that seed
  Workers,      \* processes of the ai queue
  SIZE,         \* buyers of a seeding
  PROFILES,     \* products of a seeding, no more than that
  MAX_RETRIES,  \* EmbeddingTask.max_retries
  MaxJobs       \* bound: seedings and runs of step 7

ASSUME MatchingAssumption ==
  SIZE \in Nat \ {0} /\ PROFILES \in 1..SIZE /\ MAX_RETRIES \in Nat /\ MaxJobs \in Nat

UMKM_PROFILES == 1..PROFILES
BUYER_TEMPLATES == 1..SIZE

(* What the classifier knows; the category of a code is that of its chapter. *)
HS_CORPUS ==
  {901, 902, 2101, 1801, 1803, 1804, 1805, 1806, 1511, 1513, 801, 904, 905, 906, 907, 908,
   909, 910, 4601, 4602, 1404, 9403, 9401, 4420, 5208, 6302, 2106, 2103, 1704, 1905, 3301,
   3304, 3305, 3307, 302, 303, 306, 1604, 1211, 1302, 3923, 7113, 7116, 7117}

_HS_CATEGORIES ==
  {9, 21, 18, 15, 8, 46, 14, 94, 52, 63, 33, 3, 16, 12, 13, 44, 39, 17, 19, 71, 10, 20, 25}

_hs_to_category(code) ==
  IF code \div 100 \in _HS_CATEGORIES THEN code \div 100 ELSE 0

ASSUME CategoryAssumption == \A code \in HS_CORPUS : _hs_to_category(code) # 0

VARIABLES
  rows,       \* the committed buyers and products
  embedded,   \* those with a row in buyer_embedding or product_embedding
  batches,    \* seedings committed
  seeder,     \* seeder[s]: the seeding under way
  queue,      \* messages of the ai queue
  worker,     \* worker[w]: the task at hand
  backfill,   \* step 7 of run_full_seeding
  jobs,       \* seedings and runs of step 7 begun
  classifier, \* the HS classifier of the process: "fresh", "half" or "ready"
  request,    \* the search under way
  unserved,   \* history: rows whose embedding was removed, given up, lost or not asked for
  apart,      \* history: pairs of seedings the later of which did not see the earlier
  late        \* history: products embedded after they were cleared, or just before

tables == <<rows, embedded, batches>>
ai == <<queue, worker>>
histories == <<unserved, apart, late>>
asked == <<classifier, request>>
vars == <<tables, seeder, ai, backfill, jobs, asked, histories>>

-----------------------------------------------------------------------------
(* batch 0 is real: what companies entered and syncs brought.              *)
Row == [of : {"buyer", "product"}, batch : Nat, n : 1..SIZE]
Buyers == {r \in rows : r.of = "buyer"}
Synthetic(of) == {r \in rows : r.of = of /\ r.batch > 0}
Task == [row : Row, tries : 0..MAX_RETRIES]

FreshBuyers(batch) == {[of |-> "buyer", batch |-> batch, n |-> n] : n \in BUYER_TEMPLATES}
FreshProducts(batch) == {[of |-> "product", batch |-> batch, n |-> n] : n \in UMKM_PROFILES}
Fresh(of, batch) == IF of = "buyer" THEN FreshBuyers(batch) ELSE FreshProducts(batch)

RealBuyer == [of |-> "buyer", batch |-> 0, n |-> 1]
RealProduct == [of |-> "product", batch |-> 0, n |-> 1]

NoSeeding == [phase |-> "idle", of |-> "buyer", script |-> FALSE, target |-> {},
              embeddings |-> {}, rows |-> {}, blind |-> {}, unsent |-> {}]
NoTask == [row |-> RealBuyer, tries |-> -1]
NoBackfill == [of |-> "none", todo |-> {}]
NoRequest == [pc |-> "idle", product |-> RealProduct]

(* A database with one real buyer and product, seeded before or not.       *)
Init ==
  /\ \/ /\ rows = {RealBuyer, RealProduct} /\ embedded = {} /\ batches = 0
        /\ queue = {[row |-> RealBuyer, tries |-> 0]}
     \/ /\ rows = {RealBuyer, RealProduct} \union FreshBuyers(1) \union FreshProducts(1)
        /\ embedded = rows /\ batches = 1 /\ queue = {}
  /\ seeder = [s \in Seeders |-> NoSeeding]
  /\ worker = [w \in Workers |-> NoTask]
  /\ backfill = NoBackfill
  /\ jobs = 0
  /\ classifier = "fresh"
  /\ request = NoRequest
  /\ unserved = {} /\ apart = {} /\ late = {}

-----------------------------------------------------------------------------
(* Seeding. *)

OthersRemove(s, what) ==
  UNION {IF what = "rows" THEN seeder[t].rows ELSE seeder[t].embeddings : t \in Seeders \ {s}}

(* The first DELETE is issued: the embeddings of the simulated rows, or (the *)
(* script's) of every buyer. A script that does not clear just adds.         *)
SeedTask(s, of) ==
  /\ seeder[s].phase = "idle" /\ jobs < MaxJobs
  /\ jobs' = jobs + 1
  /\ seeder' = [seeder EXCEPT ![s] = [NoSeeding EXCEPT !.phase = "embeddings", !.of = of,
                                        !.target = embedded \intersect Synthetic(of)]]
  /\ UNCHANGED <<tables, ai, backfill, asked, histories>>

SeedScript(s, clear) ==
  /\ seeder[s].phase = "idle" /\ jobs < MaxJobs
  /\ jobs' = jobs + 1
  /\ seeder' = [seeder EXCEPT ![s] =
       IF clear THEN [NoSeeding EXCEPT !.phase = "embeddings", !.script = TRUE,
                                       !.target = {r \in embedded : r.of = "buyer"}]
       ELSE [NoSeeding EXCEPT !.phase = "filling", !.script = TRUE, !.blind = 1..batches]]
  /\ UNCHANGED <<tables, ai, backfill, asked, histories>>

\* Faulty variant: only the rows that are embedded are cleared.
ClearEmbeddingsOnly(s) ==
  /\ seeder[s].phase = "embeddings"
  /\ seeder[s].target \intersect OthersRemove(s, "embeddings") = {}
  /\ seeder' = [seeder EXCEPT ![s].phase = "rows",
                              ![s].embeddings = seeder[s].target \intersect embedded,
                              ![s].target = seeder[s].target \intersect Synthetic(seeder[s].of)]
  /\ UNCHANGED <<tables, ai, backfill, jobs, asked, histories>>

(* It is done, and the DELETE of the rows themselves issued.                *)
ClearEmbeddings(s) ==
  /\ seeder[s].phase = "embeddings"
  /\ seeder[s].target \intersect OthersRemove(s, "embeddings") = {}
  /\ seeder' = [seeder EXCEPT ![s].phase = "rows",
                              ![s].embeddings = seeder[s].target \intersect embedded,
                              ![s].target = Synthetic(seeder[s].of)]
  /\ UNCHANGED <<tables, ai, backfill, jobs, asked, histories>>

(* That of a buyer takes its embedding with it.                             *)
ClearRows(s) ==
  LET target == seeder[s].target
  IN  /\ seeder[s].phase = "rows"
      /\ target \intersect OthersRemove(s, "rows") = {}
      /\ seeder[s].of = "buyer" => target \intersect OthersRemove(s, "embeddings") = {}
      /\ seeder' = [seeder EXCEPT ![s].phase = "filling", ![s].rows = target \intersect rows,
                                  ![s].target = {}]
      /\ UNCHANGED <<tables, ai, backfill, jobs, asked, histories>>

(* The inserts and the commit. The e-mail address of a company is unique:   *)
(* next to simulated companies that were not cleared the insert is refused. *)
SeedCommit(s, embeds) ==
  LET job == seeder[s]
      batch == batches + 1
      fresh == Fresh(job.of, batch)
      rest == rows \ job.rows
  IN  /\ job.phase = "filling"
      /\ embeds => job.script
      /\ job.of = "product" => Synthetic("product") \subseteq job.rows
      /\ rows' = rest \union fresh
      /\ embedded' = {r \in embedded \ job.embeddings : r.of = "buyer" => r \in rest}
                       \union (IF embeds THEN fresh ELSE {})
      /\ batches' = batch
      /\ seeder' = [t \in Seeders |->
           IF t = s THEN IF job.script THEN NoSeeding
                         ELSE [NoSeeding EXCEPT !.phase = "sending", !.of = job.of,
                                                !.unsent = fresh]
           ELSE IF seeder[t].phase \in {"rows", "filling"}
                  THEN [seeder[t] EXCEPT !.blind = @ \union {batch}]
           ELSE seeder[t]]
      /\ unserved' = unserved \union (job.embeddings \intersect rest)
                       \union (IF job.script /\ ~embeds THEN fresh ELSE {})
      /\ apart' = apart \union {{b, batch} : b \in job.blind}
      /\ UNCHANGED <<ai, backfill, jobs, asked, late>>

SeedAborts(s) ==
  /\ seeder[s].phase \in {"embeddings", "rows", "filling"}
  /\ seeder' = [seeder EXCEPT ![s] = NoSeeding]
  /\ UNCHANGED <<tables, ai, backfill, jobs, asked, histories>>

(* One message after the other; a broker that is not there ends the task.   *)
Dispatch(s) ==
  LET row == CHOOSE r \in seeder[s].unsent : \A o \in seeder[s].unsent : r.n <= o.n
      left == seeder[s].unsent \ {row}
  IN  /\ seeder[s].phase = "sending"
      /\ queue' = queue \union {[row |-> row, tries |-> 0]}
      /\ seeder' = [seeder EXCEPT ![s] = IF left = {} THEN NoSeeding
                                         ELSE [@ EXCEPT !.unsent = left]]
      /\ UNCHANGED <<tables, worker, backfill, jobs, asked, histories>>

DispatchBreaks(s) ==
  /\ seeder[s].phase = "sending"
  /\ unserved' = unserved \union seeder[s].unsent
  /\ seeder' = [seeder EXCEPT ![s] = NoSeeding]
  /\ UNCHANGED <<tables, ai, backfill, jobs, asked, apart, late>>

-----------------------------------------------------------------------------
(* Embedding. *)

(* Written, or locked, by a seeding that has not committed.                 *)
Held(row) ==
  \E s \in Seeders :
    row \in seeder[s].embeddings \/ (row.of = "buyer" /\ row \in seeder[s].rows)

(* An embedding of a buyer refers to it, one of a product to nothing.       *)
Refused(row) == row.of = "buyer" /\ row \notin rows

(* A product that is gone, or is being cleared: its embedding stays behind. *)
Late(row) ==
  /\ row.of = "product"
  /\ \/ row \notin rows
     \/ \E s \in Seeders : seeder[s].of = "product" /\ seeder[s].phase \in {"embeddings", "rows", "filling"}

Upsert(row) ==
  /\ ~Held(row)
  /\ ~Refused(row)
  /\ embedded' = embedded \union {row}
  /\ late' = IF Late(row) THEN late \union {row} ELSE late

(* generate_buyer reads the buyer, generate_product is told the text.       *)
TakeTask(w, task) ==
  /\ worker[w] = NoTask
  /\ task \in queue
  /\ queue' = queue \ {task}
  /\ worker' = [worker EXCEPT ![w] = IF Refused(task.row) THEN NoTask ELSE task]
  /\ UNCHANGED <<tables, seeder, backfill, jobs, asked, histories>>

StoreEmbedding(w) ==
  /\ worker[w] # NoTask
  /\ Upsert(worker[w].row)
  /\ worker' = [worker EXCEPT ![w] = NoTask]
  /\ UNCHANGED <<rows, batches, seeder, queue, backfill, jobs, asked, unserved, apart>>

\* Faulty variant: it is tried once more than allowed.
TaskFailsOnceMore(w) ==
  /\ worker[w] # NoTask
  /\ queue' = queue \union {[worker[w] EXCEPT !.tries = @ + 1]}
  /\ worker' = [worker EXCEPT ![w] = NoTask]
  /\ UNCHANGED <<tables, seeder, backfill, jobs, asked, histories>>

\* Faulty variant: a try that failed does not count.
TaskFailsUncounted(w) ==
  /\ worker[w] # NoTask
  /\ queue' = queue \union {worker[w]}
  /\ worker' = [worker EXCEPT ![w] = NoTask]
  /\ UNCHANGED <<tables, seeder, backfill, jobs, asked, histories>>

(* The model, or the reference to a buyer just removed: it is tried again.  *)
TaskFails(w) ==
  LET task == worker[w]
      again == task.tries < MAX_RETRIES
  IN  /\ task # NoTask
      /\ queue' = (IF again THEN queue \union {[task EXCEPT !.tries = @ + 1]} ELSE queue)
      /\ unserved' = (IF again THEN unserved ELSE unserved \union {task.row})
      /\ worker' = [worker EXCEPT ![w] = NoTask]
      /\ UNCHANGED <<tables, seeder, backfill, jobs, asked, apart, late>>

(* With acks_late the message of a worker that is gone comes back, with its *)
(* tries as they were. One whose child alone was killed, by time_limit or   *)
(* for its memory, is acknowledged: task_reject_on_worker_lost is not set.  *)
WorkerLost(w) ==
  /\ worker[w] # NoTask
  /\ \/ queue' = queue \union {worker[w]} /\ unserved' = unserved
     \/ queue' = queue /\ unserved' = unserved \union {worker[w].row}
  /\ worker' = [worker EXCEPT ![w] = NoTask]
  /\ UNCHANGED <<tables, seeder, backfill, jobs, asked, apart, late>>

(* Step 7 reads all products and embeds them, then all buyers, one commit   *)
(* each; the first error ends it.                                           *)
BackfillSelect(of) ==
  /\ backfill.todo = {}
  /\ \/ of = "product" /\ backfill.of = "none" /\ jobs < MaxJobs /\ jobs' = jobs + 1
     \/ of = "buyer" /\ backfill.of = "product" /\ jobs' = jobs
  /\ backfill' = [of |-> of, todo |-> {r \in rows : r.of = of}]
  /\ UNCHANGED <<tables, seeder, ai, asked, histories>>

BackfillStep(row) ==
  /\ row \in backfill.todo
  /\ Upsert(row)
  /\ backfill' = [backfill EXCEPT !.todo = @ \ {row}]
  /\ UNCHANGED <<rows, batches, seeder, ai, jobs, asked, unserved, apart>>

BackfillEnds ==
  /\ backfill.of # "none"
  /\ backfill' = NoBackfill
  /\ UNCHANGED <<tables, seeder, ai, jobs, asked, histories>>

-----------------------------------------------------------------------------
(* Searches, one at a time. *)

(* POST /match: a product that has no embedding yet gets one on the spot; a *)
(* product that is not known matches nobody.                                *)
search_buyers(product) ==
  /\ request.pc = "idle"
  /\ product \in rows \ embedded
  /\ request' = [pc |-> "embed", product |-> product]
  /\ UNCHANGED <<tables, seeder, ai, backfill, jobs, classifier, histories>>

(* It is kept if it can be; a model that cannot be reached fails the search.*)
_ensure_product_embedding ==
  /\ request.pc = "embed"
  /\ \/ Upsert(request.product)
     \/ UNCHANGED <<embedded, late>>
  /\ request' = NoRequest
  /\ UNCHANGED <<rows, batches, seeder, ai, backfill, jobs, classifier, unserved, apart>>

(* Those a match chooses from, the nearest first.                           *)
_ann_search == Buyers \intersect embedded

(* POST /classify: the embedder is kept before the corpus is embedded, and  *)
(* a corpus that failed is never embedded again: "half" is for good.        *)
classify(up) ==
  /\ classifier = "fresh"
  /\ classifier' = (IF up THEN "ready" ELSE "half")
  /\ UNCHANGED <<tables, seeder, ai, backfill, jobs, request, histories>>

-----------------------------------------------------------------------------
Seeds(s) ==
  \/ ClearEmbeddings(s)
  \/ ClearRows(s)
  \/ \E embeds \in BOOLEAN : SeedCommit(s, embeds)
  \/ SeedAborts(s)
  \/ Dispatch(s)
  \/ DispatchBreaks(s)

Next ==
  \/ \E s \in Seeders :
       \/ \E of \in {"buyer", "product"} : SeedTask(s, of)
       \/ \E clear \in BOOLEAN : SeedScript(s, clear)
       \/ Seeds(s)
  \/ \E w \in Workers :
       \/ \E task \in queue : TakeTask(w, task)
       \/ StoreEmbedding(w)
       \/ TaskFails(w)
       \/ WorkerLost(w)
  \/ \E of \in {"buyer", "product"} : BackfillSelect(of)
  \/ \E row \in backfill.todo : BackfillStep(row)
  \/ BackfillEnds
  \/ \E product \in {RealProduct} \union FreshProducts(batches) : search_buyers(product)
  \/ _ensure_product_embedding
  \/ \E up \in BOOLEAN : classify(up)

Spec == Init /\ [][Next]_vars

(* A seeding ends or is rolled back. A worker takes what is there, and is   *)
(* not lost each time before its task has ended: TaskFails alone is not     *)
(* asked to happen.                                                         *)
FairSpec ==
  /\ Spec
  /\ \A s \in Seeders : WF_vars(Seeds(s))
  /\ \A w \in Workers :
       /\ WF_vars(\E task \in queue : TakeTask(w, task))
       /\ SF_vars(StoreEmbedding(w) \/ TaskFails(w))

-----------------------------------------------------------------------------
TypeOK ==
  /\ rows \subseteq Row /\ embedded \subseteq Row /\ batches \in Nat
  /\ seeder \in [Seeders ->
       [phase : {"idle", "embeddings", "rows", "filling", "sending"}, of : {"buyer", "product"},
        script : BOOLEAN, target : SUBSET Row, embeddings : SUBSET Row, rows : SUBSET Row,
        blind : SUBSET Nat, unsent : SUBSET Row]]
  /\ queue \subseteq Task
  /\ worker \in [Workers -> Task \union {NoTask}]
  /\ backfill \in [of : {"none", "product", "buyer"}, todo : SUBSET Row]
  /\ jobs \in 0..MaxJobs
  /\ classifier \in {"fresh", "half", "ready"}
  /\ request \in [pc : {"idle", "embed"}, product : Row]
  /\ unserved \subseteq Row /\ late \subseteq Row /\ apart \subseteq SUBSET Nat

(* Two sets of simulated buyers only if the DELETE of the later seeding was *)
(* issued before the earlier one committed, or there was none.              *)
OneSetOfBuyers ==
  \A a, b \in Synthetic("buyer") : a.batch = b.batch \/ {a.batch, b.batch} \in apart

(* Simulated companies and products are never there twice.                  *)
OneCatalogue == \A a, b \in Synthetic("product") : a.batch = b.batch

OnItsWay(row) ==
  \/ \E task \in queue : task.row = row
  \/ \E w \in Workers : worker[w] # NoTask /\ worker[w].row = row
  \/ \E s \in Seeders : row \in seeder[s].unsent

(* Whoever is in the directory can be matched, or will be, unless the       *)
(* embedding was given up, lost with the child of a worker, never asked     *)
(* for, or removed by a script that clears every embedding. The same holds  *)
(* for simulated products.                                                  *)
Matchable ==
  \A row \in Buyers \union Synthetic("product") :
    row \in embedded \/ OnItsWay(row) \/ row \in unserved

(* No embedding outlives its buyer; that of a product only if it was made   *)
(* while the product was being cleared, or after.                           *)
NoOrphans == \A row \in embedded \ rows : row \in late

SeedingsAccountedFor == OneSetOfBuyers /\ OneCatalogue /\ Matchable /\ NoOrphans

(* In the end a match can offer whoever is in the directory, simulated      *)
(* products included, but for those whose embedding was given up, lost or   *)
(* not asked for: neither the waits between seedings, nor retries, nor      *)
(* workers that are lost leave a message behind for ever.                   *)
EveryoneMatchable ==
  <>[](Buyers \ unserved \subseteq _ann_search /\ Synthetic("product") \ unserved \subseteq embedded)
=============================================================================
