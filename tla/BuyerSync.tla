------------------------------ MODULE BuyerSync ------------------------------
(***************************************************************************)
(* How importers get into the buyer table and become matchable: the Celery *)
(* task etl.sync_tradeatlas_buyers on its workers, the rows it upserts in  *)
(* one Postgres transaction per batch, and the embeddings.generate_buyer   *)
(* tasks it leaves to the matching workers.                                *)
(*                                                                         *)
(* What a run writes is a function of its query and of the pages it read,  *)
(* so a row, and an embedding, is the number of the run it comes from.     *)
(*                                                                         *)
(* External, modelled as the code uses them: Postgres (READ COMMITTED, a   *)
(* write waits for the transaction that holds the row, a unique index on   *)
(* (source, source_id), one transaction of a deadlock is refused) and      *)
(* Celery (acks_late: the message of a lost worker comes back or is gone). *)
(***************************************************************************)
EXTENDS Naturals, Sequences, FiniteSets

CONSTANTS
  WORKERS,       \* processes of the ingest queue
  Embedders,     \* processes of the ai queue
  Importers,     \* importerUrlCodes
  Placeholders,  \* the importers without a usable name or country
  Queries,       \* what a sync can be asked for: HS codes and markets
  Offer,         \* the provider's answer to a query: the importers on each page
  MAX_PAGES,     \* tradeatlas_max_pages, 0 for no cap
  BATCH,         \* buyer_sync_batch_size
  MAX_RETRIES,   \* EmbeddingTask.max_retries
  MaxTriggers,   \* bound: syncs asked for in a behaviour
  MaxFaults      \* bound: failures in a behaviour

ASSUME BuyerSyncAssumption ==
  /\ Placeholders \subseteq Importers
  /\ Offer \in [Queries -> Seq(SUBSET Importers) \ {<<>>}]
  /\ WORKERS \in Nat \ {0}
  /\ MAX_PAGES \in Nat
  /\ BATCH \in Nat \ {0}
  /\ IsFiniteSet(Importers) /\ 0 \notin Importers
  /\ MAX_RETRIES \in Nat
  /\ MaxTriggers \in Nat
  /\ MaxFaults \in Nat

VARIABLES
  queue,       \* messages of the ingest queue, by query
  runs,        \* the buyer_sync_run rows, oldest first
  task,        \* what the task behind each of them is doing
  rows,        \* the committed buyer rows: the run that wrote each, 0 for no row
  embedQueue,  \* messages of the ai queue, by importer and attempts made
  embedder,    \* what each ai process is doing
  embedding,   \* the buyer_embedding rows: the run whose row each was computed from
  triggers,    \* syncs asked for so far
  faults,      \* failures so far
  lost,        \* history: importers whose latest write failed or died with its worker
  unserved     \* history: importers whose embedding was lost, or computed twice at once

etl  == <<queue, runs, task, rows, triggers, lost>>
ai   == <<embedQueue, embedder, embedding>>
vars == <<etl, ai, faults, unserved>>

-----------------------------------------------------------------------------
(* What the provider offers and the task makes of it. *)

LastPage(q) ==
  IF MAX_PAGES > 0 /\ MAX_PAGES < Len(Offer[q]) THEN MAX_PAGES ELSE Len(Offer[q])

\* The importers aggregated from the first n pages, one entry each.
Aggregates(q, n) == UNION {Offer[q][p] : p \in 1..n}

Buyers(r) == Aggregates(runs[r].query, runs[r].lastPage) \ Placeholders

Status == {"running", "completed", "failed", "auth_required"}

Run == [query : Queries, status : Status, lastPage : Nat, upserted : Nat, skipped : Nat,
        alongside : SUBSET Nat]   \* history: the runs in progress when this one began

Nobody == 0
Began  == [pc |-> "fetch", todo |-> {}, buyer |-> Nobody, found |-> FALSE, mine |-> {}, done |-> {}, skipped |-> 0]
Ended  == [Began EXCEPT !.pc = "ended"]
Task   == [pc      : {"fetch", "select", "write", "commit", "finish", "dispatch", "ended"},
           todo    : SUBSET Importers,   \* aggregates left, in whatever order the provider listed them
           buyer   : Importers \union {Nobody},   \* the one being upserted
           found   : BOOLEAN,            \* did the SELECT find its row
           mine    : SUBSET Importers,   \* rows written and not committed: locked
           done    : SUBSET Importers,   \* buyer_ids
           skipped : Nat]

Resting   == [importer |-> Nobody, attempt |-> 0, read |-> 0]
Embedding == [importer : Importers, attempt : 0..MAX_RETRIES, read : Nat]

-----------------------------------------------------------------------------
Init ==
  /\ queue = [q \in Queries |-> 0]
  /\ runs = <<>>
  /\ task = <<>>
  /\ rows = [i \in Importers |-> 0]
  /\ embedQueue = [i \in Importers |-> [n \in 0..MAX_RETRIES |-> 0]]
  /\ embedder = [e \in Embedders |-> Resting]
  /\ embedding = [i \in Importers |-> 0]
  /\ triggers = 0
  /\ faults = 0
  /\ lost = {}
  /\ unserved = {}

\* POST /buyers/sync.  A message delivered again while its task still runs
\* (Redis returns it after an hour) is one more of these.
Trigger(q) ==
  /\ triggers < MaxTriggers
  /\ triggers' = triggers + 1
  /\ queue' = [queue EXCEPT ![q] = @ + 1]
  /\ UNCHANGED <<runs, task, rows, lost, ai, faults, unserved>>

InProgress == {r \in DOMAIN task : task[r].pc # "ended"}

At(r, pc) == r \in DOMAIN task /\ task[r].pc = pc

Becomes(r, t) == task' = [task EXCEPT ![r] = t]

Records(r, run) == runs' = [runs EXCEPT ![r] = run]

Start(q) ==
  /\ queue[q] > 0
  /\ Cardinality(InProgress) < WORKERS
  /\ queue' = [queue EXCEPT ![q] = @ - 1]
  /\ runs' = Append(runs, [query |-> q, status |-> "running", lastPage |-> 0,
                           upserted |-> 0, skipped |-> 0, alongside |-> InProgress])
  /\ task' = Append(task, Began)
  /\ UNCHANGED <<rows, triggers, lost, ai, faults, unserved>>

\* One page fetched, aggregated and checkpointed.  The provider retries what
\* is worth retrying before it answers.
FetchPage(r) ==
  LET q == runs[r].query
      p == runs[r].lastPage + 1
  IN  /\ At(r, "fetch")
      /\ Records(r, [runs[r] EXCEPT !.lastPage = p])
      /\ Becomes(r, IF p < LastPage(q) THEN task[r]
                      ELSE [task[r] EXCEPT !.pc = "select", !.todo = Aggregates(q, p)])
      /\ UNCHANGED <<queue, rows, triggers, lost, ai, faults, unserved>>

(* Faulty variant: what was aggregated before the failure is upserted. *)
FetchFailsHalfway(r, status) ==
  /\ At(r, "fetch")
  /\ faults < MaxFaults
  /\ faults' = faults + 1
  /\ Becomes(r, [task[r] EXCEPT !.pc = "select", !.todo = Aggregates(runs[r].query, runs[r].lastPage)])
  /\ UNCHANGED <<queue, runs, rows, triggers, lost, ai, unserved>>

\* ProviderAuthError and ProviderError: what was aggregated is dropped.
FetchFails(r, status) ==
  /\ At(r, "fetch")
  /\ faults < MaxFaults
  /\ faults' = faults + 1
  /\ Records(r, [runs[r] EXCEPT !.status = status])
  /\ Becomes(r, Ended)
  /\ UNCHANGED <<queue, rows, triggers, lost, ai, unserved>>

-----------------------------------------------------------------------------
(* The upserts of a run, one savepoint each, a commit per batch. *)

SkipInvalid(r) ==
  /\ At(r, "select")
  /\ \E i \in task[r].todo \intersect Placeholders :
       Becomes(r, [task[r] EXCEPT !.todo = @ \ {i}, !.skipped = @ + 1])
  /\ UNCHANGED <<queue, runs, rows, triggers, lost, ai, faults, unserved>>

Select(r) ==
  /\ At(r, "select")
  /\ \E i \in task[r].todo \ Placeholders :
       Becomes(r, [task[r] EXCEPT !.pc = "write", !.todo = @ \ {i}, !.buyer = i, !.found = rows[i] # 0])
  /\ UNCHANGED <<queue, runs, rows, triggers, lost, ai, faults, unserved>>

WaitsFor(r, t) ==
  /\ At(r, "write")
  /\ t # r
  /\ task[r].buyer \in task[t].mine

Blocked(r) == \E t \in DOMAIN task : WaitsFor(r, t)

(* Faulty variant: a row that is there is left as it is. *)
DuplicateIfAny(r) == rows[task[r].buyer] # 0

\* An INSERT of a row that another run has committed since the SELECT.
Duplicate(r) == ~ task[r].found /\ rows[task[r].buyer] # 0

Upserted(r, pc) ==
  [task[r] EXCEPT !.pc = pc, !.buyer = Nobody, !.found = FALSE,
                  !.mine = @ \union {task[r].buyer}, !.done = @ \union {task[r].buyer}]

Write(r) ==
  /\ At(r, "write")
  /\ ~ Blocked(r)
  /\ ~ Duplicate(r)
  /\ Becomes(r, Upserted(r, IF Cardinality(task[r].mine) + 1 >= BATCH THEN "commit" ELSE "select"))
  /\ UNCHANGED <<queue, runs, rows, triggers, lost, ai, faults, unserved>>

(* Faulty variant: the failed upsert is not counted. *)
SkipUncounted(r) == [task[r] EXCEPT !.pc = "select", !.buyer = Nobody, !.found = FALSE]

\* The handler of an upsert that raised.
Skip(r) == [task[r] EXCEPT !.pc = "select", !.buyer = Nobody, !.found = FALSE, !.skipped = @ + 1]

SkipDuplicate(r) ==
  /\ At(r, "write")
  /\ ~ Blocked(r)
  /\ Duplicate(r)
  /\ Becomes(r, Skip(r))
  /\ UNCHANGED <<queue, runs, rows, triggers, lost, ai, faults, unserved>>

\* Each of a set of workers waits for one of the set: Postgres refuses the
\* write of one of them, whose savepoint is rolled back.
Deadlocked(r) ==
  \E C \in SUBSET InProgress :
    /\ r \in C
    /\ \A u \in C : (\E t \in C : WaitsFor(u, t)) /\ (\E t \in C : WaitsFor(t, u))

SkipDeadlock(r) ==
  /\ Deadlocked(r)
  /\ Becomes(r, Skip(r))
  /\ UNCHANGED <<queue, runs, rows, triggers, lost, ai, faults, unserved>>

\* Any other error of one row.
RowFails(r) ==
  /\ At(r, "write")
  /\ faults < MaxFaults
  /\ faults' = faults + 1
  /\ Becomes(r, Skip(r))
  /\ lost' = lost \union {task[r].buyer}
  /\ UNCHANGED <<queue, runs, rows, triggers, ai, unserved>>

Commit(r, next) ==
  /\ rows' = [i \in Importers |-> IF i \in task[r].mine THEN r ELSE rows[i]]
  /\ Becomes(r, [task[r] EXCEPT !.pc = next, !.mine = {}])
  /\ lost' = lost \ task[r].mine
  /\ UNCHANGED <<queue, runs, triggers, ai, faults, unserved>>

CommitBatch(r) == At(r, "commit") /\ Commit(r, "select")

CommitRest(r)  == At(r, "select") /\ task[r].todo = {} /\ Commit(r, "finish")

(* Faulty variant: a status the column's readers do not know. *)
FinishAsSuccess(r) ==
  /\ At(r, "finish")
  /\ Records(r, [runs[r] EXCEPT !.status = "success"])
  /\ Becomes(r, [task[r] EXCEPT !.pc = "dispatch"])
  /\ UNCHANGED <<queue, rows, triggers, lost, ai, faults, unserved>>

Finish(r) ==
  /\ At(r, "finish")
  /\ Records(r, [runs[r] EXCEPT !.status = "completed",
                                !.upserted = Cardinality(task[r].done),
                                !.skipped = task[r].skipped])
  /\ Becomes(r, [task[r] EXCEPT !.pc = "dispatch"])
  /\ UNCHANGED <<queue, rows, triggers, lost, ai, faults, unserved>>

Dispatch(r) ==
  /\ At(r, "dispatch")
  /\ \E i \in task[r].done :
       /\ embedQueue' = [embedQueue EXCEPT ![i][0] = @ + 1]
       /\ Becomes(r, [task[r] EXCEPT !.done = @ \ {i}])
  /\ UNCHANGED <<queue, runs, rows, triggers, lost, embedder, embedding, faults, unserved>>

Return(r) ==
  /\ At(r, "dispatch")
  /\ task[r].done = {}
  /\ Becomes(r, Ended)
  /\ UNCHANGED <<queue, runs, rows, triggers, lost, ai, faults, unserved>>

\* The process dies, or meets an error nothing catches; its transaction is
\* rolled back, its run stays as it is, its message comes back or does not.
Kill(r) ==
  /\ r \in InProgress
  /\ faults < MaxFaults
  /\ faults' = faults + 1
  /\ \E back \in {0, 1} : queue' = [queue EXCEPT ![runs[r].query] = @ + back]
  /\ Becomes(r, Ended)
  /\ lost' = lost \union task[r].mine
  /\ unserved' = unserved \union (task[r].done \ task[r].mine)
  /\ UNCHANGED <<runs, rows, triggers, ai>>

-----------------------------------------------------------------------------
(* The embedding tasks. *)

Embeds(e, i) == embedder[e].importer = i

EmbedRead(e, i, n) ==
  /\ embedder[e] = Resting
  /\ embedQueue[i][n] > 0
  /\ embedQueue' = [embedQueue EXCEPT ![i][n] = @ - 1]
  /\ embedder' = IF rows[i] = 0 THEN embedder
                 ELSE [embedder EXCEPT ![e] = [importer |-> i, attempt |-> n, read |-> rows[i]]]
  /\ unserved' = IF \E f \in Embedders : Embeds(f, i) THEN unserved \union {i} ELSE unserved \ {i}
  /\ UNCHANGED <<etl, embedding, faults>>

(* Faulty variant: an embedding that is there is left as it is. *)
EmbedWriteOnce(e) ==
  /\ embedder[e] # Resting
  /\ embedding' = [embedding EXCEPT ![embedder[e].importer] = IF @ = 0 THEN embedder[e].read ELSE @]
  /\ embedder' = [embedder EXCEPT ![e] = Resting]
  /\ UNCHANGED <<etl, embedQueue, faults, unserved>>

EmbedWrite(e) ==
  /\ embedder[e] # Resting
  /\ embedding' = [embedding EXCEPT ![embedder[e].importer] = embedder[e].read]
  /\ embedder' = [embedder EXCEPT ![e] = Resting]
  /\ UNCHANGED <<etl, embedQueue, faults, unserved>>

(* Faulty variant: a failed task is not put back. *)
EmbedFailsOnce(e) ==
  /\ embedder[e] # Resting
  /\ embedder' = [embedder EXCEPT ![e] = Resting]
  /\ UNCHANGED <<etl, embedQueue, embedding, faults, unserved>>

(* Faulty variant: the retries are not counted. *)
EmbedFailsForever(e) ==
  /\ embedder[e] # Resting
  /\ embedder' = [embedder EXCEPT ![e] = Resting]
  /\ embedQueue' = [embedQueue EXCEPT ![embedder[e].importer][embedder[e].attempt] = @ + 1]
  /\ UNCHANGED <<etl, embedding, faults, unserved>>

\* self.retry puts the task back until its retries are used up.
EmbedFails(e) ==
  LET i == embedder[e].importer
      n == embedder[e].attempt
  IN  /\ embedder[e] # Resting
      /\ embedder' = [embedder EXCEPT ![e] = Resting]
      /\ \/ /\ n < MAX_RETRIES
            /\ embedQueue' = [embedQueue EXCEPT ![i][n + 1] = @ + 1]
            /\ UNCHANGED unserved
         \/ /\ n = MAX_RETRIES
            /\ unserved' = unserved \union {i}
            /\ UNCHANGED embedQueue
      /\ UNCHANGED <<etl, embedding, faults>>

-----------------------------------------------------------------------------
RunIds == 1..(MaxTriggers + MaxFaults)   \* a message is sent, or comes back after a failure

TaskStep(r) ==
  \/ FetchPage(r)
  \/ SkipInvalid(r)
  \/ Select(r)
  \/ Write(r)
  \/ SkipDuplicate(r)
  \/ SkipDeadlock(r)
  \/ CommitBatch(r)
  \/ CommitRest(r)
  \/ Finish(r)
  \/ Dispatch(r)
  \/ Return(r)

EmbedderStep(e) ==
  \/ \E i \in Importers, n \in 0..MAX_RETRIES : EmbedRead(e, i, n)
  \/ EmbedWrite(e)

Next ==
  \/ \E q \in Queries : Trigger(q) \/ Start(q)
  \/ \E r \in RunIds : TaskStep(r) \/ RowFails(r) \/ Kill(r)
  \/ \E r \in RunIds, status \in {"failed", "auth_required"} : FetchFails(r, status)
  \/ \E e \in Embedders : EmbedderStep(e) \/ EmbedFails(e)

Spec == Init /\ [][Next]_vars

\* Every call a task makes has a timeout or ends with the transaction it waits
\* for, and Postgres looks for deadlocks; nothing makes a failure happen.
FairSpec ==
  /\ Spec
  /\ WF_vars(\E q \in Queries : Start(q))
  /\ \A r \in RunIds : WF_vars(TaskStep(r))
  /\ \A e \in Embedders : WF_vars(EmbedderStep(e))

-----------------------------------------------------------------------------
TypeOK ==
  /\ queue \in [Queries -> Nat]
  /\ runs \in Seq(Run)
  /\ task \in Seq(Task)
  /\ Len(task) = Len(runs)
  /\ rows \in [Importers -> 0..Len(runs)]
  /\ embedQueue \in [Importers -> [0..MAX_RETRIES -> Nat]]
  /\ embedder \in [Embedders -> Embedding \union {Resting}]
  /\ embedding \in [Importers -> Nat]
  /\ triggers \in 0..MaxTriggers
  /\ faults \in 0..MaxFaults
  /\ lost \subseteq Importers
  /\ unserved \subseteq Importers

Quiet ==
  /\ \A q \in Queries : queue[q] = 0
  /\ InProgress = {}
  /\ \A i \in Importers, n \in 0..MAX_RETRIES : embedQueue[i][n] = 0
  /\ \A e \in Embedders : embedder[e] = Resting

\* "Full overwrite", whatever the overlap: once a run has completed, no row of
\* a buyer it saw is left over from a run that had ended before it began, except
\* where its write failed, or gave way to a transaction that is open or died.
NeverOlder ==
  \A r \in DOMAIN runs : runs[r].status = "completed" =>
    \A i \in Buyers(r) :
      \/ rows[i] >= r \/ rows[i] \in runs[r].alongside
      \/ i \in lost \/ (\E t \in DOMAIN task : i \in task[t].mine)

\* A row never shows part of what a query yields: a fetch that stops half way
\* (expired session, provider error, lost worker) leaves no trace in the table.
OnlyFullAggregates ==
  \A i \in Importers : rows[i] # 0 =>
    LET r == runs[rows[i]] IN r.lastPage = LastPage(r.query) /\ r.status \in {"running", "completed"}

\* "Never silently dropped": every importer of a completed run is counted as
\* upserted or as skipped, however its upsert ended.
CountsAddUp ==
  \A r \in DOMAIN runs : runs[r].status = "completed" =>
    runs[r].upserted + runs[r].skipped = Cardinality(Aggregates(runs[r].query, runs[r].lastPage))

\* When all is quiet a buyer is matched by the row it has now, unless a request
\* for its embedding was lost or two of them overlapped: a row is never
\* committed after the request that was to cover it.
EmbeddingFollowsRow ==
  Quiet => \A i \in Importers \ unserved : embedding[i] = rows[i]

\* Every sync asked for ends and every embedding it asked for is dealt with,
\* deadlocked upserts included.
Drains == <>[]Quiet
=============================================================================
