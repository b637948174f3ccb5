# Formal models of the TradeConnect backend

TradeConnect helps small Indonesian companies (UMKM) export. A company registers with
its business number (NIB) and is verified; its products are classified, matched with
buyers and followed through a deal: negotiation, compliance, purchase order, signature.
The backend is a NestJS gateway in front of two NestJS services (user-service,
readiness-service), two FastAPI services (matching-service, comms-service) and Celery
workers (etl-worker, and the `ai` queue of the matching-service) over one PostgreSQL.

The state worth modelling is spread over tables that several handlers write statement
by statement. **No handler of the user-service opens a transaction, takes a lock or
checks a version**: each awaited statement commits on its own, and any other request,
background run or queue worker may run in between. The batch writers of the Python side
(buyer sync, seedings, trade data, knowledge base) do hold transactions open, over many
rows and against their like, and ask for the derived data, embeddings, only afterwards.
That is where the models look.

Line numbers refer to the repository's files. Paths below are relative to
`src/services/`.

## 1. Inventory

| Component | State it keeps | Operations | Talks to | What is hard |
|---|---|---|---|---|
| Product initialization workflow (`user-service/.../workflow`) | `product_workflow`, `workflow_stage`, `workflow_events`; runs in memory | start, retry, re-run, background `run` | product service, matching-service (classify, sync) | overlapping runs, launched-and-forgotten promises, no resume after a restart, retries |
| Product service (`user-service/.../product`) | `products` | create, update, save classification | workflow, embedding queue | launches the workflow with `void`; min/max price written one at a time |
| Deals, messages, purchase orders, compliance (`user-service/.../deal`) | `deals`, `deal_messages`, `purchase_orders`, `compliance_checks` | create, patch; post; generate, send, sign; run, list | product, company, readiness-service | two-statement operations crossing each other, delete-then-insert, values read long before they are used |
| Buyer reply (`gateway/.../deal.proxy.ts`, `comms-service/.../simulate_buyer.py`) | none of its own | one simulated buyer turn | messages, deals, comms-service | a sequence of calls with no way back |
| Company and NIB verification (`user-service/.../umkm`, `.../queue`) | `umkm` row, one queued job | register, readiness; verification job | Redis queue, two registries | at-least-once execution, retries, a made-up record when the registry is down |
| Strict NIB verification (`readiness-service/.../nib`) | none | verify | two registries | a second rule for the same question |
| ETL NIB verification (`etl-worker/.../verification_task.py`) | `umkm` row | `verify_nib` task | a registry | a third rule; no code dispatches it |
| TradeAtlas buyer sync (`etl-worker`, `matching-service/api/v1/buyers.py`) | `buyer_sync_run`, `buyer` | trigger, fetch and checkpoint, upsert, finish | provider, `ai` queue | overlapping syncs that block and deadlock, crash between commits, redelivery, dispatch after commit |
| Matching and embeddings (`matching-service`, `infra/scripts/run_full_seeding.py`) | `product_embedding`, `buyer_embedding` | embed (task, on demand, backfill), find buyers, list, count | embedding model | derived state that goes stale, figures counted by several statements |
| Seeding (`etl-worker/tasks/*_seeding_task.py`, `scripts/seed-buyers-with-embeddings.py`) | `buyer`, `umkm`, `products` | replace the simulated rows | `ai` queue | overlapping replacements, commit before dispatch, tasks for rows already gone |
| Trade data (`etl-worker/tasks/{bps,inatrade,un_comtrade}_task.py`, `scripts/seed-trade-flows.py`) | `bps_trade_data`, `trade_flows`, a summary per company | ingest, summarize | three public sources | two tables that must agree, deletes wider than what is put back, steps that start over |
| HS classifier (`matching-service`) | a lazily loaded corpus | classify | embedding model | a load that failed once |
| Drafting and guardrails (`comms-service`) | a cooldown table shared by all requests | draft, validate, regenerate, sanitize | two language models | every way out of the loop must be checked |
| Consultation, intent, knowledge base (`comms-service`, two scripts) | `export_knowledge_base` | seed, cut, embed, search | language model, embedding model | scripts in overlap, a long loop that commits row by row |
| Fraud scan, pricing, documents, market intelligence (`readiness-service`) | none | pure computations, read-only aggregates | - | thresholds and rounding |
| Accounts, plans, subscriptions (`user-service/.../auth`, `authz`, `subscription`) | `users`, `subscriptions` | register, login, change plan | - | check-then-insert |
| Administration, audit, activity, reminders, market (`user-service`) | `audit_logs`, `reminders` | reports, plan changes, retry of a workflow | workflow | reporting |
| Gateway (`gateway`) | request counters | forward once, no retries | every service | a timeout shorter than the work behind it |

What makes each of them correct, in short: a workflow is driven until it settles and a completed one
describes the product as it is; a deal, its order, its thread and its checks tell one story; a
verified company is one a registry lists, or says openly that it was not asked, or shows the reply
that was taken for a confirmation; a sync neither loses nor doubles a buyer, and a buyer or product
is matched by what it says now; no draft leaves with a figure the guardrails can read below the cost
price. Every hazard is listed at its line in `PROJECT.json`.

## 2. Modules

### ProductWorkflow - the workflow engine

`ProductWorkflow.tla` models one product (workflows of different products share
nothing). A **task** is one asynchronous activity of the Node process; a request handler
becomes, at its last step, the background run it launches with `void this.run(...)`.
Every awaited statement, fetch or dispatch is one action, so tasks interleave exactly at
their awaits.

| Model | Code |
|---|---|
| `text`, `hs` | `products.name/description`; the HS code, as the text it is the code of |
| `classified` | `hs_candidates` and `hs_classified_at`: who classified the product last (a run that got a code, a run that got none, a client) and the text it had then |
| `resets` | nothing in the code: how often the row was reset, which `execution_version` is to count |
| `status`, `currentStage`, `version`, `stages`, `syncedHs`, `newest` | the columns of `product_workflow`, `workflow_stage` and the newest row of `workflow_events` |
| `task[t]` | the activity's next await and the locals that survive it (the text it read, the stages it will skip, attempt number, version read) |
| `CreateProduct`, `RequestEdit`, `RequestSave`, `RequestStart` | the handlers up to their first await |
| `FindWorkflow` ... `EmitStart` | `startForProduct` and `rerunForProduct` |
| `Begin` ... `EmitLast` | `run` and `runStage` |
| `DatabaseError`, `Kill`, `Reject` | a failing statement, a restart, a rejection nobody handles |

A classifier that knows no code completes its stage and leaves the code in the row as it was
(`workflow.service.ts:325`); the sync that follows uses the old code, or is skipped when there
is none (lines 340-341). A client may save any code for its product, or none
(`product.service.ts:117-150`): the model lets it.

`ProductInitialization.tla` is what a client may rely on, in seven actions: a verdict that is
pending, done or failed. *Done* means that the text the product has was classified, by a run or
by a client; only a classification of that text, or a client, changes the code; and a changed
text takes the verdict back. That the code is of the text is *not* promised, because the code
does not keep it where the classifier knows none.
`ProductWorkflowPromise.tla` maps the detailed module to it (`Verdict`) and states the
implementation, `KeepsPromise`.

### DealLifecycle - a deal and what hangs on it

One deal with its thread, its order and its compliance checks. A task is a request in
flight. `generate`, `send`, `sign`, a compliance run, a message and the gateway's buyer
reply are split at their statements; `disturbed` records which of the harmless
assumptions (nobody else wrote the status, the price, the last message) a behaviour has
broken, so that each invariant says *exactly* which crossings put the rows out of step.
Amounts are natural numbers; only order and equality matter. The registry's verdict in a
compliance run is any of the three: `NibVerification` models where it comes from.

### NibVerification - one company's business number

Registration (look up, insert, dispatch), the queued job with its attempts, and the
worker with its two sources, together with the readiness-service's answer to the same
question. A source *answers*, *errs* (a JSON reply that confirms nothing) or is *down*
(no reply, or not JSON), and the OSS endpoint can also give a body that *seems valid*:
`ossLooksValid` (`verification.worker.ts:291-299`, and its copy in the readiness-service) takes
any HTTP-ok body with a number, a name, or one of `success`, `sukses`, `berhasil`, `200`, `01`
anywhere in its status, code or message for a confirmation, so code 401 is one. Both services
use the same translation of it. The replies drive `fetchBadanPerizinan`, `fetchOssPublic`,
`mergeNibSources` and `calculateScore`, which are translated field by field for the fields a
decision or a score depends on. Such a body takes the sandbox mark off a made-up record while
the made-up scale stays. Scores are in hundredths.

Assumed of the outside world, and marked external in the map: a record of a number comes only
from a registry that lists it; the queue (BullMQ) gives a waiting job to one worker, takes it
back from a worker that went silent (whether it died or only lost its lock) up to `MAX_STALLED`
times, and lets only the owner decide the job's fate. Several instances of the user-service are
several `Workers`.

The comment above `calculateScore` (lines 239-244) gives 0.2 for a customs registration;
the code gives up to 0.2 for the business scale instead, and the model follows the code.

### BuyerSync - importers, their rows and their embeddings

`POST /buyers/sync` puts a message on the `ingest` queue; a Celery process takes it, creates
a `buyer_sync_run` row, fetches page after page (one checkpoint and commit each), aggregates
by importer, upserts each aggregate under a savepoint with a commit per batch, writes the
outcome into the run row and asks for one embedding per buyer on the `ai` queue, where
another process reads the row, computes for seconds and overwrites the embedding.

| Model | Code |
|---|---|
| `runs`, `task[r]` | the rows of `buyer_sync_run`, and where the task behind each of them stands, with the locals that survive |
| `task[r].mine` | the rows its open transaction has written: locked for every other sync |
| `rows[i]`, `embedding[i]` | the run whose aggregate the buyer row, or its embedding, shows; 0 for none |
| `FetchPage`, `FetchFails` | the fetch loop and its two handlers |
| `Select`, `Write`, `SkipDuplicate`, `SkipDeadlock`, `RowFails` | `upsert_buyer`: the lookup, then the write, or one of the ways in which it raises and is counted |
| `CommitBatch`, `CommitRest`, `Finish`, `Dispatch`, `Return` | the rest of the task |
| `Kill` | a process that dies or meets an error nothing catches; the late-acknowledged message comes back or not |
| `EmbedRead`, `EmbedWrite`, `EmbedFails` | `generate_buyer_embedding` |

A row is the *number of its run* because an upsert overwrites every column: what it holds is
a function of the query and of the pages read, so "which run" is all that the properties can
tell apart. `runs[r].alongside`, `lost` and `unserved` are history. Assumed of PostgreSQL, and
marked external in the map: READ COMMITTED, a write that waits for the transaction holding the
row or the key, the unique index of the migration, and deadlock detection, which refuses the
write of one of the waiting transactions (any of them).

Two things `BuyerSync` does not contain because no code does: `buyer_sync_run.last_page` is
called a checkpoint to resume from (`infra/db/migrations/20260719_tradeatlas_buyer_sync.sql:28`,
`providers/base.py:23`), but nothing reads it, a redelivered or repeated sync starts from
page 1; and a run ended by anything but a provider error stays `running` for good.

### ReplyDrafting - letters a language model writes

Requests of the comms-service: a **draft** (`generate_reply`: draft, validate, regenerate and
validate again up to twice, sanitize; the warnings sent are those found before the sanitizing),
a **chat** (`consultation`) and a simulated **buyer** turn, whose price is computed by
`simulate_buyer` and only put into words by the model. Those words are accepted when the
digits of the figure occur in them (`Occurs`, `simulate_buyer.py:142-150`): "14.28" passes for
4.28, so a letter may name a higher price than the reply reports, never a lower one. A
step is what happens between two awaits; each call of a model is one. A *letter* is what the
guardrails can tell apart: the one figure it quotes, the notation of the figure, and whether
it pleads or gives the alternative away. `PriceNumber`, `AnyNumber`, `Leading` say what the
regular expressions of `guardrails.py` read out of a figure, misreadings included. `cooling`
is the `_model_cooldown` table of the Gemini client, which all requests write. The models are
arbitrary: any letter, any failure, in any order.

### KnowledgeBase - what the consultation is grounded in

The rows of `export_knowledge_base`, written by the seeding script (one transaction: delete,
insert, embed, build an index), by `seed-knowledge-base.sql` and by the embedding script
(select once, then cut each row into chunks and commit chunk by chunk), and read by the
searches of the comms-service. A row is an entry and the number of its chunk; `Chunks`
translates `chunk_text` over the lengths of paragraphs (wrapped lines are counted as the text
length over the width, rounded up). Locks are modelled by what they
forbid: a delete waits for the writers of its rows, the index for every other writer of the
table. `broken`, `shared`, `again` are history: embedding runs that broke off, rows that two
runs selected, seedings repeated without clearing.

### BuyerMatching - simulated buyers and products, embeddings, searches

| Model | Code |
|---|---|
| `rows`, `embedded` | `buyer`, `products` by the seeding that wrote them (batch 0 is real); those with an embedding |
| `SeedTask`, `SeedScript`, `ClearEmbeddings`, `ClearRows`, `SeedCommit`, `SeedAborts` | the two seeding tasks and the script, statement by statement in their transaction |
| `Dispatch`, `DispatchBreaks` | one message per row after the commit, and a broker that refuses half way |
| `TakeTask`, `StoreEmbedding`, `TaskFails`, `WorkerLost` | the embedding tasks with their retries; a worker that is gone gives its message back, one whose child was killed has it acknowledged, since `task_reject_on_worker_lost` is not set (`celery_app.py:21`) |
| `BackfillSelect`, `BackfillStep`, `BackfillEnds` | step 7 of `run_full_seeding.py` |
| `search_buyers`, `_ensure_product_embedding`, `_ann_search` | a match: the embedding computed on demand, and whom it can choose from |
| `classify` | the HS classifier with its lazily embedded corpus (`HS_CORPUS`, `_hs_to_category`) |

The company profiles, the buyer templates and the corpus are sizes and codes. The ranking of a
match, its filters and the listings of the directory only read and are no steps; the figures of
`buyers.py:199-239` come from several statements and can be wrong while a seeding commits, which
nothing else depends on. `ClearRows` is one step for the DELETEs of products, companies and users
(`product_seeding_task.py:869-894`), each of which has a snapshot of its own in the code: rows
committed between two of them are not told apart.

### EtlTasks - what comes in from outside

The tasks of the etl-worker that are neither seeding nor sync, on workers of their own: BPS
(one transaction over `bps_trade_data` and `trade_flows`), INA-Trade and UN Comtrade (a fetch
and a commit per step, starting over when one fails), the script `seed-trade-flows.py`, the
summary of a company's markets, and the verification of a NIB with its two registers.
A row of data or flows carries `by`, the number of the attempt that wrote it, so that the
properties can ask which run is behind it. `_bps_hs_and_jenishs`, `Codes`, `Matches` do the
arithmetic of HS codes; names, weights and values of a row are left out, and of the keys the
frequency and the spelling of the flow in `dataset_id` (`bps_task.py:56`) and those columns of a
Comtrade row that one query does not vary. `_merge_nib_sources`
and `_calculate_verification_score` keep what the verdict and the score depend on.

## 3. Runs

| Run | Module | Shows |
|---|---|---|
| `workflow_concurrent` | ProductWorkflow | six properties under two overlapping activities and one fault anywhere, a classifier with or without a code, clients that save any |
| `workflow_settles` | ProductWorkflow | liveness under overlap |
| `workflow_serial` | ProductWorkflowPromise | refinement of `ProductInitialization`, liveness included |
| `workflow_stale_hs` | ProductWorkflow | a statement of the code's comments that it does not keep |
| `deal_lifecycle` | DealLifecycle | eight properties under two overlapping requests, one of which may break off |
| `nib_verification` | NibVerification | six properties, liveness included, under two executions, two failed statements and two silent workers |
| `buyer_sync` | BuyerSync | two overlapping syncs and two embedding processes, with retries: everything is dealt with and every embedding fits its row |
| `buyer_sync_faults` | BuyerSync | five properties with one failure anywhere |
| `drafting` | ReplyDrafting | two requests over two shared models that fail and break the rules at will: what is sent is safe, a refusal has its reason, every request is answered |
| `knowledge_base` | KnowledgeBase | two seedings and two embedding runs in any overlap: no text is lost or doubled unexplained, searches always find something |
| `buyer_matching` | BuyerMatching | two seedings or backfills, an embedding worker that fails or is lost, a search: which rows there are, and that all of them can be matched, now, soon or in the end |
| `etl_tasks` | EtlTasks | two tasks of any kind: every row can be traced to the runs that wrote it, every verdict to a register |

What the properties say is in the comment above each of them. Those a reader should know:

* `NothingAbandoned`: however starts, retries and re-runs overlap, unsettled work has a
  task that will settle it; only the end of the process abandons work.
* `CompletedMeansDone`, `FailedMeansResumable`: what the two terminal statuses promise
  the reader as long as activities do not overlap, crashes and failed statements included. A
  completed workflow has synced the buyers of the code it has, but the code is of the text
  only when the classifier gave one; and it may have no stages, when a fault lost their insert.
* `VersionCountsResets`: `execution_version` never runs ahead of the resets it counts, and falls
  behind only where two of them overlapped.
* `DealFollowsOrder`, `PoAtAgreedPrice`, `MirrorIsNewest`, `ListedNotOptimistic`: two
  tables that must agree, and the precise crossings after which they need not.
* `VerifiedIsBacked`, `FailedIsExplained`: what a row may say after any number of
  overlapping executions. An unlisted company is verified on the sandbox's word, which the row
  says, or on an OSS body without a record, which the row keeps.
* `NibCheckAgrees`: when the two services that answer the same question may differ: over sources
  that do not answer now, over a body without a record, or after an error.
* `NeverOlder`: the full overwrite a sync promises, under any overlap. A completed run may
  find its row refused, by the unique index or by a deadlock, but what is there instead is
  never from a run that had ended before it began.
* `OnlyFullAggregates`, `CountsAddUp`: a sync that stops half way leaves no half aggregates,
  and one that completes has accounted for every importer.
* `EmbeddingFollowsRow`: when all is quiet, a buyer is matched by the row it has, except
  where a request for its embedding was lost or two requests overlapped.
* `RepliesSound` (`FiguresAreSafe`, `UnavailableIsEarned`): a letter sent has no figure the
  guardrails can read below the cost price, whatever the loop went through; the simulated
  buyer's figures are ordered and its words promise no less than the reply reports; a
  request gives up only when every model failed it or was cooling.
* `TextAccountedFor`, `StaysGrounded`: the text of an entry stays complete through cutting and
  re-seeding, and no instant exists at which a search comes back empty-handed.
* `SeedingsAccountedFor`: one set of simulated rows whatever overlaps (the exceptions are named:
  `apart`), every buyer embedded or on its way (`unserved` names the others), no embedding
  without its row.
* `EveryoneMatchable`: in the end nobody is on its way any more: whoever is in the directory can
  be offered, but for those whose embedding was given up, lost or not asked for.
* `RecordsAccountedFor`: in `OneRunPerCode`, `FlowsBacked` and `DataReachesFlows`, that the two
  tables BPS fills tell one story; in `VerdictEarned` and `VerdictCurrent`, that a verdict is a
  register's word, or marked as invented, and is about the NIB asked about last.

### Bounds

* `workflow_*`: two activities are enough for every pairwise interleaving; three requests
  allow create, edit and a further start. The concurrent runs shorten the list to one stage
  of each kind (classification, sync, bookkeeping) with 2, 1 and 1 attempts, so that a
  retry, an exhausted stage and a skipped stage all occur; the serial run has the code's
  seven stages and attempts. Two texts tell a stale code from a fresh one. One fault is a
  database error or a kill at any point.
* `deal_*`: two requests in flight, four in a behaviour (create, generate and two that
  cross), three prices (zero, which the code treats as no price, and two others), one
  request that breaks off at any statement. Status patches are limited to a bargaining and
  a final status: the code treats all of them alike.
* `nib_*`: two registrations race; two executions overlap; three attempts instead of five, two
  failing statements, two silent workers of which the queue forgives one. `Settles` says what is
  too much (`Overtaxed`): as many failing statements as attempts; more silent workers than are
  forgiven; or a worker that went silent together with another or with two failing statements.
  The last is not a matter of the bounds: a worker that comes back after another wrote the result
  marks the row in progress again, and when it then dies, or its write and `markFailed` both
  fail, nobody is left to finish, however many attempts remain. The run reaches all of these; five
  attempts, two stalls forgiven, five failing statements and three silent workers were checked
  once as well.
* `buyer_*`: two syncs of overlapping queries; three importers, one without a usable name,
  over three pages of which the cap reads two; batches of two, so that a sync holds a row
  while it wants the next one (blocking, deadlock, a refused insert and a commit in the middle
  all occur). `buyer_sync` has two embedding processes, which may overlap on one buyer, and
  one retry instead of three; `buyer_sync_faults` has one process and no retry, and a failure
  of a fetch, a row or a process at any point, with the message coming back or not. Both
  together would not finish in minutes, and the proofs have no such bound.
* `drafting`: two requests (of which each may be a draft, a chat or a buyer turn) and two
  models are enough for one request to cool a model under the other; the letters put a figure
  on either side of the thresholds in each notation, and one contains the buyer's figure inside a
  higher one; a floor known or unknown; two
  regenerations as in the code.
* `knowledge_base`: an entry that is cut in two, one that is not, and one of the SQL script;
  three seedings (so that one is repeated after two have overlapped) and two embedding runs.
* `buyer_matching`: two seedings or backfills of two buyers and one product, each of any of
  the three kinds; one worker of the `ai` queue with one retry instead of three; one search at
  a time, between any two steps. One more of any of them is past the time of a run.
* `etl_tasks`: two tasks of any kind; two headings of one chapter and two years, since BPS
  answers by chapter and deletes by code; a partner, or none (NULL); two full NIBs and a short
  one; one retry instead of three or five.
* `CHECK_DEADLOCK FALSE` in every run: when the requests are used up and all is idle, the
  system rests. That it does not rest too early is `Settles` and `KeepsPromise`.

Task symmetry is used in runs without liveness properties only.

### Fairness

Weak fairness of each task's own steps (`Handler(t) \/ Run(t)`), of a registration once it
was started, and of each worker's steps. The event loop resumes an activity whose await
has settled; every fetch has a timeout and every statement ends; the queue hands out a
waiting job. Nothing makes a client send, a statement fail, or a worker stall, and no
fairness is assumed of those. In `BuyerSync`: weak fairness of taking a message, of each
run's own steps and of each embedding process. A sync's calls have timeouts, a blocked
write ends with the transaction it waits for, and that transaction is a sync that goes on,
or waits itself until PostgreSQL finds the circle. Failing is never fair, so `Drains` also
says that the retries of an embedding end on their own. In `ReplyDrafting`: weak fairness of
each request's handler, whose calls have timeouts; a model may fail for ever, and `Answers`
holds all the same. In `BuyerMatching`: weak fairness of a seeding once it has begun (it ends or
is rolled back) and of taking a message; strong fairness of ending a task, by storing or by
failing: a worker may be lost any number of times, but not every time before its task has
ended. The other three modules state safety only: their scripts and tasks are started by hand,
and nothing makes anyone start them again.

### What the models show about the code

One disagreement is recorded in `PROJECT.json` with the run that exhibits it: an edit that
arrives while the old text is being classified completes with the old HS code. The following
are what the code does, met while modelling; the properties name them as exceptions or leave
them open.

* Workflow: a start finds a workflow "alive" that nothing drives any more
  (`workflow.service.ts:97` says it ensures one is running); the start launched by a
  product's creation can lose the insert race, reject into nobody and take the process down; a
  re-run whose classifier knows no code keeps the old one and syncs its buyers again
  (`workflow.service.ts:325`), a first run without one completes without buyers.
* Verification: an OSS body without a record verifies a number nobody lists
  (`verification.worker.ts:291-299`), and a record the sandbox made up then no longer says so.
* Deals: sending a signed order again moves the deal back (`purchase-order.service.ts:83` says
  "advance"); a listed company fails a compliance check when the registries are down
  (`compliance.service.ts:88-90` promises a warning for a hiccup; it comes only when the
  readiness-service itself does not answer).
* Drafting: without a key, a fallback letter whose minimum order quantity lies within a tenth
  of the cost price is regenerated, and the request refused (503) although a letter was there; a
  price written "Rp 1.500.000" is not read as a number, and "IDR 300000" is read as 300;
  the simulated buyer settles below the floor when the seller asked less
  (`simulate_buyer.py:66` says never), and its words may name a higher price than it reports.
* Knowledge base: an embedding run that breaks off between two chunks loses the rest of the
  text and no later run selects the row; the plain searches return the lowest ids of the
  categories, not the best; seeding twice without clearing doubles every entry, since
  `ON CONFLICT` has no key to meet.
* Matching: overlapping seedings of buyers leave two sets; the script's `--clear` removes the
  embeddings of real buyers too; the embedding of a row whose task was killed by its time limit is
  never made; the product's embedding stays as it was after an edit, and
  outlives the product; a classifier whose corpus failed to load stays unusable for the life
  of the process; `matching_service.py:1` promises a credibility-weighted order, the results
  are ordered by distance.
* Trade data: ingesting one year of BPS removes the flows of every other year of its codes,
  and a code met in one direction only loses the other, while `bps_trade_data` keeps both; two
  headings of a chapter store the chapter twice; Comtrade rows with an empty key column double
  on a retry; a chapter's rows never match a company's four-digit heading; BPS is not retried.
* ETL verification: when the first register is down, the invented company's name and scale go
  before the second register's, without the sandbox mark; an invented company scores 0.95 or
  1.0, one the register found 0.8 unless the second adds a scale; a verdict that comes late
  overwrites the verdict of a newer NIB.

## 4. Proofs

The theorems hold for every value of the constants allowed by the named assumptions:
any number of tasks, stages, texts, attempts, executions, requests, faults. Each rests on an
inductive invariant; those that were not obvious were model-checked before they were proved.

| Module | Theorem | Argument |
|---|---|---|
| `ProductWorkflowProofs` | `TypeCorrect` | the type invariant is inductive together with the facts each program counter carries about its locals (`TInv`) |
| | `NeverAbandoned` | strengthened by what each program counter knows of the rows (`AtStage` and its companions): a marked stage belongs to the task between marking and settling it |
| | `DeathIsARace` | the process exits only in the insert of a first start, whose lookup found no row: the row that is now there was written by a task that overlapped |
| | `VersionCounts` | a reset that was read counts no more than the resets there were (`VersKnown`), and what it read is still in the row unless another activity wrote while it was live |
| | `CompletedIsDone`, `FailedIsResumable` | `Story` below: they are what it says of a state in which nobody drives |
| | `PromiseKept`, `SerialPromise` | the refinement of `ProductInitialization`, step by step, from `Story` |
| `DealLifecycleProofs` | `TypeCorrect`, `PassesEarned`, `AcceptAfterCounter`, `TermsFrozen` | `TInv`: types, what a request knows at each await (`Keeps`), batches drawn from what they name (`AllJudged`) |
| | `ListedIsNoBetter`, `OrderAtAgreedPrice`, `DealFollows`, `NewestIsMirrored` | one relation each between the rows and the requests still on their way: `LastRun`, `PriceKept`, `Followed`, `Mirrored` |
| `NibVerificationProofs` | `TypeCorrect` | type invariant with `JobOK` (an executable job has an attempt left, an owner means active) |
| | `VerifiedBacked`, `FailedExplained` | `SInv` below |
| | `NibChecksAgree` | follows from the two before: a live source that verified means listed or a body without a record, and strictness then only depends on who answers |
| | `LevelHolds` | an action property: only statements that write FAILED lower the level |
| `BuyerSyncProofs` | `TypeCorrect`, `FullAggregates`, `CountsHold` | `Inv`: types, `RunsOK` and `OnlyFullAggregates`, below |
| | `RowsNeverOlder` | `Inv` with `Order`, below |
| | `RowsAreEmbedded` | `Inv` with `Follow`, below |
| `ReplyDraftingProofs` | `TypeCorrect`, `RepliesAreSound` | `Sound` of every request: models tried, spared and left are all there are (`Tried`), no answer before its time, the violations kept belong to the letter kept |
| `EtlTasksProofs` | `TypeCorrect`, `RecordsCorrect` | `TInv`: what a task knows of the rows it read (`RunOK`), a number for each run (`Numbered`); `OneAsked` for verdicts |
| `BuyerMatchingProofs` | `TypeCorrect`, `SeedingsCorrect` | `TInv`: what a seeding misses was committed after its DELETE (`JobOK`), nobody knows an uncommitted row (`AllKnown`) |
| `KnowledgeBaseProofs` | `ChunksAtLeastOne` | by the least-number principle over the loop of `chunk_text` |
| | `TypeCorrect`, `TextIsAccountedFor`, `AlwaysGrounded` | `KInv` with `Covered`, below |

**`Story` of `ProductWorkflowProofs`** speaks of behaviours in which no two activities overlapped;
crashes and failed statements may happen at any step. At most one task drives the workflow. While
one does, it is *on course*: for each await of `run` and `runStage`, `OnCourse` says what the rows
hold, up to which stage they are completed, what the task has in its locals and what it has still to
write; after a fault there may be no stage rows at all (`Bare`). While none does, the rows are
*settled*: there is no workflow, or it is completed, or failed at the current stage. And what a
handler has read and is about to write back is fresh. The two theorems about terminal statuses are
corollaries; neither is inductive without the other awaits, since a status says nothing of the
stages until the drive that led to it is known. `AloneWhenWriting` is where the absence of overlap
pays: when an edit, an insert or a reset leaves it so, no other task was in the middle of anything.

**The refinement.** `PromiseKept` is a step simulation: `Init` maps to the abstract initial states,
and every step of the detailed module after which nothing overlapped or failed (`Undisturbed`) maps
to a step of `ProductInitialization` or to a stutter. One lemma per group of actions says which
(`DriveRefines`: classification, done and failed; `WriteRefines`: edits; `FindRefines`,
`LaunchRefines`, `RequestRefines`: creation, and looks that stutter). `SerialPromise` removes the
condition for the configuration the run checks, one task and no fault, where no step can disturb.
The fairness of the promise is beyond the prover; the run checks it.

**`SInv` of `NibVerificationProofs`** joins the type invariant with four parts: what a
registration in flight knows (`RegistrationOK`: until it dispatches there is no job and no
execution), what an execution keeps (`WorkersOK`: a reply that erred was noted), what the
row says (`RowOK`), and `OneExecution`: as long as no worker went silent, at most the job's
owner is at work, and a score in the row means that the job is done and the company
verified. The last part is why a failed row with a score takes a stalled worker, and it
is not implied by anything the row itself records. Lemmas about the pure functions
(`ScoreBounds`, `ValidResult`, `InvalidResult`) are stated once and cited.

**`RunsOK` of `BuyerSyncProofs`** says how a run row and its task go together: until the last
page is read the run has nothing to write; from then on every aggregate is in exactly one of
four places (still to do, in hand, done, skipped), which is a statement about cardinalities
of disjoint finite sets and is what makes the two counts add up. A row can then only be
stamped by a run that read everything, and such a run is never marked failed. `StepOfRun`
states once what a step of one run has to show; each action's lemma supplies it.

**`Order`** has three parts. `Alongside`: a run in progress is known to
every run that began after it, so whatever it commits, at any later time, is recent for all of
them (`CommitsAreRecent`). `FoundOK`: a lookup that found nothing saw an empty place, so a row
that is there when the insert is refused was committed since. `Covered`: an importer the run no
longer owes has a recent row, a failed write, or an open transaction on it; commits and deaths
only move it from one of these to another. `StepKeepsOrder` states the step once.

**`Follow`** is the same for embeddings: of a buyer whose requests were neither lost nor
overlapping, at most one process is computing, and the embedding fits the row, is being computed
from the row as it is, or is still owed - by a message, or by a run that has committed the row
and not yet dispatched. The last case is what the order *commit, then dispatch* buys; `RunsOK`
gives that no run commits a row again after it has counted it as done.

**The four relations of `DealLifecycleProofs`** are all of one shape: two tables agree, or a
request that has written the one is about to write the other. `LastRun`: the rows the last
compliance run answered with are there, or a run is about to insert. `PriceKept`: an order, and
every generate request that has read the price, has the price agreed. `Followed`: the deal says
what the order says, or a send or sign stands between its two statements. `Mirrored`: at most
one message is being mirrored, and it is the newest. Each carries the exception of its property
(`faults = 0`, `disturbed`), and none needs a bound on the requests that cross.

**`KInv` of `KnowledgeBaseProofs`** says what a row may be at each moment of being cut up
(`RowsOK`), that a run holds an id once and knows its entry (`HeldOK`), that parts it did not
make belong to a row that two runs held (`PartsOK`, `SharedOK`), and what an open seeding will
remove (`SeedingOK`). `Covered` is the promise that no text is forgotten: a chunk that is missing
is that of a run past its first chunk, or of a row whose run broke off. A run before its first
chunk is left out of the promise on purpose: the row is still whole, and with it the invariant
would not be inductive, since such a run may break off without a trace.

`RunOK` of `EtlTasksProofs` is the analogous statement for a BPS transaction: what it found and
will delete, and what it did not see because it was committed after it looked; that is why the
two tables explain each other under any overlap.

Assumptions the proofs needed beside the types of the constants, each true of the code:
the lists of headings and reporters a trade-data task is asked for are not empty, and "none" is
no NIB (`EtlAssumption`); the sets of knowledge-base entries are finite (`EntriesAssumption`).

`RepliesSound`, `RecordsAccountedFor`, `TextAccountedFor` and `SeedingsAccountedFor` are
conjunctions; the theorem states the whole.

What is left to TLC: liveness (`Settles`, `Drains`, `Answers`, `EveryoneMatchable`) and the fairness
part of `KeepsPromise`, which need ENABLED; the workflow property that is *expected* to fail
(`workflow_stale_hs`). Every safety property of the passing runs is the statement of a theorem.

## 5. Plan

Modelled, checked and, for its safety, proved: the modules of section 2. What would add most:

1. Weaker exceptions: `CompletedIsDone` under overlap of activities that do not edit, and
   `DealFollows` for sends and signs that cross but finish in order.
2. The price pair of a product as part of `DealLifecycle`; the text of a product in its
   embedding; the credibility score and the normalization of `buyer_intelligence.py`.
3. Lemmas about the pure functions of `ReplyDrafting` (what `PriceNumber` reads of a figure) and
   of `EtlTasks` (`_bps_hs_and_jenishs`) for every input.

## 6. Not modelled

Accounts, plans, subscriptions and the gateway's throttling (single-row reads and writes
with no protocol); reminders, audit, activity and market figures (reporting); fraud scan and
pricing (pure arithmetic of one request, within reach of unit tests); the intent classifier (a
stateless call with a fallback); documents (static tables); parsing in the ingestion tasks
(input formats) and the ranking by similarity (real-valued); deployment files.
`PROJECT.json` lists each with its reason.
