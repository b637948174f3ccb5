--------------------------- MODULE ProductWorkflow ---------------------------
(***************************************************************************)
(* The product initialization workflow of the user-service: the handlers   *)
(* that create and edit a product, start, retry and re-run its workflow,   *)
(* and the background run that drives the stages                           *)
(* (workflow/workflow.service.ts, product/product.service.ts).             *)
(*                                                                         *)
(* One product is modelled; workflows of different products share nothing. *)
(* A task is one asynchronous activity of the Node process: a request      *)
(* handler, which on its last step becomes the background run it launches  *)
(* with `void this.run(...)`.  Every awaited database statement, fetch or  *)
(* job dispatch is one action, so that tasks interleave exactly at their   *)
(* awaits.  The tables are the shared state; nothing in the code locks,    *)
(* opens a transaction or checks the execution version.                    *)
(***************************************************************************)
EXTENDS Naturals, Sequences

CONSTANTS
  Tasks,                \* the activities that may be in flight at once
  Texts,                \* product texts (name and description) users may enter
  NoText,               \* no product, no HS code, nothing held
  STAGES,               \* the stage names in execution order
  STAGE_MAX_ATTEMPTS,   \* attempts per stage
  MaxRequests,          \* bound: requests clients send in a behaviour
  MaxFaults             \* bound: database errors and process kills in a behaviour

Stage == 1 .. Len(STAGES)

ASSUME ConstantsAssumption ==
  /\ NoText \notin Texts
  /\ STAGES \in Seq(STRING)
  /\ Len(STAGES) >= 1
  /\ \A i \in Stage : STAGES[i] = "hs_classification" <=> i = 1
  /\ STAGE_MAX_ATTEMPTS \in [Stage -> Nat \ {0}]
  /\ MaxRequests \in Nat
  /\ MaxFaults \in Nat

VARIABLES
  text,          \* products.name and products.description
  hs,            \* products.hs_code, as the text it is the code of
  classified,    \* products.hs_candidates and hs_classified_at: who wrote them, for which text
  status,        \* product_workflow.status, "none" while there is no row
  currentStage,  \* product_workflow.current_stage, 0 when null
  version,       \* product_workflow.execution_version (retry_count is one less)
  resets,        \* how often the row was reset for a retry or a re-run
  stages,        \* workflow_stage.status per stage, "absent" while not inserted
  syncedHs,      \* metadata.hs of the buyer_sync row: the code whose sync was enqueued
  newest,        \* the newest workflow-level row of workflow_events
  task,          \* what each task is doing
  requests,      \* requests sent so far
  faults,        \* database errors and kills so far
  died,          \* the process exited on an unhandled rejection
  overlapped     \* a handler wrote while another task was in the middle of its work

vars == <<text, hs, classified, status, currentStage, version, resets, stages, syncedHs, newest,
          task, requests, faults, died, overlapped>>

product  == <<text, hs, classified>>
workflow == <<status, currentStage, version, resets>>
rows     == <<stages, syncedHs>>
history  == <<requests, faults, died, overlapped>>

-----------------------------------------------------------------------------
Text           == Texts \union {NoText}
WorkflowStatus == {"none", "queued", "running", "completed", "failed"}
StageStatus    == {"absent", "queued", "running", "retrying", "completed", "failed"}
(* A classification by the run came with a code or without one.             *)
Classifier     == {"none", "withCode", "withoutCode", "client"}
Event          == {"none", "WorkflowStarted", "RetryScheduled",
                   "WorkflowCompleted", "WorkflowFailed"}

(* Where a task stands: the await it performs next. *)
RequestPc == {"dispatch", "editWrite", "saveWrite"}
LaunchPc  == {"find", "insertWorkflow", "insertStages", "resetWorkflow",
              "resetStages", "emitStart"}
StagePc   == {"markCurrent", "classify", "persist", "syncRead", "syncPost",
              "complete", "markRetrying", "failStage"}
RunPc     == {"begin", "readProduct", "readStages", "markRunning",
              "emitCompleted", "failWorkflow", "finish"} \union StagePc
LastPc    == {"emitFailed", "emitFinished"}
Pc        == {"idle"} \union RequestPc \union LaunchPc \union RunPc \union LastPc

(* What the handler was asked for.  A "touch" is an update whose name and  *)
(* description equal the ones it read.                                     *)
Op == {"none", "create", "start", "edit", "touch", "save"}

Task == [pc : Pc, op : Op, seen : Text, code : Text, ver : Nat,
         skip : SUBSET Stage, at : Nat, att : Nat]

Idle == [pc |-> "idle", op |-> "none", seen |-> NoText, code |-> NoText,
         ver |-> 0, skip |-> {}, at |-> 0, att |-> 0]

Init ==
  /\ text = NoText /\ hs = NoText
  /\ classified = [by |-> "none", of |-> NoText]
  /\ status = "none" /\ currentStage = 0 /\ version = 1 /\ resets = 0
  /\ stages = [i \in Stage |-> "absent"] /\ syncedHs = NoText
  /\ newest = "none"
  /\ task = [t \in Tasks |-> Idle]
  /\ requests = 0 /\ faults = 0 /\ died = FALSE /\ overlapped = FALSE

-----------------------------------------------------------------------------
At(t, l)      == task[t].pc = l
Become(t, r)  == task' = [task EXCEPT ![t] = r]
Goto(t, l)    == Become(t, [task[t] EXCEPT !.pc = l])
Return(t)     == Become(t, Idle)

(* A task in the middle of something: it has written, or has read what its *)
(* next write depends on.  A handler that has not looked yet is not.       *)
Live(t) == \/ task[t].pc \notin {"idle", "dispatch", "find"}
           \/ At(t, "find") /\ task[t].op = "edit"

NoteOverlap(t) ==
  overlapped' = (overlapped \/ \E u \in Tasks \ {t} : Live(u))

(* Every in-flight activity is lost with the process; the rows stay. *)
LoseTasks == task' = [t \in Tasks |-> Idle]

(* The promise of a handler launched with `void` has nobody to reject to:  *)
(* Node exits.  A handler that is awaited answers with an error.           *)
Reject(t) ==
  IF task[t].op = "start"
  THEN Return(t) /\ UNCHANGED died
  ELSE LoseTasks /\ died' = TRUE

Arrive(t) ==
  /\ At(t, "idle")
  /\ requests < MaxRequests
  /\ requests' = requests + 1
  /\ UNCHANGED <<faults, died, overlapped>>

-----------------------------------------------------------------------------
(* Requests: what clients may send, up to the first await. *)

(* POST products: the row is inserted; the embedding job is still to be    *)
(* dispatched before the workflow is kicked off.                           *)
CreateProduct(t) ==
  /\ Arrive(t)
  /\ text = NoText
  /\ text' \in Texts
  /\ Become(t, [Idle EXCEPT !.pc = "dispatch", !.op = "create"])
  /\ UNCHANGED <<hs, classified, workflow, rows, newest>>

(* When the queue refuses the embedding job, create answers with an error  *)
(* and the product stays without a workflow.                               *)
DispatchEmbedding(t) ==
  /\ At(t, "dispatch")
  /\ Goto(t, "find") \/ Return(t)
  /\ UNCHANGED <<product, workflow, rows, newest, history>>

(* POST products/:id/workflow, and the admin's retry. *)
RequestStart(t) ==
  /\ Arrive(t)
  /\ text # NoText
  /\ Become(t, [Idle EXCEPT !.pc = "find", !.op = "start"])
  /\ UNCHANGED <<product, workflow, rows, newest>>

(* PATCH products/:id: reads the existing row, which later decides whether *)
(* the name or description changed.                                        *)
RequestEdit(t) ==
  /\ Arrive(t)
  /\ text # NoText
  /\ \E x \in Texts :
       Become(t, [Idle EXCEPT !.pc = "editWrite", !.seen = x,
                              !.op = IF x = text THEN "touch" ELSE "edit"])
  /\ UNCHANGED <<product, workflow, rows, newest>>

(* PATCH products/:id/classification: the client sends any code, or none.   *)
RequestSave(t) ==
  /\ Arrive(t)
  /\ text # NoText
  /\ \E x \in Text :
       Become(t, [Idle EXCEPT !.pc = "saveWrite", !.op = "save", !.code = x])
  /\ UNCHANGED <<product, workflow, rows, newest>>

(* Faulty variant: an edit does not re-run the workflow. *)
EditWriteNoRerun(t) ==
  /\ At(t, "editWrite")
  /\ text' = task[t].seen
  /\ Return(t)
  /\ NoteOverlap(t)
  /\ UNCHANGED <<hs, classified, workflow, rows, newest, requests, faults, died>>

EditWrite(t) ==
  /\ At(t, "editWrite")
  /\ text' = task[t].seen
  /\ IF task[t].op = "edit"
     THEN Become(t, [Idle EXCEPT !.pc = "find", !.op = "edit"])
     ELSE Return(t)
  /\ NoteOverlap(t)
  /\ UNCHANGED <<hs, classified, workflow, rows, newest, requests, faults, died>>

(* The code is written when the request had one, the rest always; the row   *)
(* then speaks for the text it has, whatever the client was shown.          *)
SaveWrite(t) ==
  /\ At(t, "saveWrite")
  /\ hs' = IF task[t].code = NoText THEN hs ELSE task[t].code
  /\ classified' = [by |-> "client", of |-> text]
  /\ Return(t)
  /\ NoteOverlap(t)
  /\ UNCHANGED <<text, workflow, rows, newest, requests, faults, died>>

-----------------------------------------------------------------------------
(* startForProduct ("create", "start") and rerunForProduct ("edit"). *)

(* Faulty variant: a re-run does not look for the workflow it repeats. *)
FindWorkflowNever(t) ==
  /\ At(t, "find")
  /\ IF status \notin {"none", "failed"} /\ task[t].op # "edit"
     THEN Return(t)
     ELSE Goto(t, "insertWorkflow")
  /\ UNCHANGED <<product, workflow, rows, newest, history>>

(* A re-run that finds no workflow calls startForProduct, which looks      *)
(* again.  A start returns an existing workflow as it is unless it failed. *)
FindWorkflow(t) ==
  /\ At(t, "find")
  /\ \/ /\ status = "none" /\ task[t].op = "edit"
        /\ Become(t, [task[t] EXCEPT !.op = "create"])
     \/ /\ status = "none" /\ task[t].op # "edit"
        /\ Goto(t, "insertWorkflow")
     \/ /\ \/ status = "failed"
           \/ status # "none" /\ task[t].op = "edit"
        /\ Become(t, [task[t] EXCEPT !.pc = "resetWorkflow", !.ver = version])
     \/ /\ status \notin {"none", "failed"} /\ task[t].op # "edit"
        /\ Return(t)
  /\ UNCHANGED <<product, workflow, rows, newest, history>>

(* product_id is unique: of two inserts the second is an error. *)
InsertWorkflow(t) ==
  /\ At(t, "insertWorkflow")
  /\ \/ /\ status = "none"
        /\ status' = "queued" /\ currentStage' = 1
        /\ Goto(t, "insertStages")
        /\ NoteOverlap(t)
        /\ UNCHANGED <<version, resets, died>>
     \/ /\ status # "none"
        /\ Reject(t)
        /\ UNCHANGED <<workflow, overlapped>>
  /\ UNCHANGED <<product, rows, newest, requests, faults>>

InsertStages(t) ==
  /\ At(t, "insertStages")
  /\ stages' = [i \in Stage |-> "queued"]
  /\ Goto(t, "emitStart")
  /\ UNCHANGED <<product, workflow, syncedHs, newest, history>>

(* Faulty variant: a re-run puts execution_version back to its default. *)
ResetWorkflowToDefault(t) ==
  /\ At(t, "resetWorkflow")
  /\ status' = "queued"
  /\ version' = IF task[t].op = "edit" THEN 1 ELSE task[t].ver + 1
  /\ resets' = resets + 1
  /\ currentStage' = IF task[t].op = "edit" THEN 1 ELSE currentStage
  /\ Goto(t, "resetStages")
  /\ NoteOverlap(t)
  /\ UNCHANGED <<product, rows, newest, requests, faults, died>>

(* The version written is the one read, plus one.  Only a re-run moves     *)
(* current_stage back.                                                     *)
ResetWorkflow(t) ==
  /\ At(t, "resetWorkflow")
  /\ status' = "queued"
  /\ version' = task[t].ver + 1
  /\ resets' = resets + 1
  /\ currentStage' = IF task[t].op = "edit" THEN 1 ELSE currentStage
  /\ Goto(t, "resetStages")
  /\ NoteOverlap(t)
  /\ UNCHANGED <<product, rows, newest, requests, faults, died>>

(* Faulty variant: completed rows survive the reset. *)
ResetStagesUnfinished(t) ==
  /\ At(t, "resetStages")
  /\ stages' = [i \in Stage |-> IF stages[i] \in {"absent", "completed"}
                                THEN stages[i] ELSE "queued"]
  /\ syncedHs' = IF task[t].op = "edit" THEN NoText ELSE syncedHs
  /\ Goto(t, "emitStart")
  /\ UNCHANGED <<product, workflow, newest, history>>

(* One UPDATE over the rows there are.  Only a re-run clears the metadata. *)
ResetStages(t) ==
  /\ At(t, "resetStages")
  /\ stages' = [i \in Stage |-> IF stages[i] = "absent" THEN "absent" ELSE "queued"]
  /\ syncedHs' = IF task[t].op = "edit" THEN NoText ELSE syncedHs
  /\ Goto(t, "emitStart")
  /\ UNCHANGED <<product, workflow, newest, history>>

(* The event is inserted and the run launched; the handler returns and the *)
(* task goes on as the run.  `ver` tells a retry or re-run from a first    *)
(* start: it holds the version read, never 0.                              *)
EmitStart(t) ==
  /\ At(t, "emitStart")
  /\ newest' = IF task[t].ver = 0 \/ task[t].op = "edit"
               THEN "WorkflowStarted" ELSE "RetryScheduled"
  /\ Become(t, [Idle EXCEPT !.pc = "begin"])
  /\ UNCHANGED <<product, workflow, rows, history>>

-----------------------------------------------------------------------------
(* run: the background execution. *)

Begin(t) ==
  /\ At(t, "begin")
  /\ status' = "running"
  /\ Goto(t, "readProduct")
  /\ UNCHANGED <<product, currentStage, version, resets, rows, newest, history>>

ReadProduct(t) ==
  /\ At(t, "readProduct")
  /\ Become(t, [task[t] EXCEPT !.pc = "readStages", !.seen = text])
  /\ UNCHANGED <<product, workflow, rows, newest, history>>

(* The next stage after i that the snapshot does not let the run skip. *)
MoveOn(t, i, skip) ==
  \E j \in i + 1 .. Len(STAGES) + 1 :
    /\ j \notin skip
    /\ \A k \in i + 1 .. j - 1 : k \in skip
    /\ Become(t, [task[t] EXCEPT !.skip = skip, !.at = j,
                                 !.pc = IF j \in Stage THEN "markRunning" ELSE "finish"])

(* The loop runs over the rows found here: completed ones are passed over, *)
(* and a workflow whose rows are not inserted yet has nothing to do.       *)
ReadStages(t) ==
  /\ At(t, "readStages")
  /\ MoveOn(t, 0, {i \in Stage : stages[i] \in {"completed", "absent"}})
  /\ UNCHANGED <<product, workflow, rows, newest, history>>

SetStage(t, s) == stages' = [stages EXCEPT ![task[t].at] = s]

MarkRunning(t) ==
  /\ At(t, "markRunning")
  /\ SetStage(t, "running")
  /\ Goto(t, "markCurrent")
  /\ UNCHANGED <<product, workflow, syncedHs, newest, history>>

(* runStage's first await; the stages without a server-side driver have    *)
(* none and only return a note.                                            *)
FirstStep(i) ==
  CASE STAGES[i] = "hs_classification" -> "classify"
    [] STAGES[i] = "buyer_sync"        -> "syncRead"
    [] OTHER                           -> "complete"

(* Faulty variant: current_stage names the stage to run next. *)
MarkCurrentNext(t) ==
  /\ At(t, "markCurrent")
  /\ currentStage' = task[t].at + 1
  /\ Become(t, [task[t] EXCEPT !.pc = FirstStep(task[t].at), !.att = 1])
  /\ UNCHANGED <<product, status, version, resets, rows, newest, history>>

(* Faulty variant: current_stage is not kept up to date. *)
MarkCurrentNever(t) ==
  /\ At(t, "markCurrent")
  /\ Become(t, [task[t] EXCEPT !.pc = FirstStep(task[t].at), !.att = 1])
  /\ UNCHANGED <<product, workflow, rows, newest, history>>

MarkCurrent(t) ==
  /\ At(t, "markCurrent")
  /\ currentStage' = task[t].at
  /\ Become(t, [task[t] EXCEPT !.pc = FirstStep(task[t].at), !.att = 1])
  /\ UNCHANGED <<product, status, version, resets, rows, newest, history>>

(* An exception inside the attempt: retry while attempts are left. *)
AttemptFails(t) ==
  Goto(t, IF task[t].att < STAGE_MAX_ATTEMPTS[task[t].at]
          THEN "markRetrying" ELSE "failStage")

(* The classifier is given the text the run read when it began. *)
Classify(t) ==
  /\ At(t, "classify")
  /\ Goto(t, "persist") \/ AttemptFails(t)
  /\ UNCHANGED <<product, workflow, rows, newest, history>>

(* The candidates are written in any case, the code only when the answer    *)
(* has one: otherwise the old one stays.                                    *)
PersistClassification(t) ==
  /\ At(t, "persist")
  /\ \/ /\ hs' = task[t].seen
        /\ classified' = [by |-> "withCode", of |-> task[t].seen]
     \/ /\ hs' = hs
        /\ classified' = [by |-> "withoutCode", of |-> task[t].seen]
  /\ Goto(t, "complete")
  /\ UNCHANGED <<text, workflow, rows, newest, history>>

(* buyer_sync re-reads the product for its HS code, and skips the sync     *)
(* when there is none.  The code read at the start of the run, which it    *)
(* would fall back on, is not there when the fresh one is not: nothing     *)
(* clears it.                                                              *)
SyncRead(t) ==
  /\ At(t, "syncRead")
  /\ Become(t, [task[t] EXCEPT !.code = hs,
                               !.pc = IF hs = NoText THEN "complete" ELSE "syncPost"])
  /\ UNCHANGED <<product, workflow, rows, newest, history>>

SyncPost(t) ==
  /\ At(t, "syncPost")
  /\ Goto(t, "complete") \/ AttemptFails(t)
  /\ UNCHANGED <<product, workflow, rows, newest, history>>

CompleteStage(t) ==
  /\ At(t, "complete")
  /\ SetStage(t, "completed")
  /\ syncedHs' = IF STAGES[task[t].at] = "buyer_sync" THEN task[t].code ELSE syncedHs
  /\ Goto(t, "emitCompleted")
  /\ UNCHANGED <<product, workflow, newest, history>>

EmitCompleted(t) ==
  /\ At(t, "emitCompleted")
  /\ MoveOn(t, task[t].at, task[t].skip)
  /\ UNCHANGED <<product, workflow, rows, newest, history>>

(* Faulty variant: the attempt is not counted. *)
MarkRetryingUncounted(t) ==
  /\ At(t, "markRetrying")
  /\ SetStage(t, "retrying")
  /\ Goto(t, FirstStep(task[t].at))
  /\ UNCHANGED <<product, workflow, syncedHs, newest, history>>

(* After the backoff the next attempt starts over. *)
MarkRetrying(t) ==
  /\ At(t, "markRetrying")
  /\ SetStage(t, "retrying")
  /\ Become(t, [task[t] EXCEPT !.pc = FirstStep(task[t].at), !.att = @ + 1])
  /\ UNCHANGED <<product, workflow, syncedHs, newest, history>>

(* Faulty variant: the run returns with the workflow still running. *)
FailStageAndReturn(t) ==
  /\ At(t, "failStage")
  /\ SetStage(t, "failed")
  /\ Return(t)
  /\ UNCHANGED <<product, workflow, syncedHs, newest, history>>

FailStage(t) ==
  /\ At(t, "failStage")
  /\ SetStage(t, "failed")
  /\ Goto(t, "failWorkflow")
  /\ UNCHANGED <<product, workflow, syncedHs, newest, history>>

FailWorkflow(t) ==
  /\ At(t, "failWorkflow")
  /\ status' = "failed"
  /\ Goto(t, "emitFailed")
  /\ UNCHANGED <<product, currentStage, version, resets, rows, newest, history>>

Finish(t) ==
  /\ At(t, "finish")
  /\ status' = "completed" /\ currentStage' = 0
  /\ Goto(t, "emitFinished")
  /\ UNCHANGED <<product, version, resets, rows, newest, history>>

EmitLast(t) ==
  /\ task[t].pc \in LastPc
  /\ newest' = IF At(t, "emitFailed") THEN "WorkflowFailed" ELSE "WorkflowCompleted"
  /\ Return(t)
  /\ UNCHANGED <<product, workflow, rows, history>>

-----------------------------------------------------------------------------
(* Faults. *)

(* A database statement fails.  In a handler the promise rejects; inside   *)
(* an attempt it is a failed attempt, even when the stage was already      *)
(* written completed; anywhere else run() logs the error and gives up.     *)
AttemptPc == {"persist", "syncRead", "complete", "emitCompleted"}

DatabaseError(t) ==
  /\ faults < MaxFaults
  /\ faults' = faults + 1
  /\ \/ /\ task[t].pc \in LaunchPc
        /\ Reject(t)
     \/ /\ task[t].pc \in {"editWrite", "saveWrite"}
        /\ Return(t) /\ UNCHANGED died
     \/ /\ task[t].pc \in AttemptPc
        /\ AttemptFails(t) /\ UNCHANGED died
     \/ /\ task[t].pc \in (RunPc \union LastPc) \ (AttemptPc \union {"classify", "syncPost"})
        /\ Return(t) /\ UNCHANGED died
  /\ UNCHANGED <<product, workflow, rows, newest, requests, overlapped>>

(* The process is killed or redeployed.  Nothing looks for unfinished      *)
(* workflows when it comes back.                                           *)
Kill ==
  /\ faults < MaxFaults
  /\ faults' = faults + 1
  /\ LoseTasks
  /\ UNCHANGED <<product, workflow, rows, newest, requests, died, overlapped>>

-----------------------------------------------------------------------------
Request(t) == \/ CreateProduct(t) \/ RequestStart(t) \/ RequestEdit(t) \/ RequestSave(t)

Handler(t) == \/ DispatchEmbedding(t) \/ EditWrite(t) \/ SaveWrite(t)
              \/ FindWorkflow(t) \/ InsertWorkflow(t) \/ InsertStages(t)
              \/ ResetWorkflow(t) \/ ResetStages(t) \/ EmitStart(t)

Run(t) == \/ Begin(t) \/ ReadProduct(t) \/ ReadStages(t)
          \/ MarkRunning(t) \/ MarkCurrent(t)
          \/ Classify(t) \/ PersistClassification(t) \/ SyncRead(t) \/ SyncPost(t)
          \/ CompleteStage(t) \/ EmitCompleted(t) \/ MarkRetrying(t)
          \/ FailStage(t) \/ FailWorkflow(t) \/ Finish(t) \/ EmitLast(t)

Next == \/ \E t \in Tasks : Request(t) \/ Handler(t) \/ Run(t) \/ DatabaseError(t)
        \/ Kill

(* The event loop resumes every activity whose await has settled, and      *)
(* every await settles: the fetches have timeouts, the statements end.     *)
(* Nothing makes a client send, or the database fail.                      *)
Fairness == \A t \in Tasks : WF_vars(Handler(t) \/ Run(t))

Spec     == Init /\ [][Next]_vars
FairSpec == Spec /\ Fairness

-----------------------------------------------------------------------------
(* Properties. *)

TablesOK ==
  /\ text \in Text /\ hs \in Text /\ syncedHs \in Text
  /\ classified \in [by : Classifier, of : Text]
  /\ status \in WorkflowStatus
  /\ currentStage \in {0} \union Stage
  /\ version \in Nat \ {0} /\ resets \in Nat
  /\ stages \in [Stage -> StageStatus]
  /\ newest \in Event

TasksOK == task \in [Tasks -> Task]

HistoryOK ==
  /\ requests \in 0 .. MaxRequests /\ faults \in 0 .. MaxFaults
  /\ died \in BOOLEAN /\ overlapped \in BOOLEAN

TypeOK == TablesOK /\ TasksOK /\ HistoryOK

Quiet == \A t \in Tasks : ~Live(t)

(* A task that still has to write a terminal status. *)
Driving(t) == task[t].pc \in {"insertStages", "resetStages", "emitStart"} \union RunPc

(* A task between marking a stage running and marking it completed or failed. *)
WorkingOn(t, i) == task[t].pc \in StagePc /\ task[t].at = i

(* However many starts, retries and re-runs overlap, a workflow that is     *)
(* not settled has a task that will settle it, and a stage row left         *)
(* running or retrying has a task at work on it: work is only ever          *)
(* abandoned when the process goes down (run(), lines 196-291).             *)
NothingAbandoned ==
  faults = 0 /\ ~died =>
    /\ status \in {"queued", "running"} => \E t \in Tasks : Driving(t)
    /\ \A i \in Stage :
         stages[i] \in {"running", "retrying"} => \E t \in Tasks : WorkingOn(t, i)

(* As long as no two activities overlapped, crashes and failed statements   *)
(* included, a completed workflow has every stage completed and has synced  *)
(* the buyers of the code in the product's row, unless a client saved       *)
(* another since; or it has no stage rows at all, the insert of the rows    *)
(* having been lost to a fault.  Without a fault the classification is of   *)
(* the present text, so is the code when the classifier gave one, and the   *)
(* newest event says that the work is done (run(), lines 196-291, and       *)
(* runStage, lines 299-352).                                                *)
CompletedMeansDone ==
  ~overlapped /\ Quiet /\ status = "completed" =>
    /\ \/ /\ \A i \in Stage : stages[i] = "completed"
          /\ classified.by # "client" =>
               \A i \in Stage : STAGES[i] = "buyer_sync" => syncedHs = hs
       \/ faults > 0 /\ \A i \in Stage : stages[i] = "absent"
    /\ faults = 0 => /\ classified.of = text
                     /\ classified.by = "withCode" => hs = text
                     /\ newest = "WorkflowCompleted"

(* Under the same condition a failed workflow names the stage to resume at, *)
(* whatever crashed or failed before: that row is failed, the ones before   *)
(* it completed, the ones after it untouched, and current_stage points at   *)
(* it.                                                                      *)
FailedMeansResumable ==
  ~overlapped /\ Quiet /\ status = "failed" =>
    /\ currentStage \in Stage
    /\ \A i \in Stage : stages[i] = CASE i < currentStage -> "completed"
                                      [] i = currentStage -> "failed"
                                      [] OTHER            -> "queued"
    /\ faults = 0 => newest = "WorkflowFailed"

(* execution_version counts the resets of the workflow: absent overlap it   *)
(* is one more than their number, faults or not, and however the resets     *)
(* overlap it never runs ahead of them; it falls behind when two of them    *)
(* read the same value (lines 108-118, 163-176).                            *)
VersionCountsResets ==
  /\ version <= resets + 1
  /\ ~overlapped => version = resets + 1

(* Without an injected fault the process exits only when two first starts   *)
(* race for the unique workflow row, and never on a sequential history.     *)
DeathNeedsOverlap == died => overlapped \/ faults > 0

(* A queued or running workflow is eventually settled, unless the process   *)
(* went down: attempts are bounded and every await settles.                 *)
Settles == (status \in {"queued", "running"})
             ~> (status \in {"completed", "failed"} \/ faults > 0 \/ died)

-----------------------------------------------------------------------------
(* What the documentation of the code says, and the code does not keep. *)

(* product.service.ts 102-106: an edit of the name or description re-runs   *)
(* the workflow "so the persisted HS code no longer reflects the old        *)
(* product".  Claimed without faults, whatever the overlap, and only of     *)
(* what a run classified last and got a code for: once all is quiet and     *)
(* completed, the code is that of the present text.                         *)
HsReflectsProduct ==
  faults = 0 /\ ~died /\ Quiet /\ status = "completed" /\ classified.by = "withCode" => hs = text
=============================================================================
