------------------------ MODULE ProductWorkflowProofs ------------------------
(* Theorems about ProductWorkflow, for every set of tasks and texts, every  *)
(* list of stages that begins with the classification, and any bounds.      *)
EXTENDS ProductWorkflowPromise, TLAPS

-----------------------------------------------------------------------------
(* The run is at a stage whenever it is doing something about one. *)
AtStage == \A t \in Tasks :
  task[t].pc \in StagePc \union {"markRunning", "emitCompleted"} => task[t].at \in Stage

TInv == TypeOK /\ AtStage

LEMMA IdleTask == Idle \in Task
BY DEF Task, Idle, Pc, RequestPc, LaunchPc, RunPc, StagePc, LastPc, Op, Text

LEMMA InitTInv == Init => TInv
<1>. SUFFICES ASSUME Init PROVE TInv
  OBVIOUS
<1>1. TypeOK
  <2>1. task \in [Tasks -> Task]
    BY IdleTask DEF Init
  <2>2. stages \in [Stage -> StageStatus]
    BY DEF Init, StageStatus
  <2>3. requests \in 0 .. MaxRequests /\ faults \in 0 .. MaxFaults
    BY ConstantsAssumption DEF Init
  <2>4. died \in BOOLEAN /\ overlapped \in BOOLEAN
    BY DEF Init
  <2>5. /\ text \in Text /\ hs \in Text /\ syncedHs \in Text
        /\ status \in WorkflowStatus /\ newest \in Event
        /\ currentStage \in {0} \union Stage /\ version \in Nat \ {0}
        /\ resets \in Nat
    BY DEF Init, Text, WorkflowStatus, Event
  <2>6. classified \in [by : Classifier, of : Text]
    BY DEF Init, Text, Classifier
  <2>. QED
    BY <2>1, <2>2, <2>3, <2>4, <2>5, <2>6 DEF TypeOK, TablesOK, TasksOK, HistoryOK
<1>2. AtStage
  BY DEF Init, AtStage, Idle, StagePc
<1>. QED
  BY <1>1, <1>2 DEF TInv

(* What a task becomes is a task, and only that task changes. *)
LEMMA BecomeTask ==
  ASSUME TInv, NEW t \in Tasks, NEW r \in Task, Become(t, r),
         r.pc \in StagePc \union {"markRunning", "emitCompleted"} => r.at \in Stage
  PROVE  TasksOK' /\ AtStage'
BY DEF TInv, TypeOK, TasksOK, AtStage, Become

(* The loop only ever moves to a stage or past the last one. *)
LEMMA MoveOnTask ==
  ASSUME TInv, NEW t \in Tasks, NEW i \in Nat, NEW skip \in SUBSET Stage, MoveOn(t, i, skip)
  PROVE  TasksOK' /\ AtStage'
<1>1. PICK j \in i + 1 .. Len(STAGES) + 1 :
        Become(t, [task[t] EXCEPT !.skip = skip, !.at = j,
                                  !.pc = IF j \in Stage THEN "markRunning" ELSE "finish"])
  BY DEF MoveOn
<1>. DEFINE r == [task[t] EXCEPT !.skip = skip, !.at = j,
                            !.pc = IF j \in Stage THEN "markRunning" ELSE "finish"]
<1>2. j \in Nat
  BY ConstantsAssumption
<1>3. r \in Task /\ (r.pc # "finish" => r.at \in Stage)
  BY <1>2 DEF TInv, TypeOK, TasksOK, Task, Pc, RunPc
<1>4. Become(t, r)
  BY <1>1
<1>. HIDE DEF r
<1>. QED
  BY <1>3, <1>4, BecomeTask DEF StagePc

LEMMA FirstStepPc ==
  ASSUME NEW i \in Stage
  PROVE  FirstStep(i) \in StagePc
BY DEF FirstStep, StagePc

(* The ways a task goes on: at another await, idle, lost with the process,  *)
(* or with the attempt failed.                                              *)
LEMMA GotoTask ==
  ASSUME TInv, NEW t \in Tasks, NEW l \in Pc, Goto(t, l),
         l \in StagePc \union {"markRunning", "emitCompleted"} => task[t].at \in Stage
  PROVE  TasksOK' /\ AtStage'
<1>. DEFINE r == [task[t] EXCEPT !.pc = l]
<1>1. task[t] \in Task
  BY DEF TInv, TypeOK, TasksOK
<1>2. r \in Task /\ r.pc = l /\ r.at = task[t].at
  BY <1>1 DEF Task
<1>3. Become(t, r)
  BY DEF Goto
<1>. HIDE DEF r
<1>. QED
  BY <1>2, <1>3, BecomeTask

LEMMA ReturnTask ==
  ASSUME TInv, NEW t \in Tasks, Return(t)
  PROVE  TasksOK' /\ AtStage'
<1>1. Idle.pc = "idle"
  BY DEF Idle
<1>. QED
  BY <1>1, IdleTask, BecomeTask DEF Return, StagePc

LEMMA LoseTask ==
  ASSUME LoseTasks
  PROVE  TasksOK' /\ AtStage'
BY IdleTask DEF LoseTasks, TasksOK, AtStage, Idle, StagePc

LEMMA AttemptFailsTask ==
  ASSUME TInv, NEW t \in Tasks, AttemptFails(t), task[t].at \in Stage
  PROVE  TasksOK' /\ AtStage'
<1>1. Goto(t, "markRetrying") \/ Goto(t, "failStage")
  BY DEF AttemptFails
<1>. QED
  BY <1>1, GotoTask DEF Pc, RunPc, StagePc

(* The rows keep their types. *)
LEMMA StepTablesOK == TInv /\ [Next]_vars => TablesOK'
<1>. SUFFICES ASSUME TInv, [Next]_vars PROVE TablesOK'
  OBVIOUS
<1>. USE DEF TInv, TypeOK, TablesOK
<1>1. ASSUME NEW t \in Tasks, CreateProduct(t) PROVE TablesOK'
  BY <1>1 DEF CreateProduct, workflow, rows, Text, Task, TasksOK
<1>2. ASSUME NEW t \in Tasks, DispatchEmbedding(t) PROVE TablesOK'
  BY <1>2 DEF DispatchEmbedding, product, workflow, rows
<1>3. ASSUME NEW t \in Tasks, RequestStart(t) PROVE TablesOK'
  BY <1>3 DEF RequestStart, product, workflow, rows
<1>4. ASSUME NEW t \in Tasks, RequestEdit(t) PROVE TablesOK'
  BY <1>4 DEF RequestEdit, product, workflow, rows
<1>5. ASSUME NEW t \in Tasks, RequestSave(t) PROVE TablesOK'
  BY <1>5 DEF RequestSave, product, workflow, rows
<1>6. ASSUME NEW t \in Tasks, EditWrite(t) PROVE TablesOK'
  BY <1>6 DEF EditWrite, workflow, rows, Text, Task, TasksOK
<1>7. ASSUME NEW t \in Tasks, SaveWrite(t) PROVE TablesOK'
  <2>1. classified' \in [by : Classifier, of : Text]
    BY <1>7 DEF SaveWrite, Classifier
  <2>2. hs' \in Text
    BY <1>7 DEF SaveWrite, Task, TasksOK
  <2>. QED
    BY <1>7, <2>1, <2>2 DEF SaveWrite, workflow, rows
<1>8. ASSUME NEW t \in Tasks, FindWorkflow(t) PROVE TablesOK'
  BY <1>8 DEF FindWorkflow, product, workflow, rows
<1>9. ASSUME NEW t \in Tasks, InsertWorkflow(t) PROVE TablesOK'
  BY <1>9, ConstantsAssumption
    DEF InsertWorkflow, product, workflow, rows, WorkflowStatus, Stage
<1>10. ASSUME NEW t \in Tasks, InsertStages(t) PROVE TablesOK'
  BY <1>10 DEF InsertStages, product, workflow, StageStatus
<1>11. ASSUME NEW t \in Tasks, ResetWorkflow(t) PROVE TablesOK'
  BY <1>11, ConstantsAssumption
    DEF ResetWorkflow, product, rows, WorkflowStatus, Task, TasksOK, Stage
<1>12. ASSUME NEW t \in Tasks, ResetStages(t) PROVE TablesOK'
  BY <1>12 DEF ResetStages, product, workflow, Text, Task, TasksOK, StageStatus
<1>13. ASSUME NEW t \in Tasks, EmitStart(t) PROVE TablesOK'
  BY <1>13 DEF EmitStart, product, workflow, rows, Event
<1>14. ASSUME NEW t \in Tasks, Begin(t) PROVE TablesOK'
  BY <1>14 DEF Begin, product, rows, WorkflowStatus
<1>15. ASSUME NEW t \in Tasks, ReadProduct(t) PROVE TablesOK'
  BY <1>15 DEF ReadProduct, product, workflow, rows
<1>16. ASSUME NEW t \in Tasks, ReadStages(t) PROVE TablesOK'
  BY <1>16 DEF ReadStages, product, workflow, rows
<1>17. ASSUME NEW t \in Tasks, MarkRunning(t) PROVE TablesOK'
  BY <1>17
    DEF MarkRunning, SetStage, product, workflow, StageStatus, AtStage, At,
        StagePc
<1>18. ASSUME NEW t \in Tasks, MarkCurrent(t) PROVE TablesOK'
  BY <1>18, ConstantsAssumption
    DEF MarkCurrent, product, rows, AtStage, At, StagePc, Stage
<1>19. ASSUME NEW t \in Tasks, Classify(t) PROVE TablesOK'
  BY <1>19 DEF Classify, product, workflow, rows
<1>20. ASSUME NEW t \in Tasks, PersistClassification(t) PROVE TablesOK'
  <2>1. task[t].seen \in Text
    BY DEF Task, TasksOK
  <2>2. hs' \in Text
    BY <1>20, <2>1 DEF PersistClassification
  <2>3. classified' \in [by : Classifier, of : Text]
    BY <1>20, <2>1 DEF PersistClassification, Classifier
  <2>. QED
    BY <1>20, <2>2, <2>3 DEF PersistClassification, workflow, rows
<1>21. ASSUME NEW t \in Tasks, SyncRead(t) PROVE TablesOK'
  BY <1>21 DEF SyncRead, product, workflow, rows
<1>22. ASSUME NEW t \in Tasks, SyncPost(t) PROVE TablesOK'
  BY <1>22 DEF SyncPost, product, workflow, rows
<1>23. ASSUME NEW t \in Tasks, CompleteStage(t) PROVE TablesOK'
  BY <1>23
    DEF CompleteStage, SetStage, product, workflow, Text, Task, TasksOK,
        StageStatus, AtStage, At, StagePc
<1>24. ASSUME NEW t \in Tasks, EmitCompleted(t) PROVE TablesOK'
  BY <1>24 DEF EmitCompleted, product, workflow, rows
<1>25. ASSUME NEW t \in Tasks, MarkRetrying(t) PROVE TablesOK'
  BY <1>25
    DEF MarkRetrying, SetStage, product, workflow, StageStatus, AtStage, At,
        StagePc
<1>26. ASSUME NEW t \in Tasks, FailStage(t) PROVE TablesOK'
  BY <1>26
    DEF FailStage, SetStage, product, workflow, StageStatus, AtStage, At,
        StagePc
<1>27. ASSUME NEW t \in Tasks, FailWorkflow(t) PROVE TablesOK'
  BY <1>27 DEF FailWorkflow, product, rows, WorkflowStatus
<1>28. ASSUME NEW t \in Tasks, Finish(t) PROVE TablesOK'
  BY <1>28, ConstantsAssumption
    DEF Finish, product, rows, WorkflowStatus, Stage
<1>29. ASSUME NEW t \in Tasks, EmitLast(t) PROVE TablesOK'
  BY <1>29 DEF EmitLast, product, workflow, rows, Event
<1>30. ASSUME NEW t \in Tasks, DatabaseError(t) PROVE TablesOK'
  BY <1>30 DEF DatabaseError, product, workflow, rows
<1>31. CASE Kill
  BY <1>31 DEF Kill, product, workflow, rows
<1>32. CASE UNCHANGED vars
  BY <1>32 DEF vars
<1>. QED
  BY <1>1, <1>2, <1>3, <1>4, <1>5, <1>6, <1>7, <1>8, <1>9, <1>10, <1>11, <1>12, <1>13, <1>14, <1>15, <1>16, <1>17, <1>18, <1>19, <1>20, <1>21, <1>22, <1>23, <1>24, <1>25, <1>26, <1>27, <1>28, <1>29, <1>30, <1>31, <1>32
    DEF Next, Request, Handler, Run

(* So do the request and fault counters and the two flags. *)
LEMMA StepHistoryOK == TInv /\ [Next]_vars => HistoryOK'
<1>. SUFFICES ASSUME TInv, [Next]_vars PROVE HistoryOK'
  OBVIOUS
<1>. USE DEF TInv, TypeOK, HistoryOK
<1>1. ASSUME NEW t \in Tasks, CreateProduct(t) PROVE HistoryOK'
  BY <1>1, ConstantsAssumption DEF CreateProduct, Arrive
<1>2. ASSUME NEW t \in Tasks, DispatchEmbedding(t) PROVE HistoryOK'
  BY <1>2 DEF DispatchEmbedding, history
<1>3. ASSUME NEW t \in Tasks, RequestStart(t) PROVE HistoryOK'
  BY <1>3, ConstantsAssumption DEF RequestStart, Arrive
<1>4. ASSUME NEW t \in Tasks, RequestEdit(t) PROVE HistoryOK'
  BY <1>4, ConstantsAssumption DEF RequestEdit, Arrive
<1>5. ASSUME NEW t \in Tasks, RequestSave(t) PROVE HistoryOK'
  BY <1>5, ConstantsAssumption DEF RequestSave, Arrive
<1>6. ASSUME NEW t \in Tasks, EditWrite(t) PROVE HistoryOK'
  BY <1>6 DEF EditWrite, NoteOverlap
<1>7. ASSUME NEW t \in Tasks, SaveWrite(t) PROVE HistoryOK'
  BY <1>7 DEF SaveWrite, NoteOverlap
<1>8. ASSUME NEW t \in Tasks, FindWorkflow(t) PROVE HistoryOK'
  BY <1>8 DEF FindWorkflow, history
<1>9. ASSUME NEW t \in Tasks, InsertWorkflow(t) PROVE HistoryOK'
  BY <1>9 DEF InsertWorkflow, NoteOverlap, Reject
<1>10. ASSUME NEW t \in Tasks, InsertStages(t) PROVE HistoryOK'
  BY <1>10 DEF InsertStages, history
<1>11. ASSUME NEW t \in Tasks, ResetWorkflow(t) PROVE HistoryOK'
  BY <1>11 DEF ResetWorkflow, NoteOverlap
<1>12. ASSUME NEW t \in Tasks, ResetStages(t) PROVE HistoryOK'
  BY <1>12 DEF ResetStages, history
<1>13. ASSUME NEW t \in Tasks, EmitStart(t) PROVE HistoryOK'
  BY <1>13 DEF EmitStart, history
<1>14. ASSUME NEW t \in Tasks, Begin(t) PROVE HistoryOK'
  BY <1>14 DEF Begin, history
<1>15. ASSUME NEW t \in Tasks, ReadProduct(t) PROVE HistoryOK'
  BY <1>15 DEF ReadProduct, history
<1>16. ASSUME NEW t \in Tasks, ReadStages(t) PROVE HistoryOK'
  BY <1>16 DEF ReadStages, history
<1>17. ASSUME NEW t \in Tasks, MarkRunning(t) PROVE HistoryOK'
  BY <1>17 DEF MarkRunning, history
<1>18. ASSUME NEW t \in Tasks, MarkCurrent(t) PROVE HistoryOK'
  BY <1>18 DEF MarkCurrent, history
<1>19. ASSUME NEW t \in Tasks, Classify(t) PROVE HistoryOK'
  BY <1>19 DEF Classify, history
<1>20. ASSUME NEW t \in Tasks, PersistClassification(t) PROVE HistoryOK'
  BY <1>20 DEF PersistClassification, history
<1>21. ASSUME NEW t \in Tasks, SyncRead(t) PROVE HistoryOK'
  BY <1>21 DEF SyncRead, history
<1>22. ASSUME NEW t \in Tasks, SyncPost(t) PROVE HistoryOK'
  BY <1>22 DEF SyncPost, history
<1>23. ASSUME NEW t \in Tasks, CompleteStage(t) PROVE HistoryOK'
  BY <1>23 DEF CompleteStage, history
<1>24. ASSUME NEW t \in Tasks, EmitCompleted(t) PROVE HistoryOK'
  BY <1>24 DEF EmitCompleted, history
<1>25. ASSUME NEW t \in Tasks, MarkRetrying(t) PROVE HistoryOK'
  BY <1>25 DEF MarkRetrying, history
<1>26. ASSUME NEW t \in Tasks, FailStage(t) PROVE HistoryOK'
  BY <1>26 DEF FailStage, history
<1>27. ASSUME NEW t \in Tasks, FailWorkflow(t) PROVE HistoryOK'
  BY <1>27 DEF FailWorkflow, history
<1>28. ASSUME NEW t \in Tasks, Finish(t) PROVE HistoryOK'
  BY <1>28 DEF Finish, history
<1>29. ASSUME NEW t \in Tasks, EmitLast(t) PROVE HistoryOK'
  BY <1>29 DEF EmitLast, history
<1>30. ASSUME NEW t \in Tasks, DatabaseError(t) PROVE HistoryOK'
  <2>1. requests' \in 0 .. MaxRequests /\ faults' \in 0 .. MaxFaults
    BY <1>30, ConstantsAssumption DEF DatabaseError
  <2>2. overlapped' = overlapped /\ (died' = died \/ died' = TRUE)
    BY <1>30 DEF DatabaseError, Reject
  <2>. QED
    BY <2>1, <2>2
<1>31. CASE Kill
  BY <1>31, ConstantsAssumption DEF Kill
<1>32. CASE UNCHANGED vars
  BY <1>32 DEF vars
<1>. QED
  BY <1>1, <1>2, <1>3, <1>4, <1>5, <1>6, <1>7, <1>8, <1>9, <1>10, <1>11, <1>12, <1>13, <1>14, <1>15, <1>16, <1>17, <1>18, <1>19, <1>20, <1>21, <1>22, <1>23, <1>24, <1>25, <1>26, <1>27, <1>28, <1>29, <1>30, <1>31, <1>32
    DEF Next, Request, Handler, Run

(* Every task stays a task, and at a stage of the list. *)
LEMMA StepTasksOK == TInv /\ [Next]_vars => TasksOK' /\ AtStage'
<1>. SUFFICES ASSUME TInv, [Next]_vars PROVE TasksOK' /\ AtStage'
  OBVIOUS
<1>1. ASSUME NEW t \in Tasks, CreateProduct(t) PROVE TasksOK' /\ AtStage'
  BY <1>1, IdleTask
    DEF CreateProduct, Become, TInv, TypeOK, TasksOK, AtStage, Task, Idle,
        Op, Pc, RequestPc, RunPc, StagePc
<1>2. ASSUME NEW t \in Tasks, DispatchEmbedding(t) PROVE TasksOK' /\ AtStage'
  BY <1>2, ReturnTask, GotoTask
    DEF DispatchEmbedding, Pc, RequestPc, LaunchPc, RunPc, StagePc, LastPc
<1>3. ASSUME NEW t \in Tasks, RequestStart(t) PROVE TasksOK' /\ AtStage'
  BY <1>3, IdleTask
    DEF RequestStart, Become, TInv, TypeOK, TasksOK, AtStage, Task, Idle, Op,
        Pc, RequestPc, RunPc, StagePc, LaunchPc
<1>4. ASSUME NEW t \in Tasks, RequestEdit(t) PROVE TasksOK' /\ AtStage'
  <2>1. PICK x \in Texts :
          Become(t, [Idle EXCEPT !.pc = "editWrite", !.seen = x,
                                 !.op = IF x = text THEN "touch" ELSE "edit"])
    BY <1>4 DEF RequestEdit
  <2>. DEFINE r == [Idle EXCEPT !.pc = "editWrite", !.seen = x,
                              !.op = IF x = text THEN "touch" ELSE "edit"]
  <2>2. r \in Task /\ (r.pc \in StagePc \union {"markRunning", "emitCompleted"} => r.at \in Stage)
    BY IdleTask DEF Task, Idle, Pc, Op, RequestPc, LaunchPc, RunPc, StagePc, Text
  <2>3. Become(t, r)
    BY <2>1 DEF RequestEdit
  <2>. HIDE DEF r
  <2>. QED
    BY <2>2, <2>3, BecomeTask
<1>5. ASSUME NEW t \in Tasks, RequestSave(t) PROVE TasksOK' /\ AtStage'
  <2>1. PICK x \in Text :
          Become(t, [Idle EXCEPT !.pc = "saveWrite", !.op = "save", !.code = x])
    BY <1>5 DEF RequestSave
  <2>. DEFINE r == [Idle EXCEPT !.pc = "saveWrite", !.op = "save", !.code = x]
  <2>2. r \in Task /\ (r.pc \in StagePc \union {"markRunning", "emitCompleted"} => r.at \in Stage)
    BY IdleTask DEF Task, Idle, Pc, Op, RequestPc, LaunchPc, RunPc, StagePc, Text
  <2>3. Become(t, r)
    BY <2>1
  <2>. HIDE DEF r
  <2>. QED
    BY <2>2, <2>3, BecomeTask
<1>6. ASSUME NEW t \in Tasks, EditWrite(t) PROVE TasksOK' /\ AtStage'
  <2>. DEFINE r == IF task[t].op = "edit"
                  THEN [Idle EXCEPT !.pc = "find", !.op = "edit"] ELSE Idle
  <2>2. r \in Task /\ (r.pc \in StagePc \union {"markRunning", "emitCompleted"} => r.at \in Stage)
    BY IdleTask DEF Task, Idle, Pc, Op, RequestPc, LaunchPc, RunPc, StagePc, Text
  <2>3. Become(t, r)
    BY <1>6 DEF EditWrite, Return
  <2>. HIDE DEF r
  <2>. QED
    BY <2>2, <2>3, BecomeTask
<1>7. ASSUME NEW t \in Tasks, SaveWrite(t) PROVE TasksOK' /\ AtStage'
  BY <1>7, ReturnTask DEF SaveWrite
<1>8. ASSUME NEW t \in Tasks, FindWorkflow(t) PROVE TasksOK' /\ AtStage'
  <2>1. task[t] \in Task /\ task[t].pc = "find" /\ version \in Nat
    BY <1>8 DEF FindWorkflow, At, TInv, TypeOK, TasksOK, TablesOK
  <2>. DEFINE r1 == [task[t] EXCEPT !.op = "create"]
              r2 == [task[t] EXCEPT !.pc = "insertWorkflow"]
              r3 == [task[t] EXCEPT !.pc = "resetWorkflow", !.ver = version]
  <2>2. \A r \in {r1, r2, r3} :
          r \in Task /\ r.pc \notin StagePc \union {"markRunning", "emitCompleted"}
    BY <2>1 DEF Task, Pc, LaunchPc, StagePc, Op
  <2>3. Become(t, r1) \/ Become(t, r2) \/ Become(t, r3) \/ Become(t, Idle)
    BY <1>8 DEF FindWorkflow, Goto, Return
  <2>4. Idle.pc = "idle"
    BY DEF Idle
  <2>. HIDE DEF r1, r2, r3
  <2>. QED
    BY <2>2, <2>3, <2>4, IdleTask, BecomeTask DEF StagePc
<1>9. ASSUME NEW t \in Tasks, InsertWorkflow(t) PROVE TasksOK' /\ AtStage'
  BY <1>9, LoseTask, ReturnTask, GotoTask
    DEF InsertWorkflow, Reject, Pc, RequestPc, LaunchPc, RunPc, StagePc,
        LastPc
<1>10. ASSUME NEW t \in Tasks, InsertStages(t) PROVE TasksOK' /\ AtStage'
  BY <1>10, GotoTask
    DEF InsertStages, Pc, RequestPc, LaunchPc, RunPc, StagePc, LastPc
<1>11. ASSUME NEW t \in Tasks, ResetWorkflow(t) PROVE TasksOK' /\ AtStage'
  BY <1>11, GotoTask
    DEF ResetWorkflow, Pc, RequestPc, LaunchPc, RunPc, StagePc, LastPc
<1>12. ASSUME NEW t \in Tasks, ResetStages(t) PROVE TasksOK' /\ AtStage'
  BY <1>12, GotoTask
    DEF ResetStages, Pc, RequestPc, LaunchPc, RunPc, StagePc, LastPc
<1>13. ASSUME NEW t \in Tasks, EmitStart(t) PROVE TasksOK' /\ AtStage'
  BY <1>13, IdleTask
    DEF EmitStart, Become, TInv, TypeOK, TasksOK, AtStage, Task, Idle, Op,
        Pc, RequestPc, RunPc, StagePc
<1>14. ASSUME NEW t \in Tasks, Begin(t) PROVE TasksOK' /\ AtStage'
  BY <1>14, GotoTask DEF Begin, Pc, RequestPc, LaunchPc, RunPc, StagePc, LastPc
<1>15. ASSUME NEW t \in Tasks, ReadProduct(t) PROVE TasksOK' /\ AtStage'
  <2>1. task[t] \in Task
    BY <1>15 DEF TInv, TypeOK, TasksOK
  <2>2. text \in Text /\ hs \in Text
    BY DEF TInv, TypeOK, TablesOK
  <2>. DEFINE r == [task[t] EXCEPT !.pc = "readStages", !.seen = text]
  <2>3. r \in Task
    BY <2>1, <2>2 DEF Task, Pc, RunPc, StagePc
  <2>4. r.pc \in StagePc \union {"markRunning", "emitCompleted"} => r.at \in Stage
    BY <2>1 DEF Task, StagePc
  <2>5. Become(t, r)
    BY <1>15 DEF ReadProduct
  <2>. HIDE DEF r
  <2>. QED
    BY <2>3, <2>4, <2>5, BecomeTask
<1>16. ASSUME NEW t \in Tasks, ReadStages(t) PROVE TasksOK' /\ AtStage'
  <2>. DEFINE skip == {i \in Stage : stages[i] \in {"completed", "absent"}}
  <2>. QED
    BY <1>16, MoveOnTask DEF ReadStages
<1>17. ASSUME NEW t \in Tasks, MarkRunning(t) PROVE TasksOK' /\ AtStage'
  BY <1>17, GotoTask
    DEF MarkRunning, Pc, RequestPc, LaunchPc, RunPc, StagePc, LastPc, At,
        TInv, AtStage
<1>18. ASSUME NEW t \in Tasks, MarkCurrent(t) PROVE TasksOK' /\ AtStage'
  <2>1. task[t] \in Task /\ task[t].at \in Stage
    BY <1>18 DEF TInv, TypeOK, TasksOK, AtStage, At, StagePc, MarkCurrent
  <2>2. text \in Text /\ hs \in Text
    BY DEF TInv, TypeOK, TablesOK
  <2>. DEFINE r == [task[t] EXCEPT !.pc = FirstStep(task[t].at), !.att = 1]
  <2>3. r \in Task
    BY <2>1, FirstStepPc DEF Task, Pc, RunPc, StagePc
  <2>4. r.pc \in StagePc \union {"markRunning", "emitCompleted"} => r.at \in Stage
    BY <2>1 DEF Task, StagePc
  <2>5. Become(t, r)
    BY <1>18 DEF MarkCurrent
  <2>. HIDE DEF r
  <2>. QED
    BY <2>3, <2>4, <2>5, BecomeTask
<1>19. ASSUME NEW t \in Tasks, Classify(t) PROVE TasksOK' /\ AtStage'
  BY <1>19, AttemptFailsTask, GotoTask
    DEF Classify, Pc, RequestPc, LaunchPc, RunPc, StagePc, LastPc, At, TInv,
        AtStage
<1>20. ASSUME NEW t \in Tasks, PersistClassification(t) PROVE TasksOK' /\ AtStage'
  BY <1>20, GotoTask
    DEF PersistClassification, Pc, RequestPc, LaunchPc, RunPc, StagePc,
        LastPc, At, TInv, AtStage
<1>21. ASSUME NEW t \in Tasks, SyncRead(t) PROVE TasksOK' /\ AtStage'
  <2>1. task[t] \in Task /\ task[t].at \in Stage
    BY <1>21 DEF TInv, TypeOK, TasksOK, AtStage, At, StagePc, SyncRead
  <2>2. text \in Text /\ hs \in Text
    BY DEF TInv, TypeOK, TablesOK
  <2>. DEFINE r == [task[t] EXCEPT !.code = hs,
                              !.pc = IF hs = NoText THEN "complete" ELSE "syncPost"]
  <2>3. r \in Task
    BY <2>1, <2>2 DEF Task, Pc, RunPc, StagePc
  <2>4. r.pc \in StagePc \union {"markRunning", "emitCompleted"} => r.at \in Stage
    BY <2>1 DEF Task, StagePc
  <2>5. Become(t, r)
    BY <1>21 DEF SyncRead
  <2>. HIDE DEF r
  <2>. QED
    BY <2>3, <2>4, <2>5, BecomeTask
<1>22. ASSUME NEW t \in Tasks, SyncPost(t) PROVE TasksOK' /\ AtStage'
  BY <1>22, AttemptFailsTask, GotoTask
    DEF SyncPost, Pc, RequestPc, LaunchPc, RunPc, StagePc, LastPc, At, TInv,
        AtStage
<1>23. ASSUME NEW t \in Tasks, CompleteStage(t) PROVE TasksOK' /\ AtStage'
  BY <1>23, GotoTask
    DEF CompleteStage, Pc, RequestPc, LaunchPc, RunPc, StagePc, LastPc, At,
        TInv, AtStage
<1>24. ASSUME NEW t \in Tasks, EmitCompleted(t) PROVE TasksOK' /\ AtStage'
  <2>1. task[t].at \in Stage /\ task[t].skip \in SUBSET Stage
    BY <1>24 DEF EmitCompleted, At, TInv, TypeOK, TasksOK, AtStage, Task
  <2>. QED
    BY <1>24, <2>1, MoveOnTask DEF EmitCompleted, Stage
<1>25. ASSUME NEW t \in Tasks, MarkRetrying(t) PROVE TasksOK' /\ AtStage'
  <2>1. task[t] \in Task /\ task[t].at \in Stage
    BY <1>25 DEF TInv, TypeOK, TasksOK, AtStage, At, StagePc, MarkRetrying
  <2>2. text \in Text /\ hs \in Text
    BY DEF TInv, TypeOK, TablesOK
  <2>a. task[t].att + 1 \in Nat
    BY <2>1 DEF Task
  <2>. DEFINE r == [task[t] EXCEPT !.pc = FirstStep(task[t].at), !.att = @ + 1]
  <2>3. r \in Task
    BY <2>1, <2>a, FirstStepPc DEF Task, Pc, RunPc, StagePc
  <2>4. r.pc \in StagePc \union {"markRunning", "emitCompleted"} => r.at \in Stage
    BY <2>1 DEF Task, StagePc
  <2>5. Become(t, r)
    BY <1>25 DEF MarkRetrying
  <2>. HIDE DEF r
  <2>. QED
    BY <2>3, <2>4, <2>5, BecomeTask
<1>26. ASSUME NEW t \in Tasks, FailStage(t) PROVE TasksOK' /\ AtStage'
  BY <1>26, GotoTask
    DEF FailStage, Pc, RequestPc, LaunchPc, RunPc, StagePc, LastPc
<1>27. ASSUME NEW t \in Tasks, FailWorkflow(t) PROVE TasksOK' /\ AtStage'
  BY <1>27, GotoTask
    DEF FailWorkflow, Pc, RequestPc, LaunchPc, RunPc, StagePc, LastPc
<1>28. ASSUME NEW t \in Tasks, Finish(t) PROVE TasksOK' /\ AtStage'
  BY <1>28, GotoTask
    DEF Finish, Pc, RequestPc, LaunchPc, RunPc, StagePc, LastPc
<1>29. ASSUME NEW t \in Tasks, EmitLast(t) PROVE TasksOK' /\ AtStage'
  BY <1>29, ReturnTask DEF EmitLast
<1>30. ASSUME NEW t \in Tasks, DatabaseError(t) PROVE TasksOK' /\ AtStage'
  <2>1. CASE task[t].pc \in AttemptPc /\ AttemptFails(t)
    <3>1. task[t].at \in Stage
      BY <2>1 DEF AttemptPc, TInv, AtStage, StagePc
    <3>. QED
      BY <2>1, <3>1, AttemptFailsTask
  <2>. QED
    BY <1>30, <2>1, ReturnTask, LoseTask DEF DatabaseError, Reject
<1>31. CASE Kill
  BY <1>31, LoseTask DEF Kill
<1>32. CASE UNCHANGED vars
  BY <1>32 DEF vars, TInv, TypeOK, TasksOK, AtStage
<1>. QED
  BY <1>1, <1>2, <1>3, <1>4, <1>5, <1>6, <1>7, <1>8, <1>9, <1>10, <1>11, <1>12, <1>13, <1>14, <1>15, <1>16, <1>17, <1>18, <1>19, <1>20, <1>21, <1>22, <1>23, <1>24, <1>25, <1>26, <1>27, <1>28, <1>29, <1>30, <1>31, <1>32
    DEF Next, Request, Handler, Run

LEMMA TypeInvariant == Spec => []TInv
<1>1. TInv /\ [Next]_vars => TInv'
  BY StepTablesOK, StepHistoryOK, StepTasksOK DEF TInv, TypeOK
<1>. QED
  BY InitTInv, <1>1, PTL DEF Spec

(* Every reachable state is well typed, whatever overlaps, fails or is      *)
(* killed.                                                                  *)
THEOREM TypeCorrect == Spec => []TypeOK
<1>1. TInv => TypeOK
  BY DEF TInv
<1>. QED
  BY TypeInvariant, <1>1, PTL

-----------------------------------------------------------------------------
(* The safety theorems. Each rests on an inductive invariant about what the *)
(* tasks in flight still have to do or still believe, which is what a step  *)
(* of one task can break for another.                                       *)

(* A task that goes on within its stage keeps holding it. *)
LEMMA StaysAtWork ==
  ASSUME TInv, NothingAbandoned, NEW t \in Tasks, NEW l \in StagePc, NEW n,
         task[t].pc \in StagePc,
         \/ Become(t, [task[t] EXCEPT !.pc = l])
         \/ Become(t, [task[t] EXCEPT !.pc = l, !.att = n]),
         UNCHANGED <<status, stages, faults, died>>
  PROVE  NothingAbandoned'
<1>1. PICK r : /\ task' = [task EXCEPT ![t] = r]
               /\ r.pc \in StagePc /\ r.at = task[t].at
  BY DEF Become, TInv, TypeOK, TasksOK, Task
<1>2. \A u \in Tasks \ {t} : task'[u] = task[u]
  BY <1>1 DEF TInv, TypeOK, TasksOK
<1>3. task'[t].pc \in StagePc /\ task'[t].at = task[t].at
  BY <1>1 DEF TInv, TypeOK, TasksOK
<1>. QED
  BY <1>2, <1>3 DEF NothingAbandoned, Driving, WorkingOn, RunPc

(* A step of any task leaves nothing behind. *)
LEMMA StepNothingAbandoned == TInv /\ NothingAbandoned /\ [Next]_vars => NothingAbandoned'
<1>. SUFFICES ASSUME TInv /\ NothingAbandoned, [Next]_vars PROVE NothingAbandoned'
  OBVIOUS
<1>. USE DEF TInv, TypeOK, TasksOK, TablesOK, AtStage, NothingAbandoned
<1>1. ASSUME NEW t \in Tasks, CreateProduct(t) PROVE NothingAbandoned'
  BY <1>1
    DEF CreateProduct, At, Become, Arrive, workflow, rows, Driving,
        WorkingOn, RunPc, StagePc, Idle
<1>2. ASSUME NEW t \in Tasks, DispatchEmbedding(t) PROVE NothingAbandoned'
  BY <1>2
    DEF DispatchEmbedding, At, Become, Goto, Return, product, workflow, rows,
        history, Driving, WorkingOn, RunPc, StagePc, Idle
<1>3. ASSUME NEW t \in Tasks, RequestStart(t) PROVE NothingAbandoned'
  BY <1>3
    DEF RequestStart, At, Become, Arrive, product, workflow, rows, Driving,
        WorkingOn, RunPc, StagePc, Idle
<1>4. ASSUME NEW t \in Tasks, RequestEdit(t) PROVE NothingAbandoned'
  BY <1>4
    DEF RequestEdit, At, Become, Arrive, product, workflow, rows, Driving,
        WorkingOn, RunPc, StagePc, Idle
<1>5. ASSUME NEW t \in Tasks, RequestSave(t) PROVE NothingAbandoned'
  BY <1>5
    DEF RequestSave, At, Become, Arrive, product, workflow, rows, Driving,
        WorkingOn, RunPc, StagePc, Idle
<1>6. ASSUME NEW t \in Tasks, EditWrite(t) PROVE NothingAbandoned'
  BY <1>6
    DEF EditWrite, At, Become, Return, NoteOverlap, workflow, rows, Driving,
        WorkingOn, RunPc, StagePc, Idle
<1>7. ASSUME NEW t \in Tasks, SaveWrite(t) PROVE NothingAbandoned'
  BY <1>7
    DEF SaveWrite, At, Become, Return, NoteOverlap, workflow, rows, Driving,
        WorkingOn, RunPc, StagePc, Idle
<1>8. ASSUME NEW t \in Tasks, FindWorkflow(t) PROVE NothingAbandoned'
  BY <1>8
    DEF FindWorkflow, At, Become, Goto, Return, product, workflow, rows,
        history, Driving, WorkingOn, RunPc, StagePc, Idle
<1>9. ASSUME NEW t \in Tasks, InsertWorkflow(t) PROVE NothingAbandoned'
  <2>1. CASE status = "none"
    <3>1. Driving(t)'
      BY <1>9, <2>1 DEF InsertWorkflow, Become, Goto, Driving, Task
    <3>2. \A u \in Tasks \ {t} : task'[u] = task[u]
      BY <1>9, <2>1 DEF InsertWorkflow, Become, Goto
    <3>3. task[t].pc \notin StagePc
      BY <1>9 DEF InsertWorkflow, At, StagePc
    <3>4. stages' = stages /\ faults' = faults /\ died' = died
      BY <1>9, <2>1 DEF InsertWorkflow, rows
    <3>. QED
      BY <3>1, <3>2, <3>3, <3>4 DEF WorkingOn
  <2>2. CASE status # "none" /\ task[t].op = "start"
    BY <1>9, <2>2
      DEF InsertWorkflow, At, Become, Return, Reject, product, workflow, rows,
          Driving, WorkingOn, RunPc, StagePc
  <2>3. CASE status # "none" /\ task[t].op # "start"
    BY <1>9, <2>3 DEF InsertWorkflow, Reject
  <2>. QED
    BY <2>1, <2>2, <2>3
<1>10. ASSUME NEW t \in Tasks, InsertStages(t) PROVE NothingAbandoned'
  BY <1>10
    DEF InsertStages, At, Become, Goto, product, workflow, history, Driving,
        WorkingOn, RunPc, StagePc, Idle
<1>11. ASSUME NEW t \in Tasks, ResetWorkflow(t) PROVE NothingAbandoned'
  BY <1>11
    DEF ResetWorkflow, At, Become, Goto, NoteOverlap, product, rows, Driving,
        WorkingOn, RunPc, StagePc, Idle
<1>12. ASSUME NEW t \in Tasks, ResetStages(t) PROVE NothingAbandoned'
  BY <1>12
    DEF ResetStages, At, Become, Goto, product, workflow, history, Driving,
        WorkingOn, RunPc, StagePc, Idle
<1>13. ASSUME NEW t \in Tasks, EmitStart(t) PROVE NothingAbandoned'
  BY <1>13
    DEF EmitStart, At, Become, product, workflow, rows, history, Driving,
        WorkingOn, RunPc, StagePc, Idle
<1>14. ASSUME NEW t \in Tasks, Begin(t) PROVE NothingAbandoned'
  BY <1>14
    DEF Begin, At, Become, Goto, product, rows, history, Driving, WorkingOn,
        RunPc, StagePc, Idle
<1>15. ASSUME NEW t \in Tasks, ReadProduct(t) PROVE NothingAbandoned'
  BY <1>15
    DEF ReadProduct, At, Become, product, workflow, rows, history, Driving,
        WorkingOn, RunPc, StagePc, Idle
<1>16. ASSUME NEW t \in Tasks, ReadStages(t) PROVE NothingAbandoned'
  BY <1>16
    DEF ReadStages, At, Become, MoveOn, product, workflow, rows, history,
        Driving, WorkingOn, RunPc, StagePc, Idle
<1>17. ASSUME NEW t \in Tasks, MarkRunning(t) PROVE NothingAbandoned'
  BY <1>17
    DEF MarkRunning, At, Become, Goto, SetStage, product, workflow, history,
        Driving, WorkingOn, RunPc, StagePc, Idle
<1>18. ASSUME NEW t \in Tasks, MarkCurrent(t) PROVE NothingAbandoned'
  <2>1. task[t].at \in Stage
    BY <1>18 DEF MarkCurrent, At, StagePc
  <2>2. PICK l \in StagePc : Become(t, [task[t] EXCEPT !.pc = l, !.att = 1])
    BY <1>18, <2>1, FirstStepPc DEF MarkCurrent
  <2>3. task[t].pc \in StagePc /\ UNCHANGED <<status, stages, faults, died>>
    BY <1>18 DEF MarkCurrent, At, StagePc, rows, history
  <2>. QED
    BY <1>18, <2>1, <2>2, <2>3, StaysAtWork
<1>19. ASSUME NEW t \in Tasks, Classify(t) PROVE NothingAbandoned'
  <2>1. PICK l \in StagePc : Goto(t, l)
    BY <1>19 DEF Classify, AttemptFails, StagePc
  <2>. QED
    BY <1>19, <2>1, StaysAtWork
      DEF Classify, At, Goto, StagePc, workflow, rows, history
<1>20. ASSUME NEW t \in Tasks, PersistClassification(t) PROVE NothingAbandoned'
  BY <1>20
    DEF PersistClassification, At, Become, Goto, workflow, rows, history,
        Driving, WorkingOn, RunPc, StagePc, Idle
<1>21. ASSUME NEW t \in Tasks, SyncRead(t) PROVE NothingAbandoned'
  BY <1>21
    DEF SyncRead, At, Become, product, workflow, rows, history, Driving,
        WorkingOn, RunPc, StagePc, Idle
<1>22. ASSUME NEW t \in Tasks, SyncPost(t) PROVE NothingAbandoned'
  <2>1. PICK l \in StagePc : Goto(t, l)
    BY <1>22 DEF SyncPost, AttemptFails, StagePc
  <2>. QED
    BY <1>22, <2>1, StaysAtWork
      DEF SyncPost, At, Goto, StagePc, workflow, rows, history
<1>23. ASSUME NEW t \in Tasks, CompleteStage(t) PROVE NothingAbandoned'
  BY <1>23
    DEF CompleteStage, At, Become, Goto, SetStage, product, workflow,
        history, Driving, WorkingOn, RunPc, StagePc, Idle
<1>24. ASSUME NEW t \in Tasks, EmitCompleted(t) PROVE NothingAbandoned'
  BY <1>24
    DEF EmitCompleted, At, Become, MoveOn, product, workflow, rows, history,
        Driving, WorkingOn, RunPc, StagePc, Idle
<1>25. ASSUME NEW t \in Tasks, MarkRetrying(t) PROVE NothingAbandoned'
  <2>. DEFINE r == [task[t] EXCEPT !.pc = FirstStep(task[t].at), !.att = @ + 1]
  <2>1. task[t].at \in Stage /\ task[t].pc \in StagePc
    BY <1>25 DEF MarkRetrying, At, StagePc
  <2>2. r.at = task[t].at /\ r.pc \in StagePc
    BY <2>1, FirstStepPc DEF Task
  <2>3. Become(t, r)
    BY <1>25 DEF MarkRetrying
  <2>. HIDE DEF r
  <2>4. task' = [task EXCEPT ![t] = r]
    BY <2>3 DEF Become
  <2>5. task'[t].pc \in StagePc /\ task'[t].at = task[t].at
    BY <2>2, <2>4
  <2>6. \A u \in Tasks \ {t} : task'[u] = task[u]
    BY <2>4
  <2>7. /\ status' = status /\ faults' = faults /\ died' = died
        /\ stages' = [stages EXCEPT ![task[t].at] = "retrying"]
    BY <1>25 DEF MarkRetrying, SetStage, workflow, history
  <2>8. ASSUME faults' = 0 /\ ~died', NEW i \in Stage,
               stages'[i] \in {"running", "retrying"}
        PROVE  \E u \in Tasks : WorkingOn(u, i)'
    <3>1. CASE i = task[t].at
      BY <2>5, <3>1 DEF WorkingOn
    <3>2. CASE i # task[t].at
      <4>1. stages[i] \in {"running", "retrying"}
        BY <2>1, <2>7, <2>8, <3>2
      <4>2. PICK u \in Tasks : WorkingOn(u, i)
        BY <2>7, <2>8, <4>1
      <4>. QED
        BY <2>6, <3>2, <4>2 DEF WorkingOn
    <3>. QED
      BY <3>1, <3>2
  <2>9. Driving(t)'
    BY <2>5 DEF Driving, RunPc
  <2>. QED
    BY <2>8, <2>9
<1>26. ASSUME NEW t \in Tasks, FailStage(t) PROVE NothingAbandoned'
  BY <1>26
    DEF FailStage, At, Become, Goto, SetStage, product, workflow, history,
        Driving, WorkingOn, RunPc, StagePc, Idle
<1>27. ASSUME NEW t \in Tasks, FailWorkflow(t) PROVE NothingAbandoned'
  BY <1>27
    DEF FailWorkflow, At, Become, Goto, product, rows, history, Driving,
        WorkingOn, RunPc, StagePc, Idle
<1>28. ASSUME NEW t \in Tasks, Finish(t) PROVE NothingAbandoned'
  BY <1>28
    DEF Finish, At, Become, Goto, product, rows, history, Driving, WorkingOn,
        RunPc, StagePc, Idle
<1>29. ASSUME NEW t \in Tasks, EmitLast(t) PROVE NothingAbandoned'
  BY <1>29
    DEF EmitLast, At, Become, Return, product, workflow, rows, history,
        LastPc, Driving, WorkingOn, RunPc, StagePc, Idle
<1>30. ASSUME NEW t \in Tasks, DatabaseError(t) PROVE NothingAbandoned'
  BY <1>30 DEF DatabaseError, HistoryOK
<1>31. CASE Kill
  BY <1>31 DEF Kill, HistoryOK
<1>32. CASE UNCHANGED vars
  BY <1>32 DEF vars, Driving, WorkingOn, RunPc, StagePc, Idle
<1>. QED
  BY <1>1, <1>2, <1>3, <1>4, <1>5, <1>6, <1>7, <1>8, <1>9, <1>10, <1>11, <1>12, <1>13, <1>14, <1>15, <1>16, <1>17, <1>18, <1>19, <1>20, <1>21, <1>22, <1>23, <1>24, <1>25, <1>26, <1>27, <1>28, <1>29, <1>30, <1>31, <1>32
    DEF Next, Request, Handler, Run

(* A task that has got past its insert, or is about to reset, knows there   *)
(* is a workflow row: nothing deletes one.                                  *)
Known == \A t \in Tasks :
  task[t].pc \in {"insertStages", "resetWorkflow", "resetStages", "emitStart"}
                   \union RunPc \union LastPc => status # "none"

(* What a handler read when it looked for the workflow is still what the    *)
(* row says when it writes, as long as nothing overlapped.                  *)
ReadsHold == ~overlapped =>
  \A t \in Tasks : /\ At(t, "insertWorkflow") => status = "none"
                   /\ At(t, "resetWorkflow")  => task[t].ver = version

(* A task that goes on somewhere else disturbs neither. *)
LEMMA KnownStays ==
  ASSUME TInv, Known, NEW t \in Tasks, NEW r, Become(t, r), status' = status,
         r.pc \in {"insertStages", "resetWorkflow", "resetStages", "emitStart"}
                     \union RunPc \union LastPc => status # "none"
  PROVE  Known'
BY DEF Become, Known, TInv, TypeOK, TasksOK

LEMMA ReadsStay ==
  ASSUME TInv, ReadsHold, NEW t \in Tasks, NEW r, Become(t, r),
         r.pc \notin {"insertWorkflow", "resetWorkflow"},
         status' = status, version' = version, overlapped => overlapped'
  PROVE  ReadsHold'
<1>1. ASSUME NEW u \in Tasks, u # t PROVE task'[u] = task[u]
  BY <1>1 DEF Become
<1>2. task'[t] = r
  BY DEF Become, TInv, TypeOK, TasksOK
<1>. QED
  BY <1>1, <1>2 DEF ReadsHold, At

LEMMA StepKnown == TInv /\ Known /\ [Next]_vars => Known'
<1>. SUFFICES ASSUME TInv /\ Known, [Next]_vars PROVE Known'
  OBVIOUS
<1>. USE DEF TInv, TypeOK, TasksOK, TablesOK, AtStage, Known
<1>1. ASSUME NEW t \in Tasks, CreateProduct(t) PROVE Known'
  BY <1>1
    DEF CreateProduct, At, Become, Arrive, workflow, rows, RunPc, StagePc,
        LastPc, Idle
<1>2. ASSUME NEW t \in Tasks, DispatchEmbedding(t) PROVE Known'
  <2>. DEFINE r == [task[t] EXCEPT !.pc = "find"]
  <2>1. r.pc = "find" /\ Idle.pc = "idle"
    BY DEF Task, Idle
  <2>2. Become(t, r) \/ Become(t, Idle)
    BY <1>2 DEF DispatchEmbedding, Goto, Return
  <2>3. status' = status
    BY <1>2 DEF DispatchEmbedding, workflow
  <2>. HIDE DEF r
  <2>. QED
    BY <2>1, <2>2, <2>3, KnownStays DEF RunPc, StagePc, LastPc
<1>3. ASSUME NEW t \in Tasks, RequestStart(t) PROVE Known'
  BY <1>3
    DEF RequestStart, At, Become, Arrive, product, workflow, rows, RunPc,
        StagePc, LastPc, Idle
<1>4. ASSUME NEW t \in Tasks, RequestEdit(t) PROVE Known'
  BY <1>4
    DEF RequestEdit, At, Become, Arrive, product, workflow, rows, RunPc,
        StagePc, LastPc, Idle
<1>5. ASSUME NEW t \in Tasks, RequestSave(t) PROVE Known'
  BY <1>5
    DEF RequestSave, At, Become, Arrive, product, workflow, rows, RunPc,
        StagePc, LastPc, Idle
<1>6. ASSUME NEW t \in Tasks, EditWrite(t) PROVE Known'
  <2>. DEFINE r == [Idle EXCEPT !.pc = "find", !.op = "edit"]
  <2>1. r.pc = "find" /\ Idle.pc = "idle"
    BY DEF Idle
  <2>2. Become(t, r) \/ Become(t, Idle)
    BY <1>6 DEF EditWrite, Return
  <2>3. status' = status
    BY <1>6 DEF EditWrite, workflow
  <2>. HIDE DEF r
  <2>. QED
    BY <2>1, <2>2, <2>3, KnownStays DEF RunPc, StagePc, LastPc
<1>7. ASSUME NEW t \in Tasks, SaveWrite(t) PROVE Known'
  BY <1>7
    DEF SaveWrite, At, Become, Return, NoteOverlap, workflow, rows, RunPc,
        StagePc, LastPc, Idle
<1>8. ASSUME NEW t \in Tasks, FindWorkflow(t) PROVE Known'
  <2>. DEFINE r1 == [task[t] EXCEPT !.op = "create"]
              r2 == [task[t] EXCEPT !.pc = "insertWorkflow"]
              r3 == [task[t] EXCEPT !.pc = "resetWorkflow", !.ver = version]
  <2>1. /\ r1.pc = "find" /\ r2.pc = "insertWorkflow" /\ r3.pc = "resetWorkflow"
        /\ Idle.pc = "idle"
    BY <1>8 DEF FindWorkflow, At, Task, Idle
  <2>2. \/ Become(t, r1) \/ Become(t, r2) \/ Become(t, Idle)
        \/ Become(t, r3) /\ status # "none"
    BY <1>8 DEF FindWorkflow, Goto, Return
  <2>3. status' = status
    BY <1>8 DEF FindWorkflow, workflow
  <2>. HIDE DEF r1, r2, r3
  <2>. QED
    BY <2>1, <2>2, <2>3, KnownStays DEF RunPc, StagePc, LastPc
<1>9. ASSUME NEW t \in Tasks, InsertWorkflow(t) PROVE Known'
  BY <1>9
    DEF InsertWorkflow, At, Become, Goto, Return, Reject, LoseTasks,
        NoteOverlap, product, workflow, rows, RunPc, StagePc, LastPc, Idle
<1>10. ASSUME NEW t \in Tasks, InsertStages(t) PROVE Known'
  BY <1>10
    DEF InsertStages, At, Become, Goto, product, workflow, history, RunPc,
        StagePc, LastPc, Idle
<1>11. ASSUME NEW t \in Tasks, ResetWorkflow(t) PROVE Known'
  BY <1>11
    DEF ResetWorkflow, At, Become, Goto, NoteOverlap, product, rows, RunPc,
        StagePc, LastPc, Idle
<1>12. ASSUME NEW t \in Tasks, ResetStages(t) PROVE Known'
  BY <1>12
    DEF ResetStages, At, Become, Goto, product, workflow, history, RunPc,
        StagePc, LastPc, Idle
<1>13. ASSUME NEW t \in Tasks, EmitStart(t) PROVE Known'
  BY <1>13
    DEF EmitStart, At, Become, product, workflow, rows, history, RunPc,
        StagePc, LastPc, Idle
<1>14. ASSUME NEW t \in Tasks, Begin(t) PROVE Known'
  BY <1>14
    DEF Begin, At, Become, Goto, product, rows, history, RunPc, StagePc,
        LastPc, Idle
<1>15. ASSUME NEW t \in Tasks, ReadProduct(t) PROVE Known'
  BY <1>15
    DEF ReadProduct, At, Become, product, workflow, rows, history, RunPc,
        StagePc, LastPc, Idle
<1>16. ASSUME NEW t \in Tasks, ReadStages(t) PROVE Known'
  BY <1>16
    DEF ReadStages, At, Become, MoveOn, product, workflow, rows, history,
        RunPc, StagePc, LastPc, Idle
<1>17. ASSUME NEW t \in Tasks, MarkRunning(t) PROVE Known'
  BY <1>17
    DEF MarkRunning, At, Become, Goto, SetStage, product, workflow, history,
        RunPc, StagePc, LastPc, Idle
<1>18. ASSUME NEW t \in Tasks, MarkCurrent(t) PROVE Known'
  BY <1>18
    DEF MarkCurrent, At, Become, product, rows, history, RunPc, StagePc,
        LastPc, Idle
<1>19. ASSUME NEW t \in Tasks, Classify(t) PROVE Known'
  BY <1>19
    DEF Classify, At, Become, Goto, AttemptFails, product, workflow, rows,
        history, RunPc, StagePc, LastPc, Idle
<1>20. ASSUME NEW t \in Tasks, PersistClassification(t) PROVE Known'
  BY <1>20
    DEF PersistClassification, At, Become, Goto, workflow, rows, history,
        RunPc, StagePc, LastPc, Idle
<1>21. ASSUME NEW t \in Tasks, SyncRead(t) PROVE Known'
  BY <1>21
    DEF SyncRead, At, Become, product, workflow, rows, history, RunPc,
        StagePc, LastPc, Idle
<1>22. ASSUME NEW t \in Tasks, SyncPost(t) PROVE Known'
  BY <1>22
    DEF SyncPost, At, Become, Goto, AttemptFails, product, workflow, rows,
        history, RunPc, StagePc, LastPc, Idle
<1>23. ASSUME NEW t \in Tasks, CompleteStage(t) PROVE Known'
  BY <1>23
    DEF CompleteStage, At, Become, Goto, SetStage, product, workflow,
        history, RunPc, StagePc, LastPc, Idle
<1>24. ASSUME NEW t \in Tasks, EmitCompleted(t) PROVE Known'
  BY <1>24
    DEF EmitCompleted, At, Become, MoveOn, product, workflow, rows, history,
        RunPc, StagePc, LastPc, Idle
<1>25. ASSUME NEW t \in Tasks, MarkRetrying(t) PROVE Known'
  BY <1>25
    DEF MarkRetrying, At, Become, SetStage, product, workflow, history,
        RunPc, StagePc, LastPc, Idle
<1>26. ASSUME NEW t \in Tasks, FailStage(t) PROVE Known'
  BY <1>26
    DEF FailStage, At, Become, Goto, SetStage, product, workflow, history,
        RunPc, StagePc, LastPc, Idle
<1>27. ASSUME NEW t \in Tasks, FailWorkflow(t) PROVE Known'
  BY <1>27
    DEF FailWorkflow, At, Become, Goto, product, rows, history, RunPc,
        StagePc, LastPc, Idle
<1>28. ASSUME NEW t \in Tasks, Finish(t) PROVE Known'
  BY <1>28
    DEF Finish, At, Become, Goto, product, rows, history, RunPc, StagePc,
        LastPc, Idle
<1>29. ASSUME NEW t \in Tasks, EmitLast(t) PROVE Known'
  BY <1>29
    DEF EmitLast, At, Become, Return, product, workflow, rows, history,
        RunPc, StagePc, LastPc, Idle
<1>30. ASSUME NEW t \in Tasks, DatabaseError(t) PROVE Known'
  BY <1>30
    DEF DatabaseError, Become, Goto, Return, Reject, AttemptFails, LoseTasks,
        product, workflow, rows, LaunchPc, AttemptPc, RunPc, StagePc, LastPc,
        Idle
<1>31. CASE Kill
  BY <1>31
    DEF Kill, LoseTasks, product, workflow, rows, RunPc, StagePc, LastPc, Idle
<1>32. CASE UNCHANGED vars
  BY <1>32 DEF vars, RunPc, StagePc, LastPc, Idle
<1>. QED
  BY <1>1, <1>2, <1>3, <1>4, <1>5, <1>6, <1>7, <1>8, <1>9, <1>10, <1>11, <1>12, <1>13, <1>14, <1>15, <1>16, <1>17, <1>18, <1>19, <1>20, <1>21, <1>22, <1>23, <1>24, <1>25, <1>26, <1>27, <1>28, <1>29, <1>30, <1>31, <1>32
    DEF Next, Request, Handler, Run

LEMMA StepReadsHold == TInv /\ Known /\ ReadsHold /\ [Next]_vars => ReadsHold'
<1>. SUFFICES ASSUME TInv /\ Known /\ ReadsHold, [Next]_vars PROVE ReadsHold'
  OBVIOUS
<1>. USE DEF TInv, TypeOK, TasksOK, TablesOK, ReadsHold
<1>1. ASSUME NEW t \in Tasks, CreateProduct(t) PROVE ReadsHold'
  BY <1>1 DEF CreateProduct, Become, Arrive, workflow, rows, At, Idle
<1>2. ASSUME NEW t \in Tasks, DispatchEmbedding(t) PROVE ReadsHold'
  <2>. DEFINE r == [task[t] EXCEPT !.pc = "find"]
  <2>1. r.pc = "find" /\ Idle.pc = "idle"
    BY DEF Task, Idle
  <2>2. Become(t, r) \/ Become(t, Idle)
    BY <1>2 DEF DispatchEmbedding, Goto, Return
  <2>3. UNCHANGED <<status, version, overlapped>>
    BY <1>2 DEF DispatchEmbedding, workflow, history
  <2>. HIDE DEF r
  <2>. QED
    BY <2>1, <2>2, <2>3, ReadsStay
<1>3. ASSUME NEW t \in Tasks, RequestStart(t) PROVE ReadsHold'
  BY <1>3 DEF RequestStart, Become, Arrive, product, workflow, rows, At, Idle
<1>4. ASSUME NEW t \in Tasks, RequestEdit(t) PROVE ReadsHold'
  BY <1>4 DEF RequestEdit, Become, Arrive, product, workflow, rows, At, Idle
<1>5. ASSUME NEW t \in Tasks, RequestSave(t) PROVE ReadsHold'
  BY <1>5 DEF RequestSave, Become, Arrive, product, workflow, rows, At, Idle
<1>6. ASSUME NEW t \in Tasks, EditWrite(t) PROVE ReadsHold'
  <2>. DEFINE r == [Idle EXCEPT !.pc = "find", !.op = "edit"]
  <2>1. r.pc = "find" /\ Idle.pc = "idle"
    BY DEF Idle
  <2>2. Become(t, r) \/ Become(t, Idle)
    BY <1>6 DEF EditWrite, Return
  <2>3. status' = status /\ version' = version /\ (overlapped => overlapped')
    BY <1>6 DEF EditWrite, workflow, NoteOverlap
  <2>. HIDE DEF r
  <2>. QED
    BY <2>1, <2>2, <2>3, ReadsStay
<1>7. ASSUME NEW t \in Tasks, SaveWrite(t) PROVE ReadsHold'
  BY <1>7
    DEF SaveWrite, Become, Return, NoteOverlap, workflow, rows, At, Idle, Live
<1>8. ASSUME NEW t \in Tasks, FindWorkflow(t) PROVE ReadsHold'
  <2>. DEFINE r1 == [task[t] EXCEPT !.op = "create"]
              r2 == [task[t] EXCEPT !.pc = "insertWorkflow"]
              r3 == [task[t] EXCEPT !.pc = "resetWorkflow", !.ver = version]
  <2>1. /\ r1.pc = "find" /\ r2.pc = "insertWorkflow" /\ r3.pc = "resetWorkflow"
        /\ r3.ver = version /\ Idle.pc = "idle"
    BY <1>8 DEF FindWorkflow, At, Task, Idle
  <2>2. PICK r : /\ Become(t, r)
                 /\ r.pc = "insertWorkflow" => status = "none"
                 /\ r.pc = "resetWorkflow" => r.ver = version
    <3>1. CASE Become(t, r1) \/ Become(t, Idle) \/ Become(t, r3)
      BY <2>1, <3>1
    <3>2. CASE Become(t, r2) /\ status = "none"
      BY <2>1, <3>2
    <3>. QED
      BY <1>8, <3>1, <3>2 DEF FindWorkflow, Goto, Return
  <2>3. \A u \in Tasks : task'[u] = IF u = t THEN r ELSE task[u]
    BY <2>2 DEF Become
  <2>4. UNCHANGED <<status, version, overlapped>>
    BY <1>8 DEF FindWorkflow, workflow, history
  <2>. QED
    BY <2>2, <2>3, <2>4 DEF At
<1>9. ASSUME NEW t \in Tasks, InsertWorkflow(t) PROVE ReadsHold'
  <2>1. CASE status = "none"
    <3>1. ~overlapped' => ~overlapped /\ \A u \in Tasks \ {t} : ~Live(u)
      BY <1>9, <2>1 DEF InsertWorkflow, NoteOverlap
    <3>2. \A u \in Tasks \ {t} : task'[u] = task[u]
      BY <1>9, <2>1 DEF InsertWorkflow, Become, Goto
    <3>3. task'[t].pc = "insertStages"
      BY <1>9, <2>1 DEF InsertWorkflow, Become, Goto, Task
    <3>. QED
      BY <3>1, <3>2, <3>3 DEF Live, At
  <2>2. CASE status # "none"
    <3>1. UNCHANGED <<status, version, overlapped>> /\ (Become(t, Idle) \/ LoseTasks)
      BY <1>9, <2>2 DEF InsertWorkflow, Reject, Return, workflow
    <3>2. Idle.pc = "idle"
      BY DEF Idle
    <3>. QED
      BY <3>1, <3>2, ReadsStay DEF LoseTasks, At
  <2>. QED
    BY <2>1, <2>2
<1>10. ASSUME NEW t \in Tasks, InsertStages(t) PROVE ReadsHold'
  BY <1>10 DEF InsertStages, Become, Goto, product, workflow, history, At, Idle
<1>11. ASSUME NEW t \in Tasks, ResetWorkflow(t) PROVE ReadsHold'
  <2>1. ~overlapped' => ~overlapped /\ \A u \in Tasks \ {t} : ~Live(u)
    BY <1>11 DEF ResetWorkflow, NoteOverlap
  <2>2. \A u \in Tasks \ {t} : task'[u] = task[u]
    BY <1>11 DEF ResetWorkflow, Become, Goto
  <2>3. task'[t].pc = "resetStages"
    BY <1>11 DEF ResetWorkflow, Become, Goto, Task
  <2>. QED
    BY <2>1, <2>2, <2>3 DEF Live, At
<1>12. ASSUME NEW t \in Tasks, ResetStages(t) PROVE ReadsHold'
  BY <1>12 DEF ResetStages, Become, Goto, product, workflow, history, At, Idle
<1>13. ASSUME NEW t \in Tasks, EmitStart(t) PROVE ReadsHold'
  BY <1>13 DEF EmitStart, Become, product, workflow, rows, history, At, Idle
<1>14. ASSUME NEW t \in Tasks, Begin(t) PROVE ReadsHold'
  BY <1>14
    DEF Begin, Become, Goto, product, rows, history, At, Idle, Known, RunPc
<1>15. ASSUME NEW t \in Tasks, ReadProduct(t) PROVE ReadsHold'
  BY <1>15 DEF ReadProduct, Become, product, workflow, rows, history, At, Idle
<1>16. ASSUME NEW t \in Tasks, ReadStages(t) PROVE ReadsHold'
  BY <1>16
    DEF ReadStages, Become, MoveOn, product, workflow, rows, history, At, Idle
<1>17. ASSUME NEW t \in Tasks, MarkRunning(t) PROVE ReadsHold'
  BY <1>17
    DEF MarkRunning, Become, Goto, SetStage, product, workflow, history, At,
        Idle
<1>18. ASSUME NEW t \in Tasks, MarkCurrent(t) PROVE ReadsHold'
  <2>1. task[t] \in Task /\ task[t].at \in Stage
    BY <1>18 DEF MarkCurrent, At, TInv, AtStage, StagePc
  <2>2. PICK l \in StagePc, n \in Nat : Become(t, [task[t] EXCEPT !.pc = l, !.att = n])
    BY <1>18, <2>1, FirstStepPc DEF MarkCurrent
  <2>. DEFINE r == [task[t] EXCEPT !.pc = l, !.att = n]
  <2>3. r.pc = l /\ l \notin {"insertWorkflow", "resetWorkflow"}
    BY <2>1 DEF Task, StagePc
  <2>4. UNCHANGED <<status, version, overlapped>>
    BY <1>18 DEF MarkCurrent, workflow, history
  <2>. HIDE DEF r
  <2>. QED
    BY <2>2, <2>3, <2>4, ReadsStay DEF r
<1>19. ASSUME NEW t \in Tasks, Classify(t) PROVE ReadsHold'
  <2>1. PICK l \in StagePc : Goto(t, l)
    BY <1>19 DEF Classify, AttemptFails, StagePc
  <2>. DEFINE r == [task[t] EXCEPT !.pc = l]
  <2>2. r.pc = l /\ l \notin {"insertWorkflow", "resetWorkflow"}
    BY DEF Task, StagePc
  <2>3. Become(t, r)
    BY <2>1 DEF Goto
  <2>4. UNCHANGED <<status, version, overlapped>>
    BY <1>19 DEF Classify, workflow, history
  <2>. HIDE DEF r
  <2>. QED
    BY <2>2, <2>3, <2>4, ReadsStay
<1>20. ASSUME NEW t \in Tasks, PersistClassification(t) PROVE ReadsHold'
  BY <1>20
    DEF PersistClassification, Become, Goto, workflow, rows, history, At, Idle
<1>21. ASSUME NEW t \in Tasks, SyncRead(t) PROVE ReadsHold'
  BY <1>21 DEF SyncRead, Become, product, workflow, rows, history, At, Idle
<1>22. ASSUME NEW t \in Tasks, SyncPost(t) PROVE ReadsHold'
  <2>1. PICK l \in StagePc : Goto(t, l)
    BY <1>22 DEF SyncPost, AttemptFails, StagePc
  <2>. DEFINE r == [task[t] EXCEPT !.pc = l]
  <2>2. r.pc = l /\ l \notin {"insertWorkflow", "resetWorkflow"}
    BY DEF Task, StagePc
  <2>3. Become(t, r)
    BY <2>1 DEF Goto
  <2>4. UNCHANGED <<status, version, overlapped>>
    BY <1>22 DEF SyncPost, workflow, history
  <2>. HIDE DEF r
  <2>. QED
    BY <2>2, <2>3, <2>4, ReadsStay
<1>23. ASSUME NEW t \in Tasks, CompleteStage(t) PROVE ReadsHold'
  BY <1>23
    DEF CompleteStage, Become, Goto, SetStage, product, workflow, history,
        At, Idle
<1>24. ASSUME NEW t \in Tasks, EmitCompleted(t) PROVE ReadsHold'
  BY <1>24
    DEF EmitCompleted, Become, MoveOn, product, workflow, rows, history, At,
        Idle
<1>25. ASSUME NEW t \in Tasks, MarkRetrying(t) PROVE ReadsHold'
  <2>1. task[t] \in Task /\ task[t].at \in Stage
    BY <1>25 DEF MarkRetrying, At, TInv, AtStage, StagePc
  <2>n. task[t].att + 1 \in Nat
    BY <2>1 DEF Task
  <2>2. PICK l \in StagePc, n \in Nat : Become(t, [task[t] EXCEPT !.pc = l, !.att = n])
    BY <1>25, <2>1, <2>n, FirstStepPc DEF MarkRetrying
  <2>. DEFINE r == [task[t] EXCEPT !.pc = l, !.att = n]
  <2>3. r.pc = l /\ l \notin {"insertWorkflow", "resetWorkflow"}
    BY <2>1 DEF Task, StagePc
  <2>4. UNCHANGED <<status, version, overlapped>>
    BY <1>25 DEF MarkRetrying, workflow, history
  <2>. HIDE DEF r
  <2>. QED
    BY <2>2, <2>3, <2>4, ReadsStay DEF r
<1>26. ASSUME NEW t \in Tasks, FailStage(t) PROVE ReadsHold'
  BY <1>26
    DEF FailStage, Become, Goto, SetStage, product, workflow, history, At,
        Idle
<1>27. ASSUME NEW t \in Tasks, FailWorkflow(t) PROVE ReadsHold'
  BY <1>27
    DEF FailWorkflow, Become, Goto, product, rows, history, At, Idle, Known,
        RunPc
<1>28. ASSUME NEW t \in Tasks, Finish(t) PROVE ReadsHold'
  BY <1>28
    DEF Finish, Become, Goto, product, rows, history, At, Idle, Known, RunPc
<1>29. ASSUME NEW t \in Tasks, EmitLast(t) PROVE ReadsHold'
  BY <1>29
    DEF EmitLast, Become, Return, product, workflow, rows, history, LastPc,
        At, Idle
<1>30. ASSUME NEW t \in Tasks, DatabaseError(t) PROVE ReadsHold'
  <2>1. UNCHANGED <<status, version, overlapped>>
    BY <1>30 DEF DatabaseError, workflow
  <2>2. CASE LoseTasks
    BY <2>1, <2>2 DEF LoseTasks, At, Idle
  <2>3. CASE Become(t, Idle)
    <3>1. Idle.pc = "idle"
      BY DEF Idle
    <3>. QED
      BY <2>1, <2>3, <3>1, ReadsStay
  <2>4. CASE Goto(t, "markRetrying") \/ Goto(t, "failStage")
    <3>1. PICK l \in {"markRetrying", "failStage"} : Become(t, [task[t] EXCEPT !.pc = l])
      BY <2>4 DEF Goto
    <3>. DEFINE r == [task[t] EXCEPT !.pc = l]
    <3>2. r.pc = l
      BY DEF Task
    <3>. HIDE DEF r
    <3>. QED
      BY <2>1, <3>1, <3>2, ReadsStay DEF r
  <2>. QED
    BY <1>30, <2>2, <2>3, <2>4 DEF DatabaseError, Reject, Return, AttemptFails
<1>31. CASE Kill
  BY <1>31 DEF Kill, LoseTasks, product, workflow, rows, At, Idle
<1>32. CASE UNCHANGED vars
  BY <1>32 DEF vars, At, Idle
<1>. QED
  BY <1>1, <1>2, <1>3, <1>4, <1>5, <1>6, <1>7, <1>8, <1>9, <1>10, <1>11, <1>12, <1>13, <1>14, <1>15, <1>16, <1>17, <1>18, <1>19, <1>20, <1>21, <1>22, <1>23, <1>24, <1>25, <1>26, <1>27, <1>28, <1>29, <1>30, <1>31, <1>32
    DEF Next, Request, Handler, Run

LEMMA StepDeathNeedsOverlap == TInv /\ ReadsHold /\ DeathNeedsOverlap /\ [Next]_vars => DeathNeedsOverlap'
<1>. SUFFICES ASSUME TInv /\ ReadsHold /\ DeathNeedsOverlap, [Next]_vars PROVE DeathNeedsOverlap'
  OBVIOUS
<1>. USE DEF ReadsHold, DeathNeedsOverlap
<1>1. ASSUME NEW t \in Tasks, CreateProduct(t) PROVE DeathNeedsOverlap'
  BY <1>1 DEF CreateProduct, At, Become, Arrive, workflow, rows
<1>2. ASSUME NEW t \in Tasks, DispatchEmbedding(t) PROVE DeathNeedsOverlap'
  BY <1>2
    DEF DispatchEmbedding, At, Become, Goto, Return, product, workflow, rows,
        history
<1>3. ASSUME NEW t \in Tasks, RequestStart(t) PROVE DeathNeedsOverlap'
  BY <1>3 DEF RequestStart, At, Become, Arrive, product, workflow, rows
<1>4. ASSUME NEW t \in Tasks, RequestEdit(t) PROVE DeathNeedsOverlap'
  BY <1>4 DEF RequestEdit, At, Become, Arrive, product, workflow, rows
<1>5. ASSUME NEW t \in Tasks, RequestSave(t) PROVE DeathNeedsOverlap'
  BY <1>5 DEF RequestSave, At, Become, Arrive, product, workflow, rows
<1>6. ASSUME NEW t \in Tasks, EditWrite(t) PROVE DeathNeedsOverlap'
  BY <1>6 DEF EditWrite, At, Become, Return, NoteOverlap, workflow, rows
<1>7. ASSUME NEW t \in Tasks, SaveWrite(t) PROVE DeathNeedsOverlap'
  BY <1>7 DEF SaveWrite, At, Become, Return, NoteOverlap, workflow, rows
<1>8. ASSUME NEW t \in Tasks, FindWorkflow(t) PROVE DeathNeedsOverlap'
  BY <1>8
    DEF FindWorkflow, At, Become, Goto, Return, product, workflow, rows,
        history
<1>9. ASSUME NEW t \in Tasks, InsertWorkflow(t) PROVE DeathNeedsOverlap'
  BY <1>9
    DEF InsertWorkflow, At, Become, Goto, Return, Reject, LoseTasks,
        NoteOverlap, product, workflow, rows
<1>10. ASSUME NEW t \in Tasks, InsertStages(t) PROVE DeathNeedsOverlap'
  BY <1>10 DEF InsertStages, At, Become, Goto, product, workflow, history
<1>11. ASSUME NEW t \in Tasks, ResetWorkflow(t) PROVE DeathNeedsOverlap'
  BY <1>11 DEF ResetWorkflow, At, Become, Goto, NoteOverlap, product, rows
<1>12. ASSUME NEW t \in Tasks, ResetStages(t) PROVE DeathNeedsOverlap'
  BY <1>12 DEF ResetStages, At, Become, Goto, product, workflow, history
<1>13. ASSUME NEW t \in Tasks, EmitStart(t) PROVE DeathNeedsOverlap'
  BY <1>13 DEF EmitStart, At, Become, product, workflow, rows, history
<1>14. ASSUME NEW t \in Tasks, Begin(t) PROVE DeathNeedsOverlap'
  BY <1>14 DEF Begin, At, Become, Goto, product, rows, history
<1>15. ASSUME NEW t \in Tasks, ReadProduct(t) PROVE DeathNeedsOverlap'
  BY <1>15 DEF ReadProduct, At, Become, product, workflow, rows, history
<1>16. ASSUME NEW t \in Tasks, ReadStages(t) PROVE DeathNeedsOverlap'
  BY <1>16 DEF ReadStages, At, Become, MoveOn, product, workflow, rows, history
<1>17. ASSUME NEW t \in Tasks, MarkRunning(t) PROVE DeathNeedsOverlap'
  BY <1>17
    DEF MarkRunning, At, Become, Goto, SetStage, product, workflow, history
<1>18. ASSUME NEW t \in Tasks, MarkCurrent(t) PROVE DeathNeedsOverlap'
  BY <1>18 DEF MarkCurrent, At, Become, product, rows, history
<1>19. ASSUME NEW t \in Tasks, Classify(t) PROVE DeathNeedsOverlap'
  BY <1>19
    DEF Classify, At, Become, Goto, AttemptFails, product, workflow, rows,
        history
<1>20. ASSUME NEW t \in Tasks, PersistClassification(t) PROVE DeathNeedsOverlap'
  BY <1>20 DEF PersistClassification, At, Become, Goto, workflow, rows, history
<1>21. ASSUME NEW t \in Tasks, SyncRead(t) PROVE DeathNeedsOverlap'
  BY <1>21 DEF SyncRead, At, Become, product, workflow, rows, history
<1>22. ASSUME NEW t \in Tasks, SyncPost(t) PROVE DeathNeedsOverlap'
  BY <1>22
    DEF SyncPost, At, Become, Goto, AttemptFails, product, workflow, rows,
        history
<1>23. ASSUME NEW t \in Tasks, CompleteStage(t) PROVE DeathNeedsOverlap'
  BY <1>23
    DEF CompleteStage, At, Become, Goto, SetStage, product, workflow, history
<1>24. ASSUME NEW t \in Tasks, EmitCompleted(t) PROVE DeathNeedsOverlap'
  BY <1>24
    DEF EmitCompleted, At, Become, MoveOn, product, workflow, rows, history
<1>25. ASSUME NEW t \in Tasks, MarkRetrying(t) PROVE DeathNeedsOverlap'
  BY <1>25 DEF MarkRetrying, At, Become, SetStage, product, workflow, history
<1>26. ASSUME NEW t \in Tasks, FailStage(t) PROVE DeathNeedsOverlap'
  BY <1>26
    DEF FailStage, At, Become, Goto, SetStage, product, workflow, history
<1>27. ASSUME NEW t \in Tasks, FailWorkflow(t) PROVE DeathNeedsOverlap'
  BY <1>27 DEF FailWorkflow, At, Become, Goto, product, rows, history
<1>28. ASSUME NEW t \in Tasks, Finish(t) PROVE DeathNeedsOverlap'
  BY <1>28 DEF Finish, At, Become, Goto, product, rows, history
<1>29. ASSUME NEW t \in Tasks, EmitLast(t) PROVE DeathNeedsOverlap'
  BY <1>29
    DEF EmitLast, At, Become, Return, product, workflow, rows, history, LastPc
<1>30. ASSUME NEW t \in Tasks, DatabaseError(t) PROVE DeathNeedsOverlap'
  BY <1>30 DEF DatabaseError, TInv, TypeOK, HistoryOK
<1>31. CASE Kill
  BY <1>31 DEF Kill, TInv, TypeOK, HistoryOK
<1>32. CASE UNCHANGED vars
  BY <1>32 DEF vars
<1>. QED
  BY <1>1, <1>2, <1>3, <1>4, <1>5, <1>6, <1>7, <1>8, <1>9, <1>10, <1>11, <1>12, <1>13, <1>14, <1>15, <1>16, <1>17, <1>18, <1>19, <1>20, <1>21, <1>22, <1>23, <1>24, <1>25, <1>26, <1>27, <1>28, <1>29, <1>30, <1>31, <1>32
    DEF Next, Request, Handler, Run

LEMMA GotoKeeps ==
  ASSUME TInv, NEW t \in Tasks, NEW l, Goto(t, l)
  PROVE  /\ task'[t].pc = l
         /\ task'[t].op = task[t].op /\ task'[t].seen = task[t].seen
         /\ task'[t].code = task[t].code /\ task'[t].skip = task[t].skip
         /\ task'[t].at = task[t].at /\ task'[t].ver = task[t].ver
         /\ \A u \in Tasks \ {t} : task'[u] = task[u]
BY DEF TInv, TypeOK, TasksOK, Task, Goto, Become

(* What a reset read is a value that the version has had. *)
VersKnown == \A t \in Tasks : task[t].ver <= resets + 1

LEMMA StepVersion ==
  TInv /\ ReadsHold /\ VersionCountsResets /\ VersKnown /\ [Next]_vars => VersionCountsResets' /\ VersKnown'
<1>. SUFFICES ASSUME TInv, ReadsHold, VersionCountsResets, VersKnown, [Next]_vars
              PROVE  VersionCountsResets' /\ VersKnown'
  OBVIOUS
<1>1. ASSUME NEW t \in Tasks, NEW r, Become(t, r), r.ver \in {0, version, task[t].ver},
             UNCHANGED <<version, resets>>, overlapped => overlapped'
      PROVE  VersionCountsResets' /\ VersKnown'
  BY <1>1 DEF VersionCountsResets, VersKnown, Become, TInv, TypeOK, TasksOK, TablesOK
<1>2. ASSUME NEW t \in Tasks, NEW l, Goto(t, l), UNCHANGED <<version, resets>>, overlapped => overlapped'
      PROVE  VersionCountsResets' /\ VersKnown'
  <2>1. PICK r : r = [task[t] EXCEPT !.pc = l]
    OBVIOUS
  <2>2. r.ver = task[t].ver /\ Become(t, r)
    BY <1>2, <2>1 DEF Goto, Task, TInv, TypeOK, TasksOK
  <2>. QED
    BY <1>1, <1>2, <2>2
<1>3. ASSUME NEW t \in Tasks, AttemptFails(t), UNCHANGED <<version, resets>>, overlapped => overlapped'
      PROVE  VersionCountsResets' /\ VersKnown'
  BY <1>2, <1>3 DEF AttemptFails
<1>4. ASSUME NEW t \in Tasks, NEW i, NEW skip, MoveOn(t, i, skip), UNCHANGED <<version, resets>>,
             overlapped => overlapped'
      PROVE  VersionCountsResets' /\ VersKnown'
  <2>1. PICK j : Become(t, [task[t] EXCEPT !.skip = skip, !.at = j,
                                           !.pc = IF j \in Stage THEN "markRunning" ELSE "finish"])
    BY <1>4 DEF MoveOn
  <2>2. PICK r : r = [task[t] EXCEPT !.skip = skip, !.at = j,
                                     !.pc = IF j \in Stage THEN "markRunning" ELSE "finish"]
    OBVIOUS
  <2>3. r.ver = task[t].ver /\ Become(t, r)
    BY <2>1, <2>2 DEF Task, TInv, TypeOK, TasksOK
  <2>. QED
    BY <1>1, <1>4, <2>3
<1>5. ASSUME NEW t \in Tasks, Become(t, Idle), UNCHANGED <<version, resets>>, overlapped => overlapped'
      PROVE  VersionCountsResets' /\ VersKnown'
  BY <1>1, <1>5 DEF Idle
<1>6. ASSUME LoseTasks, UNCHANGED <<version, resets>>, overlapped => overlapped'
      PROVE  VersionCountsResets' /\ VersKnown'
  BY <1>6 DEF VersionCountsResets, VersKnown, LoseTasks, Idle, TInv, TypeOK, TablesOK
<1>7. ASSUME NEW t \in Tasks, Request(t) PROVE VersionCountsResets' /\ VersKnown'
  <2>1. PICK r : Become(t, r) /\ r.ver = 0
    <3>1. PICK c, f, e : /\ c = [Idle EXCEPT !.pc = "dispatch", !.op = "create"]
                         /\ f = [Idle EXCEPT !.pc = "find", !.op = "start"]
                         /\ e = [x \in Texts |-> [Idle EXCEPT !.pc = "editWrite", !.seen = x,
                                                              !.op = IF x = text THEN "touch" ELSE "edit"]]
      OBVIOUS
    <3>2. PICK w : w = [x \in Text |-> [Idle EXCEPT !.pc = "saveWrite", !.op = "save", !.code = x]]
      OBVIOUS
    <3>3. c.ver = 0 /\ f.ver = 0 /\ (\A x \in Texts : e[x].ver = 0) /\ \A x \in Text : w[x].ver = 0
      BY <3>1, <3>2 DEF Idle
    <3>. QED
      BY <1>7, <3>1, <3>2, <3>3 DEF Request, CreateProduct, RequestStart, RequestEdit, RequestSave
  <2>2. UNCHANGED <<version, resets, overlapped>>
    BY <1>7 DEF Request, CreateProduct, RequestStart, RequestEdit, RequestSave, Arrive, workflow
  <2>. QED
    BY <1>1, <2>1, <2>2
<1>8. ASSUME NEW t \in Tasks, EditWrite(t) \/ SaveWrite(t) PROVE VersionCountsResets' /\ VersKnown'
  <2>1. PICK e : e = [Idle EXCEPT !.pc = "find", !.op = "edit"]
    OBVIOUS
  <2>2. e.ver = 0
    BY <2>1 DEF Idle
  <2>3. Become(t, e) \/ Become(t, Idle)
    BY <1>8, <2>1 DEF EditWrite, SaveWrite, Return
  <2>4. UNCHANGED <<version, resets>> /\ (overlapped => overlapped')
    BY <1>8 DEF EditWrite, SaveWrite, NoteOverlap, workflow
  <2>. QED
    BY <1>1, <1>5, <2>2, <2>3, <2>4
<1>9. ASSUME NEW t \in Tasks, FindWorkflow(t) PROVE VersionCountsResets' /\ VersKnown'
  <2>1. PICK r1, r3 : /\ r1 = [task[t] EXCEPT !.op = "create"]
                      /\ r3 = [task[t] EXCEPT !.pc = "resetWorkflow", !.ver = version]
    OBVIOUS
  <2>2. r1.ver = task[t].ver /\ r3.ver = version
    BY <2>1 DEF Task, TInv, TypeOK, TasksOK
  <2>3. Become(t, r1) \/ Become(t, r3) \/ Become(t, Idle) \/ Goto(t, "insertWorkflow")
    BY <1>9, <2>1 DEF FindWorkflow, Return
  <2>4. UNCHANGED <<version, resets, overlapped>>
    BY <1>9 DEF FindWorkflow, workflow, history
  <2>. QED
    BY <1>1, <1>2, <1>5, <2>2, <2>3, <2>4
<1>10. ASSUME NEW t \in Tasks, ResetWorkflow(t) PROVE VersionCountsResets' /\ VersKnown'
  <2>1. /\ version' = task[t].ver + 1 /\ resets' = resets + 1 /\ At(t, "resetWorkflow")
        /\ ~overlapped' => ~overlapped
    BY <1>10 DEF ResetWorkflow, NoteOverlap
  <2>2. \A u \in Tasks : task'[u].ver = task[u].ver
    BY <1>10, GotoKeeps DEF ResetWorkflow
  <2>3. \A u \in Tasks : task[u].ver \in Nat
    BY DEF Task, TInv, TypeOK, TasksOK
  <2>4. ~overlapped => task[t].ver = resets + 1
    BY <2>1 DEF ReadsHold, VersionCountsResets
  <2>5. VersionCountsResets'
    BY <2>1, <2>3, <2>4 DEF VersionCountsResets, VersKnown, TInv, TypeOK, TablesOK
  <2>6. VersKnown'
    BY <2>1, <2>2, <2>3 DEF VersKnown, TInv, TypeOK, TablesOK
  <2>. QED
    BY <2>5, <2>6
<1>11. ASSUME NEW t \in Tasks, EmitStart(t) \/ ReadProduct(t) \/ SyncRead(t) \/ MarkCurrent(t) \/ MarkRetrying(t)
       PROVE  VersionCountsResets' /\ VersKnown'
  <2>1. PICK r1, r2, r3, r4 : /\ r1 = [Idle EXCEPT !.pc = "begin"]
                              /\ r2 = [task[t] EXCEPT !.pc = "readStages", !.seen = text]
                              /\ r3 = [task[t] EXCEPT !.code = hs, !.pc = IF hs = NoText THEN "complete" ELSE "syncPost"]
                              /\ r4 = [task[t] EXCEPT !.pc = FirstStep(task[t].at), !.att = 1]
    OBVIOUS
  <2>2. PICK r5 : r5 = [task[t] EXCEPT !.pc = FirstStep(task[t].at), !.att = @ + 1]
    OBVIOUS
  <2>3. r1.ver = 0 /\ r2.ver = task[t].ver /\ r3.ver = task[t].ver /\ r4.ver = task[t].ver /\ r5.ver = task[t].ver
    BY <2>1, <2>2 DEF Idle, Task, TInv, TypeOK, TasksOK
  <2>4. Become(t, r1) \/ Become(t, r2) \/ Become(t, r3) \/ Become(t, r4) \/ Become(t, r5)
    BY <1>11, <2>1, <2>2 DEF EmitStart, ReadProduct, SyncRead, MarkCurrent, MarkRetrying
  <2>5. UNCHANGED <<version, resets, overlapped>>
    BY <1>11 DEF EmitStart, ReadProduct, SyncRead, MarkCurrent, MarkRetrying, workflow, history
  <2>. QED
    BY <1>1, <2>3, <2>4, <2>5
<1>12. ASSUME NEW t \in Tasks, InsertWorkflow(t) PROVE VersionCountsResets' /\ VersKnown'
  <2>1. CASE status = "none"
    <3>. QED
      BY <1>2, <1>12, <2>1 DEF InsertWorkflow, NoteOverlap
  <2>3. CASE status # "none"
    <3>1. UNCHANGED <<version, resets, overlapped>>
      BY <1>12, <2>3 DEF InsertWorkflow, workflow
    <3>2. Become(t, Idle) \/ LoseTasks
      BY <1>12, <2>3 DEF InsertWorkflow, Reject, Return
    <3>. QED
      BY <1>5, <1>6, <3>1, <3>2
  <2>. QED
    BY <2>1, <2>3
<1>13. ASSUME NEW t \in Tasks, ReadStages(t) \/ EmitCompleted(t) PROVE VersionCountsResets' /\ VersKnown'
  <2>1. UNCHANGED <<version, resets, overlapped>>
    BY <1>13 DEF ReadStages, EmitCompleted, workflow, history
  <2>. QED
    BY <1>4, <1>13, <2>1 DEF ReadStages, EmitCompleted
<1>14. ASSUME NEW t \in Tasks,
              \/ DispatchEmbedding(t) \/ InsertStages(t) \/ ResetStages(t) \/ Begin(t) \/ MarkRunning(t)
              \/ Classify(t) \/ PersistClassification(t) \/ SyncPost(t) \/ CompleteStage(t)
              \/ FailStage(t) \/ FailWorkflow(t) \/ Finish(t) \/ EmitLast(t)
       PROVE  VersionCountsResets' /\ VersKnown'
  <2>1. UNCHANGED <<version, resets, overlapped>>
    BY <1>14 DEF DispatchEmbedding, InsertStages, ResetStages, Begin, MarkRunning, Classify,
                 PersistClassification, SyncPost, CompleteStage, FailStage, FailWorkflow, Finish, EmitLast,
                 workflow, history
  <2>2. (\E l : Goto(t, l)) \/ Become(t, Idle) \/ AttemptFails(t)
    BY <1>14 DEF DispatchEmbedding, InsertStages, ResetStages, Begin, MarkRunning, Classify,
                 PersistClassification, SyncPost, CompleteStage, FailStage, FailWorkflow, Finish, EmitLast, Return
  <2>. QED
    BY <1>2, <1>3, <1>5, <2>1, <2>2
<1>15. ASSUME NEW t \in Tasks, DatabaseError(t) PROVE VersionCountsResets' /\ VersKnown'
  <2>1. UNCHANGED <<version, resets, overlapped>>
    BY <1>15 DEF DatabaseError, workflow
  <2>2. Become(t, Idle) \/ LoseTasks \/ AttemptFails(t)
    BY <1>15 DEF DatabaseError, Reject, Return
  <2>. QED
    BY <1>3, <1>5, <1>6, <2>1, <2>2
<1>16. CASE Kill
  BY <1>6, <1>16 DEF Kill, workflow
<1>17. CASE UNCHANGED vars
  BY <1>17 DEF vars, VersionCountsResets, VersKnown
<1>. QED
  BY <1>7, <1>8, <1>9, <1>10, <1>11, <1>12, <1>13, <1>14, <1>15, <1>16, <1>17 DEF Next, Handler, Run

-----------------------------------------------------------------------------
(* However many starts, retries and re-runs overlap, no workflow and no     *)
(* stage is left unsettled without a task at work on it, unless the         *)
(* process went down (run(), lines 196-291).                                *)
THEOREM NeverAbandoned == Spec => []NothingAbandoned
<1>1. Init => NothingAbandoned
  BY DEF Init, NothingAbandoned
<1>. QED
  BY TypeInvariant, <1>1, StepNothingAbandoned, PTL DEF Spec

(* The belief of every task about the workflow row holds until somebody     *)
(* writes while another task is in the middle of its work.                  *)
LEMMA Beliefs == Spec => [](Known /\ ReadsHold)
<1>1. Init => Known /\ ReadsHold
  BY DEF Init, Known, ReadsHold, At, Idle, RunPc, StagePc, LastPc
<1>. QED
  BY TypeInvariant, <1>1, StepKnown, StepReadsHold, PTL DEF Spec

(* Sequential requests never take the process down: an unhandled rejection  *)
(* needs two activities that overlapped, or a database error.               *)
THEOREM DeathIsARace == Spec => []DeathNeedsOverlap
<1>1. Init => DeathNeedsOverlap
  BY DEF Init, DeathNeedsOverlap
<1>. QED
  BY TypeInvariant, Beliefs, <1>1, StepDeathNeedsOverlap, PTL DEF Spec

(* However many resets overlap, execution_version never runs ahead of them, *)
(* and absent overlap it counts them, one each (lines 108-118, 163-176).    *)
THEOREM VersionCounts == Spec => []VersionCountsResets
<1>1. Init => VersionCountsResets /\ VersKnown
  BY DEF Init, VersionCountsResets, VersKnown, Idle
<1>. QED
  BY TypeInvariant, Beliefs, <1>1, StepVersion, PTL DEF Spec

-----------------------------------------------------------------------------
(* What a workflow says while nothing overlapped, crashes and failed        *)
(* statements included.  One task at a time drives it, and every await of   *)
(* the drive knows what the rows say: that is what the two terminal         *)
(* statuses rest on, and what makes the module implement                    *)
(* ProductInitialization.                                                   *)

(* A task between writing the workflow row and the last event. *)
Busy == {"insertStages", "resetStages", "emitStart"} \union RunPc \union LastPc

Drives(t) == task[t].pc \in Busy

(* A task that will take a changed text to the stages. *)
Editor(t) == task[t].pc \in {"find", "resetWorkflow"} /\ task[t].op = "edit"

(* The rows of the stages are there, or their insert never happened. *)
Whole == \/ \A i \in Stage : stages[i] # "absent"
         \/ \A i \in Stage : stages[i] = "absent"

(* It never happens only to a fault. *)
Bare == faults > 0 /\ \A i \in Stage : stages[i] = "absent"

(* The stages before n are completed, those after it untouched. *)
Reached(n, S) == \A i \in Stage : /\ i < n => stages[i] = "completed"
                                  /\ i = n => stages[i] \in S
                                  /\ i > n => stages[i] = "queued"

Ready == Reached(0, {}) \/ Bare

(* The classification speaks for the present text. *)
Fits == /\ classified.of = text
        /\ classified.by = "withCode" => hs = text

ByRun == Fits /\ classified.by \in {"withCode", "withoutCode"}

Synced(n) == \A i \in Stage : i < n /\ STAGES[i] = "buyer_sync" => syncedHs = hs

(* What the stages before n have left behind. *)
Yield(n) == n > 1 => ByRun /\ Synced(n)

Over == \/ Reached(Len(STAGES) + 1, {}) /\ Yield(Len(STAGES) + 1)
        \/ Bare

AttemptPcs == {"classify", "persist", "syncRead", "syncPost", "complete"}

(* What the rows say when the task that drives is at r. *)
OnCourse(r) ==
  /\ r.pc = "insertStages" => status = "queued"
  /\ r.pc = "resetStages" => status = "queued" /\ ((\A i \in Stage : stages[i] # "absent") \/ Bare)
  /\ r.pc \in {"emitStart", "begin"} => status = "queued" /\ Ready
  /\ r.pc \in {"readProduct", "readStages"} => status = "running" /\ Ready
  /\ r.pc = "readStages" => r.seen = text
  /\ r.pc \in {"markRunning", "emitCompleted", "failWorkflow"} \union StagePc =>
       status = "running" /\ r.seen = text /\ r.skip = {}
  /\ r.pc \in {"markRunning", "emitCompleted"} \union StagePc => Yield(r.at)
  /\ r.pc = "markRunning" => Reached(r.at, {"queued"})
  /\ r.pc = "markCurrent" => Reached(r.at, {"running"})
  /\ r.pc \in AttemptPcs => currentStage = r.at /\ Reached(r.at, {"running", "retrying"})
  /\ r.pc \in {"markRetrying", "failStage"} =>
       currentStage = r.at /\ Reached(r.at, {"running", "retrying", "completed"})
  /\ r.pc \in {"classify", "persist"} => STAGES[r.at] = "hs_classification"
  /\ r.pc \in {"syncRead", "syncPost"} => STAGES[r.at] = "buyer_sync"
  /\ r.pc = "syncPost" => r.code = hs
  /\ r.pc = "complete" => ByRun /\ (STAGES[r.at] = "buyer_sync" => r.code = hs)
  /\ r.pc = "emitCompleted" =>
       currentStage = r.at /\ Reached(r.at + 1, {"queued"}) /\ Yield(r.at + 1)
  /\ r.pc = "finish" => status = "running" /\ Over
  /\ r.pc = "failWorkflow" => r.at \in Stage /\ currentStage = r.at
  /\ r.pc = "failWorkflow" => Reached(r.at, {"failed"})
  /\ r.pc = "emitFinished" => status = "completed" /\ Over
  /\ r.pc = "emitFailed" =>
       status = "failed" /\ currentStage \in Stage /\ Reached(currentStage, {"failed"})

(* What the rows say when no task drives. *)
Settled ==
  /\ faults = 0 => status \in {"none", "completed", "failed"}
  /\ status = "completed" =>
       /\ \/ /\ Reached(Len(STAGES) + 1, {})
             /\ classified.by # "client" => Synced(Len(STAGES) + 1)
          \/ Bare
       /\ faults = 0 => newest = "WorkflowCompleted" /\ (Fits \/ \E t \in Tasks : Editor(t))
  /\ status = "failed" =>
       /\ currentStage \in Stage /\ Reached(currentStage, {"failed"})
       /\ faults = 0 => newest = "WorkflowFailed"

(* What an edit read is what it writes. *)
Fresh(r) ==
  /\ r.pc = "editWrite" => r.op \in {"edit", "touch"}
  /\ r.pc = "editWrite" /\ r.op = "touch" => r.seen = text

Story == ~overlapped =>
  /\ \A t, u \in Tasks : Drives(t) /\ Drives(u) => t = u
  /\ \A t \in Tasks : Drives(t) => OnCourse(task[t])
  /\ \A t \in Tasks : Fresh(task[t])
  /\ (\A t \in Tasks : ~Drives(t)) => Settled
  /\ Whole

(* Nothing is done about a product before it is there. *)
Named == /\ text = NoText => status = "none" /\ \A t \in Tasks : task[t].pc = "idle"
         /\ \A t \in Tasks : task[t].pc = "editWrite" => task[t].seen \in Texts

-----------------------------------------------------------------------------
LEMMA InitStory == Init => Story /\ Named
BY DEF Init, Story, Named, Idle, Drives, Busy, RunPc, StagePc, LastPc, Settled, Fresh, Whole

(* A task that drives goes on driving, or returns; the product keeps its    *)
(* text.                                                                    *)
LEMMA DriveBecomes ==
  ASSUME TInv, NEW t \in Tasks, InsertStages(t) \/ ResetStages(t) \/ EmitStart(t) \/ Run(t)
  PROVE  /\ Drives(t) /\ UNCHANGED <<text, faults, died, overlapped>>
         /\ \A u \in Tasks \ {t} : task'[u] = task[u]
         /\ task'[t].pc \in Busy \union {"idle"}
<1>0. task[t] \in Task
  BY DEF TInv, TypeOK, TasksOK
<1>. USE DEF TInv, TypeOK, TasksOK, AtStage
<1>1. CASE InsertStages(t)
  BY <1>0, <1>1 DEF InsertStages, Become, At, Goto, product, workflow, history, Idle, Drives, Busy, RunPc, StagePc, LastPc
<1>2. CASE ResetStages(t)
  BY <1>0, <1>2 DEF ResetStages, Become, At, Goto, product, workflow, history, Idle, Drives, Busy, RunPc, StagePc, LastPc
<1>3. CASE EmitStart(t)
  BY <1>0, <1>3 DEF EmitStart, At, Become, product, workflow, rows, history, Idle, Drives, Busy, RunPc, StagePc, LastPc
<1>4. CASE Begin(t)
  BY <1>0, <1>4 DEF Begin, Become, At, Goto, product, rows, history, Idle, Drives, Busy, RunPc, StagePc, LastPc
<1>5. CASE ReadProduct(t)
  BY <1>0, <1>5 DEF ReadProduct, At, Become, product, workflow, rows, history, Idle, Drives, Busy, RunPc, StagePc, LastPc
<1>6. CASE ReadStages(t)
  BY <1>0, <1>6 DEF ReadStages, Become, At, MoveOn, product, workflow, rows, history, Idle, Drives, Busy, RunPc, StagePc, LastPc
<1>7. CASE MarkRunning(t)
  BY <1>0, <1>7 DEF MarkRunning, Become, At, Goto, SetStage, product, workflow, history, Idle, Drives, Busy, RunPc, StagePc, LastPc
<1>8. CASE MarkCurrent(t)
  BY <1>0, <1>8, FirstStepPc DEF MarkCurrent, At, Become, product, rows, history, Idle, Drives, Busy, RunPc, StagePc, LastPc
<1>9. CASE Classify(t)
  <2>1. PICK l \in StagePc : Goto(t, l)
    BY <1>9 DEF Classify, AttemptFails, StagePc
  <2>2. task'[t].pc = l /\ (\A u \in Tasks \ {t} : task'[u] = task[u])
    BY <1>0, <2>1 DEF Goto, Become, Task
  <2>. QED
    BY <1>9, <2>2 DEF Classify, At, product, history, Drives, Busy, RunPc, StagePc
<1>10. CASE PersistClassification(t)
  BY <1>0, <1>10 DEF PersistClassification, Become, At, Goto, workflow, rows, history, Idle, Drives, Busy, RunPc, StagePc, LastPc
<1>11. CASE SyncRead(t)
  BY <1>0, <1>11 DEF SyncRead, At, Become, product, workflow, rows, history, Idle, Drives, Busy, RunPc, StagePc, LastPc
<1>12. CASE SyncPost(t)
  <2>1. PICK l \in StagePc : Goto(t, l)
    BY <1>12 DEF SyncPost, AttemptFails, StagePc
  <2>2. task'[t].pc = l /\ (\A u \in Tasks \ {t} : task'[u] = task[u])
    BY <1>0, <2>1 DEF Goto, Become, Task
  <2>. QED
    BY <1>12, <2>2 DEF SyncPost, At, product, history, Drives, Busy, RunPc, StagePc
<1>13. CASE CompleteStage(t)
  BY <1>0, <1>13 DEF CompleteStage, Become, At, Goto, SetStage, product, workflow, history, Idle, Drives, Busy, RunPc, StagePc, LastPc
<1>14. CASE EmitCompleted(t)
  BY <1>0, <1>14 DEF EmitCompleted, Become, At, MoveOn, product, workflow, rows, history, Idle, Drives, Busy, RunPc, StagePc, LastPc
<1>15. CASE MarkRetrying(t)
  BY <1>0, <1>15, FirstStepPc DEF MarkRetrying, At, Become, SetStage, product, workflow, history, Idle, Drives, Busy, RunPc, StagePc, LastPc
<1>16. CASE FailStage(t)
  BY <1>0, <1>16 DEF FailStage, Become, At, Goto, SetStage, product, workflow, history, Idle, Drives, Busy, RunPc, StagePc, LastPc
<1>17. CASE FailWorkflow(t)
  BY <1>0, <1>17 DEF FailWorkflow, Become, At, Goto, product, rows, history, Idle, Drives, Busy, RunPc, StagePc, LastPc
<1>18. CASE Finish(t)
  BY <1>0, <1>18 DEF Finish, Become, At, Goto, product, rows, history, Idle, Drives, Busy, RunPc, StagePc, LastPc
<1>19. CASE EmitLast(t)
  BY <1>0, <1>19 DEF EmitLast, Become, At, Return, product, workflow, rows, history, Idle, Drives, Busy, RunPc, StagePc, LastPc
<1>. QED
  BY <1>1, <1>2, <1>3, <1>4, <1>5, <1>6, <1>7, <1>8, <1>9, <1>10, <1>11, <1>12, <1>13, <1>14, <1>15, <1>16, <1>17, <1>18, <1>19 DEF Run

(* Whatever the next stage is, the loop comes to it with the rows in order. *)
LEMMA MoveOnCourse ==
  ASSUME TInv, NEW t \in Tasks, NEW i \in Nat, MoveOn(t, i, {}), i <= Len(STAGES),
         status = "running", task[t].seen = text, Reached(i + 1, {"queued"}), Yield(i + 1),
         UNCHANGED <<product, workflow, rows>>
  PROVE  OnCourse(task[t])'
<1>1. i + 1 \in 1 .. Len(STAGES) + 1 /\ i + 1 \in i + 1 .. Len(STAGES) + 1 /\ i + 1 \in Nat
  BY ConstantsAssumption
<1>2. PICK j \in i + 1 .. Len(STAGES) + 1 :
        /\ \A k \in i + 1 .. j - 1 : k \in {}
        /\ Become(t, [task[t] EXCEPT !.skip = {}, !.at = j,
                                     !.pc = IF j \in Stage THEN "markRunning" ELSE "finish"])
  BY DEF MoveOn
<1>3. j = i + 1
  BY <1>1, <1>2, ConstantsAssumption
<1>4. /\ task'[t].pc = IF j \in Stage THEN "markRunning" ELSE "finish"
      /\ task'[t].at = j /\ task'[t].skip = {} /\ task'[t].seen = task[t].seen
  BY <1>2 DEF TInv, TypeOK, TasksOK, Task, Become
<1>5. CASE j \in Stage
  BY <1>3, <1>4, <1>5 DEF OnCourse, Reached, Yield, ByRun, Fits, Synced, Ready, Over, Bare, product, workflow, rows, StagePc, AttemptPcs
<1>6. CASE j \notin Stage
  <2>1. j = Len(STAGES) + 1
    BY <1>1, <1>3, <1>6, ConstantsAssumption DEF Stage
  <2>. QED
    BY <1>3, <1>4, <1>6, <2>1, ConstantsAssumption
      DEF OnCourse, Reached, Yield, ByRun, Fits, Synced, Ready, Over, Bare, Stage, product, workflow, rows, StagePc, AttemptPcs
<1>. QED
  BY <1>5, <1>6

(* Without rows the loop has nothing to do. *)
LEMMA MoveOverNothing ==
  ASSUME TInv, NEW t \in Tasks, MoveOn(t, 0, Stage), Bare, status = "running",
         UNCHANGED <<status, stages, faults>>
  PROVE  OnCourse(task[t])'
<1>1. PICK j \in 0 + 1 .. Len(STAGES) + 1 :
        /\ j \notin Stage
        /\ Become(t, [task[t] EXCEPT !.skip = Stage, !.at = j,
                                     !.pc = IF j \in Stage THEN "markRunning" ELSE "finish"])
  BY DEF MoveOn
<1>2. task'[t].pc = "finish"
  BY <1>1 DEF TInv, TypeOK, TasksOK, Task, Become
<1>. QED
  BY <1>2 DEF OnCourse, Over, Bare, StagePc, AttemptPcs

(* A stage's first step, at its first attempt or a later one. *)
LEMMA FirstOnCourse ==
  ASSUME TInv, NEW t \in Tasks, task[t].at \in Stage, NEW n,
         task'[t] = [task[t] EXCEPT !.pc = FirstStep(task[t].at), !.att = n],
         (status = "running")', task[t].seen = text, task[t].skip = {}, UNCHANGED product,
         Yield(task[t].at), Yield(task[t].at)', (currentStage = task[t].at)',
         Reached(task[t].at, {"running", "retrying"})'
  PROVE  OnCourse(task[t])'
<1>1. /\ task'[t].pc = FirstStep(task[t].at) /\ task'[t].at = task[t].at
      /\ task'[t].skip = {} /\ task'[t].seen = text
  BY DEF TInv, TypeOK, TasksOK, Task
<1>2. FirstStep(task[t].at) = "classify" => STAGES[task[t].at] = "hs_classification"
  BY DEF FirstStep
<1>3. FirstStep(task[t].at) = "syncRead" => STAGES[task[t].at] = "buyer_sync"
  BY DEF FirstStep
<1>4. FirstStep(task[t].at) = "complete" =>
        STAGES[task[t].at] # "hs_classification" /\ STAGES[task[t].at] # "buyer_sync"
  BY DEF FirstStep
<1>5. FirstStep(task[t].at) \in {"classify", "syncRead", "complete"}
  BY DEF FirstStep
<1>6. FirstStep(task[t].at) = "complete" => ByRun
  BY <1>4, ConstantsAssumption DEF Yield, ByRun, Fits, Synced, Ready, Over, Bare, Stage
<1>. QED
  BY <1>1, <1>2, <1>3, <1>4, <1>5, <1>6 DEF OnCourse, Reached, Yield, ByRun, Fits, Synced, Ready, Over, Bare, StagePc, AttemptPcs, product

(* The task that drives keeps the rows as its next await expects them. *)
LEMMA DriveOnCourse ==
  ASSUME TInv, NEW t \in Tasks, OnCourse(task[t]),
         InsertStages(t) \/ ResetStages(t) \/ EmitStart(t) \/ Run(t)
  PROVE  Drives(t)' => OnCourse(task[t])'
<1>. USE DEF TInv, TypeOK, TasksOK, TablesOK, AtStage
<1>0. task[t] \in Task
  OBVIOUS
<1>1. CASE InsertStages(t)
  <2>1. Goto(t, "emitStart") /\ status' = status /\ stages' = [i \in Stage |-> "queued"]
    BY <1>1 DEF InsertStages, workflow
  <2>2. status = "queued"
    BY <1>1 DEF InsertStages, At, OnCourse
  <2>. QED
    BY <2>1, <2>2, GotoKeeps, ConstantsAssumption DEF OnCourse, Ready, Over, Bare, Reached, Stage, StagePc, AttemptPcs
<1>2. CASE ResetStages(t)
  <2>1. /\ Goto(t, "emitStart") /\ status' = status
        /\ stages' = [i \in Stage |-> IF stages[i] = "absent" THEN "absent" ELSE "queued"]
    BY <1>2 DEF ResetStages, workflow
  <2>2. status = "queued" /\ ((\A i \in Stage : stages[i] # "absent") \/ Bare)
    BY <1>2 DEF ResetStages, At, OnCourse
  <2>3. Ready'
    BY <1>2, <2>1, <2>2, ConstantsAssumption DEF ResetStages, Ready, Bare, Reached, Stage, history
  <2>. QED
    BY <2>1, <2>2, <2>3, GotoKeeps DEF OnCourse, StagePc, AttemptPcs
<1>3. CASE EmitStart(t)
  <2>1. task'[t].pc = "begin" /\ UNCHANGED <<status, stages, faults>>
    BY <1>3 DEF EmitStart, Become, Idle, workflow, rows, history
  <2>2. status = "queued" /\ Ready
    BY <1>3 DEF EmitStart, At, OnCourse
  <2>. QED
    BY <2>1, <2>2 DEF OnCourse, Ready, Over, Bare, Reached, StagePc, AttemptPcs
<1>4. CASE Begin(t)
  <2>1. Goto(t, "readProduct") /\ status' = "running" /\ stages' = stages /\ faults' = faults
    BY <1>4 DEF Begin, rows, history
  <2>2. Ready
    BY <1>4 DEF Begin, At, OnCourse
  <2>. QED
    BY <2>1, <2>2, GotoKeeps DEF OnCourse, Ready, Over, Bare, Reached, StagePc, AttemptPcs
<1>5. CASE ReadProduct(t)
  <2>1. task'[t].pc = "readStages" /\ task'[t].seen = text /\ UNCHANGED <<text, status, stages, faults>>
    BY <1>5 DEF ReadProduct, Become, product, workflow, rows, history, Task
  <2>2. status = "running" /\ Ready
    BY <1>5 DEF ReadProduct, At, OnCourse
  <2>. QED
    BY <2>1, <2>2 DEF OnCourse, Ready, Over, Bare, Reached, StagePc, AttemptPcs
<1>6. CASE ReadStages(t)
  <2>1. status = "running" /\ Ready /\ task[t].seen = text
    BY <1>6 DEF ReadStages, At, OnCourse
  <2>2. MoveOn(t, 0, {i \in Stage : stages[i] \in {"completed", "absent"}})
        /\ UNCHANGED <<product, workflow, rows>> /\ faults' = faults
    BY <1>6 DEF ReadStages, history
  <2>3. CASE Bare
    <3>1. {i \in Stage : stages[i] \in {"completed", "absent"}} = Stage
      BY <2>3 DEF Bare
    <3>. QED
      BY <2>1, <2>2, <2>3, <3>1, MoveOverNothing DEF workflow, rows
  <2>4. CASE Reached(0, {})
    <3>1. {i \in Stage : stages[i] \in {"completed", "absent"}} = {}
      BY <2>4 DEF Reached, Stage
    <3>2. MoveOn(t, 0, {})
      BY <2>2, <3>1
    <3>3. Reached(0 + 1, {"queued"}) /\ Yield(0 + 1)
      BY <2>4 DEF Reached, Yield, Stage
    <3>4. 0 <= Len(STAGES)
      BY ConstantsAssumption
    <3>. QED
      BY <2>1, <2>2, <3>2, <3>3, <3>4, MoveOnCourse
  <2>. QED
    BY <2>1, <2>3, <2>4 DEF Ready
<1>7. CASE MarkRunning(t)
  <2>1. /\ Goto(t, "markCurrent") /\ UNCHANGED <<text, hs, classified, status, syncedHs>>
        /\ stages' = [stages EXCEPT ![task[t].at] = "running"]
    BY <1>7 DEF MarkRunning, SetStage, product, workflow
  <2>2. /\ status = "running" /\ Reached(task[t].at, {"queued"}) /\ Yield(task[t].at)
        /\ task[t].seen = text /\ task[t].skip = {} /\ task[t].at \in Stage
    BY <1>7 DEF MarkRunning, At, OnCourse
  <2>3. Reached(task[t].at, {"running"})'
    BY <2>1, <2>2, GotoKeeps DEF Reached, Stage
  <2>4. Yield(task[t].at)'
    BY <2>1, <2>2, GotoKeeps DEF Yield, ByRun, Fits, Synced, Ready, Over, Bare
  <2>. QED
    BY <2>1, <2>2, <2>3, <2>4, GotoKeeps DEF OnCourse, Ready, Over, Bare, StagePc, AttemptPcs
<1>8. CASE MarkCurrent(t)
  <2>1. /\ task'[t] = [task[t] EXCEPT !.pc = FirstStep(task[t].at), !.att = 1]
        /\ UNCHANGED product /\ UNCHANGED <<status, rows>> /\ currentStage' = task[t].at
    BY <1>8 DEF MarkCurrent, Become
  <2>2. /\ status = "running" /\ Reached(task[t].at, {"running"}) /\ Yield(task[t].at)
        /\ task[t].seen = text /\ task[t].skip = {} /\ task[t].at \in Stage
    BY <1>8 DEF MarkCurrent, At, OnCourse, StagePc
  <2>3. task'[t].at = task[t].at
    BY <2>1 DEF Task
  <2>4. Reached(task[t].at, {"running", "retrying"})'
    BY <2>1, <2>2, <2>3 DEF Reached, rows
  <2>5. Yield(task[t].at)'
    BY <2>1, <2>2, <2>3 DEF Yield, ByRun, Fits, Synced, Ready, Over, Bare, product, rows
  <2>. QED
    BY <2>1, <2>2, <2>3, <2>4, <2>5, FirstOnCourse
<1>9. CASE Classify(t)
  <2>1. PICK l \in {"persist", "markRetrying", "failStage"} : Goto(t, l)
    BY <1>9 DEF Classify, AttemptFails
  <2>2. UNCHANGED <<text, hs, classified, status, currentStage, stages, syncedHs>> /\ task[t].pc = "classify"
    BY <1>9 DEF Classify, At, product, workflow, rows
  <2>. QED
    BY <2>1, <2>2, GotoKeeps DEF OnCourse, Reached, Yield, ByRun, Fits, Synced, Ready, Over, Bare, StagePc, AttemptPcs
<1>10. CASE PersistClassification(t)
  <2>1. /\ Goto(t, "complete") /\ UNCHANGED <<text, status, currentStage, stages, syncedHs>>
        /\ task[t].pc = "persist"
    BY <1>10 DEF PersistClassification, At, workflow, rows
  <2>2. task[t].at = 1 /\ STAGES[1] # "buyer_sync" /\ task[t].seen = text
    BY <2>1, ConstantsAssumption DEF OnCourse, Stage, StagePc
  <2>3. ByRun'
    BY <1>10, <2>1, <2>2 DEF PersistClassification, ByRun, Fits
  <2>4. Yield(task[t].at)'
    BY <2>1, <2>2, GotoKeeps DEF Yield
  <2>. QED
    BY <2>1, <2>2, <2>3, <2>4, GotoKeeps DEF OnCourse, Reached, StagePc, AttemptPcs
<1>11. CASE SyncRead(t)
  <2>1. /\ UNCHANGED <<text, hs, classified, status, currentStage, stages, syncedHs>> /\ task[t].pc = "syncRead"
        /\ task'[t].pc \in {"complete", "syncPost"} /\ task'[t].code = hs /\ task'[t].at = task[t].at
        /\ task'[t].seen = task[t].seen /\ task'[t].skip = task[t].skip
    BY <1>11 DEF SyncRead, At, Become, product, workflow, rows, Task
  <2>2. task[t].at > 1 /\ task[t].at \in Stage
    BY <2>1, ConstantsAssumption DEF OnCourse, Stage, StagePc
  <2>. QED
    BY <2>1, <2>2 DEF OnCourse, Reached, Yield, ByRun, Fits, Synced, Ready, Over, Bare, StagePc, AttemptPcs
<1>12. CASE SyncPost(t)
  <2>1. PICK l \in {"complete", "markRetrying", "failStage"} : Goto(t, l)
    BY <1>12 DEF SyncPost, AttemptFails
  <2>2. UNCHANGED <<text, hs, classified, status, currentStage, stages, syncedHs>> /\ task[t].pc = "syncPost"
    BY <1>12 DEF SyncPost, At, product, workflow, rows
  <2>3. task[t].at > 1 /\ task[t].at \in Stage
    BY <2>2, ConstantsAssumption DEF OnCourse, Stage, StagePc
  <2>. QED
    BY <2>1, <2>2, <2>3, GotoKeeps DEF OnCourse, Reached, Yield, ByRun, Fits, Synced, Ready, Over, Bare, StagePc, AttemptPcs
<1>13. CASE CompleteStage(t)
  <2>1. /\ Goto(t, "emitCompleted") /\ UNCHANGED <<text, hs, classified, status>>
        /\ stages' = [stages EXCEPT ![task[t].at] = "completed"]
        /\ syncedHs' = IF STAGES[task[t].at] = "buyer_sync" THEN task[t].code ELSE syncedHs
        /\ task[t].pc = "complete"
    BY <1>13 DEF CompleteStage, SetStage, At, product, workflow
  <2>2. /\ status = "running" /\ Reached(task[t].at, {"running", "retrying"}) /\ Yield(task[t].at)
        /\ task[t].seen = text /\ task[t].skip = {} /\ task[t].at \in Stage
        /\ ByRun /\ (STAGES[task[t].at] = "buyer_sync" => task[t].code = hs)
        /\ currentStage = task[t].at
    BY <2>1 DEF OnCourse, StagePc, AttemptPcs
  <2>3. Reached(task[t].at + 1, {"queued"})'
    BY <2>1, <2>2, GotoKeeps DEF Reached, Stage
  <2>4. ByRun'
    BY <2>1, <2>2 DEF ByRun, Fits
  <2>5. \A i \in Stage : i < task[t].at + 1 => i < task[t].at \/ i = task[t].at
    BY <2>2 DEF Stage
  <2>6. \A i \in Stage : i < task[t].at => task[t].at > 1
    BY <2>2 DEF Stage
  <2>7. \A i \in Stage : i < task[t].at + 1 /\ STAGES[i] = "buyer_sync" => syncedHs' = hs'
    BY <2>1, <2>2, <2>5, <2>6 DEF Yield, Synced, Stage
  <2>8. Yield(task[t].at + 1)' /\ Yield(task[t].at)'
    BY <2>1, <2>2, <2>4, <2>7, GotoKeeps DEF Yield, Synced, Stage
  <2>. QED
    BY <1>13, <2>1, <2>2, <2>3, <2>8, GotoKeeps DEF OnCourse, CompleteStage, workflow, StagePc, AttemptPcs
<1>14. CASE EmitCompleted(t)
  <2>1. /\ status = "running" /\ Reached(task[t].at + 1, {"queued"}) /\ Yield(task[t].at + 1)
        /\ task[t].seen = text /\ task[t].skip = {} /\ task[t].at \in Stage
    BY <1>14 DEF EmitCompleted, At, OnCourse, StagePc
  <2>2. MoveOn(t, task[t].at, {}) /\ UNCHANGED <<product, workflow, rows>>
    BY <1>14, <2>1 DEF EmitCompleted
  <2>3. task[t].at \in Nat /\ task[t].at <= Len(STAGES)
    BY <2>1, ConstantsAssumption DEF Stage
  <2>. QED
    BY <2>1, <2>2, <2>3, MoveOnCourse
<1>15. CASE MarkRetrying(t)
  <2>1. PICK n \in Nat : task'[t] = [task[t] EXCEPT !.pc = FirstStep(task[t].at), !.att = n]
    <3>1. task[t].att + 1 \in Nat /\ task[t].att + 1 = task[t].att + 1
      BY <1>0 DEF Task
    <3>2. task'[t] = [task[t] EXCEPT !.pc = FirstStep(task[t].at), !.att = task[t].att + 1]
      BY <1>15 DEF MarkRetrying, Become
    <3>. QED
      BY <3>1, <3>2
  <2>2. /\ UNCHANGED product /\ UNCHANGED <<status, currentStage, syncedHs>>
        /\ stages' = [stages EXCEPT ![task[t].at] = "retrying"] /\ task[t].pc = "markRetrying"
    BY <1>15 DEF MarkRetrying, SetStage, At, workflow
  <2>3. /\ status = "running" /\ Reached(task[t].at, {"running", "retrying", "completed"}) /\ Yield(task[t].at)
        /\ task[t].seen = text /\ task[t].skip = {} /\ task[t].at \in Stage /\ currentStage = task[t].at
    BY <2>2 DEF OnCourse, Ready, Over, Bare, StagePc, AttemptPcs
  <2>4. task'[t].at = task[t].at
    BY <2>1 DEF Task
  <2>5. Reached(task[t].at, {"running", "retrying"})'
    BY <2>2, <2>3, <2>4 DEF Reached, Stage
  <2>6. Yield(task[t].at)'
    BY <2>2, <2>3, <2>4 DEF Yield, ByRun, Fits, Synced, Ready, Over, Bare, product
  <2>7. (status = "running")' /\ (currentStage = task[t].at)'
    BY <2>2, <2>3, <2>4
  <2>. QED
    BY <2>1, <2>2, <2>3, <2>5, <2>6, <2>7, FirstOnCourse
<1>16. CASE FailStage(t)
  <2>1. /\ Goto(t, "failWorkflow") /\ UNCHANGED <<text, hs, classified, status, currentStage>>
        /\ stages' = [stages EXCEPT ![task[t].at] = "failed"] /\ task[t].pc = "failStage"
    BY <1>16 DEF FailStage, SetStage, At, product, workflow
  <2>2. /\ status = "running" /\ Reached(task[t].at, {"running", "retrying", "completed"})
        /\ task[t].seen = text /\ task[t].skip = {} /\ task[t].at \in Stage /\ currentStage = task[t].at
    BY <2>1 DEF OnCourse, Ready, Over, Bare, StagePc, AttemptPcs
  <2>3. Reached(task[t].at, {"failed"})'
    BY <2>1, <2>2, GotoKeeps DEF Reached, Stage
  <2>. QED
    BY <2>1, <2>2, <2>3, GotoKeeps DEF OnCourse, Ready, Over, Bare, StagePc, AttemptPcs
<1>17. CASE FailWorkflow(t)
  <2>1. /\ Goto(t, "emitFailed") /\ status' = "failed" /\ UNCHANGED <<currentStage, stages>>
        /\ task[t].pc = "failWorkflow"
    BY <1>17 DEF FailWorkflow, At, rows
  <2>. QED
    BY <2>1, GotoKeeps DEF OnCourse, Ready, Over, Bare, Reached, StagePc, AttemptPcs
<1>18. CASE Finish(t)
  <2>1. /\ Goto(t, "emitFinished") /\ status' = "completed" /\ UNCHANGED <<text, hs, classified, stages, syncedHs, faults>>
        /\ task[t].pc = "finish"
    BY <1>18 DEF Finish, At, product, rows, history
  <2>. QED
    BY <2>1, GotoKeeps DEF OnCourse, Reached, Yield, ByRun, Fits, Synced, Ready, Over, Bare, StagePc, AttemptPcs
<1>19. CASE EmitLast(t)
  <2>1. task'[t].pc = "idle"
    BY <1>19 DEF EmitLast, Return, Become, Idle
  <2>. QED
    BY <2>1 DEF Drives, Busy, RunPc, StagePc, LastPc
<1>. QED
  BY <1>1, <1>2, <1>3, <1>4, <1>5, <1>6, <1>7, <1>8, <1>9, <1>10, <1>11, <1>12, <1>13, <1>14, <1>15, <1>16, <1>17, <1>18, <1>19 DEF Run

(* When the last event is written the rows are settled. *)
LEMMA EmitLastSettles ==
  ASSUME TInv, NEW t \in Tasks, OnCourse(task[t]), EmitLast(t)
  PROVE  Settled'
<1>1. UNCHANGED <<text, hs, classified, status, currentStage, stages, syncedHs, faults>>
  BY DEF EmitLast, product, workflow, rows, history
<1>2. CASE task[t].pc = "emitFinished"
  <2>1. newest' = "WorkflowCompleted"
    BY <1>2 DEF EmitLast, At
  <2>2. status = "completed" /\ Over
    BY <1>2 DEF OnCourse
  <2>. QED
    BY <1>1, <2>1, <2>2, ConstantsAssumption DEF Settled, Reached, Yield, ByRun, Fits, Synced, Over, Bare
<1>3. CASE task[t].pc = "emitFailed"
  <2>1. newest' = "WorkflowFailed"
    BY <1>3 DEF EmitLast, At
  <2>2. status = "failed" /\ currentStage \in Stage /\ Reached(currentStage, {"failed"})
    BY <1>3 DEF OnCourse
  <2>. QED
    BY <1>1, <2>1, <2>2 DEF Settled, Reached
<1>. QED
  BY <1>2, <1>3 DEF EmitLast, LastPc

(* Only the last event ends a drive. *)
LEMMA DriveGoesOn ==
  ASSUME TInv, NEW t \in Tasks, InsertStages(t) \/ ResetStages(t) \/ EmitStart(t) \/ Run(t), ~EmitLast(t)
  PROVE  Drives(t)'
<1>. USE DEF Drives, Busy, RunPc, StagePc, LastPc
<1>1. ASSUME NEW l, Goto(t, l) PROVE task'[t].pc = l
  BY <1>1, GotoKeeps
<1>2. ASSUME MarkCurrent(t) \/ MarkRetrying(t) PROVE Drives(t)'
  <2>1. task[t] \in Task /\ task[t].at \in Stage
    BY <1>2 DEF MarkCurrent, MarkRetrying, At, TInv, TypeOK, TasksOK, AtStage
  <2>2. task'[t].pc = FirstStep(task[t].at)
    BY <1>2, <2>1 DEF MarkCurrent, MarkRetrying, Become, Task, TInv, TypeOK, TasksOK
  <2>. QED
    BY <2>1, <2>2, FirstStepPc
<1>3. ASSUME EmitStart(t) \/ ReadProduct(t) \/ SyncRead(t) PROVE Drives(t)'
  BY <1>3 DEF EmitStart, ReadProduct, SyncRead, Become, Idle, Task, TInv, TypeOK, TasksOK
<1>4. ASSUME NEW i, NEW skip, MoveOn(t, i, skip) PROVE Drives(t)'
  BY <1>4 DEF MoveOn, Become, Task, TInv, TypeOK, TasksOK
<1>5. ASSUME AttemptFails(t) PROVE Drives(t)'
  BY <1>1, <1>5 DEF AttemptFails
<1>6. CASE InsertStages(t) \/ ResetStages(t) \/ Begin(t) \/ MarkRunning(t) \/ PersistClassification(t) \/ CompleteStage(t)
  BY <1>1, <1>6 DEF InsertStages, ResetStages, Begin, MarkRunning, PersistClassification, CompleteStage
<1>7. CASE FailStage(t) \/ FailWorkflow(t) \/ Finish(t)
  BY <1>1, <1>7 DEF FailStage, FailWorkflow, Finish
<1>8. CASE Classify(t) \/ SyncPost(t)
  BY <1>1, <1>5, <1>8 DEF Classify, SyncPost
<1>9. CASE ReadStages(t) \/ EmitCompleted(t)
  BY <1>4, <1>9 DEF ReadStages, EmitCompleted
<1>. QED
  BY <1>2, <1>3, <1>6, <1>7, <1>8, <1>9 DEF Run

(* Only rows that are there are written, but for the insert of them all. *)
LEMMA DriveWhole ==
  ASSUME TInv, Whole, NEW t \in Tasks, OnCourse(task[t]),
         InsertStages(t) \/ ResetStages(t) \/ EmitStart(t) \/ Run(t)
  PROVE  Whole'
<1>1. CASE InsertStages(t) \/ ResetStages(t)
  BY <1>1 DEF InsertStages, ResetStages, Whole
<1>2. ASSUME NEW s, s # "absent", stages' = [stages EXCEPT ![task[t].at] = s],
             NEW S, Reached(task[t].at, S), "absent" \notin S
      PROVE  Whole'
  BY <1>2 DEF Whole, Reached, TInv, TypeOK, TablesOK, Stage
<1>3. CASE MarkRunning(t)
  <2>1. Reached(task[t].at, {"queued"}) /\ stages' = [stages EXCEPT ![task[t].at] = "running"]
    BY <1>3 DEF MarkRunning, SetStage, At, OnCourse
  <2>. QED
    BY <1>2, <2>1
<1>4. CASE CompleteStage(t)
  <2>1. /\ Reached(task[t].at, {"running", "retrying"})
        /\ stages' = [stages EXCEPT ![task[t].at] = "completed"]
    BY <1>4 DEF CompleteStage, SetStage, At, OnCourse, AttemptPcs
  <2>. QED
    BY <1>2, <2>1
<1>5. CASE MarkRetrying(t) \/ FailStage(t)
  <2>1. PICK s \in {"retrying", "failed"} : stages' = [stages EXCEPT ![task[t].at] = s]
    BY <1>5 DEF MarkRetrying, FailStage, SetStage
  <2>2. Reached(task[t].at, {"running", "retrying", "completed"})
    BY <1>5 DEF MarkRetrying, FailStage, At, OnCourse
  <2>. QED
    BY <1>2, <2>1, <2>2
<1>6. ASSUME stages' = stages PROVE Whole'
  BY <1>6 DEF Whole
<1>. QED
  BY <1>1, <1>3, <1>4, <1>5, <1>6
    DEF EmitStart, Run, Begin, ReadProduct, ReadStages, MarkCurrent, Classify, PersistClassification,
        SyncRead, SyncPost, EmitCompleted, FailWorkflow, Finish, EmitLast, rows

(* A step of the task that drives leaves the story as it should be. *)
LEMMA DriveKeepsStory ==
  ASSUME TInv, Story, NEW t \in Tasks, InsertStages(t) \/ ResetStages(t) \/ EmitStart(t) \/ Run(t)
  PROVE  Story'
<1>. SUFFICES ASSUME ~overlapped'
              PROVE  /\ (\A u, v \in Tasks : Drives(u) /\ Drives(v) => u = v)'
                     /\ (\A u \in Tasks : Drives(u) => OnCourse(task[u]))'
                     /\ (\A u \in Tasks : Fresh(task[u]))'
                     /\ ((\A u \in Tasks : ~Drives(u)) => Settled)'
                     /\ Whole'
  BY DEF Story
<1>1. /\ Drives(t) /\ UNCHANGED <<text, overlapped, faults>>
      /\ \A u \in Tasks \ {t} : task'[u] = task[u]
      /\ task'[t].pc \in Busy \union {"idle"}
  BY DriveBecomes
<1>2. ~overlapped
  BY <1>1
<1>3. \A u \in Tasks \ {t} : ~Drives(u) /\ ~Drives(u)'
  BY <1>1, <1>2 DEF Story, Drives
<1>4. OnCourse(task[t])
  BY <1>1, <1>2 DEF Story
<1>5. Drives(t)' => OnCourse(task[t])'
  BY <1>4, DriveOnCourse
<1>6. ~Drives(t)' => Settled'
  <2>1. ~Drives(t)' => EmitLast(t)
    BY DriveGoesOn
  <2>. QED
    BY <1>4, <2>1, EmitLastSettles
<1>7. \A u \in Tasks : Fresh(task[u])'
  <2>1. ASSUME NEW u \in Tasks \ {t} PROVE Fresh(task[u])'
    <3>1. Fresh(task[u]) /\ task'[u] = task[u] /\ text' = text
      BY <1>1, <1>2 DEF Story
    <3>. QED
      BY <3>1 DEF Fresh
  <2>2. Fresh(task[t])'
    BY <1>1 DEF Fresh, Busy, RunPc, StagePc, LastPc
  <2>. QED
    BY <2>1, <2>2
<1>8. Whole'
  BY <1>2, <1>4, DriveWhole DEF Story
<1>. QED
  BY <1>3, <1>5, <1>6, <1>7, <1>8

(* A task that does not drive, and only looks. *)
LEMMA LookKeepsStory ==
  ASSUME TInv, Story, NEW t \in Tasks, ~Drives(t), task'[t].pc \notin Busy, ~overlapped => Fresh(task[t])',
         \A u \in Tasks \ {t} : task'[u] = task[u],
         UNCHANGED <<product, workflow, rows, newest>>, overlapped => overlapped', faults' = faults,
         Editor(t) => Editor(t)' \/ status # "completed"
  PROVE  Story'
<1>. SUFFICES ASSUME ~overlapped'
              PROVE  /\ (\A u, v \in Tasks : Drives(u) /\ Drives(v) => u = v)'
                     /\ (\A u \in Tasks : Drives(u) => OnCourse(task[u]))'
                     /\ (\A u \in Tasks : Fresh(task[u]))'
                     /\ ((\A u \in Tasks : ~Drives(u)) => Settled)'
                     /\ Whole'
  BY DEF Story
<1>1. ~overlapped
  OBVIOUS
<1>2. \A u \in Tasks : Drives(u)' <=> Drives(u)
  BY DEF Drives
<1>3. ASSUME NEW u \in Tasks, Drives(u) PROVE OnCourse(task[u])'
  <2>1. OnCourse(task[u]) /\ task'[u] = task[u]
    BY <1>1, <1>3 DEF Story
  <2>. QED
    BY <2>1 DEF OnCourse, Reached, Yield, ByRun, Fits, Synced, Ready, Over, Bare, product, workflow, rows
<1>4. ASSUME NEW u \in Tasks PROVE Fresh(task[u])'
  <2>1. Fresh(task[u]) /\ (u # t => task'[u] = task[u])
    BY <1>1 DEF Story
  <2>. QED
    BY <1>1, <2>1 DEF Fresh, product
<1>5. Settled => Settled'
  <2>1. status = "completed" /\ (\E u \in Tasks : Editor(u)) => \E u \in Tasks : Editor(u)'
    BY DEF Editor
  <2>. QED
    BY <2>1 DEF Settled, Reached, Fits, Synced, Bare, product, workflow, rows
<1>6. Whole'
  BY <1>1 DEF Story, Whole, rows
<1>. QED
  BY <1>1, <1>2, <1>3, <1>4, <1>5, <1>6 DEF Story

(* A task that writes while no other is in the middle of anything. *)
LEMMA AloneWhenWriting ==
  ASSUME TInv, Story, NEW t \in Tasks, NoteOverlap(t), faults' = faults, ~overlapped', ~Drives(t)
  PROVE  /\ ~overlapped /\ Settled /\ Whole
         /\ \A u \in Tasks \ {t} : ~Live(u) /\ ~Drives(u) /\ ~Editor(u)
<1>1. ~overlapped /\ \A u \in Tasks \ {t} : ~Live(u)
  BY DEF NoteOverlap
<1>2. \A u \in Tasks \ {t} : ~Drives(u) /\ ~Editor(u)
  BY <1>1 DEF Live, At, Drives, Editor, Busy, RunPc, StagePc, LastPc
<1>. QED
  BY <1>1, <1>2 DEF Story

LEMMA InsertKeepsStory == ASSUME TInv, Story, ReadsHold, NEW t \in Tasks, InsertWorkflow(t) PROVE Story'
<1>. SUFFICES ASSUME ~overlapped' PROVE Story'
  BY DEF Story
<1>1. status = "none"
  BY DEF InsertWorkflow, ReadsHold, NoteOverlap
<1>2. Goto(t, "insertStages") /\ NoteOverlap(t) /\ status' = "queued" /\ text' = text /\ faults' = faults
  BY <1>1 DEF InsertWorkflow, product
<1>3. ~Drives(t) /\ task'[t].pc = "insertStages" /\ \A u \in Tasks \ {t} : task'[u] = task[u]
  BY <1>2, GotoKeeps DEF InsertWorkflow, At, Drives, Busy, RunPc, StagePc, LastPc
<1>4. \A u \in Tasks \ {t} : ~Drives(u)' /\ Fresh(task[u])'
  BY <1>2, <1>3, AloneWhenWriting DEF Story, Drives, Fresh
<1>5. Drives(t)' /\ Fresh(task[t])' /\ OnCourse(task[t])'
  BY <1>2, <1>3 DEF Drives, Busy, Fresh, OnCourse, StagePc, AttemptPcs
<1>6. Whole'
  BY <1>2, <1>3, AloneWhenWriting DEF InsertWorkflow, Whole, rows
<1>. QED
  BY <1>4, <1>5, <1>6 DEF Story

LEMMA ResetKeepsStory == ASSUME TInv, Story, Known, NEW t \in Tasks, ResetWorkflow(t) PROVE Story'
<1>. SUFFICES ASSUME ~overlapped' PROVE Story'
  BY DEF Story
<1>1. /\ Goto(t, "resetStages") /\ NoteOverlap(t) /\ status' = "queued"
      /\ UNCHANGED <<text, stages, faults>> /\ task[t].pc = "resetWorkflow"
  BY DEF ResetWorkflow, At, product, rows
<1>2. ~Drives(t) /\ task'[t].pc = "resetStages" /\ \A u \in Tasks \ {t} : task'[u] = task[u]
  BY <1>1, GotoKeeps DEF Drives, Busy, RunPc, StagePc, LastPc
<1>3. Settled /\ Whole /\ \A u \in Tasks \ {t} : ~Drives(u)' /\ Fresh(task[u])'
  BY <1>1, <1>2, AloneWhenWriting DEF Story, Drives, Fresh
<1>4. faults = 0 => status \in {"completed", "failed"}
  BY <1>1, <1>3 DEF Settled, Known
<1>5. ((\A i \in Stage : stages[i] # "absent") \/ Bare)'
  <2>1. CASE faults = 0
    <3>1. \A i \in Stage : stages[i] # "absent"
      <4>1. CASE status = "completed"
        <5>1. Reached(Len(STAGES) + 1, {})
          BY <1>3, <2>1, <4>1 DEF Settled, Bare
        <5>2. \A i \in Stage : i < Len(STAGES) + 1
          BY ConstantsAssumption DEF Stage
        <5>. QED
          BY <5>1, <5>2 DEF Reached
      <4>2. CASE status = "failed"
        <5>1. currentStage \in Stage /\ Reached(currentStage, {"failed"})
          BY <1>3, <4>2 DEF Settled
        <5>2. \A i \in Stage : i < currentStage \/ i = currentStage \/ i > currentStage
          BY <5>1, ConstantsAssumption DEF Stage
        <5>. QED
          BY <5>1, <5>2 DEF Reached
      <4>. QED
        BY <1>4, <2>1, <4>1, <4>2
    <3>. QED
      BY <1>1, <3>1
  <2>2. CASE faults > 0
    BY <1>1, <1>3, <2>2 DEF Whole, Bare
  <2>. QED
    BY <2>1, <2>2 DEF TInv, TypeOK, HistoryOK
<1>6. Drives(t)' /\ Fresh(task[t])' /\ OnCourse(task[t])'
  BY <1>1, <1>2, <1>5 DEF Drives, Busy, Fresh, OnCourse, StagePc, AttemptPcs
<1>7. Whole'
  BY <1>1, <1>3 DEF Whole
<1>. QED
  BY <1>3, <1>6, <1>7 DEF Story

LEMMA BecomeIs ==
  ASSUME TInv, NEW t \in Tasks, NEW r, Become(t, r)
  PROVE  task'[t] = r /\ \A u \in Tasks \ {t} : task'[u] = task[u]
BY DEF TInv, TypeOK, TasksOK, Become

LEMMA RequestKeepsStory == ASSUME TInv, Named, Story, NEW t \in Tasks, Request(t) PROVE Story'
<1>1. ~Drives(t) /\ ~Editor(t)
  BY DEF Request, CreateProduct, RequestStart, RequestEdit, RequestSave, Arrive, At,
         Drives, Editor, Busy, RunPc, StagePc, LastPc
<1>2. CASE CreateProduct(t)
  <2>2. task'[t].pc = "dispatch" /\ \A u \in Tasks \ {t} : task'[u] = task[u]
    BY <1>2 DEF CreateProduct, Become, Idle, TInv, TypeOK, TasksOK
  <2>3. /\ status = "none" /\ status' = status /\ stages' = stages /\ overlapped' = overlapped
        /\ \A u \in Tasks : task[u].pc = "idle"
    BY <1>2 DEF CreateProduct, Arrive, Named, workflow, rows
  <2>. QED
    BY <2>2, <2>3 DEF Story, Drives, Busy, RunPc, StagePc, LastPc, Fresh, Settled, Whole
<1>3. CASE RequestStart(t)
  <2>2. task'[t].pc = "find" /\ \A u \in Tasks \ {t} : task'[u] = task[u]
    BY <1>3 DEF RequestStart, Become, Idle, TInv, TypeOK, TasksOK
  <2>3. task'[t].pc \notin Busy /\ Fresh(task[t])'
    BY <2>2 DEF Fresh, Busy, RunPc, StagePc, LastPc
  <2>4. UNCHANGED <<product, workflow, rows, newest>> /\ (overlapped => overlapped') /\ faults' = faults
    BY <1>3 DEF RequestStart, Arrive
  <2>. QED
    BY <1>1, <2>2, <2>3, <2>4, LookKeepsStory
<1>4. CASE RequestEdit(t)
  <2>1. PICK x \in Texts :
          Become(t, [Idle EXCEPT !.pc = "editWrite", !.seen = x, !.op = IF x = text THEN "touch" ELSE "edit"])
    BY <1>4 DEF RequestEdit
  <2>2. /\ task'[t].pc = "editWrite" /\ task'[t].seen = x
        /\ task'[t].op = IF x = text THEN "touch" ELSE "edit"
        /\ \A u \in Tasks \ {t} : task'[u] = task[u]
    BY <2>1 DEF Become, Idle, TInv, TypeOK, TasksOK
  <2>3. UNCHANGED <<product, workflow, rows, newest>> /\ (overlapped => overlapped') /\ faults' = faults
    BY <1>4 DEF RequestEdit, Arrive
  <2>4. task'[t].pc \notin Busy /\ Fresh(task[t])'
    BY <2>2, <2>3 DEF Fresh, Busy, RunPc, StagePc, LastPc, product
  <2>. QED
    BY <1>1, <2>2, <2>3, <2>4, LookKeepsStory
<1>5. CASE RequestSave(t)
  <2>1. PICK x \in Text : Become(t, [Idle EXCEPT !.pc = "saveWrite", !.op = "save", !.code = x])
    BY <1>5 DEF RequestSave
  <2>2. task'[t].pc = "saveWrite" /\ \A u \in Tasks \ {t} : task'[u] = task[u]
    BY <2>1 DEF Become, Idle, TInv, TypeOK, TasksOK
  <2>3. UNCHANGED <<product, workflow, rows, newest>> /\ (overlapped => overlapped') /\ faults' = faults
    BY <1>5 DEF RequestSave, Arrive
  <2>4. task'[t].pc \notin Busy /\ Fresh(task[t])'
    BY <2>2, <2>3 DEF Fresh, Busy, RunPc, StagePc, LastPc, product
  <2>. QED
    BY <1>1, <2>2, <2>3, <2>4, LookKeepsStory
<1>. QED
  BY <1>2, <1>3, <1>4, <1>5 DEF Request

LEMMA FindKeepsStory ==
  ASSUME TInv, Story, NEW t \in Tasks, DispatchEmbedding(t) \/ FindWorkflow(t) PROVE Story'
<1>1. /\ UNCHANGED <<product, workflow, rows, newest>>
      /\ (overlapped => overlapped') /\ faults' = faults /\ ~Drives(t)
  BY DEF DispatchEmbedding, FindWorkflow, At, Drives, Busy, RunPc, StagePc, LastPc, history
<1>2. PICK r : /\ Become(t, r) /\ r.pc \in {"idle", "find", "insertWorkflow", "resetWorkflow"}
               /\ Editor(t) => (r.pc = "resetWorkflow" /\ r.op = "edit") \/ status = "none"
  <2>1. task[t] \in Task
    BY DEF TInv, TypeOK, TasksOK
  <2>2. CASE DispatchEmbedding(t)
    <3>1. PICK r : r = [task[t] EXCEPT !.pc = "find"]
      OBVIOUS
    <3>2. r.pc = "find" /\ Idle.pc = "idle"
      BY <2>1, <3>1 DEF Task, Idle
    <3>3. Become(t, r) \/ Become(t, Idle)
      BY <2>2, <3>1 DEF DispatchEmbedding, Goto, Return
    <3>4. ~Editor(t)
      BY <2>2 DEF DispatchEmbedding, At, Editor
    <3>. QED
      BY <3>2, <3>3, <3>4
  <2>3. CASE FindWorkflow(t)
    <3>1. PICK r1, r2, r3 : /\ r1 = [task[t] EXCEPT !.op = "create"]
                            /\ r2 = [task[t] EXCEPT !.pc = "insertWorkflow"]
                            /\ r3 = [task[t] EXCEPT !.pc = "resetWorkflow", !.ver = version]
      OBVIOUS
    <3>2. /\ r1.pc = "find" /\ r2.pc = "insertWorkflow" /\ r3.pc = "resetWorkflow" /\ r3.op = task[t].op
          /\ Idle.pc = "idle"
      BY <2>1, <2>3, <3>1 DEF FindWorkflow, At, Task, Idle
    <3>3. \/ status = "none" /\ Become(t, r1)
          \/ task[t].op # "edit" /\ Become(t, r2)
          \/ Become(t, r3)
          \/ task[t].op # "edit" /\ Become(t, Idle)
      BY <2>3, <3>1 DEF FindWorkflow, Goto, Return
    <3>. QED
      BY <3>2, <3>3 DEF Editor
  <2>. QED
    BY <2>2, <2>3
<1>3. task'[t] = r /\ \A u \in Tasks \ {t} : task'[u] = task[u]
  BY <1>2, BecomeIs
<1>4. task'[t].pc \notin Busy /\ Fresh(task[t])' /\ (Editor(t) => Editor(t)' \/ status # "completed")
  BY <1>2, <1>3 DEF Fresh, Editor, Busy, RunPc, StagePc, LastPc
<1>. QED
  BY <1>1, <1>3, <1>4, LookKeepsStory

(* An edit and a hand-made classification write the product while nothing   *)
(* else goes on; the edit leaves an editor behind.                          *)
LEMMA WriteKeepsStory ==
  ASSUME TInv, Story, NEW t \in Tasks, EditWrite(t) \/ SaveWrite(t) PROVE Story'
<1>. SUFFICES ASSUME ~overlapped' PROVE Story'
  BY DEF Story
<1>1. /\ NoteOverlap(t) /\ UNCHANGED <<workflow, rows, newest, faults>> /\ ~Drives(t) /\ ~Editor(t)
      /\ task[t].pc \in {"editWrite", "saveWrite"}
  BY DEF EditWrite, SaveWrite, At, Drives, Editor, Busy, RunPc, StagePc, LastPc
<1>2. ~overlapped /\ Settled /\ Whole /\ \A u \in Tasks \ {t} : ~Live(u) /\ ~Drives(u) /\ ~Editor(u)
  BY <1>1, AloneWhenWriting
<1>3. Fresh(task[t])
  BY <1>2 DEF Story
<1>4. PICK r : Become(t, r) /\ r.pc \in {"idle", "find"}
               /\ (task[t].pc = "editWrite" /\ task[t].op = "edit" => r.pc = "find" /\ r.op = "edit")
  <2>1. PICK e : e = [Idle EXCEPT !.pc = "find", !.op = "edit"]
    OBVIOUS
  <2>2. e.pc = "find" /\ e.op = "edit" /\ Idle.pc = "idle"
    BY <2>1 DEF Idle
  <2>. QED
    BY <2>1, <2>2 DEF EditWrite, SaveWrite, Return, At
<1>5. task'[t] = r /\ \A u \in Tasks \ {t} : task'[u] = task[u]
  BY <1>4, BecomeIs
<1>6. \A u \in Tasks : ~Drives(u)' /\ Fresh(task[u])'
  BY <1>2, <1>4, <1>5 DEF Drives, Busy, RunPc, StagePc, LastPc, Fresh, Live
<1>7. \/ UNCHANGED <<hs, classified>> /\ task[t].pc = "editWrite" /\ text' = task[t].seen
      \/ text' = text /\ task[t].pc = "saveWrite" /\ classified' = [by |-> "client", of |-> text]
  BY DEF EditWrite, SaveWrite, At
<1>8. status = "completed" /\ faults = 0 => (Fits \/ \E u \in Tasks : Editor(u))'
  <2>1. CASE classified' = [by |-> "client", of |-> text] /\ text' = text
    BY <2>1 DEF Fits
  <2>2. CASE UNCHANGED <<hs, classified>> /\ task[t].pc = "editWrite" /\ text' = task[t].seen
    <3>1. task[t].op = "edit" \/ text' = text
      BY <1>3, <2>2 DEF Fresh
    <3>2. task[t].op = "edit" => Editor(t)'
      BY <1>4, <1>5, <2>2 DEF Editor
    <3>3. status = "completed" /\ faults = 0 => Fits
      BY <1>1, <1>2 DEF Settled
    <3>. QED
      BY <2>2, <3>1, <3>2, <3>3 DEF Fits
  <2>. QED
    BY <1>7, <2>1, <2>2
<1>9. (classified.by # "client" => Synced(Len(STAGES) + 1))' \/ ~(classified.by # "client" => Synced(Len(STAGES) + 1))
  BY <1>1, <1>7 DEF Synced, rows
<1>10. Settled'
  BY <1>1, <1>2, <1>8, <1>9 DEF Settled, Reached, Bare, workflow, rows
<1>11. Whole'
  BY <1>1, <1>2 DEF Whole, rows
<1>. QED
  BY <1>6, <1>10, <1>11 DEF Story

(* The process goes down, or a task gives up: the rows stay as they are, and *)
(* whoever drove has left them in order.                                     *)
LEMMA FaultKeepsStory ==
  ASSUME TInv, Story, UNCHANGED <<product, workflow, rows, newest, overlapped>>, faults' = faults + 1,
         \A u \in Tasks : task'[u] = task[u] \/ task'[u].pc = "idle"
  PROVE  Story'
<1>. SUFFICES ASSUME ~overlapped PROVE Story'
  BY DEF Story
<1>0. faults' > 0 /\ faults' # 0 /\ (Bare => Bare')
  BY DEF TInv, TypeOK, HistoryOK, Bare, rows
<1>1. \A u \in Tasks : Drives(u)' => Drives(u) /\ task'[u] = task[u]
  BY DEF Drives, Busy, RunPc, StagePc, LastPc
<1>2. ASSUME NEW u \in Tasks, Drives(u)' PROVE OnCourse(task[u])'
  <2>1. OnCourse(task[u]) /\ task'[u] = task[u]
    BY <1>1, <1>2 DEF Story
  <2>2. /\ (Ready => Ready') /\ (Over => Over') /\ (ByRun => ByRun')
        /\ \A n : Yield(n) => Yield(n)'
        /\ \A n, S : Reached(n, S) => Reached(n, S)'
    BY <1>0 DEF Ready, Over, Reached, Yield, ByRun, Fits, Synced, product, workflow, rows
  <2>. QED
    BY <1>0, <2>1, <2>2 DEF OnCourse, product, workflow, rows
<1>3. ASSUME NEW u \in Tasks PROVE Fresh(task[u])'
  BY <1>3 DEF Story, Fresh, product
<1>4. ASSUME NEW u \in Tasks, Drives(u) PROVE Settled'
  <2>1. OnCourse(task[u])
    BY <1>4 DEF Story
  <2>2. status = "completed" => Over
    BY <1>4, <2>1 DEF OnCourse, Drives, Busy, RunPc, StagePc, LastPc
  <2>3. status = "failed" => currentStage \in Stage /\ Reached(currentStage, {"failed"})
    BY <1>4, <2>1 DEF OnCourse, Drives, Busy, RunPc, StagePc, LastPc
  <2>. QED
    BY <1>0, <2>2, <2>3, ConstantsAssumption
      DEF Settled, Over, Reached, Yield, ByRun, Synced, product, workflow, rows
<1>5. Settled => Settled'
  BY <1>0 DEF Settled, Reached, Synced, product, workflow, rows
<1>6. Whole'
  BY DEF Story, Whole, rows
<1>7. (\A u \in Tasks : ~Drives(u)) => Settled
  BY DEF Story
<1>8. \A u, v \in Tasks : Drives(u)' /\ Drives(v)' => u = v
  BY <1>1 DEF Story
<1>. QED
  BY <1>2, <1>3, <1>4, <1>5, <1>6, <1>7, <1>8 DEF Story

(* A statement that fails inside an attempt is a failed attempt, even when  *)
(* the stage was already written completed.                                 *)
LEMMA FailedAttemptKeepsStory ==
  ASSUME TInv, Story, UNCHANGED <<product, workflow, rows, newest, overlapped>>, faults' = faults + 1,
         NEW t \in Tasks, task[t].pc \in AttemptPc, AttemptFails(t)
  PROVE  Story'
<1>. SUFFICES ASSUME ~overlapped PROVE Story'
  BY DEF Story
<1>1. PICK l \in {"markRetrying", "failStage"} : Goto(t, l)
  BY DEF AttemptFails
<1>2. Drives(t) /\ Drives(t)' /\ \A u \in Tasks \ {t} : task'[u] = task[u]
  BY <1>1, GotoKeeps DEF Drives, Busy, RunPc, StagePc, AttemptPc
<1>3. OnCourse(task[t]) /\ task[t].at \in Stage
  BY <1>2 DEF Story, TInv, AtStage, StagePc, AttemptPc
<1>4. /\ status = "running" /\ task[t].seen = text /\ task[t].skip = {} /\ Yield(task[t].at)
      /\ currentStage = task[t].at /\ Reached(task[t].at, {"running", "retrying", "completed"})
  <2>1. CASE task[t].pc = "emitCompleted"
    BY <1>3, <2>1 DEF OnCourse, Reached, Stage
  <2>2. CASE task[t].pc # "emitCompleted"
    BY <1>3, <2>2 DEF OnCourse, Reached, StagePc, AttemptPc, AttemptPcs
  <2>. QED
    BY <2>1, <2>2
<1>5. (Yield(task[t].at) /\ Reached(task[t].at, {"running", "retrying", "completed"}))'
  BY <1>1, <1>4, GotoKeeps DEF Yield, ByRun, Fits, Synced, Reached, product, rows
<1>6. OnCourse(task[t])'
  BY <1>1, <1>4, <1>5, GotoKeeps DEF OnCourse, StagePc, AttemptPcs, product, workflow
<1>7. \A u \in Tasks \ {t} : ~Drives(u) /\ ~Drives(u)'
  BY <1>2 DEF Story, Drives
<1>8. ASSUME NEW u \in Tasks PROVE Fresh(task[u])'
  <2>1. Fresh(task[u]) /\ (u # t => task'[u] = task[u]) /\ task'[t].pc = l
    BY <1>1, <1>2, GotoKeeps DEF Story
  <2>. QED
    BY <2>1 DEF Fresh, product
<1>9. Whole'
  BY DEF Story, Whole, rows
<1>. QED
  BY <1>2, <1>6, <1>7, <1>8, <1>9 DEF Story

LEMMA StepStory == TInv /\ Named /\ Known /\ ReadsHold /\ Story /\ [Next]_vars => Story'
<1>. SUFFICES ASSUME TInv, Named, Known, ReadsHold, Story, [Next]_vars PROVE Story'
  OBVIOUS
<1>1. ASSUME NEW t \in Tasks, DatabaseError(t) PROVE Story'
  <2>1. UNCHANGED <<product, workflow, rows, newest, overlapped>> /\ faults' = faults + 1
    BY <1>1 DEF DatabaseError
  <2>2. \/ LoseTasks \/ Become(t, Idle)
        \/ (task[t].pc \in AttemptPc /\ AttemptFails(t))
    BY <1>1 DEF DatabaseError, Reject, Return
  <2>3. CASE LoseTasks
    BY <2>1, <2>3, FaultKeepsStory DEF LoseTasks, Idle
  <2>4. CASE Become(t, Idle)
    <3>1. \A u \in Tasks : task'[u] = task[u] \/ task'[u].pc = "idle"
      BY <2>4, BecomeIs DEF Idle
    <3>. QED
      BY <2>1, <3>1, FaultKeepsStory
  <2>. QED
    BY <2>1, <2>2, <2>3, <2>4, FailedAttemptKeepsStory
<1>2. CASE Kill
  BY <1>2, FaultKeepsStory DEF Kill, LoseTasks, Idle
<1>3. CASE UNCHANGED vars
  BY <1>3 DEF vars, Story, Drives, OnCourse, Reached, Yield, ByRun, Fits, Synced, Ready, Over, Bare, Fresh,
             Settled, Editor, Whole
<1>. QED
  BY <1>1, <1>2, <1>3, DriveKeepsStory, InsertKeepsStory, ResetKeepsStory, RequestKeepsStory,
     FindKeepsStory, WriteKeepsStory DEF Next, Handler

(* Tasks deal with a product that is there, and an edit has a text. *)
LEMMA StepNamed == TInv /\ Named /\ [Next]_vars => Named'
<1>. SUFFICES ASSUME TInv, Named, [Next]_vars PROVE Named'
  OBVIOUS
<1>1. ASSUME NEW t \in Tasks, task[t].pc # "idle", task'[t].pc # "editWrite",
             \A u \in Tasks \ {t} : task'[u] = task[u], text' = text
      PROVE  Named'
  BY <1>1 DEF Named
<1>2. ASSUME NEW t \in Tasks, InsertStages(t) \/ ResetStages(t) \/ EmitStart(t) \/ Run(t) PROVE Named'
  <2>1. task[t].pc # "idle" /\ task'[t].pc # "editWrite"
    BY <1>2, DriveBecomes DEF Drives, Busy, RunPc, StagePc, LastPc
  <2>. QED
    BY <1>1, <1>2, <2>1, DriveBecomes
<1>3. ASSUME NEW t \in Tasks, LoseTasks, text' = text, status' = status PROVE Named'
  BY <1>3 DEF Named, LoseTasks, Idle
<1>4. ASSUME NEW t \in Tasks, Request(t) PROVE Named'
  <2>1. CASE CreateProduct(t)
    <3>2. task'[t].pc = "dispatch" /\ \A u \in Tasks \ {t} : task'[u] = task[u]
      BY <2>1 DEF CreateProduct, Become, Idle, TInv, TypeOK, TasksOK
    <3>3. text' # NoText
      BY <2>1, ConstantsAssumption DEF CreateProduct
    <3>. QED
      BY <3>2, <3>3 DEF Named
  <2>2. CASE RequestStart(t) \/ RequestSave(t)
    <3>2. task'[t].pc # "editWrite" /\ \A u \in Tasks \ {t} : task'[u] = task[u]
      BY <2>2 DEF RequestStart, RequestSave, Become, Idle, TInv, TypeOK, TasksOK
    <3>3. text # NoText /\ text' = text
      BY <2>2 DEF RequestStart, RequestSave, product
    <3>. QED
      BY <3>2, <3>3 DEF Named
  <2>3. CASE RequestEdit(t)
    <3>2. task'[t].seen \in Texts /\ \A u \in Tasks \ {t} : task'[u] = task[u]
      BY <2>3 DEF RequestEdit, Become, Idle, TInv, TypeOK, TasksOK
    <3>3. text # NoText /\ text' = text
      BY <2>3 DEF RequestEdit, product
    <3>. QED
      BY <3>2, <3>3 DEF Named
  <2>. QED
    BY <1>4, <2>1, <2>2, <2>3 DEF Request
<1>5. ASSUME NEW t \in Tasks, DispatchEmbedding(t) \/ FindWorkflow(t) \/ ResetWorkflow(t) PROVE Named'
  <2>1. PICK r : Become(t, r) /\ r.pc # "editWrite"
    <3>1. task[t] \in Task /\ task[t].pc # "editWrite" /\ Idle.pc = "idle"
      BY <1>5 DEF DispatchEmbedding, FindWorkflow, ResetWorkflow, At, Idle, TInv, TypeOK, TasksOK
    <3>2. ASSUME NEW l \in {"find", "insertWorkflow", "resetStages"}, Goto(t, l)
          PROVE  \E r : Become(t, r) /\ r.pc # "editWrite"
      <4>1. PICK r : r = [task[t] EXCEPT !.pc = l]
        OBVIOUS
      <4>2. r.pc = l /\ Become(t, r)
        BY <3>1, <3>2, <4>1 DEF Goto, Task
      <4>. QED
        BY <4>2
    <3>3. PICK r1, r3 : /\ r1 = [task[t] EXCEPT !.op = "create"]
                        /\ r3 = [task[t] EXCEPT !.pc = "resetWorkflow", !.ver = version]
      OBVIOUS
    <3>4. r1.pc # "editWrite" /\ r3.pc # "editWrite"
      BY <3>1, <3>3 DEF Task
    <3>5. \/ Goto(t, "find") \/ Goto(t, "insertWorkflow") \/ Goto(t, "resetStages")
          \/ Become(t, r1) \/ Become(t, r3) \/ Become(t, Idle)
      BY <1>5, <3>3 DEF DispatchEmbedding, FindWorkflow, ResetWorkflow, Return
    <3>. QED
      BY <3>1, <3>2, <3>4, <3>5
  <2>2. task'[t].pc # "editWrite" /\ \A u \in Tasks \ {t} : task'[u] = task[u]
    BY <2>1, BecomeIs
  <2>3. task[t].pc # "idle" /\ text' = text
    BY <1>5 DEF DispatchEmbedding, FindWorkflow, ResetWorkflow, At, product
  <2>. QED
    BY <1>1, <2>2, <2>3
<1>6. ASSUME NEW t \in Tasks, EditWrite(t) \/ SaveWrite(t) PROVE Named'
  <2>1. PICK r : Become(t, r) /\ r.pc # "editWrite"
    <3>1. PICK e : e = [Idle EXCEPT !.pc = "find", !.op = "edit"]
      OBVIOUS
    <3>2. e.pc = "find" /\ Idle.pc = "idle"
      BY <3>1 DEF Idle
    <3>. QED
      BY <1>6, <3>1, <3>2 DEF EditWrite, SaveWrite, Return
  <2>2. task'[t].pc # "editWrite" /\ \A u \in Tasks \ {t} : task'[u] = task[u]
    BY <2>1, BecomeIs
  <2>3. task[t].pc # "idle" /\ text' # NoText
    BY <1>6, ConstantsAssumption DEF EditWrite, SaveWrite, At, Named
  <2>. QED
    BY <2>2, <2>3 DEF Named
<1>7. ASSUME NEW t \in Tasks, InsertWorkflow(t) PROVE Named'
  <2>1. text' = text /\ task[t].pc = "insertWorkflow"
    BY <1>7 DEF InsertWorkflow, At, product
  <2>2. CASE Goto(t, "insertStages")
    BY <1>1, <2>1, <2>2, GotoKeeps
  <2>3. CASE Become(t, Idle)
    <3>1. task'[t].pc = "idle" /\ \A u \in Tasks \ {t} : task'[u] = task[u]
      BY <2>3, BecomeIs DEF Idle
    <3>. QED
      BY <1>1, <2>1, <3>1
  <2>4. CASE LoseTasks /\ status # "none"
    <3>1. status' = status
      BY <1>7, <2>4 DEF InsertWorkflow, workflow
    <3>. QED
      BY <1>3, <2>1, <2>4, <3>1
  <2>. QED
    BY <1>7, <2>2, <2>3, <2>4 DEF InsertWorkflow, Reject, Return
<1>8. ASSUME NEW t \in Tasks, DatabaseError(t) PROVE Named'
  <2>1. text' = text /\ status' = status /\ task[t].pc # "idle"
    BY <1>8 DEF DatabaseError, product, workflow, LaunchPc, AttemptPc, RunPc, StagePc, LastPc
  <2>2. CASE LoseTasks
    BY <1>3, <2>1, <2>2
  <2>3. CASE Become(t, Idle)
    <3>1. task'[t].pc = "idle" /\ \A u \in Tasks \ {t} : task'[u] = task[u]
      BY <2>3, BecomeIs DEF Idle
    <3>. QED
      BY <1>1, <2>1, <3>1
  <2>4. CASE AttemptFails(t)
    <3>1. PICK l \in {"markRetrying", "failStage"} : Goto(t, l)
      BY <2>4 DEF AttemptFails
    <3>. QED
      BY <1>1, <2>1, <3>1, GotoKeeps
  <2>. QED
    BY <1>8, <2>2, <2>3, <2>4 DEF DatabaseError, Reject, Return
<1>9. CASE Kill
  BY <1>9 DEF Kill, LoseTasks, product, workflow, Named, Idle
<1>10. CASE UNCHANGED vars
  BY <1>10 DEF vars, Named
<1>. QED
  BY <1>2, <1>4, <1>5, <1>6, <1>7, <1>8, <1>9, <1>10 DEF Next, Handler

-----------------------------------------------------------------------------
LEMMA TheStory == Spec => [](TInv /\ Named /\ Story)
<1>. QED
  BY InitTInv, InitStory, TypeInvariant, Beliefs, StepNamed, StepStory, PTL DEF Spec

(* When nothing is going on nobody drives and no edit is under way. *)
LEMMA QuietMeansNone ==
  ASSUME Quiet, NEW t \in Tasks
  PROVE  ~Drives(t) /\ ~Editor(t)
BY DEF Quiet, Live, At, Drives, Editor, Busy, RunPc, StagePc, LastPc

(* Crashes and failed statements included, as long as no two activities     *)
(* overlapped: a completed workflow has every stage completed and the       *)
(* buyers of the code in the row synced, or it lost its stage rows to a     *)
(* fault; without a fault it speaks for the present text (run(), lines      *)
(* 196-291).                                                                *)
THEOREM CompletedIsDone == Spec => []CompletedMeansDone
<1>1. Story => CompletedMeansDone
  <2>. SUFFICES ASSUME Story, ~overlapped, Quiet, status = "completed" PROVE CompletedMeansDone
    BY DEF CompletedMeansDone
  <2>1. Settled /\ \A t \in Tasks : ~Editor(t)
    BY QuietMeansNone DEF Story
  <2>. QED
    BY <2>1, ConstantsAssumption DEF CompletedMeansDone, Settled, Reached, Synced, Fits, Bare, Stage
<1>. QED
  BY <1>1, TheStory, PTL

(* Under the same condition a failed one names the stage to resume at, with *)
(* all the stages before it completed and all those after it untouched      *)
(* (run(), lines 258-291).                                                  *)
THEOREM FailedIsResumable == Spec => []FailedMeansResumable
<1>1. Story => FailedMeansResumable
  <2>. SUFFICES ASSUME Story, ~overlapped, Quiet, status = "failed"
                PROVE  /\ currentStage \in Stage
                       /\ \A i \in Stage : stages[i] = CASE i < currentStage -> "completed"
                                                         [] i = currentStage -> "failed"
                                                         [] OTHER            -> "queued"
                       /\ faults = 0 => newest = "WorkflowFailed"
    BY DEF FailedMeansResumable
  <2>1. Settled
    BY QuietMeansNone DEF Story
  <2>. QED
    BY <2>1, ConstantsAssumption DEF Settled, Reached, Stage
<1>. QED
  BY <1>1, TheStory, PTL

-----------------------------------------------------------------------------
(* The refinement. *)

Sought == \E t \in Tasks : Committed(t)

LEMMA VerdictIs ==
  /\ Sought \/ status \in {"queued", "running"} => Verdict = "pending"
  /\ ~Sought /\ status = "completed" => Verdict = "done"
  /\ ~Sought /\ status \in {"none", "failed"} => Verdict = status
BY DEF Verdict, Sought

LEMMA VerdictWillBe ==
  /\ (Sought \/ status \in {"queued", "running"})' => Verdict' = "pending"
  /\ (~Sought /\ status = "completed")' => Verdict' = "done"
  /\ (~Sought /\ status \in {"none", "failed"})' => Verdict' = status'
BY DEF Verdict, Sought

(* A step after which the verdict is pending is a start, or nothing: an edit *)
(* may give the product the text it has.                                     *)
LEMMA BecomesPending ==
  ASSUME text \in Texts, UNCHANGED product, Verdict' = "pending"
  PROVE  [Promise!Next]_(Promise!vars)
BY ConstantsAssumption DEF Promise!Next, Promise!Edit, Promise!vars, product

(* Who asks for a workflow, or is about to write its row, is known from one *)
(* task to the next.                                                        *)
LEMMA SoughtSame ==
  ASSUME NEW t \in Tasks, \A u \in Tasks \ {t} : task'[u] = task[u], ~Committed(t), ~Committed(t)'
  PROVE  Sought' <=> Sought
BY DEF Sought, Committed

(* A completed workflow that no edit is about to reset has a classification *)
(* of the present text.                                                     *)
LEMMA DoneIsEarned ==
  ASSUME Story, Undisturbed, status = "completed", \A t \in Tasks : ~Editor(t)
  PROVE  classified.of = text
<1>1. CASE \A t \in Tasks : ~Drives(t)
  BY <1>1 DEF Story, Settled, Fits, Undisturbed
<1>2. ASSUME NEW t \in Tasks, Drives(t) PROVE classified.of = text
  <2>1. OnCourse(task[t])
    BY <1>2 DEF Story, Undisturbed
  <2>2. task[t].pc = "emitFinished"
    BY <1>2, <2>1 DEF OnCourse, Drives, Busy, RunPc, StagePc, LastPc
  <2>. QED
    BY <2>1, <2>2, ConstantsAssumption DEF OnCourse, Over, Bare, Undisturbed, Yield, ByRun, Fits
<1>. QED
  BY <1>1, <1>2

LEMMA DriveRefines ==
  ASSUME TInv, Named, Story, Undisturbed', NEW t \in Tasks,
         InsertStages(t) \/ ResetStages(t) \/ EmitStart(t) \/ Run(t)
  PROVE  [Promise!Next]_(Promise!vars)
<1>1. /\ Drives(t) /\ UNCHANGED <<text, overlapped, faults>>
      /\ \A u \in Tasks \ {t} : task'[u] = task[u]
      /\ task'[t].pc \in Busy \union {"idle"}
  BY DriveBecomes
<1>2. OnCourse(task[t])
  BY <1>1 DEF Undisturbed, Story
<1>3. Sought' <=> Sought
  <2>1. ~Committed(t) /\ ~Committed(t)'
    BY <1>1 DEF Committed, Drives, Busy, RunPc, StagePc, LastPc
  <2>. QED
    BY <1>1, <2>1, SoughtSame
<1>4. text \in Texts
  BY <1>1 DEF Named, Drives, Busy, RunPc, StagePc, LastPc, TInv, TypeOK, TablesOK, Text
<1>5. CASE EmitLast(t)
  <2>1. UNCHANGED <<hs, classified, status>>
    BY <1>5 DEF EmitLast, product, workflow
  <2>2. Verdict' = Verdict
    BY <1>3, <2>1, VerdictIs, VerdictWillBe DEF TInv, TypeOK, TablesOK, WorkflowStatus
  <2>. QED
    BY <1>1, <2>1, <2>2 DEF Promise!vars
<1>6. CASE FailWorkflow(t)
  <2>1. status' = "failed" /\ UNCHANGED product /\ status = "running"
    BY <1>2, <1>6 DEF FailWorkflow, At, OnCourse
  <2>2. CASE Sought
    BY <1>1, <1>3, <1>4, <2>1, <2>2, VerdictWillBe, BecomesPending
  <2>3. CASE ~Sought
    <3>1. Verdict = "pending" /\ Verdict' = "failed"
      BY <1>3, <2>1, <2>3, VerdictIs, VerdictWillBe
    <3>. QED
      BY <1>1, <2>1, <3>1 DEF Promise!Next, Promise!Fail, product
  <2>. QED
    BY <2>2, <2>3
<1>7. CASE Finish(t)
  <2>1. status' = "completed" /\ UNCHANGED product /\ status = "running" /\ classified.of = text
    BY <1>1, <1>2, <1>7, ConstantsAssumption
      DEF Finish, At, OnCourse, Over, Bare, Undisturbed, Yield, ByRun, Fits
  <2>2. CASE Sought
    BY <1>1, <1>3, <1>4, <2>1, <2>2, VerdictWillBe, BecomesPending
  <2>3. CASE ~Sought
    <3>1. Verdict = "pending" /\ Verdict' = "done"
      BY <1>3, <2>1, <2>3, VerdictIs, VerdictWillBe
    <3>. QED
      BY <1>1, <2>1, <3>1 DEF Promise!Next, Promise!Done, product
  <2>. QED
    BY <2>2, <2>3
<1>8. CASE PersistClassification(t)
  <2>1. hs' \in {hs, text} /\ classified'.of = text /\ status' = status /\ status = "running"
    BY <1>2, <1>8 DEF PersistClassification, At, workflow, OnCourse, StagePc
  <2>2. Verdict = "pending" /\ Verdict' = "pending"
    BY <2>1, VerdictIs, VerdictWillBe
  <2>. QED
    BY <1>1, <1>4, <2>1, <2>2, ConstantsAssumption DEF Promise!Next, Promise!Classify
<1>9. CASE ~EmitLast(t) /\ ~FailWorkflow(t) /\ ~Finish(t) /\ ~PersistClassification(t)
  <2>1. UNCHANGED product /\ (status' = status \/ status' = "running") /\ task[t].pc \notin LastPc
    BY <1>9 DEF Run, InsertStages, ResetStages, EmitStart, Begin, ReadProduct, ReadStages, MarkRunning,
                MarkCurrent, Classify, SyncRead, SyncPost, CompleteStage, EmitCompleted, MarkRetrying,
                FailStage, At, LastPc, workflow, product
  <2>2. status \in {"queued", "running"}
    BY <1>1, <1>2, <2>1 DEF OnCourse, Drives, Busy, RunPc, StagePc, LastPc
  <2>. QED
    BY <1>1, <1>4, <2>1, <2>2, VerdictWillBe, BecomesPending
<1>. QED
  BY <1>5, <1>6, <1>7, <1>8, <1>9

LEMMA FindRefines ==
  ASSUME TInv, Named, Story, Undisturbed', NEW t \in Tasks,
         DispatchEmbedding(t) \/ FindWorkflow(t)
  PROVE  [Promise!Next]_(Promise!vars)
<1>1. UNCHANGED product /\ status' = status /\ Undisturbed /\ task[t].pc \in {"dispatch", "find"}
  BY DEF DispatchEmbedding, FindWorkflow, At, workflow, history, Undisturbed
<1>2. text \in Texts
  BY <1>1 DEF Named, TInv, TypeOK, TablesOK, Text
<1>3. CASE Sought'
  BY <1>1, <1>2, <1>3, VerdictWillBe, BecomesPending
<1>4. CASE ~Sought' /\ ~Sought
  <2>1. Verdict' = Verdict
    BY <1>1, <1>4, VerdictIs, VerdictWillBe DEF TInv, TypeOK, TablesOK, WorkflowStatus
  <2>. QED
    BY <1>1, <2>1 DEF Promise!vars, product
<1>5. CASE ~Sought' /\ Sought
  <2>1. PICK u \in Tasks : Committed(u)
    BY <1>5 DEF Sought
  <2>2. PICK r : Become(t, r)
    BY DEF DispatchEmbedding, FindWorkflow, Goto, Return
  <2>3. task'[t] = r /\ \A v \in Tasks \ {t} : task'[v] = task[v]
    BY <2>2, BecomeIs
  <2>4. u = t /\ \A v \in Tasks \ {t} : ~Editor(v)
    BY <1>5, <2>1, <2>3 DEF Sought, Committed, Editor
  <2>5. FindWorkflow(t) /\ task[t].pc = "find"
    BY <1>1, <2>1, <2>4 DEF Committed, DispatchEmbedding, At
  <2>6. ~Committed(t)'
    BY <1>5 DEF Sought
  <2>7. status \notin {"none", "failed"} /\ task[t].op # "edit"
    <3>1. task[t] \in Task
      BY DEF TInv, TypeOK, TasksOK
    <3>2. PICK r1, r2, r3 : /\ r1 = [task[t] EXCEPT !.op = "create"]
                            /\ r2 = [task[t] EXCEPT !.pc = "insertWorkflow"]
                            /\ r3 = [task[t] EXCEPT !.pc = "resetWorkflow", !.ver = version]
      OBVIOUS
    <3>3. /\ r1.pc = "find" /\ r1.op = "create" /\ r2.pc = "insertWorkflow" /\ r3.pc = "resetWorkflow"
      BY <2>5, <3>1, <3>2 DEF Task
    <3>4. \/ task'[t] = r1 \/ task'[t] = r2 \/ task'[t] = r3
          \/ status \notin {"none", "failed"} /\ task[t].op # "edit"
      BY <2>5, <3>2, BecomeIs DEF FindWorkflow, Goto
    <3>. QED
      BY <2>6, <3>3, <3>4 DEF Committed
  <2>8. ~Editor(t)
    BY <2>7 DEF Editor
  <2>9. CASE status = "completed"
    <3>1. classified.of = text
      BY <1>1, <2>4, <2>8, <2>9, DoneIsEarned
    <3>2. Verdict = "pending" /\ Verdict' = "done"
      BY <1>1, <1>5, <2>9, VerdictIs, VerdictWillBe
    <3>. QED
      BY <1>1, <3>1, <3>2 DEF Promise!Next, Promise!Done, product
  <2>10. CASE status # "completed"
    <3>1. status' \in {"queued", "running"}
      BY <1>1, <2>7, <2>10 DEF TInv, TypeOK, TablesOK, WorkflowStatus
    <3>. QED
      BY <1>1, <1>2, <3>1, VerdictWillBe, BecomesPending
  <2>. QED
    BY <2>9, <2>10
<1>. QED
  BY <1>3, <1>4, <1>5

LEMMA LaunchRefines ==
  ASSUME TInv, Named, ReadsHold, Undisturbed', NEW t \in Tasks,
         InsertWorkflow(t) \/ ResetWorkflow(t)
  PROVE  [Promise!Next]_(Promise!vars)
<1>1. status' = "queued" /\ UNCHANGED product /\ task[t].pc # "idle"
  BY DEF InsertWorkflow, ResetWorkflow, ReadsHold, At, NoteOverlap, Undisturbed, workflow
<1>2. text \in Texts
  BY <1>1 DEF Named, TInv, TypeOK, TablesOK, Text
<1>. QED
  BY <1>1, <1>2, VerdictWillBe, BecomesPending

LEMMA WriteRefines ==
  ASSUME TInv, Named, Story, Undisturbed', NEW t \in Tasks, EditWrite(t) \/ SaveWrite(t)
  PROVE  [Promise!Next]_(Promise!vars)
<1>1. /\ Undisturbed /\ status' = status /\ task[t].pc \in {"editWrite", "saveWrite"}
  BY DEF EditWrite, SaveWrite, At, NoteOverlap, Undisturbed, workflow
<1>2. text # NoText /\ Fresh(task[t]) /\ task[t] \in Task
  BY <1>1 DEF Named, Story, Undisturbed, TInv, TypeOK, TasksOK
<1>3. CASE EditWrite(t) /\ task[t].op = "edit"
  <2>1. text' \in Texts /\ UNCHANGED <<hs, classified>> /\ Become(t, [Idle EXCEPT !.pc = "find", !.op = "edit"])
    BY <1>3 DEF EditWrite, At, Named
  <2>2. task'[t].pc = "find" /\ task'[t].op = "edit"
    BY <2>1 DEF Become, Idle, TInv, TypeOK, TasksOK
  <2>3. Verdict' = "pending"
    BY <2>2, VerdictWillBe DEF Sought, Committed
  <2>. QED
    BY <1>2, <2>1, <2>3 DEF Promise!Next, Promise!Edit
<1>4. CASE (EditWrite(t) /\ task[t].op # "edit") \/ SaveWrite(t)
  <2>1. /\ Become(t, Idle) /\ text' = text
        /\ UNCHANGED <<hs, classified>> \/ (hs' \in Texts \union {hs} /\ classified'.of = text)
    BY <1>1, <1>2, <1>4 DEF EditWrite, SaveWrite, At, Return, Fresh, Task, Text
  <2>2. task'[t].pc = "idle" /\ \A u \in Tasks \ {t} : task'[u] = task[u]
    BY <2>1, BecomeIs DEF Idle
  <2>3. ~Committed(t) /\ ~Committed(t)'
    BY <1>1, <2>2 DEF Committed
  <2>4. Sought' <=> Sought
    BY <2>2, <2>3, SoughtSame
  <2>5. Verdict' = Verdict
    BY <1>1, <2>4, VerdictIs, VerdictWillBe DEF TInv, TypeOK, TablesOK, WorkflowStatus
  <2>. QED
    BY <1>2, <2>1, <2>5 DEF Promise!Next, Promise!Save, Promise!vars
<1>. QED
  BY <1>3, <1>4

LEMMA RequestRefines ==
  ASSUME TInv, Named, NEW t \in Tasks, Request(t)
  PROVE  [Promise!Next]_(Promise!vars)
<1>1. UNCHANGED <<hs, classified>> /\ status' = status /\ task[t].pc = "idle"
  BY DEF Request, CreateProduct, RequestStart, RequestEdit, RequestSave, Arrive, At, product, workflow
<1>2. /\ \A u \in Tasks \ {t} : task'[u] = task[u]
      /\ \/ task'[t].pc \in {"dispatch", "editWrite", "saveWrite"}
         \/ (task'[t].pc = "find" /\ task'[t].op = "start")
  <2>1. CASE CreateProduct(t)
    BY <2>1 DEF CreateProduct, Become, Idle, TInv, TypeOK, TasksOK
  <2>2. CASE RequestStart(t)
    BY <2>2 DEF RequestStart, Become, Idle, TInv, TypeOK, TasksOK
  <2>3. CASE RequestEdit(t)
    <3>1. PICK x \in Texts :
            Become(t, [Idle EXCEPT !.pc = "editWrite", !.seen = x, !.op = IF x = text THEN "touch" ELSE "edit"])
      BY <2>3 DEF RequestEdit
    <3>. QED
      BY <3>1 DEF Become, Idle, TInv, TypeOK, TasksOK
  <2>4. CASE RequestSave(t)
    <3>1. PICK x \in Text : Become(t, [Idle EXCEPT !.pc = "saveWrite", !.op = "save", !.code = x])
      BY <2>4 DEF RequestSave
    <3>. QED
      BY <3>1 DEF Become, Idle, TInv, TypeOK, TasksOK
  <2>. QED
    BY <2>1, <2>2, <2>3, <2>4 DEF Request
<1>3. ~Committed(t) /\ ~Committed(t)'
  BY <1>1, <1>2 DEF Committed
<1>4. Sought' <=> Sought
  BY <1>2, <1>3, SoughtSame
<1>5. Verdict' = Verdict
  BY <1>1, <1>4, VerdictIs, VerdictWillBe DEF TInv, TypeOK, TablesOK, WorkflowStatus
<1>6. text' = text \/ (text = NoText /\ text' \in Texts)
  BY DEF Request, CreateProduct, RequestStart, RequestEdit, RequestSave, product
<1>. QED
  BY <1>1, <1>5, <1>6 DEF Promise!Next, Promise!Create, Promise!vars

LEMMA StepRefines ==
  ASSUME TInv, Named, Known, ReadsHold, Story, [Next]_vars, Undisturbed'
  PROVE  [Promise!Next]_(Promise!vars)
<1>1. ASSUME NEW t \in Tasks, DatabaseError(t) PROVE FALSE
  BY <1>1 DEF DatabaseError, Undisturbed, TInv, TypeOK, HistoryOK
<1>2. ~Kill
  BY DEF Kill, Undisturbed, TInv, TypeOK, HistoryOK
<1>3. CASE UNCHANGED vars
  <2>1. Sought' <=> Sought
    BY <1>3 DEF vars, Sought, Committed
  <2>2. Verdict' = Verdict
    BY <1>3, <2>1, VerdictIs, VerdictWillBe DEF vars, TInv, TypeOK, TablesOK, WorkflowStatus
  <2>. QED
    BY <1>3, <2>2 DEF vars, Promise!vars
<1>. QED
  BY <1>1, <1>2, <1>3, DriveRefines, FindRefines, LaunchRefines, WriteRefines, RequestRefines
    DEF Next, Handler

LEMMA InitRefines == Init => Promise!Init
<1>1. Init => ~Sought
  BY DEF Init, Sought, Committed, Idle
<1>. QED
  BY <1>1, VerdictIs DEF Init, Promise!Init

(* As long as no two activities overlapped and nothing failed, every step   *)
(* of the handlers and of the run is a step of what a client may rely on,   *)
(* or none: a verdict of "done" is only given when the text the product has *)
(* was classified, and an edit takes it back (workflow.service.ts 101-291   *)
(* against the docstrings of startForProduct and rerunForProduct).          *)
THEOREM PromiseKept == Spec => Promise!Init /\ [][Undisturbed' => [Promise!Next]_(Promise!vars)]_vars
<1>1. TInv /\ Named /\ Known /\ ReadsHold /\ Story /\ [Next]_vars
        => [Undisturbed' => [Promise!Next]_(Promise!vars)]_vars
  BY StepRefines
<1>. QED
  BY <1>1, InitRefines, TheStory, Beliefs, PTL DEF Spec

(* Where one activity runs at a time and nothing fails, that is the safety  *)
(* of the promise without a condition.                                      *)
THEOREM SerialPromise ==
  ASSUME \A t, u \in Tasks : t = u, MaxFaults = 0
  PROVE  Spec => Promise!Init /\ [][Promise!Next]_(Promise!vars)
<1>1. Init => Undisturbed
  BY DEF Init, Undisturbed
<1>2. TInv /\ Undisturbed /\ [Next]_vars => Undisturbed'
  <2>. SUFFICES ASSUME TInv, Undisturbed, [Next]_vars PROVE Undisturbed'
    OBVIOUS
  <2>1. faults' = 0
    BY StepHistoryOK DEF HistoryOK
  <2>2. ASSUME NEW t \in Tasks, NoteOverlap(t) PROVE ~overlapped'
    BY <2>2 DEF NoteOverlap, Undisturbed
  <2>3. ASSUME NEW t \in Tasks, Request(t) PROVE ~overlapped'
    BY <2>3 DEF Request, CreateProduct, RequestStart, RequestEdit, RequestSave, Arrive, Undisturbed
  <2>4. ASSUME NEW t \in Tasks, EditWrite(t) \/ SaveWrite(t) \/ ResetWorkflow(t) PROVE ~overlapped'
    BY <2>2, <2>4 DEF EditWrite, SaveWrite, ResetWorkflow
  <2>5. ASSUME NEW t \in Tasks, InsertWorkflow(t) PROVE ~overlapped'
    BY <2>2, <2>5 DEF InsertWorkflow, Undisturbed
  <2>6. ASSUME NEW t \in Tasks, DispatchEmbedding(t) \/ FindWorkflow(t) PROVE ~overlapped'
    BY <2>6 DEF DispatchEmbedding, FindWorkflow, history, Undisturbed
  <2>7. ASSUME NEW t \in Tasks, InsertStages(t) \/ ResetStages(t) \/ EmitStart(t) \/ Run(t)
        PROVE  ~overlapped'
    BY <2>7, DriveBecomes DEF Undisturbed
  <2>8. ASSUME NEW t \in Tasks, DatabaseError(t) PROVE ~overlapped'
    BY <2>8 DEF DatabaseError, Undisturbed
  <2>9. Kill \/ UNCHANGED vars => ~overlapped'
    BY DEF Kill, vars, history, Undisturbed
  <2>. QED
    BY <2>1, <2>3, <2>4, <2>5, <2>6, <2>7, <2>8, <2>9 DEF Next, Handler, Undisturbed
<1>3. TInv /\ Named /\ Known /\ ReadsHold /\ Story /\ [Next]_vars /\ Undisturbed' => [Promise!Next]_(Promise!vars)
  BY StepRefines
<1>. QED
  BY <1>1, <1>2, <1>3, InitRefines, TheStory, Beliefs, PTL DEF Spec
=============================================================================
