------------------------ MODULE ProductWorkflowPromise ------------------------
(* The workflow as the user-service runs it implements what it promises:    *)
(* the refinement mapping from ProductWorkflow to ProductInitialization.    *)
EXTENDS ProductWorkflow

(* What a client may rely on: an initialization is pending while the rows   *)
(* say queued or running, and from the moment a handler is committed to     *)
(* starting or repeating it.                                                *)
Committed(t) == \/ task[t].pc \in {"insertWorkflow", "resetWorkflow"}
                \/ task[t].pc = "find" /\ task[t].op \in {"create", "edit"}

Verdict ==
  IF (\E t \in Tasks : Committed(t)) \/ status \in {"queued", "running"}
  THEN "pending"
  ELSE IF status = "completed" THEN "done" ELSE status

Promise == INSTANCE ProductInitialization WITH
             classified <- classified.of, verdict <- Verdict

(* No two activities overlapped and nothing failed so far. *)
Undisturbed == ~overlapped /\ faults = 0

(* With one activity at a time and no fault, the handlers and the run       *)
(* implement the promise, its liveness included (workflow.service.ts        *)
(* 101-291 against the docstrings of startForProduct and rerunForProduct).  *)
KeepsPromise == Promise!Spec
=============================================================================
