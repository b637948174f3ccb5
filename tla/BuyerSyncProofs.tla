---------------------------- MODULE BuyerSyncProofs ----------------------------
(***************************************************************************)
(* Theorems about the synchronisation of buyers, for any number of         *)
(* workers, queries, importers, pages, triggers and faults.                *)
(***************************************************************************)
EXTENDS BuyerSync, FiniteSetTheorems, SequenceTheorems, TLAPS

(* A run that read everything its query yields, and has not been given up.  *)
Sound(u) ==
  /\ u.lastPage = LastPage(u.query)
  /\ u.status \in {"running", "completed"}

(* No aggregate is in two places, and none has gone missing.                *)
Counted(u, t) ==
  /\ t.todo \intersect t.done = {}
  /\ t.buyer \notin t.todo \union t.done
  /\ Cardinality(t.todo) + Cardinality(t.done) + t.skipped + (IF t.pc = "write" THEN 1 ELSE 0)
       = Cardinality(Aggregates(u.query, u.lastPage))

(* How the row of a run and its task go together.                           *)
RunOK(u, t) ==
  /\ u.lastPage <= LastPage(u.query)
  /\ t.pc = "fetch" => /\ u.status = "running"
                       /\ u.lastPage < LastPage(u.query)
                       /\ t.done = {} /\ t.skipped = 0
  /\ t.pc \in {"select", "write", "commit", "finish"} => u.status = "running" /\ Sound(u) /\ Counted(u, t)
  /\ t.pc = "finish" => t.todo = {}
  /\ t.pc = "write" <=> t.buyer # Nobody
  /\ t.mine # {} => t.pc \in {"select", "write", "commit"}
  /\ u.status = "completed" => /\ Sound(u)
                               /\ u.upserted + u.skipped = Cardinality(Aggregates(u.query, u.lastPage))

RunsOK == \A r \in DOMAIN runs : RunOK(runs[r], task[r])

(* The inductive invariant. *)
Inv == TypeOK /\ RunsOK /\ OnlyFullAggregates

-----------------------------------------------------------------------------
(* The cap leaves at least one page, and no more than there are. *)
LEMMA Pages ==
  ASSUME NEW q \in Queries
  PROVE  /\ LastPage(q) \in Nat \ {0}
         /\ LastPage(q) <= Len(Offer[q])
<1>1. Offer[q] \in Seq(SUBSET Importers) /\ Offer[q] # <<>>
  BY BuyerSyncAssumption
<1>2. Len(Offer[q]) \in Nat \ {0}
  BY <1>1, EmptySeq, LenProperties
<1>. QED
  BY <1>2, BuyerSyncAssumption DEF LastPage

LEMMA AggregatesType ==
  ASSUME NEW q \in Queries, NEW n \in Nat, n <= LastPage(q)
  PROVE  /\ Aggregates(q, n) \subseteq Importers
         /\ IsFiniteSet(Aggregates(q, n))
         /\ Cardinality(Aggregates(q, n)) \in Nat
<1>1. Offer[q] \in Seq(SUBSET Importers)
  BY BuyerSyncAssumption
<1>2. n <= Len(Offer[q])
  BY Pages, <1>1, LenProperties
<1>3. \A p \in 1 .. n : Offer[q][p] \subseteq Importers
  BY <1>1, <1>2, ElementOfSeq
<1>4. Aggregates(q, n) \subseteq Importers
  BY <1>3 DEF Aggregates
<1>. QED
  BY <1>4, BuyerSyncAssumption, FS_Subset, FS_CardinalityType

(* A step of one run leaves the others alone. *)
LEMMA OneRun ==
  ASSUME TypeOK, NEW r \in DOMAIN task, NEW t \in Task, NEW u \in Run,
         Becomes(r, t), Records(r, u)
  PROVE  /\ task' \in Seq(Task) /\ runs' \in Seq(Run)
         /\ Len(task') = Len(runs') /\ Len(runs') = Len(runs)
         /\ DOMAIN runs' = DOMAIN runs /\ DOMAIN task' = DOMAIN runs
         /\ task'[r] = t /\ runs'[r] = u
         /\ \A s \in DOMAIN runs : s # r => task'[s] = task[s] /\ runs'[s] = runs[s]
<1>1. /\ task \in Seq(Task) /\ runs \in Seq(Run) /\ Len(task) = Len(runs)
      /\ DOMAIN task = 1 .. Len(task) /\ DOMAIN runs = 1 .. Len(runs)
  BY LenProperties DEF TypeOK
<1>2. task' = [task EXCEPT ![r] = t] /\ runs' = [runs EXCEPT ![r] = u]
  BY DEF Becomes, Records
<1>3. /\ task' \in Seq(Task) /\ Len(task') = Len(task)
      /\ runs' \in Seq(Run) /\ Len(runs') = Len(runs)
  BY <1>1, <1>2, ExceptSeq
<1>4. DOMAIN runs' = DOMAIN runs /\ DOMAIN task' = DOMAIN task
  BY <1>2
<1>. QED
  BY <1>1, <1>2, <1>3, <1>4

(* What a step of one run has to keep, for the rest of the invariant to hold. *)
LEMMA StepOfRun ==
  ASSUME Inv, NEW r \in DOMAIN task, NEW t \in Task, NEW u \in Run,
         Becomes(r, t), Records(r, u),
         RunOK(u, t),
         Sound(runs[r]) => Sound(u),
         rows' \in [Importers -> 0 .. Len(runs)],
         \A i \in Importers : rows'[i] = rows[i] \/ (rows'[i] = r /\ Sound(u)),
         queue' \in [Queries -> Nat],
         embedQueue' \in [Importers -> [0 .. MAX_RETRIES -> Nat]],
         UNCHANGED <<embedder, embedding, triggers>>,
         faults' \in 0 .. MaxFaults,
         lost' \subseteq Importers, unserved' \subseteq Importers
  PROVE  Inv'
<1>1. /\ DOMAIN runs' = DOMAIN runs
      /\ task'[r] = t /\ runs'[r] = u
      /\ \A s \in DOMAIN runs : s # r => task'[s] = task[s] /\ runs'[s] = runs[s]
  BY OneRun DEF Inv
<1>2. RunsOK'
  BY <1>1 DEF Inv, RunsOK
<1>3. OnlyFullAggregates'
  <2>. SUFFICES ASSUME NEW i \in Importers, rows'[i] # 0
                PROVE  Sound(runs'[rows'[i]])
    BY DEF OnlyFullAggregates, Sound
  <2>1. CASE rows'[i] = r /\ Sound(u)
    BY <2>1, <1>1
  <2>2. CASE rows'[i] = rows[i]
    <3>1. rows[i] \in DOMAIN runs
      BY <2>2, LenProperties DEF Inv, TypeOK
    <3>2. Sound(runs[rows[i]])
      BY <2>2 DEF Inv, OnlyFullAggregates, Sound
    <3>. QED
      BY <1>1, <2>2, <3>1, <3>2
  <2>. QED
    BY <2>1, <2>2
<1>4. TypeOK'
  BY OneRun DEF Inv, TypeOK
<1>. QED
  BY <1>2, <1>3, <1>4 DEF Inv

(* A step that does not touch the row of the run. *)
LEMMA SameRun ==
  ASSUME TypeOK, NEW r \in DOMAIN task, runs' = runs
  PROVE  Records(r, runs[r])
BY DEF Records, TypeOK

LEMMA RunFacts ==
  ASSUME Inv, NEW r \in DOMAIN task
  PROVE  /\ r \in DOMAIN runs /\ r \in 1 .. Len(runs)
         /\ task[r] \in Task /\ runs[r] \in Run
         /\ RunOK(runs[r], task[r])
         /\ IsFiniteSet(task[r].todo) /\ Cardinality(task[r].todo) \in Nat
         /\ IsFiniteSet(task[r].done) /\ Cardinality(task[r].done) \in Nat
<1>1. /\ task \in Seq(Task) /\ runs \in Seq(Run) /\ Len(task) = Len(runs)
      /\ DOMAIN task = 1 .. Len(task) /\ DOMAIN runs = 1 .. Len(runs)
  BY LenProperties DEF Inv, TypeOK
<1>2. r \in DOMAIN runs /\ r \in 1 .. Len(runs)
  BY <1>1
<1>3. task[r] \in Task /\ runs[r] \in Run
  BY <1>1, <1>2, ElementOfSeq
<1>4. RunOK(runs[r], task[r])
  BY <1>2 DEF Inv, RunsOK
<1>5. task[r].todo \subseteq Importers /\ task[r].done \subseteq Importers
  BY <1>3 DEF Task
<1>. QED
  BY <1>2, <1>3, <1>4, <1>5, BuyerSyncAssumption, FS_Subset, FS_CardinalityType

(* The step ends the task: every handler that stops a run. *)
LEMMA EndedOK ==
  ASSUME NEW u, u.lastPage <= LastPage(u.query),
         u.status = "completed" =>
           /\ Sound(u)
           /\ u.upserted + u.skipped = Cardinality(Aggregates(u.query, u.lastPage))
  PROVE  Ended \in Task /\ RunOK(u, Ended)
BY DEF Ended, Began, Task, RunOK, Nobody

-----------------------------------------------------------------------------
(* The steps of a run. *)

LEMMA FetchPageInv == ASSUME Inv, NEW r, FetchPage(r) PROVE Inv'
<1>. DEFINE q == runs[r].query
            p == runs[r].lastPage + 1
            u == [runs[r] EXCEPT !.lastPage = p]
            t == IF p < LastPage(q) THEN task[r]
                 ELSE [task[r] EXCEPT !.pc = "select", !.todo = Aggregates(q, p)]
<1>1. r \in DOMAIN task /\ task[r].pc = "fetch" /\ Becomes(r, t) /\ Records(r, u)
  BY DEF FetchPage, At
<1>2. /\ task[r] \in Task /\ runs[r] \in Run
      /\ RunOK(runs[r], task[r])
  BY <1>1, RunFacts
<1>3. /\ q \in Queries /\ runs[r].lastPage \in Nat /\ LastPage(q) \in Nat
      /\ runs[r].lastPage < LastPage(q)
      /\ task[r].buyer = Nobody /\ task[r].mine = {} /\ task[r].done = {} /\ task[r].skipped = 0
      /\ runs[r].status = "running"
  BY <1>1, <1>2, Pages DEF Run, RunOK
<1>4. p \in Nat /\ p <= LastPage(q)
  BY <1>3
<1>5. u \in Run
  BY <1>2, <1>4 DEF Run
<1>6. u.lastPage = p /\ u.query = q /\ u.status = "running"
  BY <1>2, <1>3 DEF Run
<1>7. ~Sound(runs[r])
  BY <1>3 DEF Sound
<1>8. t \in Task /\ RunOK(u, t)
  <2>1. CASE p < LastPage(q)
    <3>1. t = task[r]
      BY <2>1
    <3>. QED
      BY <1>1, <1>2, <1>3, <1>6, <2>1, <3>1 DEF RunOK
  <2>2. CASE ~(p < LastPage(q))
    <3>1. p = LastPage(q)
      BY <1>3, <1>4, <2>2
    <3>2. /\ Aggregates(q, p) \subseteq Importers
          /\ Cardinality(Aggregates(q, p)) \in Nat
      BY <1>3, <1>4, AggregatesType
    <3>3. t = [task[r] EXCEPT !.pc = "select", !.todo = Aggregates(q, p)]
      BY <2>2
    <3>4. /\ t \in Task
          /\ t.pc = "select" /\ t.todo = Aggregates(q, p) /\ t.done = {}
          /\ t.buyer = Nobody /\ t.mine = {} /\ t.skipped = 0
      BY <1>2, <1>3, <3>2, <3>3 DEF Task
    <3>5. Sound(u)
      BY <1>6, <3>1 DEF Sound
    <3>6. Nobody \notin Importers
      BY BuyerSyncAssumption DEF Nobody
    <3>. HIDE DEF u, t, p, q
    <3>7. Counted(u, t)
      <4>1. t.todo \intersect t.done = {} /\ t.buyer \notin t.todo \union t.done
        BY <3>2, <3>4, <3>6
      <4>2. Cardinality(t.done) = 0
        BY <3>4, FS_EmptySet
      <4>3. Aggregates(u.query, u.lastPage) = t.todo
        BY <1>6, <3>4
      <4>. QED
        BY <3>2, <3>4, <4>1, <4>2, <4>3 DEF Counted
    <3>. QED
      BY <1>4, <1>6, <3>4, <3>5, <3>7 DEF RunOK
  <2>. QED
    BY <2>1, <2>2
<1>. HIDE DEF u, t, p, q
<1>9. /\ UNCHANGED <<queue, rows, triggers, lost, embedQueue, embedder, embedding, faults, unserved>>
  BY DEF FetchPage, ai
<1>. QED
  BY <1>1, <1>5, <1>7, <1>8, <1>9, StepOfRun DEF Inv, TypeOK

LEMMA FetchFailsInv ==
  ASSUME Inv, NEW r, NEW status \in {"failed", "auth_required"}, FetchFails(r, status)
  PROVE  Inv'
<1>. DEFINE u == [runs[r] EXCEPT !.status = status]
<1>1. r \in DOMAIN task /\ task[r].pc = "fetch" /\ Becomes(r, Ended) /\ Records(r, u)
  BY DEF FetchFails, At
<1>2. runs[r] \in Run /\ RunOK(runs[r], task[r])
  BY <1>1, RunFacts
<1>3. u \in Run /\ u.lastPage = runs[r].lastPage /\ u.query = runs[r].query /\ u.status = status
  BY <1>2 DEF Run, Status
<1>4. ~Sound(runs[r]) /\ u.lastPage <= LastPage(u.query)
  BY <1>1, <1>2, <1>3, Pages DEF RunOK, Sound, Run
<1>. HIDE DEF u
<1>5. Ended \in Task /\ RunOK(u, Ended)
  BY <1>3, <1>4, EndedOK
<1>6. faults' \in 0 .. MaxFaults
  BY BuyerSyncAssumption DEF FetchFails, Inv, TypeOK
<1>7. UNCHANGED <<queue, rows, triggers, lost, embedQueue, embedder, embedding, unserved>>
  BY DEF FetchFails, ai
<1>. QED
  BY <1>1, <1>3, <1>4, <1>5, <1>6, <1>7, StepOfRun DEF Inv, TypeOK

LEMMA SkipInvalidInv == ASSUME Inv, NEW r, SkipInvalid(r) PROVE Inv'
<1>1. PICK i \in task[r].todo \intersect Placeholders :
        Becomes(r, [task[r] EXCEPT !.todo = @ \ {i}, !.skipped = @ + 1])
  BY DEF SkipInvalid
<1>. DEFINE t == [task[r] EXCEPT !.todo = @ \ {i}, !.skipped = @ + 1]
<1>2. r \in DOMAIN task /\ task[r].pc = "select" /\ Becomes(r, t)
  BY <1>1 DEF SkipInvalid, At
<1>3. /\ task[r] \in Task /\ runs[r] \in Run /\ RunOK(runs[r], task[r])
      /\ IsFiniteSet(task[r].todo) /\ Cardinality(task[r].todo) \in Nat
      /\ Cardinality(task[r].done) \in Nat
  BY <1>2, RunFacts
<1>4. Counted(runs[r], task[r]) /\ Sound(runs[r]) /\ runs[r].status = "running"
  BY <1>2, <1>3 DEF RunOK
<1>5. /\ t \in Task /\ t.pc = "select" /\ t.todo = task[r].todo \ {i} /\ t.done = task[r].done
      /\ t.buyer = task[r].buyer /\ t.mine = task[r].mine /\ t.skipped = task[r].skipped + 1
      /\ task[r].skipped \in Nat
  <2>1. task[r].skipped \in Nat /\ task[r].todo \ {i} \subseteq Importers
    BY <1>3 DEF Task
  <2>2. task[r].skipped + 1 \in Nat
    BY <2>1
  <2>3. t \in Task
    BY <1>3, <2>1, <2>2 DEF Task
  <2>. QED
    BY <1>2, <1>3, <2>1, <2>3 DEF Task
<1>. HIDE DEF t
<1>6. Cardinality(t.todo) = Cardinality(task[r].todo) - 1
  BY <1>1, <1>3, <1>5, FS_RemoveElement
<1>7. Counted(runs[r], t)
  BY <1>2, <1>3, <1>4, <1>5, <1>6 DEF Counted
<1>8. RunOK(runs[r], t)
  BY <1>2, <1>3, <1>4, <1>5, <1>7 DEF RunOK
<1>9. UNCHANGED <<queue, runs, rows, triggers, lost, embedQueue, embedder, embedding, faults, unserved>>
  BY DEF SkipInvalid, ai
<1>10. Records(r, runs[r])
  BY <1>2, <1>9, SameRun DEF Inv
<1>. QED
  BY <1>2, <1>3, <1>5, <1>8, <1>9, <1>10, StepOfRun DEF Inv, TypeOK

LEMMA SelectInv == ASSUME Inv, NEW r, Select(r) PROVE Inv'
<1>1. PICK i \in task[r].todo \ Placeholders :
        Becomes(r, [task[r] EXCEPT !.pc = "write", !.todo = @ \ {i}, !.buyer = i, !.found = rows[i] # 0])
  BY DEF Select
<1>. DEFINE found == rows[i] # 0
            t == [task[r] EXCEPT !.pc = "write", !.todo = @ \ {i}, !.buyer = i, !.found = found]
<1>2. r \in DOMAIN task /\ task[r].pc = "select" /\ Becomes(r, t)
  BY <1>1 DEF Select, At
<1>3. /\ task[r] \in Task /\ runs[r] \in Run /\ RunOK(runs[r], task[r])
      /\ IsFiniteSet(task[r].todo) /\ Cardinality(task[r].todo) \in Nat
      /\ Cardinality(task[r].done) \in Nat
  BY <1>2, RunFacts
<1>4. Counted(runs[r], task[r]) /\ Sound(runs[r]) /\ runs[r].status = "running"
  BY <1>2, <1>3 DEF RunOK
<1>5. found \in BOOLEAN /\ i \in Importers /\ i # Nobody
  BY <1>1, <1>3, BuyerSyncAssumption DEF Task, Nobody
<1>. HIDE DEF found
<1>6. /\ t \in Task /\ t.pc = "write" /\ t.todo = task[r].todo \ {i} /\ t.done = task[r].done
      /\ t.buyer = i /\ t.mine = task[r].mine /\ t.skipped = task[r].skipped
      /\ task[r].skipped \in Nat
  BY <1>2, <1>3, <1>5 DEF Task
<1>. HIDE DEF t
<1>7. Cardinality(t.todo) = Cardinality(task[r].todo) - 1
  <2>1. i \in task[r].todo
    BY <1>1
  <2>2. Cardinality(task[r].todo \ {i}) = Cardinality(task[r].todo) - 1
    BY <2>1, <1>3, FS_RemoveElement
  <2>. QED
    BY <2>2, <1>6
<1>8. Counted(runs[r], t)
  BY <1>1, <1>2, <1>3, <1>4, <1>6, <1>7 DEF Counted
<1>9. RunOK(runs[r], t)
  BY <1>2, <1>3, <1>4, <1>5, <1>6, <1>8 DEF RunOK
<1>10. UNCHANGED <<queue, runs, rows, triggers, lost, embedQueue, embedder, embedding, faults, unserved>>
  BY DEF Select, ai
<1>11. Records(r, runs[r])
  BY <1>2, <1>10, SameRun DEF Inv
<1>. QED
  BY <1>2, <1>3, <1>6, <1>9, <1>10, <1>11, StepOfRun DEF Inv, TypeOK

LEMMA WriteInv == ASSUME Inv, NEW r, Write(r) PROVE Inv'
<1>. DEFINE pc == IF Cardinality(task[r].mine) + 1 >= BATCH THEN "commit" ELSE "select"
            i == task[r].buyer
            t == Upserted(r, pc)
<1>1. r \in DOMAIN task /\ task[r].pc = "write" /\ Becomes(r, t)
  BY DEF Write, At
<1>2. /\ task[r] \in Task /\ runs[r] \in Run /\ RunOK(runs[r], task[r])
      /\ Cardinality(task[r].todo) \in Nat
      /\ IsFiniteSet(task[r].done) /\ Cardinality(task[r].done) \in Nat
  BY <1>1, RunFacts
<1>3. /\ Counted(runs[r], task[r]) /\ Sound(runs[r]) /\ runs[r].status = "running"
      /\ i # Nobody
  BY <1>1, <1>2 DEF RunOK
<1>4. i \in Importers /\ pc \in {"commit", "select"} /\ Nobody \notin Importers
  BY <1>2, <1>3, BuyerSyncAssumption DEF Task, Nobody
<1>. HIDE DEF pc, i
<1>5. t = [task[r] EXCEPT !.pc = pc, !.buyer = Nobody, !.found = FALSE,
                          !.mine = @ \union {i}, !.done = @ \union {i}]
  BY DEF Upserted, i
<1>. HIDE DEF t
<1>6. /\ t \in Task /\ t.pc = pc /\ t.todo = task[r].todo /\ t.done = task[r].done \union {i}
      /\ t.buyer = Nobody /\ t.skipped = task[r].skipped /\ task[r].skipped \in Nat
      /\ t.todo \subseteq Importers /\ t.done \subseteq Importers
  BY <1>2, <1>4, <1>5 DEF Task
<1>7. i \notin task[r].done /\ i \notin task[r].todo
  BY <1>3 DEF Counted, i
<1>8. Cardinality(t.done) = Cardinality(task[r].done) + 1
  BY <1>2, <1>6, <1>7, FS_AddElement
<1>9. Counted(runs[r], t)
  BY <1>1, <1>2, <1>3, <1>4, <1>6, <1>7, <1>8 DEF Counted
<1>10. RunOK(runs[r], t)
  BY <1>1, <1>2, <1>3, <1>4, <1>6, <1>9 DEF RunOK
<1>11. UNCHANGED <<queue, runs, rows, triggers, lost, embedQueue, embedder, embedding, faults, unserved>>
  BY DEF Write, ai
<1>12. Records(r, runs[r])
  BY <1>1, <1>11, SameRun DEF Inv
<1>. QED
  BY <1>1, <1>2, <1>6, <1>10, <1>11, <1>12, StepOfRun DEF Inv, TypeOK

LEMMA SkipOK ==
  ASSUME Inv, NEW r \in DOMAIN task, task[r].pc = "write"
  PROVE  Skip(r) \in Task /\ RunOK(runs[r], Skip(r))
<1>1. /\ task[r] \in Task /\ runs[r] \in Run /\ RunOK(runs[r], task[r])
      /\ Cardinality(task[r].todo) \in Nat /\ Cardinality(task[r].done) \in Nat
  BY RunFacts
<1>2. Counted(runs[r], task[r]) /\ Sound(runs[r]) /\ runs[r].status = "running"
  BY <1>1 DEF RunOK
<1>3. Nobody \notin Importers
  BY BuyerSyncAssumption DEF Nobody
<1>. DEFINE t == Skip(r)
<1>4. /\ t \in Task /\ t.pc = "select" /\ t.todo = task[r].todo /\ t.done = task[r].done
      /\ t.buyer = Nobody /\ t.mine = task[r].mine
      /\ t.skipped = task[r].skipped + 1 /\ task[r].skipped \in Nat
      /\ t.todo \subseteq Importers /\ t.done \subseteq Importers
  <2>1. /\ task[r].skipped \in Nat
        /\ task[r].todo \subseteq Importers /\ task[r].done \subseteq Importers
    BY <1>1 DEF Task
  <2>2. task[r].skipped + 1 \in Nat
    BY <2>1
  <2>3. t \in Task
    BY <1>1, <2>1, <2>2 DEF Skip, Task
  <2>. QED
    BY <1>1, <2>1, <2>3 DEF Skip, Task
<1>. HIDE DEF t
<1>5. Counted(runs[r], t)
  BY <1>1, <1>2, <1>3, <1>4 DEF Counted
<1>6. RunOK(runs[r], t)
  BY <1>1, <1>2, <1>4, <1>5 DEF RunOK
<1>. QED
  BY <1>4, <1>6 DEF t

(* The three ways in which an upsert raises. *)
LEMMA SkipInv ==
  ASSUME Inv, NEW r, SkipDuplicate(r) \/ SkipDeadlock(r) \/ RowFails(r)
  PROVE  Inv'
<1>1. r \in DOMAIN task /\ task[r].pc = "write" /\ Becomes(r, Skip(r))
  <2>1. CASE SkipDuplicate(r)  BY <2>1 DEF SkipDuplicate, At
  <2>2. CASE RowFails(r)       BY <2>2 DEF RowFails, At
  <2>3. CASE SkipDeadlock(r)
    <3>1. PICK t : WaitsFor(r, t)
      BY <2>3 DEF SkipDeadlock, Deadlocked
    <3>. QED
      BY <2>3, <3>1 DEF SkipDeadlock, WaitsFor, At
  <2>. QED
    BY <2>1, <2>2, <2>3
<1>2. /\ Skip(r) \in Task /\ RunOK(runs[r], Skip(r))
      /\ runs[r] \in Run /\ task[r] \in Task /\ RunOK(runs[r], task[r])
  BY <1>1, SkipOK, RunFacts
<1>3. task[r].buyer \in Importers
  BY <1>1, <1>2 DEF Task, RunOK
<1>4. UNCHANGED <<queue, runs, rows, triggers, embedQueue, embedder, embedding, unserved>>
  BY DEF SkipDuplicate, SkipDeadlock, RowFails, ai
<1>5. faults' \in 0 .. MaxFaults /\ lost' \subseteq Importers
  <2>1. CASE RowFails(r)
    BY <2>1, <1>3, BuyerSyncAssumption DEF RowFails, Inv, TypeOK
  <2>2. CASE SkipDuplicate(r) \/ SkipDeadlock(r)
    BY <2>2 DEF SkipDuplicate, SkipDeadlock, Inv, TypeOK
  <2>. QED
    BY <2>1, <2>2
<1>6. Records(r, runs[r])
  BY <1>1, <1>4, SameRun DEF Inv
<1>. QED
  BY <1>1, <1>2, <1>4, <1>5, <1>6, StepOfRun DEF Inv, TypeOK

(* Rows are stamped only by runs that are sound. *)
LEMMA CommitInv == ASSUME Inv, NEW r, CommitBatch(r) \/ CommitRest(r) PROVE Inv'
<1>1. PICK next \in {"select", "finish"} :
        /\ Commit(r, next)
        /\ r \in DOMAIN task /\ task[r].pc \in {"commit", "select"}
        /\ next = "finish" => task[r].todo = {}
  BY DEF CommitBatch, CommitRest, At
<1>. DEFINE t == [task[r] EXCEPT !.pc = next, !.mine = {}]
<1>2. Becomes(r, t)
  BY <1>1 DEF Commit
<1>3. /\ task[r] \in Task /\ runs[r] \in Run /\ RunOK(runs[r], task[r])
      /\ r \in 1 .. Len(runs)
  BY <1>1, RunFacts
<1>4. Counted(runs[r], task[r]) /\ Sound(runs[r]) /\ runs[r].status = "running"
  BY <1>1, <1>3 DEF RunOK
<1>5. /\ t \in Task /\ t.pc = next /\ t.mine = {} /\ t.todo = task[r].todo /\ t.done = task[r].done
      /\ t.buyer = task[r].buyer /\ t.skipped = task[r].skipped
  BY <1>3 DEF Task
<1>. HIDE DEF t
<1>6. Counted(runs[r], t)
  BY <1>1, <1>4, <1>5 DEF Counted
<1>7. RunOK(runs[r], t)
  BY <1>1, <1>3, <1>4, <1>5, <1>6 DEF RunOK
<1>8. /\ rows' \in [Importers -> 0 .. Len(runs)]
      /\ \A i \in Importers : rows'[i] = rows[i] \/ (rows'[i] = r /\ Sound(runs[r]))
  BY <1>1, <1>3, <1>4 DEF Commit, Inv, TypeOK
<1>9. /\ UNCHANGED <<queue, runs, triggers, embedQueue, embedder, embedding, faults, unserved>>
      /\ lost' \subseteq Importers
  BY <1>1 DEF Commit, ai, Inv, TypeOK
<1>10. Records(r, runs[r])
  BY <1>1, <1>9, SameRun DEF Inv
<1>. QED
  BY <1>1, <1>2, <1>3, <1>5, <1>7, <1>8, <1>9, <1>10, StepOfRun DEF Inv, TypeOK

(* Here the two counts are written down: nothing is left over. *)
LEMMA FinishInv == ASSUME Inv, NEW r, Finish(r) PROVE Inv'
<1>. DEFINE t == [task[r] EXCEPT !.pc = "dispatch"]
            n == Cardinality(task[r].done)
            u == [runs[r] EXCEPT !.status = "completed", !.upserted = n, !.skipped = task[r].skipped]
<1>1. r \in DOMAIN task /\ task[r].pc = "finish" /\ Becomes(r, t) /\ Records(r, u)
  BY DEF Finish, At
<1>2. /\ task[r] \in Task /\ runs[r] \in Run /\ RunOK(runs[r], task[r])
      /\ n \in Nat
  BY <1>1, RunFacts
<1>. HIDE DEF n
<1>3. /\ Counted(runs[r], task[r]) /\ Sound(runs[r])
      /\ task[r].todo = {} /\ task[r].buyer = Nobody /\ task[r].mine = {}
  BY <1>1, <1>2 DEF RunOK
<1>4. task[r].skipped \in Nat
  BY <1>2 DEF Task
<1>5. /\ t \in Task /\ t.pc = "dispatch" /\ t.buyer = Nobody /\ t.mine = {}
  BY <1>2, <1>3 DEF Task
<1>6. /\ u \in Run /\ u.status = "completed" /\ u.lastPage = runs[r].lastPage /\ u.query = runs[r].query
      /\ u.upserted = n /\ u.skipped = task[r].skipped
  BY <1>2, <1>4 DEF Run, Status
<1>. HIDE DEF t, u
<1>7. Sound(u)
  BY <1>3, <1>6 DEF Sound
<1>8. u.upserted + u.skipped = Cardinality(Aggregates(u.query, u.lastPage))
  <2>1. Cardinality(task[r].todo) = 0
    BY <1>3, FS_EmptySet
  <2>. QED
    BY <1>1, <1>2, <1>3, <1>4, <1>6, <2>1 DEF Counted, n
<1>9. RunOK(u, t)
  BY <1>2, <1>5, <1>6, <1>7, <1>8 DEF RunOK
<1>10. UNCHANGED <<queue, rows, triggers, lost, embedQueue, embedder, embedding, faults, unserved>>
  BY DEF Finish, ai
<1>. QED
  BY <1>1, <1>5, <1>6, <1>7, <1>9, <1>10, StepOfRun DEF Inv, TypeOK

(* One more message of an importer, at some number of attempts. *)
LEMMA MoreMessages ==
  ASSUME NEW Q \in [Importers -> [0 .. MAX_RETRIES -> Nat]],
         NEW i \in Importers, NEW n \in 0 .. MAX_RETRIES, NEW m \in Nat
  PROVE  [Q EXCEPT ![i][n] = m] \in [Importers -> [0 .. MAX_RETRIES -> Nat]]
<1>1. [Q[i] EXCEPT ![n] = m] \in [0 .. MAX_RETRIES -> Nat]
  OBVIOUS
<1>. QED
  BY <1>1

LEMMA DispatchInv == ASSUME Inv, NEW r, Dispatch(r) PROVE Inv'
<1>1. PICK i \in task[r].done :
        /\ embedQueue' = [embedQueue EXCEPT ![i][0] = @ + 1]
        /\ Becomes(r, [task[r] EXCEPT !.done = @ \ {i}])
  BY DEF Dispatch
<1>. DEFINE t == [task[r] EXCEPT !.done = @ \ {i}]
<1>2. r \in DOMAIN task /\ task[r].pc = "dispatch" /\ Becomes(r, t)
  BY <1>1 DEF Dispatch, At
<1>3. task[r] \in Task /\ runs[r] \in Run /\ RunOK(runs[r], task[r])
  BY <1>2, RunFacts
<1>4. /\ t \in Task /\ t.pc = "dispatch" /\ t.buyer = task[r].buyer /\ t.mine = task[r].mine
      /\ i \in Importers
  BY <1>1, <1>2, <1>3 DEF Task
<1>. HIDE DEF t
<1>5. RunOK(runs[r], t)
  BY <1>2, <1>3, <1>4 DEF RunOK
<1>6. embedQueue' \in [Importers -> [0 .. MAX_RETRIES -> Nat]]
  <2>1. 0 \in 0 .. MAX_RETRIES /\ embedQueue[i][0] + 1 \in Nat
    BY <1>4, BuyerSyncAssumption DEF Inv, TypeOK
  <2>. QED
    BY <1>1, <1>4, <2>1, MoreMessages DEF Inv, TypeOK
<1>7. UNCHANGED <<queue, runs, rows, triggers, lost, embedder, embedding, faults, unserved>>
  BY DEF Dispatch
<1>8. Records(r, runs[r])
  BY <1>2, <1>7, SameRun DEF Inv
<1>. QED
  BY <1>2, <1>3, <1>4, <1>5, <1>6, <1>7, <1>8, StepOfRun DEF Inv, TypeOK

LEMMA EndInv == ASSUME Inv, NEW r, Return(r) \/ Kill(r) PROVE Inv'
<1>1. r \in DOMAIN task /\ Becomes(r, Ended)
  BY DEF Return, Kill, At, InProgress
<1>2. task[r] \in Task /\ runs[r] \in Run /\ RunOK(runs[r], task[r])
  BY <1>1, RunFacts
<1>3. Ended \in Task /\ RunOK(runs[r], Ended)
  BY <1>2, EndedOK DEF RunOK
<1>4. UNCHANGED <<runs, rows, triggers, embedQueue, embedder, embedding>>
  BY DEF Return, Kill, ai
<1>5. /\ queue' \in [Queries -> Nat] /\ faults' \in 0 .. MaxFaults
      /\ lost' \subseteq Importers /\ unserved' \subseteq Importers
  <2>1. CASE Return(r)
    BY <2>1 DEF Return, Inv, TypeOK
  <2>2. CASE Kill(r)
    <3>1. /\ task[r].mine \subseteq Importers /\ task[r].done \subseteq Importers
          /\ runs[r].query \in Queries
      BY <1>2 DEF Task, Run
    <3>2. queue' \in [Queries -> Nat]
      <4>1. PICK back \in {0, 1} : queue' = [queue EXCEPT ![runs[r].query] = @ + back]
        BY <2>2 DEF Kill
      <4>. QED
        BY <3>1, <4>1 DEF Inv, TypeOK
    <3>3. faults' \in 0 .. MaxFaults
      BY <2>2, BuyerSyncAssumption DEF Kill, Inv, TypeOK
    <3>4. lost' \subseteq Importers /\ unserved' \subseteq Importers
      BY <2>2, <3>1 DEF Kill, Inv, TypeOK
    <3>. QED
      BY <3>2, <3>3, <3>4
  <2>. QED
    BY <2>1, <2>2
<1>6. Records(r, runs[r])
  BY <1>1, <1>4, SameRun DEF Inv
<1>. QED
  BY <1>1, <1>2, <1>3, <1>4, <1>5, <1>6, StepOfRun DEF Inv, TypeOK

LEMMA StartInv == ASSUME Inv, NEW q \in Queries, Start(q) PROVE Inv'
<1>. DEFINE u == [query |-> q, status |-> "running", lastPage |-> 0,
                  upserted |-> 0, skipped |-> 0, alongside |-> InProgress]
            n == Len(runs) + 1
<1>1. runs' = Append(runs, u) /\ task' = Append(task, Began)
  BY DEF Start
<1>2. /\ task \in Seq(Task) /\ runs \in Seq(Run) /\ Len(task) = Len(runs) /\ Len(runs) \in Nat
      /\ DOMAIN task = 1 .. Len(task) /\ DOMAIN runs = 1 .. Len(runs)
  BY LenProperties DEF Inv, TypeOK
<1>3. InProgress \subseteq Nat
  BY <1>2 DEF InProgress
<1>4. u \in Run /\ u.lastPage = 0 /\ u.query = q /\ u.status = "running"
  BY <1>3 DEF Run, Status
<1>5. Began \in Task
  BY DEF Began, Task, Nobody
<1>. HIDE DEF u
<1>6. /\ runs' \in Seq(Run) /\ task' \in Seq(Task)
      /\ Len(runs') = n /\ Len(task') = n
      /\ DOMAIN runs' = 1 .. n
      /\ runs'[n] = u /\ task'[n] = Began
      /\ \A r \in DOMAIN runs : runs'[r] = runs[r] /\ task'[r] = task[r]
  BY <1>1, <1>2, <1>4, <1>5, AppendProperties
<1>7. RunOK(u, Began)
  <2>1. LastPage(q) \in Nat \ {0}
    BY Pages
  <2>. QED
    BY <1>4, <2>1 DEF RunOK, Began, Nobody
<1>8. \A r \in DOMAIN runs' : r \in DOMAIN runs \/ r = n
  BY <1>2, <1>6
<1>9. RunsOK'
  BY <1>6, <1>7, <1>8 DEF Inv, RunsOK
<1>10. UNCHANGED <<rows, triggers, lost, embedQueue, embedder, embedding, faults, unserved>>
  BY DEF Start, ai
<1>11. OnlyFullAggregates'
  <2>. SUFFICES ASSUME NEW i \in Importers, rows[i] # 0
                PROVE  Sound(runs'[rows[i]])
    BY <1>10 DEF OnlyFullAggregates, Sound
  <2>1. rows[i] \in DOMAIN runs
    BY <1>2 DEF Inv, TypeOK
  <2>. QED
    BY <1>6, <2>1 DEF Inv, OnlyFullAggregates, Sound
<1>12. TypeOK'
  <2>1. queue' \in [Queries -> Nat]
    BY DEF Start, Inv, TypeOK
  <2>2. rows' \in [Importers -> 0 .. n]
    BY <1>2, <1>10 DEF Inv, TypeOK
  <2>. QED
    BY <1>6, <1>10, <2>1, <2>2 DEF Inv, TypeOK
<1>. QED
  BY <1>9, <1>11, <1>12 DEF Inv

LEMMA TriggerInv == ASSUME Inv, NEW q \in Queries, Trigger(q) PROVE Inv'
<1>1. UNCHANGED <<runs, task, rows, lost, embedQueue, embedder, embedding, faults, unserved>>
  BY DEF Trigger, ai
<1>2. queue' \in [Queries -> Nat] /\ triggers' \in 0 .. MaxTriggers
  BY BuyerSyncAssumption DEF Trigger, Inv, TypeOK
<1>3. TypeOK'
  BY <1>1, <1>2 DEF Inv, TypeOK
<1>. QED
  BY <1>1, <1>3 DEF Inv, RunsOK, OnlyFullAggregates

LEMMA EmbedInv ==
  ASSUME Inv, NEW e \in Embedders, EmbedderStep(e) \/ EmbedFails(e)
  PROVE  Inv'
<1>1. UNCHANGED <<queue, runs, task, rows, triggers, lost, faults>>
  BY DEF EmbedderStep, EmbedRead, EmbedWrite, EmbedFails, etl
<1>2. embedder[e] = Resting \/ embedder[e] \in Embedding
  BY DEF Inv, TypeOK
<1>. DEFINE N == 0 .. MAX_RETRIES
<1>0. embedQueue \in [Importers -> [N -> Nat]]
  BY DEF Inv, TypeOK
<1>3. /\ embedQueue' \in [Importers -> [0 .. MAX_RETRIES -> Nat]]
      /\ embedder' \in [Embedders -> Embedding \union {Resting}]
      /\ embedding' \in [Importers -> Nat]
      /\ unserved' \subseteq Importers
  <2>1. CASE \E i \in Importers, n \in 0 .. MAX_RETRIES : EmbedRead(e, i, n)
    <3>1. PICK i \in Importers, n \in 0 .. MAX_RETRIES : EmbedRead(e, i, n)
      BY <2>1
    <3>2. embedQueue' \in [Importers -> [0 .. MAX_RETRIES -> Nat]]
      <4>1. embedQueue[i][n] \in Nat /\ embedQueue[i][n] - 1 \in Nat
        <5>. HIDE DEF N
        <5>1. n \in N
          BY DEF N
        <5>2. embedQueue[i][n] \in Nat
          BY <1>0, <5>1
        <5>. QED
          BY <3>1, <5>2 DEF EmbedRead
      <4>. QED
        BY <3>1, <4>1, MoreMessages DEF EmbedRead, Inv, TypeOK
    <3>3. rows[i] \in Nat
      BY LenProperties DEF Inv, TypeOK
    <3>4. embedder' \in [Embedders -> Embedding \union {Resting}]
      <4>1. [importer |-> i, attempt |-> n, read |-> rows[i]] \in Embedding
        BY <3>3 DEF Embedding
      <4>. QED
        BY <3>1, <4>1 DEF EmbedRead, Inv, TypeOK
    <3>. QED
      BY <3>1, <3>2, <3>4 DEF EmbedRead, Inv, TypeOK
  <2>2. CASE EmbedWrite(e)
    <3>1. embedder[e].read \in Nat
      BY <1>2, <2>2 DEF EmbedWrite, Embedding
    <3>. QED
      BY <2>2, <3>1 DEF EmbedWrite, Inv, TypeOK
  <2>3. CASE EmbedFails(e)
    <3>1. /\ embedder[e].importer \in Importers
          /\ embedder[e].attempt \in 0 .. MAX_RETRIES
      BY <1>2, <2>3 DEF EmbedFails, Embedding
    <3>2. embedQueue' \in [Importers -> [0 .. MAX_RETRIES -> Nat]]
      <4>1. CASE embedder[e].attempt < MAX_RETRIES
        <5>1. embedder[e].attempt + 1 \in 0 .. MAX_RETRIES
          BY <3>1, <4>1, BuyerSyncAssumption
        <5>2. embedQueue[embedder[e].importer][embedder[e].attempt + 1] + 1 \in Nat
          <6>. HIDE DEF N
          <6>1. embedder[e].attempt + 1 \in N
            BY <5>1 DEF N
          <6>2. embedQueue[embedder[e].importer][embedder[e].attempt + 1] \in Nat
            BY <1>0, <3>1, <6>1
          <6>. QED
            BY <6>2
        <5>3. embedQueue' = [embedQueue EXCEPT ![embedder[e].importer][embedder[e].attempt + 1] =
                                embedQueue[embedder[e].importer][embedder[e].attempt + 1] + 1]
          BY <2>3, <3>1, <4>1, BuyerSyncAssumption DEF EmbedFails
        <5>. QED
          BY <1>0, <3>1, <5>1, <5>2, <5>3, MoreMessages
      <4>2. CASE embedder[e].attempt = MAX_RETRIES
        BY <2>3, <4>2, BuyerSyncAssumption DEF EmbedFails, Inv, TypeOK
      <4>. QED
        BY <3>1, <4>1, <4>2, BuyerSyncAssumption
    <3>. QED
      BY <2>3, <3>1, <3>2 DEF EmbedFails, Inv, TypeOK
  <2>. QED
    BY <2>1, <2>2, <2>3 DEF EmbedderStep
<1>4. TypeOK'
  BY <1>1, <1>3 DEF Inv, TypeOK
<1>. QED
  BY <1>1, <1>4 DEF Inv, RunsOK, OnlyFullAggregates

-----------------------------------------------------------------------------
LEMMA InitInv == Init => Inv
<1>. SUFFICES ASSUME Init PROVE Inv
  OBVIOUS
<1>1. /\ runs = <<>> /\ task = <<>> /\ runs \in Seq(Run) /\ task \in Seq(Task)
      /\ Len(runs) = 0 /\ Len(task) = 0 /\ DOMAIN runs = {}
  BY EmptySeq DEF Init
<1>2. TypeOK
  BY <1>1, BuyerSyncAssumption DEF Init, TypeOK
<1>. QED
  BY <1>1, <1>2 DEF Inv, RunsOK, OnlyFullAggregates, Init

LEMMA NextInv == Inv /\ [Next]_vars => Inv'
<1>. SUFFICES ASSUME Inv, [Next]_vars PROVE Inv'
  OBVIOUS
<1>1. CASE \E q \in Queries : Trigger(q) \/ Start(q)
  BY <1>1, TriggerInv, StartInv
<1>2. CASE \E r \in RunIds : TaskStep(r) \/ RowFails(r) \/ Kill(r)
  <2>1. PICK r \in RunIds : TaskStep(r) \/ RowFails(r) \/ Kill(r)
    BY <1>2
  <2>2. \/ FetchPage(r) \/ SkipInvalid(r) \/ Select(r) \/ Write(r)
        \/ (SkipDuplicate(r) \/ SkipDeadlock(r) \/ RowFails(r))
        \/ (CommitBatch(r) \/ CommitRest(r))
        \/ Finish(r) \/ Dispatch(r) \/ (Return(r) \/ Kill(r))
    BY <2>1 DEF TaskStep
  <2>. QED
    BY <2>2, FetchPageInv, SkipInvalidInv, SelectInv, WriteInv, SkipInv, CommitInv,
       FinishInv, DispatchInv, EndInv
<1>3. CASE \E r \in RunIds, status \in {"failed", "auth_required"} : FetchFails(r, status)
  BY <1>3, FetchFailsInv
<1>4. CASE \E e \in Embedders : EmbedderStep(e) \/ EmbedFails(e)
  BY <1>4, EmbedInv
<1>5. CASE UNCHANGED vars
  BY <1>5 DEF vars, etl, ai, Inv, TypeOK, RunsOK, OnlyFullAggregates
<1>. QED
  BY <1>1, <1>2, <1>3, <1>4, <1>5 DEF Next

THEOREM Invariant == Spec => []Inv
BY InitInv, NextInv, PTL DEF Spec

(* The variables keep their types.                                          *)
THEOREM TypeCorrect == Spec => []TypeOK
<1>1. Inv => TypeOK
  BY DEF Inv
<1>. QED
  BY <1>1, Invariant, PTL

(* No row ever shows part of what its query yields, however the fetch that  *)
(* it comes from and the tasks around it end.                               *)
THEOREM FullAggregates == Spec => []OnlyFullAggregates
<1>1. Inv => OnlyFullAggregates
  BY DEF Inv
<1>. QED
  BY <1>1, Invariant, PTL

(* Every importer a completed run aggregated is counted once, as upserted   *)
(* or as skipped.                                                           *)
THEOREM CountsHold == Spec => []CountsAddUp
<1>1. Inv => CountsAddUp
  BY DEF Inv, RunsOK, RunOK, CountsAddUp
<1>. QED
  BY <1>1, Invariant, PTL

-----------------------------------------------------------------------------
(* A completed run is never left behind by what was there before it. *)

(* The run x is not over when r begins. *)
Recent(r, x) == x >= r \/ x \in runs[r].alongside

(* What NeverOlder asks of one row. *)
Kept(r, i) == Recent(r, rows[i]) \/ i \in lost \/ (\E t \in DOMAIN task : i \in task[t].mine)

Working == {"select", "write", "commit", "finish"}

(* The importers a run has not dealt with yet. *)
Owed(t) == IF t.pc \in Working THEN t.todo \union {t.buyer} ELSE {}

(* A run that has read all its pages and not been given up. *)
Answers(u, t) == t.pc \in Working \/ u.status = "completed"

Alongside == \A r \in DOMAIN runs, t \in InProgress : t < r => t \in runs[r].alongside

Covered ==
  \A r \in DOMAIN runs : Answers(runs[r], task[r]) =>
    \A i \in Buyers(r) \ Owed(task[r]) : Kept(r, i)

(* What a SELECT that found nothing still knows when the INSERT is refused. *)
Unseen(r, t) == t.pc = "write" /\ ~ t.found => rows[t.buyer] = 0 \/ Recent(r, rows[t.buyer])

FoundOK == \A r \in DOMAIN runs : Unseen(r, task[r])

Order == Alongside /\ Covered /\ FoundOK

-----------------------------------------------------------------------------
(* What a run commits is recent for every run there is. *)
LEMMA CommitsAreRecent ==
  ASSUME Inv, Alongside, NEW s \in InProgress, NEW r \in DOMAIN runs
  PROVE  Recent(r, s)
<1>1. s \in Nat /\ r \in Nat
  BY LenProperties DEF Inv, TypeOK, InProgress
<1>. QED
  BY <1>1 DEF Alongside, Recent

LEMMA BuyersType ==
  ASSUME Inv, NEW r \in DOMAIN task
  PROVE  Buyers(r) \subseteq Importers
<1>1. runs[r] \in Run /\ runs[r].lastPage <= LastPage(runs[r].query)
  BY RunFacts DEF RunOK
<1>2. Aggregates(runs[r].query, runs[r].lastPage) \subseteq Importers
  BY <1>1, AggregatesType DEF Run
<1>. QED
  BY <1>2 DEF Buyers

(* The task and the row a step leaves behind, from the invariant it keeps. *)
LEMMA AfterStep ==
  ASSUME Inv, Inv', NEW r \in DOMAIN task, NEW t, NEW u, Becomes(r, t), Records(r, u)
  PROVE  /\ t \in Task /\ u \in Run
         /\ RunOK(u, t)
         /\ t.pc = "write" => t.buyer \in Importers
<1>1. /\ DOMAIN task = DOMAIN runs /\ DOMAIN task' = DOMAIN task /\ DOMAIN runs' = DOMAIN runs
      /\ task'[r] = t /\ runs'[r] = u
  BY LenProperties DEF Becomes, Records, Inv, TypeOK
<1>2. /\ task' \in Seq(Task) /\ runs' \in Seq(Run)
      /\ DOMAIN task' = 1 .. Len(task') /\ DOMAIN runs' = 1 .. Len(runs')
  BY LenProperties DEF Inv, TypeOK
<1>3. task'[r] \in Task /\ runs'[r] \in Run
  BY <1>1, <1>2, ElementOfSeq
<1>4. RunOK(u, t)
  <2>1. \A k \in DOMAIN runs' : RunOK(runs'[k], task'[k])
    BY DEF Inv, RunsOK, RunOK, Sound, Counted, Aggregates
  <2>. QED
    BY <1>1, <2>1
<1>. QED
  BY <1>1, <1>3, <1>4 DEF RunOK, Task

(* What a step of one run has to keep, for the rest of Order to hold. *)
LEMMA StepKeepsOrder ==
  ASSUME Inv, Inv', Order, NEW s \in InProgress, NEW t, NEW u,
         Becomes(s, t), Records(s, u),
         u.alongside = runs[s].alongside,
         \A i \in Importers : rows'[i] = rows[i] \/ rows'[i] = s,
         \A i \in lost : i \in lost' \/ rows'[i] = s,
         \A i \in task[s].mine : i \in t.mine \/ i \in lost' \/ rows'[i] = s,
         Answers(u, t) =>
           \A i \in (Aggregates(u.query, u.lastPage) \ Placeholders) \ Owed(t) :
             Kept(s, i) \/ i \in t.mine \/ i \in lost',
         Unseen(s, t)
  PROVE  Order'
<1>0. s \in DOMAIN task
  BY DEF InProgress
<1>9. /\ t \in Task /\ u \in Run /\ u.lastPage <= LastPage(u.query)
      /\ t.pc = "write" => t.buyer \in Importers
  BY <1>0, AfterStep DEF RunOK
<1>1. /\ DOMAIN runs' = DOMAIN runs /\ DOMAIN task' = DOMAIN runs /\ DOMAIN task = DOMAIN runs
      /\ task'[s] = t /\ runs'[s] = u
      /\ \A r \in DOMAIN runs : r # s => task'[r] = task[r] /\ runs'[r] = runs[r]
  BY <1>0, <1>9, OneRun, LenProperties DEF Inv, TypeOK
<1>2. \A r \in DOMAIN runs : runs'[r].alongside = runs[r].alongside
  BY <1>1
<1>3. \A r \in DOMAIN runs : Recent(r, s)
  BY CommitsAreRecent DEF Order
<1>4. ASSUME NEW r \in DOMAIN runs, NEW i \in Importers, rows'[i] = s \/ Recent(r, rows[i])
      PROVE  Recent(r, rows[i])'
  <2>1. rows'[i] = rows[i] \/ rows'[i] = s
    OBVIOUS
  <2>. QED
    BY <1>2, <1>3, <1>4, <2>1 DEF Recent
<1>5. ASSUME NEW r \in DOMAIN runs, NEW i \in Importers, Kept(r, i) \/ i \in t.mine \/ i \in lost'
      PROVE  Kept(r, i)'
  <2>1. CASE Recent(r, rows[i])
    BY <1>4, <2>1 DEF Kept
  <2>2. CASE i \in lost \/ i \in lost'
    BY <1>4, <2>2 DEF Kept
  <2>3. CASE \E k \in DOMAIN task : i \in task[k].mine
    <3>1. PICK k \in DOMAIN task : i \in task[k].mine
      BY <2>3
    <3>2. CASE k # s
      BY <1>1, <3>1, <3>2 DEF Kept
    <3>3. CASE k = s
      BY <1>0, <1>1, <1>4, <3>1, <3>3 DEF Kept
    <3>. QED
      BY <3>2, <3>3
  <2>4. CASE i \in t.mine
    BY <1>0, <1>1, <2>4 DEF Kept
  <2>. QED
    BY <1>5, <2>1, <2>2, <2>3, <2>4 DEF Kept
<1>6. Alongside'
  <2>1. InProgress' \subseteq InProgress
    BY <1>1 DEF InProgress
  <2>. QED
    BY <1>1, <1>2, <2>1 DEF Order, Alongside
<1>7. Covered'
  <2>. SUFFICES ASSUME NEW r \in DOMAIN runs, Answers(runs'[r], task'[r]),
                       NEW i \in Buyers(r)', i \notin Owed(task'[r])
                PROVE  Kept(r, i)'
    BY <1>1 DEF Covered, Answers, Owed
  <2>1. CASE r # s
    <3>1. runs'[r] = runs[r] /\ task'[r] = task[r]
      BY <1>1, <2>1
    <3>2. i \in Buyers(r)
      BY <3>1 DEF Buyers, Aggregates
    <3>3. Kept(r, i)
      BY <3>1, <3>2 DEF Order, Covered
    <3>4. i \in Importers
      BY <1>1, <3>2, BuyersType
    <3>. QED
      BY <1>5, <3>3, <3>4
  <2>2. CASE r = s
    <3>1. i \in Aggregates(u.query, u.lastPage) \ Placeholders
      BY <1>1, <2>2 DEF Buyers, Aggregates
    <3>2. Kept(s, i) \/ i \in t.mine \/ i \in lost'
      BY <1>1, <2>2, <3>1
    <3>3. i \in Importers
      BY <1>9, <3>1, AggregatesType DEF Run
    <3>. QED
      BY <1>5, <2>2, <3>2, <3>3
  <2>. QED
    BY <2>1, <2>2
<1>8. FoundOK'
  <2>. SUFFICES ASSUME NEW r \in DOMAIN runs, task'[r].pc = "write", ~ task'[r].found,
                       rows'[task'[r].buyer] # 0
                PROVE  Recent(r, rows[task[r].buyer])'
    BY <1>1 DEF FoundOK, Unseen
  <2>. DEFINE i == task'[r].buyer
  <2>1. Unseen(r, task'[r])
    BY <1>1 DEF Order, FoundOK
  <2>2. rows[i] = 0 \/ Recent(r, rows[i])
    BY <2>1 DEF Unseen
  <2>3. i \in Importers
    <3>1. CASE r = s
      BY <1>1, <1>9, <3>1
    <3>2. CASE r # s
      <4>1. task'[r] = task[r] /\ task[r] \in Task /\ RunOK(runs[r], task[r])
        BY <1>1, <3>2, RunFacts
      <4>. QED
        BY <4>1 DEF RunOK, Task
    <3>. QED
      BY <3>1, <3>2
  <2>. QED
    BY <1>4, <2>2, <2>3
<1>. QED
  BY <1>6, <1>7, <1>8 DEF Order

-----------------------------------------------------------------------------
(* The steps of a run. *)

(* What an ended run, or one that only dispatches, has left open. *)
LEMMA NothingOwed ==
  ASSUME Inv, Order, NEW r \in DOMAIN task, runs[r].status = "completed"
  PROVE  /\ task[r].pc \notin Working
         /\ \A i \in Buyers(r) : Kept(r, i)
<1>1. RunOK(runs[r], task[r]) /\ r \in DOMAIN runs
  BY RunFacts
<1>2. task[r].pc \notin Working
  BY <1>1 DEF RunOK, Working
<1>. QED
  BY <1>1, <1>2 DEF Order, Covered, Answers, Owed

LEMMA FetchOrder ==
  ASSUME Inv, Inv', Order, NEW r,
         FetchPage(r) \/ \E status \in {"failed", "auth_required"} : FetchFails(r, status)
  PROVE  Order'
<1>1. r \in DOMAIN task /\ r \in InProgress /\ task[r].pc = "fetch"
  BY DEF FetchPage, FetchFails, At, InProgress
<1>2. task[r] \in Task /\ runs[r] \in Run /\ RunOK(runs[r], task[r])
  BY <1>1, RunFacts
<1>3. runs[r].status = "running" /\ task[r].mine = {}
  BY <1>1, <1>2 DEF RunOK
<1>4. rows' = rows /\ lost' = lost
  BY DEF FetchPage, FetchFails
<1>5. CASE FetchPage(r)
  <2>. DEFINE q == runs[r].query
              p == runs[r].lastPage + 1
              u == [runs[r] EXCEPT !.lastPage = p]
              t == IF p < LastPage(q) THEN task[r]
                   ELSE [task[r] EXCEPT !.pc = "select", !.todo = Aggregates(q, p)]
  <2>1. Becomes(r, t) /\ Records(r, u)
    BY <1>5 DEF FetchPage
  <2>2. /\ u.alongside = runs[r].alongside /\ u.query = q /\ u.lastPage = p /\ u.status = "running"
    BY <1>2, <1>3 DEF Run
  <2>3. t.pc # "write" /\ (t.pc = "fetch" \/ t.todo = Aggregates(q, p))
    BY <1>1, <1>2 DEF Task
  <2>. HIDE DEF u, t, q, p
  <2>4. Answers(u, t) => Aggregates(u.query, u.lastPage) \subseteq Owed(t)
    BY <2>2, <2>3 DEF Answers, Owed, Working
  <2>. QED
    BY <1>1, <1>3, <1>4, <2>1, <2>2, <2>3, <2>4, StepKeepsOrder DEF Unseen
<1>6. CASE \E status \in {"failed", "auth_required"} : FetchFails(r, status)
  <2>1. PICK status \in {"failed", "auth_required"} : FetchFails(r, status)
    BY <1>6
  <2>. DEFINE u == [runs[r] EXCEPT !.status = status]
  <2>2. Becomes(r, Ended) /\ Records(r, u)
    BY <2>1 DEF FetchFails
  <2>3. u.alongside = runs[r].alongside /\ u.status # "completed"
    BY <1>2 DEF Run
  <2>. HIDE DEF u
  <2>4. Ended.pc = "ended" /\ ~ Answers(u, Ended)
    BY <2>3 DEF Ended, Began, Answers, Working
  <2>. QED
    BY <1>1, <1>3, <1>4, <2>2, <2>3, <2>4, StepKeepsOrder DEF Unseen
<1>. QED
  BY <1>5, <1>6

(* The steps of a run that is upserting: it owes less, or keeps what it owed. *)
LEMMA WorkKeepsOrder ==
  ASSUME Inv, Inv', Order, NEW r \in DOMAIN task, NEW t,
         Becomes(r, t), runs' = runs, rows' = rows,
         task[r].pc \in Working, t.pc \in Working,
         \A i \in lost : i \in lost',
         \A i \in task[r].mine : i \in t.mine \/ i \in lost',
         \A i \in Owed(task[r]) \ Owed(t) :
           i \in Placeholders \/ i = Nobody \/ Kept(r, i) \/ i \in t.mine \/ i \in lost',
         Unseen(r, t)
  PROVE  Order'
<1>1. Records(r, runs[r]) /\ r \in InProgress
  BY SameRun DEF Inv, InProgress, Working
<1>2. \A i \in Buyers(r) : i # Nobody /\ i \notin Placeholders
  BY BuyersType, BuyerSyncAssumption DEF Buyers, Nobody
<1>3. \A i \in Buyers(r) \ Owed(task[r]) : Kept(r, i)
  BY LenProperties DEF Order, Covered, Answers, Inv, TypeOK
<1>. QED
  BY <1>1, <1>2, <1>3, StepKeepsOrder DEF Buyers

LEMMA PickOrder ==
  ASSUME Inv, Inv', Order, NEW r, SkipInvalid(r) \/ Select(r)
  PROVE  Order'
<1>1. r \in DOMAIN task /\ task[r].pc = "select"
  BY DEF SkipInvalid, Select, At
<1>2. /\ task[r] \in Task /\ RunOK(runs[r], task[r]) /\ task[r].buyer = Nobody
  BY <1>1, RunFacts DEF RunOK
<1>3. runs' = runs /\ rows' = rows /\ lost' = lost
  BY DEF SkipInvalid, Select
<1>4. CASE SkipInvalid(r)
  <2>1. PICK i \in task[r].todo \intersect Placeholders :
          Becomes(r, [task[r] EXCEPT !.todo = @ \ {i}, !.skipped = @ + 1])
    BY <1>4 DEF SkipInvalid
  <2>. DEFINE t == [task[r] EXCEPT !.todo = @ \ {i}, !.skipped = @ + 1]
  <2>2. /\ t.pc = "select" /\ t.todo = task[r].todo \ {i} /\ t.buyer = task[r].buyer
        /\ t.mine = task[r].mine
    BY <1>1, <1>2 DEF Task
  <2>. HIDE DEF t
  <2>3. Owed(task[r]) \ Owed(t) \subseteq {i}
    BY <1>1, <2>2 DEF Owed, Working
  <2>. QED
    BY <1>1, <1>3, <2>1, <2>2, <2>3, WorkKeepsOrder DEF Working, Unseen, t
<1>5. CASE Select(r)
  <2>1. PICK i \in task[r].todo \ Placeholders :
          Becomes(r, [task[r] EXCEPT !.pc = "write", !.todo = @ \ {i}, !.buyer = i, !.found = rows[i] # 0])
    BY <1>5 DEF Select
  <2>. DEFINE t == [task[r] EXCEPT !.pc = "write", !.todo = @ \ {i}, !.buyer = i, !.found = rows[i] # 0]
  <2>2. /\ t.pc = "write" /\ t.todo = task[r].todo \ {i} /\ t.buyer = i
        /\ t.found = (rows[i] # 0) /\ t.mine = task[r].mine
    BY <1>2 DEF Task
  <2>. HIDE DEF t
  <2>3. Owed(task[r]) \ Owed(t) \subseteq {Nobody}
    BY <1>1, <1>2, <2>2 DEF Owed, Working
  <2>4. Unseen(r, t)
    BY <2>2 DEF Unseen
  <2>. QED
    BY <1>1, <1>3, <2>1, <2>2, <2>3, <2>4, WorkKeepsOrder DEF Working, t
<1>. QED
  BY <1>4, <1>5

LEMMA WriteOrder == ASSUME Inv, Inv', Order, NEW r, Write(r) PROVE Order'
<1>. DEFINE pc == IF Cardinality(task[r].mine) + 1 >= BATCH THEN "commit" ELSE "select"
            t == Upserted(r, pc)
<1>1. r \in DOMAIN task /\ task[r].pc = "write" /\ Becomes(r, t)
  BY DEF Write, At
<1>2. task[r] \in Task /\ pc \in {"commit", "select"}
  BY <1>1, RunFacts
<1>. HIDE DEF pc
<1>3. /\ t.pc = pc /\ t.todo = task[r].todo /\ t.buyer = Nobody
      /\ t.mine = task[r].mine \union {task[r].buyer}
  BY <1>2 DEF Task, Upserted
<1>. HIDE DEF t
<1>4. Owed(task[r]) \ Owed(t) \subseteq {task[r].buyer}
  BY <1>1, <1>2, <1>3 DEF Owed, Working
<1>5. runs' = runs /\ rows' = rows /\ lost' = lost
  BY DEF Write
<1>. QED
  BY <1>1, <1>2, <1>3, <1>4, <1>5, WorkKeepsOrder DEF Working, Unseen

LEMMA RaisedOrder ==
  ASSUME Inv, Inv', Order, NEW r \in DOMAIN task, task[r].pc = "write", Becomes(r, Skip(r)),
         runs' = runs, rows' = rows, \A i \in lost : i \in lost',
         Kept(r, task[r].buyer) \/ task[r].buyer \in lost'
  PROVE  Order'
<1>. DEFINE t == Skip(r)
<1>1. task[r] \in Task
  BY RunFacts
<1>2. t.pc = "select" /\ t.todo = task[r].todo /\ t.mine = task[r].mine
  BY <1>1 DEF Task, Skip
<1>. HIDE DEF t
<1>3. Owed(task[r]) \ Owed(t) \subseteq {task[r].buyer}
  BY <1>2 DEF Owed, Working
<1>. QED
  BY <1>2, <1>3, WorkKeepsOrder DEF Working, Unseen, t

(* A write that is refused gave way to a run that is recent: one that has   *)
(* committed since the SELECT, or one whose transaction is open.            *)
LEMMA SkipOrder ==
  ASSUME Inv, Inv', Order, NEW r, SkipDuplicate(r) \/ SkipDeadlock(r) \/ RowFails(r)
  PROVE  Order'
<1>1. CASE SkipDuplicate(r)
  <2>1. r \in DOMAIN task /\ task[r].pc = "write"
    BY <1>1 DEF SkipDuplicate, At
  <2>2. Unseen(r, task[r])
    BY <2>1, RunFacts DEF Order, FoundOK
  <2>3. Kept(r, task[r].buyer)
    BY <1>1, <2>1, <2>2 DEF SkipDuplicate, Duplicate, Unseen, Kept
  <2>. QED
    BY <1>1, <2>1, <2>3, RaisedOrder DEF SkipDuplicate
<1>2. CASE SkipDeadlock(r)
  <2>1. PICK t \in InProgress : WaitsFor(r, t)
    BY <1>2 DEF SkipDeadlock, Deadlocked
  <2>2. r \in DOMAIN task /\ task[r].pc = "write" /\ Kept(r, task[r].buyer)
    BY <2>1 DEF WaitsFor, At, Kept, InProgress
  <2>. QED
    BY <1>2, <2>2, RaisedOrder DEF SkipDeadlock
<1>3. CASE RowFails(r)
  BY <1>3, RaisedOrder DEF RowFails, At
<1>. QED
  BY <1>1, <1>2, <1>3

(* A commit puts a recent run in every row it takes off the other excuses. *)
LEMMA CommitOrder == ASSUME Inv, Inv', Order, NEW r, CommitBatch(r) \/ CommitRest(r) PROVE Order'
<1>1. PICK next \in {"select", "finish"} :
        /\ Commit(r, next)
        /\ r \in DOMAIN task /\ task[r].pc \in {"commit", "select"}
  BY DEF CommitBatch, CommitRest, At
<1>. DEFINE t == [task[r] EXCEPT !.pc = next, !.mine = {}]
<1>2. task[r] \in Task /\ task[r].mine \subseteq Importers
  BY <1>1, RunFacts DEF Task
<1>3. t.pc = next /\ t.todo = task[r].todo /\ t.buyer = task[r].buyer
  BY <1>2 DEF Task
<1>4. Becomes(r, t) /\ runs' = runs
  BY <1>1 DEF Commit
<1>. HIDE DEF t
<1>5. r \in InProgress /\ Records(r, runs[r])
  BY <1>1, <1>4, SameRun DEF InProgress, Inv
<1>6. /\ \A i \in Importers : rows'[i] = rows[i] \/ rows'[i] = r
      /\ \A i \in task[r].mine : rows'[i] = r
      /\ \A i \in lost : i \in lost' \/ rows'[i] = r
  BY <1>1, <1>2 DEF Commit
<1>7. \A i \in Buyers(r) \ Owed(t) : Kept(r, i)
  <2>1. Owed(t) = Owed(task[r])
    BY <1>1, <1>3 DEF Owed, Working
  <2>. QED
    BY <1>1, <2>1, RunFacts DEF Order, Covered, Answers, Working
<1>. QED
  BY <1>1, <1>3, <1>4, <1>5, <1>6, <1>7, StepKeepsOrder DEF Unseen, Buyers

LEMMA FinishOrder == ASSUME Inv, Inv', Order, NEW r, Finish(r) PROVE Order'
<1>. DEFINE t == [task[r] EXCEPT !.pc = "dispatch"]
            u == [runs[r] EXCEPT !.status = "completed", !.upserted = Cardinality(task[r].done),
                                 !.skipped = task[r].skipped]
<1>1. r \in DOMAIN task /\ task[r].pc = "finish" /\ Becomes(r, t) /\ Records(r, u)
  BY DEF Finish, At
<1>2. task[r] \in Task /\ runs[r] \in Run /\ RunOK(runs[r], task[r]) /\ r \in DOMAIN runs
  BY <1>1, RunFacts
<1>3. t.pc = "dispatch" /\ t.mine = task[r].mine
  BY <1>2 DEF Task
<1>4. u.query = runs[r].query /\ u.lastPage = runs[r].lastPage /\ u.alongside = runs[r].alongside
  BY <1>2 DEF Run
<1>. HIDE DEF t, u
<1>5. \A i \in Buyers(r) : Kept(r, i)
  <2>1. Owed(task[r]) = {Nobody}
    BY <1>1, <1>2 DEF RunOK, Owed, Working
  <2>2. Nobody \notin Buyers(r)
    BY <1>1, BuyersType, BuyerSyncAssumption DEF Nobody
  <2>. QED
    BY <1>1, <1>2, <2>1, <2>2 DEF Order, Covered, Answers, Working
<1>6. r \in InProgress /\ rows' = rows /\ lost' = lost
  BY <1>1 DEF InProgress, Finish
<1>. QED
  BY <1>1, <1>3, <1>4, <1>5, <1>6, StepKeepsOrder DEF Unseen, Buyers

LEMMA DispatchOrder == ASSUME Inv, Inv', Order, NEW r, Dispatch(r) PROVE Order'
<1>1. PICK i \in task[r].done : Becomes(r, [task[r] EXCEPT !.done = @ \ {i}])
  BY DEF Dispatch
<1>. DEFINE t == [task[r] EXCEPT !.done = @ \ {i}]
<1>2. r \in DOMAIN task /\ task[r].pc = "dispatch" /\ Becomes(r, t)
  BY <1>1 DEF Dispatch, At
<1>3. t.pc = "dispatch" /\ t.mine = task[r].mine
  BY <1>2, RunFacts DEF Task
<1>. HIDE DEF t
<1>4. runs' = runs /\ rows' = rows /\ lost' = lost
  BY DEF Dispatch
<1>5. r \in InProgress /\ Records(r, runs[r])
  BY <1>2, <1>4, SameRun DEF InProgress, Inv
<1>6. Answers(runs[r], t) => \A k \in Buyers(r) : Kept(r, k)
  BY <1>2, <1>3, NothingOwed DEF Answers, Working
<1>. QED
  BY <1>2, <1>3, <1>4, <1>5, <1>6, StepKeepsOrder DEF Unseen, Buyers

LEMMA EndOrder == ASSUME Inv, Inv', Order, NEW r, Return(r) \/ Kill(r) PROVE Order'
<1>1. r \in DOMAIN task /\ r \in InProgress /\ Becomes(r, Ended)
  BY DEF Return, Kill, At, InProgress
<1>2. runs' = runs /\ rows' = rows /\ lost \subseteq lost'
  BY DEF Return, Kill
<1>3. task[r].mine \subseteq lost'
  <2>1. CASE Return(r)
    <3>1. RunOK(runs[r], task[r]) /\ task[r].pc = "dispatch"
      BY <1>1, <2>1, RunFacts DEF Return, At
    <3>. QED
      BY <3>1 DEF RunOK
  <2>2. CASE Kill(r)
    BY <2>2 DEF Kill
  <2>. QED
    BY <2>1, <2>2
<1>4. Ended.pc = "ended"
  BY DEF Ended, Began
<1>5. Records(r, runs[r])
  BY <1>1, <1>2, SameRun DEF Inv
<1>6. Answers(runs[r], Ended) => \A i \in Buyers(r) : Kept(r, i)
  BY <1>1, <1>4, NothingOwed DEF Answers, Working
<1>. QED
  BY <1>1, <1>2, <1>3, <1>4, <1>5, <1>6, StepKeepsOrder DEF Unseen, Buyers

(* A run that begins knows who is at work. *)
LEMMA StartOrder == ASSUME Inv, Inv', Order, NEW q \in Queries, Start(q) PROVE Order'
<1>. DEFINE u == [query |-> q, status |-> "running", lastPage |-> 0,
                  upserted |-> 0, skipped |-> 0, alongside |-> InProgress]
            n == Len(runs) + 1
<1>1. runs' = Append(runs, u) /\ task' = Append(task, Began) /\ rows' = rows /\ lost' = lost
  BY DEF Start
<1>2. /\ task \in Seq(Task) /\ runs \in Seq(Run) /\ Len(task) = Len(runs) /\ Len(runs) \in Nat
      /\ DOMAIN task = 1 .. Len(runs) /\ DOMAIN runs = 1 .. Len(runs)
  BY LenProperties DEF Inv, TypeOK
<1>3. u \in Run
  BY <1>2 DEF Run, Status, InProgress
<1>4. Began \in Task /\ Began.pc = "fetch" /\ Began.mine = {}
  BY DEF Began, Task, Nobody
<1>5. u.status = "running" /\ u.alongside = InProgress
  OBVIOUS
<1>. HIDE DEF u
<1>6. /\ DOMAIN runs' = 1 .. n /\ DOMAIN task' = 1 .. n
      /\ runs'[n] = u /\ task'[n] = Began
      /\ \A r \in 1 .. Len(runs) : runs'[r] = runs[r] /\ task'[r] = task[r]
  BY <1>1, <1>2, <1>3, <1>4, AppendProperties
<1>7. \A r \in 1 .. n : r \in 1 .. Len(runs) \/ r = n
  BY <1>2
<1>8. ASSUME NEW r \in 1 .. Len(runs), NEW i, Kept(r, i) PROVE Kept(r, i)'
  <2>1. Recent(r, rows[i]) => Recent(r, rows[i])'
    BY <1>1, <1>6 DEF Recent
  <2>2. \A t \in DOMAIN task : t \in DOMAIN task' /\ task'[t] = task[t]
    BY <1>2, <1>6
  <2>. QED
    BY <1>1, <1>8, <2>1, <2>2 DEF Kept
<1>9. Alongside'
  <2>. SUFFICES ASSUME NEW r \in 1 .. n, NEW t \in 1 .. n, task'[t].pc # "ended", t < r
                PROVE  t \in runs'[r].alongside
    BY <1>6 DEF Alongside, InProgress
  <2>1. t \in 1 .. Len(runs)
    BY <1>2
  <2>2. t \in InProgress
    BY <1>2, <1>6, <2>1 DEF InProgress
  <2>. QED
    BY <1>2, <1>5, <1>6, <1>7, <2>2 DEF Order, Alongside
<1>10. Covered'
  <2>. SUFFICES ASSUME NEW r \in 1 .. n, Answers(runs'[r], task'[r]),
                       NEW i \in Buyers(r)' \ Owed(task'[r])
                PROVE  Kept(r, i)'
    BY <1>6 DEF Covered, Answers, Owed
  <2>1. r # n
    BY <1>4, <1>5, <1>6 DEF Answers, Working
  <2>2. r \in 1 .. Len(runs) /\ runs'[r] = runs[r] /\ task'[r] = task[r]
    BY <1>6, <1>7, <2>1
  <2>3. i \in Buyers(r) \ Owed(task[r])
    BY <2>2 DEF Buyers, Aggregates
  <2>. QED
    BY <1>2, <1>8, <2>2, <2>3 DEF Order, Covered
<1>11. FoundOK'
  <2>. SUFFICES ASSUME NEW r \in 1 .. n PROVE Unseen(r, task[r])'
    BY <1>6 DEF FoundOK
  <2>1. CASE r = n
    BY <1>4, <1>6, <2>1 DEF Unseen
  <2>2. CASE r \in 1 .. Len(runs)
    BY <1>1, <1>2, <1>6, <2>2 DEF Order, FoundOK, Unseen, Recent
  <2>. QED
    BY <1>7, <2>1, <2>2
<1>. QED
  BY <1>9, <1>10, <1>11 DEF Order

(* Steps that see neither runs nor rows. *)
LEMMA IdleOrder == ASSUME Order, UNCHANGED <<runs, task, rows, lost>> PROVE Order'
BY DEF Order, Alongside, Covered, FoundOK, Answers, Owed, Kept, Recent, Unseen, InProgress, Buyers, Aggregates

-----------------------------------------------------------------------------
LEMMA InitOrder == Init => Order
<1>. SUFFICES ASSUME Init PROVE Order
  OBVIOUS
<1>1. DOMAIN runs = {}
  BY EmptySeq DEF Init
<1>. QED
  BY <1>1 DEF Order, Alongside, Covered, FoundOK

LEMMA NextOrder == Inv /\ Inv' /\ Order /\ [Next]_vars => Order'
<1>. SUFFICES ASSUME Inv, Inv', Order, [Next]_vars PROVE Order'
  OBVIOUS
<1>1. CASE \E q \in Queries : Trigger(q) \/ Start(q)
  BY <1>1, StartOrder, IdleOrder DEF Trigger
<1>2. CASE \E r \in RunIds : TaskStep(r) \/ RowFails(r) \/ Kill(r)
  <2>1. PICK r \in RunIds : TaskStep(r) \/ RowFails(r) \/ Kill(r)
    BY <1>2
  <2>2. \/ FetchPage(r) \/ (SkipInvalid(r) \/ Select(r)) \/ Write(r)
        \/ (SkipDuplicate(r) \/ SkipDeadlock(r) \/ RowFails(r))
        \/ (CommitBatch(r) \/ CommitRest(r))
        \/ Finish(r) \/ Dispatch(r) \/ (Return(r) \/ Kill(r))
    BY <2>1 DEF TaskStep
  <2>. QED
    BY <2>2, FetchOrder, PickOrder, WriteOrder, SkipOrder, CommitOrder, FinishOrder,
       DispatchOrder, EndOrder
<1>3. CASE \E r \in RunIds, status \in {"failed", "auth_required"} : FetchFails(r, status)
  BY <1>3, FetchOrder
<1>4. CASE \E e \in Embedders : EmbedderStep(e) \/ EmbedFails(e)
  <2>1. UNCHANGED etl
    BY <1>4 DEF EmbedderStep, EmbedRead, EmbedWrite, EmbedFails
  <2>. QED
    BY <2>1, IdleOrder DEF etl
<1>5. CASE UNCHANGED vars
  BY <1>5, IdleOrder DEF vars, etl
<1>. QED
  BY <1>1, <1>2, <1>3, <1>4, <1>5 DEF Next

(* However many syncs overlap, block, deadlock or die, no row of a buyer a  *)
(* completed run saw is left from a run that had ended before it began,     *)
(* unless its write failed or gave way to a transaction open or dead.       *)
THEOREM RowsNeverOlder == Spec => []NeverOlder
<1>1. Inv /\ Order => NeverOlder
  <2>. SUFFICES ASSUME Inv, Order, NEW r \in DOMAIN runs, runs[r].status = "completed",
                       NEW i \in Buyers(r)
                PROVE  Kept(r, i)
    BY DEF NeverOlder, Kept, Recent
  <2>1. r \in DOMAIN task
    BY LenProperties DEF Inv, TypeOK
  <2>. QED
    BY <2>1, NothingOwed
<1>2. Spec => []Order
  <2>1. Init => Order
    BY InitOrder
  <2>2. Inv /\ Inv' /\ Order /\ [Next]_vars => Order'
    BY NextOrder
  <2>. QED
    BY <2>1, <2>2, Invariant, PTL DEF Spec
<1>. QED
  BY <1>1, <1>2, Invariant, PTL

-----------------------------------------------------------------------------
(* Embeddings. While no request for a buyer was lost or overlapped another, *)
(* at most one process embeds it, and its embedding is that of its row, is  *)
(* being computed from its row, or is still owed: by a message, or by a run *)
(* that has committed the row and is yet to send one.                       *)
Due(i) == \/ \E n \in 0 .. MAX_RETRIES : embedQueue[i][n] > 0
          \/ \E r \in InProgress : i \in task[r].done \ task[r].mine

Alone(i) == \A e, f \in Embedders : Embeds(e, i) /\ Embeds(f, i) => e = f

Served(i) == \/ Due(i)
             \/ \E e \in Embedders : Embeds(e, i) /\ embedder[e].read = rows[i]
             \/ /\ embedding[i] = rows[i]
                /\ \A e \in Embedders : ~Embeds(e, i)

NoRowNoWork == \A i \in Importers : rows[i] = 0 =>
                 embedding[i] = 0 /\ \A e \in Embedders : ~Embeds(e, i)

MineDone == \A r \in DOMAIN task : task[r].mine \subseteq task[r].done

Follow == /\ MineDone /\ NoRowNoWork
          /\ \A i \in Importers \ unserved : Alone(i) /\ Served(i)

(* A step of a run keeps every debt, or hands it to a message or gives it up. *)
LEMMA StepKeepsFollow ==
  ASSUME Inv, Follow, NEW r \in DOMAIN task, NEW t, Becomes(r, t),
         UNCHANGED <<embedder, embedding>>, unserved \subseteq unserved',
         t.mine \subseteq t.done,
         \A i \in Importers : \/ rows'[i] = rows[i]
                              \/ (rows'[i] = r /\ t.pc # "ended" /\ i \in t.done \ t.mine),
         \A i \in task[r].done \ task[r].mine :
           \/ i \in unserved' \/ embedQueue'[i][0] > 0
           \/ (t.pc # "ended" /\ i \in t.done \ t.mine),
         \A i \in Importers, n \in 0 .. MAX_RETRIES : embedQueue[i][n] > 0 => embedQueue'[i][n] > 0
  PROVE  Follow'
<1>1. /\ DOMAIN task' = DOMAIN task /\ task'[r] = t
      /\ \A s \in DOMAIN task \ {r} : task'[s] = task[s]
  BY DEF Becomes
<1>2. r # 0 /\ 0 \in 0 .. MAX_RETRIES
  BY RunFacts, BuyerSyncAssumption DEF Inv, TypeOK
<1>3. MineDone'
  BY <1>1 DEF Follow, MineDone
<1>4. NoRowNoWork'
  BY <1>2 DEF Follow, NoRowNoWork, Embeds
<1>5. ASSUME NEW i \in Importers, t.pc # "ended", i \in t.done \ t.mine PROVE Due(i)'
  BY <1>1, <1>5 DEF Due, InProgress
<1>6. ASSUME NEW i \in Importers \ unserved', Due(i) PROVE Due(i)'
  <2>1. CASE \E n \in 0 .. MAX_RETRIES : embedQueue[i][n] > 0
    BY <2>1 DEF Due
  <2>2. ASSUME NEW s \in InProgress, i \in task[s].done \ task[s].mine PROVE Due(i)'
    <3>1. CASE s = r
      BY <1>2, <1>5, <2>2, <3>1 DEF Due
    <3>2. CASE s # r
      <4>1. s \in DOMAIN task' /\ task'[s] = task[s] /\ task[s].pc # "ended"
        BY <1>1, <3>2 DEF InProgress
      <4>. QED
        BY <2>2, <4>1 DEF Due, InProgress
    <3>. QED
      BY <3>1, <3>2
  <2>. QED
    BY <1>6, <2>1, <2>2 DEF Due
<1>7. ASSUME NEW i \in Importers \ unserved' PROVE Alone(i)' /\ Served(i)'
  <2>1. Alone(i) /\ Served(i)
    BY DEF Follow
  <2>2. Alone(i)'
    BY <2>1 DEF Alone, Embeds
  <2>3. CASE rows'[i] = rows[i]
    BY <1>6, <2>1, <2>2, <2>3 DEF Served, Embeds
  <2>4. CASE rows'[i] # rows[i]
    BY <1>5, <2>2, <2>4 DEF Served
  <2>. QED
    BY <2>2, <2>3, <2>4
<1>. QED
  BY <1>3, <1>4, <1>7 DEF Follow

(* Most steps of a run leave committed debts where they are. *)
LEMMA WorkKeepsFollow ==
  ASSUME Inv, Follow, NEW r \in DOMAIN task, NEW t, Becomes(r, t),
         UNCHANGED <<rows, ai, unserved>>, t.mine \subseteq t.done,
         task[r].done \ task[r].mine \subseteq t.done \ t.mine,
         t.pc # "ended" \/ task[r].done = {}
  PROVE  Follow'
BY StepKeepsFollow DEF ai

LEMMA FetchFollow ==
  ASSUME Inv, Follow, NEW r, FetchPage(r) \/ \E status \in {"failed", "auth_required"} : FetchFails(r, status)
  PROVE  Follow'
<1>1. r \in DOMAIN task /\ task[r].pc = "fetch" /\ UNCHANGED <<rows, ai, unserved>>
  BY DEF FetchPage, FetchFails, At
<1>2. task[r] \in Task /\ task[r].done = {} /\ task[r].mine = {}
  BY <1>1, RunFacts DEF RunOK
<1>3. CASE FetchPage(r)
  <2>1. PICK S : Becomes(r, task[r]) \/ Becomes(r, [task[r] EXCEPT !.pc = "select", !.todo = S])
    BY <1>3 DEF FetchPage
  <2>2. PICK t : Becomes(r, t) /\ (t = task[r] \/ t = [task[r] EXCEPT !.pc = "select", !.todo = S])
    BY <2>1
  <2>3. t.pc # "ended" /\ t.done = {} /\ t.mine = {}
    BY <1>1, <1>2, <2>2 DEF Task
  <2>. QED
    BY <1>1, <1>2, <2>2, <2>3, WorkKeepsFollow
<1>4. CASE \E status \in {"failed", "auth_required"} : FetchFails(r, status)
  <2>1. Becomes(r, Ended) /\ Ended.done = {} /\ Ended.mine = {}
    BY <1>4 DEF FetchFails, Ended, Began
  <2>. QED
    BY <1>1, <1>2, <2>1, WorkKeepsFollow
<1>. QED
  BY <1>3, <1>4

LEMMA PickFollow ==
  ASSUME Inv, Follow, NEW r, SkipInvalid(r) \/ Select(r) \/ Finish(r)
  PROVE  Follow'
<1>1. r \in DOMAIN task /\ task[r].pc \in {"select", "finish"} /\ UNCHANGED <<rows, ai, unserved>>
  BY DEF SkipInvalid, Select, Finish, At
<1>2. task[r] \in Task /\ task[r].mine \subseteq task[r].done
  BY <1>1, RunFacts DEF Follow, MineDone
<1>3. PICK t : Becomes(r, t) /\ t.pc # "ended" /\ t.done = task[r].done /\ t.mine = task[r].mine
  <2>1. CASE SkipInvalid(r)
    <3>1. PICK i : Becomes(r, [task[r] EXCEPT !.todo = @ \ {i}, !.skipped = @ + 1])
      BY <2>1 DEF SkipInvalid
    <3>2. PICK t : t = [task[r] EXCEPT !.todo = @ \ {i}, !.skipped = @ + 1]
      OBVIOUS
    <3>3. t.pc = task[r].pc /\ t.done = task[r].done /\ t.mine = task[r].mine
      BY <1>2, <3>2 DEF Task
    <3>. QED
      BY <1>1, <3>1, <3>2, <3>3
  <2>2. CASE Select(r)
    <3>1. PICK i : Becomes(r, [task[r] EXCEPT !.pc = "write", !.todo = @ \ {i}, !.buyer = i, !.found = rows[i] # 0])
      BY <2>2 DEF Select
    <3>2. PICK t : t = [task[r] EXCEPT !.pc = "write", !.todo = @ \ {i}, !.buyer = i, !.found = rows[i] # 0]
      OBVIOUS
    <3>3. t.pc = "write" /\ t.done = task[r].done /\ t.mine = task[r].mine
      BY <1>2, <3>2 DEF Task
    <3>. QED
      BY <3>1, <3>2, <3>3
  <2>3. CASE Finish(r)
    BY <1>1, <1>2, <2>3 DEF Finish, Task
  <2>. QED
    BY <2>1, <2>2, <2>3
<1>. QED
  BY <1>1, <1>2, <1>3, WorkKeepsFollow

(* The row being written was not among those of the run: an aggregate is    *)
(* upserted once.                                                           *)
LEMMA WriteFollow == ASSUME Inv, Follow, NEW r, Write(r) PROVE Follow'
<1>1. PICK pc \in {"commit", "select"} : Becomes(r, Upserted(r, pc))
  BY DEF Write
<1>2. r \in DOMAIN task /\ task[r].pc = "write" /\ UNCHANGED <<rows, ai, unserved>>
  BY DEF Write, At
<1>3. task[r] \in Task /\ task[r].mine \subseteq task[r].done /\ task[r].buyer \notin task[r].done
  BY <1>2, RunFacts DEF Follow, MineDone, RunOK, Counted
<1>4. PICK t : t = Upserted(r, pc)
  OBVIOUS
<1>5. /\ t.pc = pc /\ t.done = task[r].done \union {task[r].buyer}
      /\ t.mine = task[r].mine \union {task[r].buyer}
  BY <1>3, <1>4 DEF Upserted, Task
<1>. QED
  BY <1>1, <1>2, <1>3, <1>4, <1>5, WorkKeepsFollow

LEMMA SkipFollow ==
  ASSUME Inv, Follow, NEW r, SkipDuplicate(r) \/ SkipDeadlock(r) \/ RowFails(r)
  PROVE  Follow'
<1>1. r \in DOMAIN task /\ Becomes(r, Skip(r)) /\ UNCHANGED <<rows, ai, unserved>>
  BY DEF SkipDuplicate, SkipDeadlock, RowFails, At, Deadlocked, WaitsFor
<1>2. task[r] \in Task /\ task[r].mine \subseteq task[r].done
  BY <1>1, RunFacts DEF Follow, MineDone
<1>3. PICK t : t = Skip(r)
  OBVIOUS
<1>4. t.pc = "select" /\ t.done = task[r].done /\ t.mine = task[r].mine
  BY <1>2, <1>3 DEF Skip, Task
<1>. QED
  BY <1>1, <1>2, <1>3, <1>4, WorkKeepsFollow

(* A committed row is owed its embedding from the commit on. *)
LEMMA CommitFollow == ASSUME Inv, Follow, NEW r, CommitBatch(r) \/ CommitRest(r) PROVE Follow'
<1>1. PICK next \in {"select", "finish"} : Commit(r, next) /\ r \in DOMAIN task
  BY DEF CommitBatch, CommitRest, At
<1>2. task[r] \in Task /\ task[r].mine \subseteq task[r].done
  BY <1>1, RunFacts DEF Follow, MineDone
<1>3. PICK t : t = [task[r] EXCEPT !.pc = next, !.mine = {}]
  OBVIOUS
<1>4. t.pc = next /\ t.done = task[r].done /\ t.mine = {}
  BY <1>2, <1>3 DEF Task
<1>5. Becomes(r, t) /\ UNCHANGED <<ai, unserved>>
  BY <1>1, <1>3 DEF Commit
<1>6. \A i \in Importers : rows'[i] = rows[i] \/ (rows'[i] = r /\ i \in task[r].mine)
  BY <1>1 DEF Commit
<1>. QED
  BY <1>1, <1>2, <1>4, <1>5, <1>6, StepKeepsFollow DEF ai

LEMMA DispatchFollow == ASSUME Inv, Follow, NEW r, Dispatch(r) PROVE Follow'
<1>1. PICK i \in task[r].done : /\ embedQueue' = [embedQueue EXCEPT ![i][0] = @ + 1]
                                /\ Becomes(r, [task[r] EXCEPT !.done = @ \ {i}])
  BY DEF Dispatch
<1>2. r \in DOMAIN task /\ task[r].pc = "dispatch" /\ UNCHANGED <<rows, embedder, embedding, unserved>>
  BY DEF Dispatch, At
<1>3. task[r] \in Task /\ task[r].mine = {} /\ i \in Importers
  BY <1>1, <1>2, RunFacts DEF RunOK, Task
<1>4. PICK t : t = [task[r] EXCEPT !.done = @ \ {i}]
  OBVIOUS
<1>5. t.pc = "dispatch" /\ t.done = task[r].done \ {i} /\ t.mine = {}
  BY <1>2, <1>3, <1>4 DEF Task
<1>6. /\ embedQueue'[i][0] > 0
      /\ \A k \in Importers, n \in 0 .. MAX_RETRIES : embedQueue[k][n] > 0 => embedQueue'[k][n] > 0
  BY <1>1, <1>3, BuyerSyncAssumption DEF Inv, TypeOK
<1>. QED
  BY <1>1, <1>2, <1>3, <1>4, <1>5, <1>6, StepKeepsFollow

LEMMA EndFollow == ASSUME Inv, Follow, NEW r, Return(r) \/ Kill(r) PROVE Follow'
<1>1. r \in DOMAIN task /\ Becomes(r, Ended) /\ UNCHANGED <<rows, ai>>
  BY DEF Return, Kill, At, InProgress
<1>2. /\ unserved \subseteq unserved'
      /\ task[r].done = {} \/ task[r].done \ task[r].mine \subseteq unserved'
  BY DEF Return, Kill
<1>3. Ended.mine \subseteq Ended.done
  BY DEF Ended, Began
<1>. QED
  BY <1>1, <1>2, <1>3, StepKeepsFollow DEF ai

LEMMA StartFollow == ASSUME Inv, Follow, NEW q \in Queries, Start(q) PROVE Follow'
<1>1. task' = Append(task, Began) /\ UNCHANGED <<rows, ai, unserved>>
  BY DEF Start
<1>2. task \in Seq(Task) /\ Began \in Task /\ DOMAIN task = 1 .. Len(task) /\ Len(task) \in Nat
  BY LenProperties DEF Inv, TypeOK, Began, Task, Nobody
<1>3. /\ DOMAIN task' = 1 .. Len(task) + 1 /\ task'[Len(task) + 1] = Began
      /\ \A s \in DOMAIN task : s \in DOMAIN task' /\ task'[s] = task[s]
  BY <1>1, <1>2, AppendProperties
<1>4. MineDone'
  <2>1. Began.mine = {}
    BY DEF Began
  <2>. QED
    BY <1>2, <1>3, <2>1 DEF Follow, MineDone
<1>5. \A i : Due(i) => Due(i)'
  BY <1>1, <1>3 DEF Due, InProgress, ai
<1>. QED
  BY <1>1, <1>4, <1>5 DEF Follow, NoRowNoWork, Alone, Served, Embeds, ai

(* The ai processes: no row, no run and no other process's work changes. *)
LEMMA EmbedReadFollow ==
  ASSUME Inv, Follow, NEW e \in Embedders, NEW i \in Importers, NEW n \in 0 .. MAX_RETRIES, EmbedRead(e, i, n)
  PROVE  Follow'
<1>1. /\ embedder[e] = Resting /\ UNCHANGED <<task, rows, embedding>>
      /\ embedQueue' = [embedQueue EXCEPT ![i][n] = @ - 1]
      /\ embedder' = IF rows[i] = 0 THEN embedder
                     ELSE [embedder EXCEPT ![e] = [importer |-> i, attempt |-> n, read |-> rows[i]]]
      /\ unserved' = IF \E f \in Embedders : Embeds(f, i) THEN unserved \union {i} ELSE unserved \ {i}
  BY DEF EmbedRead, etl
<1>2. \A f \in Embedders \ {e} : embedder'[f] = embedder[f]
  BY <1>1 DEF Inv, TypeOK
<1>3. ~Embeds(e, i) /\ \A k \in Importers : ~Embeds(e, k)
  BY <1>1, BuyerSyncAssumption DEF Embeds, Resting, Nobody
<1>4. CASE rows[i] = 0
  <2>1. embedder' = embedder /\ embedding[i] = 0 /\ \A f \in Embedders : ~Embeds(f, i)
    BY <1>1, <1>4 DEF Follow, NoRowNoWork
  <2>2. Alone(i)' /\ Served(i)'
    BY <1>1, <1>4, <2>1 DEF Alone, Served, Embeds
  <2>3. ASSUME NEW k \in Importers \ unserved', k # i PROVE Alone(k)' /\ Served(k)'
    <3>1. k \in Importers \ unserved
      BY <1>1, <2>3
    <3>2. embedQueue'[k] = embedQueue[k]
      BY <1>1, <2>3 DEF Inv, TypeOK
    <3>. QED
      BY <1>1, <2>1, <3>1, <3>2 DEF Follow, Alone, Served, Due, Embeds, InProgress
  <2>4. MineDone' /\ NoRowNoWork'
    BY <1>1, <2>1 DEF Follow, MineDone, NoRowNoWork, Embeds
  <2>. QED
    BY <2>2, <2>3, <2>4 DEF Follow
<1>5. CASE rows[i] # 0
  <2>1. embedder'[e].importer = i /\ embedder'[e].read = rows[i]
    BY <1>1, <1>5 DEF Inv, TypeOK
  <2>2. ASSUME i \notin unserved' PROVE Alone(i)' /\ Served(i)'
    <3>1. \A f \in Embedders : ~Embeds(f, i)
      BY <1>1, <2>2
    <3>. QED
      BY <1>1, <1>2, <2>1, <3>1 DEF Alone, Served, Embeds
  <2>3. ASSUME NEW k \in Importers \ unserved', k # i PROVE Alone(k)' /\ Served(k)'
    <3>1. k \in Importers \ unserved
      BY <1>1, <2>3
    <3>2. embedQueue'[k] = embedQueue[k]
      BY <1>1, <2>3 DEF Inv, TypeOK
    <3>3. Alone(k) /\ Served(k) /\ (Due(k) => Due(k)')
      BY <1>1, <3>1, <3>2 DEF Follow, Due, InProgress
    <3>4. \A f \in Embedders : /\ Embeds(f, k)' <=> Embeds(f, k)
                               /\ Embeds(f, k) => embedder'[f] = embedder[f]
      BY <1>2, <1>3, <2>1, <2>3 DEF Embeds
    <3>. QED
      BY <1>1, <3>3, <3>4 DEF Alone, Served
  <2>4. MineDone'
    BY <1>1 DEF Follow, MineDone
  <2>5. NoRowNoWork'
    BY <1>1, <1>2, <1>5, <2>1 DEF Follow, NoRowNoWork, Embeds
  <2>. QED
    BY <2>2, <2>3, <2>4, <2>5 DEF Follow
<1>. QED
  BY <1>4, <1>5

LEMMA EmbedEndFollow ==
  ASSUME Inv, Follow, NEW e \in Embedders, EmbedWrite(e) \/ EmbedFails(e)
  PROVE  Follow'
<1>0. PICK i : i = embedder[e].importer
  OBVIOUS
<1>1. /\ embedder[e] # Resting /\ UNCHANGED <<task, rows>>
      /\ embedder' = [embedder EXCEPT ![e] = Resting]
  BY DEF EmbedWrite, EmbedFails, etl
<1>2. /\ embedder[e] \in Embedding /\ i \in Importers /\ embedder[e].attempt \in 0 .. MAX_RETRIES
      /\ embedder'[e] = Resting /\ \A f \in Embedders \ {e} : embedder'[f] = embedder[f]
  BY <1>0, <1>1 DEF Inv, TypeOK, Embedding
<1>3. Embeds(e, i) /\ rows[i] # 0 /\ \A k \in Importers : ~Embeds(e, k)'
  BY <1>0, <1>2, BuyerSyncAssumption DEF Embeds, Resting, Nobody, Follow, NoRowNoWork
<1>4. \/ /\ embedding' = [embedding EXCEPT ![i] = embedder[e].read]
         /\ UNCHANGED <<embedQueue, unserved>>
      \/ /\ \E n \in 0 .. MAX_RETRIES : embedQueue' = [embedQueue EXCEPT ![i][n] = @ + 1]
         /\ UNCHANGED <<embedding, unserved>>
      \/ unserved' = unserved \union {i} /\ UNCHANGED <<embedding, embedQueue>>
  <2>1. CASE EmbedWrite(e)
    BY <1>0, <2>1 DEF EmbedWrite
  <2>2. CASE EmbedFails(e)
    <3>1. embedder[e].attempt < MAX_RETRIES => embedder[e].attempt + 1 \in 0 .. MAX_RETRIES
      BY <1>2, BuyerSyncAssumption
    <3>. QED
      BY <1>0, <2>2, <3>1 DEF EmbedFails
  <2>. QED
    BY <2>1, <2>2
<1>5. ASSUME NEW k \in Importers \ unserved', k # i PROVE Alone(k)' /\ Served(k)'
  <2>1. embedQueue'[k] = embedQueue[k] /\ embedding'[k] = embedding[k] /\ k \notin unserved
    BY <1>4, <1>5 DEF Inv, TypeOK
  <2>2. \A f \in Embedders : /\ Embeds(f, k)' <=> Embeds(f, k)
                             /\ Embeds(f, k) => embedder'[f] = embedder[f]
    BY <1>2, <1>3, <1>5 DEF Embeds
  <2>3. Alone(k) /\ Served(k) /\ (Due(k) => Due(k)')
    BY <1>1, <2>1 DEF Follow, Due, InProgress
  <2>. QED
    BY <1>1, <2>1, <2>2, <2>3 DEF Alone, Served
<1>6. ASSUME i \notin unserved' PROVE Alone(i)' /\ Served(i)'
  <2>1. Alone(i) /\ Served(i)
    BY <1>2, <1>4, <1>6 DEF Follow
  <2>2. \A f \in Embedders : ~Embeds(f, i)'
    BY <1>2, <1>3, <2>1 DEF Alone, Embeds
  <2>3. embedQueue[i] \in [0 .. MAX_RETRIES -> Nat]
    BY <1>2 DEF Inv, TypeOK
  <2>4. CASE /\ embedding' = [embedding EXCEPT ![i] = embedder[e].read]
             /\ UNCHANGED <<embedQueue, unserved>>
    <3>1. embedding'[i] = embedder[e].read
      BY <1>2, <2>4 DEF Inv, TypeOK
    <3>2. Due(i) \/ embedder[e].read = rows[i]
      BY <1>3, <2>1 DEF Served, Alone
    <3>3. Due(i) => Due(i)'
      BY <1>1, <2>4 DEF Due, InProgress
    <3>. QED
      BY <1>1, <2>2, <3>1, <3>2, <3>3 DEF Served, Alone
  <2>5. CASE \E n \in 0 .. MAX_RETRIES : embedQueue' = [embedQueue EXCEPT ![i][n] = @ + 1]
    <3>1. PICK n \in 0 .. MAX_RETRIES : embedQueue' = [embedQueue EXCEPT ![i][n] = @ + 1]
      BY <2>5
    <3>2. embedQueue'[i][n] = embedQueue[i][n] + 1
      BY <1>2, <2>3, <3>1 DEF Inv, TypeOK
    <3>3. embedQueue'[i][n] > 0
      <4>1. embedQueue[i][n] \in Nat
        BY <2>3
      <4>. QED
        BY <3>2, <4>1
    <3>4. Due(i)'
      BY <3>3 DEF Due
    <3>. QED
      BY <2>2, <3>4 DEF Served, Alone
  <2>. QED
    BY <1>4, <1>6, <2>4, <2>5
<1>7. MineDone'
  BY <1>1 DEF Follow, MineDone
<1>8. NoRowNoWork'
  <2>. SUFFICES ASSUME NEW k \in Importers, rows[k] = 0
                PROVE  embedding'[k] = 0 /\ \A f \in Embedders : ~Embeds(f, k)'
    BY <1>1 DEF NoRowNoWork
  <2>1. k # i /\ embedding[k] = 0 /\ \A f \in Embedders : ~Embeds(f, k)
    BY <1>3 DEF Follow, NoRowNoWork
  <2>2. embedding'[k] = embedding[k]
    BY <1>4, <2>1 DEF Inv, TypeOK
  <2>3. \A f \in Embedders : ~Embeds(f, k)'
    BY <1>2, <1>3, <2>1 DEF Embeds
  <2>. QED
    BY <2>1, <2>2, <2>3
<1>. QED
  BY <1>2, <1>5, <1>6, <1>7, <1>8 DEF Follow

LEMMA InitFollow == Init => Follow
<1>. SUFFICES ASSUME Init PROVE Follow
  OBVIOUS
<1>1. \A i \in Importers, e \in Embedders : ~Embeds(e, i)
  BY BuyerSyncAssumption DEF Init, Embeds, Resting, Nobody
<1>2. \A i \in Importers : embedding[i] = 0 /\ rows[i] = 0
  BY DEF Init
<1>3. MineDone
  BY EmptySeq DEF Init, MineDone
<1>. QED
  BY <1>1, <1>2, <1>3 DEF Follow, NoRowNoWork, Alone, Served

LEMMA NextFollow == Inv /\ Follow /\ [Next]_vars => Follow'
<1>. SUFFICES ASSUME Inv, Follow, [Next]_vars PROVE Follow'
  OBVIOUS
<1>1. ASSUME UNCHANGED <<task, rows, ai, unserved>> PROVE Follow'
  BY <1>1 DEF Follow, MineDone, NoRowNoWork, Alone, Served, Due, Embeds, InProgress, ai
<1>2. CASE \E q \in Queries : Trigger(q) \/ Start(q)
  BY <1>1, <1>2, StartFollow DEF Trigger
<1>3. CASE \E r \in RunIds : TaskStep(r) \/ RowFails(r) \/ Kill(r)
  <2>1. PICK r \in RunIds : TaskStep(r) \/ RowFails(r) \/ Kill(r)
    BY <1>3
  <2>2. \/ FetchPage(r) \/ (SkipInvalid(r) \/ Select(r) \/ Finish(r)) \/ Write(r)
        \/ (SkipDuplicate(r) \/ SkipDeadlock(r) \/ RowFails(r))
        \/ (CommitBatch(r) \/ CommitRest(r)) \/ Dispatch(r) \/ (Return(r) \/ Kill(r))
    BY <2>1 DEF TaskStep
  <2>. QED
    BY <2>2, FetchFollow, PickFollow, WriteFollow, SkipFollow, CommitFollow, DispatchFollow, EndFollow
<1>4. CASE \E r \in RunIds, status \in {"failed", "auth_required"} : FetchFails(r, status)
  BY <1>4, FetchFollow
<1>5. CASE \E e \in Embedders : EmbedderStep(e) \/ EmbedFails(e)
  BY <1>5, EmbedReadFollow, EmbedEndFollow DEF EmbedderStep
<1>6. CASE UNCHANGED vars
  BY <1>1, <1>6 DEF vars, etl
<1>. QED
  BY <1>2, <1>3, <1>4, <1>5, <1>6 DEF Next

(* When all is quiet a buyer is matched by the row it has, however syncs    *)
(* and embedding tasks overlapped, unless a request for its embedding was   *)
(* lost or two of them overlapped (the dispatch after the last commit, and  *)
(* the read at the start of generate_buyer).                                *)
THEOREM RowsAreEmbedded == Spec => []EmbeddingFollowsRow
<1>1. Follow => EmbeddingFollowsRow
  <2>. SUFFICES ASSUME Follow, Quiet, NEW i \in Importers \ unserved PROVE embedding[i] = rows[i]
    BY DEF EmbeddingFollowsRow
  <2>1. Served(i) /\ ~Due(i)
    BY DEF Follow, Quiet, Due
  <2>2. \A e \in Embedders : ~Embeds(e, i)
    BY BuyerSyncAssumption DEF Quiet, Embeds, Resting, Nobody
  <2>. QED
    BY <2>1, <2>2 DEF Served
<1>2. Spec => []Follow
  BY InitFollow, NextFollow, Invariant, PTL DEF Spec
<1>. QED
  BY <1>1, <1>2, PTL
=============================================================================
