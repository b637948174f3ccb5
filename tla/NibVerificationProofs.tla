------------------------- MODULE NibVerificationProofs -------------------------
(***************************************************************************)
(* Theorems about the verification of a business number, for any number of *)
(* registrations, executions, attempts and faults.                         *)
(***************************************************************************)
EXTENDS NibVerification, TLAPS

(* What the merge of the two sources' replies yields. *)
Result(bp, oss) == mergeNibSources(fetchBadanPerizinan(bp), oss)

(* The three records the first source's reply is turned into. *)
LEMMA Records ==
  /\ NoData \in NibData /\ calculateScore(NoData) = 0
  /\ Invalid \in NibData /\ ~Invalid.is_valid /\ Invalid.compliance = "INVALID"
  /\ Valid("badanperizinan") \in NibData /\ Valid("badanperizinan").is_valid
  /\ Valid("badanperizinan").compliance = "COMPLIANT"
  /\ Sandbox \in NibData /\ Sandbox.is_valid /\ Sandbox.compliance = "COMPLIANT"
  /\ Sandbox.sandbox /\ Sandbox.sources = {"sandbox"}
  /\ calculateScore(Invalid) = 0 /\ Invalid.sources = {}
<1>1. NoData \in NibData /\ Invalid \in NibData /\ Valid("badanperizinan") \in NibData
  BY DEF NoData, Invalid, Valid, NibData, Scale, Source, OssBody
<1>2. Sandbox \in NibData
  BY DEF Sandbox, Valid, NibData, Scale, Source, OssBody
<1>3. calculateScore(NoData) = 0
  BY DEF NoData, calculateScore
<1>4. calculateScore(Invalid) = 0
  BY DEF NoData, Invalid, calculateScore
<1>5. ~Invalid.is_valid /\ Invalid.compliance = "INVALID" /\ Invalid.sources = {}
  BY DEF Invalid, NoData
<1>6. Valid("badanperizinan").is_valid /\ Valid("badanperizinan").compliance = "COMPLIANT"
  BY DEF Valid
<1>7. /\ Sandbox.is_valid /\ Sandbox.compliance = "COMPLIANT"
      /\ Sandbox.sandbox /\ Sandbox.sources = {"sandbox"}
  BY DEF Sandbox, Valid
<1>. QED
  BY <1>1, <1>2, <1>3, <1>4, <1>5, <1>6, <1>7

(* The record is well formed whatever the replies. *)
LEMMA ResultType ==
  ASSUME NEW bp \in Reply \union {None}, NEW oss \in OssReply \union {None},
         listed \in BOOLEAN, scale \in Scale
  PROVE  Result(bp, oss) \in NibData
<1>1. fetchBadanPerizinan(bp) \in NibData
  BY Records DEF fetchBadanPerizinan
<1>2. QED
  BY <1>1 DEF Result, mergeNibSources, NibData, Source, Scale, OssBody

(* A score is a percentage; what is valid and compliant scores at least 80. *)
LEMMA ScoreBounds ==
  ASSUME NEW d \in NibData
  PROVE  /\ calculateScore(d) \in 0 .. 100
         /\ d.is_valid /\ d.compliance = "COMPLIANT" => calculateScore(d) >= 80
<1>. DEFINE v == IF d.is_valid THEN 50 ELSE 0
            c == IF d.compliance = "COMPLIANT" THEN 30 ELSE 0
            p == CASE d.scale = "MENENGAH" -> 20
                   [] d.scale = "KECIL"    -> 15
                   [] d.scale = "MIKRO"    -> 5
                   [] OTHER                -> 0
<1>1. v \in {0, 50} /\ (d.is_valid => v = 50)
  OBVIOUS
<1>2. c \in {0, 30} /\ (d.compliance = "COMPLIANT" => c = 30)
  OBVIOUS
<1>3. p \in {0, 5, 15, 20}
  <2>1. CASE d.scale = "MENENGAH"  BY <2>1
  <2>2. CASE d.scale = "KECIL"     BY <2>2
  <2>3. CASE d.scale = "MIKRO"     BY <2>3
  <2>4. CASE d.scale = ""          BY <2>4
  <2>. QED  BY <2>1, <2>2, <2>3, <2>4 DEF NibData, Scale
<1>4. calculateScore(d) = v + c + p
  BY DEF calculateScore
<1>. HIDE DEF v, c, p
<1>. QED
  BY <1>1, <1>2, <1>3, <1>4

(* What a record rests on: a listed number, the sandbox's word, or an OSS    *)
(* body without a record.                                                   *)
Backed(d) == \/ listed
             \/ d.sandbox /\ d.sources = {"sandbox"}
             \/ d.oss_public_data = "noRecord" /\ d.sources = {"oss_public"}

(* A valid record scores at least 80, and rests on something.               *)
LEMMA ValidResult ==
  ASSUME NEW bp \in Reply, NEW oss \in OssReply, listed \in BOOLEAN, scale \in Scale,
         Result(bp, oss).is_valid
  PROVE  /\ calculateScore(Result(bp, oss)) >= 80
         /\ Backed(Result(bp, oss))
<1>1. CASE ossLooksValid(oss)
  <2>1. fetchBadanPerizinan(bp).compliance \in {"COMPLIANT", "INVALID"}
    BY Records DEF fetchBadanPerizinan
  <2>2. Result(bp, oss).compliance = "COMPLIANT"
    BY <1>1, <2>1 DEF Result, mergeNibSources
  <2>3. Result(bp, oss) \in NibData
    BY ResultType
  <2>4. Result(bp, oss).is_valid
    BY <1>1 DEF Result, mergeNibSources
  <2>5. ASSUME ~listed PROVE Backed(Result(bp, oss))
    <3>1. oss = "seemsValid"
      BY <1>1, <2>5 DEF ossLooksValid
    <3>2. fetchBadanPerizinan(bp).sources \in {{"sandbox"}, {}}
      BY <2>5, Records DEF fetchBadanPerizinan
    <3>3. /\ Result(bp, oss).oss_public_data = "noRecord"
          /\ Result(bp, oss).sources = (fetchBadanPerizinan(bp).sources \union {"oss_public"}) \ {"sandbox"}
      BY <1>1, <3>1 DEF Result, mergeNibSources
    <3>4. Result(bp, oss).sources = {"oss_public"}
      BY <3>2, <3>3
    <3>. QED
      BY <3>3, <3>4 DEF Backed
  <2>6. Backed(Result(bp, oss))
    BY <2>5 DEF Backed
  <2>. QED
    BY <2>2, <2>3, <2>4, <2>6, ScoreBounds
<1>2. CASE ~ossLooksValid(oss)
  <2>1. Result(bp, oss) = fetchBadanPerizinan(bp)
    BY <1>2 DEF Result, mergeNibSources
  <2>2. \/ Result(bp, oss) = Sandbox
        \/ listed /\ Result(bp, oss) = Valid("badanperizinan")
    BY <2>1, Records DEF fetchBadanPerizinan
  <2>3. Result(bp, oss).compliance = "COMPLIANT"
    BY <2>2, Records
  <2>4. calculateScore(Result(bp, oss)) >= 80
    BY <2>3, ResultType, ScoreBounds
  <2>. QED
    BY <2>2, <2>4, Records DEF Backed
<1>3. QED
  BY <1>1, <1>2

(* An invalid one scores nothing, and rests on a number that is not listed  *)
(* or on a registry that erred.                                             *)
LEMMA InvalidResult ==
  ASSUME NEW bp \in Reply, NEW oss \in OssReply, listed \in BOOLEAN,
         ~Result(bp, oss).is_valid
  PROVE  /\ calculateScore(Result(bp, oss)) = 0
         /\ ~listed \/ bp = "errs"
<1>1. ~ossLooksValid(oss)
  BY DEF Result, mergeNibSources
<1>2. Result(bp, oss) = fetchBadanPerizinan(bp)
  BY <1>1 DEF Result, mergeNibSources
<1>3. bp # "down" /\ ~(bp = "answers" /\ listed)
  BY <1>2, Records DEF fetchBadanPerizinan
<1>4. Result(bp, oss) = Invalid
  BY <1>2, <1>3 DEF fetchBadanPerizinan
<1>. QED
  BY <1>3, <1>4, Records DEF Reply

-----------------------------------------------------------------------------
(* Type correctness. *)

(* A job that is still to be executed has an attempt left, and only a job    *)
(* at work has an owner.                                                    *)
JobOK ==
  /\ job.state \in {"waiting", "active"} => job.made < ATTEMPTS
  /\ job.owner # None => job.state = "active"

TInv == TypeOK /\ JobOK

LEMMA Bounds ==
  /\ ATTEMPTS \in Nat /\ 0 < ATTEMPTS /\ MAX_STALLED \in Nat
  /\ MaxDbErrors \in Nat /\ MaxStalls \in Nat
  /\ None \notin Workers
  /\ \A m, n \in Nat : m < n => m + 1 \in 0 .. n
<1>1. /\ ATTEMPTS \in Nat /\ 0 < ATTEMPTS
      /\ MAX_STALLED \in Nat /\ MaxDbErrors \in Nat /\ MaxStalls \in Nat
  <2>1. ATTEMPTS \in Nat \ {0}
    BY NibAssumption, Zenon
  <2>2. MAX_STALLED \in Nat /\ MaxDbErrors \in Nat /\ MaxStalls \in Nat
    BY NibAssumption, Zenon
  <2>. QED
    BY <2>1, <2>2
<1>2. None \notin Workers
  BY NibAssumption
<1>3. \A m, n \in Nat : m < n => m + 1 \in 0 .. n
  OBVIOUS
<1>. QED
  BY <1>1, <1>2, <1>3

LEMMA InitTInv == Init => TInv
<1>. SUFFICES ASSUME Init PROVE TInv
  OBVIOUS
<1>1. row \in Row
  BY Records DEF Init, NoRow, Row
<1>2. job \in Job /\ JobOK
  BY Bounds DEF Init, NoJob, Job, JobOK
<1>3. worker \in [Workers -> Worker]
  BY DEF Init, Idle, Worker, WorkerPc
<1>4. scale \in Scale
  BY NibAssumption DEF Init, Scale
<1>5. dbErrors \in 0 .. MaxDbErrors /\ stalls \in 0 .. MaxStalls
  BY Bounds DEF Init
<1>6. /\ listed \in BOOLEAN /\ products \in BOOLEAN /\ lost \in BOOLEAN /\ refused \in BOOLEAN
      /\ client \in [Clients -> {"idle", "insert", "dispatch"}]
  BY DEF Init
<1>. QED
  BY <1>1, <1>2, <1>3, <1>4, <1>5, <1>6 DEF TypeOK, TInv

LEMMA IdleWorker == Idle \in Worker
BY DEF Idle, Worker, WorkerPc

(* One execution moves at a time. *)
LEMMA SetWorkerType ==
  ASSUME TypeOK, NEW w \in Workers, NEW r \in Worker, SetWorker(w, r)
  PROVE  worker' \in [Workers -> Worker]
BY DEF TypeOK, SetWorker

(* What an execution's end makes of the job. *)
LEMMA JobEnds ==
  ASSUME TInv, NEW w \in Workers, JobCompletes(w) \/ JobThrows(w)
  PROVE  job' \in Job /\ JobOK'
<1>1. job \in Job
  BY DEF TInv, TypeOK
<1>2. CASE job.owner # w
  BY <1>1, <1>2 DEF TInv, JobOK, JobCompletes, JobThrows
<1>3. CASE job.owner = w /\ JobCompletes(w)
  BY <1>1, <1>3, Bounds DEF Job, JobOK, JobCompletes
<1>4. CASE job.owner = w /\ JobThrows(w)
  <2>1. job.state = "active" /\ job.made < ATTEMPTS /\ job.made \in Nat
    BY <1>1, <1>4, Bounds DEF TInv, JobOK, Job
  <2>2. job.made + 1 \in 0 .. ATTEMPTS
    BY <2>1, Bounds
  <2>3. job' = [job EXCEPT !.state = IF job.made + 1 < ATTEMPTS THEN "waiting" ELSE "failed",
                           !.made = job.made + 1, !.owner = None]
    BY <1>4 DEF JobThrows
  <2>4. job' \in Job
    BY <1>1, <2>2, <2>3 DEF Job
  <2>5. JobOK'
    BY <1>1, <2>2, <2>3 DEF JobOK, Job
  <2>. QED
    BY <2>4, <2>5
<1>. QED
  BY <1>2, <1>3, <1>4

(* Every step keeps every variable in its type. *)
LEMMA StepTInv ==
  ASSUME TInv, [Next]_vars
  PROVE  TInv'
<1>. USE DEF TInv
<1>1. CASE UNCHANGED vars
  BY <1>1 DEF vars, world, TypeOK, JobOK
<1>2. ASSUME NEW c \in Clients, Register(c) PROVE TInv'
  BY <1>2 DEF Register, TypeOK, JobOK, world
<1>3. ASSUME NEW c \in Clients, InsertUmkm(c) PROVE TInv'
  <2>1. row' \in Row
    BY <1>3, Records DEF InsertUmkm, NoRow, Row, Status, TypeOK
  <2>2. client' \in [Clients -> {"idle", "insert", "dispatch"}]
    BY <1>3 DEF InsertUmkm, TypeOK
  <2>. QED
    BY <1>3, <2>1, <2>2 DEF InsertUmkm, TypeOK, JobOK, world
<1>4. ASSUME NEW c \in Clients, DispatchVerification(c) PROVE TInv'
  <2>1. job' \in Job /\ JobOK'
    BY <1>4, Bounds DEF DispatchVerification, NoJob, Job, JobOK
  <2>. QED
    BY <1>4, <2>1 DEF DispatchVerification, TypeOK, world
<1>5. ASSUME NEW c \in Clients, BreakOff(c) PROVE TInv'
  BY <1>5 DEF BreakOff, TypeOK, JobOK, world
<1>6. CASE AddProduct
  BY <1>6 DEF AddProduct, TypeOK, JobOK, world
<1>7. ASSUME NEW w \in Workers, Take(w) PROVE TInv'
  <2>1. job' \in Job /\ JobOK'
    BY <1>7 DEF Take, Job, JobOK, TypeOK
  <2>2. worker' \in [Workers -> Worker]
    BY <1>7, SetWorkerType DEF Take, Idle, Worker, WorkerPc
  <2>. QED
    BY <1>7, <2>1, <2>2 DEF Take, TypeOK, world
<1>8. ASSUME NEW w \in Workers, MarkInProgress(w) PROVE TInv'
  <2>1. worker' \in [Workers -> Worker]
    BY <1>8, SetWorkerType DEF MarkInProgress, Idle, Worker, WorkerPc
  <2>2. row' \in Row
    BY <1>8 DEF MarkInProgress, Row, Status, TypeOK
  <2>. QED
    BY <1>8, <2>1, <2>2 DEF MarkInProgress, TypeOK, JobOK, world
<1>9. ASSUME NEW w \in Workers, BadanPerizinanReplies(w) PROVE TInv'
  <2>1. PICK reply \in Reply : /\ Settle(w, [worker[w] EXCEPT !.bp = reply])
                               /\ refused' = (refused \/ reply = "errs")
    BY <1>9 DEF BadanPerizinanReplies
  <2>2. worker' \in [Workers -> Worker]
    <3>. DEFINE r == [worker[w] EXCEPT !.bp = reply]
    <3>1. [r EXCEPT !.pc = IF None \in {r.bp, r.oss} THEN "ask" ELSE "write"] \in Worker
      BY DEF TypeOK, Worker, WorkerPc
    <3>. QED
      BY <2>1, <3>1, SetWorkerType DEF Settle
  <2>3. refused' \in BOOLEAN
    BY <2>1
  <2>. QED
    BY <1>9, <2>2, <2>3 DEF BadanPerizinanReplies, TypeOK, JobOK, world
<1>10. ASSUME NEW w \in Workers, OssReplies(w) PROVE TInv'
  <2>1. PICK reply \in OssReply : Settle(w, [worker[w] EXCEPT !.oss = reply])
    BY <1>10 DEF OssReplies
  <2>2. worker' \in [Workers -> Worker]
    <3>. DEFINE r == [worker[w] EXCEPT !.oss = reply]
    <3>1. [r EXCEPT !.pc = IF None \in {r.bp, r.oss} THEN "ask" ELSE "write"] \in Worker
      BY DEF TypeOK, Worker, WorkerPc
    <3>. QED
      BY <2>1, <3>1, SetWorkerType DEF Settle
  <2>. QED
    BY <1>10, <2>2 DEF OssReplies, TypeOK, JobOK, world
<1>11. ASSUME NEW w \in Workers, WriteResult(w) PROVE TInv'
  <2>1. worker' \in [Workers -> Worker]
    BY <1>11, IdleWorker, SetWorkerType DEF WriteResult
  <2>2. job' \in Job /\ JobOK'
    BY <1>11, JobEnds DEF WriteResult
  <2>3. worker[w].bp \in Reply \union {None} /\ worker[w].oss \in OssReply \union {None}
    BY DEF TypeOK, Worker
  <2>. DEFINE data == Result(worker[w].bp, worker[w].oss)
  <2>4. data \in NibData /\ calculateScore(data) \in 0 .. 100
    BY <2>3, ResultType, ScoreBounds DEF TypeOK
  <2>5. row' = [status |-> IF data.is_valid THEN "VERIFIED" ELSE "FAILED",
                score  |-> calculateScore(data), data |-> data]
    BY <1>11 DEF WriteResult, Result
  <2>. HIDE DEF data
  <2>6. row' \in Row
    BY <2>4, <2>5 DEF Row, Status
  <2>. QED
    BY <1>11, <2>1, <2>2, <2>6 DEF WriteResult, TypeOK, world
<1>12. ASSUME NEW w \in Workers, MarkFailed(w) PROVE TInv'
  <2>1. worker' \in [Workers -> Worker]
    BY <1>12, IdleWorker, SetWorkerType DEF MarkFailed
  <2>2. job' \in Job /\ JobOK'
    BY <1>12, JobEnds DEF MarkFailed
  <2>3. row' \in Row
    BY <1>12 DEF MarkFailed, Row, Status, TypeOK
  <2>. QED
    BY <1>12, <2>1, <2>2, <2>3 DEF MarkFailed, TypeOK, world
<1>13. ASSUME NEW w \in Workers, DatabaseError(w) PROVE TInv'
  <2>1. worker' \in [Workers -> Worker]
    <3>1. [worker[w] EXCEPT !.pc = "markFailed"] \in Worker
      BY DEF TypeOK, Worker, WorkerPc
    <3>. QED
      BY <1>13, <3>1, IdleWorker, SetWorkerType DEF DatabaseError
  <2>2. job' \in Job /\ JobOK'
    <3>1. CASE UNCHANGED job
      BY <3>1 DEF TypeOK, JobOK
    <3>. QED
      BY <1>13, <3>1, JobEnds DEF DatabaseError
  <2>3. dbErrors' \in 0 .. MaxDbErrors
    BY <1>13, Bounds DEF DatabaseError, TypeOK
  <2>. QED
    BY <1>13, <2>1, <2>2, <2>3 DEF DatabaseError, TypeOK, world
<1>14. ASSUME NEW w \in Workers, Stall(w) PROVE TInv'
  <2>1. worker' \in [Workers -> Worker]
    BY <1>14, IdleWorker, SetWorkerType DEF Stall, TypeOK
  <2>2. job' \in Job /\ JobOK'
    <3>1. CASE UNCHANGED job
      BY <3>1 DEF TypeOK, JobOK
    <3>2. CASE job' # job
      <4>1. job \in Job /\ job.stalled \in Nat /\ job.stalled + 1 \in Nat
        BY DEF TypeOK, Job
      <4>2. /\ job' = [job EXCEPT !.state = IF job.stalled < MAX_STALLED THEN "waiting" ELSE "failed",
                                  !.stalled = job.stalled + 1, !.owner = None]
            /\ job.state = "active"
        BY <1>14, <3>2 DEF Stall
      <4>3. job.made < ATTEMPTS
        BY <4>2 DEF JobOK
      <4>4. job' \in Job
        BY <4>1, <4>2 DEF Job
      <4>5. job'.made = job.made /\ job'.owner = None
        BY <4>1, <4>2 DEF Job
      <4>. QED
        BY <4>3, <4>4, <4>5 DEF JobOK
    <3>. QED
      BY <3>1, <3>2
  <2>3. stalls' \in 0 .. MaxStalls
    BY <1>14, Bounds DEF Stall, TypeOK
  <2>. QED
    BY <1>14, <2>1, <2>2, <2>3 DEF Stall, TypeOK, world
<1>. QED
  BY <1>1, <1>2, <1>3, <1>4, <1>5, <1>6, <1>7, <1>8, <1>9, <1>10, <1>11, <1>12, <1>13, <1>14
  DEF Next, Registration, Execution

(* Every column, record and counter of the verification stays in its type:  *)
(* in particular a score is a percentage, and no job is attempted more than *)
(* ATTEMPTS times (verification.producer.ts 19-26).                         *)
THEOREM TypeCorrect == Spec => []TypeOK
<1>1. TInv /\ [Next]_vars => TInv'
  BY StepTInv
<1>. QED
  BY InitTInv, <1>1, PTL DEF Spec, TInv

-----------------------------------------------------------------------------
(* What a row means. *)

(* A job exists only for a registered company, and it is dispatched once. *)
RegistrationOK ==
  /\ row.status = "none" => row = NoRow /\ job = NoJob /\ \A c \in Clients : client[c] # "dispatch"
  /\ \A c \in Clients : client[c] = "dispatch" =>
       job = NoJob /\ \A d \in Clients : client[d] = "dispatch" => d = c

(* An execution writes with both replies in hand, and remembers errors. *)
WorkersOK == \A w \in Workers :
  /\ worker[w].pc = "write" => worker[w].bp # None /\ worker[w].oss # None
  /\ worker[w].bp = "errs" => refused
  /\ worker[w].pc = "markFailed" => dbErrors > 0

RowOK ==
  /\ row.score = calculateScore(row.data)
  /\ row.status = "VERIFIED" =>
       /\ row.score >= 80
       /\ Backed(row.data)
  /\ row.status = "FAILED" =>
       /\ ~listed \/ refused \/ dbErrors > 0
       /\ row.score > 0 => dbErrors > 0

(* As long as no worker went silent, only the job's owner is at work, and a *)
(* score is written by the execution that completes the job.                *)
OneExecution == stalls = 0 =>
  /\ \A w \in Workers : worker[w].pc # "idle" => job.state = "active" /\ job.owner = w
  /\ row.score > 0 => job.state = "completed" /\ row.status = "VERIFIED"

SInv == TInv /\ RegistrationOK /\ WorkersOK /\ RowOK /\ OneExecution

LEMMA InitSInv == Init => SInv
<1>. SUFFICES ASSUME Init PROVE SInv
  OBVIOUS
<1>1. TInv
  BY InitTInv
<1>2. RegistrationOK
  BY DEF Init, RegistrationOK
<1>3. WorkersOK
  BY Bounds, NibAssumption DEF Init, WorkersOK, Idle
<1>4. RowOK
  BY Records DEF Init, RowOK, NoRow
<1>5. OneExecution
  BY DEF Init, OneExecution, Idle, NoRow
<1>. QED
  BY <1>1, <1>2, <1>3, <1>4, <1>5 DEF SInv

LEMMA SetWorkerAt ==
  ASSUME TypeOK, NEW w \in Workers, NEW r, SetWorker(w, r)
  PROVE  \A u \in Workers : worker'[u] = IF u = w THEN r ELSE worker[u]
BY DEF TypeOK, SetWorker

(* A job that was never dispatched is nobody's. *)
LEMMA NobodysJob ==
  ASSUME NEW w \in Workers, job = NoJob, JobCompletes(w) \/ JobThrows(w)
  PROVE  job' = NoJob
BY Bounds DEF NoJob, JobCompletes, JobThrows

LEMMA StepRegistrationOK ==
  ASSUME TInv, RegistrationOK, [Next]_vars
  PROVE  RegistrationOK'
<1>. USE DEF RegistrationOK
<1>1. CASE UNCHANGED vars
  BY <1>1 DEF vars, world
<1>2. ASSUME NEW c \in Clients, Register(c) PROVE RegistrationOK'
  BY <1>2 DEF Register, TInv, TypeOK
<1>3. ASSUME NEW c \in Clients, InsertUmkm(c) PROVE RegistrationOK'
  <2>1. CASE row.status = "none"
    BY <1>3, <2>1 DEF InsertUmkm, NoRow, TInv, TypeOK
  <2>2. CASE row.status # "none"
    BY <1>3, <2>2 DEF InsertUmkm, TInv, TypeOK
  <2>. QED
    BY <2>1, <2>2
<1>4. ASSUME NEW c \in Clients, DispatchVerification(c) PROVE RegistrationOK'
  BY <1>4 DEF DispatchVerification, TInv, TypeOK
<1>5. ASSUME NEW c \in Clients, BreakOff(c) PROVE RegistrationOK'
  BY <1>5 DEF BreakOff, TInv, TypeOK
<1>6. CASE AddProduct
  BY <1>6 DEF AddProduct
<1>7. ASSUME NEW w \in Workers, Take(w) PROVE RegistrationOK'
  BY <1>7 DEF Take, NoJob
<1>8. ASSUME NEW w \in Workers, MarkInProgress(w) PROVE RegistrationOK'
  BY <1>8 DEF MarkInProgress, TInv, TypeOK, Row
<1>9. ASSUME NEW w \in Workers, BadanPerizinanReplies(w) \/ OssReplies(w) PROVE RegistrationOK'
  BY <1>9 DEF BadanPerizinanReplies, OssReplies
<1>10. ASSUME NEW w \in Workers, WriteResult(w) PROVE RegistrationOK'
  <2>1. row'.status # "none"
    BY <1>10 DEF WriteResult
  <2>. QED
    BY <1>10, <2>1, NobodysJob DEF WriteResult
<1>11. ASSUME NEW w \in Workers, MarkFailed(w) PROVE RegistrationOK'
  <2>1. row'.status # "none"
    BY <1>11 DEF MarkFailed, TInv, TypeOK, Row
  <2>. QED
    BY <1>11, <2>1, NobodysJob DEF MarkFailed
<1>12. ASSUME NEW w \in Workers, DatabaseError(w) PROVE RegistrationOK'
  BY <1>12, NobodysJob DEF DatabaseError
<1>13. ASSUME NEW w \in Workers, Stall(w) PROVE RegistrationOK'
  BY <1>13 DEF Stall, NoJob
<1>. QED
  BY <1>1, <1>2, <1>3, <1>4, <1>5, <1>6, <1>7, <1>8, <1>9, <1>10, <1>11, <1>12, <1>13
  DEF Next, Registration, Execution

LEMMA StepWorkersOK ==
  ASSUME TInv, WorkersOK, [Next]_vars
  PROVE  WorkersOK'
<1>. USE DEF WorkersOK
<1>1. CASE UNCHANGED <<worker, refused, dbErrors>>
  BY <1>1
<1>2. ASSUME NEW w \in Workers, NEW r, SetWorker(w, r),
             UNCHANGED <<refused, dbErrors>>,
             r.pc = "write" => r.bp # None /\ r.oss # None,
             r.bp = "errs" => refused, r.pc = "markFailed" => dbErrors > 0
      PROVE  WorkersOK'
  BY <1>2, SetWorkerAt DEF TInv
<1>3. /\ Idle.pc = "idle" /\ Idle.bp # "errs"
      /\ \A p \in WorkerPc : [Idle EXCEPT !.pc = p].pc = p /\ [Idle EXCEPT !.pc = p].bp = None
  BY NibAssumption DEF Idle
<1>4. ASSUME NEW w \in Workers, Take(w) \/ MarkInProgress(w) PROVE WorkersOK'
  <2>1. PICK p \in {"mark", "ask"} : SetWorker(w, [Idle EXCEPT !.pc = p])
    BY <1>4 DEF Take, MarkInProgress
  <2>2. UNCHANGED <<refused, dbErrors>>
    BY <1>4 DEF Take, MarkInProgress
  <2>3. [Idle EXCEPT !.pc = p].pc \in {"mark", "ask"} /\ [Idle EXCEPT !.pc = p].bp # "errs"
    BY NibAssumption DEF Idle
  <2>. QED
    BY <1>2, <2>1, <2>2, <2>3
<1>5. ASSUME NEW w \in Workers, BadanPerizinanReplies(w) PROVE WorkersOK'
  <2>1. PICK reply \in Reply : /\ Settle(w, [worker[w] EXCEPT !.bp = reply])
                               /\ refused' = (refused \/ reply = "errs")
    BY <1>5 DEF BadanPerizinanReplies
  <2>. DEFINE r == [worker[w] EXCEPT !.bp = reply,
                      !.pc = IF None \in {reply, worker[w].oss} THEN "ask" ELSE "write"]
  <2>2. worker[w] \in Worker
    BY DEF TInv, TypeOK
  <2>3. SetWorker(w, r)
    BY <2>1, <2>2 DEF Settle, Worker
  <2>4. /\ r.pc = "write" => r.bp # None /\ r.oss # None
        /\ r.bp = reply /\ r.pc # "markFailed"
    BY <2>2 DEF Worker
  <2>5. \A u \in Workers : worker'[u] = IF u = w THEN r ELSE worker[u]
    BY <2>3, SetWorkerAt DEF TInv
  <2>6. UNCHANGED dbErrors
    BY <1>5 DEF BadanPerizinanReplies
  <2>. HIDE DEF r
  <2>. QED
    BY <2>1, <2>4, <2>5, <2>6
<1>6. ASSUME NEW w \in Workers, OssReplies(w) PROVE WorkersOK'
  <2>1. PICK reply \in OssReply : Settle(w, [worker[w] EXCEPT !.oss = reply])
    BY <1>6 DEF OssReplies
  <2>. DEFINE r == [worker[w] EXCEPT !.oss = reply,
                      !.pc = IF None \in {worker[w].bp, reply} THEN "ask" ELSE "write"]
  <2>2. worker[w] \in Worker
    BY DEF TInv, TypeOK
  <2>3. SetWorker(w, r)
    BY <2>1, <2>2 DEF Settle, Worker
  <2>4. /\ r.pc = "write" => r.bp # None /\ r.oss # None
        /\ r.bp = worker[w].bp /\ r.pc # "markFailed"
    BY <2>2 DEF Worker
  <2>5. UNCHANGED <<refused, dbErrors>>
    BY <1>6 DEF OssReplies
  <2>. HIDE DEF r
  <2>. QED
    BY <1>2, <2>3, <2>4, <2>5
<1>7. ASSUME NEW w \in Workers, WriteResult(w) \/ MarkFailed(w) PROVE WorkersOK'
  BY <1>2, <1>3, <1>7 DEF WriteResult, MarkFailed
<1>8. ASSUME NEW w \in Workers, DatabaseError(w) PROVE WorkersOK'
  <2>1. dbErrors' > 0
    BY <1>8 DEF DatabaseError, TInv, TypeOK
  <2>2. PICK r : /\ SetWorker(w, r)
                 /\ r.pc \in {"idle", "markFailed"} /\ (r.bp = "errs" => refused)
    <3>1. CASE SetWorker(w, Idle)
      BY <1>3, <3>1
    <3>2. CASE SetWorker(w, [worker[w] EXCEPT !.pc = "markFailed"])
      <4>. DEFINE r == [worker[w] EXCEPT !.pc = "markFailed"]
      <4>1. r.pc = "markFailed" /\ r.bp = worker[w].bp
        BY DEF TInv, TypeOK, Worker
      <4>. QED
        BY <3>2, <4>1
    <3>. QED
      BY <1>8, <3>1, <3>2 DEF DatabaseError
  <2>3. \A u \in Workers : worker'[u] = IF u = w THEN r ELSE worker[u]
    BY <2>2, SetWorkerAt DEF TInv
  <2>4. UNCHANGED refused
    BY <1>8 DEF DatabaseError
  <2>. QED
    BY <2>1, <2>2, <2>3, <2>4
<1>9. ASSUME NEW w \in Workers, Stall(w) PROVE WorkersOK'
  BY <1>1, <1>2, <1>3, <1>9 DEF Stall
<1>10. ASSUME NEW c \in Clients, Register(c) \/ Registration(c) \/ BreakOff(c) PROVE WorkersOK'
  BY <1>1, <1>10 DEF Register, Registration, InsertUmkm, DispatchVerification, BreakOff
<1>11. CASE AddProduct
  BY <1>1, <1>11 DEF AddProduct
<1>. QED
  BY <1>1, <1>4, <1>5, <1>6, <1>7, <1>8, <1>9, <1>10, <1>11 DEF Next, Execution, vars

LEMMA StepRowOK ==
  ASSUME SInv, [Next]_vars
  PROVE  RowOK'
<1>1. TypeOK /\ WorkersOK /\ RowOK
  BY DEF SInv, TInv
<1>2. CASE UNCHANGED <<row, listed, scale, refused, dbErrors>>
  BY <1>1, <1>2 DEF RowOK, Backed, calculateScore
<1>3. ASSUME UNCHANGED <<row, listed>>, refused => refused', dbErrors > 0 => dbErrors' > 0
      PROVE  RowOK'
  BY <1>1, <1>3 DEF RowOK, Backed, calculateScore
<1>4. ASSUME NEW c \in Clients, Register(c) \/ DispatchVerification(c) \/ BreakOff(c) PROVE RowOK'
  BY <1>2, <1>4 DEF Register, DispatchVerification, BreakOff, world
<1>5. ASSUME NEW c \in Clients, InsertUmkm(c) PROVE RowOK'
  <2>1. CASE UNCHANGED row
    BY <1>2, <1>5, <2>1 DEF InsertUmkm, world
  <2>2. CASE row' = [NoRow EXCEPT !.status = "PENDING"]
    <3>1. row'.status = "PENDING" /\ row'.score = 0 /\ row'.data = NoData
      BY <2>2 DEF NoRow
    <3>. QED
      BY <3>1, Records DEF RowOK, Backed, calculateScore
  <2>. QED
    BY <1>5, <2>1, <2>2 DEF InsertUmkm
<1>6. ASSUME NEW w \in Workers, Take(w) \/ OssReplies(w) \/ Stall(w) PROVE RowOK'
  BY <1>2, <1>6 DEF Take, OssReplies, Stall, world
<1>7. ASSUME NEW w \in Workers, MarkInProgress(w) PROVE RowOK'
  <2>1. /\ row'.status = "IN_PROGRESS" /\ row'.score = row.score /\ row'.data = row.data
    BY <1>1, <1>7 DEF MarkInProgress, TypeOK, Row
  <2>. QED
    BY <1>1, <2>1 DEF RowOK, Backed, calculateScore
<1>8. ASSUME NEW w \in Workers, BadanPerizinanReplies(w) PROVE RowOK'
  BY <1>3, <1>8 DEF BadanPerizinanReplies, world
<1>9. ASSUME NEW w \in Workers, WriteResult(w) PROVE RowOK'
  <2>. DEFINE data == Result(worker[w].bp, worker[w].oss)
  <2>1. /\ worker[w].bp \in Reply /\ worker[w].oss \in OssReply
        /\ worker[w].bp = "errs" => refused
    BY <1>1, <1>9 DEF WriteResult, WorkersOK, TypeOK, Worker
  <2>2. /\ row'.status = IF data.is_valid THEN "VERIFIED" ELSE "FAILED"
        /\ row'.score = calculateScore(data) /\ row'.data = data
    BY <1>9 DEF WriteResult, Result
  <2>3. UNCHANGED <<listed, refused, dbErrors>>
    BY <1>9 DEF WriteResult, world
  <2>4. listed \in BOOLEAN /\ scale \in Scale
    BY <1>1 DEF TypeOK
  <2>5. CASE data.is_valid
    <3>1. calculateScore(data) >= 80
      BY <2>1, <2>4, <2>5, ValidResult
    <3>2. Backed(data)
      BY <2>1, <2>4, <2>5, ValidResult, Zenon
    <3>. HIDE DEF data
    <3>. QED
      BY <2>2, <2>3, <2>5, <3>1, <3>2 DEF RowOK, Backed, calculateScore
  <2>6. CASE ~data.is_valid
    <3>1. calculateScore(data) = 0 /\ (~listed \/ worker[w].bp = "errs")
      BY <2>1, <2>4, <2>6, InvalidResult
    <3>. HIDE DEF data
    <3>. QED
      BY <2>1, <2>2, <2>3, <2>6, <3>1 DEF RowOK, Backed, calculateScore
  <2>. QED
    BY <2>5, <2>6
<1>10. ASSUME NEW w \in Workers, MarkFailed(w) PROVE RowOK'
  <2>1. /\ row'.status = "FAILED" /\ row'.score = row.score /\ row'.data = row.data
    BY <1>1, <1>10 DEF MarkFailed, TypeOK, Row
  <2>2. dbErrors' > 0
    BY <1>1, <1>10 DEF MarkFailed, WorkersOK
  <2>. QED
    BY <1>1, <2>1, <2>2 DEF RowOK, Backed, calculateScore
<1>11. ASSUME NEW w \in Workers, DatabaseError(w) PROVE RowOK'
  BY <1>1, <1>3, <1>11 DEF DatabaseError, TypeOK, world
<1>12. CASE AddProduct
  BY <1>2, <1>12 DEF AddProduct, world
<1>. QED
  BY <1>2, <1>4, <1>5, <1>6, <1>7, <1>8, <1>9, <1>10, <1>11, <1>12
  DEF Next, Registration, Execution, vars, world

LEMMA StepOneExecution ==
  ASSUME SInv, [Next]_vars
  PROVE  OneExecution'
<1>1. TypeOK /\ TInv /\ RegistrationOK /\ WorkersOK /\ RowOK /\ OneExecution
  BY DEF SInv, TInv
<1>2. CASE UNCHANGED <<worker, job, row, stalls>>
  BY <1>1, <1>2 DEF OneExecution
<1>3. ASSUME NEW w \in Workers, NEW r, SetWorker(w, r), r.pc # "idle", worker[w].pc # "idle",
             UNCHANGED <<job, row, stalls>>
      PROVE  OneExecution'
  BY <1>1, <1>3, SetWorkerAt DEF OneExecution
<1>4. ASSUME NEW w \in Workers, SetWorker(w, Idle), worker[w].pc # "idle", stalls = 0
      PROVE  /\ \A u \in Workers : worker'[u].pc = "idle"
             /\ job.owner = w /\ job.state = "active" /\ ~(row.score > 0)
  <2>1. job.owner = w /\ job.state = "active" /\ ~(row.score > 0)
    BY <1>1, <1>4 DEF OneExecution
  <2>2. \A u \in Workers : u # w => worker[u].pc = "idle"
    BY <1>1, <1>4, <2>1 DEF OneExecution
  <2>3. \A u \in Workers : worker'[u] = IF u = w THEN Idle ELSE worker[u]
    BY <1>1, <1>4, SetWorkerAt
  <2>. QED
    BY <2>1, <2>2, <2>3 DEF Idle
<1>5. ASSUME NEW c \in Clients, Register(c) \/ BreakOff(c) PROVE OneExecution'
  BY <1>2, <1>5 DEF Register, BreakOff
<1>6. ASSUME NEW c \in Clients, InsertUmkm(c) PROVE OneExecution'
  <2>1. CASE UNCHANGED row
    BY <1>2, <1>6, <2>1 DEF InsertUmkm
  <2>2. CASE row' = [NoRow EXCEPT !.status = "PENDING"]
    <3>1. row'.score = 0
      BY <2>2 DEF NoRow
    <3>. QED
      BY <1>1, <1>6, <3>1 DEF InsertUmkm, OneExecution
  <2>. QED
    BY <1>6, <2>1, <2>2 DEF InsertUmkm
<1>7. ASSUME NEW c \in Clients, DispatchVerification(c) PROVE OneExecution'
  <2>1. job = NoJob
    BY <1>1, <1>7 DEF DispatchVerification, RegistrationOK
  <2>2. job.state = "none"
    BY <2>1 DEF NoJob
  <2>. QED
    BY <1>1, <1>7, <2>2 DEF DispatchVerification, OneExecution
<1>8. ASSUME NEW w \in Workers, Take(w) PROVE OneExecution'
  <2>1. job.state = "waiting" /\ job'.state = "active" /\ job'.owner = w
    BY <1>1, <1>8 DEF Take, TypeOK, Job
  <2>2. \A u \in Workers : u # w => worker'[u] = worker[u]
    BY <1>1, <1>8, SetWorkerAt DEF Take
  <2>. QED
    BY <1>1, <1>8, <2>1, <2>2 DEF Take, OneExecution
<1>9. ASSUME NEW w \in Workers, MarkInProgress(w) PROVE OneExecution'
  <2>1. row'.score = row.score
    BY <1>1, <1>9 DEF MarkInProgress, TypeOK, Row
  <2>2. SetWorker(w, [Idle EXCEPT !.pc = "ask"]) /\ [Idle EXCEPT !.pc = "ask"].pc = "ask"
    BY <1>9 DEF MarkInProgress, Idle
  <2>3. \A u \in Workers : worker'[u].pc # "idle" => worker[u].pc # "idle"
    BY <1>1, <1>9, <2>2, SetWorkerAt DEF MarkInProgress
  <2>4. worker[w].pc # "idle" /\ UNCHANGED <<job, stalls>>
    BY <1>9 DEF MarkInProgress
  <2>. QED
    BY <1>1, <2>1, <2>3, <2>4 DEF OneExecution
<1>10. ASSUME NEW w \in Workers, BadanPerizinanReplies(w) \/ OssReplies(w) PROVE OneExecution'
  <2>1. PICK r : SetWorker(w, r) /\ r.pc \in {"ask", "write"}
    <3>1. ASSUME NEW q \in Worker, Settle(w, q)
          PROVE  \E r : SetWorker(w, r) /\ r.pc \in {"ask", "write"}
      <4>. DEFINE pc == IF None \in {q.bp, q.oss} THEN "ask" ELSE "write"
      <4>1. SetWorker(w, [q EXCEPT !.pc = pc])
        BY <3>1 DEF Settle
      <4>2. [q EXCEPT !.pc = pc].pc = pc
        BY <3>1 DEF Worker
      <4>3. pc \in {"ask", "write"}
        OBVIOUS
      <4>. HIDE DEF pc
      <4>. QED
        BY <4>1, <4>2, <4>3
    <3>2. CASE BadanPerizinanReplies(w)
      <4>1. PICK reply \in Reply : Settle(w, [worker[w] EXCEPT !.bp = reply])
        BY <3>2 DEF BadanPerizinanReplies
      <4>2. [worker[w] EXCEPT !.bp = reply] \in Worker
        BY <1>1 DEF TypeOK, Worker
      <4>. QED
        BY <3>1, <4>1, <4>2
    <3>3. CASE OssReplies(w)
      <4>1. PICK reply \in OssReply : Settle(w, [worker[w] EXCEPT !.oss = reply])
        BY <3>3 DEF OssReplies
      <4>2. [worker[w] EXCEPT !.oss = reply] \in Worker
        BY <1>1 DEF TypeOK, Worker
      <4>. QED
        BY <3>1, <4>1, <4>2
    <3>. QED
      BY <1>10, <3>2, <3>3
  <2>2. worker[w].pc # "idle" /\ UNCHANGED <<job, row, stalls>>
    BY <1>10 DEF BadanPerizinanReplies, OssReplies
  <2>. QED
    BY <1>3, <2>1, <2>2
<1>11. ASSUME NEW w \in Workers, WriteResult(w) PROVE OneExecution'
  <2>. DEFINE data == Result(worker[w].bp, worker[w].oss)
  <2>1. SUFFICES ASSUME stalls = 0
                 PROVE  /\ \A u \in Workers : worker'[u].pc = "idle"
                        /\ row'.score > 0 => job'.state = "completed" /\ row'.status = "VERIFIED"
    BY <1>11 DEF WriteResult, OneExecution
  <2>2. worker[w].pc # "idle" /\ SetWorker(w, Idle)
    BY <1>11 DEF WriteResult
  <2>3. (\A u \in Workers : worker'[u].pc = "idle") /\ job.owner = w
    BY <1>4, <2>1, <2>2
  <2>4. job'.state = "completed"
    BY <1>1, <1>11, <2>3 DEF WriteResult, JobCompletes, TypeOK, Job
  <2>5. /\ row'.status = IF data.is_valid THEN "VERIFIED" ELSE "FAILED"
        /\ row'.score = calculateScore(data)
    BY <1>11 DEF WriteResult, Result
  <2>6. /\ worker[w].bp \in Reply /\ worker[w].oss \in OssReply /\ listed \in BOOLEAN
    BY <1>1, <1>11 DEF WriteResult, WorkersOK, TypeOK, Worker
  <2>7. ~data.is_valid => calculateScore(data) = 0
    BY <2>6, InvalidResult
  <2>. HIDE DEF data
  <2>. QED
    BY <2>3, <2>4, <2>5, <2>7
<1>12. ASSUME NEW w \in Workers, MarkFailed(w) PROVE OneExecution'
  <2>1. row'.score = row.score
    BY <1>1, <1>12 DEF MarkFailed, TypeOK, Row
  <2>. QED
    BY <1>4, <1>12, <2>1 DEF MarkFailed, OneExecution
<1>13. ASSUME NEW w \in Workers, DatabaseError(w) PROVE OneExecution'
  <2>1. CASE worker[w].pc = "write"
    <3>1. SetWorker(w, [worker[w] EXCEPT !.pc = "markFailed"]) /\ UNCHANGED <<job, row, stalls>>
      BY <1>13, <2>1 DEF DatabaseError
    <3>2. [worker[w] EXCEPT !.pc = "markFailed"].pc = "markFailed"
      BY <1>1 DEF TypeOK, Worker
    <3>. QED
      BY <1>3, <2>1, <3>1, <3>2
  <2>2. CASE worker[w].pc \in {"mark", "markFailed"}
    BY <1>4, <1>13, <2>2 DEF DatabaseError, OneExecution
  <2>. QED
    BY <1>13, <2>1, <2>2 DEF DatabaseError
<1>14. ASSUME NEW w \in Workers, Stall(w) PROVE OneExecution'
  BY <1>1, <1>14 DEF Stall, OneExecution, TypeOK
<1>15. CASE AddProduct
  BY <1>2, <1>15 DEF AddProduct
<1>. QED
  BY <1>2, <1>5, <1>6, <1>7, <1>8, <1>9, <1>10, <1>11, <1>12, <1>13, <1>14, <1>15
  DEF Next, Registration, Execution, vars

LEMMA StepSInv == SInv /\ [Next]_vars => SInv'
BY StepTInv, StepRegistrationOK, StepWorkersOK, StepRowOK, StepOneExecution DEF SInv

(* However executions of a job overlap, a verified company is listed by the *)
(* registry, openly verified by the sandbox, or rests on an OSS body        *)
(* without a record that the row keeps, and scores at least 0.8             *)
(* (verification.worker.ts 62-97, 263-299).                                 *)
THEOREM VerifiedBacked == Spec => []VerifiedIsBacked
<1>1. SInv => VerifiedIsBacked
  BY DEF SInv, RowOK, Backed, VerifiedIsBacked
<1>. QED
  BY InitSInv, StepSInv, <1>1, PTL DEF Spec

(* A failed verification always has a reason, and only a statement that     *)
(* failed in a repeated execution leaves a score next to it                 *)
(* (verification.worker.ts 71-96).                                          *)
THEOREM FailedExplained == Spec => []FailedIsExplained
<1>1. SInv => FailedIsExplained
  BY DEF SInv, TInv, TypeOK, RowOK, OneExecution, FailedIsExplained
<1>. QED
  BY InitSInv, StepSInv, <1>1, PTL DEF Spec

(* The strict check of the readiness-service and the lenient one of the     *)
(* worker disagree only over sources none of which answers, over an OSS     *)
(* body without a record, or after an error                                 *)
(* (nib-verification.service.ts 105-113, compliance.service.ts 92-128).     *)
THEOREM NibChecksAgree == Spec => []NibCheckAgrees
<1>1. VerifiedIsBacked /\ FailedIsExplained => NibCheckAgrees
  BY DEF VerifiedIsBacked, FailedIsExplained, NibCheckAgrees, verifyNib, verify, ossLooksValid, OssReply
<1>. QED
  BY VerifiedBacked, FailedExplained, <1>1, PTL

(* Verifying a company again never lowers its readiness level by itself     *)
(* (umkm.service.ts 54-76).                                                 *)
THEOREM LevelHolds == Spec => LevelDropsOnlyOnFailure
<1>. DEFINE Drop == row.status # "none" /\ Level' < Level => row'.status = "FAILED"
<1>1. TInv /\ [Next]_vars => [Drop]_vars
  <2>. SUFFICES ASSUME TInv, Next, row.status # "none", row'.status # "FAILED"
                PROVE  ~(Level' < Level)
    BY DEF Drop
  <2>1. /\ row \in Row /\ row' \in Row /\ products \in BOOLEAN /\ products' \in BOOLEAN
    BY StepTInv DEF TInv, TypeOK
  <2>2. products => products'
    BY DEF Next, Register, Registration, InsertUmkm, DispatchVerification, BreakOff, Execution, Take,
       MarkInProgress, BadanPerizinanReplies, OssReplies, WriteResult, MarkFailed, DatabaseError, Stall,
       AddProduct
  <2>3. row'.status = row.status \/ row'.status \in {"IN_PROGRESS", "VERIFIED"}
    <3>1. CASE UNCHANGED row
      BY <3>1
    <3>2. ASSUME NEW c \in Clients, InsertUmkm(c) PROVE UNCHANGED row
      BY <3>2 DEF InsertUmkm
    <3>3. ASSUME NEW w \in Workers, MarkInProgress(w) PROVE row'.status = "IN_PROGRESS"
      BY <2>1, <3>3 DEF MarkInProgress, Row
    <3>4. ASSUME NEW w \in Workers, WriteResult(w) PROVE row'.status \in {"VERIFIED", "FAILED"}
      <4>. DEFINE data == Result(worker[w].bp, worker[w].oss)
      <4>1. row'.status = IF data.is_valid THEN "VERIFIED" ELSE "FAILED"
        BY <3>4 DEF WriteResult, Result
      <4>. QED
        BY <4>1
    <3>5. ASSUME NEW w \in Workers, MarkFailed(w) PROVE row'.status = "FAILED"
      BY <2>1, <3>5 DEF MarkFailed, Row
    <3>6. \/ UNCHANGED row
          \/ \E c \in Clients : InsertUmkm(c)
          \/ \E w \in Workers : MarkInProgress(w) \/ WriteResult(w) \/ MarkFailed(w)
      BY DEF Next, Register, Registration, DispatchVerification, BreakOff, Execution, Take,
         BadanPerizinanReplies, OssReplies, DatabaseError, Stall, AddProduct
    <3>. QED
      BY <3>1, <3>2, <3>3, <3>4, <3>5, <3>6
  <2>. QED
    BY <2>1, <2>2, <2>3 DEF Level, Readiness, Row, Status
<1>. QED
  BY InitTInv, StepTInv, <1>1, PTL DEF Spec, LevelDropsOnlyOnFailure
=============================================================================
