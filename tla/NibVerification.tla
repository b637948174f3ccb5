--------------------------- MODULE NibVerification ---------------------------
(***************************************************************************)
(* The verification of one company's business number (NIB): registration   *)
(* (user-service umkm/umkm.service.ts), the queued job and its worker      *)
(* (queue/verification.*.ts), and the readiness-service's stricter answer  *)
(* to the same question, which a deal's compliance check relies on         *)
(* (readiness-service nib/nib-verification.service.ts).                    *)
(*                                                                         *)
(* The registry sources are external: each is asked and answers (with the  *)
(* record of a listed number, or that there is none), errs (a JSON reply   *)
(* that confirms nothing) or is down (no reply, or not JSON).  The public  *)
(* OSS endpoint may also reply with a body without a record in which the   *)
(* code finds what it takes for a confirmation.  The job queue is external *)
(* too: it delivers at least once.                                         *)
(***************************************************************************)
EXTENDS Naturals

CONSTANTS
  Clients,         \* registration requests that may be in flight at once
  Workers,         \* executions of a job that may be in flight at once
  None,            \* nobody, or no answer yet
  Scales,          \* the business scales the registry may know, "" included
  ATTEMPTS,        \* attempts of a job
  MAX_STALLED,     \* times a job is taken back from a worker that went silent
  MaxDbErrors,     \* bound: failed database statements of workers
  MaxStalls        \* bound: workers that go silent

ASSUME NibAssumption ==
  /\ None \notin Workers \union Clients
  /\ None \notin {"answers", "errs", "down", "seemsValid"}
  /\ Scales \subseteq {"", "MIKRO", "KECIL", "MENENGAH"}
  /\ ATTEMPTS \in Nat \ {0}
  /\ MAX_STALLED \in Nat
  /\ MaxDbErrors \in Nat
  /\ MaxStalls \in Nat

VARIABLES
  listed,    \* does the registry list the company's number
  scale,     \* the business scale it is listed with
  row,       \* the umkm row: status ("none" before it is inserted), score in hundredths, data
  products,  \* has the company a product
  client,    \* where each registration request stands
  job,       \* the verification job
  worker,    \* what each execution is doing
  lost,      \* the registration broke off between the row and the job
  refused,   \* an execution took an erring registry's reply for a refusal
  dbErrors,  \* failed statements so far
  stalls     \* workers gone silent so far

world == <<listed, scale>>
vars  == <<world, row, products, client, job, worker, lost, refused, dbErrors, stalls>>

-----------------------------------------------------------------------------
Reply    == {"answers", "errs", "down"}
OssReply == Reply \union {"seemsValid"}
Source   == {"badanperizinan", "oss_public", "sandbox"}
Scale    == {"", "MIKRO", "KECIL", "MENENGAH"}
Status   == {"PENDING", "IN_PROGRESS", "VERIFIED", "FAILED"}
Settled  == {"VERIFIED", "FAILED"}

(* oss_public_data keeps the body OSS confirmed with: is there a record in  *)
(* it?                                                                      *)
OssBody == {"", "record", "noRecord"}

NibData == [is_valid : BOOLEAN, compliance : {"COMPLIANT", "INVALID", ""}, scale : Scale,
            oss_public_data : OssBody, sources : SUBSET Source, sandbox : BOOLEAN]

NoData == [is_valid |-> FALSE, compliance |-> "", scale |-> "", oss_public_data |-> "",
           sources |-> {}, sandbox |-> FALSE]

NoRow  == [status |-> "none", score |-> 0, data |-> NoData]
Row    == [status : Status \union {"none"}, score : 0 .. 100, data : NibData]

NoJob  == [state |-> "none", made |-> 0, stalled |-> 0, owner |-> None]
Job    == [state : {"none", "waiting", "active", "completed", "failed"},
           made : 0 .. ATTEMPTS, stalled : Nat, owner : Workers \union {None}]

WorkerPc == {"idle", "mark", "ask", "write", "markFailed"}
Worker   == [pc : WorkerPc, bp : Reply \union {None}, oss : OssReply \union {None}]
Idle     == [pc |-> "idle", bp |-> None, oss |-> None]

Init ==
  /\ listed \in BOOLEAN /\ scale \in Scales
  /\ row = NoRow /\ products = FALSE
  /\ client = [c \in Clients |-> "idle"]
  /\ job = NoJob /\ worker = [w \in Workers |-> Idle]
  /\ lost = FALSE /\ refused = FALSE /\ dbErrors = 0 /\ stalls = 0

-----------------------------------------------------------------------------
(* What the sources' replies are turned into. *)

Invalid == [NoData EXCEPT !.compliance = "INVALID"]

Valid(source) ==
  [is_valid |-> TRUE, compliance |-> "COMPLIANT", scale |-> "", oss_public_data |-> "",
   sources |-> {source}, sandbox |-> FALSE]

(* The record made up when the registry is down. *)
Sandbox == [Valid("sandbox") EXCEPT !.scale = "KECIL", !.sandbox = TRUE]

(* Faulty variant: the made-up record is not marked. *)
FetchUnmarked(reply) ==
  CASE reply = "down"             -> [Sandbox EXCEPT !.sandbox = FALSE]
    [] reply = "answers" /\ listed -> Valid("badanperizinan")
    [] OTHER                      -> Invalid

(* Faulty variant: a registry that is down is a refusal. *)
FetchStrictly(reply) ==
  IF reply = "answers" /\ listed THEN Valid("badanperizinan") ELSE Invalid

fetchBadanPerizinan(reply) ==
  CASE reply = "down"             -> Sandbox
    [] reply = "answers" /\ listed -> Valid("badanperizinan")
    [] OTHER                      -> Invalid

(* An HTTP-ok body is a confirmation when anywhere in it there is a number, *)
(* a company's name, or a status, code or message that contains a word of   *)
(* success, "200" or "01": a record has them, and so may a body without     *)
(* one.  Anything else leaves OSS out, and so does a missing key.           *)
ossLooksValid(reply) == reply = "seemsValid" \/ (reply = "answers" /\ listed)

(* A field the first source left empty is taken from OSS; a made-up one is *)
(* not empty.                                                              *)
mergeNibSources(data, oss) ==
  IF ~ossLooksValid(oss) THEN data
  ELSE [is_valid   |-> TRUE,
        compliance |-> IF data.compliance = "INVALID" THEN "COMPLIANT" ELSE data.compliance,
        scale      |-> IF data.scale = "" /\ oss = "answers" THEN scale ELSE data.scale,
        oss_public_data |-> IF oss = "answers" THEN "record" ELSE "noRecord",
        sources    |-> (data.sources \union {"oss_public"}) \ {"sandbox"},
        sandbox    |-> FALSE]

(* Faulty variant: the confirmation of OSS is scored too, and nothing caps. *)
calculateScoreUncapped(data) ==
    (IF data.is_valid THEN 50 ELSE 0)
  + (IF data.compliance = "COMPLIANT" THEN 30 ELSE 0)
  + (IF "oss_public" \in data.sources THEN 30 ELSE 0)

calculateScore(data) ==
    (IF data.is_valid THEN 50 ELSE 0)
  + (IF data.compliance = "COMPLIANT" THEN 30 ELSE 0)
  + (CASE data.scale = "MENENGAH" -> 20
       [] data.scale = "KECIL"    -> 15
       [] data.scale = "MIKRO"    -> 5
       [] OTHER                   -> 0)

(* Faulty variant: the strict answer needs every source. *)
verifyAll(infiniti, oss) == infiniti = "answers" /\ listed /\ ossLooksValid(oss)

(* The readiness-service keeps no state and makes nothing up: without a    *)
(* confirmation the number is invalid.  It reads OSS as the worker does.   *)
verify(infiniti, oss) == (infiniti = "answers" /\ listed) \/ ossLooksValid(oss)

(* A deal's compliance check of the number; only a readiness-service that  *)
(* does not answer itself makes a warning.                                 *)
verifyNib(reached, infiniti, oss) ==
  IF ~reached THEN "warn" ELSE IF verify(infiniti, oss) THEN "pass" ELSE "fail"

-----------------------------------------------------------------------------
(* Registration: look for the number, insert the row, dispatch the job. *)

Register(c) ==
  /\ client[c] = "idle"
  /\ row.status = "none"
  /\ client' = [client EXCEPT ![c] = "insert"]
  /\ UNCHANGED <<world, row, products, job, worker, lost, refused, dbErrors, stalls>>

(* The number is unique: of two inserts the second is an error. *)
InsertUmkm(c) ==
  /\ client[c] = "insert"
  /\ IF row.status = "none"
     THEN /\ row' = [NoRow EXCEPT !.status = "PENDING"]
          /\ client' = [client EXCEPT ![c] = "dispatch"]
     ELSE /\ client' = [client EXCEPT ![c] = "idle"]
          /\ UNCHANGED row
  /\ UNCHANGED <<world, products, job, worker, lost, refused, dbErrors, stalls>>

DispatchVerification(c) ==
  /\ client[c] = "dispatch"
  /\ job' = [NoJob EXCEPT !.state = "waiting"]
  /\ client' = [client EXCEPT ![c] = "idle"]
  /\ UNCHANGED <<world, row, products, worker, lost, refused, dbErrors, stalls>>

(* The statement or the queue refuses, or the process ends.  A row without *)
(* a job stays: registering again answers that the number is taken.        *)
BreakOff(c) ==
  /\ client[c] # "idle"
  /\ client' = [client EXCEPT ![c] = "idle"]
  /\ lost' = (lost \/ client[c] = "dispatch")
  /\ UNCHANGED <<world, row, products, job, worker, refused, dbErrors, stalls>>

AddProduct ==
  /\ row.status # "none"
  /\ products' = TRUE
  /\ UNCHANGED <<world, row, client, job, worker, lost, refused, dbErrors, stalls>>

-----------------------------------------------------------------------------
(* The worker. *)

SetWorker(w, r) == worker' = [worker EXCEPT ![w] = r]

(* The queue hands a waiting job to a worker, under a lock. *)
Take(w) ==
  /\ worker[w] = Idle
  /\ job.state = "waiting"
  /\ job' = [job EXCEPT !.state = "active", !.owner = w]
  /\ SetWorker(w, [Idle EXCEPT !.pc = "mark"])
  /\ UNCHANGED <<world, row, products, client, lost, refused, dbErrors, stalls>>

MarkInProgress(w) ==
  /\ worker[w].pc = "mark"
  /\ row' = [row EXCEPT !.status = "IN_PROGRESS"]
  /\ SetWorker(w, [Idle EXCEPT !.pc = "ask"])
  /\ UNCHANGED <<world, products, client, job, lost, refused, dbErrors, stalls>>

(* Both sources are asked at once and the worker goes on when both have    *)
(* settled; neither call throws.                                           *)
Settle(w, r) ==
  SetWorker(w, [r EXCEPT !.pc = IF None \in {r.bp, r.oss} THEN "ask" ELSE "write"])

BadanPerizinanReplies(w) ==
  /\ worker[w].pc = "ask" /\ worker[w].bp = None
  /\ \E reply \in Reply :
       /\ Settle(w, [worker[w] EXCEPT !.bp = reply])
       /\ refused' = (refused \/ reply = "errs")
  /\ UNCHANGED <<world, row, products, client, job, lost, dbErrors, stalls>>

OssReplies(w) ==
  /\ worker[w].pc = "ask" /\ worker[w].oss = None
  /\ \E reply \in OssReply : Settle(w, [worker[w] EXCEPT !.oss = reply])
  /\ UNCHANGED <<world, row, products, client, job, lost, refused, dbErrors, stalls>>

(* A worker that lost the job's lock goes on, but what becomes of the job  *)
(* is no longer its business.                                              *)
JobCompletes(w) ==
  job' = IF job.owner = w THEN [job EXCEPT !.state = "completed", !.owner = None] ELSE job

JobThrows(w) ==
  job' = IF job.owner = w
         THEN [job EXCEPT !.state = IF job.made + 1 < ATTEMPTS THEN "waiting" ELSE "failed",
                          !.made = @ + 1, !.owner = None]
         ELSE job

(* Status, score and data in one statement. *)
WriteResult(w) ==
  /\ worker[w].pc = "write"
  /\ LET data == mergeNibSources(fetchBadanPerizinan(worker[w].bp), worker[w].oss)
     IN  row' = [status |-> IF data.is_valid THEN "VERIFIED" ELSE "FAILED",
                 score  |-> calculateScore(data),
                 data   |-> data]
  /\ SetWorker(w, Idle)
  /\ JobCompletes(w)
  /\ UNCHANGED <<world, products, client, lost, refused, dbErrors, stalls>>

(* The error path leaves the score and the data as they are. *)
MarkFailed(w) ==
  /\ worker[w].pc = "markFailed"
  /\ row' = [row EXCEPT !.status = "FAILED"]
  /\ SetWorker(w, Idle)
  /\ JobThrows(w)
  /\ UNCHANGED <<world, products, client, lost, refused, dbErrors, stalls>>

(* Faulty variant: the error path is not tried. *)
DatabaseErrorSwallowed(w) ==
  /\ dbErrors < MaxDbErrors
  /\ dbErrors' = dbErrors + 1
  /\ worker[w].pc \in {"mark", "write", "markFailed"}
  /\ SetWorker(w, Idle) /\ JobCompletes(w)
  /\ UNCHANGED <<world, row, products, client, lost, refused, stalls>>

(* The first statement is outside the try block. *)
DatabaseError(w) ==
  /\ dbErrors < MaxDbErrors
  /\ dbErrors' = dbErrors + 1
  /\ \/ /\ worker[w].pc = "write"
        /\ SetWorker(w, [worker[w] EXCEPT !.pc = "markFailed"])
        /\ UNCHANGED job
     \/ /\ worker[w].pc \in {"mark", "markFailed"}
        /\ SetWorker(w, Idle)
        /\ JobThrows(w)
  /\ UNCHANGED <<world, row, products, client, lost, refused, stalls>>

(* The worker dies, or only its lock does and it goes on: the queue gives  *)
(* the job to another, up to MAX_STALLED times.  One that went on without  *)
(* its lock may die as well.                                               *)
Stall(w) ==
  /\ stalls < MaxStalls
  /\ stalls' = stalls + 1
  /\ \/ /\ job.state = "active" /\ job.owner = w
        /\ job' = [job EXCEPT !.state = IF job.stalled < MAX_STALLED THEN "waiting" ELSE "failed",
                              !.stalled = @ + 1, !.owner = None]
        /\ SetWorker(w, Idle) \/ UNCHANGED worker
     \/ /\ job.owner # w /\ worker[w].pc # "idle"
        /\ SetWorker(w, Idle)
        /\ UNCHANGED job
  /\ UNCHANGED <<world, row, products, client, lost, refused, dbErrors>>

-----------------------------------------------------------------------------
Registration(c) == InsertUmkm(c) \/ DispatchVerification(c)
Execution(w) == \/ Take(w) \/ MarkInProgress(w) \/ BadanPerizinanReplies(w) \/ OssReplies(w)
                \/ WriteResult(w) \/ MarkFailed(w)

Next == \/ \E c \in Clients : Register(c) \/ Registration(c) \/ BreakOff(c)
        \/ \E w \in Workers : Execution(w) \/ DatabaseError(w) \/ Stall(w)
        \/ AddProduct

(* A handler that was started goes on, the queue delivers a waiting job,   *)
(* and every call of a worker settles (the fetches time out after 10 s).   *)
Fairness == /\ \A c \in Clients : WF_vars(Registration(c))
            /\ \A w \in Workers : WF_vars(Execution(w))

Spec     == Init /\ [][Next]_vars
FairSpec == Spec /\ Fairness

-----------------------------------------------------------------------------
(* The composite readiness of the company, computed on each request. *)

(* Faulty variant: only a settled verification earns anything. *)
ReadinessPendingEarnsNothing(status, hasProducts) ==
  40 + (IF status = "VERIFIED" THEN 30 ELSE 0) + (IF hasProducts THEN 30 ELSE 0)

(* The number and the legal name are never empty: identity is always 40. *)
Readiness(status, hasProducts) ==
  40 + (CASE status = "VERIFIED" -> 30 [] status = "FAILED" -> 0 [] OTHER -> 15)
     + (IF hasProducts THEN 30 ELSE 0)

Level == LET score == Readiness(row.status, products)
         IN  IF score >= 80 THEN 2 ELSE IF score >= 50 THEN 1 ELSE 0

-----------------------------------------------------------------------------
(* Properties. *)

TypeOK ==
  /\ listed \in BOOLEAN /\ scale \in Scale
  /\ row \in Row /\ products \in BOOLEAN
  /\ client \in [Clients -> {"idle", "insert", "dispatch"}]
  /\ job \in Job /\ worker \in [Workers -> Worker]
  /\ lost \in BOOLEAN /\ refused \in BOOLEAN
  /\ dbErrors \in 0 .. MaxDbErrors /\ stalls \in 0 .. MaxStalls

(* A number the registry does not list is only ever verified on the         *)
(* sandbox's word, and then says so, or on an OSS body without a record,    *)
(* and then the row keeps that body and names no other source; and whoever  *)
(* is verified scores at least 0.8, whichever executions overlapped         *)
(* (verification.worker.ts 62-97, 158-206, 263-299).                        *)
VerifiedIsBacked ==
  row.status = "VERIFIED" =>
    /\ \/ listed
       \/ row.data.sandbox /\ row.data.sources = {"sandbox"}
       \/ row.data.oss_public_data = "noRecord" /\ row.data.sources = {"oss_public"}
    /\ row.score = calculateScore(row.data) /\ row.score >= 80

(* A failed verification has a reason: the number is not listed, an erring  *)
(* registry was taken for a refusal, or a statement failed.  A failed row   *)
(* that still shows a verified score takes a failed statement in a second   *)
(* execution of a job that already wrote its result.                        *)
FailedIsExplained ==
  row.status = "FAILED" =>
    /\ ~listed \/ refused \/ dbErrors > 0
    /\ row.score > 0 => dbErrors > 0 /\ stalls > 0

(* The two services agree where they can, whenever a deal is checked.  The  *)
(* strict check fails a company that a live source verified only when no    *)
(* source answers it (a registry that is down is a failed check, not the    *)
(* warning that compliance.service.ts 88-90 promises for a hiccup), or when *)
(* the number is not listed and OSS once seemed to confirm it.  It passes a *)
(* failed company only when that failure was an error, or OSS now seems to  *)
(* confirm an unlisted number.                                              *)
NibCheckAgrees ==
  \A infiniti \in Reply, oss \in OssReply :
    LET verdict == verifyNib(TRUE, infiniti, oss)
    IN  /\ verdict = "fail" /\ row.status = "VERIFIED" /\ ~row.data.sandbox
             => \/ "answers" \notin {infiniti, oss}
                \/ ~listed /\ row.data.oss_public_data = "noRecord"
        /\ verdict = "pass" /\ row.status = "FAILED"
             => refused \/ dbErrors > 0 \/ (~listed /\ oss = "seemsValid")

(* Re-executing a verification never lowers the company's readiness level   *)
(* by itself; only a failure does (umkm.service.ts 54-76).                  *)
LevelDropsOnlyOnFailure ==
  [][row.status # "none" /\ Level' < Level => row'.status = "FAILED"]_vars

(* More went wrong than the retries make up for: every attempt met a failed *)
(* statement, the queue gave the job up, or next to a worker that went      *)
(* silent something else did too.  A worker that comes back after another   *)
(* wrote the result marks the row in progress again, and if it then dies,   *)
(* or neither of its next two statements succeeds, nobody finishes: the     *)
(* job is no longer its own.                                                *)
Overtaxed == \/ dbErrors >= ATTEMPTS
             \/ stalls > MAX_STALLED
             \/ stalls > 1 \/ (stalls = 1 /\ dbErrors > 1)

(* A registered company's verification settles for good, unless the job was *)
(* never dispatched or more went wrong than the retries make up for         *)
(* (verification.producer.ts 19-26, verification.worker.ts 62-97).          *)
Settles == (row.status = "PENDING") ~> (lost \/ Overtaxed \/ [](row.status \in Settled))
=============================================================================
