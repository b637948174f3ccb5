---------------------------- MODULE EtlTasksProofs ----------------------------
(***************************************************************************)
(* Theorems about the tables the etl-worker fills, for any number of       *)
(* workers, headings, years, requests, retries and lost workers.           *)
(***************************************************************************)
EXTENDS EtlTasks, TLAPS

Kinds == {"none", "bps", "inatrade", "un_comtrade", "umkm", "verify"}
Pcs == {"idle", "fetch", "data", "flows", "insert", "mode1", "X", "M", "write", "step1", "step2", "persist"}
Scales == {{}, {0}, {5}, {20}}
Answers == [hs_code : AllCodes, flow : _FLOW_META]
Firsts == {Found, _invalid_nib_response} \union Mocks

Task == [kind : Kinds, pc : Pcs, heading : Nat, year : Nat, nib : Nibs \union {"none"}, by : Nat,
         tries : 0..MAX_RETRIES, fetched : SUBSET (Answers \union Sources \union {0, 5, 20}),
         target : SUBSET (Flow \union Datum), data : SUBSET Datum, flows : SUBSET Flow,
         blind : SUBSET Nat, step1 : SUBSET Firsts]

(* What a run of BPS replaces of the data, and of the flows.               *)
Refetched(t, d) ==
  d.heading = t.heading /\ d.year = t.year /\ \E a \in t.fetched : a.flow = d.flow
Replaced(t, f) ==
  /\ f.source = "bps"
  /\ \E a \in t.fetched : a.hs_code = f.hs_code
  /\ \E a \in t.fetched : a.flow = f.flow

(* What a run of BPS knows: nothing is stored under its number yet, and     *)
(* what it does not delete was stored by a run it did not see.              *)
RunOK(t) ==
  /\ t.pc \in {"fetch", "data", "flows", "insert"} /\ t.fetched \subseteq Answers /\ t.by > 0
  /\ t.by \notin scripts
  /\ \A f \in flows : f.by # t.by
  /\ \A d \in data : d.by # t.by
  /\ t.pc = "data" => \A d \in data : Refetched(t, d) => d \in t.target \/ d.by \in t.blind
  /\ t.pc = "data" => \A d \in t.target : Refetched(t, d)
  /\ t.pc \in {"flows", "insert"} =>
       /\ \A d \in data : Refetched(t, d) => d \in t.data \/ d.by \in t.blind
       /\ \A d \in t.data : Refetched(t, d)
  /\ t.pc = "flows" => /\ \A f \in flows : Replaced(t, f) => f \in t.target \/ f.by \in t.blind
                       /\ \A f \in t.target : Replaced(t, f)
  /\ t.pc = "insert" => /\ \A f \in flows : Replaced(t, f) => f \in t.flows \/ f.by \in t.blind
                        /\ \A f \in t.flows : Replaced(t, f)

TaskOK(t) ==
  /\ t.by <= runs
  /\ t.kind \in {"bps", "inatrade", "un_comtrade", "umkm"} => t.heading \in Headings /\ t.year \in Years
  /\ t.kind = "bps" => RunOK(t)
  /\ t.kind \in {"inatrade", "un_comtrade"} => t.pc \in {"mode1", "X", "M"}
  /\ t.kind = "umkm" /\ t.pc = "write" => t.fetched \subseteq Sources
  /\ t.kind = "verify" => t.nib \in Nibs /\ t.fetched \in Scales
  /\ t.kind # "verify" => t.nib = "none"

(* A run has its number to itself. *)
Numbered == \A w, o \in Workers :
  w # o /\ worker[w].kind = "bps" /\ worker[o].kind # "none" => worker[w].by # worker[o].by

RowsOK ==
  /\ \A f \in flows : f.by <= runs
  /\ \A d \in data : d.by <= runs
  /\ scripts \subseteq 0..runs
  /\ \A f \in flows, d \in data :
       f.source = "bps" /\ f.by = d.by => f.heading = d.heading /\ f.year = d.year

Company ==
  [verdict : [nib : Nibs \union {"none"}, is_valid : BOOLEAN, sandbox : BOOLEAN,
              sources : SUBSET {"badanperizinan", "oss_public", "sandbox"},
              scale : {0, 5, 15, 20}, score : 0..100],
   markets : SUBSET Sources]

(* What TypeOK says beside the rows and the workers. *)
RecordsOK ==
  /\ company \in Company /\ jobs \in 0..MaxJobs /\ runs \in Nat
  /\ asked \in Nibs \union {"none"} /\ unheard \subseteq Nibs /\ raced \in BOOLEAN

(* The invariant the others build on. *)
TInv == /\ TypeOK /\ worker \in [Workers -> Task]
        /\ \A w \in Workers : TaskOK(worker[w])
        /\ Numbered /\ RowsOK

-----------------------------------------------------------------------------
LEMMA CodesType ==
  /\ \A h \in Headings : Codes(h) \subseteq AllCodes /\ h \in AllCodes /\ h * 100 + 11 \in AllCodes
  /\ Headings \subseteq Nat /\ Years \subseteq Nat
<1>1. ASSUME NEW h \in Headings PROVE Codes(h) \subseteq AllCodes /\ h \in AllCodes
  <2>1. Codes(h) \in {Codes(x) : x \in Headings}
    OBVIOUS
  <2>. QED
    BY <2>1 DEF AllCodes
<1>2. \A h \in Headings : h * 100 + 11 \in Codes(h)
  BY DEF Codes
<1>. QED
  BY <1>1, <1>2, EtlAssumption

LEMMA IdleType == Idle \in Task /\ Idle.kind = "none" /\ Idle.nib = "none" /\ Idle.by = 0
<1>1. 0 \in 0..MAX_RETRIES
  BY EtlAssumption
<1>. QED
  BY <1>1 DEF Idle, Task, Kinds, Pcs

LEMMA IdleOK == ASSUME runs \in Nat PROVE TaskOK(Idle)
BY IdleType DEF TaskOK

(* An insert that updates leaves at most one row with a key.                *)
LEMMA KeysStayUnique ==
  ASSUME NEW old \in SUBSET Flow, NEW new \in SUBSET Flow,
         \A a, b \in old : SameKey(a, b) => a = b,
         \A a, b \in new : SameKey(a, b) => a = b
  PROVE  /\ InsertOrUpdate(old, new) \subseteq Flow
         /\ \A a, b \in InsertOrUpdate(old, new) : SameKey(a, b) => a = b
<1>1. \A a, b \in Flow : SameKey(a, b) => SameKey(b, a)
  BY DEF SameKey, Key, Flow
<1>. QED
  BY <1>1 DEF InsertOrUpdate

(* What two rows with one key agree on. *)
LEMMA KeyOf ==
  ASSUME NEW a \in Flow, NEW b \in Flow, SameKey(a, b)
  PROVE  a.source = b.source /\ a.hs_code = b.hs_code /\ a.flow = b.flow /\ a.code = b.code /\ a.year = b.year
BY DEF SameKey, Key, Flow

(* The rows a task brings. *)
LEMMA FetchedRows ==
  ASSUME NEW t \in Task, TaskOK(t), t.kind \in {"inatrade", "un_comtrade"},
         NEW codes \in SUBSET (Reporters \union {NoCode})
  PROVE  /\ Fetched(t, codes) \subseteq Flow
         /\ \A a \in Fetched(t, codes) : a.source = t.kind /\ a.by = t.by
         /\ \A a, b \in Fetched(t, codes) : SameKey(a, b) => a = b
<1>1. StepFlow(t.pc) \in _FLOW_META /\ t.heading \in Headings /\ t.year \in Years /\ t.heading \in AllCodes /\ t.by \in Nat
  BY CodesType DEF StepFlow, _FLOW_META, TaskOK, Task
<1>2. Fetched(t, codes) \subseteq Flow
  BY <1>1 DEF Fetched, Flow, Sources
<1>3. ASSUME NEW a \in Fetched(t, codes), NEW b \in Fetched(t, codes), SameKey(a, b) PROVE a = b
  BY <1>2, <1>3, KeyOf DEF Fetched
<1>. QED
  BY <1>2, <1>3 DEF Fetched

LEMMA StoredRows ==
  ASSUME NEW t \in Task, TaskOK(t), t.kind = "bps", NEW country \in Reporters
  PROVE  LET new == {BpsFlow(t, a, country) : a \in t.fetched}
         IN  /\ new \subseteq Flow /\ {BpsDatum(t, a) : a \in t.fetched} \subseteq Datum
             /\ \A a, b \in new : SameKey(a, b) => a = b
<1>. DEFINE new == {BpsFlow(t, a, country) : a \in t.fetched}
<1>1. t.fetched \subseteq Answers /\ t.heading \in Headings /\ t.year \in Years /\ t.by \in Nat
  BY DEF TaskOK, RunOK, Task
<1>2. new \subseteq Flow /\ {BpsDatum(t, a) : a \in t.fetched} \subseteq Datum
  BY <1>1 DEF BpsFlow, BpsDatum, Flow, Datum, Answers, Sources
<1>3. ASSUME NEW a \in new, NEW b \in new, SameKey(a, b) PROVE a = b
  BY <1>2, <1>3, KeyOf DEF BpsFlow
<1>. QED
  BY <1>2, <1>3

LEMMA SeededRows ==
  ASSUME NEW n \in Nat
  PROVE  /\ COFFEE_DATA(n) \subseteq Flow
         /\ \A a \in COFFEE_DATA(n) : a.by = n
         /\ \A a, b \in COFFEE_DATA(n) : SameKey(a, b) => a = b
<1>1. PICK h \in Headings : h = CHOOSE x \in Headings : TRUE
  BY EtlAssumption
<1>2. h \in AllCodes /\ h * 100 + 11 \in AllCodes
  BY CodesType
<1>3. COFFEE_DATA(n) \subseteq Flow
  BY <1>1, <1>2 DEF COFFEE_DATA, Flow, Sources, _FLOW_META
<1>4. ASSUME NEW a \in COFFEE_DATA(n), NEW b \in COFFEE_DATA(n), SameKey(a, b) PROVE a = b
  <2>1. /\ a \in Flow /\ b \in Flow
        /\ a.source = b.source /\ a.code = b.code /\ a.year = b.year
    BY <1>3, <1>4, KeyOf
  <2>2. PICK s1 \in {"bps", "un_comtrade"}, r1 \in Reporters, y1 \in Years :
          a = [source |-> s1, hs_code |-> h * 100 + 11, flow |-> IF s1 = "bps" THEN "X" ELSE "M",
               code |-> r1, heading |-> h, year |-> y1, by |-> n]
    BY <1>1 DEF COFFEE_DATA
  <2>3. PICK s2 \in {"bps", "un_comtrade"}, r2 \in Reporters, y2 \in Years :
          b = [source |-> s2, hs_code |-> h * 100 + 11, flow |-> IF s2 = "bps" THEN "X" ELSE "M",
               code |-> r2, heading |-> h, year |-> y2, by |-> n]
    BY <1>1 DEF COFFEE_DATA
  <2>. QED
    BY <2>1, <2>2, <2>3
<1>. QED
  BY <1>3, <1>4 DEF COFFEE_DATA

-----------------------------------------------------------------------------
(* What a task knows when rows come under the number b, and others go.      *)
LEMMA TaskStaysOK ==
  ASSUME NEW t \in Task, TaskOK(t), NEW b \in Nat,
         runs \in Nat, runs' \in Nat, runs <= runs', scripts' \subseteq scripts \union {b},
         \A f \in flows' : f \in flows \/ f.by = b,
         \A d \in data' : d \in data \/ d.by = b,
         t.kind = "bps" => t.by # b
  PROVE  /\ TaskOK([t EXCEPT !.blind = @ \union {b}])'
         /\ (t.kind # "bps" \/ t.pc = "fetch"
             \/ (data' \subseteq data /\ \A f \in flows' : f \in flows \/ f.source # "bps")) => TaskOK(t)'
<1>1. ASSUME t.kind = "bps"
      PROVE  RunOK([t EXCEPT !.blind = @ \union {b}])'
  <2>0. PICK s \in Task : s = [t EXCEPT !.blind = @ \union {b}]
    BY DEF Task
  <2>1. /\ s.pc = t.pc /\ s.fetched = t.fetched /\ s.by = t.by /\ s.target = t.target /\ s.data = t.data
        /\ s.flows = t.flows /\ s.heading = t.heading /\ s.year = t.year /\ s.blind = t.blind \union {b}
    BY <2>0 DEF Task
  <2>2. /\ \A d : Refetched(s, d) = Refetched(t, d)
        /\ \A f : Replaced(s, f) = Replaced(t, f)
    BY <2>1 DEF Refetched, Replaced
  <2>3. RunOK(t)
    BY <1>1 DEF TaskOK
  <2>4. RunOK(s)'
    BY <1>1, <2>1, <2>2, <2>3 DEF RunOK, Refetched, Replaced
  <2>. QED
    BY <2>0, <2>4
<1>2. ASSUME t.kind = "bps", t.pc = "fetch" PROVE RunOK(t)'
  BY <1>2 DEF TaskOK, RunOK
<1>3. ASSUME t.kind = "bps", data' \subseteq data, \A f \in flows' : f \in flows \/ f.source # "bps"
      PROVE  RunOK(t)'
  BY <1>3 DEF TaskOK, RunOK, Replaced, Refetched
<1>4. ASSUME NEW s \in {t, [t EXCEPT !.blind = @ \union {b}]}, t.kind = "bps" => RunOK(s)'
      PROVE  TaskOK(s)'
  <2>1. /\ s.kind = t.kind /\ s.pc = t.pc /\ s.fetched = t.fetched /\ s.by = t.by /\ s.nib = t.nib
        /\ s.heading = t.heading /\ s.year = t.year /\ t.by \in Nat
    BY DEF Task
  <2>. QED
    BY <1>4, <2>1 DEF TaskOK
<1>. QED
  BY <1>1, <1>2, <1>3, <1>4

LEMMA TypeParts ==
  TypeOK <=> /\ data \subseteq Datum /\ flows \subseteq Flow /\ RecordsOK
             /\ \A w \in Workers : worker[w].tries \in 0..MAX_RETRIES /\ worker[w].by \in 0..runs
             /\ \A a, b \in flows : SameKey(a, b) => a = b
BY DEF TypeOK, RecordsOK, Company

(* The same after a step. *)
LEMMA TypePartsLater ==
  (TypeOK <=> /\ data \subseteq Datum /\ flows \subseteq Flow /\ RecordsOK
              /\ \A w \in Workers : worker[w].tries \in 0..MAX_RETRIES /\ worker[w].by \in 0..runs
              /\ \A a, b \in flows : SameKey(a, b) => a = b)'
BY TypeParts, PTL

(* A step of one worker that stores no row. *)
LEMMA TaskStep ==
  ASSUME TInv, NEW w \in Workers, NEW t \in Task, Becomes(w, t),
         UNCHANGED <<data, flows, scripts>>, RecordsOK', runs <= runs', TaskOK(t)',
         \/ t.kind = "none"
         \/ t.kind = worker[w].kind /\ t.by = worker[w].by
         \/ t.by = runs + 1
         \/ t.kind = "verify" /\ t.by = 0
  PROVE  TInv'
<1>1. /\ runs \in Nat /\ runs' \in Nat /\ worker' \in [Workers -> Task] /\ worker'[w] = t
      /\ \A o \in Workers : o # w => worker'[o] = worker[o]
      /\ \A o \in Workers : worker[o] \in Task /\ TaskOK(worker[o]) /\ worker[o].by <= runs
  BY DEF TInv, TypeOK, Becomes, RecordsOK, TaskOK
<1>2. ASSUME NEW s \in Task, TaskOK(s) PROVE TaskOK(s)'
  BY <1>1, <1>2 DEF TaskOK, RunOK, Refetched, Replaced, Task
<1>3. ASSUME NEW o \in Workers PROVE TaskOK(worker[o])'
  <2>1. PICK s \in Task : s = worker'[o] /\ TaskOK(s)'
    BY <1>1, <1>2
  <2>. QED
    BY <2>1 DEF TaskOK, RunOK, Refetched, Replaced
<1>4. Numbered'
  BY <1>1 DEF TInv, Numbered, TaskOK, RunOK, Task
<1>5. TypeOK'
  <2>1. \A o \in Workers : worker'[o].tries \in 0..MAX_RETRIES /\ worker'[o].by \in 0..runs'
    BY <1>1, <1>3 DEF Task, TaskOK
  <2>2. \A a, b \in flows' : SameKey(a, b) => a = b
    BY DEF TInv, TypeOK
  <2>3. data' \subseteq Datum /\ flows' \subseteq Flow
    BY DEF TInv, TypeOK
  <2>. QED
    BY <2>1, <2>2, <2>3, TypePartsLater
<1>6. RowsOK'
  BY <1>1 DEF TInv, RowsOK, TypeOK, Flow, Datum
<1>. QED
  BY <1>1, <1>3, <1>4, <1>5, <1>6 DEF TInv

LEMMA InitTInv == Init => TInv
<1>. SUFFICES ASSUME Init PROVE TInv
  OBVIOUS
<1>1. worker \in [Workers -> Task] /\ (\A w \in Workers : worker[w] = Idle) /\ TaskOK(Idle)
  BY IdleType, IdleOK DEF Init
<1>2. RecordsOK
  <2>1. NoVerdict \in [nib : Nibs \union {"none"}, is_valid : BOOLEAN, sandbox : BOOLEAN,
                       sources : SUBSET {"badanperizinan", "oss_public", "sandbox"},
                       scale : {0, 5, 15, 20}, score : 0..100]
    BY DEF NoVerdict
  <2>2. company \in Company
    BY <2>1 DEF Init, Company
  <2>. QED
    <3>1. MaxJobs \in Nat
      BY EtlAssumption
    <3>2. jobs \in 0..MaxJobs /\ runs \in Nat
      BY <3>1 DEF Init
    <3>. QED
      BY <2>2, <3>2 DEF Init, RecordsOK
<1>3. Idle.tries = 0
  BY DEF Idle
<1>4. TypeOK
  BY <1>1, <1>2, <1>3, IdleType, TypeParts, EtlAssumption DEF Init
<1>. QED
  BY <1>1, <1>4, IdleType DEF TInv, Numbered, RowsOK, Init

-----------------------------------------------------------------------------
(* One lemma for each of the tasks. *)
LEMMA TaskNow ==
  ASSUME TInv, NEW w \in Workers
  PROVE  worker[w] \in Task /\ TaskOK(worker[w]) /\ RecordsOK /\ runs \in Nat
BY TypeParts DEF TInv, RecordsOK

(* A worker that ends its task. *)
LEMMA TaskEnds ==
  ASSUME TInv, NEW w \in Workers, Becomes(w, Idle), UNCHANGED <<data, flows, scripts, runs>>, RecordsOK'
  PROVE  TInv'
<1>1. TaskOK(Idle)'
  BY IdleType DEF TaskOK, RecordsOK
<1>. QED
  BY <1>1, IdleType, TaskStep DEF RecordsOK

LEMMA BeginKeeps ==
  ASSUME TInv, NEW w \in Workers, NEW kind \in DOMAIN Requests, NEW h \in Headings, NEW y \in Years,
         Begin(w, kind, h, y)
  PROVE  TInv'
<1>0. RecordsOK /\ runs \in Nat /\ runs + 1 \in Nat /\ kind \in {"bps", "inatrade", "un_comtrade", "umkm"}
  BY TaskNow, EtlAssumption
<1>1. PICK pc \in Pcs : pc = FirstStep(kind)
  BY <1>0 DEF FirstStep, Pcs
<1>2. /\ kind \in {"bps", "umkm"} => pc = "fetch"
      /\ kind \in {"inatrade", "un_comtrade"} => pc \in {"mode1", "X", "M"}
  BY <1>0, <1>1 DEF FirstStep
<1>3. PICK n \in Nat : n = runs + 1
  BY <1>0
<1>4. /\ runs' = n /\ jobs' = jobs + 1 /\ jobs < MaxJobs
      /\ Becomes(w, [Idle EXCEPT !.kind = kind, !.pc = pc, !.heading = h, !.year = y, !.by = n])
      /\ UNCHANGED <<data, flows, company, stored, scripts, apart, asked, unheard, raced>>
  BY <1>1, <1>3 DEF Begin, tables, histories, nibHistory
<1>5. h \in Nat /\ y \in Nat /\ 0 \in 0..MAX_RETRIES /\ kind \in Kinds
  BY <1>0, CodesType, EtlAssumption DEF Kinds
<1>6. PICK t \in Task : t = [kind |-> kind, pc |-> pc, heading |-> h, year |-> y, nib |-> "none", by |-> n,
                            tries |-> 0, fetched |-> {}, target |-> {}, data |-> {}, flows |-> {},
                            blind |-> {}, step1 |-> {}]
  BY <1>5 DEF Task
<1>7. t = [Idle EXCEPT !.kind = kind, !.pc = pc, !.heading = h, !.year = y, !.by = n]
  <2>1. DOMAIN t = DOMAIN Idle
    BY <1>6 DEF Idle
  <2>2. /\ t.kind = kind /\ t.pc = pc /\ t.heading = h /\ t.year = y /\ t.by = n
        /\ \A f \in DOMAIN Idle \ {"kind", "pc", "heading", "year", "by"} : t[f] = Idle[f]
    BY <1>6 DEF Idle
  <2>3. t = [f \in DOMAIN Idle |-> t[f]]
    BY <1>6, <2>1
  <2>. QED
    BY <2>1, <2>2, <2>3
<1>7a. Becomes(w, t)
  BY <1>4, <1>7
<1>8. RecordsOK'
  BY <1>0, <1>3, <1>4, EtlAssumption DEF RecordsOK
<1>9. TaskOK(t)'
  <2>1. (\A f \in flows : f.by \in Nat /\ f.by <= runs) /\ (\A d \in data : d.by \in Nat /\ d.by <= runs) /\ scripts \subseteq 0..runs
    BY DEF TInv, RowsOK, TypeOK, Flow, Datum
  <2>2. /\ \A f \in flows' : f.by # n
        /\ \A d \in data' : d.by # n
        /\ n \notin scripts' /\ n > 0 /\ n <= runs'
    BY <1>0, <1>3, <1>4, <2>1
  <2>3. /\ t.kind = kind /\ t.pc = pc /\ t.heading = h /\ t.year = y /\ t.by = n
        /\ t.fetched = {} /\ t.nib = "none"
    BY <1>6
  <2>4. kind = "bps" => RunOK(t)'
    BY <1>2, <2>2, <2>3 DEF RunOK
  <2>. QED
    BY <1>0, <1>2, <2>2, <2>3, <2>4 DEF TaskOK
<1>. QED
  BY <1>0, <1>3, <1>4, <1>6, <1>7a, <1>8, <1>9, TaskStep

LEMMA LostKeeps == ASSUME TInv, NEW w \in Workers, WorkerLost(w) PROVE TInv'
<1>1. worker[w].nib \in Nibs \union {"none"} /\ RecordsOK
  BY TaskNow DEF Task
<1>2. RecordsOK'
  BY <1>1 DEF RecordsOK, WorkerLost, tables
<1>. QED
  BY <1>2, TaskEnds DEF WorkerLost, tables

LEMMA RetryKeeps == ASSUME TInv, NEW w \in Workers, Retry(w) PROVE TInv'
<1>1. /\ worker[w] \in Task /\ TaskOK(worker[w]) /\ RecordsOK /\ runs \in Nat
      /\ worker[w].kind \in {"inatrade", "un_comtrade", "verify"}
      /\ UNCHANGED <<data, flows, company, jobs, stored, scripts, apart, asked, raced>>
  BY TaskNow DEF Retry, tables
<1>2. RecordsOK'
  BY <1>1 DEF RecordsOK, Retry, Task
<1>3. CASE ~(worker[w].tries < MAX_RETRIES)
  BY <1>1, <1>2, <1>3, TaskEnds DEF Retry
<1>4. CASE worker[w].tries < MAX_RETRIES
  <2>1. PICK n \in Nat : n = runs + 1
    BY <1>1
  <2>2. PICK pc \in Pcs : pc = FirstStep(worker[w].kind)
    BY <1>1 DEF FirstStep, Pcs
  <2>3. worker[w].kind # "verify" => pc \in {"mode1", "X", "M"}
    BY <1>1, <2>2 DEF FirstStep
  <2>4. PICK k \in 0..MAX_RETRIES : k = worker[w].tries + 1
    BY <1>1, <1>4, EtlAssumption DEF Task
  <2>5. PICK t : t = [worker[w] EXCEPT !.pc = pc, !.by = n, !.tries = k, !.step1 = {}]
    OBVIOUS
  <2>6. [worker[w] EXCEPT !.pc = pc, !.by = n] \in Task
    BY <1>1 DEF Task
  <2>7. t \in Task
    BY <1>1, <2>5, <2>6 DEF Task
  <2>8. /\ t.kind = worker[w].kind /\ t.pc = pc /\ t.by = n /\ t.nib = worker[w].nib
        /\ t.fetched = worker[w].fetched /\ t.heading = worker[w].heading /\ t.year = worker[w].year
    BY <1>1, <2>5 DEF Task
  <2>9. runs' = n /\ Becomes(w, t)
    BY <1>1, <1>4, <2>1, <2>2, <2>4, <2>5 DEF Retry
  <2>10. TaskOK(t)'
    BY <1>1, <2>1, <2>3, <2>8, <2>9 DEF TaskOK
  <2>. QED
    BY <1>1, <1>2, <2>1, <2>7, <2>8, <2>9, <2>10, TaskStep
<1>. QED
  BY <1>3, <1>4

LEMMA BpsFailsKeeps == ASSUME TInv, NEW w \in Workers, BpsFails(w) PROVE TInv'
<1>1. RecordsOK'
  BY TaskNow DEF RecordsOK, BpsFails, tables, histories, nibHistory
<1>. QED
  BY <1>1, TaskEnds DEF BpsFails, tables, histories

(* Steps that only change what the worker itself knows.                     *)
LEMMA Learns ==
  ASSUME TInv, NEW w \in Workers, NEW t \in Task, Becomes(w, t), UNCHANGED <<tables, jobs, runs, histories>>,
         t.kind = worker[w].kind, t.by = worker[w].by, t.nib = worker[w].nib,
         t.heading = worker[w].heading, t.year = worker[w].year,
         t.kind = "bps" => RunOK(t),
         t.kind \in {"inatrade", "un_comtrade"} => t.pc \in {"mode1", "X", "M"},
         t.kind = "umkm" /\ t.pc = "write" => t.fetched \subseteq Sources,
         t.kind = "verify" => t.fetched \in Scales
  PROVE  TInv'
<1>1. TaskOK(worker[w]) /\ RecordsOK /\ runs \in Nat
  BY TaskNow
<1>2. RecordsOK'
  BY <1>1 DEF RecordsOK, tables, histories, nibHistory
<1>3. TaskOK(t)
  BY <1>1 DEF TaskOK
<1>4. TaskOK(t)'
  BY <1>3 DEF TaskOK, RunOK, Refetched, Replaced, tables, histories
<1>. QED
  BY <1>1, <1>2, <1>4, TaskStep DEF tables, histories

LEMMA FetchKeeps ==
  ASSUME TInv, NEW w \in Workers,
         NEW answer \in SUBSET [hs_code : Codes(worker[w].heading), flow : _FLOW_META], BpsFetch(w, answer)
  PROVE  TInv'
<1>1. /\ worker[w] \in Task /\ TaskOK(worker[w]) /\ RecordsOK /\ data \subseteq Datum
      /\ worker[w].kind = "bps" /\ UNCHANGED <<tables, jobs, runs, histories>>
  BY TaskNow DEF BpsFetch, Does, TInv, TypeOK
<1>2. CASE answer = {}
  <2>1. RecordsOK'
    BY <1>1 DEF RecordsOK, tables, histories, nibHistory
  <2>. QED
    BY <1>1, <1>2, <2>1, TaskEnds DEF BpsFetch, tables, histories
<1>3. CASE answer # {}
  <2>1. answer \subseteq Answers
    <3>1. Codes(worker[w].heading) \subseteq AllCodes
      BY <1>1, CodesType DEF TaskOK
    <3>. QED
      BY <3>1 DEF Answers
  <2>2. PICK target \in SUBSET Datum :
          target = {d \in data : /\ d.heading = worker[w].heading /\ d.year = worker[w].year
                                 /\ \E a \in answer : a.flow = d.flow}
    BY <1>1
  <2>3. PICK t : t = [worker[w] EXCEPT !.pc = "data", !.fetched = answer, !.target = target]
    OBVIOUS
  <2>4. [worker[w] EXCEPT !.pc = "data"] \in Task
    BY <1>1 DEF Task, Pcs
  <2>5. t \in Task
    BY <1>1, <2>1, <2>3, <2>4 DEF Task
  <2>6. Becomes(w, t)
    BY <1>3, <2>2, <2>3 DEF BpsFetch
  <2>7. /\ t.kind = "bps" /\ t.pc = "data" /\ t.fetched = answer /\ t.target = target /\ t.by = worker[w].by
        /\ t.nib = worker[w].nib /\ t.heading = worker[w].heading /\ t.year = worker[w].year
    BY <1>1, <2>3 DEF Task
  <2>8. RunOK(t)
    BY <1>1, <2>1, <2>2, <2>7 DEF TaskOK, RunOK, Refetched
  <2>. QED
    BY <1>1, <2>5, <2>6, <2>7, <2>8, Learns
<1>. QED
  BY <1>2, <1>3

LEMMA ClearDataKeeps == ASSUME TInv, NEW w \in Workers, BpsClearData(w) PROVE TInv'
<1>1. /\ worker[w] \in Task /\ TaskOK(worker[w]) /\ RunOK(worker[w]) /\ flows \subseteq Flow /\ data \subseteq Datum
      /\ worker[w].kind = "bps" /\ worker[w].pc = "data" /\ UNCHANGED <<tables, jobs, runs, histories>>
  BY TaskNow DEF BpsClearData, Does, TInv, TypeOK, TaskOK
<1>2. PICK target \in SUBSET Flow :
        target = {f \in flows : /\ f.source = "bps"
                                /\ \E a \in worker[w].fetched : a.hs_code = f.hs_code
                                /\ \E a \in worker[w].fetched : a.flow = f.flow}
  BY <1>1
<1>3. PICK gone \in SUBSET Datum : gone = worker[w].target \intersect data
  BY <1>1
<1>4. PICK t : t = [worker[w] EXCEPT !.pc = "flows", !.data = gone, !.target = target]
  OBVIOUS
<1>5. [worker[w] EXCEPT !.pc = "flows"] \in Task
  BY <1>1 DEF Task, Pcs
<1>6. t \in Task
  BY <1>1, <1>4, <1>5 DEF Task
<1>7. Becomes(w, t)
  BY <1>2, <1>3, <1>4 DEF BpsClearData
<1>8. /\ t.kind = "bps" /\ t.pc = "flows" /\ t.fetched = worker[w].fetched /\ t.target = target /\ t.data = gone
      /\ t.by = worker[w].by /\ t.blind = worker[w].blind
      /\ t.nib = worker[w].nib /\ t.heading = worker[w].heading /\ t.year = worker[w].year
  BY <1>1, <1>4 DEF Task
<1>9. RunOK(t)
  BY <1>1, <1>2, <1>3, <1>8 DEF RunOK, Refetched, Replaced
<1>. QED
  BY <1>1, <1>6, <1>7, <1>8, <1>9, Learns

LEMMA ClearFlowsKeeps == ASSUME TInv, NEW w \in Workers, BpsClearFlows(w) PROVE TInv'
<1>1. /\ worker[w] \in Task /\ TaskOK(worker[w]) /\ RunOK(worker[w]) /\ flows \subseteq Flow
      /\ worker[w].kind = "bps" /\ worker[w].pc = "flows" /\ UNCHANGED <<tables, jobs, runs, histories>>
  BY TaskNow DEF BpsClearFlows, Does, TInv, TypeOK, TaskOK
<1>2. PICK gone \in SUBSET Flow : gone = worker[w].target \intersect flows
  BY <1>1
<1>3. PICK t : t = [worker[w] EXCEPT !.pc = "insert", !.flows = gone, !.target = {}]
  OBVIOUS
<1>4. [worker[w] EXCEPT !.pc = "insert"] \in Task
  BY <1>1 DEF Task, Pcs
<1>5. t \in Task
  BY <1>1, <1>3, <1>4 DEF Task
<1>6. Becomes(w, t)
  BY <1>2, <1>3 DEF BpsClearFlows
<1>7. /\ t.kind = "bps" /\ t.pc = "insert" /\ t.fetched = worker[w].fetched /\ t.flows = gone
      /\ t.data = worker[w].data /\ t.by = worker[w].by /\ t.blind = worker[w].blind
      /\ t.nib = worker[w].nib /\ t.heading = worker[w].heading /\ t.year = worker[w].year
  BY <1>1, <1>3 DEF Task
<1>8. RunOK(t)
  BY <1>1, <1>2, <1>7 DEF RunOK, Refetched, Replaced
<1>. QED
  BY <1>1, <1>5, <1>6, <1>7, <1>8, Learns

LEMMA UmkmReadKeeps == ASSUME TInv, NEW w \in Workers, UmkmRead(w) PROVE TInv'
<1>1. /\ worker[w] \in Task /\ TaskOK(worker[w]) /\ RecordsOK /\ flows \subseteq Flow
      /\ worker[w].kind = "umkm" /\ UNCHANGED <<tables, jobs, runs, histories>>
  BY TaskNow DEF UmkmRead, Does, TInv, TypeOK
<1>. DEFINE rows == {f \in flows : Matches(worker[w].heading, f.hs_code) /\ f.year = worker[w].year}
<1>2. CASE rows = {}
  <2>1. RecordsOK'
    BY <1>1 DEF RecordsOK, tables, histories, nibHistory
  <2>. QED
    BY <1>1, <1>2, <2>1, TaskEnds DEF UmkmRead, tables, histories
<1>3. CASE rows # {}
  <2>1. PICK sources \in SUBSET Sources : sources = {f.source : f \in rows}
    BY <1>1 DEF Flow
  <2>2. PICK t : t = [worker[w] EXCEPT !.pc = "write", !.fetched = sources]
    OBVIOUS
  <2>3. [worker[w] EXCEPT !.pc = "write"] \in Task
    BY <1>1 DEF Task, Pcs
  <2>4. t \in Task
    BY <1>1, <2>2, <2>3 DEF Task
  <2>5. Becomes(w, t)
    BY <1>3, <2>1, <2>2 DEF UmkmRead
  <2>6. /\ t.kind = "umkm" /\ t.pc = "write" /\ t.fetched = sources /\ t.by = worker[w].by
        /\ t.nib = worker[w].nib /\ t.heading = worker[w].heading /\ t.year = worker[w].year
    BY <1>1, <2>2 DEF Task
  <2>. QED
    BY <1>1, <2>4, <2>5, <2>6, Learns
<1>. QED
  BY <1>2, <1>3

LEMMA UmkmWriteKeeps == ASSUME TInv, NEW w \in Workers, update_umkm_inatrade_data(w) PROVE TInv'
<1>1. /\ worker[w].fetched \in SUBSET Sources /\ RecordsOK /\ company \in Company
      /\ UNCHANGED <<data, flows, jobs, runs, histories>>
  BY TaskNow DEF update_umkm_inatrade_data, Does, TaskOK, RecordsOK
<1>2. company' \in Company
  BY <1>1 DEF update_umkm_inatrade_data, Company
<1>3. RecordsOK'
  BY <1>1, <1>2 DEF RecordsOK, histories, nibHistory
<1>. QED
  BY <1>1, <1>3, TaskEnds DEF update_umkm_inatrade_data, histories

LEMMA BeginVerifyKeeps == ASSUME TInv, NEW w \in Workers, NEW nib \in Nibs, BeginVerify(w, nib) PROVE TInv'
<1>1. /\ RecordsOK /\ jobs' = jobs + 1 /\ jobs < MaxJobs /\ asked' = nib /\ unheard' = unheard \ {nib}
      /\ raced' \in BOOLEAN /\ UNCHANGED <<data, flows, company, runs, stored, scripts, apart>>
      /\ Becomes(w, [Idle EXCEPT !.kind = "verify", !.pc = "step1", !.nib = nib])
  BY TaskNow DEF BeginVerify, tables, FirstStep
<1>2. RecordsOK'
  BY <1>1, EtlAssumption DEF RecordsOK
<1>3. [Idle EXCEPT !.kind = "verify", !.pc = "step1"] \in Task
  BY IdleType DEF Task, Kinds, Pcs
<1>4. PICK t : t = [Idle EXCEPT !.kind = "verify", !.pc = "step1", !.nib = nib]
  OBVIOUS
<1>5. t \in Task
  BY IdleType, <1>3, <1>4 DEF Task
<1>6. t.kind = "verify" /\ t.nib = nib /\ t.by = 0 /\ t.fetched = {}
  BY <1>4 DEF Idle
<1>7. Becomes(w, t)
  BY <1>1, <1>4
<1>8. TaskOK(t)'
  BY <1>1, <1>6 DEF TaskOK, Scales, RecordsOK
<1>. QED
  BY <1>1, <1>2, <1>5, <1>6, <1>7, <1>8, TaskStep DEF RecordsOK

LEMMA FirstRegisterKeeps ==
  ASSUME TInv, NEW w \in Workers, NEW answer \in Firsts, _fetch_badan_perizinan(w, answer) PROVE TInv'
<1>1. /\ worker[w] \in Task /\ TaskOK(worker[w]) /\ worker[w].kind = "verify"
      /\ UNCHANGED <<tables, jobs, runs, histories>>
  BY TaskNow DEF _fetch_badan_perizinan, Does
<1>2. PICK pc \in {"persist", "step2"} : Becomes(w, [worker[w] EXCEPT !.pc = pc, !.step1 = {answer}])
  BY DEF _fetch_badan_perizinan
<1>3. [worker[w] EXCEPT !.pc = pc] \in Task
  BY <1>1 DEF Task, Pcs
<1>4. PICK t : t = [worker[w] EXCEPT !.pc = pc, !.step1 = {answer}]
  OBVIOUS
<1>5. t \in Task
  BY <1>1, <1>3, <1>4 DEF Task
<1>6. /\ t.kind = "verify" /\ t.fetched = worker[w].fetched /\ t.by = worker[w].by
      /\ t.nib = worker[w].nib /\ t.heading = worker[w].heading /\ t.year = worker[w].year
  BY <1>1, <1>4 DEF Task
<1>7. Becomes(w, t)
  BY <1>2, <1>4
<1>. QED
  BY <1>1, <1>5, <1>6, <1>7, Learns DEF TaskOK

LEMMA SecondRegisterKeeps ==
  ASSUME TInv, NEW w \in Workers, NEW scales \in Scales, _fetch_oss_public(w, scales) PROVE TInv'
<1>1. /\ worker[w] \in Task /\ TaskOK(worker[w]) /\ worker[w].kind = "verify"
      /\ UNCHANGED <<tables, jobs, runs, histories>>
  BY TaskNow DEF _fetch_oss_public, Does
<1>2. scales \in SUBSET (Answers \union Sources \union {0, 5, 20})
  BY DEF Scales
<1>3. [worker[w] EXCEPT !.pc = "persist"] \in Task
  BY <1>1 DEF Task, Pcs
<1>4. PICK t : t = [worker[w] EXCEPT !.pc = "persist", !.fetched = scales]
  OBVIOUS
<1>5. t \in Task
  BY <1>1, <1>2, <1>3, <1>4 DEF Task
<1>6. /\ t.kind = "verify" /\ t.fetched = scales /\ t.by = worker[w].by
      /\ t.nib = worker[w].nib /\ t.heading = worker[w].heading /\ t.year = worker[w].year
  BY <1>1, <1>4 DEF Task
<1>7. Becomes(w, t)
  BY <1>4 DEF _fetch_oss_public
<1>. QED
  BY <1>1, <1>5, <1>6, <1>7, Learns DEF TaskOK

(* What the two registers come to. *)
Verdicts == [nib : Nibs, is_valid : BOOLEAN, sandbox : BOOLEAN,
             sources : SUBSET {"badanperizinan", "oss_public", "sandbox"},
             scale : {0, 5, 15, 20}, score : 0..100]

Judged(v) ==
  /\ v.is_valid <=> v.sources # {}
  /\ v.sandbox <=> v.sources = {"sandbox"}
  /\ v.score > 0 <=> v.is_valid
  /\ v.sources = {"badanperizinan"} => v.score = 80

LEMMA Merged ==
  ASSUME NEW first \in Firsts, NEW oss \in Scales
  PROVE  LET r == _merge_nib_sources(first, oss)
         IN  /\ r.is_valid \in BOOLEAN /\ r.sandbox \in BOOLEAN
             /\ r.sources \in SUBSET {"badanperizinan", "oss_public", "sandbox"}
             /\ r.scale \in {0, 5, 15, 20}
             /\ r.is_valid <=> r.sources # {}
             /\ r.sandbox <=> r.sources = {"sandbox"}
             /\ ~r.is_valid => r.scale = 0
             /\ r.sources = {"badanperizinan"} => r.scale = 0
<1>1. /\ first.is_valid \in BOOLEAN /\ first.sandbox \in BOOLEAN
      /\ first.sources \in {{}, {"sandbox"}, {"badanperizinan"}} /\ first.scale \in {0, 15, 20}
      /\ first.is_valid = (first.sources # {}) /\ first.sandbox = (first.sources = {"sandbox"})
      /\ first.sources # {"sandbox"} => first.scale = 0
  <2>1. CASE first = Found
    BY <2>1 DEF Found
  <2>2. CASE first = _invalid_nib_response
    BY <2>2 DEF _invalid_nib_response
  <2>3. CASE first \in Mocks
    <3>1. PICK p \in {15, 20} : first = [is_valid |-> TRUE, sandbox |-> TRUE, sources |-> {"sandbox"}, scale |-> p]
      BY <2>3 DEF Mocks, _mock_nib_response, _SANDBOX_PROFILES
    <3>. QED
      BY <3>1
  <2>. QED
    BY <2>1, <2>2, <2>3 DEF Firsts
<1>2. CASE oss = {}
  BY <1>1, <1>2 DEF _merge_nib_sources
<1>3. CASE oss # {}
  <2>1. PICK s \in {0, 5, 20} : s = CHOOSE x \in oss : TRUE
    BY <1>3 DEF Scales
  <2>2. PICK k \in {0, 5, 15, 20} : k = IF first.scale # 0 THEN first.scale ELSE s
    BY <1>1
  <2>3. PICK from \in SUBSET {"badanperizinan", "oss_public", "sandbox"} :
          from = (first.sources \ {"sandbox"}) \union {"oss_public"}
    BY <1>1
  <2>4. _merge_nib_sources(first, oss) = [is_valid |-> TRUE, sandbox |-> FALSE, sources |-> from, scale |-> k]
    BY <1>3, <2>1, <2>2, <2>3 DEF _merge_nib_sources
  <2>5. "oss_public" \in from
    BY <2>3
  <2>. QED
    BY <2>4, <2>5
<1>. QED
  BY <1>2, <1>3

LEMMA Persists ==
  ASSUME TInv, NEW w \in Workers, update_umkm_verification_result(w)
  PROVE  /\ company'.verdict \in Verdicts /\ Judged(company'.verdict) /\ company'.verdict.nib = worker[w].nib
         /\ company' \in Company
<1>1. /\ worker[w] \in Task /\ worker[w].nib \in Nibs /\ worker[w].fetched \in Scales
      /\ worker[w].step1 \subseteq Firsts /\ company \in Company
  BY TaskNow DEF update_umkm_verification_result, Does, TaskOK, Task, RecordsOK
<1>2. PICK first \in Firsts :
        LET result == _merge_nib_sources(first, worker[w].fetched)
        IN  company' = [company EXCEPT !.verdict =
              [nib |-> worker[w].nib, score |-> _calculate_verification_score(result),
               is_valid |-> result.is_valid, sandbox |-> result.sandbox,
               sources |-> result.sources, scale |-> result.scale]]
  BY <1>1 DEF update_umkm_verification_result
<1>3. PICK r : r = _merge_nib_sources(first, worker[w].fetched)
  OBVIOUS
<1>4. /\ r.is_valid \in BOOLEAN /\ r.sandbox \in BOOLEAN
      /\ r.sources \in SUBSET {"badanperizinan", "oss_public", "sandbox"}
      /\ r.scale \in {0, 5, 15, 20}
      /\ r.is_valid <=> r.sources # {}
      /\ r.sandbox <=> r.sources = {"sandbox"}
      /\ ~r.is_valid => r.scale = 0
      /\ r.sources = {"badanperizinan"} => r.scale = 0
  BY <1>1, <1>3, Merged
<1>5. PICK n \in 0..100 : n = _calculate_verification_score(r)
  BY <1>4 DEF _calculate_verification_score
<1>6. (n > 0 <=> r.is_valid) /\ (r.sources = {"badanperizinan"} => n = 80)
  BY <1>4, <1>5 DEF _calculate_verification_score
<1>7. PICK v : v = [nib |-> worker[w].nib, score |-> n, is_valid |-> r.is_valid, sandbox |-> r.sandbox,
                    sources |-> r.sources, scale |-> r.scale]
  OBVIOUS
<1>8. v \in Verdicts /\ v.nib = worker[w].nib
  BY <1>1, <1>4, <1>7 DEF Verdicts
<1>9. Judged(v)
  BY <1>4, <1>6, <1>7 DEF Judged
<1>10. company' = [company EXCEPT !.verdict = v]
  BY <1>2, <1>3, <1>5, <1>7
<1>11. company'.verdict = v /\ company' \in Company
  BY <1>1, <1>8, <1>10 DEF Company, Verdicts
<1>. QED
  BY <1>8, <1>9, <1>11

LEMMA PersistKeeps == ASSUME TInv, NEW w \in Workers, update_umkm_verification_result(w) PROVE TInv'
<1>1. RecordsOK /\ Becomes(w, Idle) /\ UNCHANGED <<data, flows, jobs, runs, histories>>
  BY TaskNow DEF update_umkm_verification_result
<1>2. RecordsOK'
  BY <1>1, Persists DEF RecordsOK, histories, nibHistory
<1>. QED
  BY <1>1, <1>2, TaskEnds DEF histories

(* Rows that come, and the tasks that go on beside them.                    *)
LEMMA StoreRowsKeeps ==
  ASSUME TInv, NEW w \in Workers, NEW codes \in _fetch_flow(w) \union _fetch_and_store(w), _store_rows(w, codes)
  PROVE  TInv'
<1>1. /\ worker \in [Workers -> Task] /\ (\A o \in Workers : worker[o] \in Task /\ TaskOK(worker[o])) /\ RecordsOK
      /\ runs \in Nat /\ flows \subseteq Flow /\ data \subseteq Datum
      /\ \A a, b \in flows : SameKey(a, b) => a = b
  BY TaskNow DEF TInv, TypeOK
<1>2. worker[w].kind \in {"inatrade", "un_comtrade"} /\ codes \in SUBSET (Reporters \union {NoCode})
  BY DEF _fetch_flow, _fetch_and_store, Does
<1>3. PICK new : new = Fetched(worker[w], codes)
  OBVIOUS
<1>4. /\ new \in SUBSET Flow /\ (\A a \in new : a.source # "bps" /\ a.by = worker[w].by)
      /\ \A a, b \in new : SameKey(a, b) => a = b
  BY <1>1, <1>2, <1>3, FetchedRows
<1>5. flows' = InsertOrUpdate(flows, new) /\ UNCHANGED <<data, company, jobs, runs, histories>>
  BY <1>3 DEF _store_rows
<1>6. flows' \subseteq Flow /\ \A a, b \in flows' : SameKey(a, b) => a = b
  BY <1>1, <1>4, <1>5, KeysStayUnique
<1>7. \A f \in flows' : f \in flows \/ (f \in new /\ f.source # "bps" /\ f.by = worker[w].by)
  BY <1>4, <1>5 DEF InsertOrUpdate
<1>8. PICK t \in Task :
        Becomes(w, t) /\ (t = Idle \/ (t = [worker[w] EXCEPT !.pc = t.pc] /\ t.pc \in {"mode1", "X", "M"}))
  <2>1. CASE NextStep(worker[w].kind, worker[w].pc) = "end"
    BY <2>1, IdleType DEF _store_rows
  <2>2. CASE NextStep(worker[w].kind, worker[w].pc) # "end"
    <3>1. PICK pc \in {"X", "M"} : pc = NextStep(worker[w].kind, worker[w].pc)
      BY <2>2 DEF NextStep
    <3>2. PICK t : t = [worker[w] EXCEPT !.pc = pc]
      OBVIOUS
    <3>3. t \in Task /\ t.pc = pc
      <4>1. pc \in Pcs
        BY DEF Pcs
      <4>2. worker[w] \in Task
        BY <1>1
      <4>. QED
        BY <3>2, <4>1, <4>2 DEF Task
    <3>. QED
      BY <2>2, <3>1, <3>2, <3>3 DEF _store_rows
  <2>. QED
    BY <2>1, <2>2
<1>9. t.kind = "none" \/ (t.kind = worker[w].kind /\ t.by = worker[w].by)
  BY <1>1, <1>8, IdleType DEF Task
<1>10. TaskOK(t)'
  <2>1. CASE t = Idle
    BY <1>1, <1>5, <2>1, IdleType DEF TaskOK, RecordsOK
  <2>2. CASE t # Idle
    <3>1. /\ t.kind = worker[w].kind /\ t.nib = worker[w].nib /\ t.by = worker[w].by
          /\ t.heading = worker[w].heading /\ t.year = worker[w].year /\ t.pc \in {"mode1", "X", "M"}
      BY <1>1, <1>8, <2>2 DEF Task
    <3>. QED
      BY <1>1, <1>2, <1>5, <3>1 DEF TaskOK
  <2>. QED
    BY <2>1, <2>2
<1>11. /\ worker' \in [Workers -> Task] /\ worker'[w] = t /\ \A o \in Workers : o # w => worker'[o] = worker[o]
  BY <1>1, <1>8 DEF Becomes
<1>12. ASSUME NEW o \in Workers PROVE TaskOK(worker[o])' 
  <2>1. PICK s \in Task : s = worker'[o] /\ TaskOK(s)'
    <3>1. CASE o = w
      BY <1>10, <1>11, <3>1
    <3>2. CASE o # w
      <4>1. PICK s \in Task : s = worker[o] /\ TaskOK(s)
        BY <1>1
      <4>2. s.kind = "bps" => s.by # worker[w].by
        BY <1>2, <3>2, <4>1 DEF TInv, Numbered
      <4>3. PICK b \in Nat : b = worker[w].by
        BY <1>1 DEF Task
      <4>4. /\ runs' \in Nat /\ runs <= runs' /\ scripts' \subseteq scripts \union {b} /\ data' = data
            /\ \A f \in flows' : f \in flows \/ f.source # "bps"
            /\ \A f \in flows' : f \in flows \/ f.by = b
        BY <1>1, <1>5, <1>7, <4>3 DEF histories
      <4>5. TaskOK(s)'
        BY <1>1, <4>1, <4>2, <4>3, <4>4, TaskStaysOK
      <4>. QED
        BY <1>11, <3>2, <4>1, <4>5
    <3>. QED
      BY <3>1, <3>2
  <2>. QED
    BY <2>1 DEF TaskOK, RunOK, Refetched, Replaced
<1>13. Numbered'
  BY <1>9, <1>11, <1>2 DEF TInv, Numbered
<1>14. RowsOK'
  BY <1>1, <1>5, <1>7 DEF TInv, RowsOK, TaskOK, histories
<1>15. TypeOK'
  <2>1. RecordsOK'
    BY <1>1, <1>5 DEF RecordsOK, histories, nibHistory
  <2>2. \A o \in Workers : worker'[o].tries \in 0..MAX_RETRIES /\ worker'[o].by \in 0..runs'
    BY <1>1, <1>5, <1>11, <1>12 DEF Task, TaskOK
  <2>. QED
    BY <1>1, <1>5, <1>6, <2>1, <2>2, TypePartsLater
<1>. QED
  BY <1>11, <1>12, <1>13, <1>14, <1>15 DEF TInv

(* Every run that has issued its DELETE misses the rows stored under b.     *)
LEMMA Missed ==
  ASSUME TInv, NEW b \in Nat, NEW o \in Workers, runs' \in Nat, runs <= runs', scripts' \subseteq scripts \union {b},
         \A f \in flows' : f \in flows \/ f.by = b,
         \A d \in data' : d \in data \/ d.by = b,
         worker[o].kind = "bps" => worker[o].by # b
  PROVE  /\ Unseen(b)[o] \in Task /\ Unseen(b)[o].kind = worker[o].kind /\ Unseen(b)[o].by = worker[o].by
         /\ \E s \in Task : s = Unseen(b)[o] /\ TaskOK(s)'
<1>1. PICK t \in Task : t = worker[o] /\ TaskOK(t)
  BY TaskNow
<1>2. runs \in Nat
  BY TaskNow
<1>3. PICK s : s = [t EXCEPT !.blind = @ \union {b}]
  OBVIOUS
<1>4. s \in Task /\ s.kind = t.kind /\ s.by = t.by
  BY <1>3 DEF Task
<1>5. TaskOK(s)'
  <2>1. TaskOK([t EXCEPT !.blind = @ \union {b}])'
    BY <1>1, <1>2, TaskStaysOK
  <2>. QED
    BY <1>3, <2>1
<1>6. t.kind # "bps" \/ t.pc = "fetch" => TaskOK(t)'
  BY <1>1, <1>2, TaskStaysOK
<1>7. Unseen(b)[o] = IF t.kind = "bps" /\ t.pc # "fetch" THEN s ELSE t
  BY <1>1, <1>3 DEF Unseen
<1>. QED
  BY <1>1, <1>4, <1>5, <1>6, <1>7

LEMMA StoreAllKeeps == ASSUME TInv, NEW w \in Workers, _store_all(w) PROVE TInv'
<1>1. /\ worker \in [Workers -> Task] /\ worker[w] \in Task /\ TaskOK(worker[w]) /\ RunOK(worker[w])
      /\ worker[w].kind = "bps" /\ RecordsOK
      /\ runs \in Nat /\ flows \subseteq Flow /\ data \subseteq Datum
      /\ \A a, b \in flows : SameKey(a, b) => a = b
  BY TaskNow DEF TInv, TypeOK, _store_all, Does, TaskOK
<1>2. PICK country \in Reporters : country = CHOOSE r \in Reporters : TRUE
  BY EtlAssumption
<1>3. PICK new : new = {BpsFlow(worker[w], a, country) : a \in worker[w].fetched}
  OBVIOUS
<1>4. PICK b \in Nat : b = worker[w].by
  BY <1>1 DEF Task
<1>5. /\ new \in SUBSET Flow /\ {BpsDatum(worker[w], a) : a \in worker[w].fetched} \subseteq Datum
      /\ \A x, y \in new : SameKey(x, y) => x = y
  BY <1>1, <1>3, StoredRows
<1>6. /\ data' = (data \ worker[w].data) \union {BpsDatum(worker[w], a) : a \in worker[w].fetched}
      /\ flows' = InsertOrUpdate(flows \ worker[w].flows, new)
      /\ worker' = [Unseen(b) EXCEPT ![w] = Idle]
      /\ UNCHANGED <<company, jobs, runs, scripts, nibHistory>>
  BY <1>2, <1>3, <1>4 DEF _store_all
<1>7. \A a \in new : a.by = b /\ a.heading = worker[w].heading /\ a.year = worker[w].year
  BY <1>3, <1>4 DEF BpsFlow
<1>8. /\ \A f \in flows' : f \in flows \/ (f.by = b /\ f.heading = worker[w].heading /\ f.year = worker[w].year)
      /\ \A d \in data' : d \in data \/ (d.by = b /\ d.heading = worker[w].heading /\ d.year = worker[w].year)
  BY <1>4, <1>6, <1>7 DEF InsertOrUpdate, BpsDatum
<1>9. data' \subseteq Datum /\ flows' \subseteq Flow /\ \A x, y \in flows' : SameKey(x, y) => x = y
  <2>1. (flows \ worker[w].flows) \in SUBSET Flow /\ \A x, y \in (flows \ worker[w].flows) : SameKey(x, y) => x = y
    BY <1>1
  <2>. QED
    BY <1>1, <1>5, <1>6, <2>1, KeysStayUnique
<1>10. ASSUME NEW o \in Workers, o # w
       PROVE  /\ worker'[o] \in Task /\ worker'[o].kind = worker[o].kind /\ worker'[o].by = worker[o].by
              /\ \E s \in Task : s = worker'[o] /\ TaskOK(s)'
  <2>1. worker[o].kind = "bps" => worker[o].by # b
    BY <1>1, <1>4, <1>10 DEF TInv, Numbered
  <2>2. worker'[o] = Unseen(b)[o]
    BY <1>6, <1>10 DEF Unseen
  <2>3. /\ runs' \in Nat /\ runs <= runs' /\ scripts' \subseteq scripts \union {b}
        /\ \A f \in flows' : f \in flows \/ f.by = b
        /\ \A d \in data' : d \in data \/ d.by = b
    <3>1. runs' = runs /\ scripts' = scripts
      BY <1>6
    <3>. QED
      BY <1>1, <1>8, <3>1
  <2>4. /\ Unseen(b)[o] \in Task /\ Unseen(b)[o].kind = worker[o].kind /\ Unseen(b)[o].by = worker[o].by
        /\ \E s \in Task : s = Unseen(b)[o] /\ TaskOK(s)'
    BY <2>1, <2>3, Missed
  <2>. QED
    BY <2>2, <2>4
<1>11. worker'[w] = Idle /\ DOMAIN worker' = Workers /\ worker' = [o \in Workers |-> worker'[o]]
  BY <1>6 DEF Unseen
<1>12. worker' \in [Workers -> Task]
  BY <1>10, <1>11, IdleType
<1>13. TaskOK(Idle)'
  BY <1>1, <1>6, IdleType DEF TaskOK
<1>14. ASSUME NEW o \in Workers PROVE TaskOK(worker[o])'
  <2>1. PICK s \in Task : s = worker'[o] /\ TaskOK(s)'
    BY <1>10, <1>11, <1>13, IdleType
  <2>. QED
    BY <2>1 DEF TaskOK, RunOK, Refetched, Replaced
<1>15. Numbered'
  BY <1>10, <1>11, IdleType DEF TInv, Numbered
<1>16. RowsOK'
  <2>1. b <= runs /\ (\A f \in flows : f.by # b) /\ (\A d \in data : d.by # b)
    BY <1>1, <1>4 DEF TaskOK, RunOK
  <2>. QED
    BY <1>6, <1>8, <2>1 DEF TInv, RowsOK
<1>17. TypeOK'
  <2>1. RecordsOK'
    BY <1>1, <1>6 DEF RecordsOK, nibHistory
  <2>2. \A o \in Workers : worker'[o].tries \in 0..MAX_RETRIES /\ worker'[o].by \in 0..runs'
    BY <1>1, <1>6, <1>12, <1>14 DEF Task, TaskOK
  <2>. QED
    BY <1>9, <2>1, <2>2, TypePartsLater
<1>. QED
  BY <1>12, <1>14, <1>15, <1>16, <1>17 DEF TInv

LEMMA SeedKeeps == ASSUME TInv, SeedFlows PROVE TInv'
<1>1. /\ worker \in [Workers -> Task] /\ RecordsOK /\ jobs \in Nat /\ MaxJobs \in Nat
      /\ runs \in Nat /\ flows \subseteq Flow /\ data \subseteq Datum
      /\ \A a, b \in flows : SameKey(a, b) => a = b
  BY TypeParts, EtlAssumption DEF TInv, TypeOK
<1>2. PICK b \in Nat : b = runs + 1
  BY <1>1
<1>3. /\ flows' = {f \in flows : f.source = "inatrade"} \union COFFEE_DATA(b)
      /\ worker' = Unseen(b) /\ runs' = b /\ jobs < MaxJobs /\ jobs' = jobs + 1 /\ scripts' = scripts \union {b}
      /\ UNCHANGED <<data, company, stored, apart, nibHistory>>
  BY <1>2 DEF SeedFlows
<1>4. /\ COFFEE_DATA(b) \subseteq Flow /\ (\A a \in COFFEE_DATA(b) : a.by = b)
      /\ \A x, y \in COFFEE_DATA(b) : SameKey(x, y) => x = y
  BY SeededRows
<1>5a. \A a \in COFFEE_DATA(b) : a.source # "inatrade"
  BY DEF COFFEE_DATA
<1>5. flows' \subseteq Flow /\ \A x, y \in flows' : SameKey(x, y) => x = y
  <2>1. flows' \subseteq Flow
    BY <1>1, <1>3, <1>4
  <2>2. ASSUME NEW x \in flows', NEW y \in flows', SameKey(x, y) PROVE x = y
    <3>1. x.source = y.source
      BY <2>1, <2>2, KeyOf
    <3>. QED
      BY <1>1, <1>3, <1>4, <1>5a, <2>2, <3>1
  <2>. QED
    BY <2>1, <2>2
<1>6. \A f \in flows' : f \in flows \/ f.by = b
  BY <1>3, <1>4
<1>7. ASSUME NEW o \in Workers
      PROVE  /\ worker'[o] \in Task /\ worker'[o].kind = worker[o].kind /\ worker'[o].by = worker[o].by
             /\ \E s \in Task : s = worker'[o] /\ TaskOK(s)'
  <2>1. worker[o].kind = "bps" => worker[o].by # b
    BY <1>1, <1>2 DEF TInv, TypeOK
  <2>. QED
    BY <1>1, <1>2, <1>3, <1>6, <2>1, Missed
<1>8. worker' \in [Workers -> Task]
  BY <1>3, <1>7 DEF Unseen
<1>9. ASSUME NEW o \in Workers PROVE TaskOK(worker[o])'
  <2>1. PICK s \in Task : s = worker'[o] /\ TaskOK(s)'
    BY <1>7
  <2>. QED
    BY <2>1 DEF TaskOK, RunOK, Refetched, Replaced
<1>10. Numbered'
  BY <1>7 DEF TInv, Numbered
<1>11. RowsOK'
  <2>1. /\ \A f \in flows : f.by \in Nat /\ f.by <= runs
        /\ \A d \in data : d.by \in Nat /\ d.by <= runs
        /\ scripts \subseteq 0..runs
        /\ \A f \in flows, d \in data :
             f.source = "bps" /\ f.by = d.by => f.heading = d.heading /\ f.year = d.year
    BY <1>1 DEF TInv, RowsOK, Flow, Datum
  <2>. QED
    BY <1>1, <1>2, <1>3, <1>4, <2>1 DEF RowsOK
<1>12. TypeOK'
  <2>1. RecordsOK'
    BY <1>1, <1>2, <1>3 DEF RecordsOK, nibHistory
  <2>2. \A o \in Workers : worker'[o].tries \in 0..MAX_RETRIES /\ worker'[o].by \in 0..runs'
    BY <1>1, <1>2, <1>3, <1>8, <1>9 DEF Task, TaskOK
  <2>. QED
    BY <1>1, <1>3, <1>5, <2>1, <2>2, TypePartsLater
<1>. QED
  BY <1>8, <1>9, <1>10, <1>11, <1>12 DEF TInv

(* Every step keeps the invariant. *)
LEMMA NextTInv == TInv /\ [Next]_vars => TInv'
<1>. SUFFICES ASSUME TInv, [Next]_vars PROVE TInv'
  OBVIOUS
<1>1. CASE UNCHANGED vars
  BY <1>1 DEF TInv, TypeOK, TaskOK, RunOK, Refetched, Replaced, Numbered, RowsOK, vars, tables, histories, nibHistory
<1>2. CASE SeedFlows
  BY <1>2, SeedKeeps
<1>3. ASSUME NEW w \in Workers, NEW kind \in DOMAIN Requests, NEW h \in Headings, NEW y \in Years, Begin(w, kind, h, y)
      PROVE  TInv'
  BY <1>3, BeginKeeps
<1>4. ASSUME NEW w \in Workers, WorkerLost(w) \/ Retry(w) \/ BpsClearData(w) \/ BpsClearFlows(w) \/ BpsFails(w)
      PROVE  TInv'
  BY <1>4, LostKeeps, RetryKeeps, ClearDataKeeps, ClearFlowsKeeps, BpsFailsKeeps
<1>5. ASSUME NEW w \in Workers, _store_all(w) \/ UmkmRead(w) \/ update_umkm_inatrade_data(w) \/ update_umkm_verification_result(w)
      PROVE  TInv'
  BY <1>5, StoreAllKeeps, UmkmReadKeeps, UmkmWriteKeeps, PersistKeeps
<1>6. ASSUME NEW w \in Workers, NEW answer \in SUBSET [hs_code : Codes(worker[w].heading), flow : _FLOW_META],
             BpsFetch(w, answer)
      PROVE  TInv'
  BY <1>6, FetchKeeps
<1>7. ASSUME NEW w \in Workers, NEW codes \in _fetch_flow(w) \union _fetch_and_store(w), _store_rows(w, codes)
      PROVE  TInv'
  BY <1>7, StoreRowsKeeps
<1>8. ASSUME NEW w \in Workers, NEW nib \in Nibs, BeginVerify(w, nib) PROVE TInv'
  BY <1>8, BeginVerifyKeeps
<1>9. ASSUME NEW w \in Workers, NEW answer \in Firsts, _fetch_badan_perizinan(w, answer) PROVE TInv'
  BY <1>9, FirstRegisterKeeps
<1>10. ASSUME NEW w \in Workers, NEW scales \in Scales, _fetch_oss_public(w, scales) PROVE TInv'
  BY <1>10, SecondRegisterKeeps
<1>. QED
  BY <1>1, <1>2, <1>3, <1>4, <1>5, <1>6, <1>7, <1>8, <1>9, <1>10 DEF Next, Firsts, Scales

(* The rows, the company and the tasks hold what their columns allow, and   *)
(* no two rows of trade_flows have one key.                                 *)
THEOREM TypeCorrect == Spec => []TypeOK
<1>1. TInv => TypeOK
  BY DEF TInv
<1>. QED
  BY InitTInv, NextTInv, <1>1, PTL DEF Spec

-----------------------------------------------------------------------------
(* What a run of BPS leaves behind. *)
LEMMA StoredRun ==
  ASSUME TInv, NEW w \in Workers, _store_all(w), NEW t, t = worker[w]
  PROVE  /\ t \in Task /\ RunOK(t) /\ t.pc = "insert" /\ t.fetched \subseteq Answers
         /\ \A d \in data' : \/ d \in data /\ d \notin t.data
                            \/ /\ d.by = t.by /\ d.heading = t.heading /\ d.year = t.year
                               /\ \E a \in t.fetched : a.hs_code = d.hs_code /\ a.flow = d.flow
         /\ \A d \in data : d \in data' \/ d \in t.data
         /\ \A a \in t.fetched : \E d \in data' : /\ d.by = t.by /\ d.heading = t.heading /\ d.year = t.year
                                                /\ d.hs_code = a.hs_code /\ d.flow = a.flow
         /\ \A f \in flows' : \/ f \in flows /\ f \notin t.flows
                             \/ /\ f.by = t.by /\ f.source = "bps" /\ f.heading = t.heading /\ f.year = t.year
                                /\ \E a \in t.fetched : a.hs_code = f.hs_code /\ a.flow = f.flow
         /\ \A a \in t.fetched : \E f \in flows' : f.source = "bps" /\ f.hs_code = a.hs_code /\ f.flow = a.flow
         /\ \A f \in flows : f.source = "bps" => f \in flows' \/ Replaced(t, f)
         /\ scripts' = scripts /\ stored' = stored \union {[by |-> t.by, of |-> t.fetched]}
         /\ apart' = apart \union {{b, t.by} : b \in t.blind}
<1>1. t \in Task /\ TaskOK(t) /\ RunOK(t) /\ t.kind = "bps" /\ t.pc = "insert" /\ t.fetched \subseteq Answers /\ flows \subseteq Flow
  BY TaskNow DEF TInv, TypeOK, _store_all, Does, TaskOK, RunOK
<1>2. PICK country \in Reporters : country = CHOOSE r \in Reporters : TRUE
  BY EtlAssumption
<1>3. PICK new : new = {BpsFlow(t, a, country) : a \in t.fetched}
  OBVIOUS
<1>4. PICK rows : rows = {BpsDatum(t, a) : a \in t.fetched}
  OBVIOUS
<1>5. new \subseteq Flow
  BY <1>1, <1>3, StoredRows
<1>6. /\ data' = (data \ t.data) \union rows
      /\ flows' = InsertOrUpdate(flows \ t.flows, new)
      /\ scripts' = scripts /\ stored' = stored \union {[by |-> t.by, of |-> t.fetched]}
      /\ apart' = apart \union {{b, t.by} : b \in t.blind}
  BY <1>2, <1>3, <1>4 DEF _store_all
<1>7. \A d \in rows : /\ d.by = t.by /\ d.heading = t.heading /\ d.year = t.year
                      /\ \E a \in t.fetched : a.hs_code = d.hs_code /\ a.flow = d.flow
  BY <1>4 DEF BpsDatum
<1>8. \A a \in t.fetched : \E d \in rows : /\ d.by = t.by /\ d.heading = t.heading /\ d.year = t.year
                                         /\ d.hs_code = a.hs_code /\ d.flow = a.flow
  <2>1. ASSUME NEW a \in t.fetched
        PROVE  \E d \in rows : /\ d.by = t.by /\ d.heading = t.heading /\ d.year = t.year
                              /\ d.hs_code = a.hs_code /\ d.flow = a.flow
    <3>1. BpsDatum(t, a) \in rows
      BY <1>4
    <3>. QED
      BY <3>1 DEF BpsDatum
  <2>. QED
    BY <2>1
<1>9. \A f \in new : /\ f.by = t.by /\ f.source = "bps" /\ f.heading = t.heading /\ f.year = t.year
                     /\ \E a \in t.fetched : a.hs_code = f.hs_code /\ a.flow = f.flow
  <2>1. ASSUME NEW f \in new
        PROVE  /\ f.by = t.by /\ f.source = "bps" /\ f.heading = t.heading /\ f.year = t.year
               /\ \E a \in t.fetched : a.hs_code = f.hs_code /\ a.flow = f.flow
    <3>1. PICK a \in t.fetched : f = BpsFlow(t, a, country)
      BY <1>3
    <3>2. f.by = t.by /\ f.source = "bps" /\ f.heading = t.heading /\ f.year = t.year
      BY <3>1 DEF BpsFlow
    <3>3. f.hs_code = a.hs_code /\ f.flow = a.flow
      BY <3>1 DEF BpsFlow
    <3>. QED
      BY <3>2, <3>3
  <2>. QED
    BY <2>1
<1>10. \A a \in t.fetched : \E f \in new : f.source = "bps" /\ f.hs_code = a.hs_code /\ f.flow = a.flow
  <2>1. ASSUME NEW a \in t.fetched
        PROVE  \E f \in new : f.source = "bps" /\ f.hs_code = a.hs_code /\ f.flow = a.flow
    <3>1. PICK f \in new : f = BpsFlow(t, a, country)
      BY <1>3
    <3>2. f.source = "bps" /\ f.hs_code = a.hs_code /\ f.flow = a.flow
      BY <3>1 DEF BpsFlow
    <3>. QED
      BY <3>2
  <2>. QED
    BY <2>1
<1>11. new \subseteq flows' /\ \A f \in flows' : f \in new \/ f \in flows \ t.flows
  BY <1>6 DEF InsertOrUpdate
<1>12. ASSUME NEW f \in flows, f.source = "bps", f \notin flows' PROVE Replaced(t, f)
  <2>1. CASE f \in t.flows
    BY <1>1, <2>1 DEF RunOK
  <2>2. CASE f \notin t.flows
    <3>1. PICK n \in new : SameKey(f, n)
      BY <1>6, <1>12, <2>2 DEF InsertOrUpdate
    <3>2. f.hs_code = n.hs_code /\ f.flow = n.flow
      BY <1>1, <1>5, <3>1, KeyOf
    <3>. QED
      BY <1>9, <1>12, <3>2 DEF Replaced
  <2>. QED
    BY <2>1, <2>2
<1>13. /\ \A d \in data' : \/ d \in data /\ d \notin t.data
                          \/ /\ d.by = t.by /\ d.heading = t.heading /\ d.year = t.year
                             /\ \E a \in t.fetched : a.hs_code = d.hs_code /\ a.flow = d.flow
       /\ \A d \in data : d \in data' \/ d \in t.data
       /\ \A a \in t.fetched : \E d \in data' : /\ d.by = t.by /\ d.heading = t.heading /\ d.year = t.year
                                              /\ d.hs_code = a.hs_code /\ d.flow = a.flow
  BY <1>6, <1>7, <1>8
<1>14. /\ \A f \in flows' : \/ f \in flows /\ f \notin t.flows
                           \/ /\ f.by = t.by /\ f.source = "bps" /\ f.heading = t.heading /\ f.year = t.year
                              /\ \E a \in t.fetched : a.hs_code = f.hs_code /\ a.flow = f.flow
       /\ \A a \in t.fetched : \E f \in flows' : f.source = "bps" /\ f.hs_code = a.hs_code /\ f.flow = a.flow
       /\ \A f \in flows : f.source = "bps" => f \in flows' \/ Replaced(t, f)
  BY <1>9, <1>10, <1>11, <1>12
<1>. QED
  BY <1>1, <1>6, <1>13, <1>14

(* A step either stores a run of BPS, or is the script, or leaves what BPS  *)
(* said alone.                                                              *)
LEMMA RowSteps ==
  ASSUME TInv, [Next]_vars
  PROVE  \/ \E w \in Workers : _store_all(w)
         \/ SeedFlows
         \/ /\ UNCHANGED <<data, scripts, stored, apart>>
            /\ \A f \in flows' : f.source = "bps" => f \in flows
            /\ \A f \in flows : f.source = "bps" => f \in flows'
<1>1. CASE UNCHANGED vars
  BY <1>1 DEF vars, tables, histories
<1>2. ASSUME NEW w \in Workers, NEW codes \in _fetch_flow(w) \union _fetch_and_store(w), _store_rows(w, codes)
      PROVE  /\ UNCHANGED <<data, scripts, stored, apart>>
             /\ \A f \in flows' : f.source = "bps" => f \in flows
             /\ \A f \in flows : f.source = "bps" => f \in flows'
  <2>1. worker[w].kind \in {"inatrade", "un_comtrade"} /\ codes \in SUBSET (Reporters \union {NoCode})
    BY <1>2 DEF _fetch_flow, _fetch_and_store, Does
  <2>2. PICK new : new = Fetched(worker[w], codes)
    OBVIOUS
  <2>3. new \subseteq Flow /\ (\A a \in new : a.source # "bps") /\ flows \subseteq Flow
    BY TaskNow, FetchedRows, <2>1, <2>2 DEF TInv, TypeOK
  <2>4. flows' = InsertOrUpdate(flows, new) /\ UNCHANGED <<data, scripts, stored, apart>>
    BY <1>2, <2>2 DEF _store_rows, histories
  <2>5. \A f \in flows, n \in new : SameKey(f, n) => f.source = n.source
    BY <2>3, KeyOf
  <2>. QED
    BY <2>3, <2>4, <2>5 DEF InsertOrUpdate
<1>3. ASSUME NEW w \in Workers, NEW kind, NEW h, NEW y, Begin(w, kind, h, y)
      PROVE  UNCHANGED <<data, flows, scripts, stored, apart>>
  BY <1>3 DEF Begin, tables, histories
<1>4. ASSUME NEW w \in Workers, WorkerLost(w) \/ Retry(w) \/ BpsClearData(w) \/ BpsClearFlows(w) \/ BpsFails(w)
      PROVE  UNCHANGED <<data, flows, scripts, stored, apart>>
  BY <1>4 DEF WorkerLost, Retry, BpsClearData, BpsClearFlows, BpsFails, tables, histories
<1>5. ASSUME NEW w \in Workers, UmkmRead(w) \/ update_umkm_inatrade_data(w) \/ update_umkm_verification_result(w)
      PROVE  UNCHANGED <<data, flows, scripts, stored, apart>>
  BY <1>5 DEF UmkmRead, update_umkm_inatrade_data, update_umkm_verification_result, tables, histories
<1>6. ASSUME NEW w \in Workers, NEW x, BpsFetch(w, x) \/ BeginVerify(w, x) \/ _fetch_badan_perizinan(w, x) \/ _fetch_oss_public(w, x)
      PROVE  UNCHANGED <<data, flows, scripts, stored, apart>>
  BY <1>6 DEF BpsFetch, BeginVerify, _fetch_badan_perizinan, _fetch_oss_public, tables, histories
<1>. QED
  BY <1>1, <1>2, <1>3, <1>4, <1>5, <1>6 DEF Next

LEMMA OneRunKept == ASSUME TInv, OneRunPerCode, [Next]_vars PROVE OneRunPerCode'
<1>1. flows \subseteq Flow /\ data \subseteq Datum
  BY DEF TInv, TypeOK
<1>2. ASSUME NEW w \in Workers, _store_all(w) PROVE OneRunPerCode'
  <2>1. PICK t : t = worker[w]
    OBVIOUS
  <2>2. /\ RunOK(t) /\ t.pc = "insert"
        /\ \A d \in data' : \/ d \in data /\ d \notin t.data
                           \/ /\ d.by = t.by /\ d.heading = t.heading /\ d.year = t.year
                              /\ \E a \in t.fetched : a.hs_code = d.hs_code /\ a.flow = d.flow
        /\ \A f \in flows' : \/ f \in flows /\ f \notin t.flows
                            \/ /\ f.by = t.by /\ f.source = "bps" /\ f.heading = t.heading /\ f.year = t.year
                               /\ \E a \in t.fetched : a.hs_code = f.hs_code /\ a.flow = f.flow
        /\ apart' = apart \union {{b, t.by} : b \in t.blind}
    BY <1>2, <2>1, StoredRun
  <2>3. ASSUME NEW f \in flows, f \notin t.flows, Replaced(t, f) PROVE {f.by, t.by} \in apart'
    BY <2>2, <2>3 DEF RunOK
  <2>4. ASSUME NEW d \in data, d \notin t.data, Refetched(t, d) PROVE {d.by, t.by} \in apart'
    BY <2>2, <2>4 DEF RunOK
  <2>5. ASSUME NEW a \in flows', NEW b \in flows', a.source = "bps", b.source = "bps",
               a.hs_code = b.hs_code, a.flow = b.flow, a.by # b.by
        PROVE  {a.by, b.by} \in apart'
    <3>1. CASE a \in flows /\ a \notin t.flows /\ b \in flows /\ b \notin t.flows
      BY <2>2, <2>5, <3>1 DEF OneRunPerCode
    <3>2. CASE /\ a \in flows /\ a \notin t.flows /\ b.by = t.by
               /\ \E x \in t.fetched : x.hs_code = b.hs_code /\ x.flow = b.flow
      BY <2>3, <2>5, <3>2 DEF Replaced
    <3>3. CASE /\ b \in flows /\ b \notin t.flows /\ a.by = t.by
               /\ \E x \in t.fetched : x.hs_code = a.hs_code /\ x.flow = a.flow
      <4>1. {b.by, a.by} \in apart'
        BY <2>3, <2>5, <3>3 DEF Replaced
      <4>2. {a.by, b.by} = {b.by, a.by}
        OBVIOUS
      <4>. QED
        BY <4>1, <4>2
    <3>. QED
      BY <2>2, <2>5, <3>1, <3>2, <3>3
  <2>6. ASSUME NEW a \in data', NEW b \in data', a.heading = b.heading, a.year = b.year, a.flow = b.flow, a.by # b.by
        PROVE  {a.by, b.by} \in apart'
    <3>1. CASE a \in data /\ a \notin t.data /\ b \in data /\ b \notin t.data
      BY <2>2, <2>6, <3>1 DEF OneRunPerCode
    <3>2. CASE /\ a \in data /\ a \notin t.data /\ b.by = t.by /\ b.heading = t.heading /\ b.year = t.year
               /\ \E x \in t.fetched : x.hs_code = b.hs_code /\ x.flow = b.flow
      BY <2>4, <2>6, <3>2 DEF Refetched
    <3>3. CASE /\ b \in data /\ b \notin t.data /\ a.by = t.by /\ a.heading = t.heading /\ a.year = t.year
               /\ \E x \in t.fetched : x.hs_code = a.hs_code /\ x.flow = a.flow
      <4>1. {b.by, a.by} \in apart'
        BY <2>4, <2>6, <3>3 DEF Refetched
      <4>2. {a.by, b.by} = {b.by, a.by}
        OBVIOUS
      <4>. QED
        BY <4>1, <4>2
    <3>. QED
      BY <2>2, <2>6, <3>1, <3>2, <3>3
  <2>. QED
    BY <2>5, <2>6 DEF OneRunPerCode
<1>3. ASSUME SeedFlows PROVE OneRunPerCode'
  <2>1. /\ flows' = {f \in flows : f.source = "inatrade"} \union COFFEE_DATA(runs + 1) /\ UNCHANGED <<data, apart>>
        /\ runs + 1 \in Nat
    BY <1>3 DEF SeedFlows, TInv, TypeOK
  <2>2. \A f \in flows' : f.source = "bps" => f.by = runs + 1
    BY <2>1, SeededRows
  <2>. QED
    BY <2>1, <2>2 DEF OneRunPerCode
<1>4. ASSUME UNCHANGED <<data, apart>>, \A f \in flows' : f.source = "bps" => f \in flows PROVE OneRunPerCode'
  BY <1>4 DEF OneRunPerCode
<1>. QED
  BY <1>2, <1>3, <1>4, RowSteps

LEMMA BackedKept == ASSUME TInv, FlowsBacked, [Next]_vars PROVE FlowsBacked'
<1>1. ASSUME NEW w \in Workers, _store_all(w) PROVE FlowsBacked'
  <2>1. PICK t : t = worker[w]
    OBVIOUS
  <2>2. /\ RunOK(t) /\ t.pc = "insert" /\ scripts' = scripts
        /\ \A d \in data : d \in data' \/ d \in t.data
        /\ \A a \in t.fetched : \E d \in data' : /\ d.by = t.by /\ d.heading = t.heading /\ d.year = t.year
                                               /\ d.hs_code = a.hs_code /\ d.flow = a.flow
        /\ \A f \in flows' : \/ f \in flows /\ f \notin t.flows
                            \/ /\ f.by = t.by /\ f.source = "bps" /\ f.heading = t.heading /\ f.year = t.year
                               /\ \E a \in t.fetched : a.hs_code = f.hs_code /\ a.flow = f.flow
    BY <1>1, <2>1, StoredRun
  <2>3. ASSUME NEW f \in flows, f.source = "bps", f.by \notin scripts
        PROVE  \/ \E d \in data' : d.by = f.by /\ d.hs_code = f.hs_code /\ d.flow = f.flow
               \/ \E d \in data' : d.heading = f.heading /\ d.year = f.year /\ d.flow = f.flow /\ d.by # f.by
    <3>1. PICK d \in data : /\ d.heading = f.heading /\ d.year = f.year /\ d.flow = f.flow
                            /\ d.by = f.by => d.hs_code = f.hs_code
      BY <2>3 DEF FlowsBacked, TInv, RowsOK
    <3>2. CASE d \in data'
      BY <3>1, <3>2
    <3>3. CASE d \in t.data
      <4>1. d.heading = t.heading /\ d.year = t.year /\ (\E a \in t.fetched : a.flow = d.flow)
        BY <2>2, <3>3 DEF RunOK, Refetched
      <4>. QED
        BY <2>2, <3>1, <4>1 DEF RunOK
    <3>. QED
      BY <2>2, <3>2, <3>3
  <2>. QED
    BY <2>2, <2>3 DEF FlowsBacked
<1>2. ASSUME SeedFlows PROVE FlowsBacked'
  <2>1. /\ flows' = {f \in flows : f.source = "inatrade"} \union COFFEE_DATA(runs + 1)
        /\ scripts' = scripts \union {runs + 1} /\ runs + 1 \in Nat
    BY <1>2 DEF SeedFlows, TInv, TypeOK
  <2>2. \A f \in flows' : f.source = "bps" => f.by \in scripts'
    BY <2>1, SeededRows
  <2>. QED
    BY <2>2 DEF FlowsBacked
<1>3. ASSUME UNCHANGED <<data, scripts>>, \A f \in flows' : f.source = "bps" => f \in flows PROVE FlowsBacked'
  BY <1>3 DEF FlowsBacked
<1>. QED
  BY <1>1, <1>2, <1>3, RowSteps

LEMMA ReachedKept == ASSUME TInv, DataReachesFlows, [Next]_vars PROVE DataReachesFlows'
<1>1. ASSUME NEW w \in Workers, _store_all(w) PROVE DataReachesFlows'
  <2>1. PICK t : t = worker[w]
    OBVIOUS
  <2>2. /\ t.fetched \subseteq Answers
        /\ \A d \in data' : \/ d \in data /\ d \notin t.data
                           \/ /\ d.by = t.by /\ d.heading = t.heading /\ d.year = t.year
                              /\ \E a \in t.fetched : a.hs_code = d.hs_code /\ a.flow = d.flow
        /\ \A a \in t.fetched : \E f \in flows' : f.source = "bps" /\ f.hs_code = a.hs_code /\ f.flow = a.flow
        /\ \A f \in flows : f.source = "bps" => f \in flows' \/ Replaced(t, f)
        /\ scripts' = scripts
    BY <1>1, <2>1, StoredRun
  <2>3. PICK run : run = [by |-> t.by, of |-> t.fetched]
    OBVIOUS
  <2>4. run.of = t.fetched /\ stored' = stored \union {run}
    BY <1>1, <2>1, <2>3, StoredRun
  <2>5. ASSUME scripts' = {}, NEW d \in data'
        PROVE  \/ \E f \in flows' : f.source = "bps" /\ f.hs_code = d.hs_code /\ f.flow = d.flow
               \/ \E r \in stored' : /\ \E a \in r.of : a.hs_code = d.hs_code
                                     /\ \E a \in r.of : a.flow = d.flow
                                     /\ [hs_code |-> d.hs_code, flow |-> d.flow] \notin r.of
    <3>1. CASE \E a \in t.fetched : a.hs_code = d.hs_code /\ a.flow = d.flow
      BY <2>2, <3>1
    <3>2. CASE ~\E a \in t.fetched : a.hs_code = d.hs_code /\ a.flow = d.flow
      <4>1. d \in data
        BY <2>2, <3>2
      <4>2. [hs_code |-> d.hs_code, flow |-> d.flow] \notin t.fetched
        BY <3>2
      <4>3. ASSUME NEW f \in flows, f.source = "bps", f.hs_code = d.hs_code, f.flow = d.flow, f \notin flows'
            PROVE  /\ \E a \in run.of : a.hs_code = d.hs_code
                   /\ \E a \in run.of : a.flow = d.flow
        BY <2>2, <2>4, <4>3 DEF Replaced
      <4>. QED
        BY <2>2, <2>4, <2>5, <4>1, <4>2, <4>3 DEF DataReachesFlows
    <3>. QED
      BY <3>1, <3>2
  <2>. QED
    BY <2>5 DEF DataReachesFlows
<1>2. ASSUME SeedFlows PROVE DataReachesFlows'
  BY <1>2 DEF SeedFlows, DataReachesFlows
<1>3. ASSUME UNCHANGED <<data, scripts, stored>>, \A f \in flows : f.source = "bps" => f \in flows' PROVE DataReachesFlows'
  BY <1>3 DEF DataReachesFlows
<1>. QED
  BY <1>1, <1>2, <1>3, RowSteps

(* The only step that writes a verdict. *)
LEMMA VerdictSteps ==
  ASSUME TInv, [Next]_vars
  PROVE  \/ \E w \in Workers : update_umkm_verification_result(w)
         \/ company'.verdict = company.verdict
<1>1. company \in Company
  BY DEF TInv, TypeOK, Company
<1>2. CASE UNCHANGED vars
  BY <1>2 DEF vars, tables
<1>3. CASE SeedFlows
  BY <1>3 DEF SeedFlows
<1>4. ASSUME NEW w \in Workers, update_umkm_inatrade_data(w) PROVE company'.verdict = company.verdict
  BY <1>1, <1>4 DEF update_umkm_inatrade_data, Company
<1>5. ASSUME NEW w \in Workers, NEW kind, NEW h, NEW y, Begin(w, kind, h, y) PROVE company' = company
  BY <1>5 DEF Begin, tables
<1>6. ASSUME NEW w \in Workers,
             WorkerLost(w) \/ Retry(w) \/ BpsClearData(w) \/ BpsClearFlows(w) \/ BpsFails(w) \/ _store_all(w) \/ UmkmRead(w)
      PROVE  company' = company
  BY <1>6 DEF WorkerLost, Retry, BpsClearData, BpsClearFlows, BpsFails, _store_all, UmkmRead, tables
<1>7. ASSUME NEW w \in Workers, NEW x,
             BpsFetch(w, x) \/ BeginVerify(w, x) \/ _fetch_badan_perizinan(w, x) \/ _fetch_oss_public(w, x) \/ _store_rows(w, x)
      PROVE  company' = company
  BY <1>7 DEF BpsFetch, BeginVerify, _fetch_badan_perizinan, _fetch_oss_public, _store_rows, tables
<1>. QED
  BY <1>2, <1>3, <1>4, <1>5, <1>6, <1>7 DEF Next

LEMMA EarnedKept == ASSUME TInv, VerdictEarned, [Next]_vars PROVE VerdictEarned'
<1>1. ASSUME NEW w \in Workers, update_umkm_verification_result(w) PROVE VerdictEarned'
  BY <1>1, Persists DEF VerdictEarned, Judged
<1>2. ASSUME company'.verdict = company.verdict PROVE VerdictEarned'
  BY <1>2 DEF VerdictEarned
<1>. QED
  BY <1>1, <1>2, VerdictSteps

(* Without a race, whoever verifies was asked last. *)
OneAsked == ~raced => \A w \in Workers : worker[w].nib \in {asked, "none"}

(* Who verifies after a step: the worker that begins, or who did before     *)
(* and neither wrote its verdict nor gave up.                               *)
LEMMA VerifySteps ==
  ASSUME TInv, [Next]_vars
  PROVE  \/ \E w \in Workers, nib \in Nibs : BeginVerify(w, nib)
         \/ /\ UNCHANGED <<asked, raced>> /\ unheard \subseteq unheard'
            /\ \A o \in Workers :
                 \/ worker'[o].nib = worker[o].nib
                 \/ worker'[o].nib = "none" /\ (worker[o].nib \in unheard' \/ update_umkm_verification_result(o))
<1>. DEFINE Goal == /\ UNCHANGED <<asked, raced>> /\ unheard \subseteq unheard'
                    /\ \A o \in Workers :
                         \/ worker'[o].nib = worker[o].nib
                         \/ worker'[o].nib = "none" /\ (worker[o].nib \in unheard' \/ update_umkm_verification_result(o))
<1>1. /\ worker \in [Workers -> Task]
      /\ \A o \in Workers : worker[o] \in Task /\ (worker[o].kind # "verify" => worker[o].nib = "none")
  BY DEF TInv, TaskOK
<1>a. ASSUME NEW w \in Workers
      PROVE  /\ \A x : [worker[w] EXCEPT !.pc = x].nib = worker[w].nib
             /\ \A x, y : [worker[w] EXCEPT !.pc = x, !.fetched = y].nib = worker[w].nib
             /\ \A x, y : [worker[w] EXCEPT !.pc = x, !.step1 = y].nib = worker[w].nib
             /\ \A x, y, z : [worker[w] EXCEPT !.pc = x, !.fetched = y, !.target = z].nib = worker[w].nib
             /\ \A x, y, z : [worker[w] EXCEPT !.pc = x, !.data = y, !.target = z].nib = worker[w].nib
             /\ \A x, y, z : [worker[w] EXCEPT !.pc = x, !.flows = y, !.target = z].nib = worker[w].nib
  BY <1>1 DEF Task
<1>2. CASE UNCHANGED vars
  BY <1>2 DEF vars, tables, histories, nibHistory
<1>3. ASSUME NEW w \in Workers, NEW t, Becomes(w, t), t.nib = worker[w].nib, UNCHANGED <<asked, raced, unheard>>
      PROVE  Goal
  BY <1>1, <1>3 DEF Becomes
<1>4. ASSUME NEW w \in Workers, Becomes(w, Idle), UNCHANGED <<asked, raced>>, unheard \subseteq unheard',
             worker[w].nib \in unheard' \union {"none"} \/ update_umkm_verification_result(w)
      PROVE  Goal
  BY <1>1, <1>4, IdleType DEF Becomes
<1>5. ASSUME NEW b PROVE \A o \in Workers : Unseen(b)[o].nib = worker[o].nib
  BY <1>1 DEF Unseen, Task
<1>6. CASE SeedFlows
  BY <1>5, <1>6 DEF SeedFlows, nibHistory
<1>7. ASSUME NEW w \in Workers, _store_all(w) PROVE Goal
  <2>1. /\ worker' = [Unseen(worker[w].by) EXCEPT ![w] = Idle] /\ UNCHANGED <<asked, raced, unheard>>
        /\ worker[w].kind = "bps"
    BY <1>7 DEF _store_all, Does, nibHistory
  <2>2. \A o \in Workers : worker'[o] = IF o = w THEN Idle ELSE Unseen(worker[w].by)[o]
    BY <2>1 DEF Unseen
  <2>. QED
    BY <1>1, <1>5, <2>1, <2>2, IdleType
<1>8. ASSUME NEW w \in Workers, NEW kind \in DOMAIN Requests, NEW h, NEW y, Begin(w, kind, h, y) PROVE Goal
  <2>1. PICK t : t = [Idle EXCEPT !.kind = kind, !.pc = FirstStep(kind), !.heading = h, !.year = y, !.by = runs + 1]
    OBVIOUS
  <2>2. t.nib = "none"
    BY <2>1 DEF Idle
  <2>3. Becomes(w, t) /\ worker[w].nib = "none" /\ UNCHANGED <<asked, raced, unheard>>
    BY <1>8, <2>1, IdleType DEF Begin, histories, nibHistory
  <2>. QED
    BY <1>3, <2>2, <2>3
<1>9. ASSUME NEW w \in Workers, WorkerLost(w) PROVE Goal
  <2>1. Becomes(w, Idle) /\ UNCHANGED <<asked, raced>> /\ unheard' = unheard \union ({worker[w].nib} \ {"none"})
    BY <1>9 DEF WorkerLost
  <2>. QED
    BY <1>4, <2>1
<1>10. ASSUME NEW w \in Workers, Retry(w) PROVE Goal
  <2>1. UNCHANGED <<asked, raced>>
    BY <1>10 DEF Retry
  <2>2. CASE ~(worker[w].tries < MAX_RETRIES)
    <3>1. Becomes(w, Idle) /\ unheard' = unheard \union ({worker[w].nib} \ {"none"})
      BY <1>10, <2>2 DEF Retry
    <3>. QED
      BY <1>4, <2>1, <3>1
  <2>3. CASE worker[w].tries < MAX_RETRIES
    <3>1. PICK t : t = [worker[w] EXCEPT !.pc = FirstStep(worker[w].kind), !.by = runs + 1, !.tries = @ + 1, !.step1 = {}]
      OBVIOUS
    <3>2. t.nib = worker[w].nib
      BY <1>1, <3>1 DEF Task
    <3>3. Becomes(w, t) /\ unheard' = unheard
      BY <1>10, <2>3, <3>1 DEF Retry
    <3>. QED
      BY <1>3, <2>1, <3>2, <3>3
  <2>. QED
    BY <2>2, <2>3
<1>11. ASSUME NEW w \in Workers, BpsFails(w) \/ update_umkm_inatrade_data(w) \/ update_umkm_verification_result(w) PROVE Goal
  <2>1. Becomes(w, Idle) /\ UNCHANGED <<asked, raced, unheard>>
    BY <1>11 DEF BpsFails, update_umkm_inatrade_data, update_umkm_verification_result, histories, nibHistory
  <2>2. worker[w].nib = "none" \/ update_umkm_verification_result(w)
    BY <1>1, <1>11 DEF BpsFails, update_umkm_inatrade_data, Does
  <2>. QED
    BY <1>4, <2>1, <2>2
<1>12. ASSUME NEW w \in Workers,
              BpsClearData(w) \/ BpsClearFlows(w) \/ UmkmRead(w) \/ (\E x : BpsFetch(w, x))
              \/ (\E x \in _fetch_flow(w) \union _fetch_and_store(w) : _store_rows(w, x))
       PROVE  Goal
  <2>1. UNCHANGED <<asked, raced, unheard>>
    BY <1>12 DEF BpsClearData, BpsClearFlows, UmkmRead, BpsFetch, _store_rows, histories, nibHistory
  <2>2. (\E t : Becomes(w, t) /\ t.nib = worker[w].nib) \/ (Becomes(w, Idle) /\ worker[w].kind # "verify")
    <3>1. CASE BpsClearData(w)
      <4>1. PICK x, y, t : Becomes(w, t) /\ t = [worker[w] EXCEPT !.pc = "flows", !.data = x, !.target = y]
        BY <3>1 DEF BpsClearData
      <4>2. t.nib = worker[w].nib
        BY <1>a, <4>1
      <4>. QED
        BY <4>1, <4>2
    <3>2. CASE BpsClearFlows(w)
      <4>1. PICK x, t : Becomes(w, t) /\ t = [worker[w] EXCEPT !.pc = "insert", !.flows = x, !.target = {}]
        BY <3>2 DEF BpsClearFlows
      <4>2. t.nib = worker[w].nib
        BY <1>a, <4>1
      <4>. QED
        BY <4>1, <4>2
    <3>3. CASE UmkmRead(w)
      <4>1. \/ \E x, t : Becomes(w, t) /\ t = [worker[w] EXCEPT !.pc = "write", !.fetched = x]
            \/ Becomes(w, Idle) /\ worker[w].kind # "verify"
        BY <3>3 DEF UmkmRead, Does
      <4>2. ASSUME NEW x, NEW t, t = [worker[w] EXCEPT !.pc = "write", !.fetched = x] PROVE t.nib = worker[w].nib
        BY <1>a, <4>2
      <4>. QED
        BY <4>1, <4>2
    <3>4. CASE \E x : BpsFetch(w, x)
      <4>1. \/ \E x, y, t : Becomes(w, t) /\ t = [worker[w] EXCEPT !.pc = "data", !.fetched = x, !.target = y]
            \/ Becomes(w, Idle) /\ worker[w].kind # "verify"
        BY <3>4 DEF BpsFetch, Does
      <4>2. ASSUME NEW x, NEW y, NEW t, Becomes(w, t), t = [worker[w] EXCEPT !.pc = "data", !.fetched = x, !.target = y]
            PROVE  t.nib = worker[w].nib
        BY <1>a, <4>2
      <4>3. CASE Becomes(w, Idle) /\ worker[w].kind # "verify"
        BY <4>3
      <4>4. CASE \E x, y, t : Becomes(w, t) /\ t = [worker[w] EXCEPT !.pc = "data", !.fetched = x, !.target = y]
        <5>1. PICK x, y, t : Becomes(w, t) /\ t = [worker[w] EXCEPT !.pc = "data", !.fetched = x, !.target = y]
          BY <4>4
        <5>2. t.nib = worker[w].nib
          BY <4>2, <5>1
        <5>. QED
          BY <5>1, <5>2
      <4>. QED
        BY <4>1, <4>3, <4>4
    <3>5. CASE \E x \in _fetch_flow(w) \union _fetch_and_store(w) : _store_rows(w, x)
      <4>1. \/ \E x, t : Becomes(w, t) /\ t = [worker[w] EXCEPT !.pc = x]
            \/ Becomes(w, Idle) /\ worker[w].kind # "verify"
        BY <3>5 DEF _store_rows, _fetch_flow, _fetch_and_store, Does
      <4>2. ASSUME NEW x, NEW t, t = [worker[w] EXCEPT !.pc = x] PROVE t.nib = worker[w].nib
        BY <1>a, <4>2
      <4>. QED
        BY <4>1, <4>2
    <3>. QED
      BY <1>12, <3>1, <3>2, <3>3, <3>4, <3>5
  <2>. QED
    BY <1>1, <1>3, <1>4, <2>1, <2>2
<1>13. ASSUME NEW w \in Workers, NEW x, _fetch_badan_perizinan(w, x) \/ _fetch_oss_public(w, x) PROVE Goal
  <2>1. UNCHANGED <<asked, raced, unheard>>
    BY <1>13 DEF _fetch_badan_perizinan, _fetch_oss_public, histories, nibHistory
  <2>2. \E t : Becomes(w, t) /\ t.nib = worker[w].nib
    <3>1. PICK pc, y, t : /\ Becomes(w, t)
                          /\ \/ t = [worker[w] EXCEPT !.pc = pc, !.step1 = y]
                             \/ t = [worker[w] EXCEPT !.pc = pc, !.fetched = y]
      BY <1>13 DEF _fetch_badan_perizinan, _fetch_oss_public
    <3>2. t = [worker[w] EXCEPT !.pc = pc, !.step1 = y] => t.nib = worker[w].nib
      BY <1>a
    <3>3. t = [worker[w] EXCEPT !.pc = pc, !.fetched = y] => t.nib = worker[w].nib
      BY <1>a
    <3>. QED
      BY <3>1, <3>2, <3>3
  <2>. QED
    BY <1>3, <2>1, <2>2
<1>. HIDE DEF Goal
<1>14. Goal \/ \E w \in Workers, nib \in Nibs : BeginVerify(w, nib)
  BY <1>2, <1>6, <1>7, <1>8, <1>9, <1>10, <1>11, <1>12, <1>13 DEF Next, Goal
<1>. QED
  BY <1>14 DEF Goal

LEMMA CurrentKept == ASSUME TInv, OneAsked, VerdictCurrent, [Next]_vars PROVE OneAsked' /\ VerdictCurrent'
<1>1. /\ worker \in [Workers -> Task] /\ "none" \notin Nibs /\ raced \in BOOLEAN
      /\ \A o \in Workers : worker[o].nib \in Nibs \union {"none"} /\ (worker[o].kind # "verify" => worker[o].nib = "none")
  BY EtlAssumption DEF TInv, TypeOK, TaskOK, Task
<1>2. ASSUME NEW w \in Workers, NEW nib \in Nibs, BeginVerify(w, nib) PROVE OneAsked' /\ VerdictCurrent'
  <2>1. PICK t : t = [Idle EXCEPT !.kind = "verify", !.pc = FirstStep("verify"), !.nib = nib]
    OBVIOUS
  <2>2. t.nib = nib
    BY <2>1 DEF Idle
  <2>3. /\ worker'[w] = t /\ \A o \in Workers : o # w => worker'[o] = worker[o]
        /\ asked' = nib /\ raced' = (raced \/ \E o \in Others(w) : worker[o].kind = "verify")
    BY <1>1, <1>2, <2>1 DEF BeginVerify, Becomes
  <2>4. VerdictCurrent'
    BY <2>2, <2>3 DEF VerdictCurrent
  <2>5. OneAsked'
    BY <1>1, <2>2, <2>3 DEF OneAsked, Others
  <2>. QED
    BY <2>4, <2>5
<1>3. ASSUME UNCHANGED <<asked, raced>>, unheard \subseteq unheard',
             \A o \in Workers :
               \/ worker'[o].nib = worker[o].nib
               \/ worker'[o].nib = "none" /\ (worker[o].nib \in unheard' \/ update_umkm_verification_result(o))
      PROVE  OneAsked' /\ VerdictCurrent'
  <2>1. OneAsked'
    BY <1>3 DEF OneAsked
  <2>2. ASSUME NEW w \in Workers, update_umkm_verification_result(w) PROVE VerdictCurrent'
    <3>1. company'.verdict.nib = worker[w].nib /\ worker[w].kind = "verify"
      BY <2>2, Persists DEF update_umkm_verification_result, Does
    <3>. QED
      BY <1>3, <3>1 DEF OneAsked, VerdictCurrent
  <2>3. ASSUME company'.verdict = company.verdict, \A w \in Workers : ~update_umkm_verification_result(w) PROVE VerdictCurrent'
    BY <1>3, <2>3 DEF VerdictCurrent
  <2>. QED
    BY <2>1, <2>2, <2>3, VerdictSteps
<1>. QED
  BY <1>2, <1>3, VerifySteps

(* What BPS says of a code in a direction comes from one run, or from runs  *)
(* that did not see each other; flows are backed by data and data reaches   *)
(* the flows, but for what another run replaced; and a verdict is earned    *)
(* from the registers and is about the NIB asked about last, unless two     *)
(* verifications raced or one was given up.                                 *)
THEOREM RecordsCorrect == Spec => []RecordsAccountedFor
<1>1. Init => TInv /\ RecordsAccountedFor /\ OneAsked
  <2>1. Init => OneRunPerCode /\ FlowsBacked /\ DataReachesFlows
    BY DEF Init, OneRunPerCode, FlowsBacked, DataReachesFlows
  <2>2. Init => VerdictEarned /\ VerdictCurrent /\ OneAsked
    BY IdleType DEF Init, VerdictEarned, VerdictCurrent, OneAsked, NoVerdict
  <2>. QED
    BY <2>1, <2>2, InitTInv DEF RecordsAccountedFor
<1>2. TInv /\ RecordsAccountedFor /\ OneAsked /\ [Next]_vars => (TInv /\ RecordsAccountedFor /\ OneAsked)'
  BY NextTInv, OneRunKept, BackedKept, ReachedKept, EarnedKept, CurrentKept DEF RecordsAccountedFor
<1>. QED
  BY <1>1, <1>2, PTL DEF Spec
=============================================================================
