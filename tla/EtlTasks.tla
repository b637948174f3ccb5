------------------------------- MODULE EtlTasks -------------------------------
(***************************************************************************)
(* What the etl-worker brings in from outside: trade statistics of BPS,    *)
(* INA-Trade and UN Comtrade, which benchmarks and summaries read, and the *)
(* registers' word on a company's NIB. Every source is written its own     *)
(* way: BPS replaces what it fetched in one transaction, the others insert *)
(* or update one step after the other and start over when one fails, a     *)
(* script throws away two sources and puts fixed rows in their place.      *)
(***************************************************************************)
EXTENDS Integers, FiniteSets

CONSTANTS
  Workers,
  Headings,     \* four-digit HS codes, without the leading zero
  Years,
  Requests,     \* Requests[kind]: the heading and year a task is asked for
  Reporters,    \* partners or reporters of a row, without NoCode
  NoCode,       \* a key column the source leaves empty: NULL
  Nibs,         \* of the company over time
  ShortNibs,    \* those of fewer than 13 digits
  MAX_RETRIES,
  MaxJobs       \* bound: tasks begun, redeliveries included

ASSUME EtlAssumption ==
  /\ Headings \subseteq Nat /\ Years \subseteq Nat /\ NoCode \notin Reporters
  /\ Headings # {} /\ Reporters # {} /\ "none" \notin Nibs
  /\ Requests \in [{"bps", "inatrade", "un_comtrade", "umkm"} -> SUBSET (Headings \X Years)]
  /\ ShortNibs \subseteq Nibs /\ MAX_RETRIES \in Nat /\ MaxJobs \in Nat

VARIABLES
  data,     \* bps_trade_data
  flows,    \* trade_flows
  company,  \* what the umkm row says of the NIB and of the markets
  worker,   \* worker[w]: the task at hand
  jobs,     \* tasks begun
  runs,     \* attempts that may write; the number of one tells who wrote a row
  stored,   \* history: what each run of BPS wrote
  scripts,  \* history: runs of the script
  apart,    \* history: pairs of runs, the later of which did not see the earlier
  asked,    \* history: the NIB whose verification began last
  unheard,  \* history: NIBs whose verification ended without a verdict
  raced     \* history: two verifications were under way at once

tables == <<data, flows, company>>
nibHistory == <<asked, unheard, raced>>
histories == <<stored, scripts, apart, nibHistory>>
vars == <<tables, worker, jobs, runs, histories>>

-----------------------------------------------------------------------------
(* BPS knows chapters, and full codes within them.                          *)
_bps_hs_and_jenishs(heading) == heading \div 100
Codes(heading) == {_bps_hs_and_jenishs(heading), heading * 100 + 11}

\* The codes a summary looks for: hs_code LIKE 'heading%'.
Matches(heading, code) == code = heading \/ code \div 100 = heading

_FLOW_META == {"X", "M"}

AllCodes == Headings \union (UNION {Codes(h) : h \in Headings})
Sources == {"bps", "inatrade", "un_comtrade"}

Flow == [source : Sources, hs_code : AllCodes, flow : _FLOW_META, code : Reporters \union {NoCode},
         heading : Headings, year : Years, by : Nat]
Datum == [hs_code : AllCodes, flow : _FLOW_META, heading : Headings, year : Years, by : Nat]

(* The unique key of trade_flows; rows without one of its columns are never *)
(* equal.                                                                   *)
Key(row) == [row EXCEPT !.by = 0, !.heading = 0]
SameKey(a, b) == Key(a) = Key(b) /\ a.code # NoCode

\* Faulty variant: no conflict is looked for.
InsertAll(old, new) == old \union new

\* INSERT ... ON CONFLICT DO UPDATE
InsertOrUpdate(old, new) == {row \in old : \A n \in new : ~SameKey(row, n)} \union new

Idle == [kind |-> "none", pc |-> "idle", heading |-> 0, year |-> 0, nib |-> "none", by |-> 0,
         tries |-> 0, fetched |-> {}, target |-> {}, data |-> {}, flows |-> {}, blind |-> {},
         step1 |-> {}]

NoVerdict == [nib |-> "none", is_valid |-> FALSE, sandbox |-> FALSE, sources |-> {}, scale |-> 0, score |-> 0]

Init ==
  /\ data = {} /\ flows = {}
  /\ company = [verdict |-> NoVerdict, markets |-> {}]
  /\ worker = [w \in Workers |-> Idle]
  /\ jobs = 0 /\ runs = 0
  /\ stored = {} /\ scripts = {} /\ apart = {}
  /\ asked = "none" /\ unheard = {} /\ raced = FALSE

-----------------------------------------------------------------------------
Does(w, kind, pc) == worker[w].kind = kind /\ worker[w].pc = pc

Becomes(w, task) == worker' = [worker EXCEPT ![w] = task]

FirstStep(kind) == CASE kind = "inatrade" -> "X" [] kind = "un_comtrade" -> "mode1"
                     [] kind = "verify" -> "step1" [] OTHER -> "fetch"

Begin(w, kind, heading, year) ==
  /\ <<heading, year>> \in Requests[kind]
  /\ worker[w] = Idle
  /\ jobs < MaxJobs
  /\ jobs' = jobs + 1
  /\ runs' = runs + 1
  /\ Becomes(w, [Idle EXCEPT !.kind = kind, !.pc = FirstStep(kind), !.heading = heading,
                             !.year = year, !.by = runs + 1])
  /\ UNCHANGED <<tables, histories>>

(* The worker is lost, and with it what it had not committed; the message   *)
(* comes back and is a task like any other.                                 *)
WorkerLost(w) ==
  /\ worker[w] # Idle
  /\ Becomes(w, Idle)
  /\ unheard' = unheard \union ({worker[w].nib} \ {"none"})
  /\ UNCHANGED <<tables, jobs, runs, stored, scripts, apart, asked, raced>>

(* self.retry: the task starts over, from its first step.                   *)
Retry(w) ==
  LET task == worker[w]
      again == task.tries < MAX_RETRIES
  IN  /\ task.kind \in {"inatrade", "un_comtrade", "verify"}
      /\ runs' = (IF again THEN runs + 1 ELSE runs)
      /\ Becomes(w, IF again THEN [task EXCEPT !.pc = FirstStep(task.kind), !.by = runs + 1,
                                               !.tries = @ + 1, !.step1 = {}]
                    ELSE Idle)
      /\ unheard' = (IF again THEN unheard ELSE unheard \union ({task.nib} \ {"none"}))
      /\ UNCHANGED <<tables, jobs, stored, scripts, apart, asked, raced>>

-----------------------------------------------------------------------------
(* BPS. *)

Others(w) == Workers \ {w}

(* The answer for both directions; an empty one ends the task. Otherwise    *)
(* the rows of the datasets it has something for are deleted.               *)
BpsFetch(w, answer) ==
  LET task == worker[w]
  IN  /\ Does(w, "bps", "fetch")
      /\ Becomes(w, IF answer = {} THEN Idle
           ELSE [task EXCEPT !.pc = "data", !.fetched = answer,
                   !.target = {d \in data : /\ d.heading = task.heading /\ d.year = task.year
                                            /\ \E a \in answer : a.flow = d.flow}])
      /\ UNCHANGED <<tables, jobs, runs, histories>>

\* Faulty variant: only the flows of the year fetched are deleted.
BpsClearYear(w) ==
  LET task == worker[w]
  IN  /\ Does(w, "bps", "data")
      /\ \A o \in Others(w) : task.target \intersect worker[o].data = {}
      /\ Becomes(w, [task EXCEPT !.pc = "flows", !.data = task.target \intersect data,
           !.target = {f \in flows : /\ f.source = "bps" /\ f.year = task.year
                                     /\ \E a \in task.fetched : a.hs_code = f.hs_code
                                     /\ \E a \in task.fetched : a.flow = f.flow}])
      /\ UNCHANGED <<tables, jobs, runs, histories>>

(* The new data is inserted, and the flows of every code fetched in every   *)
(* direction fetched are deleted: those of other years too.                 *)
BpsClearData(w) ==
  LET task == worker[w]
  IN  /\ Does(w, "bps", "data")
      /\ \A o \in Others(w) : task.target \intersect worker[o].data = {}
      /\ Becomes(w, [task EXCEPT !.pc = "flows", !.data = task.target \intersect data,
           !.target = {f \in flows : /\ f.source = "bps"
                                     /\ \E a \in task.fetched : a.hs_code = f.hs_code
                                     /\ \E a \in task.fetched : a.flow = f.flow}])
      /\ UNCHANGED <<tables, jobs, runs, histories>>

BpsClearFlows(w) ==
  LET task == worker[w]
  IN  /\ Does(w, "bps", "flows")
      /\ \A o \in Others(w) : task.target \intersect worker[o].flows = {}
      /\ Becomes(w, [task EXCEPT !.pc = "insert", !.flows = task.target \intersect flows,
                                 !.target = {}])
      /\ UNCHANGED <<tables, jobs, runs, histories>>

(* Whoever has issued its DELETE by now does not see run "by".              *)
Unseen(by) ==
  [o \in Workers |-> IF worker[o].kind = "bps" /\ worker[o].pc # "fetch"
                     THEN [worker[o] EXCEPT !.blind = @ \union {by}] ELSE worker[o]]

BpsFlow(task, a, code) ==
  [source |-> "bps", hs_code |-> a.hs_code, flow |-> a.flow, code |-> code,
   heading |-> task.heading, year |-> task.year, by |-> task.by]
BpsDatum(task, a) ==
  [hs_code |-> a.hs_code, flow |-> a.flow, heading |-> task.heading, year |-> task.year,
   by |-> task.by]

_store_all(w) ==
  LET task == worker[w]
      country == CHOOSE r \in Reporters : TRUE
  IN  /\ Does(w, "bps", "insert")
      /\ data' = (data \ task.data) \union {BpsDatum(task, a) : a \in task.fetched}
      /\ flows' = InsertOrUpdate(flows \ task.flows,
                                 {BpsFlow(task, a, country) : a \in task.fetched})
      /\ worker' = [Unseen(task.by) EXCEPT ![w] = Idle]
      /\ stored' = stored \union {[by |-> task.by, of |-> task.fetched]}
      /\ apart' = apart \union {{b, task.by} : b \in task.blind}
      /\ UNCHANGED <<company, jobs, runs, scripts, nibHistory>>

(* An error from BPS, or the loser of a deadlock: it is not tried again.    *)
BpsFails(w) ==
  /\ worker[w].kind = "bps"
  /\ Becomes(w, Idle)
  /\ UNCHANGED <<tables, jobs, runs, histories>>

(* seed-trade-flows: it waits for the deletes under way; coffee, X from BPS *)
(* and M from Comtrade.                                                     *)
COFFEE_DATA(by) ==
  {[source |-> s, hs_code |-> h * 100 + 11, flow |-> IF s = "bps" THEN "X" ELSE "M", code |-> r,
    heading |-> h, year |-> y, by |-> by] :
     s \in {"bps", "un_comtrade"}, h \in {CHOOSE h \in Headings : TRUE}, r \in Reporters, y \in Years}

SeedFlows ==
  /\ jobs < MaxJobs
  /\ \A w \in Workers : worker[w].flows = {}
  /\ jobs' = jobs + 1
  /\ runs' = runs + 1
  /\ flows' = {f \in flows : f.source = "inatrade"} \union COFFEE_DATA(runs + 1)
  /\ scripts' = scripts \union {runs + 1}
  /\ worker' = Unseen(runs + 1)
  /\ UNCHANGED <<data, company, stored, apart, nibHistory>>

-----------------------------------------------------------------------------
(* INA-Trade and UN Comtrade: one fetch and one commit per step. *)

NextStep(kind, pc) ==
  CASE pc = "mode1" -> "X" [] pc = "X" -> "M" [] OTHER -> "end"

StepFlow(pc) == IF pc = "mode1" THEN "M" ELSE pc

(* Of three addresses the first with an answer; no answer, and no more      *)
(* requests allowed, are an answer without rows. INA-Trade has a code for   *)
(* every partner, Comtrade's columns may be empty.                          *)
_fetch_flow(w) == IF Does(w, "inatrade", worker[w].pc) THEN SUBSET Reporters ELSE {}
_fetch_and_store(w) ==
  IF Does(w, "un_comtrade", worker[w].pc) THEN SUBSET (Reporters \union {NoCode}) ELSE {}

Fetched(task, codes) ==
  {[source |-> task.kind, hs_code |-> task.heading, flow |-> StepFlow(task.pc), code |-> c,
    heading |-> task.heading, year |-> task.year, by |-> task.by] : c \in codes}

_store_rows(w, codes) ==
  LET task == worker[w]
      next == NextStep(task.kind, task.pc)
  IN  /\ flows' = InsertOrUpdate(flows, Fetched(task, codes))
      /\ Becomes(w, IF next = "end" THEN Idle ELSE [task EXCEPT !.pc = next])
      /\ UNCHANGED <<data, company, jobs, runs, histories>>

-----------------------------------------------------------------------------
(* The company. *)

(* The markets of its product, read and written in one transaction; nothing *)
(* found leaves the old summary.                                            *)
UmkmRead(w) ==
  LET task == worker[w]
      rows == {f \in flows : Matches(task.heading, f.hs_code) /\ f.year = task.year}
  IN  /\ Does(w, "umkm", "fetch")
      /\ Becomes(w, IF rows = {} THEN Idle ELSE [task EXCEPT !.pc = "write", !.fetched = {f.source : f \in rows}])
      /\ UNCHANGED <<tables, jobs, runs, histories>>

update_umkm_inatrade_data(w) ==
  /\ Does(w, "umkm", "write")
  /\ company' = [company EXCEPT !.markets = worker[w].fetched]
  /\ Becomes(w, Idle)
  /\ UNCHANGED <<data, flows, jobs, runs, histories>>

BeginVerify(w, nib) ==
  /\ worker[w] = Idle
  /\ jobs < MaxJobs
  /\ jobs' = jobs + 1
  /\ Becomes(w, [Idle EXCEPT !.kind = "verify", !.pc = FirstStep("verify"), !.nib = nib])
  /\ asked' = nib
  /\ unheard' = unheard \ {nib}
  /\ raced' = (raced \/ \E o \in Others(w) : worker[o].kind = "verify")
  /\ UNCHANGED <<tables, runs, stored, scripts, apart>>

(* What is said of a NIB, with the points the scale of the company earns. A *)
(* register that cannot be reached is replaced by an invented company.      *)
_invalid_nib_response == [is_valid |-> FALSE, sandbox |-> FALSE, sources |-> {}, scale |-> 0]
_SANDBOX_PROFILES == {15, 20}
_mock_nib_response(profile) ==
  [is_valid |-> TRUE, sandbox |-> TRUE, sources |-> {"sandbox"}, scale |-> profile]
Found == [is_valid |-> TRUE, sandbox |-> FALSE, sources |-> {"badanperizinan"}, scale |-> 0]
Mocks == {_mock_nib_response(p) : p \in _SANDBOX_PROFILES}

_fetch_badan_perizinan(w, answer) ==
  /\ Does(w, "verify", "step1")
  /\ IF worker[w].nib \in ShortNibs
       THEN answer \in Mocks /\ Becomes(w, [worker[w] EXCEPT !.pc = "persist", !.step1 = {answer}])
       ELSE Becomes(w, [worker[w] EXCEPT !.pc = "step2", !.step1 = {answer}])
  /\ UNCHANGED <<tables, jobs, runs, histories>>

(* The second register vouches for the company or, for whatever reason,     *)
(* says nothing.                                                            *)
_fetch_oss_public(w, scales) ==
  /\ Does(w, "verify", "step2")
  /\ Becomes(w, [worker[w] EXCEPT !.pc = "persist", !.fetched = scales])
  /\ UNCHANGED <<tables, jobs, runs, histories>>

\* Faulty variant: the sandbox is no longer a source, but stays the mode.
MergeKeepsSandbox(first, oss) ==
  IF oss = {} THEN first
  ELSE [is_valid |-> TRUE, sandbox |-> first.sandbox, sources |-> (first.sources \ {"sandbox"}) \union {"oss_public"},
        scale |-> IF first.scale # 0 THEN first.scale ELSE CHOOSE s \in oss : TRUE]

\* The scale of the first register, an invented one too, goes before the second's.
_merge_nib_sources(first, oss) ==
  IF oss = {} THEN first
  ELSE [is_valid |-> TRUE, sandbox |-> FALSE, sources |-> (first.sources \ {"sandbox"}) \union {"oss_public"},
        scale |-> IF first.scale # 0 THEN first.scale ELSE CHOOSE s \in oss : TRUE]

\* In hundredths; whoever is valid is COMPLIANT.
_calculate_verification_score(result) == (IF result.is_valid THEN 50 + 30 ELSE 0) + result.scale

update_umkm_verification_result(w) ==
  /\ Does(w, "verify", "persist")
  /\ \E first \in worker[w].step1 :
       LET result == _merge_nib_sources(first, worker[w].fetched)
       IN  company' = [company EXCEPT !.verdict =
             [nib |-> worker[w].nib, score |-> _calculate_verification_score(result),
              is_valid |-> result.is_valid, sandbox |-> result.sandbox,
              sources |-> result.sources, scale |-> result.scale]]
  /\ Becomes(w, Idle)
  /\ UNCHANGED <<data, flows, jobs, runs, histories>>

-----------------------------------------------------------------------------
Next ==
  \/ \E w \in Workers :
       \/ \E kind \in DOMAIN Requests, h \in Headings, y \in Years :
            Begin(w, kind, h, y)
       \/ WorkerLost(w)
       \/ Retry(w)
       \/ \E answer \in SUBSET [hs_code : Codes(worker[w].heading), flow : _FLOW_META] : BpsFetch(w, answer)
       \/ BpsClearData(w)
       \/ BpsClearFlows(w)
       \/ _store_all(w)
       \/ BpsFails(w)
       \/ \E codes \in _fetch_flow(w) \union _fetch_and_store(w) : _store_rows(w, codes)
       \/ UmkmRead(w)
       \/ update_umkm_inatrade_data(w)
       \/ \E nib \in Nibs : BeginVerify(w, nib)
       \/ \E answer \in {Found, _invalid_nib_response} \union Mocks : _fetch_badan_perizinan(w, answer)
       \/ \E scales \in {{}, {0}, {5}, {20}} : _fetch_oss_public(w, scales)
       \/ update_umkm_verification_result(w)
  \/ SeedFlows

Spec == Init /\ [][Next]_vars

-----------------------------------------------------------------------------
TypeOK ==
  /\ data \subseteq Datum /\ flows \subseteq Flow
  /\ company \in [verdict : [nib : Nibs \union {"none"}, is_valid : BOOLEAN, sandbox : BOOLEAN,
                             sources : SUBSET {"badanperizinan", "oss_public", "sandbox"},
                             scale : {0, 5, 15, 20}, score : 0..100],
                  markets : SUBSET Sources]
  /\ \A w \in Workers : worker[w].tries \in 0..MAX_RETRIES /\ worker[w].by \in 0..runs
  /\ jobs \in 0..MaxJobs /\ runs \in Nat
  /\ asked \in Nibs \union {"none"} /\ unheard \subseteq Nibs /\ raced \in BOOLEAN
  /\ \A a, b \in flows : SameKey(a, b) => a = b

(* What BPS says of a code in a direction comes from one run, and so does a *)
(* dataset; only runs that did not see each other leave both.               *)
OneRunPerCode ==
  /\ \A a, b \in flows : (/\ a.source = "bps" /\ b.source = "bps"
                          /\ a.hs_code = b.hs_code /\ a.flow = b.flow /\ a.by # b.by)
                           => {a.by, b.by} \in apart
  /\ \A a, b \in data : (/\ a.heading = b.heading /\ a.year = b.year /\ a.flow = b.flow
                         /\ a.by # b.by) => {a.by, b.by} \in apart

(* A flow of BPS has the data it was made from next to it, unless its       *)
(* dataset was fetched again and no longer has the code.                    *)
FlowsBacked ==
  \A f \in flows : f.source = "bps" =>
    \/ f.by \in scripts
    \/ \E d \in data : d.by = f.by /\ d.hs_code = f.hs_code /\ d.flow = f.flow
    \/ \E d \in data : /\ d.heading = f.heading /\ d.year = f.year /\ d.flow = f.flow
                       /\ d.by # f.by

(* Data has flows, of whatever year, unless the script removed them or a    *)
(* run that met the code in the other direction only.                       *)
DataReachesFlows ==
  scripts = {} => \A d \in data :
    \/ \E f \in flows : f.source = "bps" /\ f.hs_code = d.hs_code /\ f.flow = d.flow
    \/ \E run \in stored : /\ \E a \in run.of : a.hs_code = d.hs_code
                           /\ \E a \in run.of : a.flow = d.flow
                           /\ [hs_code |-> d.hs_code, flow |-> d.flow] \notin run.of

(* A company is valid on the word of a register, or the record says that    *)
(* none was asked or could be reached; it is invalid, and scores nothing,   *)
(* only if nobody vouched for it.                                           *)
VerdictEarned ==
  LET v == company.verdict
  IN  v.nib # "none" =>
        /\ v.is_valid <=> v.sources # {}
        /\ v.sandbox <=> v.sources = {"sandbox"}
        /\ v.score > 0 <=> v.is_valid
        /\ v.sources = {"badanperizinan"} => v.score = 80

(* The verdict is about the NIB last asked about, or that one's is still to *)
(* come or was given up, or two verifications raced.                        *)
VerdictCurrent ==
  \/ company.verdict.nib \in {asked, "none"}
  \/ \E w \in Workers : worker[w].nib = asked
  \/ asked \in unheard
  \/ raced

RecordsAccountedFor ==
  OneRunPerCode /\ FlowsBacked /\ DataReachesFlows /\ VerdictEarned /\ VerdictCurrent
=============================================================================
