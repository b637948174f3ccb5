------------------------- MODULE DealLifecycleProofs -------------------------
(***************************************************************************)
(* Theorems about a deal, its order, its checks and its thread, for any    *)
(* number of overlapping requests, any amounts and any number of requests  *)
(* that break off.                                                         *)
(***************************************************************************)
EXTENDS DealLifecycle, SequenceTheorems, TLAPS

(* A batch of verdicts, and what it was drawn from.                        *)
Judged(verdict, price, p) ==
  /\ verdict.hs = "pass" => p.hs
  /\ verdict.capacity = "pass" => p.capacity
  /\ verdict.price = "pass" => /\ price \in Nat /\ p.floor \in Nat
                               /\ price >= p.floor

(* What a request q knows where it stands, whatever the others do.         *)
Keeps(q) ==
  /\ q.pc \in {"sendPo", "sendDeal", "signPo", "signDeal"} => po # NoPo
  /\ q.pc = "insertPo" => q.price \notin {NoPrice, 0}
  /\ q.pc \in {"delete", "insert"} => Judged(q.verdict, q.price, q.product)
  /\ q.accepts => q.buyer
  /\ q.pc = "accept" => q.accepts
  /\ q.accepts /\ q.pc = "message" => \E i \in 1 .. Len(thread) : thread[i] = "buyer"
  /\ q.pc \in {"mirror", "accept"} =>
       /\ q.said \in 1 .. Len(thread)
       /\ q.buyer => thread[q.said] = "buyer"
       /\ q.accepts => \E i \in 1 .. Len(thread) : i < q.said /\ thread[i] = "buyer"

(* Nothing happens to a deal before it is created.                         *)
Begun == status = "none" => po = NoPo /\ \A t \in Tasks : At(t, "idle")

OrderMade == po # NoPo => po.status # "none" /\ po.price \notin {NoPrice, 0}

(* Every batch of rows was computed from the deal and the product it names. *)
AllJudged == \A i \in 1 .. Len(checks) :
               Judged(checks[i].verdict, checks[i].agreed, checks[i].product)

(* The inductive invariant the others build on. *)
TInv == TypeOK /\ Begun /\ OrderMade /\ AllJudged /\ \A t \in Tasks : Keeps(task[t])

-----------------------------------------------------------------------------
LEMMA Statuses == Range(DealStatus) =
  {"contacted", "negotiating", "compliance", "po_sent", "po_signed", "closed"}
BY DEF Range, DealStatus

LEMMA IdleType == Idle \in Task /\ Idle.pc = "idle" /\ NoPo \in Po /\ NoProduct \in Product
BY DEF Idle, Task, NoPo, Po, NoProduct, Product, Price, Pc, Check, Verdict

(* The places of a sequence that was appended to. *)
LEMMA Places ==
  ASSUME NEW S, NEW q \in Seq(S), NEW e \in S
  PROVE  /\ Append(q, e) \in Seq(S)
         /\ Len(q) \in Nat /\ Len(Append(q, e)) = Len(q) + 1
         /\ \A i \in 1 .. Len(q) : Append(q, e)[i] = q[i]
         /\ Append(q, e)[Len(q) + 1] = e
         /\ \A i \in 1 .. Len(Append(q, e)) :
              \/ i \in 1 .. Len(q) /\ Append(q, e)[i] = q[i]
              \/ i = Len(q) + 1 /\ Append(q, e)[i] = e
<1>1. Len(q) \in Nat
  BY LenProperties
<1>. DEFINE a == Append(q, e)
<1>2. /\ a \in Seq(S) /\ Len(a) = Len(q) + 1
      /\ \A i \in 1 .. Len(q) : a[i] = q[i]
      /\ a[Len(q) + 1] = e
  BY AppendProperties
<1>. HIDE DEF a
<1>3. \A i \in 1 .. Len(a) : \/ i \in 1 .. Len(q) /\ a[i] = q[i]
                             \/ i = Len(q) + 1 /\ a[i] = e
  BY <1>1, <1>2
<1>. QED
  BY <1>1, <1>2, <1>3 DEF a

(* What a request that takes a step becomes, and that the others stay.     *)
LEMMA OneRequest ==
  ASSUME TypeOK, NEW t \in Tasks, NEW r \in Task, Become(t, r)
  PROVE  /\ task' \in [Tasks -> Task] /\ task'[t] = r
         /\ \A u \in Tasks : u # t => task'[u] = task[u]
BY DEF TypeOK, Become

(* The thread only grows, and what was said stays said. *)
Grown == thread' = thread \/ \E s \in Sender : thread' = Append(thread, s)

LEMMA Growth ==
  ASSUME TypeOK, Grown
  PROVE  /\ thread' \in Seq(Sender)
         /\ Len(thread) \in Nat /\ Len(thread') \in Nat /\ Len(thread) <= Len(thread')
         /\ \A i \in 1 .. Len(thread) : thread'[i] = thread[i]
<1>1. thread \in Seq(Sender) /\ Len(thread) \in Nat
  BY LenProperties DEF TypeOK
<1>2. CASE thread' = thread
  BY <1>1, <1>2
<1>3. CASE \E s \in Sender : thread' = Append(thread, s)
  BY <1>1, <1>3, AppendProperties
<1>. QED
  BY <1>2, <1>3 DEF Grown

(* What a request knows, it goes on knowing. *)
LEMMA KeepsOnKnowing ==
  ASSUME TypeOK, Grown, po # NoPo => po' # NoPo, NEW q \in Task, Keeps(q)
  PROVE  Keeps(q)'
BY Growth DEF Keeps, Judged

(* What a step of one request has to show. *)
LEMMA StepOfRequest ==
  ASSUME TInv, NEW t \in Tasks, NEW r \in Task, Become(t, r),
         Grown, po # NoPo => po' # NoPo, Keeps(r)'
  PROVE  /\ task' \in [Tasks -> Task]
         /\ \A u \in Tasks : Keeps(task[u])'
<1>1. TypeOK
  BY DEF TInv
<1>2. /\ task' \in [Tasks -> Task] /\ task'[t] = r
      /\ \A u \in Tasks : u # t => task'[u] = task[u]
  BY <1>1, OneRequest
<1>3. ASSUME NEW u \in Tasks PROVE Keeps(task[u])'
  <2>1. CASE u = t
    BY <1>2, <2>1 DEF Keeps
  <2>2. CASE u # t
    <3>1. task[u] \in Task /\ Keeps(task[u])
      BY <1>1 DEF TInv, TypeOK
    <3>2. \A q \in Task : Keeps(q) => Keeps(q)'
      BY <1>1, KeepsOnKnowing
    <3>. QED
      BY <1>2, <2>2, <3>1, <3>2 DEF Keeps
  <2>. QED
    BY <2>1, <2>2
<1>. QED
  BY <1>2, <1>3

(* A request under way belongs to a deal. *)
LEMMA UnderWay ==
  ASSUME TInv, NEW t \in Tasks, ~At(t, "idle")
  PROVE  status \in Range(DealStatus) /\ status # "none"
BY DEF TInv, TypeOK, Begun

LEMMA InitKeeps == Init => TInv
<1>. SUFFICES ASSUME Init PROVE TInv
  OBVIOUS
<1>1. TypeOK
  BY IdleType, DealAssumption, EmptySeq DEF Init, TypeOK, Price
<1>2. Len(checks) = 0
  BY EmptySeq DEF Init
<1>. QED
  BY <1>1, <1>2 DEF Init, TInv, Begun, OrderMade, AllJudged, Keeps, At, Idle, NoPo

-----------------------------------------------------------------------------
(* One lemma for each part of Next. *)
LEMMA DealsKeep ==
  ASSUME TInv, NEW t \in Tasks, Deals(t)
  PROVE  TInv'
<1>. USE Statuses, DealAssumption DEF TInv, TypeOK, Price
<1>1. /\ status' \in Range(DealStatus) /\ status' # "none" /\ agreed' \in Price /\ product' \in Product
      /\ lastMessage' \in 0 .. Len(thread)
      /\ requests' \in 0 .. MaxRequests /\ faults' = faults
      /\ disturbed' \subseteq {"status", "price", "mirror"}
  <2>1. CASE CreateDeal(t)
    BY <2>1 DEF CreateDeal, Request
  <2>2. CASE PatchDeal(t)
    <3>1. /\ status' \in {status} \union ClientStatuses /\ agreed' \in {agreed} \union Prices
          /\ lastMessage' \in {lastMessage, 0} /\ product' = product
          /\ status # "none" /\ requests < MaxRequests /\ requests' = requests + 1
          /\ faults' = faults
      BY <2>2 DEF PatchDeal, OnDeal, Request, deal
    <3>2. disturbed' \subseteq {"status", "price", "mirror"}
      BY <2>2 DEF PatchDeal, Disturb
    <3>3. Len(thread) \in Nat
      BY LenProperties
    <3>. QED
      BY <3>1, <3>2, <3>3
  <2>3. CASE EditProduct(t)
    BY <2>3 DEF EditProduct, OnDeal, Request, deal
  <2>. QED
    BY <2>1, <2>2, <2>3 DEF Deals
<1>2. UNCHANGED <<thread, po, checks, returned, task>>
  BY DEF Deals, CreateDeal, PatchDeal, EditProduct
<1>. QED
  BY <1>1, <1>2 DEF Begun, OrderMade, AllJudged, Keeps, Judged

(* A request begins: it becomes r, and only the count of requests moves. *)
LEMMA BeginKeeps ==
  ASSUME TInv, NEW t \in Tasks, OnDeal(t), NEW r \in Task, Become(t, r), Keeps(r),
         UNCHANGED <<deal, lastMessage, thread, product, po, checks, returned, disturbed>>
  PROVE  TInv'
<1>1. Grown /\ Keeps(r)' /\ po' = po /\ status # "none"
  BY DEF Grown, Keeps, Judged, OnDeal
<1>2. task' \in [Tasks -> Task] /\ \A u \in Tasks : Keeps(task[u])'
  BY <1>1, StepOfRequest
<1>3. TypeOK'
  BY <1>2, DealAssumption DEF TInv, TypeOK, OnDeal, Request, deal
<1>. QED
  BY <1>1, <1>2, <1>3 DEF TInv, Begun, OrderMade, AllJudged, Judged, deal

(* A request goes on or ends, and leaves the deal's rows as they are. *)
LEMMA MoveKeeps ==
  ASSUME TInv, NEW t \in Tasks, ~At(t, "idle"), NEW r \in Task, Become(t, r), Keeps(r),
         UNCHANGED <<deal, lastMessage, thread, product, po, checks, returned, requests, disturbed>>,
         faults' \in 0 .. MaxFaults
  PROVE  TInv'
<1>1. Grown /\ Keeps(r)' /\ po' = po /\ status # "none"
  BY UnderWay DEF Grown, Keeps, Judged
<1>2. task' \in [Tasks -> Task] /\ \A u \in Tasks : Keeps(task[u])'
  BY <1>1, StepOfRequest
<1>3. TypeOK'
  BY <1>2 DEF TInv, TypeOK, deal
<1>. QED
  BY <1>1, <1>2, <1>3 DEF TInv, Begun, OrderMade, AllJudged, Judged, deal

(* The same, for a step that writes the status or the price of the deal, or *)
(* the order.                                                               *)
LEMMA WriteKeeps ==
  ASSUME TInv, NEW t \in Tasks, ~At(t, "idle"), NEW r \in Task, Become(t, r), Keeps(r)',
         status' \in Range(DealStatus), agreed' \in Price, po' \in Po,
         po # NoPo => po' # NoPo, OrderMade',
         disturbed' \subseteq {"status", "price", "mirror"},
         UNCHANGED <<lastMessage, thread, product, checks, returned, requests, faults>>
  PROVE  TInv'
<1>1. Grown /\ status' # "none"
  BY Statuses DEF Grown
<1>2. task' \in [Tasks -> Task] /\ \A u \in Tasks : Keeps(task[u])'
  BY <1>1, StepOfRequest
<1>3. TypeOK'
  BY <1>2 DEF TInv, TypeOK
<1>. QED
  BY <1>1, <1>2, <1>3 DEF TInv, Begun, AllJudged, Judged

LEMMA IdleKeeps ==
  ASSUME TInv
  PROVE  Idle \in Task /\ Keeps(Idle) /\ (Keeps(Idle))'
BY IdleType DEF Keeps, Idle

LEMMA OrdersKeep ==
  ASSUME TInv, NEW t \in Tasks, Orders(t)
  PROVE  TInv'
<1>0. /\ task[t] \in Task /\ Keeps(task[t]) /\ po \in Po /\ agreed \in Price
      /\ faults \in 0 .. MaxFaults /\ disturbed \subseteq {"status", "price", "mirror"}
      /\ OrderMade
  BY DEF TInv, TypeOK
<1>1. Idle \in Task /\ Keeps(Idle) /\ (Keeps(Idle))'
  BY IdleKeeps
<1>2. ASSUME NEW l \in {"sendPo", "signPo"}, po # NoPo
      PROVE  [Idle EXCEPT !.pc = l] \in Task /\ Keeps([Idle EXCEPT !.pc = l])
  BY <1>1, <1>2 DEF Task, Keeps, Idle, Pc
<1>3. CASE Generate(t)
  <2>1. [Idle EXCEPT !.pc = "find", !.price = agreed] \in Task
    BY <1>0, <1>1 DEF Task, Pc
  <2>2. Keeps([Idle EXCEPT !.pc = "find", !.price = agreed])
    BY <1>1 DEF Keeps, Idle
  <2>. QED
    BY <1>3, <2>1, <2>2, BeginKeeps DEF Generate
<1>4. CASE FindPo(t)
  <2>1. CASE Goto(t, "insertPo") /\ task[t].price \notin {NoPrice, 0}
    <3>1. [task[t] EXCEPT !.pc = "insertPo"] \in Task
      BY <1>0 DEF Task, Pc
    <3>2. Keeps([task[t] EXCEPT !.pc = "insertPo"])
      BY <1>0, <1>4, <2>1 DEF Keeps, Task, FindPo, At
    <3>. QED
      BY <1>0, <1>4, <2>1, <3>1, <3>2, MoveKeeps DEF FindPo, Goto, At
  <2>2. CASE Return(t)
    BY <1>0, <1>1, <1>4, <2>2, MoveKeeps DEF FindPo, Return, At
  <2>. QED
    BY <1>4, <2>1, <2>2 DEF FindPo
<1>5. CASE InsertPo(t)
  <2>1. po' \in Po /\ (po # NoPo => po' # NoPo) /\ OrderMade'
    BY <1>0, <1>5 DEF InsertPo, Po, NoPo, Task, OrderMade, Keeps, At
  <2>. QED
    BY <1>0, <1>1, <1>5, <2>1, UnderWay, WriteKeeps DEF InsertPo, Return, At, deal
<1>6. CASE Send(t)
  BY <1>2, <1>6, BeginKeeps DEF Send
<1>7. CASE SendPo(t)
  <2>1. po # NoPo /\ po' \in Po /\ po' # NoPo /\ OrderMade'
    BY <1>0, <1>7 DEF SendPo, Po, NoPo, OrderMade, Keeps, At
  <2>2. PICK r \in Task : r = [task[t] EXCEPT !.pc = "sendDeal"]
    BY <1>0 DEF Task, Pc
  <2>3. /\ UNCHANGED <<lastMessage, thread, product, checks, returned, requests, faults>>
        /\ status' = status /\ agreed' = agreed
    BY <1>7 DEF SendPo, deal
  <2>4. Keeps(r)'
    BY <1>0, <2>1, <2>2, <2>3 DEF Task, Keeps
  <2>5. disturbed' \subseteq {"status", "price", "mirror"} /\ ~At(t, "idle")
    BY <1>0, <1>7 DEF SendPo, Disturb, At
  <2>6. Become(t, r)
    BY <1>7, <2>2 DEF SendPo, Goto
  <2>. QED
    BY <1>0, <2>1, <2>3, <2>4, <2>5, <2>6, UnderWay, WriteKeeps
<1>8. CASE SendDeal(t)
  BY <1>0, <1>1, <1>8, Statuses, WriteKeeps DEF SendDeal, Return, At, OrderMade
<1>9. CASE Sign(t)
  BY <1>2, <1>9, BeginKeeps DEF Sign
<1>10. CASE SignPo(t)
  <2>1. po # NoPo /\ po' \in Po /\ po' # NoPo /\ OrderMade'
    BY <1>0, <1>10 DEF SignPo, Po, NoPo, OrderMade, Keeps, At
  <2>2. PICK r \in Task : r = [task[t] EXCEPT !.pc = "signDeal"]
    BY <1>0 DEF Task, Pc
  <2>3. /\ UNCHANGED <<lastMessage, thread, product, checks, returned, requests, faults>>
        /\ status' = status /\ agreed' = agreed
    BY <1>10 DEF SignPo, deal
  <2>4. Keeps(r)'
    BY <1>0, <2>1, <2>2, <2>3 DEF Task, Keeps
  <2>5. disturbed' \subseteq {"status", "price", "mirror"} /\ ~At(t, "idle")
    BY <1>0, <1>10 DEF SignPo, Disturb, At
  <2>6. Become(t, r)
    BY <1>10, <2>2 DEF SignPo, Goto
  <2>. QED
    BY <1>0, <2>1, <2>3, <2>4, <2>5, <2>6, UnderWay, WriteKeeps
<1>11. CASE SignDeal(t)
  BY <1>0, <1>1, <1>11, Statuses, WriteKeeps DEF SignDeal, Return, At, OrderMade
<1>. QED
  BY <1>3, <1>4, <1>5, <1>6, <1>7, <1>8, <1>9, <1>10, <1>11 DEF Orders

(* Each verdict a run draws says what it was drawn from. *)
LEMMA Drawn ==
  ASSUME NEW q \in Task, NEW nib \in Verdict, NEW p \in Product
  PROVE  LET v == [nib |-> nib, hs |-> IF p.hs THEN "pass" ELSE "warn",
                   price |-> PriceCheck(q.price, p),
                   capacity |-> IF p.capacity THEN "pass" ELSE "warn"]
         IN  v \in [Check -> Verdict] /\ Judged(v, q.price, p)
<1>1. PriceCheck(q.price, p) \in Verdict
  BY DEF PriceCheck, Verdict
<1>2. PriceCheck(q.price, p) = "pass" => /\ q.price \in Nat /\ p.floor \in Nat
                                         /\ q.price >= p.floor
  <2>1. q.price \in Price
    BY DEF Task
  <2>2. p.floor \in Price
    BY DEF Product, NoProduct, Price
  <2>3. PriceCheck(q.price, p) = "pass" => q.price # NoPrice /\ p.floor # NoPrice /\ q.price >= p.floor
    BY DEF PriceCheck
  <2>. QED
    BY <2>1, <2>2, <2>3, DealAssumption DEF Price
<1>. QED
  BY <1>1, <1>2 DEF Check, Verdict, Judged

LEMMA ComplianceKeeps ==
  ASSUME TInv, NEW t \in Tasks, Compliance(t)
  PROVE  TInv'
<1>0. /\ task[t] \in Task /\ Keeps(task[t]) /\ agreed \in Price /\ product \in Product
      /\ faults \in 0 .. MaxFaults /\ checks \in Seq(Batch) /\ AllJudged
      /\ DOMAIN checks = 1 .. Len(checks) /\ Len(checks) \in Nat
  BY LenProperties DEF TInv, TypeOK
<1>1. Idle \in Task /\ Keeps(Idle) /\ (Keeps(Idle))'
  BY IdleKeeps
<1>2. CASE RunChecks(t)
  <2>1. [Idle EXCEPT !.pc = "readProduct", !.price = agreed] \in Task
    BY <1>0, <1>1 DEF Task, Pc
  <2>2. Keeps([Idle EXCEPT !.pc = "readProduct", !.price = agreed])
    BY <1>1 DEF Keeps, Idle
  <2>. QED
    BY <1>2, <2>1, <2>2, BeginKeeps DEF RunChecks
<1>3. CASE DrawVerdicts(t)
  <2>1. PICK nib \in Verdict :
          Become(t, [task[t] EXCEPT !.pc = "delete", !.product = product,
                       !.verdict = [nib |-> nib, hs |-> IF product.hs THEN "pass" ELSE "warn",
                                    price |-> PriceCheck(task[t].price, product),
                                    capacity |-> IF product.capacity THEN "pass" ELSE "warn"]])
    BY <1>3 DEF DrawVerdicts
  <2>. DEFINE v == [nib |-> nib, hs |-> IF product.hs THEN "pass" ELSE "warn",
                    price |-> PriceCheck(task[t].price, product),
                    capacity |-> IF product.capacity THEN "pass" ELSE "warn"]
              r == [task[t] EXCEPT !.pc = "delete", !.product = product, !.verdict = v]
  <2>2. v \in [Check -> Verdict] /\ Judged(v, task[t].price, product)
    BY <1>0, Drawn
  <2>3. Become(t, r)
    BY <2>1
  <2>. HIDE DEF v
  <2>4. r \in Task
    BY <1>0, <2>2 DEF Task, Pc
  <2>5. Keeps(r)
    BY <1>0, <1>3, <2>2 DEF Task, Keeps, DrawVerdicts, At
  <2>. HIDE DEF r
  <2>. QED
    BY <1>0, <1>3, <2>3, <2>4, <2>5, MoveKeeps DEF DrawVerdicts, At
<1>4. CASE DeleteChecks(t)
  <2>1. PICK r \in Task : r = [task[t] EXCEPT !.pc = "insert"]
    BY <1>0 DEF Task, Pc
  <2>2. UNCHANGED <<status, agreed, lastMessage, thread, product, po, returned, requests, faults, disturbed>>
    BY <1>4 DEF DeleteChecks, deal
  <2>3. Keeps(r)' /\ Grown
    BY <1>0, <1>4, <2>1, <2>2 DEF Task, Keeps, Judged, DeleteChecks, At, Grown
  <2>4. task' \in [Tasks -> Task] /\ \A u \in Tasks : Keeps(task[u])'
    BY <1>4, <2>1, <2>2, <2>3, StepOfRequest DEF DeleteChecks, Goto
  <2>5. checks' \in Seq(Batch) /\ AllJudged'
    BY <1>4, EmptySeq DEF DeleteChecks, AllJudged
  <2>6. status # "none"
    BY <1>4, UnderWay DEF DeleteChecks, At
  <2>. QED
    BY <2>2, <2>4, <2>5, <2>6 DEF TInv, TypeOK, Begun, OrderMade
<1>5. CASE InsertChecks(t)
  <2>. DEFINE b == [verdict |-> task[t].verdict, agreed |-> task[t].price, product |-> task[t].product]
  <2>1. b \in Batch /\ Judged(b.verdict, b.agreed, b.product)
    BY <1>0, <1>5 DEF Batch, Task, InsertChecks, Keeps, At
  <2>2. /\ UNCHANGED <<status, agreed, lastMessage, thread, product, po, requests, faults, disturbed>>
        /\ checks' = Append(checks, b) /\ returned' = Overall(Range(b.verdict))
        /\ Become(t, Idle)
    BY <1>5 DEF InsertChecks, deal, Return
  <2>. HIDE DEF b
  <2>3. checks' \in Seq(Batch) /\ AllJudged'
    <3>1. /\ Append(checks, b) \in Seq(Batch)
          /\ \A i \in 1 .. Len(Append(checks, b)) :
               Append(checks, b)[i] = b \/ (i \in 1 .. Len(checks) /\ Append(checks, b)[i] = checks[i])
      BY <1>0, <2>1, Places
    <3>2. \A i \in 1 .. Len(checks') : checks'[i] = b \/ (i \in 1 .. Len(checks) /\ checks'[i] = checks[i])
      BY <2>2, <3>1, Zenon
    <3>3. \A i \in 1 .. Len(checks') : Judged(checks'[i].verdict, checks'[i].agreed, checks'[i].product)
      BY <1>0, <2>1, <3>2 DEF AllJudged
    <3>. QED
      BY <2>2, <3>1, <3>3 DEF AllJudged, Judged
  <2>4. task' \in [Tasks -> Task] /\ \A u \in Tasks : Keeps(task[u])'
    BY <1>1, <2>2, StepOfRequest DEF Grown
  <2>5. returned' \in Verdict
    BY <2>2 DEF Overall, Verdict
  <2>6. status # "none"
    BY <1>5, UnderWay DEF InsertChecks, At
  <2>. QED
    BY <2>2, <2>3, <2>4, <2>5, <2>6 DEF TInv, TypeOK, Begun, OrderMade
<1>. QED
  BY <1>2, <1>3, <1>4, <1>5 DEF Compliance

LEMMA ThreadKeeps ==
  ASSUME TInv, NEW t \in Tasks, Thread(t)
  PROVE  TInv'
<1>0. /\ task[t] \in Task /\ Keeps(task[t]) /\ agreed \in Price /\ po \in Po
      /\ faults \in 0 .. MaxFaults /\ disturbed \subseteq {"status", "price", "mirror"}
      /\ thread \in Seq(Sender) /\ DOMAIN thread = 1 .. Len(thread) /\ Len(thread) \in Nat
      /\ OrderMade
  BY LenProperties DEF TInv, TypeOK
<1>1. Idle \in Task /\ Keeps(Idle) /\ (Keeps(Idle))'
  BY IdleKeeps
<1>2. CASE PostMessage(t)
  <2>1. PICK b \in BOOLEAN : Become(t, [Idle EXCEPT !.pc = "message", !.buyer = b])
    BY <1>2 DEF PostMessage
  <2>2. [Idle EXCEPT !.pc = "message", !.buyer = b] \in Task
    BY <1>1 DEF Task, Pc
  <2>3. Keeps([Idle EXCEPT !.pc = "message", !.buyer = b])
    BY DEF Keeps, Idle
  <2>. QED
    BY <1>2, <2>1, <2>2, <2>3, BeginKeeps DEF PostMessage
<1>3. CASE BuyerReply(t)
  <2>. DEFINE r(p) == [Idle EXCEPT !.pc = "message", !.buyer = TRUE, !.price = p,
                                   !.accepts = "buyer" \in Range(thread)]
  <2>1. PICK p \in Prices : Become(t, r(p))
    BY <1>3 DEF BuyerReply
  <2>2. r(p) \in Task
    <3>1. ("buyer" \in Range(thread)) \in BOOLEAN /\ p \in Price
      BY DEF Price
    <3>2. \A a \in BOOLEAN : [Idle EXCEPT !.pc = "message", !.buyer = TRUE, !.price = p, !.accepts = a] \in Task
      BY <1>1, <3>1 DEF Task, Pc
    <3>. QED
      BY <3>1, <3>2
  <2>3. Keeps(r(p))
    BY <1>0 DEF Keeps, Idle, Range
  <2>. QED
    BY <1>3, <2>1, <2>2, <2>3, BeginKeeps DEF BuyerReply
<1>4. CASE InsertMessage(t)
  <2>. DEFINE s == IF task[t].buyer THEN "buyer" ELSE "umkm"
  <2>1. PICK r \in Task : r = [task[t] EXCEPT !.pc = "mirror", !.said = Len(thread) + 1]
    <3>1. \A n \in Nat : [task[t] EXCEPT !.pc = "mirror", !.said = n] \in Task
      BY <1>0 DEF Task, Pc
    <3>2. PICK n \in Nat : n = Len(thread) + 1
      BY <1>0
    <3>. QED
      BY <3>1, <3>2
  <2>2. /\ UNCHANGED <<status, agreed, lastMessage, product, po, checks, returned, requests, faults>>
        /\ thread' = Append(thread, s) /\ Become(t, r)
        /\ disturbed' \subseteq {"status", "price", "mirror"}
    BY <1>0, <1>4, <2>1 DEF InsertMessage, deal, Disturb
  <2>3. /\ thread' \in Seq(Sender) /\ Len(thread') = Len(thread) + 1
        /\ \A i \in 1 .. Len(thread) : thread'[i] = thread[i]
        /\ thread'[Len(thread) + 1] = s
        /\ Grown
    <3>1. s \in Sender
      BY DEF Sender
    <3>. HIDE DEF s
    <3>2. /\ Append(thread, s) \in Seq(Sender) /\ Len(Append(thread, s)) = Len(thread) + 1
          /\ \A i \in 1 .. Len(thread) : Append(thread, s)[i] = thread[i]
          /\ Append(thread, s)[Len(thread) + 1] = s
      BY <1>0, <3>1, Places
    <3>. QED
      BY <2>2, <3>1, <3>2 DEF Grown
  <2>4. Keeps(r)'
    BY <1>0, <1>4, <2>1, <2>2, <2>3 DEF Keeps, Task, InsertMessage, At
  <2>5. task' \in [Tasks -> Task] /\ \A u \in Tasks : Keeps(task[u])'
    BY <2>2, <2>3, <2>4, StepOfRequest
  <2>6. status # "none"
    BY <1>4, UnderWay DEF InsertMessage, At
  <2>7. lastMessage' \in 0 .. Len(thread')
    BY <1>0, <2>2, <2>3 DEF TInv, TypeOK
  <2>. QED
    BY <2>2, <2>3, <2>5, <2>6, <2>7 DEF TInv, TypeOK, Begun, OrderMade, AllJudged, Judged
<1>5. CASE MirrorMessage(t)
  <2>1. /\ UNCHANGED <<status, agreed, thread, product, po, checks, returned, requests, faults, disturbed>>
        /\ lastMessage' = task[t].said /\ At(t, "mirror")
    BY <1>5 DEF MirrorMessage, deal
  <2>2. lastMessage' \in 0 .. Len(thread)
    BY <1>0, <2>1 DEF Keeps, At
  <2>3. PICK r \in Task : Become(t, r) /\ (r = Idle \/ (r = [task[t] EXCEPT !.pc = "accept"] /\ task[t].accepts))
    <3>1. [task[t] EXCEPT !.pc = "accept"] \in Task
      BY <1>0 DEF Task, Pc
    <3>2. \/ Become(t, Idle)
          \/ task[t].accepts /\ Become(t, [task[t] EXCEPT !.pc = "accept"])
      BY <1>5 DEF MirrorMessage, Goto, Return
    <3>3. CASE Become(t, Idle)
      BY <1>1, <3>3 DEF Become
    <3>4. CASE task[t].accepts /\ Become(t, [task[t] EXCEPT !.pc = "accept"])
      BY <3>1, <3>4 DEF Become
    <3>. QED
      BY <3>2, <3>3, <3>4
  <2>4. Keeps(r)' /\ Grown
    BY <1>0, <1>1, <2>1, <2>3 DEF Keeps, Task, At, Grown
  <2>5. task' \in [Tasks -> Task] /\ \A u \in Tasks : Keeps(task[u])'
    BY <2>1, <2>3, <2>4, StepOfRequest
  <2>6. status # "none"
    BY <2>1, UnderWay DEF At
  <2>. QED
    BY <2>1, <2>2, <2>5, <2>6 DEF TInv, TypeOK, Begun, OrderMade, AllJudged, Judged
<1>6. CASE Accept(t)
  <2>1. /\ UNCHANGED <<lastMessage, thread, product, po, checks, returned, requests, faults>>
        /\ status' \in Range(DealStatus) /\ agreed' \in Price
        /\ disturbed' \subseteq {"status", "price", "mirror"}
    BY <1>0, <1>6, Statuses DEF Accept, Task
  <2>. QED
    BY <1>0, <1>1, <1>6, <2>1, WriteKeeps DEF Accept, Return, At, OrderMade
<1>. QED
  BY <1>2, <1>3, <1>4, <1>5, <1>6 DEF Thread

LEMMA BreakOffKeeps ==
  ASSUME TInv, NEW t \in Tasks, BreakOff(t)
  PROVE  TInv'
<1>1. faults' \in 0 .. MaxFaults
  BY DealAssumption DEF TInv, TypeOK, BreakOff
<1>. QED
  BY <1>1, IdleKeeps, MoveKeeps DEF BreakOff, Return

-----------------------------------------------------------------------------
LEMMA Invariant == Spec => []TInv
<1>1. TInv /\ [Next]_vars => TInv'
  <2>. SUFFICES ASSUME TInv, [Next]_vars PROVE TInv'
    OBVIOUS
  <2>1. CASE Next
    BY <2>1, DealsKeep, OrdersKeep, ComplianceKeeps, ThreadKeeps, BreakOffKeeps DEF Next
  <2>2. CASE UNCHANGED vars
    BY <2>2 DEF vars, deal, TInv, TypeOK, Begun, OrderMade, AllJudged, Judged, Keeps, At
  <2>. QED
    BY <2>1, <2>2
<1>. QED
  BY <1>1, InitKeeps, PTL DEF Spec

(* Every variable has its type, whatever requests overlap and break off     *)
(* (deal.service.ts, purchase-order.service.ts, compliance.service.ts,      *)
(* message.service.ts).                                                     *)
THEOREM TypeCorrect == Spec => []TypeOK
<1>1. TInv => TypeOK
  BY DEF TInv
<1>. QED
  BY <1>1, Invariant, PTL

(* A price is agreed through a buyer reply only after a counter-offer: the  *)
(* thread the gateway read had a message of the buyer in it, and only grew  *)
(* since (deal.proxy.ts).                                                   *)
THEOREM AcceptAfterCounter == Spec => []AcceptFollowsCounter
<1>1. TInv => AcceptFollowsCounter
  <2>. SUFFICES ASSUME TInv, NEW t \in Tasks, At(t, "accept")
                PROVE  \E i, j \in 1 .. Len(thread) :
                         i < j /\ j <= task[t].said /\ thread[i] = "buyer" /\ thread[j] = "buyer"
    BY DEF AcceptFollowsCounter
  <2>1. /\ task[t].said \in 1 .. Len(thread) /\ thread[task[t].said] = "buyer"
        /\ \E i \in 1 .. Len(thread) : i < task[t].said /\ thread[i] = "buyer"
    BY DEF TInv, Keeps, At
  <2>2. Len(thread) \in Nat
    BY LenProperties DEF TInv, TypeOK
  <2>. QED
    BY <2>1, <2>2
<1>. QED
  BY <1>1, Invariant, PTL

(* An order that passes its checks with a "pass" passes them for what the   *)
(* deal and the product say, when these are what the checks were drawn from *)
(* (compliance.service.ts).                                                 *)
THEOREM PassesEarned == Spec => []PassIsEarned
<1>1. TInv => PassIsEarned
  <2>. SUFFICES ASSUME TInv, Listed = "pass", NEW b \in Range(checks),
                       b.agreed = agreed, b.product = product
                PROVE  product.hs /\ product.capacity /\ agreed # NoPrice /\ agreed >= product.floor
    BY DEF PassIsEarned
  <2>1. b \in Batch /\ Judged(b.verdict, b.agreed, b.product)
    <3>1. checks \in Seq(Batch) /\ DOMAIN checks = 1 .. Len(checks)
      BY LenProperties DEF TInv, TypeOK
    <3>2. PICK i \in 1 .. Len(checks) : b = checks[i]
      BY <3>1 DEF Range
    <3>. QED
      BY <3>1, <3>2, ElementOfSeq DEF TInv, AllJudged
  <2>2. ASSUME NEW c \in Check PROVE b.verdict[c] = "pass"
    <3>1. b.verdict[c] \in Verdicts(checks) /\ b.verdict[c] \in Verdict
      BY <2>1 DEF Verdicts, Range, Batch
    <3>. QED
      BY <3>1 DEF Listed, Overall, Verdict
  <2>3. b.verdict.hs = "pass" /\ b.verdict.capacity = "pass" /\ b.verdict.price = "pass"
    BY <2>2 DEF Check
  <2>. QED
    BY <2>1, <2>3, DealAssumption DEF Judged
<1>. QED
  BY <1>1, Invariant, PTL

-----------------------------------------------------------------------------
(* The rows of checks: once a run has answered, one is about to insert, or  *)
(* the rows of the run that answered last are there.                        *)
LastRun ==
  faults = 0 /\ returned # "none" =>
    \/ \E t \in Tasks : At(t, "insert")
    \/ \E i \in 1 .. Len(checks) : returned = Overall(Range(checks[i].verdict))

(* One request at a time takes a step. *)
LEMMA OthersStay ==
  ASSUME TInv, NEW t \in Tasks, Deals(t) \/ Orders(t) \/ Compliance(t) \/ Thread(t) \/ BreakOff(t)
  PROVE  \A u \in Tasks : u # t => task'[u] = task[u]
<1>. SUFFICES ASSUME NEW u \in Tasks, u # t PROVE task'[u] = task[u]
  OBVIOUS
<1>. USE DEF TInv, TypeOK, Become, Goto, Return
<1>1. CASE Deals(t)
  BY <1>1 DEF Deals, CreateDeal, PatchDeal, EditProduct
<1>2. CASE Orders(t)
  BY <1>2 DEF Orders, Generate, FindPo, InsertPo, Send, SendPo, SendDeal, Sign, SignPo, SignDeal
<1>3. CASE Compliance(t)
  BY <1>3 DEF Compliance, RunChecks, DrawVerdicts, DeleteChecks, InsertChecks
<1>4. CASE Thread(t)
  BY <1>4 DEF Thread, PostMessage, BuyerReply, InsertMessage, MirrorMessage, Accept
<1>5. CASE BreakOff(t)
  BY <1>5 DEF BreakOff
<1>. QED
  BY <1>1, <1>2, <1>3, <1>4, <1>5

(* Where a request begins. *)
LEMMA Begins ==
  ASSUME TInv, NEW t \in Tasks
  PROVE  /\ Generate(t) => task'[t].pc = "find"
         /\ Send(t) => task'[t].pc = "sendPo"
         /\ Sign(t) => task'[t].pc = "signPo"
         /\ RunChecks(t) => task'[t].pc = "readProduct"
         /\ PostMessage(t) \/ BuyerReply(t) => task'[t].pc = "message"
<1>. USE DEF TInv, TypeOK, Become
<1>1. DOMAIN Idle = {"pc", "price", "product", "verdict", "buyer", "accepts", "said"}
  BY DEF Idle
<1>2. Generate(t) => task'[t].pc = "find"
  BY <1>1 DEF Generate
<1>3. Send(t) => task'[t].pc = "sendPo"
  BY <1>1 DEF Send
<1>4. Sign(t) => task'[t].pc = "signPo"
  BY <1>1 DEF Sign
<1>5. RunChecks(t) => task'[t].pc = "readProduct"
  BY <1>1 DEF RunChecks
<1>6. PostMessage(t) => task'[t].pc = "message"
  BY <1>1 DEF PostMessage
<1>7. BuyerReply(t) => task'[t].pc = "message"
  BY <1>1 DEF BuyerReply
<1>. QED
  BY <1>2, <1>3, <1>4, <1>5, <1>6, <1>7

(* Where a request may stand after a step, by the part the step is of.      *)
LEMMA Paths ==
  ASSUME TInv, NEW t \in Tasks
  PROVE  /\ Orders(t) => task'[t].pc \in {"idle", "find", "insertPo", "sendPo", "sendDeal", "signPo", "signDeal"}
         /\ Compliance(t) => task'[t].pc \in {"idle", "readProduct", "delete", "insert"}
         /\ Thread(t) => task'[t].pc \in {"idle", "message", "mirror", "accept"}
         /\ Deals(t) => task' = task
         /\ BreakOff(t) => task'[t].pc = "idle"
<1>. USE IdleType DEF TInv, TypeOK, Become, Goto, Return
<1>1. ASSUME Orders(t)
      PROVE  task'[t].pc \in {"idle", "find", "insertPo", "sendPo", "sendDeal", "signPo", "signDeal"}
  <2>1. CASE Generate(t) \/ Send(t) \/ Sign(t)
    BY <2>1, Begins
  <2>2. CASE FindPo(t) \/ InsertPo(t)
    BY <2>2 DEF FindPo, InsertPo, Task
  <2>3. CASE SendPo(t) \/ SignPo(t) \/ SendDeal(t) \/ SignDeal(t)
    BY <2>3 DEF SendPo, SignPo, SendDeal, SignDeal, Task
  <2>. QED
    BY <1>1, <2>1, <2>2, <2>3 DEF Orders
<1>2. ASSUME Compliance(t) PROVE task'[t].pc \in {"idle", "readProduct", "delete", "insert"}
  <2>1. CASE RunChecks(t) \/ InsertChecks(t)
    BY <2>1 DEF RunChecks, InsertChecks, Task
  <2>2. CASE DrawVerdicts(t)
    BY <2>2 DEF DrawVerdicts, Task
  <2>3. CASE DeleteChecks(t)
    BY <2>3 DEF DeleteChecks, Task
  <2>. QED
    BY <1>2, <2>1, <2>2, <2>3 DEF Compliance
<1>3. ASSUME Thread(t) PROVE task'[t].pc \in {"idle", "message", "mirror", "accept"}
  <2>1. CASE PostMessage(t) \/ BuyerReply(t) \/ Accept(t)
    BY <2>1, Begins DEF Accept
  <2>2. CASE InsertMessage(t)
    BY <2>2 DEF InsertMessage, Task
  <2>3. CASE MirrorMessage(t)
    BY <2>3 DEF MirrorMessage, Task
  <2>. QED
    BY <1>3, <2>1, <2>2, <2>3 DEF Thread
<1>4. Deals(t) => task' = task
  BY DEF Deals, CreateDeal, PatchDeal, EditProduct
<1>5. BreakOff(t) => task'[t].pc = "idle"
  BY DEF BreakOff
<1>. QED
  BY <1>1, <1>2, <1>3, <1>4, <1>5

LEMMA LastRunStep ==
  ASSUME TInv, LastRun, [Next]_vars
  PROVE  LastRun'
<1>. SUFFICES ASSUME faults' = 0, returned' # "none",
                     \A u \in Tasks : ~At(u, "insert")'
              PROVE  \E i \in 1 .. Len(checks') : returned' = Overall(Range(checks'[i].verdict))
  BY DEF LastRun, Overall
<1>0. faults \in Nat /\ MaxFaults \in Nat /\ checks \in Seq(Batch) /\ Len(checks) \in Nat
  BY DealAssumption, LenProperties DEF TInv, TypeOK
<1>1. CASE \E t \in Tasks : InsertChecks(t)
  <2>1. PICK t \in Tasks : InsertChecks(t)
    BY <1>1
  <2>. DEFINE b == [verdict |-> task[t].verdict, agreed |-> task[t].price, product |-> task[t].product]
  <2>2. checks' = Append(checks, b) /\ returned' = Overall(Range(b.verdict))
    BY <2>1 DEF InsertChecks
  <2>3. b \in Batch
    BY DEF TInv, TypeOK, Batch, Task
  <2>. HIDE DEF b
  <2>4. checks'[Len(checks) + 1] = b /\ Len(checks') = Len(checks) + 1
    BY <1>0, <2>2, <2>3, Places
  <2>. QED
    BY <1>0, <2>2, <2>4
<1>2. CASE UNCHANGED vars
  BY <1>2 DEF LastRun, vars, At
<1>3. ASSUME Next, \A t \in Tasks : ~InsertChecks(t)
      PROVE  \E i \in 1 .. Len(checks') : returned' = Overall(Range(checks'[i].verdict))
  <2>1. PICK t \in Tasks : Deals(t) \/ Orders(t) \/ Compliance(t) \/ Thread(t) \/ BreakOff(t)
    BY <1>3 DEF Next
  <2>2. ~BreakOff(t)
    BY <1>0 DEF BreakOff
  <2>3. ~DeleteChecks(t)
    BY DEF DeleteChecks, Goto, Become, At, TInv, TypeOK, Task
  <2>4. /\ checks' = checks /\ returned' = returned
        /\ At(t, "insert") => task' = task
        /\ faults' = faults
    BY <1>3, <2>1, <2>2, <2>3
       DEF Deals, CreateDeal, PatchDeal, EditProduct, Orders, Generate, FindPo, InsertPo, Send, SendPo,
           SendDeal, Sign, SignPo, SignDeal, Compliance, RunChecks, DrawVerdicts, Thread, PostMessage,
           BuyerReply, InsertMessage, MirrorMessage, Accept, OnDeal, Request, At
  <2>5. \A u \in Tasks : ~At(u, "insert")
    BY <2>1, <2>4, OthersStay DEF At
  <2>. QED
    BY <2>4, <2>5 DEF LastRun
<1>. QED
  BY <1>1, <1>2, <1>3

LEMMA OverallIsWorst ==
  ASSUME NEW V \in SUBSET Verdict, NEW W \in SUBSET Verdict, V \subseteq W
  PROVE  /\ Severity(Overall(V)) \in Nat /\ Severity(Overall(W)) \in Nat
         /\ Severity(Overall(W)) >= Severity(Overall(V))
BY DEF Overall, Severity

(* Overlapping runs may leave the rows of several, but never a better       *)
(* verdict than the one answered last (compliance.service.ts).              *)
THEOREM ListedIsNoBetter == Spec => []ListedNotOptimistic
<1>1. Init => LastRun
  BY DEF Init, LastRun
<1>2. TInv /\ LastRun /\ [Next]_vars => LastRun'
  BY LastRunStep
<1>3. TInv /\ LastRun => ListedNotOptimistic
  <2>. SUFFICES ASSUME TInv, LastRun, faults = 0, returned # "none", \A t \in Tasks : ~At(t, "insert")
                PROVE  checks # <<>> /\ Severity(Listed) >= Severity(returned)
    BY DEF ListedNotOptimistic
  <2>1. PICK i \in 1 .. Len(checks) : returned = Overall(Range(checks[i].verdict))
    BY DEF LastRun
  <2>2. checks \in Seq(Batch) /\ Len(checks) \in Nat /\ DOMAIN checks = 1 .. Len(checks)
    BY LenProperties DEF TInv, TypeOK
  <2>3. checks # <<>>
    BY <2>1, <2>2, EmptySeq
  <2>4. Verdicts(checks) \subseteq Verdict
    <3>1. \A j \in 1 .. Len(checks) : checks[j] \in Batch
      BY <2>2, ElementOfSeq
    <3>. QED
      BY <2>2, <3>1 DEF Verdicts, Range, Batch
  <2>5. Range(checks[i].verdict) \subseteq Verdicts(checks)
    BY <2>1, <2>2 DEF Verdicts, Range
  <2>. QED
    BY <2>1, <2>3, <2>4, <2>5, OverallIsWorst DEF Listed
<1>. QED
  BY <1>1, <1>2, <1>3, Invariant, PTL DEF Spec

-----------------------------------------------------------------------------
(* Who writes the order: a generate that finds none, a send or a sign.      *)
LEMMA OrderMoves ==
  ASSUME TInv, [Next]_vars, po' # po
  PROVE  \E t \in Tasks :
           \/ po = NoPo /\ InsertPo(t) /\ po' = [NoPo EXCEPT !.status = "draft", !.price = task[t].price]
           \/ po # NoPo /\ SendPo(t)
           \/ po # NoPo /\ SignPo(t)
<1>1. Next
  BY DEF vars
<1>2. PICK t \in Tasks : Deals(t) \/ Orders(t) \/ Compliance(t) \/ Thread(t) \/ BreakOff(t)
  BY <1>1 DEF Next
<1>3. InsertPo(t) \/ SendPo(t) \/ SignPo(t)
  BY <1>2 DEF Deals, CreateDeal, PatchDeal, EditProduct, Orders, Generate, FindPo, Send, SendDeal, Sign,
              SignDeal, Compliance, RunChecks, DrawVerdicts, DeleteChecks, InsertChecks, Thread,
              PostMessage, BuyerReply, InsertMessage, MirrorMessage, Accept, BreakOff
<1>4. SendPo(t) \/ SignPo(t) => po # NoPo
  BY DEF TInv, Keeps, SendPo, SignPo, At
<1>. QED
  BY <1>3, <1>4 DEF InsertPo

(* An order that exists keeps its price, and is never lost or replaced by   *)
(* another generate (purchase-order.service.ts).                            *)
THEOREM TermsFrozen == Spec => PoTermsFrozen
<1>1. TInv /\ [Next]_vars => (po # NoPo => po'.status # "none" /\ po'.price = po.price)
  <2>. SUFFICES ASSUME TInv, [Next]_vars, po # NoPo, po' # po
                PROVE  po'.status # "none" /\ po'.price = po.price
    BY DEF TInv, OrderMade
  <2>1. PICK t \in Tasks : SendPo(t) \/ SignPo(t)
    BY OrderMoves
  <2>. QED
    BY <2>1 DEF SendPo, SignPo, TInv, TypeOK, Po
<1>. QED
  BY <1>1, Invariant, PTL DEF Spec, PoTermsFrozen

(* The price an order has or will have, as long as nobody wrote another.    *)
PriceKept ==
  "price" \notin disturbed =>
    /\ po # NoPo => po.price = agreed
    /\ \A t \in Tasks : task[t].pc \in {"find", "insertPo"} => task[t].price = agreed

LEMMA PriceKeptStep ==
  ASSUME TInv, PriceKept, [Next]_vars
  PROVE  PriceKept'
<1>. SUFFICES ASSUME Next, "price" \notin disturbed' PROVE PriceKept'
  BY DEF PriceKept, vars, deal
<1>1. PICK t \in Tasks : Deals(t) \/ Orders(t) \/ Compliance(t) \/ Thread(t) \/ BreakOff(t)
  BY DEF Next
<1>2. "price" \notin disturbed
  BY <1>1 DEF Deals, CreateDeal, PatchDeal, EditProduct, Orders, Generate, FindPo, InsertPo, Send, SendPo,
              SendDeal, Sign, SignPo, SignDeal, Compliance, RunChecks, DrawVerdicts, DeleteChecks, InsertChecks,
              Thread, PostMessage, BuyerReply, InsertMessage, MirrorMessage, Accept, BreakOff, Disturb
<1>3. agreed' = agreed \/ (po = NoPo /\ \A u \in Tasks : task[u].pc \notin {"find", "insertPo"})
  <2>1. CASE CreateDeal(t)
    BY <2>1 DEF CreateDeal, TInv, Begun, At
  <2>2. CASE PatchDeal(t)
    BY <2>2 DEF PatchDeal, Disturb, PriceMatters, deal
  <2>3. CASE Accept(t)
    BY <2>3 DEF Accept, PriceMatters
  <2>. QED
    BY <1>1, <2>1, <2>2, <2>3
       DEF Deals, EditProduct, Orders, Generate, FindPo, InsertPo, Send, SendPo, SendDeal, Sign, SignPo,
           SignDeal, Compliance, RunChecks, DrawVerdicts, DeleteChecks, InsertChecks, Thread, PostMessage,
           BuyerReply, InsertMessage, MirrorMessage, BreakOff, deal
<1>4. task'[t].pc \in {"find", "insertPo"} =>
        task'[t].price = agreed' \/ (task[t].pc \in {"find", "insertPo"} /\ task'[t].price = task[t].price)
  <2>1. CASE Deals(t)
    BY <1>3, <2>1, Paths DEF Deals, CreateDeal, PatchDeal, EditProduct, OnDeal, Request, At
  <2>2. CASE Generate(t)
    BY <2>2 DEF Generate, Become, TInv, TypeOK, Idle, deal
  <2>3. CASE FindPo(t)
    BY <2>3 DEF FindPo, Idle, At, Become, Goto, Return, TInv, TypeOK, Task
  <2>4. CASE Orders(t) /\ ~Generate(t) /\ ~FindPo(t)
    BY <2>4 DEF Orders, InsertPo, Send, SendPo, SendDeal, Sign, SignPo, SignDeal,
                Become, Goto, Return, TInv, TypeOK, Idle, Task
  <2>5. CASE Compliance(t) \/ Thread(t) \/ BreakOff(t)
    BY <2>5, Paths
  <2>. QED
    BY <1>1, <2>1, <2>2, <2>3, <2>4, <2>5
<1>5. ASSUME NEW u \in Tasks, task'[u].pc \in {"find", "insertPo"} PROVE task'[u].price = agreed'
  BY <1>1, <1>2, <1>3, <1>4, <1>5, OthersStay DEF PriceKept
<1>6. ASSUME po' # NoPo PROVE po'.price = agreed'
  <2>1. CASE po' = po
    BY <1>2, <1>3, <1>6, <2>1 DEF PriceKept
  <2>2. CASE po = NoPo /\ po' # po
    <3>1. PICK u \in Tasks : InsertPo(u) /\ po' = [NoPo EXCEPT !.status = "draft", !.price = task[u].price]
      BY <2>2, OrderMoves
    <3>. QED
      BY <1>2, <3>1 DEF PriceKept, InsertPo, At, NoPo, deal
  <2>3. CASE po # NoPo /\ po' # po
    <3>1. PICK u \in Tasks : SendPo(u) \/ SignPo(u)
      BY <2>3, OrderMoves
    <3>. QED
      BY <1>2, <2>3, <3>1 DEF PriceKept, SendPo, SignPo, TInv, TypeOK, Po, deal
  <2>. QED
    BY <2>1, <2>2, <2>3
<1>. QED
  BY <1>5, <1>6 DEF PriceKept

(* An order is at the price the deal agrees on, or that price was written   *)
(* after the generate request read it (purchase-order.service.ts).          *)
THEOREM OrderAtAgreedPrice == Spec => []PoAtAgreedPrice
<1>1. Init => PriceKept
  BY DEF Init, PriceKept, Idle
<1>2. TInv /\ PriceKept /\ [Next]_vars => PriceKept'
  BY PriceKeptStep
<1>3. PriceKept => PoAtAgreedPrice
  BY DEF PriceKept, PoAtAgreedPrice
<1>. QED
  BY <1>1, <1>2, <1>3, Invariant, PTL DEF Spec

-----------------------------------------------------------------------------
(* What the order writes to the deal: done, or still to be done by a        *)
(* request that has written the order.                                      *)
Followed ==
  faults = 0 /\ "status" \notin disturbed =>
    /\ \A t \in Tasks : /\ At(t, "sendDeal") => po.status = "sent"
                        /\ At(t, "signDeal") => po.status = "signed"
    /\ po.status = "sent" => status = "po_sent" \/ InSend
    /\ po.status = "signed" => status = "po_signed" \/ InSign

LEMMA FollowedStep ==
  ASSUME TInv, Followed, [Next]_vars
  PROVE  Followed'
<1>. SUFFICES ASSUME Next, faults' = 0, "status" \notin disturbed' PROVE Followed'
  BY DEF Followed, vars, deal, At, InSend, InSign
<1>1. PICK t \in Tasks : Deals(t) \/ Orders(t) \/ Compliance(t) \/ Thread(t) \/ BreakOff(t)
  BY DEF Next
<1>2. faults \in Nat
  BY DealAssumption DEF TInv, TypeOK
<1>3. "status" \notin disturbed
  BY <1>1 DEF Deals, CreateDeal, PatchDeal, EditProduct, Orders, Generate, FindPo, InsertPo, Send, SendPo,
              SendDeal, Sign, SignPo, SignDeal, Compliance, RunChecks, DrawVerdicts, DeleteChecks, InsertChecks,
              Thread, PostMessage, BuyerReply, InsertMessage, MirrorMessage, Accept, BreakOff, Disturb
<1>4. ~BreakOff(t)
  BY <1>2 DEF BreakOff
<1>5. faults = 0
  BY <1>1, <1>4
     DEF Deals, CreateDeal, PatchDeal, EditProduct, Orders, Generate, FindPo, InsertPo, Send, SendPo,
         SendDeal, Sign, SignPo, SignDeal, Compliance, RunChecks, DrawVerdicts, DeleteChecks, InsertChecks,
         Thread, PostMessage, BuyerReply, InsertMessage, MirrorMessage, Accept, OnDeal, Request
<1>6. /\ \A u \in Tasks : /\ At(u, "sendDeal") => po.status = "sent"
                          /\ At(u, "signDeal") => po.status = "signed"
      /\ po.status = "sent" => status = "po_sent" \/ InSend
      /\ po.status = "signed" => status = "po_signed" \/ InSign
  BY <1>3, <1>5 DEF Followed
<1>7. \A u \in Tasks : u # t => task'[u] = task[u]
  BY <1>1, OthersStay
<1>8. CASE SendPo(t)
  <2>1. po'.status = "sent" /\ ~InSign
    BY <1>8 DEF SendPo, Disturb, TInv, TypeOK, Po
  <2>2. task'[t].pc = "sendDeal"
    BY <1>8 DEF SendPo, Goto, Become, TInv, TypeOK, Task
  <2>3. InSend' /\ ~InSign'
    BY <1>7, <2>1, <2>2 DEF InSend, InSign, At
  <2>. QED
    BY <2>1, <2>3 DEF Followed, InSign
<1>9. CASE SignPo(t)
  <2>1. po'.status = "signed" /\ ~InSend
    BY <1>9 DEF SignPo, Disturb, TInv, TypeOK, Po
  <2>2. task'[t].pc = "signDeal"
    BY <1>9 DEF SignPo, Goto, Become, TInv, TypeOK, Task
  <2>3. InSign' /\ ~InSend'
    BY <1>7, <2>1, <2>2 DEF InSend, InSign, At
  <2>. QED
    BY <2>1, <2>3 DEF Followed, InSend
<1>10. CASE SendDeal(t) \/ SignDeal(t)
  <2>1. /\ po' = po /\ task'[t].pc = "idle"
        /\ SendDeal(t) => status' = "po_sent" /\ po.status = "sent"
        /\ SignDeal(t) => status' = "po_signed" /\ po.status = "signed"
    BY <1>6, <1>10 DEF SendDeal, SignDeal, Return, Become, Idle, TInv, TypeOK
  <2>. QED
    BY <1>6, <1>7, <1>10, <2>1 DEF Followed, At, InSend, InSign
<1>11. CASE ~SendPo(t) /\ ~SignPo(t) /\ ~SendDeal(t) /\ ~SignDeal(t)
  <2>1. task'[t] = task[t] \/ task'[t].pc \notin {"sendDeal", "signDeal"}
    <3>1. CASE Orders(t)
      <4>1. CASE Generate(t) \/ Send(t) \/ Sign(t)
        BY <4>1, Begins
      <4>2. CASE FindPo(t) \/ InsertPo(t)
        BY <4>2, IdleType DEF FindPo, InsertPo, Become, Goto, Return, TInv, TypeOK, Task
      <4>. QED
        BY <1>11, <3>1, <4>1, <4>2 DEF Orders
    <3>. QED
      BY <1>1, <3>1, Paths
  <2>2. ~At(t, "sendDeal") /\ ~At(t, "signDeal")
    BY <1>1, <1>4, <1>11
       DEF Deals, CreateDeal, PatchDeal, EditProduct, Orders, Generate, FindPo, InsertPo, Send, Sign,
           Compliance, RunChecks, DrawVerdicts, DeleteChecks, InsertChecks, Thread, PostMessage, BuyerReply,
           InsertMessage, MirrorMessage, Accept, OnDeal, Request, At
  <2>3. InSend' = InSend /\ InSign' = InSign /\ \A u \in Tasks : (At(u, "sendDeal")' => At(u, "sendDeal"))
                                                             /\ (At(u, "signDeal")' => At(u, "signDeal"))
    BY <1>7, <2>1, <2>2 DEF InSend, InSign, At
  <2>4. CASE po' # po
    <3>1. PICK u \in Tasks : \/ po = NoPo /\ po' = [NoPo EXCEPT !.status = "draft", !.price = task[u].price]
                            \/ SendPo(u) \/ SignPo(u)
      BY <2>4, OrderMoves
    <3>2. ~SendPo(u) /\ ~SignPo(u)
      <4>1. ASSUME SendPo(u) \/ SignPo(u) PROVE task'[u].pc # task[u].pc
        BY <4>1 DEF SendPo, SignPo, Goto, Become, At, TInv, TypeOK, Task
      <4>. QED
        BY <1>7, <1>11, <4>1
    <3>3. po = NoPo /\ po'.status = "draft"
      BY <3>1, <3>2 DEF NoPo
    <3>. QED
      BY <1>6, <2>3, <3>3 DEF Followed, NoPo
  <2>5. CASE po' = po
    <3>1. status' = status \/ po.status \notin {"sent", "signed"}
      <4>1. CASE CreateDeal(t)
        BY <4>1 DEF CreateDeal, TInv, Begun, NoPo
      <4>2. CASE PatchDeal(t)
        BY <4>2 DEF PatchDeal, Disturb, StatusMatters, deal
      <4>3. CASE Accept(t)
        BY <4>3 DEF Accept, StatusMatters
      <4>. QED
        BY <1>1, <1>4, <1>11, <4>1, <4>2, <4>3
           DEF Deals, EditProduct, Orders, Generate, FindPo, InsertPo, Send, Sign, Compliance, RunChecks,
               DrawVerdicts, DeleteChecks, InsertChecks, Thread, PostMessage, BuyerReply, InsertMessage,
               MirrorMessage, deal
    <3>. QED
      BY <1>6, <2>3, <2>5, <3>1 DEF Followed
  <2>. QED
    BY <2>4, <2>5
<1>. QED
  BY <1>8, <1>9, <1>10, <1>11

(* Once no send or sign is half done the deal says what its order says,     *)
(* however many of them overlapped (purchase-order.service.ts).             *)
THEOREM DealFollows == Spec => []DealFollowsOrder
<1>1. Init => Followed
  BY DEF Init, Followed, Idle, At, NoPo
<1>2. TInv /\ Followed /\ [Next]_vars => Followed'
  BY FollowedStep
<1>3. Followed => DealFollowsOrder
  BY DEF Followed, DealFollowsOrder, InSend, InSign, At
<1>. QED
  BY <1>1, <1>2, <1>3, Invariant, PTL DEF Spec

-----------------------------------------------------------------------------
(* What the deal shows as its last message: the newest, or the newest is    *)
(* about to be mirrored and no other is.                                    *)
Mirrored ==
  faults = 0 /\ "mirror" \notin disturbed =>
    /\ \A t, u \in Tasks : At(t, "mirror") /\ At(u, "mirror") => t = u
    /\ \A t \in Tasks : At(t, "mirror") => task[t].said = Len(thread)
    /\ lastMessage = Len(thread) \/ \E t \in Tasks : At(t, "mirror")

LEMMA MirroredStep ==
  ASSUME TInv, Mirrored, [Next]_vars
  PROVE  Mirrored'
<1>. SUFFICES ASSUME Next, faults' = 0, "mirror" \notin disturbed' PROVE Mirrored'
  BY DEF Mirrored, vars, At
<1>1. PICK t \in Tasks : Deals(t) \/ Orders(t) \/ Compliance(t) \/ Thread(t) \/ BreakOff(t)
  BY DEF Next
<1>2. faults \in Nat /\ thread \in Seq(Sender) /\ Len(thread) \in Nat
  BY DealAssumption, LenProperties DEF TInv, TypeOK
<1>3. "mirror" \notin disturbed
  BY <1>1 DEF Deals, CreateDeal, PatchDeal, EditProduct, Orders, Generate, FindPo, InsertPo, Send, SendPo,
              SendDeal, Sign, SignPo, SignDeal, Compliance, RunChecks, DrawVerdicts, DeleteChecks, InsertChecks,
              Thread, PostMessage, BuyerReply, InsertMessage, MirrorMessage, Accept, BreakOff, Disturb
<1>4. ~BreakOff(t)
  BY <1>2 DEF BreakOff
<1>5. faults = 0
  BY <1>1, <1>4
     DEF Deals, CreateDeal, PatchDeal, EditProduct, Orders, Generate, FindPo, InsertPo, Send, SendPo,
         SendDeal, Sign, SignPo, SignDeal, Compliance, RunChecks, DrawVerdicts, DeleteChecks, InsertChecks,
         Thread, PostMessage, BuyerReply, InsertMessage, MirrorMessage, Accept, OnDeal, Request
<1>6. /\ \A u, v \in Tasks : At(u, "mirror") /\ At(v, "mirror") => u = v
      /\ \A u \in Tasks : At(u, "mirror") => task[u].said = Len(thread)
      /\ lastMessage = Len(thread) \/ \E u \in Tasks : At(u, "mirror")
  BY <1>3, <1>5 DEF Mirrored
<1>7. \A u \in Tasks : u # t => task'[u] = task[u]
  BY <1>1, OthersStay
<1>8. CASE InsertMessage(t)
  <2>1. \A u \in Tasks : ~At(u, "mirror")
    BY <1>8 DEF InsertMessage, Disturb
  <2>2. task'[t].pc = "mirror" /\ task'[t].said = Len(thread) + 1
    BY <1>8 DEF InsertMessage, Become, TInv, TypeOK, Task
  <2>3. Len(thread') = Len(thread) + 1
    <3>1. PICK s \in Sender : thread' = Append(thread, s)
      BY <1>8 DEF InsertMessage, Sender
    <3>. QED
      BY <1>2, <3>1, Places
  <2>. QED
    BY <1>7, <2>1, <2>2, <2>3 DEF Mirrored, At
<1>9. CASE MirrorMessage(t)
  <2>1. thread' = thread /\ lastMessage' = task[t].said /\ At(t, "mirror")
    BY <1>9 DEF MirrorMessage
  <2>2. task'[t].pc # "mirror"
    BY <1>9 DEF MirrorMessage, Become, Goto, Return, Idle, TInv, TypeOK, Task
  <2>. QED
    BY <1>6, <1>7, <2>1, <2>2 DEF Mirrored, At
<1>10. CASE ~InsertMessage(t) /\ ~MirrorMessage(t)
  <2>1. task'[t] = task[t] \/ (~At(t, "mirror") /\ task'[t].pc # "mirror")
    <3>1. CASE Thread(t)
      <4>1. CASE PostMessage(t) \/ BuyerReply(t)
        BY <4>1, Begins DEF PostMessage, BuyerReply, OnDeal, Request, At
      <4>2. CASE Accept(t)
        BY <4>2, IdleType DEF Accept, At, Become, Return, TInv, TypeOK
      <4>. QED
        BY <1>10, <3>1, <4>1, <4>2 DEF Thread
    <3>2. ~At(t, "mirror") \/ Deals(t) \/ Thread(t)
      BY <1>1, <1>4 DEF Orders, Generate, FindPo, InsertPo, Send, SendPo, SendDeal, Sign, SignPo, SignDeal,
           Compliance, RunChecks, DrawVerdicts, DeleteChecks, InsertChecks, OnDeal, Request, At
    <3>. QED
      BY <1>1, <3>1, <3>2, Paths
  <2>2. /\ thread' = thread
        /\ lastMessage' = lastMessage \/ (lastMessage' = 0 /\ thread = <<>>)
    BY <1>1, <1>10
       DEF Deals, CreateDeal, PatchDeal, EditProduct, Orders, Generate, FindPo, InsertPo, Send, SendPo,
           SendDeal, Sign, SignPo, SignDeal, Compliance, RunChecks, DrawVerdicts, DeleteChecks, InsertChecks,
           Thread, PostMessage, BuyerReply, Accept, BreakOff, Disturb
  <2>3. \A u \in Tasks : (At(u, "mirror")' <=> At(u, "mirror")) /\ (At(u, "mirror") => task'[u] = task[u])
    BY <1>7, <2>1 DEF At
  <2>. QED
    BY <1>6, <2>2, <2>3, EmptySeq DEF Mirrored
<1>. QED
  BY <1>8, <1>9, <1>10

(* The deal shows its newest message as its last, but for two messages      *)
(* written at once, a PATCH of another text or a request that broke off     *)
(* (message.service.ts).                                                    *)
THEOREM NewestIsMirrored == Spec => []MirrorIsNewest
<1>1. Init => Mirrored
  BY EmptySeq DEF Init, Mirrored, Idle, At
<1>2. TInv /\ Mirrored /\ [Next]_vars => Mirrored'
  BY MirroredStep
<1>3. Mirrored => MirrorIsNewest
  BY DEF Mirrored, MirrorIsNewest
<1>. QED
  BY <1>1, <1>2, <1>3, Invariant, PTL DEF Spec
=============================================================================
