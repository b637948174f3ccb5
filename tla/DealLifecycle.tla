---------------------------- MODULE DealLifecycle ----------------------------
(***************************************************************************)
(* One deal of the user-service with everything that hangs on it: its      *)
(* negotiation thread, its purchase order and its compliance checks        *)
(* (deal/*.service.ts), and the gateway's buyer reply, which drives the    *)
(* same deal through the public handlers (gateway deal.proxy.ts).          *)
(*                                                                         *)
(* A task is one request in flight.  The ownership reads only refuse, so a *)
(* request that passes them starts in one step with whatever it keeps of   *)
(* what it read; every later statement is one action.  No statement checks *)
(* the status it moves from and none is in a transaction with another.     *)
(***************************************************************************)
EXTENDS Naturals, Sequences, SequencesExt

CONSTANTS
  Tasks,            \* requests that may be in flight at once
  Prices,           \* amounts a client may name, zero included
  NoPrice,          \* no amount: a null column, or no product to ask
  ClientStatuses,   \* bound: the statuses clients write with a PATCH
  MaxRequests,      \* bound: requests in a behaviour
  MaxFaults         \* bound: requests that break off in a behaviour

DealStatus == <<"contacted", "negotiating", "compliance", "po_sent", "po_signed", "closed">>

ASSUME DealAssumption ==
  /\ Prices \subseteq Nat
  /\ NoPrice \notin Nat
  /\ ClientStatuses \subseteq Range(DealStatus)
  /\ MaxRequests \in Nat
  /\ MaxFaults \in Nat

VARIABLES
  status,       \* deal.status, "none" before the deal is created
  agreed,       \* deal.agreed_price
  lastMessage,  \* deal.last_message: the position of that message in the thread, 0 for any other text
  thread,       \* the senders of the deal's messages, oldest first
  product,      \* what the deal's product says: price_min, has it an HS code, a monthly capacity
  po,           \* the purchase_order row
  checks,       \* the compliance_check rows, by the run that inserted them
  returned,     \* what the latest compliance run answered, "none" before the first
  task,         \* what each request is doing
  requests,     \* requests so far
  faults,       \* requests broken off so far
  disturbed     \* what concurrent or manual writes have put out of step

deal == <<status, agreed>>
vars == <<deal, lastMessage, thread, product, po, checks, returned, task,
          requests, faults, disturbed>>

-----------------------------------------------------------------------------
Verdict == {"pass", "warn", "fail"}
Check   == {"nib", "hs", "price", "capacity"}
Sender  == {"umkm", "buyer"}   \* the third sender, system, counts as umkm

Price   == Prices \union {NoPrice}

NoPo      == [status |-> "none", price |-> NoPrice, signature |-> FALSE]
Po        == [status : {"none", "draft", "sent", "signed"}, price : Price, signature : BOOLEAN]
NoProduct == [floor |-> NoPrice, hs |-> FALSE, capacity |-> FALSE]
Product   == [floor : Prices, hs : BOOLEAN, capacity : BOOLEAN] \union {NoProduct}

(* The rows one run inserts.  The detail columns keep what each check was  *)
(* computed from.                                                          *)
Batch == [verdict : [Check -> Verdict], agreed : Price, product : Product]

Pc == {"idle", "find", "insertPo", "sendPo", "sendDeal", "signPo", "signDeal",
       "readProduct", "delete", "insert", "message", "mirror", "accept"}

(* What a request keeps: the price it read or will write, the product it   *)
(* read and the verdicts it drew, whether it speaks for the buyer and had  *)
(* the buyer speak before, and the message it has inserted.                *)
Task == [pc : Pc, price : Price, product : Product,
         verdict : [Check -> Verdict], buyer : BOOLEAN, accepts : BOOLEAN, said : Nat]

Idle == [pc |-> "idle", price |-> NoPrice, product |-> NoProduct,
         verdict |-> [c \in Check |-> "pass"], buyer |-> FALSE, accepts |-> FALSE, said |-> 0]

Init ==
  /\ status = "none" /\ agreed = NoPrice /\ lastMessage = 0 /\ thread = <<>>
  /\ product \in Product
  /\ po = NoPo /\ checks = <<>> /\ returned = "none"
  /\ task = [t \in Tasks |-> Idle]
  /\ requests = 0 /\ faults = 0 /\ disturbed = {}

-----------------------------------------------------------------------------
At(t, l)     == task[t].pc = l
Become(t, r) == task' = [task EXCEPT ![t] = r]
Goto(t, l)   == Become(t, [task[t] EXCEPT !.pc = l])
Return(t)    == Become(t, Idle)

Request(t) ==
  /\ At(t, "idle")
  /\ requests < MaxRequests
  /\ requests' = requests + 1
  /\ UNCHANGED faults

(* A request on an existing deal. *)
OnDeal(t) == Request(t) /\ status # "none"

(* Note that `what` has been put out of step when `when` holds. *)
Disturb(what, when) == disturbed' = disturbed \union (IF when THEN {what} ELSE {})

InSend == \E u \in Tasks : At(u, "sendDeal")
InSign == \E u \in Tasks : At(u, "signDeal")

(* A status written from elsewhere disturbs what the order writes once it  *)
(* was sent, a price once an order exists or is being made, a last message *)
(* once there is a thread.                                                 *)
StatusMatters == po.status \in {"sent", "signed"}
PriceMatters  == po # NoPo \/ \E u \in Tasks : task[u].pc \in {"find", "insertPo"}

-----------------------------------------------------------------------------
(* Deals. *)

CreateDeal(t) ==
  /\ Request(t)
  /\ status = "none"
  /\ status' \in ClientStatuses \union {"contacted"}
  /\ agreed' \in Price
  /\ UNCHANGED <<lastMessage, thread, product, po, checks, returned, task, disturbed>>

(* PATCH deals/:id writes what the client sends; one column at a time here,  *)
(* two columns are two steps nobody runs between.                           *)
PatchDeal(t) ==
  /\ OnDeal(t)
  /\ \/ /\ status' \in ClientStatuses
        /\ Disturb("status", StatusMatters)
        /\ UNCHANGED <<agreed, lastMessage>>
     \/ /\ agreed' \in Prices
        /\ Disturb("price", agreed' # agreed /\ PriceMatters)
        /\ UNCHANGED <<status, lastMessage>>
     \/ /\ lastMessage' = 0
        /\ Disturb("mirror", thread # <<>>)
        /\ UNCHANGED deal
  /\ UNCHANGED <<thread, product, po, checks, returned, task>>

(* The owner edits the product, or it is classified, while deals refer to   *)
(* it.  Neither a code nor a capacity is ever taken away.                   *)
EditProduct(t) ==
  /\ OnDeal(t)
  /\ product # NoProduct
  /\ product' \in {p \in Product \ {NoProduct} :
                     (product.hs => p.hs) /\ (product.capacity => p.capacity)}
  /\ UNCHANGED <<deal, lastMessage, thread, po, checks, returned, task, disturbed>>

-----------------------------------------------------------------------------
(* The purchase order. *)

(* Faulty variant: the order is made at the product's floor price. *)
GenerateAtFloor(t) ==
  /\ OnDeal(t)
  /\ Become(t, [Idle EXCEPT !.pc = "find", !.price = product.floor])
  /\ UNCHANGED <<deal, lastMessage, thread, product, po, checks, returned, disturbed>>

(* generate reads the deal first: the price it will use is the one read here. *)
Generate(t) ==
  /\ OnDeal(t)
  /\ Become(t, [Idle EXCEPT !.pc = "find", !.price = agreed])
  /\ UNCHANGED <<deal, lastMessage, thread, product, po, checks, returned, disturbed>>

(* An existing order is returned as it is; without an agreed price the     *)
(* request is refused.                                                     *)
FindPo(t) ==
  /\ At(t, "find")
  /\ IF po = NoPo /\ task[t].price \notin {NoPrice, 0} THEN Goto(t, "insertPo") ELSE Return(t)
  /\ UNCHANGED <<deal, lastMessage, thread, product, po, checks, returned,
                 requests, faults, disturbed>>

(* Faulty variant: the order replaces one made in the meantime. *)
InsertPoAnyway(t) ==
  /\ At(t, "insertPo")
  /\ po' = [NoPo EXCEPT !.status = "draft", !.price = task[t].price]
  /\ Return(t)
  /\ UNCHANGED <<deal, lastMessage, thread, product, checks, returned,
                 requests, faults, disturbed>>

(* deal_id is unique: an insert that loses the race is an error. *)
InsertPo(t) ==
  /\ At(t, "insertPo")
  /\ po' = IF po = NoPo THEN [NoPo EXCEPT !.status = "draft", !.price = task[t].price] ELSE po
  /\ Return(t)
  /\ UNCHANGED <<deal, lastMessage, thread, product, checks, returned,
                 requests, faults, disturbed>>

Send(t) ==
  /\ OnDeal(t)
  /\ po # NoPo
  /\ Become(t, [Idle EXCEPT !.pc = "sendPo"])
  /\ UNCHANGED <<deal, lastMessage, thread, product, po, checks, returned, disturbed>>

(* Whatever the order's status was, a signature included, it becomes sent. *)
SendPo(t) ==
  /\ At(t, "sendPo")
  /\ po' = [po EXCEPT !.status = "sent"]
  /\ Goto(t, "sendDeal")
  /\ Disturb("status", InSign)
  /\ UNCHANGED <<deal, lastMessage, thread, product, checks, returned, requests, faults>>

SendDeal(t) ==
  /\ At(t, "sendDeal")
  /\ status' = "po_sent"
  /\ Return(t)
  /\ UNCHANGED <<agreed, lastMessage, thread, product, po, checks, returned,
                 requests, faults, disturbed>>

Sign(t) ==
  /\ OnDeal(t)
  /\ po # NoPo
  /\ Become(t, [Idle EXCEPT !.pc = "signPo"])
  /\ UNCHANGED <<deal, lastMessage, thread, product, po, checks, returned, disturbed>>

SignPo(t) ==
  /\ At(t, "signPo")
  /\ po' = [po EXCEPT !.status = "signed", !.signature = TRUE]
  /\ Goto(t, "signDeal")
  /\ Disturb("status", InSend)
  /\ UNCHANGED <<deal, lastMessage, thread, product, checks, returned, requests, faults>>

(* Faulty variant: signing forgets to move the deal. *)
SignDealNot(t) ==
  /\ At(t, "signDeal")
  /\ Return(t)
  /\ UNCHANGED <<deal, lastMessage, thread, product, po, checks, returned,
                 requests, faults, disturbed>>

SignDeal(t) ==
  /\ At(t, "signDeal")
  /\ status' = "po_signed"
  /\ Return(t)
  /\ UNCHANGED <<agreed, lastMessage, thread, product, po, checks, returned,
                 requests, faults, disturbed>>

-----------------------------------------------------------------------------
(* Compliance checks. *)

(* Faulty variant: a warning outranks a failure. *)
OverallWarnFirst(verdicts) ==
  IF "warn" \in verdicts THEN "warn" ELSE IF "fail" \in verdicts THEN "fail" ELSE "pass"

Overall(verdicts) ==
  IF "fail" \in verdicts THEN "fail" ELSE IF "warn" \in verdicts THEN "warn" ELSE "pass"

Verdicts(batches) == UNION {Range(b.verdict) : b \in Range(batches)}

(* What GET deals/:id/compliance answers. *)
Listed == Overall(Verdicts(checks))

(* Faulty variant: the floor is taken for a ceiling. *)
PriceCheckReversed(price, p) ==
  IF NoPrice \in {price, p.floor} THEN "warn" ELSE IF p.floor >= price THEN "pass" ELSE "fail"

PriceCheck(price, p) ==
  IF NoPrice \in {price, p.floor} THEN "warn" ELSE IF price >= p.floor THEN "pass" ELSE "fail"

RunChecks(t) ==
  /\ OnDeal(t)
  /\ Become(t, [Idle EXCEPT !.pc = "readProduct", !.price = agreed])
  /\ UNCHANGED <<deal, lastMessage, thread, product, po, checks, returned, disturbed>>

(* The product is read and the registry asked; a registry that does not    *)
(* answer degrades the first check to a warning.                           *)
DrawVerdicts(t) ==
  /\ At(t, "readProduct")
  /\ \E nib \in Verdict :
       Become(t, [task[t] EXCEPT !.pc = "delete", !.product = product,
                    !.verdict = [nib   |-> nib,
                                 hs    |-> IF product.hs THEN "pass" ELSE "warn",
                                 price |-> PriceCheck(task[t].price, product),
                                 capacity |-> IF product.capacity THEN "pass" ELSE "warn"]])
  /\ UNCHANGED <<deal, lastMessage, thread, product, po, checks, returned,
                 requests, faults, disturbed>>

DeleteChecks(t) ==
  /\ At(t, "delete")
  /\ checks' = <<>>
  /\ Goto(t, "insert")
  /\ UNCHANGED <<deal, lastMessage, thread, product, po, returned, requests, faults, disturbed>>

InsertChecks(t) ==
  /\ At(t, "insert")
  /\ LET b == [verdict |-> task[t].verdict, agreed |-> task[t].price, product |-> task[t].product]
     IN  /\ checks' = Append(checks, b)
         /\ returned' = Overall(Range(b.verdict))
  /\ Return(t)
  /\ UNCHANGED <<deal, lastMessage, thread, product, po, requests, faults, disturbed>>

-----------------------------------------------------------------------------
(* The negotiation thread. *)

PostMessage(t) ==
  /\ OnDeal(t)
  /\ \E b \in BOOLEAN : Become(t, [Idle EXCEPT !.pc = "message", !.buyer = b])
  /\ UNCHANGED <<deal, lastMessage, thread, product, po, checks, returned, disturbed>>

(* Faulty variant: the opening counter-offer is already an acceptance. *)
BuyerReplyAtOnce(t) ==
  /\ OnDeal(t)
  /\ \E p \in Prices \ {0} :
       Become(t, [Idle EXCEPT !.pc = "message", !.buyer = TRUE, !.price = p, !.accepts = TRUE])
  /\ UNCHANGED <<deal, lastMessage, thread, product, po, checks, returned, disturbed>>

(* The gateway's buyer reply reads the thread.  The simulated buyer's      *)
(* first turn is a counter-offer, every later one accepts at a price       *)
(* settled from what the request says.                                     *)
BuyerReply(t) ==
  /\ OnDeal(t)
  /\ \E p \in Prices \ {0} :
       Become(t, [Idle EXCEPT !.pc = "message", !.buyer = TRUE, !.price = p,
                              !.accepts = "buyer" \in Range(thread)])
  /\ UNCHANGED <<deal, lastMessage, thread, product, po, checks, returned, disturbed>>

InsertMessage(t) ==
  /\ At(t, "message")
  /\ thread' = Append(thread, IF task[t].buyer THEN "buyer" ELSE "umkm")
  /\ Become(t, [task[t] EXCEPT !.pc = "mirror", !.said = Len(thread) + 1])
  /\ Disturb("mirror", \E u \in Tasks : At(u, "mirror"))
  /\ UNCHANGED <<deal, lastMessage, product, po, checks, returned, requests, faults>>

(* Faulty variant: the mirror is ahead of the thread. *)
MirrorAhead(t) ==
  /\ At(t, "mirror")
  /\ lastMessage' = task[t].said + 1
  /\ IF task[t].accepts THEN Goto(t, "accept") ELSE Return(t)
  /\ UNCHANGED <<deal, thread, product, po, checks, returned, requests, faults, disturbed>>

(* Faulty variant: the message is not mirrored. *)
MirrorNothing(t) ==
  /\ At(t, "mirror")
  /\ IF task[t].accepts THEN Goto(t, "accept") ELSE Return(t)
  /\ UNCHANGED <<deal, lastMessage, thread, product, po, checks, returned, requests, faults,
                 disturbed>>

MirrorMessage(t) ==
  /\ At(t, "mirror")
  /\ lastMessage' = task[t].said
  /\ IF task[t].accepts THEN Goto(t, "accept") ELSE Return(t)
  /\ UNCHANGED <<deal, thread, product, po, checks, returned, requests, faults, disturbed>>

(* The gateway's PATCH of an accepted reply. *)
Accept(t) ==
  /\ At(t, "accept")
  /\ status' = "compliance" /\ agreed' = task[t].price
  /\ Return(t)
  /\ disturbed' = disturbed \union (IF StatusMatters THEN {"status"} ELSE {})
                            \union (IF agreed' # agreed /\ PriceMatters THEN {"price"} ELSE {})
  /\ UNCHANGED <<lastMessage, thread, product, po, checks, returned, requests, faults>>

-----------------------------------------------------------------------------
(* A request breaks off where it stands: a statement fails, a service is   *)
(* killed, or the gateway's client timeout ends the reply it was driving.  *)
(* The rows written so far stay.                                           *)
BreakOff(t) ==
  /\ ~At(t, "idle")
  /\ faults < MaxFaults
  /\ faults' = faults + 1
  /\ Return(t)
  /\ UNCHANGED <<deal, lastMessage, thread, product, po, checks, returned, requests, disturbed>>

Deals(t)      == CreateDeal(t) \/ PatchDeal(t) \/ EditProduct(t)
Orders(t)     == \/ Generate(t) \/ FindPo(t) \/ InsertPo(t)
                 \/ Send(t) \/ SendPo(t) \/ SendDeal(t)
                 \/ Sign(t) \/ SignPo(t) \/ SignDeal(t)
Compliance(t) == RunChecks(t) \/ DrawVerdicts(t) \/ DeleteChecks(t) \/ InsertChecks(t)
Thread(t)     == \/ PostMessage(t) \/ BuyerReply(t)
                 \/ InsertMessage(t) \/ MirrorMessage(t) \/ Accept(t)

Next == \E t \in Tasks : Deals(t) \/ Orders(t) \/ Compliance(t) \/ Thread(t) \/ BreakOff(t)

Spec == Init /\ [][Next]_vars
-----------------------------------------------------------------------------
(* Properties. *)

TypeOK ==
  /\ status \in Range(DealStatus) \union {"none"} /\ agreed \in Price
  /\ thread \in Seq(Sender) /\ lastMessage \in 0 .. Len(thread)
  /\ product \in Product /\ po \in Po
  /\ checks \in Seq(Batch) /\ returned \in Verdict \union {"none"}
  /\ task \in [Tasks -> Task]
  /\ requests \in 0 .. MaxRequests /\ faults \in 0 .. MaxFaults
  /\ disturbed \subseteq {"status", "price", "mirror"}

(* However many generate, send and sign requests overlap, and whatever      *)
(* happens to the deal meanwhile, an order that exists keeps its terms: a   *)
(* generate never replaces it (purchase-order.service.ts 25-28 and the      *)
(* unique deal_id).                                                         *)
PoTermsFrozen == [][po # NoPo => po'.status # "none" /\ po'.price = po.price]_vars

(* An order is at the price the deal agrees on, unless that price was       *)
(* written after the generate request had read it.                          *)
PoAtAgreedPrice == po # NoPo /\ "price" \notin disturbed => po.price = agreed

(* Once no send or sign is half done, the deal says what its order says.    *)
(* The only ways out of step are a request that broke off, a send crossing  *)
(* a sign, and a status written from elsewhere after the order was sent:    *)
(* repeated or overlapping sends (or signs) do no harm.                     *)
DealFollowsOrder ==
  /\ faults = 0 /\ "status" \notin disturbed
  /\ \A t \in Tasks : task[t].pc \notin {"sendDeal", "signDeal"}
  => /\ po.status = "sent" => status = "po_sent"
     /\ po.status = "signed" => status = "po_signed"

Severity(v) == CASE v = "pass" -> 0 [] v = "warn" -> 1 [] v = "fail" -> 2 [] v = "none" -> 0

(* Overlapping compliance runs delete and insert in any order, yet once     *)
(* none is half done the rows hold the latest run's in full, and what is    *)
(* listed is never better than what that run answered.                      *)
ListedNotOptimistic ==
  faults = 0 /\ returned # "none" /\ (\A t \in Tasks : ~At(t, "insert"))
    => checks # <<>> /\ Severity(Listed) >= Severity(returned)

(* A listed "pass" over rows that one run computed from the deal and the    *)
(* product as they are now means what it says: a classified product with a  *)
(* declared capacity, and an agreed price not below the floor.              *)
PassIsEarned ==
  /\ checks # <<>> /\ Listed = "pass"
  /\ \E b \in Range(checks) : b.agreed = agreed /\ b.product = product
  => product.hs /\ product.capacity /\ agreed # NoPrice /\ agreed >= product.floor

(* The deal shows its newest message as its last, unless two messages were  *)
(* written at once, a PATCH wrote another text, or a request broke off      *)
(* between the message and its mirror.                                      *)
MirrorIsNewest ==
  /\ faults = 0 /\ "mirror" \notin disturbed
  /\ \A t \in Tasks : ~At(t, "mirror")
  => lastMessage = Len(thread)

(* A price is agreed through a buyer reply only after a counter-offer: the  *)
(* buyer has spoken at least once before the message that accepts, however  *)
(* replies overlap.                                                         *)
AcceptFollowsCounter ==
  \A t \in Tasks : At(t, "accept") =>
    \E i, j \in 1 .. Len(thread) : i < j /\ j <= task[t].said /\ thread[i] = "buyer" /\ thread[j] = "buyer"
=============================================================================
